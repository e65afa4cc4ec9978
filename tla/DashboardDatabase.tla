-------------------------- MODULE DashboardDatabase -------------------------
(***************************************************************************)
(* The optional database behind the dashboard (dashboard/database.py): an  *)
(* index of the runs, the events that explain its changes, and an index of *)
(* the checkpoints.  The thread that rebuilds the run index, the one that  *)
(* builds the overview and request threads all write it, without a lock    *)
(* of their own: each reads files first and opens a transaction later.     *)
(* The first failure of any of them turns the database off for all.        *)
(***************************************************************************)
EXTENDS Naturals, Sequences, SequencesExt

CONSTANTS Syncers,     \* threads that sync the run
          Listers,     \* requests that sync the checkpoints of the run
          MaxSyncs     \* bound of the model: calls of each syncer, a lister makes one

States == <<"running", "stopping", "finished">>
Nothing == 0           \* no row; a row's state is an index of States

VARIABLES files,       \* the state that the run's files show
          row,         \* dashboard_runs: the run's row
          events,      \* dashboard_events of this run, in commit order
          checkpoint,  \* the row of a checkpoint exists
          available,   \* engine and sessions are there and no error was noted
          thread,      \* what each thread is doing
          synced       \* calls begun by each thread
vars == <<files, row, events, checkpoint, available, thread, synced>>

Threads == Syncers \cup Listers
AtRest == [at |-> "rest", shows |-> Nothing, old |-> Nothing, new |-> FALSE]
TypeOK ==
  /\ files \in 1..3 /\ row \in 0..3
  /\ events \in Seq([from : 1..3, to : 1..3])
  /\ {checkpoint, available} \subseteq BOOLEAN
  /\ thread \in [Threads -> [at : {"rest", "check", "open", "read", "failed"},
                             shows : 0..3, old : 0..3, new : BOOLEAN]]
  /\ synced \in [Threads -> 0..MaxSyncs]

\* initialize() connected and migrated, or gave up and the dashboard goes on without
Init ==
  /\ files = 1 /\ row = Nothing /\ events = <<>> /\ checkpoint = FALSE
  /\ available \in BOOLEAN
  /\ thread = [t \in Threads |-> AtRest] /\ synced = [t \in Threads |-> 0]

Proceed == files < 3 /\ files' = files + 1
           /\ UNCHANGED <<row, events, checkpoint, available, thread, synced>>

\* a thread has summarised the run, or listed its checkpoints, and calls the database
Summarise(t) ==
  /\ thread[t].at = "rest"
  /\ synced[t] < IF t \in Syncers THEN MaxSyncs ELSE 1
  /\ thread' = [thread EXCEPT ![t] = [AtRest EXCEPT !.at = "check", !.shows = files]]
  /\ synced' = [synced EXCEPT ![t] = @ + 1]
  /\ UNCHANGED <<files, row, events, checkpoint, available>>

\* the test of available at the head of every method
Check(t) ==
  /\ thread[t].at = "check"
  /\ thread' = [thread EXCEPT ![t] = IF available THEN [@ EXCEPT !.at = "open"] ELSE AtRest]
  /\ UNCHANGED <<files, row, events, checkpoint, available, synced>>

\* _session(): another thread may have turned the database off since the test, and
\* the RuntimeError is not one that the method or its caller expects
OpenFails(t) ==
  /\ thread[t].at = "open" /\ ~available
  /\ thread' = [thread EXCEPT ![t] = [AtRest EXCEPT !.at = "failed"]]
  /\ UNCHANGED <<files, row, events, checkpoint, available, synced>>

\* session.get: the row as it is committed now
Read(t) ==
  /\ thread[t].at = "open" /\ available
  /\ thread' = [thread EXCEPT ![t].at = "read", ![t].old = row, ![t].new = ~checkpoint]
  /\ UNCHANGED <<files, row, events, checkpoint, available, synced>>

\* a row that was changed since, and inserting one that another thread inserted
Conflict(t) == IF t \in Syncers THEN thread[t].old = Nothing /\ row # Nothing
                                ELSE thread[t].new /\ checkpoint

\* Seeded defect: the state is always written, the event only for a run that ends.
NotedEnds(old, new) == IF new = 3 /\ old # new THEN <<[from |-> old, to |-> new]>> ELSE <<>>

\* the event of a transaction: the change from the state it read to the one it was given
Noted(old, new) ==
  IF old # Nothing /\ old # new THEN <<[from |-> old, to |-> new]>> ELSE <<>>

\* an attribute that is set to the value it was read with is not written
Updated(old, new) == IF old = new THEN row ELSE new

\* commit, on the connection the session has; the database may be off by now
Commit(t) ==
  /\ thread[t].at = "read" /\ ~Conflict(t)
  /\ IF t \in Syncers
     THEN /\ row' = Updated(thread[t].old, thread[t].shows)
          /\ events' = events \o Noted(thread[t].old, thread[t].shows)
          /\ UNCHANGED checkpoint
     ELSE checkpoint' = TRUE /\ UNCHANGED <<row, events>>
  /\ thread' = [thread EXCEPT ![t] = AtRest]
  /\ UNCHANGED <<files, available, synced>>

\* _mark_unavailable: the transaction is rolled back, nothing is retried, and the
\* database stays off until the dashboard is started again
CommitFails(t) ==
  /\ thread[t].at = "read"
  /\ available' = FALSE
  /\ thread' = [thread EXCEPT ![t] = AtRest]
  /\ UNCHANGED <<files, row, events, checkpoint, synced>>

Next ==
  \/ Proceed
  \/ \E t \in Threads : \/ Summarise(t) \/ Check(t) \/ OpenFails(t) \/ Read(t)
                        \/ Commit(t) \/ CommitFails(t)
Spec == Init /\ [][Next]_vars

(***************************************************************************)
(* Properties                                                              *)
(***************************************************************************)

\* The activity feed leads to the row: whichever threads read old files, overlap or
\* fail, the last event is the change that gave the row its state (sync_run: the row and
\* its event are one transaction).
EventsLeadToTheRow ==
  events # <<>> => row = Last(events).to

(***************************************************************************)
(* The inductive invariant                                                 *)
(***************************************************************************)

RowTypes == row \in 0..3 /\ files \in 1..3 /\ events \in Seq([from : 1..3, to : 1..3])

\* What a thread carries to its transaction: a state some files showed, and a row that
\* was committed.
Carried ==
  /\ thread \in [Threads -> [at : {"rest", "check", "open", "read", "failed"},
                             shows : 0..3, old : 0..3, new : BOOLEAN]]
  /\ \A t \in Threads : thread[t].at \in {"check", "open", "read"} => thread[t].shows # Nothing

IInv == RowTypes /\ Carried /\ EventsLeadToTheRow
=============================================================================
