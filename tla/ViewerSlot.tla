---------------------------- MODULE ViewerSlot ----------------------------
(***************************************************************************)
(* The dashboard's one viewer slot (viewer_service.py): requests that      *)
(* start, stop and look at the viewer, the detached worker process that    *)
(* fills it, the daemon thread that escalates a stop from SIGINT to        *)
(* SIGTERM to SIGKILL, and the dashboard's own shutdown, death and         *)
(* restart.                                                                *)
(*                                                                         *)
(* Every request and every look of an escalation thread runs under the     *)
(* service's lock and is one step; the escalation's two sleeps are between *)
(* steps.  What a lock cannot protect is modelled as it is: a process      *)
(* exits whenever it wants, and once it has been waited for, its process   *)
(* id may be given to anybody.                                             *)
(***************************************************************************)
EXTENDS FiniteSets

CONSTANTS
  Viewers,    \* viewer ids, each used once (uuid4)
  Pids,       \* process ids, used again and again
  Faults,     \* what may go wrong: subset of FaultKinds
  Other,      \* owner of a process that has nothing to do with viewers
  None        \* no viewer, no process, no owner

VARIABLES
  active,     \* the service's _active
  process,    \* the operating system's process table
  port,       \* the process that listens on the viewer port, or None
  pidOf,      \* the process id a viewer was started with, or None
  escalation, \* each viewer's _escalate_stop thread
  received,   \* history: the signals each owner's processes received
  orphans,    \* viewers whose dashboard is gone
  dashboard   \* the dashboard process

vars == <<active, process, port, pidOf, escalation, received, orphans, dashboard>>

FaultKinds == {"thread_start_fails", "dashboard_dies"}
Busy == {"starting", "running", "stopping"}
Signals == {"INT", "TERM", "KILL"}

(* exit is process.returncode; "none" until a poll has seen the exit. *)
ManagedViewer == [id : Viewers, pid : Pids, state : Busy \cup {"stopped", "failed"},
                  exit : {"none", "zero", "nonzero"}]

Process == [owner : Viewers \cup {Other, None}, life : {"free", "alive", "zombie"},
            exit : {"none", "zero", "nonzero"}]
Free == [owner |-> None, life |-> "free", exit |-> "none"]

ASSUME ConstantsOK ==
  /\ Faults \subseteq FaultKinds
  /\ Other # None
  /\ {Other, None} \cap Viewers = {}
  /\ None \notin Pids
  /\ None \notin ManagedViewer

Init ==
  /\ active = None
  /\ process = [p \in Pids |-> Free]
  /\ port = None
  /\ pidOf = [v \in Viewers |-> None]
  /\ escalation = [v \in Viewers |-> "none"]
  /\ received = [o \in Viewers \cup {Other} |-> {}]
  /\ orphans = {}
  /\ dashboard = "up"

---------------------------------------------------------------------------
(* process.poll(): the exit code, and from then on the pid is free.        *)
Polled(v) == IF v.exit = "none" /\ process[v.pid].life = "zombie"
             THEN [v EXCEPT !.exit = process[v.pid].exit] ELSE v
Reaped(v) == IF v # None /\ v.exit = "none" /\ process[v.pid].life = "zombie"
             THEN [process EXCEPT ![v.pid] = Free] ELSE process

(* _refresh_locked, where opened is what the port probe of 80 ms says. *)
Refreshed(v, opened) ==
  LET polled == Polled(v) IN
  [polled EXCEPT !.state =
    CASE polled.exit # "none" -> IF v.state = "stopping" \/ polled.exit = "zero"
                                 THEN "stopped" ELSE "failed"
      [] polled.exit = "none" /\ v.state = "stopping" -> "stopping"
      [] OTHER -> IF opened THEN "running" ELSE "starting"]

(* A listening port may miss the 80 ms; nobody's port never answers. *)
ProbeSays(opened) == opened => port # None

Signal(v, sig) ==
  LET target == process[v.pid] IN
  received' = IF target.life = "alive"
              THEN [received EXCEPT ![target.owner] = @ \cup {sig}] ELSE received

---------------------------------------------------------------------------
(* start.  The viewer that was in the slot has exited, or the request is   *)
(* refused: by the slot, by the port, or for any reason of its own.  (The  *)
(* snapshot that start returns is the first Snapshot of the new viewer.)   *)
\* Seeded defect: a viewer that is still stopping does not fill the slot.
SlotFreeIfStopping(v) == v # None => v.state \notin {"starting", "running"}

SlotFree(v) == v # None => v.state \notin Busy

LookInSlot(opened) ==
  IF active = None THEN None ELSE Refreshed(active, opened)

Start(id, pid) ==
  /\ dashboard = "up"
  /\ pidOf[id] = None
  /\ Reaped(active)[pid] = Free
  /\ \E opened \in BOOLEAN : ProbeSays(opened) /\ SlotFree(LookInSlot(opened))
  /\ active' = [id |-> id, pid |-> pid, state |-> "starting", exit |-> "none"]
  /\ process' = [Reaped(active) EXCEPT
                   ![pid] = [owner |-> id, life |-> "alive", exit |-> "none"]]
  /\ pidOf' = [pidOf EXCEPT ![id] = pid]
  /\ UNCHANGED <<port, escalation, received, orphans, dashboard>>

StartRefused ==
  /\ dashboard = "up"
  /\ active # None
  /\ \E opened \in BOOLEAN : ProbeSays(opened) /\ active' = LookInSlot(opened)
  /\ process' = Reaped(active)
  /\ UNCHANGED <<port, pidOf, escalation, received, orphans, dashboard>>

(* get and list.  (So do the requests for waypoints, captures and          *)
(* explanations begin; the files they write are not part of the slot.)     *)
Snapshot ==
  /\ dashboard = "up"
  /\ active # None
  /\ \E opened \in BOOLEAN : ProbeSays(opened) /\ active' = Refreshed(active, opened)
  /\ process' = Reaped(active)
  /\ UNCHANGED <<port, pidOf, escalation, received, orphans, dashboard>>

(* _begin_stop_locked: only the first stop of a viewer signals it.         *)
BeginStop(v) ==
  \/ /\ v.state = "stopping"
     /\ active' = v
     /\ UNCHANGED <<received, escalation>>
  \/ /\ v.state \in {"starting", "running"}
     /\ active' = [v EXCEPT !.state = "stopping"]
     /\ Signal(v, "INT")
     /\ \/ escalation' = [escalation EXCEPT ![v.id] = "grace"]
        \/ "thread_start_fails" \in Faults /\ UNCHANGED escalation

(* stop.  An exited viewer is refreshed twice, here and in the snapshot    *)
(* that is returned; of a live one the second refresh is a Snapshot.       *)
Stop ==
  /\ dashboard = "up"
  /\ active # None
  /\ \E opened \in BOOLEAN :
       LET v == Refreshed(active, opened) IN
       /\ ProbeSays(opened)
       /\ IF v.state \in Busy THEN BeginStop(v)
          ELSE active' = Refreshed(v, opened) /\ UNCHANGED <<received, escalation>>
  /\ process' = Reaped(active)
  /\ UNCHANGED <<port, pidOf, orphans, dashboard>>

---------------------------------------------------------------------------
(* _escalate_stop wakes up after a delay, looks, and signals or ends.      *)
NextAlarm == [grace |-> "TERM", term |-> "KILL"]

\* Seeded defect: the thread signals the process id it was given.
EscalateBlind(id) ==
  /\ escalation[id] \in DOMAIN NextAlarm
  /\ escalation' = [escalation EXCEPT ![id] = IF @ = "grace" THEN "term" ELSE "over"]
  /\ Signal([pid |-> pidOf[id]], NextAlarm[escalation[id]])
  /\ UNCHANGED <<active, process, port, pidOf, orphans, dashboard>>

\* Seeded defect: the thread does not check whose stop it escalates.
EscalateAnybody(id) ==
  LET itsTurn == /\ active # None
                 /\ active.state = "stopping"
                 /\ Polled(active).exit = "none"
  IN /\ escalation[id] \in DOMAIN NextAlarm
     /\ IF itsTurn
        THEN /\ Signal(active, NextAlarm[escalation[id]])
             /\ escalation' = [escalation EXCEPT ![id] = IF @ = "grace" THEN "term" ELSE "over"]
             /\ UNCHANGED <<active, process>>
        ELSE /\ escalation' = [escalation EXCEPT ![id] = "over"]
             /\ UNCHANGED <<active, process, received>>
     /\ UNCHANGED <<port, pidOf, orphans, dashboard>>

\* Seeded defect: the thread ends after SIGTERM.
EscalateOnce(id) ==
  /\ escalation[id] = "grace"
  /\ active # None
  /\ IF active.id = id /\ active.state = "stopping" /\ Polled(active).exit = "none"
     THEN Signal(active, "TERM") ELSE UNCHANGED received
  /\ escalation' = [escalation EXCEPT ![id] = "over"]
  /\ UNCHANGED <<active, process, port, pidOf, orphans, dashboard>>

Escalate(id) ==
  LET stopping == /\ active # None
                  /\ active.id = id /\ active.pid = pidOf[id]
                  /\ active.state = "stopping"
      itsTurn == stopping /\ Polled(active).exit = "none"
  IN /\ escalation[id] \in DOMAIN NextAlarm
     /\ IF itsTurn
        THEN /\ Signal(active, NextAlarm[escalation[id]])
             /\ escalation' = [escalation EXCEPT ![id] = IF @ = "grace" THEN "term" ELSE "over"]
        ELSE /\ escalation' = [escalation EXCEPT ![id] = "over"]
             /\ UNCHANGED received
     /\ IF stopping THEN active' = Polled(active) /\ process' = Reaped(active)
        ELSE UNCHANGED <<active, process>>
     /\ UNCHANGED <<port, pidOf, orphans, dashboard>>

---------------------------------------------------------------------------
(* The dashboard shuts down (stop_all, then the process exits), or dies.   *)
ShutDown ==
  /\ dashboard = "up"
  /\ dashboard' = "closing"
  /\ IF active = None THEN UNCHANGED <<active, process, received, escalation>>
     ELSE /\ \E opened \in BOOLEAN :
               LET v == Refreshed(active, opened) IN
               /\ ProbeSays(opened)
               /\ IF v.state \in Busy THEN BeginStop(v)
                  ELSE active' = v /\ UNCHANGED <<received, escalation>>
          /\ process' = Reaped(active)
  /\ UNCHANGED <<port, pidOf, orphans>>

(* Daemon threads end with the process; its children are init's now. *)
DashboardEnds ==
  /\ dashboard = "closing" \/ (dashboard = "up" /\ "dashboard_dies" \in Faults)
  /\ dashboard' = "down"
  /\ active' = None
  /\ escalation' = [v \in Viewers |-> IF escalation[v] = "none" THEN "none" ELSE "over"]
  /\ orphans' = {v \in Viewers : pidOf[v] # None}
  /\ process' = [p \in Pids |-> IF process[p].life = "zombie" /\ process[p].owner \in Viewers
                                THEN Free ELSE process[p]]
  /\ UNCHANGED <<port, pidOf, received>>

DashboardStarts ==
  /\ dashboard = "down"
  /\ dashboard' = "up"
  /\ UNCHANGED <<active, process, port, pidOf, escalation, received, orphans>>

---------------------------------------------------------------------------
(* The workers, and everybody else's processes.                            *)
Listen(pid) ==
  /\ process[pid].owner \in Viewers /\ process[pid].life = "alive"
  /\ port = None
  /\ port' = pid
  /\ UNCHANGED <<active, process, pidOf, escalation, received, orphans, dashboard>>

WorkerExits(pid) ==
  LET owner == process[pid].owner IN
  /\ owner \in Viewers /\ process[pid].life = "alive"
  /\ \E code \in {"zero", "nonzero"} :
       process' = [process EXCEPT ![pid] =
         IF owner \in orphans THEN Free ELSE [@ EXCEPT !.life = "zombie", !.exit = code]]
  /\ port' = IF port = pid THEN None ELSE port
  /\ UNCHANGED <<active, pidOf, escalation, received, orphans, dashboard>>

OtherStarts(pid) ==
  /\ process[pid] = Free
  /\ process' = [process EXCEPT ![pid] = [owner |-> Other, life |-> "alive", exit |-> "none"]]
  /\ UNCHANGED <<active, port, pidOf, escalation, received, orphans, dashboard>>

OtherEnds(pid) ==
  /\ process[pid].owner = Other
  /\ process' = [process EXCEPT ![pid] = Free]
  /\ UNCHANGED <<active, port, pidOf, escalation, received, orphans, dashboard>>

---------------------------------------------------------------------------
Next ==
  \/ \E id \in Viewers, pid \in Pids : Start(id, pid)
  \/ StartRefused \/ Snapshot \/ Stop
  \/ \E id \in Viewers : Escalate(id)
  \/ ShutDown \/ DashboardEnds \/ DashboardStarts
  \/ \E pid \in Pids : Listen(pid) \/ WorkerExits(pid) \/ OtherStarts(pid) \/ OtherEnds(pid)

Spec == Init /\ [][Next]_vars

(* Threads wake up, and the kernel ends a process that was sent SIGKILL.   *)
(* No worker has to act on SIGINT or SIGTERM.                              *)
Killed(pid) == process[pid].owner \in Viewers /\ "KILL" \in received[process[pid].owner]
Fairness ==
  /\ \A id \in Viewers : WF_vars(Escalate(id))
  /\ \A pid \in Pids : WF_vars(Killed(pid) /\ WorkerExits(pid))
FairSpec == Spec /\ Fairness

---------------------------------------------------------------------------
TypeOK ==
  /\ active \in {None} \cup ManagedViewer
  /\ process \in [Pids -> Process]
  /\ port \in {None} \cup Pids
  /\ pidOf \in [Viewers -> {None} \cup Pids]
  /\ escalation \in [Viewers -> {"none", "grace", "term", "over"}]
  /\ received \in [Viewers \cup {Other} -> SUBSET Signals]
  /\ orphans \subseteq Viewers
  /\ dashboard \in {"up", "closing", "down"}

Live(id) == \E p \in Pids : process[p].owner = id /\ process[p].life = "alive"

(* A live worker that this dashboard started is the one in the slot, where *)
(* a stop can reach it, and is not shown as stopped or failed: there is no *)
(* second viewer and no lost one (viewer_service.py 158-164, 529-540).     *)
LiveIsManaged ==
  \A p \in Pids :
    process[p].life = "alive" /\ process[p].owner \in Viewers \ orphans =>
      /\ active # None
      /\ active.id = process[p].owner /\ active.pid = p
      /\ active.state \in Busy

(* No signal ever goes to somebody else's process, although process ids    *)
(* are used again: no poll frees the id of a viewer that is still to be    *)
(* signalled (viewer_service.py 476-522; "never signals the trainer",      *)
(* docs/browser_policy_viewer.md 146).                                     *)
SignalsStayInSlot == received[Other] = {}

(* A viewer is escalated by its own stop only: SIGTERM after its own grace *)
(* period, SIGKILL after its own SIGTERM, whatever threads of earlier      *)
(* viewers are still asleep (viewer_service.py 506-522).                   *)
EscalationInOrder ==
  \A id \in Viewers :
    /\ "TERM" \in received[id] => escalation[id] \in {"term", "over"}
    /\ "KILL" \in received[id] => escalation[id] = "over" /\ "TERM" \in received[id]

(* A viewer whose stop has its escalation thread ends, whatever it does    *)
(* with SIGINT and SIGTERM, as long as its dashboard lives                 *)
(* (viewer_service.py 476-522).                                            *)
StopEndsViewer ==
  \A id \in Viewers : escalation[id] # "none" ~> ~Live(id) \/ id \in orphans
===========================================================================
