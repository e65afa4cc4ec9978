----------------------------- MODULE HostUpdate -----------------------------
(***************************************************************************)
(* Host updates requested from the dashboard.  scripts/host_supervisor.py  *)
(* checks what blocks an update, starts scripts/maintain.sh in a session   *)
(* of its own, records it in update-state.json and waits for it in a       *)
(* thread; status requests read that file, and correct it when the process *)
(* it names is gone.  The supervisor may be killed and started again while *)
(* the update goes on.  maintain.sh ends at its first failing step.        *)
(***************************************************************************)
EXTENDS Naturals, FiniteSets

CONSTANTS Requesters,   \* handler threads with an update request
          MaxUpdates,   \* bound of the model: updates started
          MaxCrashes    \* bound of the model: deaths of the supervisor

VARIABLES updater,    \* per update: the step of maintain.sh, or how it ended
          reaped,     \* the updates whose process is gone from the process table
          stateFile,  \* update-state.json
          request,    \* what each handler is doing
          waiter,     \* the waiter thread of each update
          reader,     \* the thread in update_state(), and the pid it saw running
          training,   \* a run is starting, running or stopping
          containers, \* the compose project is up
          crashes,
          forgotten   \* updates no record names any more: the supervisor died before
                      \* recording them, or an older waiter wrote over the record
vars == <<updater, reaped, stateFile, request, waiter, reader, training, containers,
          crashes, forgotten>>

Updates == 1..MaxUpdates
\* prepare_checkout, the environment and frontend, build_containers down and up, the tests
Steps == <<"checkout", "sync", "down", "up", "verify">>
Stages == {Steps[i] : i \in 1..5}
Ends == {"success", "error"}
Unstarted == {u \in Updates : updater[u] = "none"}
Alive == {u \in Updates : updater[u] \in Stages}
Nobody == [by |-> "nobody", saw |-> 0]
State(status, pid) == [status |-> status, pid |-> pid]

TypeOK ==
  /\ updater \in [Updates -> {"none"} \cup Stages \cup Ends]
  /\ reaped \subseteq {u \in Updates : updater[u] \in Ends}
  /\ stateFile \in [status : {"idle", "running", "unknown"} \cup Ends, pid : 0..MaxUpdates]
  /\ request \in [Requesters -> [at : {"idle", "checking", "allowed", "started"},
                                 update : 0..MaxUpdates]]
  /\ waiter \in [Updates -> {"none", "waiting", "returned"}]
  /\ reader \in [by : {"nobody", "status"} \cup Requesters, saw : 0..MaxUpdates]
  /\ {training, containers} \subseteq BOOLEAN
  /\ forgotten \subseteq Updates

AtRest == [at |-> "idle", update |-> 0]
Init ==
  /\ updater = [u \in Updates |-> "none"] /\ reaped = {}
  /\ stateFile = State("idle", 0)
  /\ request = [r \in Requesters |-> AtRest]
  /\ waiter = [u \in Updates |-> "none"] /\ reader = Nobody
  /\ training \in BOOLEAN /\ containers = TRUE
  /\ crashes = 0 /\ forgotten = {}

----------------------------------------------------------------------------
\* update_state(), under the lock of repository_status

\* Seeded defect: a state that says running is believed without looking for the process.
LookBelieving(who) ==
  /\ reader' = [by |-> who, saw |-> 0]

Look(who) ==
  reader' = [by |-> who, saw |-> IF stateFile.status = "running" THEN stateFile.pid ELSE 0]

\* the process is gone: the outcome is written as unknown
Correct ==
  stateFile' = IF reader.saw \in reaped THEN State("unknown", reader.saw) ELSE stateFile

\* a status request that the cache does not answer
StatusLooks ==
  /\ reader = Nobody /\ Look("status")
  /\ UNCHANGED <<updater, reaped, stateFile, request, waiter, training, containers,
                 crashes, forgotten>>
StatusAnswers ==
  /\ reader.by = "status" /\ Correct /\ reader' = Nobody
  /\ UNCHANGED <<updater, reaped, request, waiter, training, containers, crashes, forgotten>>

----------------------------------------------------------------------------
\* start_update(), one handler at a time

Locked == \E r \in Requesters : request[r].at # "idle"

Ask(r) ==
  /\ ~Locked /\ Unstarted # {} /\ reader = Nobody
  /\ request' = [request EXCEPT ![r].at = "checking"]
  /\ Look(r)
  /\ UNCHANGED <<updater, reaped, stateFile, waiter, training, containers, crashes, forgotten>>

\* Seeded defect: an update that is running does not block another one.
BlockedByTraining == training

\* the blockers that others can change: an active run, an update that runs
Blocked == training \/ stateFile'.status = "running"

\* repository_status(refresh=True); the checkout may block the update as well
Decide(r) ==
  /\ request[r].at = "checking"
  /\ Correct /\ reader' = Nobody
  /\ \/ ~Blocked /\ request' = [request EXCEPT ![r].at = "allowed"]
     \/ request' = [request EXCEPT ![r] = AtRest]
  /\ UNCHANGED <<updater, reaped, waiter, training, containers, crashes, forgotten>>

Start(r) ==
  /\ request[r].at = "allowed"
  /\ \E u \in Unstarted : /\ \A v \in Unstarted : u <= v
                          /\ updater' = [updater EXCEPT ![u] = "checkout"]
                          /\ request' = [request EXCEPT ![r] = [at |-> "started", update |-> u]]
  /\ UNCHANGED <<reaped, stateFile, waiter, reader, training, containers, crashes, forgotten>>

\* the state is written and the waiter thread started
Record(r) ==
  /\ request[r].at = "started"
  /\ stateFile' = State("running", request[r].update)
  /\ waiter' = [waiter EXCEPT ![request[r].update] = "waiting"]
  /\ request' = [request EXCEPT ![r] = AtRest]
  /\ UNCHANGED <<updater, reaped, reader, training, containers, crashes, forgotten>>

----------------------------------------------------------------------------
\* wait_for_update()

WaitReturns(u) ==
  /\ waiter[u] = "waiting" /\ updater[u] \in Ends
  /\ waiter' = [waiter EXCEPT ![u] = "returned"]
  /\ reaped' = reaped \cup {u}
  /\ UNCHANGED <<updater, stateFile, request, reader, training, containers, crashes, forgotten>>

\* the newer update whose record this write replaces
Overwritten(u) == IF stateFile.status = "running" THEN {stateFile.pid} \ {u} ELSE {}

\* Seeded defect: the waiter records that the update is over, not how it ended.
FinishAlwaysSuccess(u) ==
  /\ waiter[u] = "returned"
  /\ stateFile' = State("success", u)
  /\ waiter' = [waiter EXCEPT ![u] = "none"]
  /\ forgotten' = forgotten \cup Overwritten(u)
  /\ UNCHANGED <<updater, reaped, request, reader, training, containers, crashes>>

\* whatever the file says meanwhile
Finish(u) ==
  /\ waiter[u] = "returned"
  /\ stateFile' = State(updater[u], u)
  /\ waiter' = [waiter EXCEPT ![u] = "none"]
  /\ forgotten' = forgotten \cup Overwritten(u)
  /\ UNCHANGED <<updater, reaped, request, reader, training, containers, crashes>>

\* the supervisor dies with its threads and is started again; what it started goes on
Crash ==
  /\ crashes < MaxCrashes /\ crashes' = crashes + 1
  /\ forgotten' = forgotten \cup ({request[r].update : r \in Requesters} \ {0})
  /\ request' = [r \in Requesters |-> AtRest]
  /\ waiter' = [u \in Updates |-> "none"] /\ reader' = Nobody
  /\ UNCHANGED <<updater, reaped, stateFile, training, containers>>

----------------------------------------------------------------------------
\* maintain.sh

Following(stage) == Steps[1 + CHOOSE i \in 1..4 : Steps[i] = stage]

\* a step succeeds: taking the containers down ends every run in them
Advance(u) ==
  /\ u \in Alive
  /\ updater' = [updater EXCEPT ![u] = IF @ = "verify" THEN "success" ELSE Following(@)]
  /\ training' = IF updater[u] = "down" THEN FALSE ELSE training
  /\ containers' = CASE updater[u] = "down" -> FALSE
                     [] updater[u] = "up" -> TRUE
                     [] OTHER -> containers
  /\ UNCHANGED <<reaped, stateFile, request, waiter, reader, crashes, forgotten>>

\* set -e, or die
Fail(u) ==
  /\ u \in Alive
  /\ updater' = [updater EXCEPT ![u] = "error"]
  /\ UNCHANGED <<reaped, stateFile, request, waiter, reader, training, containers,
                 crashes, forgotten>>

\* a process whose supervisor died is reaped by the system
ReapOrphan(u) ==
  /\ updater[u] \in Ends /\ u \notin reaped /\ waiter[u] = "none"
  /\ \A r \in Requesters : request[r].update # u
  /\ reaped' = reaped \cup {u}
  /\ UNCHANGED <<updater, stateFile, request, waiter, reader, training, containers,
                 crashes, forgotten>>

\* runs start and end by themselves; they need the containers
Train == training' = (~training /\ containers)
         /\ UNCHANGED <<updater, reaped, stateFile, request, waiter, reader, containers,
                        crashes, forgotten>>

Next ==
  \/ StatusLooks \/ StatusAnswers \/ Crash \/ Train
  \/ \E r \in Requesters : Ask(r) \/ Decide(r) \/ Start(r) \/ Record(r)
  \/ \E u \in Updates : \/ WaitReturns(u) \/ Finish(u)
                        \/ Advance(u) \/ Fail(u) \/ ReapOrphan(u)

\* the dashboard asks for the status again and again; threads, the script and the
\* system make progress
Fairness ==
  /\ SF_vars(StatusLooks) /\ WF_vars(StatusAnswers)
  /\ \A r \in Requesters : WF_vars(Decide(r)) /\ WF_vars(Start(r)) /\ WF_vars(Record(r))
  /\ \A u \in Updates : WF_vars(WaitReturns(u)) /\ WF_vars(Finish(u))
                        /\ WF_vars(Advance(u) \/ Fail(u)) /\ WF_vars(ReapOrphan(u))
Spec == Init /\ [][Next]_vars /\ Fairness

(***************************************************************************)
(* Properties                                                              *)
(***************************************************************************)

\* Two maintenance scripts never work on the checkout at once, through any number of
\* requests and deaths of the supervisor, as long as the state file names the one that
\* works: nothing else remembers the process (start_update).
OneUpdate == Cardinality(Alive \ forgotten) <= 1

\* "an update is already running" blocks another one while the supervisor lives
\* (host_supervisor.py:250-251).  A waiter that writes late breaks it: a status request
\* has found its update gone, the next update was started and recorded, and the late
\* outcome replaces that record.
UpdatesNeverOverlap == crashes = 0 => Cardinality(Alive) <= 1

\* What the state file says of an update that ended is how it ended: success is never
\* claimed for a script that failed or still runs, whoever writes last
\* (wait_for_update, update_state).
OutcomeIsTrue == stateFile.status \in Ends => updater[stateFile.pid] = stateFile.status

\* An update that is recorded as running does not stay so for ever: the waiter records
\* its end, or after a crash a later status request finds the process gone.
UpdateIsSettled == (stateFile.status = "running") ~> (stateFile.status # "running")

(***************************************************************************)
(* The inductive invariant.  Two updates at work whose record stands would *)
(* need two records: one file names one of them, and a handler that has    *)
(* started another one found, under the lock, that the file did not name a *)
(* running one.                                                            *)
(***************************************************************************)

\* The part of TypeOK that the rest of the invariant is about.
Types ==
  /\ updater \in [Updates -> {"none"} \cup Stages \cup Ends]
  /\ request \in [Requesters -> [at : {"idle", "checking", "allowed", "started"},
                                 update : 0..MaxUpdates]]
  /\ waiter \in [Updates -> {"none", "waiting", "returned"}]
  /\ stateFile \in [status : {"idle", "running", "unknown"} \cup Ends, pid : Nat]

\* Only an update that has ended is reaped, and only then does its waiter return.
Ended ==
  /\ reaped \subseteq {u \in Updates : updater[u] \in Ends}
  /\ \A u \in Updates : waiter[u] = "returned" => updater[u] \in Ends

OneHandler ==
  \A r, s \in Requesters : request[r].at # "idle" /\ request[s].at # "idle" => r = s

Past(r) == request[r].at \in {"allowed", "started"}

\* A handler past its check: the file names no running update, no reader saw one.
CheckStands ==
  \A r \in Requesters : Past(r) => stateFile.status # "running" /\ reader.saw = 0

\* What a reader saw running is what the file names, if it names one at all.
SawTheRecorded ==
  reader.saw # 0 /\ stateFile.status = "running" => stateFile.pid = reader.saw

Recorded(u) == stateFile.status = "running" /\ stateFile.pid = u
Starting(u) == \E r \in Requesters : request[r].at = "started" /\ request[r].update = u

Accounted == \A u \in Alive \ forgotten : Recorded(u) \/ Starting(u)

IInv == /\ Types /\ Ended /\ OneHandler /\ CheckStands /\ SawTheRecorded
        /\ Accounted /\ OutcomeIsTrue

\* What is recorded or being recorded is an update: what TypeOK needs beside IInv.
Named ==
  /\ stateFile.status = "running" => stateFile.pid \in Updates
  /\ \A r \in Requesters : request[r].at = "started" => request[r].update \in Updates
=============================================================================
