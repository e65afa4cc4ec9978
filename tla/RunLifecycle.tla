--------------------------- MODULE RunLifecycle ---------------------------
(***************************************************************************)
(* One dashboard-managed training run: the API thread that creates it, the *)
(* API threads that stop or poll it, the detached launcher and the trainer *)
(* it supervises.  They share one file, run_status.json, that every one of *)
(* them reads, changes in memory and writes back whole, with no lock.      *)
(*                                                                         *)
(* A read and the write that follows it are therefore separate steps, and  *)
(* so are the two halves of an atomic write by an API thread (write the    *)
(* temporary file, rename it): all API threads use the temporary name      *)
(* run_status.json.tmp, which the launcher can see in the directory.  The  *)
(* launcher's own temporary name is private to it.  (The truncation window *)
(* of a shared temporary file is the subject of module StatusFile.)        *)
(*                                                                         *)
(* The run was created by this dashboard, so that all processes share one  *)
(* PID namespace; PIDs are not reused while the run lasts.                 *)
(***************************************************************************)
CONSTANTS
  Stoppers,     \* API threads that each carry out one stop request
  Pollers,      \* API threads that summarise the run again and again
  StopStates,   \* states of the run in which a user asks for the stop
  Faults,       \* faults that may happen: subset of FaultKinds
  OrphansReaped, \* someone waits for a trainer whose launcher has died
  NoDoc         \* "there is no such document"

VARIABLES
  status,       \* contents of run_status.json
  tmp,          \* contents of run_status.json.tmp, or NoDoc
  pc,           \* control state of each API thread
  copy,         \* each API thread's in-memory status, or NoDoc
  launcher,     \* the launcher process
  lpc,          \* where the launcher is in main()
  lcopy,        \* the launcher's in-memory status inside write_status, or NoDoc
  stopSeen,     \* the launcher's local stop_requested
  trainer,      \* the trainer process
  exitCode,     \* how the trainer ended
  expired,      \* the started_at stamps whose startup grace is over
  concluded     \* history: the launcher has written a terminal status

vars == <<status, tmp, pc, copy, launcher, lpc, lcopy, stopSeen, trainer,
          exitCode, expired, concluded>>

launcherVars == <<launcher, lpc, lcopy, stopSeen, exitCode, concluded>>
apiVars == <<tmp, pc, copy>>

Creator == "create"
Threads == {Creator} \cup Stoppers \cup Pollers

Active   == {"starting", "running", "stopping"}
Terminal == {"stopped", "finished", "error", "failed"}
FaultKinds == {"launcher_dies", "log_fails"}

(* The fields of run_status.json that decide anything.  launcherPid, group *)
(* and pid say whether that process id is recorded; started names whose    *)
(* clock stamped started_at; lifecycleError is the lifecycle_error text.   *)
Doc == [state : Active \cup Terminal,
        launcherPid : BOOLEAN, group : BOOLEAN, pid : BOOLEAN,
        stopRequested : BOOLEAN,
        started : {"service", "launcher"},
        lifecycleError : {"none", "no_terminal_status", "absent_at_stop",
                          "no_live_process"}]

ASSUME ConstantsOK ==
  /\ Creator \notin Stoppers \cup Pollers
  /\ Stoppers \cap Pollers = {}
  /\ StopStates \subseteq Active \cup Terminal
  /\ Faults \subseteq FaultKinds
  /\ OrphansReaped \in BOOLEAN
  /\ NoDoc \notin Doc

ProcessStates == {"none", "alive", "zombie", "gone"}

ApiPC == {"spawn", "created", "createWrite", "createReplace",
          "idle", "mark", "markReplace", "signal", "lost", "lostReplace",
          "poll", "check", "recover", "recoverReplace", "done"}

LauncherPC == {"none", "preflight", "checked", "rejectWrite", "startWrite",
               "manifest", "try", "spawnErrorWrite", "runLoad", "runWrite",
               "stream", "lineWrite", "graceful1", "graceful2", "logError",
               "finalise", "finalWrite", "dead"}

(* A process id can be signalled until its owner has been waited for. *)
Exists(process) == process \in {"alive", "zombie"}
GroupExists == Exists(launcher) \/ Exists(trainer)

---------------------------------------------------------------------------
(* run_service.create has written run_metadata.json and this status.       *)
CreatedDoc == [state |-> "starting", launcherPid |-> FALSE, group |-> FALSE,
               pid |-> FALSE, stopRequested |-> FALSE,
               started |-> "service", lifecycleError |-> "none"]

Init ==
  /\ status = CreatedDoc
  /\ tmp = NoDoc
  /\ pc = [t \in Threads |-> IF t = Creator THEN "spawn"
                             ELSE IF t \in Stoppers THEN "idle" ELSE "poll"]
  /\ copy = [t \in Threads |-> NoDoc]
  /\ launcher = "none"
  /\ lpc = "none"
  /\ lcopy = NoDoc
  /\ stopSeen = FALSE
  /\ trainer = "none"
  /\ exitCode = "none"
  /\ expired = {}
  /\ concluded = FALSE

---------------------------------------------------------------------------
(* The pieces every API thread is made of.                                 *)
Goto(t, next) == pc' = [pc EXCEPT ![t] = next]

LoadStatus(t, next) ==
  /\ copy' = [copy EXCEPT ![t] = status]
  /\ Goto(t, next)

WriteTemporary(t, doc, next) ==
  /\ tmp' = doc
  /\ copy' = [copy EXCEPT ![t] = doc]
  /\ Goto(t, next)

Forget(t) == copy' = [copy EXCEPT ![t] = NoDoc]

(* rename(tmp, run_status.json): it installs whatever the shared temporary *)
(* file holds, and raises FileNotFoundError when another thread's rename   *)
(* has already taken the file away; the request then fails (onError).      *)
ReplaceStatus(t, next, onError) ==
  /\ IF tmp = NoDoc
     THEN /\ Goto(t, onError)
          /\ UNCHANGED <<status, tmp>>
     ELSE /\ status' = tmp
          /\ tmp' = NoDoc
          /\ Goto(t, next)

AfterPoll(t) == IF t \in Pollers THEN "poll" ELSE "done"

---------------------------------------------------------------------------
(* RunService.create, from the Popen of the launcher on.                   *)
SpawnLauncher ==
  /\ pc[Creator] = "spawn"
  /\ launcher' = "alive"
  /\ lpc' = "preflight"
  /\ Goto(Creator, "created")
  /\ UNCHANGED <<status, tmp, copy, lcopy, stopSeen, trainer, exitCode,
                 expired, concluded>>

SpawnLauncherFails ==
  /\ pc[Creator] = "spawn"
  /\ Goto(Creator, "created")
  /\ UNCHANGED <<status, tmp, copy, launcherVars, trainer, expired>>

CreateLoads ==
  /\ pc[Creator] = "created"
  /\ LoadStatus(Creator, "createWrite")
  /\ UNCHANGED <<status, tmp, launcherVars, trainer, expired>>

CreateRecords ==
  /\ pc[Creator] = "createWrite"
  /\ WriteTemporary(Creator,
       IF launcher = "none" THEN [copy[Creator] EXCEPT !.state = "failed"]
       ELSE [copy[Creator] EXCEPT !.launcherPid = TRUE],
       "createReplace")
  /\ UNCHANGED <<status, launcherVars, trainer, expired>>

CreateReplaces ==
  /\ pc[Creator] = "createReplace"
  /\ ReplaceStatus(Creator, "done", "done")
  /\ Forget(Creator)
  /\ UNCHANGED <<launcherVars, trainer, expired>>

Create == \/ SpawnLauncher \/ SpawnLauncherFails
          \/ CreateLoads \/ CreateRecords \/ CreateReplaces

---------------------------------------------------------------------------
(* RunService.stop.  The user presses Stop when the run shows one of       *)
(* StopStates; an inactive run is refused.                                 *)
StopLoads(t) ==
  /\ pc[t] = "idle"
  /\ status.state \in StopStates
  /\ IF status.state \in Active THEN LoadStatus(t, "mark")
     ELSE Goto(t, "done") /\ UNCHANGED copy
  /\ UNCHANGED <<status, tmp, launcherVars, trainer, expired>>

StopMarks(t) ==
  /\ pc[t] = "mark"
  /\ WriteTemporary(t, [copy[t] EXCEPT !.state = "stopping", !.stopRequested = TRUE],
                    "markReplace")
  /\ UNCHANGED <<status, launcherVars, trainer, expired>>

StopMarkReplaces(t) ==
  /\ pc[t] = "markReplace"
  /\ ReplaceStatus(t, "signal", "done")
  /\ IF tmp = NoDoc THEN Forget(t) ELSE UNCHANGED copy
  /\ UNCHANGED <<launcherVars, trainer, expired>>

(* What SIGINT does to the launcher depends on where main() is.            *)
OutsideTry == {"preflight", "checked", "rejectWrite", "startWrite", "manifest",
               "finalise", "finalWrite", "logError", "graceful2"}

\* Seeded defect: only the inner try handles KeyboardInterrupt.
InterruptTargetInnerOnly ==
  CASE lpc \in OutsideTry \cup {"graceful1"} -> "dead"
    [] lpc \in {"try", "spawnErrorWrite"} -> "finalise"
    [] lpc \in {"stream", "lineWrite"} -> "graceful1"
    [] lpc \in {"runLoad", "runWrite"} -> "graceful2"
    [] OTHER -> lpc

InterruptTarget ==
  CASE lpc \in OutsideTry -> "dead"
    [] lpc \in {"try", "spawnErrorWrite"} -> "finalise"
    [] lpc \in {"stream", "lineWrite"} -> "graceful1"
    [] lpc \in {"runLoad", "runWrite", "graceful1"} -> "graceful2"
    [] OTHER -> lpc

(* The launcher is gone; its parent, the dashboard, has not waited for it. *)
LauncherEnds ==
  /\ launcher' = "zombie"
  /\ lpc' = "dead"
  /\ lcopy' = NoDoc
  /\ trainer' = IF trainer = "zombie" /\ OrphansReaped THEN "gone" ELSE trainer

InterruptLauncher ==
  /\ IF launcher = "alive" /\ InterruptTarget = "dead"
     THEN LauncherEnds /\ UNCHANGED stopSeen
     ELSE /\ lpc' = IF launcher = "alive" THEN InterruptTarget ELSE lpc
          /\ stopSeen' = (stopSeen \/ launcher = "alive")
          /\ lcopy' = IF launcher = "alive" THEN NoDoc ELSE lcopy
          /\ UNCHANGED <<launcher, trainer>>
  /\ UNCHANGED <<exitCode, concluded>>

(* os.killpg / os.kill to the first recorded target that still exists.  A  *)
(* trainer need not act on the SIGINT it gets, so only the launcher's      *)
(* reaction is a step; the trainer's is TrainerExits.                      *)
StopSignals(t) ==
  LET doc == copy[t]
      reachesLauncher == (doc.group /\ GroupExists) \/ (doc.launcherPid /\ Exists(launcher))
      reachesTrainer  == doc.pid /\ Exists(trainer)
  IN /\ pc[t] = "signal"
     /\ \/ /\ reachesLauncher
           /\ InterruptLauncher
           /\ Goto(t, "poll") /\ Forget(t)
        \/ /\ ~reachesLauncher /\ reachesTrainer
           /\ Goto(t, "poll") /\ Forget(t)
           /\ UNCHANGED <<launcherVars, trainer>>
        \/ /\ ~reachesLauncher /\ ~reachesTrainer
           /\ Goto(t, "lost")
           /\ UNCHANGED <<copy, launcherVars, trainer>>
     /\ UNCHANGED <<status, tmp, expired>>

StopGivesUp(t) ==
  /\ pc[t] = "lost"
  /\ WriteTemporary(t, [copy[t] EXCEPT !.state = "stopped",
                                       !.lifecycleError = "no_live_process"],
                    "lostReplace")
  /\ UNCHANGED <<status, launcherVars, trainer, expired>>

StopGiveUpReplaces(t) ==
  /\ pc[t] = "lostReplace"
  /\ ReplaceStatus(t, "poll", "done")
  /\ Forget(t)
  /\ UNCHANGED <<launcherVars, trainer, expired>>

Stop(t) == \/ StopLoads(t) \/ StopMarks(t) \/ StopMarkReplaces(t)
           \/ StopSignals(t) \/ StopGivesUp(t) \/ StopGiveUpReplaces(t)

---------------------------------------------------------------------------
(* summarize_dashboard_run: every listing, detail and progress request, and *)
(* the detail that stop returns.                                           *)
PollLoads(t) ==
  /\ pc[t] = "poll"
  /\ LoadStatus(t, "check")
  /\ UNCHANGED <<status, tmp, launcherVars, trainer, expired>>

\* Seeded defect: no fallback to the launcher's process id.
TrainerAbsent(doc) == doc.pid /\ ~Exists(trainer)

(* lifecycle_process["alive"] is False, of the process doc records. *)
ManagedProcessAbsent(doc) ==
  \/ doc.pid /\ ~Exists(trainer)
  \/ doc.state = "starting" /\ ~doc.pid /\ doc.launcherPid /\ ~Exists(launcher)

StartupGrace(doc) == doc.state = "starting" /\ doc.started \notin expired

PollChecks(t) ==
  LET doc == copy[t]
      recover == doc.state \in Active /\ ManagedProcessAbsent(doc) /\ ~StartupGrace(doc)
  IN /\ pc[t] = "check"
     /\ IF recover THEN Goto(t, "recover") /\ UNCHANGED copy
        ELSE Goto(t, AfterPoll(t)) /\ Forget(t)
     /\ UNCHANGED <<status, tmp, launcherVars, trainer, expired>>

PollRecovers(t) ==
  LET doc == copy[t]
      stopped == doc.state = "stopping" \/ doc.stopRequested
  IN /\ pc[t] = "recover"
     /\ WriteTemporary(t,
          [doc EXCEPT !.state = IF stopped THEN "stopped" ELSE "error",
                      !.lifecycleError = IF stopped THEN "absent_at_stop"
                                         ELSE "no_terminal_status"],
          "recoverReplace")
     /\ UNCHANGED <<status, launcherVars, trainer, expired>>

PollReplaces(t) ==
  /\ pc[t] = "recoverReplace"
  /\ ReplaceStatus(t, AfterPoll(t), AfterPoll(t))
  /\ Forget(t)
  /\ UNCHANGED <<launcherVars, trainer, expired>>

Poll(t) == PollLoads(t) \/ PollChecks(t) \/ PollRecovers(t) \/ PollReplaces(t)

---------------------------------------------------------------------------
(* dashboard.launch.main.  write_status is a read (lcopy) and a write.     *)
At(here) == launcher = "alive" /\ lpc = here

LauncherLoads(from, to) ==
  /\ At(from)
  /\ lcopy' = status
  /\ lpc' = to
  /\ UNCHANGED <<status, apiVars, launcher, stopSeen, trainer, exitCode,
                 expired, concluded>>

LauncherWrites(from, doc, to) ==
  /\ At(from)
  /\ status' = doc
  /\ lcopy' = NoDoc
  /\ lpc' = to
  /\ UNCHANGED <<apiVars, launcher, stopSeen, trainer, exitCode, expired>>

(* The last write_status of a path out of main(): the launcher exits.      *)
LauncherConcludes(from, doc) ==
  /\ At(from)
  /\ status' = doc
  /\ concluded' = TRUE
  /\ LauncherEnds
  /\ UNCHANGED <<apiVars, stopSeen, exitCode, expired>>

LauncherMoves(from, to) ==
  /\ At(from)
  /\ lpc' = to
  /\ UNCHANGED <<status, apiVars, launcher, lcopy, stopSeen, trainer, exitCode,
                 expired, concluded>>

(* parser.error: exit code 2, and no word of it in run_status.json.  A     *)
(* preinitialized directory must hold run_metadata.json and run_status.json *)
(* and nothing else, so a temporary file of an API thread is an error too. *)
LauncherRejects ==
  /\ At("preflight") \/ At("checked")
  /\ LauncherEnds
  /\ UNCHANGED <<status, apiVars, stopSeen, exitCode, expired, concluded>>

LauncherAcceptsDirectory == tmp = NoDoc /\ LauncherMoves("preflight", "checked")

(* report_preflight_failure: the parent checkpoint cannot be resumed.      *)
RejectLoads  == LauncherLoads("checked", "rejectWrite")
RejectWrites == LauncherConcludes("rejectWrite", [lcopy EXCEPT !.state = "error"])

\* Seeded defect: the launcher does not record how to signal it.
StartWritesNoIds ==
  /\ LauncherWrites("startWrite",
       [lcopy EXCEPT !.state = "starting", !.stopRequested = FALSE, !.started = "launcher"],
       "manifest")
  /\ UNCHANGED concluded

StartLoads == LauncherLoads("checked", "startWrite")
StartWrites ==
  /\ LauncherWrites("startWrite",
       [lcopy EXCEPT !.state = "starting", !.launcherPid = TRUE, !.group = TRUE,
                     !.stopRequested = FALSE, !.started = "launcher"],
       "manifest")
  /\ UNCHANGED concluded

(* _write_experiment_manifest is done; the try block begins. *)
LauncherEntersTry == LauncherMoves("manifest", "try")

SpawnTrainer ==
  /\ At("try")
  /\ trainer' = "alive"
  /\ lpc' = "runLoad"
  /\ UNCHANGED <<status, apiVars, launcher, lcopy, stopSeen, exitCode, expired, concluded>>

SpawnTrainerFails  == LauncherLoads("try", "spawnErrorWrite")
SpawnErrorWrites == LauncherConcludes("spawnErrorWrite", [lcopy EXCEPT !.state = "error"])

\* Seeded defect: the state is published before the process id.
RunWritesNoPid ==
  /\ LauncherWrites("runWrite", [lcopy EXCEPT !.state = "running"], "stream")
  /\ UNCHANGED concluded

RunLoads  == LauncherLoads("runLoad", "runWrite")
RunWrites ==
  /\ LauncherWrites("runWrite", [lcopy EXCEPT !.state = "running", !.pid = TRUE], "stream")
  /\ UNCHANGED concluded

(* A line of output with runtime values: the whole status is rewritten.    *)
(* What is still in the pipe when the trainer exits counts as read before. *)
LineLoads == trainer = "alive" /\ LauncherLoads("stream", "lineWrite")
LineWrites ==
  /\ LauncherWrites("lineWrite", lcopy, "stream")
  /\ UNCHANGED concluded

(* log.write raises OSError: main() leaves through `except OSError`. *)
LogFails ==
  /\ "log_fails" \in Faults
  /\ LauncherLoads("stream", "logError")
LogErrorWrites == LauncherConcludes("logError", [lcopy EXCEPT !.state = "error"])

(* End of the output: process.wait(). *)
LauncherWaits ==
  /\ At("stream")
  /\ trainer = "zombie"
  /\ trainer' = "gone"
  /\ lpc' = "finalise"
  /\ UNCHANGED <<status, apiVars, launcher, lcopy, stopSeen, exitCode, expired, concluded>>

\* Seeded defect: the launcher stops waiting without killing the trainer.
GracefulStopNoKill ==
  /\ At("graceful1") \/ At("graceful2")
  /\ trainer' = IF trainer = "zombie" THEN "gone" ELSE trainer
  /\ lpc' = "finalise"
  /\ UNCHANGED <<status, apiVars, launcher, lcopy, stopSeen, exitCode, expired, concluded>>

(* _graceful_stop: wait for the trainer, at the latest kill it. *)
GracefulStop ==
  /\ At("graceful1") \/ At("graceful2")
  /\ trainer' = "gone"
  /\ exitCode' = IF trainer = "alive" THEN "nonzero" ELSE exitCode
  /\ lpc' = "finalise"
  /\ UNCHANGED <<status, apiVars, launcher, lcopy, stopSeen, expired, concluded>>

\* Seeded defect: a state outside the lifecycle vocabulary.
FinalStateInterrupted == IF stopSeen THEN "interrupted" ELSE "finished"

FinalState == IF stopSeen THEN "stopped" ELSE IF exitCode = "zero" THEN "finished" ELSE "error"
FinalLoads  == LauncherLoads("finalise", "finalWrite")
FinalWrites == LauncherConcludes("finalWrite", [lcopy EXCEPT !.state = FinalState])

(* SIGKILL, out of memory, or an exception main() does not handle. *)
LauncherDies ==
  /\ "launcher_dies" \in Faults
  /\ launcher = "alive"
  /\ LauncherEnds
  /\ UNCHANGED <<status, apiVars, stopSeen, exitCode, expired, concluded>>

LauncherStep ==
  \/ LauncherRejects \/ LauncherAcceptsDirectory \/ RejectLoads \/ RejectWrites
  \/ StartLoads \/ StartWrites \/ LauncherEntersTry
  \/ SpawnTrainer \/ SpawnTrainerFails \/ SpawnErrorWrites
  \/ RunLoads \/ RunWrites \/ LineLoads \/ LineWrites \/ LogErrorWrites
  \/ LauncherWaits \/ GracefulStop \/ FinalLoads \/ FinalWrites

---------------------------------------------------------------------------
(* The trainer, the operating system and the clock.                        *)
TrainerExits ==
  /\ trainer = "alive"
  /\ exitCode' \in {"zero", "nonzero"}
  /\ trainer' = IF launcher # "alive" /\ OrphansReaped THEN "gone" ELSE "zombie"
  /\ UNCHANGED <<status, apiVars, launcher, lpc, lcopy, stopSeen, expired, concluded>>

(* The dashboard's next subprocess call waits for the dead launcher. *)
ReapLauncher ==
  /\ launcher = "zombie"
  /\ launcher' = "gone"
  /\ UNCHANGED <<status, apiVars, lpc, lcopy, stopSeen, trainer, exitCode, expired, concluded>>

(* Five seconds after a started_at stamp; the service's is the earlier one. *)
GraceExpires(stamp) ==
  /\ stamp \notin expired
  /\ stamp = "launcher" => status.started = "launcher" /\ "service" \in expired
  /\ expired' = expired \cup {stamp}
  /\ UNCHANGED <<status, apiVars, launcherVars, trainer>>

---------------------------------------------------------------------------
Next ==
  \/ Create
  \/ \E t \in Stoppers : Stop(t)
  \/ \E t \in Stoppers \cup Pollers : Poll(t)
  \/ LauncherStep \/ LogFails \/ LauncherDies
  \/ TrainerExits \/ ReapLauncher
  \/ \E stamp \in {"service", "launcher"} : GraceExpires(stamp)

Spec == Init /\ [][Next]_vars

(* Processes that are running keep running, and somebody keeps the run on  *)
(* screen: its page polls, and a poll waits for dead launchers.  No user   *)
(* has to press Stop.                                                      *)
Fairness ==
  /\ WF_vars(Create)
  /\ \A t \in Stoppers : WF_vars(Stop(t) /\ pc[t] # "idle")
  /\ \A t \in Stoppers \cup Pollers : WF_vars(Poll(t))
  /\ WF_vars(LauncherStep)
  /\ WF_vars(ReapLauncher)
  /\ \A stamp \in {"service", "launcher"} : WF_vars(GraceExpires(stamp))

FairSpec == Spec /\ Fairness

(* Training has a last iteration, so a trainer nobody stops ends by itself. *)
TrainingEnds == WF_vars(TrainerExits)
FairSpecTrainingEnds == FairSpec /\ TrainingEnds

---------------------------------------------------------------------------
(* Documents in memory or on disk only ever hold what processes wrote.     *)
TypeOK ==
  /\ status \in Doc
  /\ tmp \in Doc \cup {NoDoc}
  /\ pc \in [Threads -> ApiPC]
  /\ copy \in [Threads -> Doc \cup {NoDoc}]
  /\ launcher \in ProcessStates
  /\ lpc \in LauncherPC
  /\ lcopy \in Doc \cup {NoDoc}
  /\ stopSeen \in BOOLEAN
  /\ trainer \in ProcessStates
  /\ exitCode \in {"none", "zero", "nonzero"}
  /\ expired \subseteq {"service", "launcher"}
  /\ concluded \in BOOLEAN

(* A run whose status is terminal has no trainer left: whoever wrote the   *)
(* terminal state, the launcher at its end, a poll that found the process  *)
(* absent, or a stop that found nothing to signal (health.py 716-746,      *)
(* run_service.py 488-515, launch.py 733-743), and whatever the threads    *)
(* wrote over each other in between.                                       *)
TerminalMeansNoTrainer == status.state \in Terminal => trainer # "alive"

(* A running status always records the trainer's process id, the only      *)
(* thing by which a poll can later find the run dead, through every        *)
(* read-modify-write of the file by every process (launch.py 702).         *)
RunningIsRecoverable == status.state = "running" => status.pid

(* A run whose launcher is past its checks can be reached by a stop: some  *)
(* recorded id still names one of its processes (run_service.py 477-501).  *)
TrainerIsReachable ==
  trainer = "alive" /\ status.state \in Active =>
    \/ status.group
    \/ status.launcherPid /\ Exists(launcher)
    \/ status.pid

(* Whatever happens to launcher and trainer, the run ends in a terminal    *)
(* state for good; health.py's recovery is there for the cases in which    *)
(* the launcher writes none.                                               *)
EventuallyTerminal == <>[](status.state \in Terminal)

(* A stop request that reaches the launcher ends the trainer, even one     *)
(* that ignores SIGINT (dashboard/README.md 39-41, launch.py 506-520).     *)
StopEndsTrainer == stopSeen ~> trainer # "alive"

(* A stopping run whose launcher is dead, and that nobody is about to      *)
(* write, can be resolved by a poll: it does not stay in an un-actionable  *)
(* active state that blocks maintenance (run_service.py 503-505).          *)
StoppingIsResolvable ==
  status.state = "stopping" /\ launcher \in {"zombie", "gone"} =>
    status.pid \/ \E t \in Threads : pc[t] \notin {"idle", "poll", "check", "done"}
===========================================================================
