----------------------- MODULE RunLifecycle_proofs -----------------------
(***************************************************************************)
(* Safety of RunLifecycle for any number of stopping and polling threads:  *)
(* first what holds whenever the stop comes and whatever fails, then what  *)
(* a terminal status says of the trainer if stops come once the run is     *)
(* shown running, and if nothing ends the launcher beside its trainer.     *)
(***************************************************************************)
EXTENDS RunLifecycle, TLAPS

(* The documents in flight: what can reach run_status.json by a write. *)
Recoverable(doc) == doc.state = "running" => doc.pid

(* RunningIsRecoverable says this of the file only.  It is inductive once  *)
(* it is said of every copy a process may still write back.                *)
EveryCopyRecoverable ==
  /\ Recoverable(status)
  /\ tmp # NoDoc => Recoverable(tmp)
  /\ \A t \in Threads : copy[t] # NoDoc => Recoverable(copy[t])
  /\ lcopy # NoDoc => Recoverable(lcopy)

(* A thread that is about to use its copy has one. *)
NeedsCopy == {"createWrite", "createReplace", "mark", "markReplace", "signal",
              "lost", "lostReplace", "check", "recover", "recoverReplace"}
LauncherNeedsCopy == {"rejectWrite", "startWrite", "spawnErrorWrite", "runWrite",
                      "lineWrite", "logError", "finalWrite"}
CopiesPresent ==
  /\ \A t \in Threads : pc[t] \in NeedsCopy => copy[t] # NoDoc
  /\ lpc \in LauncherNeedsCopy => lcopy # NoDoc

IInv == TypeOK /\ CopiesPresent /\ EveryCopyRecoverable

LEMMA InitIInv == Init => IInv
<1> SUFFICES ASSUME Init PROVE IInv
  OBVIOUS
<1>1. CreatedDoc \in Doc /\ Recoverable(CreatedDoc)
  BY DEF CreatedDoc, Doc, Active, Terminal, Recoverable
<1>2. TypeOK
  BY <1>1 DEF Init, TypeOK, ApiPC, LauncherPC, ProcessStates
<1>3. CopiesPresent
  BY DEF Init, CopiesPresent, NeedsCopy, LauncherNeedsCopy
<1>4. EveryCopyRecoverable
  BY <1>1 DEF Init, EveryCopyRecoverable
<1> QED
  BY <1>2, <1>3, <1>4 DEF IInv

---------------------------------------------------------------------------
(* The two halves of an API thread's write, whatever it writes. *)
LEMMA TemporaryIInv ==
  ASSUME IInv, NEW t \in Threads, NEW doc \in Doc, Recoverable(doc),
         NEW next \in ApiPC, WriteTemporary(t, doc, next),
         UNCHANGED <<status, launcherVars, trainer, expired>>
  PROVE  IInv'
<1>1. TypeOK'
  BY DEF IInv, TypeOK, WriteTemporary, Goto, launcherVars
<1>2. CopiesPresent'
  BY ConstantsOK DEF IInv, TypeOK, CopiesPresent, WriteTemporary, Goto, launcherVars
<1>3. EveryCopyRecoverable'
  BY DEF IInv, TypeOK, EveryCopyRecoverable, Recoverable, WriteTemporary, launcherVars
<1> QED
  BY <1>1, <1>2, <1>3 DEF IInv

LEMMA ReplaceIInv ==
  ASSUME IInv, NEW t \in Threads,
         NEW next \in ApiPC \ NeedsCopy, NEW onError \in ApiPC \ NeedsCopy,
         ReplaceStatus(t, next, onError), Forget(t),
         UNCHANGED <<launcherVars, trainer, expired>>
  PROVE  IInv'
<1>1. TypeOK'
  BY DEF IInv, TypeOK, ReplaceStatus, Goto, Forget, launcherVars
<1>2. CopiesPresent'
  BY DEF IInv, TypeOK, CopiesPresent, ReplaceStatus, Goto, Forget, launcherVars
<1>3. EveryCopyRecoverable'
  BY DEF IInv, TypeOK, EveryCopyRecoverable, Recoverable, ReplaceStatus, Forget, launcherVars
<1> QED
  BY <1>1, <1>2, <1>3 DEF IInv

LEMMA LoadIInv ==
  ASSUME IInv, NEW t \in Threads, NEW next \in ApiPC, LoadStatus(t, next),
         UNCHANGED <<status, tmp, launcherVars, trainer, expired>>
  PROVE  IInv'
<1>1. TypeOK'
  BY DEF IInv, TypeOK, LoadStatus, Goto, launcherVars
<1>2. CopiesPresent'
  BY ConstantsOK DEF IInv, TypeOK, CopiesPresent, LoadStatus, Goto, launcherVars
<1>3. EveryCopyRecoverable'
  BY DEF IInv, TypeOK, EveryCopyRecoverable, Recoverable, LoadStatus, launcherVars
<1> QED
  BY <1>1, <1>2, <1>3 DEF IInv

(* The launcher's write_status, and its other steps. *)
LEMMA LauncherLoadsIInv ==
  ASSUME IInv, NEW from, NEW to \in LauncherPC, LauncherLoads(from, to)
  PROVE  IInv'
<1>1. TypeOK'
  BY DEF IInv, TypeOK, LauncherLoads, apiVars
<1>2. CopiesPresent'
  BY ConstantsOK DEF IInv, TypeOK, CopiesPresent, LauncherLoads, apiVars
<1>3. EveryCopyRecoverable'
  BY DEF IInv, EveryCopyRecoverable, Recoverable, LauncherLoads, apiVars
<1> QED
  BY <1>1, <1>2, <1>3 DEF IInv

LEMMA LauncherWritesIInv ==
  ASSUME IInv, NEW from, NEW doc \in Doc, Recoverable(doc),
         NEW to \in LauncherPC \ LauncherNeedsCopy,
         LauncherWrites(from, doc, to), UNCHANGED concluded
  PROVE  IInv'
<1>1. TypeOK'
  BY DEF IInv, TypeOK, LauncherWrites, apiVars
<1>2. CopiesPresent'
  BY DEF IInv, CopiesPresent, LauncherWrites, apiVars
<1>3. EveryCopyRecoverable'
  BY DEF IInv, EveryCopyRecoverable, Recoverable, LauncherWrites, apiVars
<1> QED
  BY <1>1, <1>2, <1>3 DEF IInv

LEMMA LauncherConcludesIInv ==
  ASSUME IInv, NEW from, NEW doc \in Doc, Recoverable(doc),
         LauncherConcludes(from, doc)
  PROVE  IInv'
<1>1. TypeOK'
  BY DEF IInv, TypeOK, LauncherConcludes, LauncherEnds, apiVars, LauncherPC, ProcessStates
<1>2. CopiesPresent'
  BY DEF IInv, CopiesPresent, LauncherConcludes, LauncherEnds, apiVars, LauncherNeedsCopy
<1>3. EveryCopyRecoverable'
  BY DEF IInv, EveryCopyRecoverable, Recoverable, LauncherConcludes, LauncherEnds, apiVars
<1> QED
  BY <1>1, <1>2, <1>3 DEF IInv

LEMMA LauncherMovesIInv ==
  ASSUME IInv, NEW from, NEW to \in LauncherPC \ LauncherNeedsCopy,
         LauncherMoves(from, to)
  PROVE  IInv'
BY DEF IInv, TypeOK, CopiesPresent, EveryCopyRecoverable, Recoverable,
       LauncherMoves, apiVars

---------------------------------------------------------------------------
LEMMA CreateIInv == IInv /\ Create => IInv'
<1> SUFFICES ASSUME IInv, Create PROVE IInv'
  OBVIOUS
<1>t. Creator \in Threads
  BY DEF Threads
<1>1. CASE SpawnLauncher
  <2>1. TypeOK'
    BY <1>1, <1>t DEF SpawnLauncher, IInv, TypeOK, Goto, ApiPC, LauncherPC, ProcessStates
  <2>2. CopiesPresent'
    BY <1>1, <1>t DEF SpawnLauncher, IInv, TypeOK, CopiesPresent, NeedsCopy,
       LauncherNeedsCopy, Goto
  <2>3. EveryCopyRecoverable'
    BY <1>1 DEF SpawnLauncher, IInv, EveryCopyRecoverable, Recoverable
  <2> QED
    BY <2>1, <2>2, <2>3 DEF IInv
<1>2. CASE SpawnLauncherFails
  <2>1. TypeOK'
    BY <1>2, <1>t DEF SpawnLauncherFails, IInv, TypeOK, Goto, ApiPC, launcherVars
  <2>2. CopiesPresent'
    BY <1>2, <1>t DEF SpawnLauncherFails, IInv, TypeOK, CopiesPresent, NeedsCopy,
       Goto, launcherVars
  <2>3. EveryCopyRecoverable'
    BY <1>2 DEF SpawnLauncherFails, IInv, EveryCopyRecoverable, Recoverable, launcherVars
  <2> QED
    BY <2>1, <2>2, <2>3 DEF IInv
<1>3. CASE CreateLoads
  BY <1>3, <1>t, LoadIInv DEF CreateLoads, ApiPC
<1>4. CASE CreateRecords
  <2> DEFINE doc == IF launcher = "none" THEN [copy[Creator] EXCEPT !.state = "failed"]
                    ELSE [copy[Creator] EXCEPT !.launcherPid = TRUE]
  <2>1. copy[Creator] \in Doc /\ Recoverable(copy[Creator])
    BY <1>4, <1>t DEF CreateRecords, IInv, TypeOK, CopiesPresent,
       EveryCopyRecoverable, NeedsCopy
  <2>2. doc \in Doc
    <3>1. CASE launcher = "none"
      BY <2>1, <3>1 DEF Doc, Terminal
    <3>2. CASE launcher # "none"
      BY <2>1, <3>2 DEF Doc
    <3> QED BY <3>1, <3>2
  <2>3. Recoverable(doc)
    <3>1. CASE launcher = "none"
      BY <2>1, <3>1 DEF Doc, Recoverable
    <3>2. CASE launcher # "none"
      BY <2>1, <3>2 DEF Doc, Recoverable
    <3> QED BY <3>1, <3>2
  <2>4. WriteTemporary(Creator, doc, "createReplace")
    BY <1>4 DEF CreateRecords
  <2>5. UNCHANGED <<status, launcherVars, trainer, expired>>
    BY <1>4 DEF CreateRecords
  <2> HIDE DEF doc
  <2> QED
    BY <2>2, <2>3, <2>4, <2>5, <1>t, TemporaryIInv DEF ApiPC
<1>5. CASE CreateReplaces
  BY <1>5, <1>t, ReplaceIInv DEF CreateReplaces, ApiPC, NeedsCopy
<1> QED
  BY <1>1, <1>2, <1>3, <1>4, <1>5 DEF Create

(* SIGINT changes where the launcher is, or ends it; no document. *)
LEMMA InterruptTargetType ==
  ASSUME lpc \in LauncherPC
  PROVE  InterruptTarget \in LauncherPC
BY DEF InterruptTarget, OutsideTry, LauncherPC

LEMMA StopIInv ==
  ASSUME IInv, NEW t \in Stoppers, Stop(t)
  PROVE  IInv'
<1>t. t \in Threads
  BY DEF Threads
<1>1. CASE StopLoads(t)
  <2>1. CASE status.state \in Active
    BY <1>1, <2>1, <1>t, LoadIInv DEF StopLoads, ApiPC
  <2>2. CASE status.state \notin Active
    BY <1>1, <2>2, <1>t DEF StopLoads, IInv, TypeOK, CopiesPresent,
       EveryCopyRecoverable, Recoverable, NeedsCopy, Goto, ApiPC, launcherVars
  <2> QED BY <2>1, <2>2
<1>2. CASE StopMarks(t)
  <2> DEFINE doc == [copy[t] EXCEPT !.state = "stopping", !.stopRequested = TRUE]
  <2>1. copy[t] \in Doc
    BY <1>2, <1>t DEF StopMarks, IInv, TypeOK, CopiesPresent, NeedsCopy
  <2>2. doc \in Doc /\ Recoverable(doc)
    BY <2>1 DEF Doc, Active, Recoverable
  <2> HIDE DEF doc
  <2>3. WriteTemporary(t, doc, "markReplace") /\ UNCHANGED <<status, launcherVars, trainer, expired>>
    BY <1>2 DEF StopMarks, doc
  <2> QED
    BY <2>2, <2>3, <1>t, TemporaryIInv DEF ApiPC
<1>3. CASE StopMarkReplaces(t)
  <2>1. CASE tmp = NoDoc
    BY <1>3, <2>1, <1>t DEF StopMarkReplaces, ReplaceStatus, Goto, Forget, IInv, TypeOK,
       CopiesPresent, EveryCopyRecoverable, Recoverable, NeedsCopy, ApiPC, launcherVars
  <2>2. CASE tmp # NoDoc
    BY <1>3, <2>2, <1>t DEF StopMarkReplaces, ReplaceStatus, Goto, IInv, TypeOK,
       CopiesPresent, EveryCopyRecoverable, Recoverable, NeedsCopy, ApiPC, launcherVars
  <2> QED BY <2>1, <2>2
<1>4. CASE StopSignals(t)
  <2>1. CASE InterruptLauncher /\ Goto(t, "poll") /\ Forget(t)
    <3>1. UNCHANGED <<status, tmp, expired, exitCode, concluded>>
      BY <1>4, <2>1 DEF StopSignals, InterruptLauncher
    <3>a. pc' \in [Threads -> ApiPC] /\ copy' \in [Threads -> Doc \cup {NoDoc}]
      BY <2>1, <1>t DEF Goto, Forget, IInv, TypeOK, ApiPC
    <3>b. InterruptTarget \in LauncherPC
      BY InterruptTargetType DEF IInv, TypeOK
    <3>c. /\ launcher' \in ProcessStates /\ lpc' \in LauncherPC
          /\ lcopy' \in Doc \cup {NoDoc} /\ stopSeen' \in BOOLEAN
          /\ trainer' \in ProcessStates
      <4>1. CASE launcher = "alive" /\ InterruptTarget = "dead"
        BY <2>1, <4>1 DEF InterruptLauncher, LauncherEnds, IInv, TypeOK, LauncherPC,
           ProcessStates
      <4>2. CASE launcher = "alive" /\ InterruptTarget # "dead"
        BY <2>1, <3>b, <4>2 DEF InterruptLauncher, IInv, TypeOK
      <4>3. CASE launcher # "alive"
        BY <2>1, <4>3 DEF InterruptLauncher, IInv, TypeOK
      <4> QED BY <4>1, <4>2, <4>3
    <3>2. TypeOK'
      BY <3>1, <3>a, <3>c DEF IInv, TypeOK
    <3>3. CopiesPresent'
      BY <2>1, <3>1, <1>t DEF InterruptLauncher, InterruptTarget, LauncherEnds, Goto,
         Forget, IInv, TypeOK, CopiesPresent, NeedsCopy, LauncherNeedsCopy, OutsideTry
    <3>4. EveryCopyRecoverable'
      BY <2>1, <3>1, <1>t DEF InterruptLauncher, LauncherEnds,
         Forget, IInv, TypeOK, EveryCopyRecoverable, Recoverable
    <3> QED BY <3>2, <3>3, <3>4 DEF IInv
  <2>2. CASE Goto(t, "poll") /\ Forget(t) /\ UNCHANGED <<launcherVars, trainer>>
    BY <1>4, <2>2, <1>t DEF StopSignals, Goto, Forget, IInv, TypeOK, CopiesPresent,
       EveryCopyRecoverable, Recoverable, NeedsCopy, ApiPC, launcherVars
  <2>3. CASE Goto(t, "lost") /\ UNCHANGED <<copy, launcherVars, trainer>>
    BY <1>4, <2>3, <1>t DEF StopSignals, Goto, IInv, TypeOK, CopiesPresent,
       EveryCopyRecoverable, Recoverable, NeedsCopy, ApiPC, launcherVars
  <2> QED BY <1>4, <2>1, <2>2, <2>3 DEF StopSignals
<1>5. CASE StopGivesUp(t)
  <2> DEFINE doc == [copy[t] EXCEPT !.state = "stopped",
                                    !.lifecycleError = "no_live_process"]
  <2>1. copy[t] \in Doc
    BY <1>5, <1>t DEF StopGivesUp, IInv, TypeOK, CopiesPresent, NeedsCopy
  <2>2. doc \in Doc /\ Recoverable(doc)
    BY <2>1 DEF Doc, Terminal, Recoverable
  <2> HIDE DEF doc
  <2>3. WriteTemporary(t, doc, "lostReplace") /\ UNCHANGED <<status, launcherVars, trainer, expired>>
    BY <1>5 DEF StopGivesUp, doc
  <2> QED
    BY <2>2, <2>3, <1>t, TemporaryIInv DEF ApiPC
<1>6. CASE StopGiveUpReplaces(t)
  BY <1>6, <1>t, ReplaceIInv DEF StopGiveUpReplaces, ApiPC, NeedsCopy
<1> QED
  BY <1>1, <1>2, <1>3, <1>4, <1>5, <1>6 DEF Stop

LEMMA PollIInv ==
  ASSUME IInv, NEW t \in Stoppers \cup Pollers, Poll(t)
  PROVE  IInv'
<1>t. t \in Threads
  BY DEF Threads
<1>1. CASE PollLoads(t)
  BY <1>1, <1>t, LoadIInv DEF PollLoads, ApiPC
<1>2. CASE PollChecks(t)
  <2>1. CASE Goto(t, "recover") /\ UNCHANGED copy
    BY <1>2, <2>1, <1>t DEF PollChecks, Goto, IInv, TypeOK, CopiesPresent,
       EveryCopyRecoverable, Recoverable, NeedsCopy, ApiPC, launcherVars
  <2>2. CASE Goto(t, AfterPoll(t)) /\ Forget(t)
    BY <1>2, <2>2, <1>t DEF PollChecks, Goto, Forget, AfterPoll, IInv, TypeOK, CopiesPresent,
       EveryCopyRecoverable, Recoverable, NeedsCopy, ApiPC, launcherVars
  <2> QED BY <1>2, <2>1, <2>2 DEF PollChecks
<1>3. CASE PollRecovers(t)
  <2> DEFINE stopped == copy[t].state = "stopping" \/ copy[t].stopRequested
             doc == [copy[t] EXCEPT
                       !.state = IF stopped THEN "stopped" ELSE "error",
                       !.lifecycleError = IF stopped THEN "absent_at_stop"
                                          ELSE "no_terminal_status"]
  <2>1. copy[t] \in Doc
    BY <1>3, <1>t DEF PollRecovers, IInv, TypeOK, CopiesPresent, NeedsCopy
  <2>2. doc \in Doc /\ Recoverable(doc)
    <3>1. CASE stopped
      BY <2>1, <3>1 DEF Doc, Terminal, Recoverable
    <3>2. CASE ~stopped
      BY <2>1, <3>2 DEF Doc, Terminal, Recoverable
    <3> QED BY <3>1, <3>2
  <2>3. WriteTemporary(t, doc, "recoverReplace") /\ UNCHANGED <<status, launcherVars, trainer, expired>>
    BY <1>3 DEF PollRecovers
  <2> HIDE DEF doc
  <2> QED
    BY <2>2, <2>3, <1>t, TemporaryIInv DEF ApiPC
<1>4. CASE PollReplaces(t)
  BY <1>4, <1>t, ReplaceIInv DEF PollReplaces, AfterPoll, ApiPC, NeedsCopy
<1> QED
  BY <1>1, <1>2, <1>3, <1>4 DEF Poll
---------------------------------------------------------------------------
(* What the launcher has loaded is what it may write back. *)
LEMMA LauncherCopy ==
  ASSUME IInv, lpc \in LauncherNeedsCopy
  PROVE  lcopy \in Doc /\ Recoverable(lcopy)
BY DEF IInv, TypeOK, CopiesPresent, EveryCopyRecoverable

(* A final write keeps everything but the state. *)
LEMMA ConcludingDoc ==
  ASSUME NEW doc \in Doc, NEW state \in Terminal
  PROVE  [doc EXCEPT !.state = state] \in Doc
         /\ Recoverable([doc EXCEPT !.state = state])
BY DEF Doc, Terminal, Recoverable

LEMMA LauncherStepIInv == IInv /\ LauncherStep => IInv'
<1> SUFFICES ASSUME IInv, LauncherStep PROVE IInv'
  OBVIOUS
<1> USE DEF At
<1>1. CASE LauncherRejects
  BY <1>1 DEF LauncherRejects, LauncherEnds, IInv, TypeOK, CopiesPresent,
     EveryCopyRecoverable, Recoverable, LauncherNeedsCopy, LauncherPC, ProcessStates, apiVars
<1>2. CASE LauncherAcceptsDirectory
  BY <1>2, LauncherMovesIInv DEF LauncherAcceptsDirectory, LauncherPC, LauncherNeedsCopy
<1>3. CASE RejectLoads
  BY <1>3, LauncherLoadsIInv DEF RejectLoads, LauncherPC
<1>4. CASE RejectWrites
  <2>1. lcopy \in Doc /\ Recoverable(lcopy)
    BY <1>4, LauncherCopy DEF RejectWrites, LauncherConcludes, LauncherNeedsCopy
  <2> QED
    BY <1>4, <2>1, ConcludingDoc, LauncherConcludesIInv DEF RejectWrites, Terminal
<1>5. CASE StartLoads
  BY <1>5, LauncherLoadsIInv DEF StartLoads, LauncherPC
<1>6. CASE StartWrites
  <2> DEFINE doc == [lcopy EXCEPT !.state = "starting", !.launcherPid = TRUE, !.group = TRUE,
                                  !.stopRequested = FALSE, !.started = "launcher"]
  <2>1. lcopy \in Doc /\ Recoverable(lcopy)
    BY <1>6, LauncherCopy DEF StartWrites, LauncherWrites, LauncherNeedsCopy
  <2>2. doc \in Doc /\ Recoverable(doc)
    BY <2>1 DEF Doc, Active, Recoverable
  <2>3. LauncherWrites("startWrite", doc, "manifest") /\ UNCHANGED concluded
    BY <1>6 DEF StartWrites
  <2> HIDE DEF doc
  <2> QED
    BY <2>2, <2>3, LauncherWritesIInv DEF LauncherPC, LauncherNeedsCopy
<1>7. CASE LauncherEntersTry
  BY <1>7, LauncherMovesIInv DEF LauncherEntersTry, LauncherPC, LauncherNeedsCopy
<1>8. CASE SpawnTrainer
  BY <1>8 DEF SpawnTrainer, IInv, TypeOK, CopiesPresent, EveryCopyRecoverable,
     Recoverable, LauncherNeedsCopy, LauncherPC, ProcessStates, apiVars
<1>9. CASE SpawnTrainerFails
  BY <1>9, LauncherLoadsIInv DEF SpawnTrainerFails, LauncherPC
<1>10. CASE SpawnErrorWrites
  <2>1. lcopy \in Doc /\ Recoverable(lcopy)
    BY <1>10, LauncherCopy DEF SpawnErrorWrites, LauncherConcludes, LauncherNeedsCopy
  <2> QED
    BY <1>10, <2>1, ConcludingDoc, LauncherConcludesIInv DEF SpawnErrorWrites, Terminal
<1>11. CASE RunLoads
  BY <1>11, LauncherLoadsIInv DEF RunLoads, LauncherPC
<1>12. CASE RunWrites
  <2> DEFINE doc == [lcopy EXCEPT !.state = "running", !.pid = TRUE]
  <2>1. lcopy \in Doc
    BY <1>12, LauncherCopy DEF RunWrites, LauncherWrites, LauncherNeedsCopy
  <2>2. doc \in Doc /\ Recoverable(doc)
    BY <2>1 DEF Doc, Active, Recoverable
  <2>3. LauncherWrites("runWrite", doc, "stream") /\ UNCHANGED concluded
    BY <1>12 DEF RunWrites
  <2> HIDE DEF doc
  <2> QED
    BY <2>2, <2>3, LauncherWritesIInv DEF LauncherPC, LauncherNeedsCopy
<1>13. CASE LineLoads
  BY <1>13, LauncherLoadsIInv DEF LineLoads, LauncherPC
<1>14. CASE LineWrites
  <2>1. lcopy \in Doc /\ Recoverable(lcopy)
    BY <1>14, LauncherCopy DEF LineWrites, LauncherWrites, LauncherNeedsCopy
  <2> QED
    BY <1>14, <2>1, LauncherWritesIInv DEF LineWrites, LauncherPC, LauncherNeedsCopy
<1>15. CASE LogErrorWrites
  <2>1. lcopy \in Doc /\ Recoverable(lcopy)
    BY <1>15, LauncherCopy DEF LogErrorWrites, LauncherConcludes, LauncherNeedsCopy
  <2> QED
    BY <1>15, <2>1, ConcludingDoc, LauncherConcludesIInv DEF LogErrorWrites, Terminal
<1>16. CASE LauncherWaits
  BY <1>16 DEF LauncherWaits, IInv, TypeOK, CopiesPresent, EveryCopyRecoverable,
     Recoverable, LauncherNeedsCopy, LauncherPC, ProcessStates, apiVars
<1>17. CASE GracefulStop
  BY <1>17 DEF GracefulStop, IInv, TypeOK, CopiesPresent, EveryCopyRecoverable,
     Recoverable, LauncherNeedsCopy, LauncherPC, ProcessStates, apiVars
<1>18. CASE FinalLoads
  BY <1>18, LauncherLoadsIInv DEF FinalLoads, LauncherPC
<1>19. CASE FinalWrites
  <2>1. lcopy \in Doc /\ Recoverable(lcopy)
    BY <1>19, LauncherCopy DEF FinalWrites, LauncherConcludes, LauncherNeedsCopy
  <2>2. FinalState \in Terminal
    BY DEF FinalState, Terminal
  <2> QED
    BY <1>19, <2>1, <2>2, ConcludingDoc, LauncherConcludesIInv DEF FinalWrites
<1> QED
  BY <1>1, <1>2, <1>3, <1>4, <1>5, <1>6, <1>7, <1>8, <1>9, <1>10, <1>11, <1>12,
     <1>13, <1>14, <1>15, <1>16, <1>17, <1>18, <1>19 DEF LauncherStep

(* Faults, the trainer, the operating system and the clock write nothing. *)
LEMMA EnvironmentIInv ==
  ASSUME IInv,
         \/ LogFails \/ LauncherDies \/ TrainerExits \/ ReapLauncher
         \/ \E stamp \in {"service", "launcher"} : GraceExpires(stamp)
  PROVE  IInv'
<1>1. CASE LogFails
  BY <1>1, LauncherLoadsIInv DEF LogFails, LauncherPC
<1>2. CASE LauncherDies
  BY <1>2 DEF LauncherDies, LauncherEnds, IInv, TypeOK, CopiesPresent,
     EveryCopyRecoverable, Recoverable, LauncherNeedsCopy, LauncherPC, ProcessStates, apiVars
<1>3. CASE TrainerExits
  BY <1>3 DEF TrainerExits, IInv, TypeOK, CopiesPresent, EveryCopyRecoverable,
     Recoverable, ProcessStates, apiVars
<1>4. CASE ReapLauncher
  BY <1>4 DEF ReapLauncher, IInv, TypeOK, CopiesPresent, EveryCopyRecoverable,
     Recoverable, ProcessStates, apiVars
<1>5. ASSUME NEW stamp \in {"service", "launcher"}, GraceExpires(stamp)
      PROVE  IInv'
  BY <1>5 DEF GraceExpires, IInv, TypeOK, CopiesPresent, EveryCopyRecoverable,
     Recoverable, apiVars, launcherVars
<1> QED
  BY <1>1, <1>2, <1>3, <1>4, <1>5

(* Every step of every process preserves the inductive invariant. *)
LEMMA StepIInv == IInv /\ [Next]_vars => IInv'
<1> SUFFICES ASSUME IInv, [Next]_vars PROVE IInv'
  OBVIOUS
<1>1. CASE Create
  BY <1>1, CreateIInv
<1>2. ASSUME NEW t \in Stoppers, Stop(t) PROVE IInv'
  BY <1>2, StopIInv
<1>3. ASSUME NEW t \in Stoppers \cup Pollers, Poll(t) PROVE IInv'
  BY <1>3, PollIInv
<1>4. CASE LauncherStep
  BY <1>4, LauncherStepIInv
<1>5. CASE \/ LogFails \/ LauncherDies \/ TrainerExits \/ ReapLauncher
           \/ \E stamp \in {"service", "launcher"} : GraceExpires(stamp)
  BY <1>5, EnvironmentIInv
<1>6. CASE UNCHANGED vars
  BY <1>6 DEF vars, IInv, TypeOK, CopiesPresent, EveryCopyRecoverable, Recoverable
<1> QED
  BY <1>1, <1>2, <1>3, <1>4, <1>5, <1>6 DEF Next

(* The inductive invariant holds in every reachable state. *)
THEOREM Inductive == Spec => []IInv
BY InitIInv, StepIInv, PTL DEF Spec

(* Every document in memory or on disk is one that a process wrote whole,  *)
(* and every process is where its code can be.                             *)
THEOREM TypeCorrect == Spec => []TypeOK
<1>1. IInv => TypeOK
  BY DEF IInv
<1> QED
  BY <1>1, Inductive, PTL

(* However the read-modify-writes of run_status.json interleave, a running *)
(* status holds the process id by which a poll can find the run dead.      *)
THEOREM RunningRecoverable == Spec => []RunningIsRecoverable
<1>1. IInv => RunningIsRecoverable
  BY DEF IInv, EveryCopyRecoverable, Recoverable, RunningIsRecoverable
<1> QED
  BY <1>1, Inductive, PTL
---------------------------------------------------------------------------
(* What a terminal status says of the trainer.  It says nothing unless the *)
(* user waits with Stop until the run is shown running: an earlier stop    *)
(* holds a copy that names no process, and gives the run up.               *)
StopsOfARunningRun == "starting" \notin StopStates

(* Where the launcher can be before it has a trainer, while it has one,    *)
(* and once it has recorded the trainer's process id.                      *)
BeforeTrainer == {"none", "preflight", "checked", "rejectWrite", "startWrite",
                  "manifest", "try", "spawnErrorWrite"}
Supervising == {"runLoad", "runWrite", "stream", "lineWrite", "graceful1", "graceful2"}
Recorded == {"stream", "lineWrite", "graceful1", "graceful2", "logError", "finalise",
             "finalWrite", "dead"}

(* The launcher has a trainer where its code says so. *)
Phases ==
  /\ launcher = "none" <=> lpc = "none"
  /\ launcher \in {"zombie", "gone"} <=> lpc = "dead"
  /\ lpc \in BeforeTrainer => trainer = "none"
  /\ lpc \in Supervising \cup {"logError"} => trainer # "none"
  /\ trainer = "alive" => lpc \in Supervising \cup {"logError", "dead"}
  /\ pc[Creator] = "spawn" => launcher = "none"

(* The trainer has ended, or nobody is there to start one any more. *)
Over ==
  \/ trainer \in {"zombie", "gone"}
  \/ lpc = "dead"
  \/ lpc = "none" /\ pc[Creator] # "spawn"

(* What a document that some process may still write tells of the others. *)
Honest(doc) ==
  /\ doc.state \in {"running", "stopping"} => doc.pid
  /\ doc.pid => trainer # "none" /\ lpc \in Recorded
  /\ doc.launcherPid => launcher # "none"
  /\ doc.state \in Terminal => Over

EveryCopyHonest ==
  /\ Honest(status)
  /\ tmp # NoDoc => Honest(tmp)
  /\ \A t \in Threads : copy[t] # NoDoc => Honest(copy[t])
  /\ lcopy # NoDoc => Honest(lcopy)

(* A stop works on a run that was running; a thread that is about to give  *)
(* the run up has found it over.                                           *)
Intents ==
  /\ \A t \in Stoppers :
       /\ pc[t] = "mark" => copy[t].state \in {"running", "stopping"}
       /\ pc[t] \in {"markReplace", "signal", "lost"} => copy[t].state = "stopping"
  /\ \A t \in Threads : pc[t] \in {"recover", "lost"} => Over

(* No stop is under way before the run was running. *)
NoEarlySignal ==
  lpc \in BeforeTrainer \cup {"runLoad", "runWrite"} =>
    \A t \in Stoppers : pc[t] \notin {"mark", "markReplace", "signal"}

(* A run that is shown starting once the launcher has signed in names it. *)
NamesLauncher(doc) == doc.state = "starting" => doc.launcherPid
LauncherNamed ==
  /\ tmp # NoDoc => NamesLauncher(tmp)
  /\ lpc \in Supervising \cup {"manifest", "try"} => NamesLauncher(status)
  /\ lpc = "lineWrite" => NamesLauncher(lcopy)

Orderly == /\ Phases /\ EveryCopyHonest /\ Intents
           /\ NoEarlySignal /\ LauncherNamed

LEMMA InitOrderly == Init => Orderly
<1> SUFFICES ASSUME Init PROVE Orderly
  OBVIOUS
<1>1. Creator \in Threads /\ Stoppers \subseteq Threads
  BY DEF Threads
<1>2. pc[Creator] = "spawn" /\ \A t \in Stoppers : pc[t] = "idle"
  BY <1>1, ConstantsOK DEF Init
<1>3. \A t \in Threads : pc[t] \in {"spawn", "idle", "poll"} /\ copy[t] = NoDoc
  BY DEF Init
<1>4. Phases
  BY <1>2 DEF Init, Phases, Supervising
<1>5. EveryCopyHonest
  BY <1>3 DEF Init, EveryCopyHonest, Honest, CreatedDoc, Terminal
<1>6. Intents
  BY <1>2, <1>3 DEF Intents
<1>7. NoEarlySignal
  BY <1>2 DEF NoEarlySignal
<1>8. LauncherNamed
  BY DEF Init, LauncherNamed, Supervising
<1> QED
  BY <1>4, <1>5, <1>6, <1>7, <1>8 DEF Orderly

(* What only ever becomes true. *)
Ahead ==
  /\ trainer # "none" => trainer' # "none"
  /\ lpc \in Recorded => lpc' \in Recorded
  /\ launcher # "none" => launcher' # "none"
  /\ Over => Over'

LEMMA HonestStays ==
  ASSUME Ahead, NEW doc, Honest(doc)
  PROVE  Honest(doc)'
BY DEF Ahead, Honest

---------------------------------------------------------------------------
(* The steps of an API thread that only write a temporary file, rename it  *)
(* or load the status leave the processes alone.                           *)
LEMMA ApiProcesses ==
  ASSUME IInv, Orderly, NEW t \in Threads, NEW next \in ApiPC \ {"spawn"},
         Goto(t, next), UNCHANGED <<launcherVars, trainer>>,
         t \in Stoppers /\ next \in {"mark", "markReplace", "signal"} =>
           lpc \notin BeforeTrainer \cup {"runLoad", "runWrite"}
  PROVE  Phases' /\ NoEarlySignal' /\ Ahead
<1>0. Creator \in Threads /\ Stoppers \subseteq Threads /\ Creator \notin Stoppers
  BY ConstantsOK DEF Threads
<1>1. pc \in [Threads -> ApiPC] /\ pc' = [pc EXCEPT ![t] = next]
  BY DEF IInv, TypeOK, Goto
<1>2. Phases'
  BY <1>0, <1>1 DEF Orderly, Phases, launcherVars
<1>3. Ahead
  BY <1>0, <1>1 DEF Ahead, Over, launcherVars
<1>4. NoEarlySignal'
  BY <1>0, <1>1 DEF Orderly, NoEarlySignal, launcherVars
<1> QED
  BY <1>2, <1>3, <1>4

(* What a thread writes to the temporary file, installs or loads. *)
LEMMA TemporaryOrderly ==
  ASSUME IInv, Orderly, NEW t \in Threads, NEW doc \in Doc,
         Honest(doc), NamesLauncher(doc),
         NEW next \in {"createReplace", "markReplace", "lostReplace", "recoverReplace"},
         t \in Stoppers /\ next = "markReplace" => pc[t] = "mark" /\ doc.state = "stopping",
         WriteTemporary(t, doc, next),
         UNCHANGED <<status, launcherVars, trainer, expired>>
  PROVE  Orderly'
<1>0. Creator \in Threads /\ Stoppers \subseteq Threads /\ NoDoc \notin Doc
  BY ConstantsOK DEF Threads
<1>1. /\ pc \in [Threads -> ApiPC] /\ pc' = [pc EXCEPT ![t] = next]
      /\ copy \in [Threads -> Doc \cup {NoDoc}] /\ copy' = [copy EXCEPT ![t] = doc]
      /\ tmp' = doc /\ lcopy' = lcopy /\ status' = status /\ lpc' = lpc
  BY DEF IInv, TypeOK, WriteTemporary, Goto, launcherVars
<1>2. t \in Stoppers /\ next = "markReplace" =>
        lpc \notin BeforeTrainer \cup {"runLoad", "runWrite"}
  BY DEF Orderly, NoEarlySignal
<1>3. Phases' /\ NoEarlySignal' /\ Ahead
  BY <1>2, ApiProcesses DEF WriteTemporary, ApiPC
<1>4. EveryCopyHonest'
  BY <1>0, <1>1, <1>3, HonestStays DEF Orderly, EveryCopyHonest, Honest
<1>5. Intents'
  BY <1>0, <1>1, <1>3 DEF Orderly, Intents, Ahead
<1>6. LauncherNamed'
  BY <1>0, <1>1 DEF Orderly, LauncherNamed, NamesLauncher
<1> QED
  BY <1>3, <1>4, <1>5, <1>6 DEF Orderly

LEMMA ReplaceOrderly ==
  ASSUME IInv, Orderly, NEW t \in Threads,
         NEW next \in {"poll", "done"}, NEW onError \in {"poll", "done"},
         ReplaceStatus(t, next, onError), Forget(t),
         UNCHANGED <<launcherVars, trainer, expired>>
  PROVE  Orderly'
<1>0. Creator \in Threads /\ Stoppers \subseteq Threads
  BY DEF Threads
<1> PICK to \in {"poll", "done"} : pc' = [pc EXCEPT ![t] = to]
  BY DEF ReplaceStatus, Goto
<1>1. /\ pc \in [Threads -> ApiPC]
      /\ copy \in [Threads -> Doc \cup {NoDoc}] /\ copy' = [copy EXCEPT ![t] = NoDoc]
      /\ lcopy' = lcopy /\ lpc' = lpc
      /\ \/ status' = status /\ tmp' = tmp
         \/ tmp # NoDoc /\ status' = tmp /\ tmp' = NoDoc
  BY DEF IInv, TypeOK, ReplaceStatus, Forget, launcherVars
<1>3. Phases' /\ NoEarlySignal' /\ Ahead
  BY ApiProcesses DEF Goto, ApiPC
<1>4. EveryCopyHonest'
  BY <1>0, <1>1, <1>3, HonestStays DEF Orderly, EveryCopyHonest, Honest
<1>5. Intents'
  BY <1>0, <1>1, <1>3 DEF Orderly, Intents, Ahead
<1>6. LauncherNamed'
  BY <1>0, <1>1 DEF Orderly, LauncherNamed, NamesLauncher
<1> QED
  BY <1>3, <1>4, <1>5, <1>6 DEF Orderly

LEMMA LoadOrderly ==
  ASSUME IInv, Orderly, NEW t \in Threads,
         NEW next \in {"createWrite", "check", "mark"},
         t \in Stoppers /\ next = "mark" =>
           pc[t] = "idle" /\ status.state \in {"running", "stopping"},
         LoadStatus(t, next),
         UNCHANGED <<status, tmp, launcherVars, trainer, expired>>
  PROVE  Orderly'
<1>0. Creator \in Threads /\ Stoppers \subseteq Threads /\ NoDoc \notin Doc
  BY ConstantsOK DEF Threads
<1>1. /\ pc \in [Threads -> ApiPC] /\ pc' = [pc EXCEPT ![t] = next]
      /\ copy \in [Threads -> Doc \cup {NoDoc}] /\ copy' = [copy EXCEPT ![t] = status]
      /\ tmp' = tmp /\ lcopy' = lcopy /\ status' = status /\ lpc' = lpc
  BY DEF IInv, TypeOK, LoadStatus, Goto, launcherVars
<1>2. t \in Stoppers /\ next = "mark" =>
        lpc \notin BeforeTrainer \cup {"runLoad", "runWrite"}
  BY DEF Orderly, EveryCopyHonest, Honest, Recorded, BeforeTrainer
<1>3. Phases' /\ NoEarlySignal' /\ Ahead
  BY <1>2, ApiProcesses DEF LoadStatus, ApiPC
<1>4. EveryCopyHonest'
  BY <1>0, <1>1, <1>3, HonestStays DEF Orderly, EveryCopyHonest, Honest
<1>5. Intents'
  BY <1>0, <1>1, <1>3 DEF Orderly, Intents, Ahead
<1>6. LauncherNamed'
  BY <1>0, <1>1 DEF Orderly, LauncherNamed, NamesLauncher
<1> QED
  BY <1>3, <1>4, <1>5, <1>6 DEF Orderly

---------------------------------------------------------------------------
LEMMA CreateOrderly ==
  ASSUME IInv, Orderly, Create
  PROVE  Orderly'
<1>t. Creator \in Threads /\ Creator \notin Stoppers /\ Stoppers \subseteq Threads
  BY ConstantsOK DEF Threads
<1>1. CASE SpawnLauncher
  <2>1. /\ pc \in [Threads -> ApiPC] /\ pc' = [pc EXCEPT ![Creator] = "created"]
        /\ launcher = "none" /\ lpc = "none" /\ trainer = "none" /\ pc[Creator] = "spawn"
        /\ launcher' = "alive" /\ lpc' = "preflight"
        /\ UNCHANGED <<status, tmp, copy, lcopy, trainer>>
    BY <1>1 DEF SpawnLauncher, Goto, IInv, TypeOK, Orderly, Phases, BeforeTrainer
  <2>2. Phases' /\ Ahead
    BY <1>t, <2>1 DEF Phases, Ahead, Over, BeforeTrainer, Supervising, Recorded
  <2>3. EveryCopyHonest'
    BY <2>1, <2>2, HonestStays DEF Orderly, EveryCopyHonest, Honest
  <2>4. Intents'
    BY <1>t, <2>1, <2>2 DEF Orderly, Intents, Ahead
  <2>5. NoEarlySignal'
    BY <1>t, <2>1 DEF Orderly, NoEarlySignal, BeforeTrainer
  <2>6. LauncherNamed'
    BY <2>1 DEF Orderly, LauncherNamed, NamesLauncher, Supervising
  <2> QED
    BY <2>2, <2>3, <2>4, <2>5, <2>6 DEF Orderly
<1>2. CASE SpawnLauncherFails
  <2>1. /\ pc \in [Threads -> ApiPC] /\ pc' = [pc EXCEPT ![Creator] = "created"]
        /\ UNCHANGED <<status, tmp, copy, lcopy, trainer, lpc>>
    BY <1>2 DEF SpawnLauncherFails, Goto, IInv, TypeOK, launcherVars
  <2>2. Phases' /\ NoEarlySignal' /\ Ahead
    BY <1>2, <1>t, ApiProcesses DEF SpawnLauncherFails, ApiPC
  <2>3. EveryCopyHonest'
    BY <2>1, <2>2, HonestStays DEF Orderly, EveryCopyHonest, Honest
  <2>4. Intents'
    BY <1>t, <2>1, <2>2 DEF Orderly, Intents, Ahead
  <2>5. LauncherNamed'
    BY <2>1 DEF Orderly, LauncherNamed, NamesLauncher
  <2> QED
    BY <2>2, <2>3, <2>4, <2>5 DEF Orderly
<1>3. CASE CreateLoads
  BY <1>3, <1>t, LoadOrderly DEF CreateLoads
<1>4. CASE CreateRecords
  <2>1. copy[Creator] \in Doc /\ Honest(copy[Creator]) /\ pc[Creator] # "spawn"
    BY <1>4, <1>t DEF CreateRecords, IInv, TypeOK, CopiesPresent, NeedsCopy,
       Orderly, EveryCopyHonest
  <2>2. PICK doc \in Doc : /\ WriteTemporary(Creator, doc, "createReplace")
                           /\ Honest(doc) /\ NamesLauncher(doc)
    <3>1. CASE launcher = "none"
      <4> DEFINE failed == [copy[Creator] EXCEPT !.state = "failed"]
      <4>1. failed \in Doc /\ failed.state = "failed"
            /\ failed.pid = copy[Creator].pid
            /\ failed.launcherPid = copy[Creator].launcherPid
        BY <2>1 DEF Doc, Terminal
      <4>2. WriteTemporary(Creator, failed, "createReplace")
        BY <1>4, <3>1 DEF CreateRecords
      <4>3. Over
        BY <2>1, <3>1 DEF Orderly, Phases, Over, BeforeTrainer
      <4> HIDE DEF failed
      <4>4. Honest(failed) /\ NamesLauncher(failed)
        BY <2>1, <4>1, <4>3 DEF Honest, NamesLauncher
      <4> QED
        BY <4>1, <4>2, <4>4
    <3>2. CASE launcher # "none"
      <4> DEFINE named == [copy[Creator] EXCEPT !.launcherPid = TRUE]
      <4>1. named \in Doc /\ named.state = copy[Creator].state
            /\ named.pid = copy[Creator].pid /\ named.launcherPid
        BY <2>1 DEF Doc
      <4>2. WriteTemporary(Creator, named, "createReplace")
        BY <1>4, <3>2 DEF CreateRecords
      <4> HIDE DEF named
      <4>3. Honest(named) /\ NamesLauncher(named)
        BY <2>1, <3>2, <4>1 DEF Honest, NamesLauncher
      <4> QED
        BY <4>1, <4>2, <4>3
    <3> QED
      BY <3>1, <3>2
  <2>3. UNCHANGED <<status, launcherVars, trainer, expired>>
    BY <1>4 DEF CreateRecords
  <2> QED
    BY <1>t, <2>2, <2>3, TemporaryOrderly
<1>5. CASE CreateReplaces
  BY <1>5, <1>t, ReplaceOrderly DEF CreateReplaces
<1> QED
  BY <1>1, <1>2, <1>3, <1>4, <1>5 DEF Create

LEMMA PollOrderly ==
  ASSUME IInv, Orderly, NEW t \in Stoppers \cup Pollers, Poll(t)
  PROVE  Orderly'
<1>t. t \in Threads /\ t # Creator /\ Stoppers \subseteq Threads
  BY ConstantsOK DEF Threads
<1>1. CASE PollLoads(t)
  BY <1>1, <1>t, LoadOrderly DEF PollLoads
<1>2. CASE PollChecks(t)
  <2>1. /\ copy[t] \in Doc /\ Honest(copy[t]) /\ pc[t] = "check"
        /\ pc \in [Threads -> ApiPC] /\ copy \in [Threads -> Doc \cup {NoDoc}]
    BY <1>2, <1>t DEF PollChecks, IInv, TypeOK, CopiesPresent, NeedsCopy,
       Orderly, EveryCopyHonest
  <2>2. PICK next \in {"recover", "poll", "done"} : Goto(t, next)
    BY <1>2 DEF PollChecks, AfterPoll
  <2>3. Phases' /\ NoEarlySignal' /\ Ahead
    BY <1>2, <1>t, <2>2, ApiProcesses DEF PollChecks, ApiPC
  \* A recorded trainer or launcher that is not found has been waited for.
  <2>4. next = "recover" => Over
    <3>1. next = "recover" => ManagedProcessAbsent(copy[t])
      BY <1>2, <1>t, <2>1, <2>2 DEF PollChecks, AfterPoll, Goto
    <3>2. ManagedProcessAbsent(copy[t]) => Over
      BY <2>1 DEF ManagedProcessAbsent, Exists, Honest, Orderly, Phases, Over, IInv,
         TypeOK, ProcessStates, Supervising
    <3> QED
      BY <3>1, <3>2
  <2>5. /\ pc' = [pc EXCEPT ![t] = next] /\ UNCHANGED <<status, tmp, lcopy, lpc>>
        /\ copy' = copy \/ copy' = [copy EXCEPT ![t] = NoDoc]
    BY <1>2, <2>2 DEF PollChecks, Goto, Forget, launcherVars
  <2>6. EveryCopyHonest'
    BY <1>t, <2>1, <2>3, <2>5, HonestStays DEF Orderly, EveryCopyHonest, Honest
  <2>7. Intents'
    BY <1>t, <2>1, <2>3, <2>4, <2>5 DEF Orderly, Intents, Ahead
  <2>8. LauncherNamed'
    BY <2>5 DEF Orderly, LauncherNamed, NamesLauncher
  <2> QED
    BY <2>3, <2>6, <2>7, <2>8 DEF Orderly
<1>3. CASE PollRecovers(t)
  <2>1. copy[t] \in Doc /\ Honest(copy[t]) /\ Over
    BY <1>3, <1>t DEF PollRecovers, IInv, TypeOK, CopiesPresent, NeedsCopy,
       Orderly, EveryCopyHonest, Intents
  <2>2. PICK state \in {"stopped", "error"},
             why \in {"absent_at_stop", "no_terminal_status"} :
          WriteTemporary(t, [copy[t] EXCEPT !.state = state, !.lifecycleError = why],
                         "recoverReplace")
    <3>1. CASE copy[t].state = "stopping" \/ copy[t].stopRequested
      BY <1>3, <3>1 DEF PollRecovers
    <3>2. CASE ~(copy[t].state = "stopping" \/ copy[t].stopRequested)
      BY <1>3, <3>2 DEF PollRecovers
    <3> QED
      BY <3>1, <3>2
  <2> DEFINE doc == [copy[t] EXCEPT !.state = state, !.lifecycleError = why]
  <2>3. doc \in Doc /\ doc.state = state /\ doc.pid = copy[t].pid
        /\ doc.launcherPid = copy[t].launcherPid
    BY <2>1 DEF Doc, Terminal
  <2>4. UNCHANGED <<status, launcherVars, trainer, expired>>
        /\ WriteTemporary(t, doc, "recoverReplace")
    BY <1>3, <2>2 DEF PollRecovers
  <2> HIDE DEF doc
  <2>5. Honest(doc) /\ NamesLauncher(doc)
    BY <2>1, <2>3 DEF Honest, NamesLauncher
  <2> QED
    BY <1>t, <2>3, <2>4, <2>5, TemporaryOrderly
<1>4. CASE PollReplaces(t)
  BY <1>4, <1>t, ReplaceOrderly DEF PollReplaces, AfterPoll
<1> QED
  BY <1>1, <1>2, <1>3, <1>4 DEF Poll

(* A SIGINT finds the launcher past the start of its trainer: it goes on   *)
(* to stop it, or ends.                                                    *)
LEMMA InterruptOrderly ==
  ASSUME IInv, Orderly, NEW t \in Stoppers, pc[t] = "signal",
         InterruptLauncher, Goto(t, "poll"), Forget(t), UNCHANGED <<status, tmp, expired>>
  PROVE  Orderly'
<1>0. t \in Threads /\ Creator \in Threads /\ t # Creator /\ Stoppers \subseteq Threads
  BY ConstantsOK DEF Threads
<1>1. /\ pc \in [Threads -> ApiPC] /\ pc' = [pc EXCEPT ![t] = "poll"]
      /\ copy \in [Threads -> Doc \cup {NoDoc}] /\ copy' = [copy EXCEPT ![t] = NoDoc]
      /\ lpc \in LauncherPC /\ launcher \in ProcessStates /\ trainer \in ProcessStates
  BY DEF IInv, TypeOK, Goto, Forget
<1>2. lpc \notin BeforeTrainer \cup {"runLoad", "runWrite"}
  BY DEF Orderly, NoEarlySignal
<1>3. \/ launcher # "alive" /\ UNCHANGED <<launcher, lpc, lcopy, trainer>>
      \/ /\ launcher = "alive" /\ lpc \in {"stream", "lineWrite", "graceful1"}
         /\ launcher' = launcher /\ trainer' = trainer /\ lcopy' = NoDoc
         /\ lpc' \in {"graceful1", "graceful2"}
      \/ /\ launcher = "alive" /\ lpc \in {"graceful2", "logError", "finalise", "finalWrite"}
         /\ launcher' = "zombie" /\ lpc' = "dead" /\ lcopy' = NoDoc
         /\ trainer' = trainer \/ (trainer = "zombie" /\ trainer' = "gone")
  <2>1. CASE launcher # "alive"
    BY <2>1 DEF InterruptLauncher
  <2>2. CASE launcher = "alive" /\ lpc \in {"stream", "lineWrite", "graceful1"}
    BY <2>2 DEF InterruptLauncher, InterruptTarget, OutsideTry
  <2>3. CASE launcher = "alive" /\ lpc \in {"graceful2", "logError", "finalise", "finalWrite"}
    BY <2>3 DEF InterruptLauncher, InterruptTarget, OutsideTry, LauncherEnds
  <2>4. launcher = "alive" => lpc # "dead"
    BY DEF Orderly, Phases
  <2> QED
    BY <1>1, <1>2, <2>1, <2>2, <2>3, <2>4 DEF LauncherPC, BeforeTrainer
<1>4. pc'[Creator] = pc[Creator]
  BY <1>0, <1>1
<1>5. Phases' /\ Ahead
  BY <1>2, <1>3, <1>4 DEF Orderly, Phases, Ahead, Over, BeforeTrainer, Recorded, Supervising
<1>6. EveryCopyHonest'
  <2>1. tmp' = tmp /\ status' = status /\ lcopy' \in {lcopy, NoDoc}
    BY <1>3
  <2> QED
    BY <1>0, <1>1, <1>5, <2>1, HonestStays DEF Orderly, EveryCopyHonest, Honest
<1>7. Intents'
  BY <1>0, <1>1, <1>5 DEF Orderly, Intents, Ahead
<1>8. NoEarlySignal'
  BY <1>2, <1>3 DEF NoEarlySignal, BeforeTrainer
<1>9. LauncherNamed'
  BY <1>2, <1>3 DEF Orderly, LauncherNamed, NamesLauncher, Supervising
<1> QED
  BY <1>5, <1>6, <1>7, <1>8, <1>9 DEF Orderly

LEMMA StopOrderly ==
  ASSUME StopsOfARunningRun, IInv, Orderly, NEW t \in Stoppers, Stop(t)
  PROVE  Orderly'
<1>t. t \in Threads /\ t # Creator /\ Stoppers \subseteq Threads /\ NoDoc \notin Doc
  BY ConstantsOK DEF Threads
<1>p. pc \in [Threads -> ApiPC] /\ copy \in [Threads -> Doc \cup {NoDoc}]
  BY DEF IInv, TypeOK
<1>1. CASE StopLoads(t)
  <2>1. CASE status.state \in Active
    <3>1. status.state \in {"running", "stopping"}
      BY <1>1, <2>1 DEF StopLoads, StopsOfARunningRun, Active
    <3> QED
      BY <1>1, <1>t, <2>1, <3>1, LoadOrderly DEF StopLoads
  <2>2. CASE status.state \notin Active
    <3>1. /\ Goto(t, "done") /\ pc' = [pc EXCEPT ![t] = "done"]
          /\ UNCHANGED <<status, tmp, copy, lcopy, lpc>>
          /\ UNCHANGED <<launcherVars, trainer>>
      BY <1>1, <2>2 DEF StopLoads, Goto, launcherVars
    <3>2. Phases' /\ NoEarlySignal' /\ Ahead
      BY <1>t, <3>1, ApiProcesses DEF ApiPC
    <3>3. EveryCopyHonest'
      BY <1>t, <3>1, <3>2, HonestStays DEF Orderly, EveryCopyHonest, Honest
    <3>4. Intents' /\ LauncherNamed'
      BY <1>t, <1>p, <3>1, <3>2 DEF Orderly, Intents, Ahead, LauncherNamed, NamesLauncher
    <3> QED
      BY <3>2, <3>3, <3>4 DEF Orderly
  <2> QED
    BY <2>1, <2>2
<1>2. CASE StopMarks(t)
  <2> DEFINE doc == [copy[t] EXCEPT !.state = "stopping", !.stopRequested = TRUE]
  <2>1. /\ copy[t] \in Doc /\ Honest(copy[t]) /\ pc[t] = "mark"
        /\ copy[t].state \in {"running", "stopping"}
    BY <1>2, <1>t DEF StopMarks, IInv, TypeOK, CopiesPresent, NeedsCopy, Orderly,
       EveryCopyHonest, Intents
  <2>2. doc \in Doc /\ doc.state = "stopping" /\ doc.pid = copy[t].pid
        /\ doc.launcherPid = copy[t].launcherPid
    BY <2>1 DEF Doc, Active
  <2>3. WriteTemporary(t, doc, "markReplace") /\ UNCHANGED <<status, launcherVars, trainer, expired>>
    BY <1>2 DEF StopMarks
  <2> HIDE DEF doc
  <2>4. Honest(doc) /\ NamesLauncher(doc)
    BY <2>1, <2>2 DEF Honest, NamesLauncher, Terminal
  <2> QED
    BY <1>t, <2>1, <2>2, <2>3, <2>4, TemporaryOrderly
<1>3. CASE StopMarkReplaces(t)
  <2> PICK next \in {"signal", "done"} : Goto(t, next)
    BY <1>3 DEF StopMarkReplaces, ReplaceStatus
  <2>1. /\ pc[t] = "markReplace" /\ copy[t] \in Doc
        /\ pc' = [pc EXCEPT ![t] = next] /\ UNCHANGED <<lcopy, lpc>>
        /\ UNCHANGED <<launcherVars, trainer>>
        /\ \/ status' = status /\ tmp' = tmp
           \/ tmp # NoDoc /\ status' = tmp /\ tmp' = NoDoc
        /\ \/ next = "done" /\ copy' = [copy EXCEPT ![t] = NoDoc]
           \/ copy' = copy
    BY <1>3, <1>t, <1>p DEF StopMarkReplaces, ReplaceStatus, Goto, Forget, launcherVars, IInv,
       CopiesPresent, NeedsCopy
  <2>2. lpc \notin BeforeTrainer \cup {"runLoad", "runWrite"}
    BY <2>1 DEF Orderly, NoEarlySignal
  <2>3. Phases' /\ NoEarlySignal' /\ Ahead
    BY <1>t, <2>1, <2>2, ApiProcesses DEF ApiPC
  <2>4. EveryCopyHonest'
    BY <1>t, <1>p, <2>1, <2>3, HonestStays DEF Orderly, EveryCopyHonest, Honest
  <2>5. Intents'
    BY <1>t, <1>p, <2>1, <2>3 DEF Orderly, Intents, Ahead
  <2>6. LauncherNamed'
    BY <2>1 DEF Orderly, LauncherNamed, NamesLauncher
  <2> QED
    BY <2>3, <2>4, <2>5, <2>6 DEF Orderly
<1>4. CASE StopSignals(t)
  <2>0. /\ pc[t] = "signal" /\ UNCHANGED <<status, tmp, expired>>
        /\ copy[t] \in Doc /\ copy[t] # NoDoc /\ copy[t].state = "stopping"
    BY <1>4, <1>t, <1>p DEF StopSignals, IInv, CopiesPresent, NeedsCopy, Orderly, Intents
  <2>1. CASE InterruptLauncher /\ Goto(t, "poll") /\ Forget(t)
    BY <2>0, <2>1, InterruptOrderly
  <2>2. CASE /\ UNCHANGED <<launcherVars, trainer>>
             /\ \/ Goto(t, "poll") /\ Forget(t)
                \/ /\ Goto(t, "lost") /\ UNCHANGED copy
                   /\ ~(copy[t].pid /\ Exists(trainer))
    <3> PICK next \in {"poll", "lost"} : Goto(t, next)
      BY <2>2
    <3>1. Phases' /\ NoEarlySignal' /\ Ahead
      BY <1>t, <2>2, ApiProcesses DEF ApiPC
    <3>2. /\ pc' = [pc EXCEPT ![t] = next] /\ UNCHANGED <<lcopy, lpc>>
          /\ copy' = copy \/ (next = "poll" /\ copy' = [copy EXCEPT ![t] = NoDoc])
      BY <1>t, <1>p, <2>2 DEF Goto, Forget, launcherVars
    \* The process id is recorded, and its owner has been waited for.
    <3>3. next = "lost" => Over
      <4>1. copy[t].pid /\ trainer # "none"
        BY <1>t, <2>0 DEF Orderly, EveryCopyHonest, Honest
      <4>2. next = "lost" => ~Exists(trainer)
        BY <1>t, <1>p, <2>2, <3>2, <4>1 DEF Goto
      <4> QED
        BY <4>1, <4>2 DEF Exists, Over, IInv, TypeOK, ProcessStates
    <3>4. EveryCopyHonest'
      BY <1>t, <1>p, <2>0, <3>1, <3>2, HonestStays DEF Orderly, EveryCopyHonest, Honest
    <3>5. Intents'
      BY <1>t, <1>p, <2>0, <3>1, <3>2, <3>3 DEF Orderly, Intents, Ahead
    <3>6. LauncherNamed'
      BY <2>0, <3>2 DEF Orderly, LauncherNamed, NamesLauncher
    <3> QED
      BY <3>1, <3>4, <3>5, <3>6 DEF Orderly
  <2> QED
    BY <1>4, <2>1, <2>2 DEF StopSignals
<1>5. CASE StopGivesUp(t)
  <2> DEFINE doc == [copy[t] EXCEPT !.state = "stopped",
                                    !.lifecycleError = "no_live_process"]
  <2>1. copy[t] \in Doc /\ Honest(copy[t]) /\ Over
    BY <1>5, <1>t DEF StopGivesUp, IInv, TypeOK, CopiesPresent, NeedsCopy, Orderly,
       EveryCopyHonest, Intents
  <2>2. doc \in Doc /\ doc.state = "stopped" /\ doc.pid = copy[t].pid
        /\ doc.launcherPid = copy[t].launcherPid
    BY <2>1 DEF Doc, Terminal
  <2>3. WriteTemporary(t, doc, "lostReplace") /\ UNCHANGED <<status, launcherVars, trainer, expired>>
    BY <1>5 DEF StopGivesUp
  <2> HIDE DEF doc
  <2>4. Honest(doc) /\ NamesLauncher(doc)
    BY <2>1, <2>2 DEF Honest, NamesLauncher
  <2> QED
    BY <1>t, <2>2, <2>3, <2>4, TemporaryOrderly
<1>6. CASE StopGiveUpReplaces(t)
  BY <1>6, <1>t, ReplaceOrderly DEF StopGiveUpReplaces
<1> QED
  BY <1>1, <1>2, <1>3, <1>4, <1>5, <1>6 DEF Stop

---------------------------------------------------------------------------
(* The launcher, the trainer and the system leave the API threads alone.   *)
LEMMA QuietOrderly ==
  ASSUME IInv, Orderly, UNCHANGED apiVars, Ahead,
         Phases', Honest(status)', lcopy' # NoDoc => Honest(lcopy)',
         NoEarlySignal', LauncherNamed'
  PROVE  Orderly'
<1>1. EveryCopyHonest'
  BY HonestStays DEF Orderly, EveryCopyHonest, Honest, apiVars
<1>2. Intents'
  BY DEF Orderly, Intents, Ahead, apiVars
<1> QED
  BY <1>1, <1>2 DEF Orderly

(* The launcher has one place to be, and leaves it for another. *)
LEMMA ForwardOrderly ==
  ASSUME IInv, Orderly, UNCHANGED <<apiVars, launcher, trainer, status>>,
         launcher = "alive",
         lcopy' \in {lcopy, status, NoDoc},
         lpc' \notin {"none", "dead"},
         lpc \in BeforeTrainer \cup {"runLoad", "runWrite"} \/
           lpc' \notin BeforeTrainer \cup {"runLoad", "runWrite"},
         lpc' \in BeforeTrainer => lpc \in BeforeTrainer,
         trainer = "alive" => lpc' \in Supervising \cup {"logError"},
         lpc \in Recorded => lpc' \in Recorded,
         lpc' \in Supervising \cup {"manifest", "try"} =>
           lpc \in Supervising \cup {"manifest", "try"},
         lpc' \in Supervising \cup {"logError"} => lpc \in Supervising,
         lpc' = "lineWrite" => lcopy' = status
  PROVE  Orderly'
<1>1. Phases' /\ Ahead
  BY DEF Orderly, Phases, Ahead, Over, apiVars
<1>2. Honest(status)' /\ (lcopy' # NoDoc => Honest(lcopy)')
  BY <1>1, HonestStays DEF Orderly, EveryCopyHonest, Honest
<1>3. NoEarlySignal'
  BY DEF Orderly, NoEarlySignal, apiVars
<1>4. LauncherNamed'
  BY DEF Orderly, LauncherNamed, NamesLauncher, apiVars, Supervising
<1> QED
  BY <1>1, <1>2, <1>3, <1>4, QuietOrderly

(* With its end the run is over, and what it says last is true. *)
LEMMA LauncherEndsOrderly ==
  ASSUME IInv, Orderly, UNCHANGED apiVars, launcher = "alive", LauncherEnds,
         \/ status' = status
         \/ /\ lcopy \in Doc /\ Honest(lcopy)
            /\ \E state \in Terminal : status' = [lcopy EXCEPT !.state = state]
  PROVE  Orderly'
<1>1. /\ launcher' = "zombie" /\ lpc' = "dead" /\ lcopy' = NoDoc
      /\ trainer' = trainer \/ (trainer = "zombie" /\ trainer' = "gone")
  BY DEF LauncherEnds
<1>2. Phases' /\ Ahead
  BY <1>1 DEF Orderly, Phases, Ahead, Over, BeforeTrainer, Supervising, Recorded, apiVars
<1>3. Honest(status)'
  <2>1. CASE status' = status
    BY <1>2, <2>1, HonestStays DEF Orderly, EveryCopyHonest, Honest
  <2>2. CASE status' # status
    <3> PICK state \in Terminal : status' = [lcopy EXCEPT !.state = state]
      BY <2>2
    <3>1. status'.state \in Terminal /\ status'.pid = lcopy.pid
          /\ status'.launcherPid = lcopy.launcherPid /\ Honest(lcopy)
      BY <2>2 DEF Doc
    <3>2. Over'
      BY <1>1 DEF Over
    <3> QED
      BY <1>1, <3>1, <3>2 DEF Honest, Terminal, Recorded
  <2> QED
    BY <2>1, <2>2
<1>4. NoEarlySignal' /\ LauncherNamed'
  <2>1. LauncherNamed'
    BY <1>1 DEF Orderly, LauncherNamed, NamesLauncher, Supervising, apiVars
  <2>2. NoEarlySignal'
    BY <1>1 DEF NoEarlySignal, BeforeTrainer
  <2> QED
    BY <2>1, <2>2
<1> QED
  BY <1>1, <1>2, <1>3, <1>4, QuietOrderly

LEMMA ConcludesOrderly ==
  ASSUME IInv, Orderly, NEW from \in LauncherNeedsCopy, NEW state \in Terminal,
         LauncherConcludes(from, [lcopy EXCEPT !.state = state])
  PROVE  Orderly'
<1>1. lcopy \in Doc /\ Honest(lcopy) /\ launcher = "alive"
  BY LauncherCopy, ConstantsOK DEF LauncherConcludes, At, Orderly, EveryCopyHonest
<1> QED
  BY <1>1, LauncherEndsOrderly DEF LauncherConcludes

LEMMA LauncherStepOrderly ==
  ASSUME IInv, Orderly, LauncherStep
  PROVE  Orderly'
<1> USE DEF At
<1>a. /\ lpc = "none" <=> launcher = "none"
      /\ launcher \in {"zombie", "gone"} <=> lpc = "dead"
      /\ trainer = "alive" => lpc \in Supervising \cup {"logError", "dead"}
      /\ lpc \in BeforeTrainer => trainer = "none"
  BY DEF Orderly, Phases
<1>1. CASE LauncherRejects
  BY <1>1, <1>a, LauncherEndsOrderly DEF LauncherRejects, Supervising
<1>2. CASE LauncherAcceptsDirectory
  BY <1>2, <1>a, ForwardOrderly DEF LauncherAcceptsDirectory, LauncherMoves, BeforeTrainer,
     Supervising, Recorded
<1>3. CASE RejectLoads
  BY <1>3, <1>a, ForwardOrderly DEF RejectLoads, LauncherLoads, BeforeTrainer,
     Supervising, Recorded
<1>4. CASE RejectWrites
  BY <1>4, ConcludesOrderly DEF RejectWrites, Terminal, LauncherNeedsCopy
<1>5. CASE StartLoads
  BY <1>5, <1>a, ForwardOrderly DEF StartLoads, LauncherLoads, BeforeTrainer,
     Supervising, Recorded
<1>6. CASE StartWrites
  <2>1. /\ launcher = "alive" /\ lpc = "startWrite" /\ trainer = "none"
        /\ lpc' = "manifest" /\ lcopy' = NoDoc /\ UNCHANGED <<apiVars, launcher, trainer>>
    BY <1>6, <1>a DEF StartWrites, LauncherWrites, BeforeTrainer
  <2>2. lcopy \in Doc /\ Honest(lcopy)
    BY <2>1, LauncherCopy, ConstantsOK DEF LauncherNeedsCopy, Orderly, EveryCopyHonest
  <2>3. status' = [lcopy EXCEPT !.state = "starting", !.launcherPid = TRUE, !.group = TRUE,
                                !.stopRequested = FALSE, !.started = "launcher"]
    BY <1>6 DEF StartWrites, LauncherWrites
  <2>4. status'.state = "starting" /\ status'.launcherPid /\ status'.pid = lcopy.pid
    BY <2>2, <2>3 DEF Doc
  <2>5. Phases' /\ Ahead
    BY <2>1, <1>a DEF Orderly, Phases, Ahead, Over, BeforeTrainer, Supervising, Recorded,
       apiVars
  <2>6. Honest(status)'
    BY <2>1, <2>2, <2>4, <2>5 DEF Honest, Terminal, Ahead
  <2>7. NoEarlySignal' /\ LauncherNamed'
    BY <2>1, <2>4 DEF Orderly, NoEarlySignal, LauncherNamed, NamesLauncher, apiVars,
       BeforeTrainer
  <2> QED
    BY <2>1, <2>5, <2>6, <2>7, QuietOrderly
<1>7. CASE LauncherEntersTry
  BY <1>7, <1>a, ForwardOrderly DEF LauncherEntersTry, LauncherMoves, BeforeTrainer,
     Supervising, Recorded
<1>8. CASE SpawnTrainer
  <2>1. /\ launcher = "alive" /\ lpc = "try" /\ trainer = "none" /\ trainer' = "alive"
        /\ lpc' = "runLoad" /\ UNCHANGED <<status, apiVars, launcher, lcopy>>
    BY <1>8, <1>a DEF SpawnTrainer, BeforeTrainer
  <2>2. Phases' /\ Ahead
    BY <2>1 DEF Orderly, Phases, Ahead, Over, BeforeTrainer, Supervising, Recorded, apiVars
  <2>3. Honest(status)' /\ (lcopy' # NoDoc => Honest(lcopy)')
    BY <2>1, <2>2, HonestStays DEF Orderly, EveryCopyHonest, Honest
  <2>4. NoEarlySignal' /\ LauncherNamed'
    BY <2>1 DEF Orderly, NoEarlySignal, LauncherNamed, NamesLauncher, apiVars,
       BeforeTrainer
  <2> QED
    BY <2>1, <2>2, <2>3, <2>4, QuietOrderly
<1>9. CASE SpawnTrainerFails
  BY <1>9, <1>a, ForwardOrderly DEF SpawnTrainerFails, LauncherLoads, BeforeTrainer,
     Supervising, Recorded
<1>10. CASE SpawnErrorWrites
  BY <1>10, ConcludesOrderly DEF SpawnErrorWrites, Terminal, LauncherNeedsCopy
<1>11. CASE RunLoads
  BY <1>11, <1>a, ForwardOrderly DEF RunLoads, LauncherLoads, BeforeTrainer,
     Supervising, Recorded
<1>12. CASE RunWrites
  <2>1. /\ launcher = "alive" /\ lpc = "runWrite"
        /\ lpc' = "stream" /\ lcopy' = NoDoc /\ UNCHANGED <<apiVars, launcher, trainer>>
        /\ lcopy \in Doc /\ Honest(lcopy)
    BY <1>12, LauncherCopy, ConstantsOK DEF RunWrites, LauncherWrites, LauncherNeedsCopy,
       Orderly, EveryCopyHonest
  <2>2. status' = [lcopy EXCEPT !.state = "running", !.pid = TRUE]
    BY <1>12 DEF RunWrites, LauncherWrites
  <2>3. status'.state = "running" /\ status'.pid /\ status'.launcherPid = lcopy.launcherPid
    BY <2>1, <2>2 DEF Doc
  <2>4. Phases' /\ Ahead
    BY <2>1 DEF Orderly, Phases, Ahead, Over, BeforeTrainer, Supervising, Recorded, apiVars
  <2>5. trainer # "none"
    BY <2>1 DEF Orderly, Phases, Supervising
  <2>6. Honest(status)'
    BY <2>1, <2>3, <2>4, <2>5 DEF Honest, Terminal, Recorded
  <2>7. NoEarlySignal' /\ LauncherNamed'
    BY <2>1, <2>3 DEF Orderly, NoEarlySignal, LauncherNamed, NamesLauncher, apiVars,
       BeforeTrainer
  <2> QED
    BY <2>1, <2>4, <2>6, <2>7, QuietOrderly
<1>13. CASE LineLoads
  BY <1>13, <1>a, ForwardOrderly DEF LineLoads, LauncherLoads, BeforeTrainer,
     Supervising, Recorded
<1>14. CASE LineWrites
  <2>1. /\ launcher = "alive" /\ lpc = "lineWrite" /\ status' = lcopy
        /\ lpc' = "stream" /\ lcopy' = NoDoc /\ UNCHANGED <<apiVars, launcher, trainer>>
        /\ lcopy \in Doc /\ Honest(lcopy)
    BY <1>14, LauncherCopy, ConstantsOK DEF LineWrites, LauncherWrites, LauncherNeedsCopy,
       Orderly, EveryCopyHonest
  <2>2. Phases' /\ Ahead
    BY <2>1 DEF Orderly, Phases, Ahead, Over, BeforeTrainer, Supervising, Recorded, apiVars
  <2>3. Honest(status)'
    BY <2>1, <2>2, HonestStays DEF Honest
  <2>4. NoEarlySignal' /\ LauncherNamed'
    BY <2>1 DEF Orderly, NoEarlySignal, LauncherNamed, NamesLauncher, apiVars,
       BeforeTrainer
  <2> QED
    BY <2>1, <2>2, <2>3, <2>4, QuietOrderly
<1>15. CASE LogErrorWrites
  BY <1>15, ConcludesOrderly DEF LogErrorWrites, Terminal, LauncherNeedsCopy
<1>16. CASE LauncherWaits \/ GracefulStop
  <2>1. /\ launcher = "alive" /\ lpc \in {"stream", "graceful1", "graceful2"}
        /\ trainer' = "gone" /\ lpc' = "finalise"
        /\ UNCHANGED <<status, apiVars, launcher, lcopy>>
    BY <1>16 DEF LauncherWaits, GracefulStop
  <2>2. Phases' /\ Ahead
    BY <2>1 DEF Orderly, Phases, Ahead, Over, BeforeTrainer, Supervising, Recorded, apiVars
  <2>3. Honest(status)' /\ (lcopy' # NoDoc => Honest(lcopy)')
    BY <2>1, <2>2, HonestStays DEF Orderly, EveryCopyHonest, Honest
  <2>4. NoEarlySignal' /\ LauncherNamed'
    BY <2>1 DEF Orderly, NoEarlySignal, LauncherNamed, NamesLauncher, apiVars,
       BeforeTrainer, Supervising
  <2> QED
    BY <2>1, <2>2, <2>3, <2>4, QuietOrderly
<1>17. CASE FinalLoads
  BY <1>17, <1>a, ForwardOrderly DEF FinalLoads, LauncherLoads, BeforeTrainer,
     Supervising, Recorded
<1>18. CASE FinalWrites
  <2>1. FinalState \in Terminal
    BY DEF FinalState, Terminal
  <2> QED
    BY <1>18, <2>1, ConcludesOrderly DEF FinalWrites, LauncherNeedsCopy
<1> QED
  BY <1>1, <1>2, <1>3, <1>4, <1>5, <1>6, <1>7, <1>8, <1>9, <1>10, <1>11, <1>12,
     <1>13, <1>14, <1>15, <1>16, <1>17, <1>18 DEF LauncherStep

LEMMA EnvironmentOrderly ==
  ASSUME IInv, Orderly,
         \/ LogFails \/ LauncherDies \/ TrainerExits \/ ReapLauncher
         \/ \E stamp \in {"service", "launcher"} : GraceExpires(stamp)
  PROVE  Orderly'
<1>1. CASE LogFails
  BY <1>1, ForwardOrderly DEF LogFails, LauncherLoads, At, BeforeTrainer, Supervising, Recorded
<1>4. CASE LauncherDies
  BY <1>4, LauncherEndsOrderly DEF LauncherDies
<1>2. CASE TrainerExits
  <2>1. /\ trainer = "alive" /\ trainer' \in {"zombie", "gone"}
        /\ UNCHANGED <<status, apiVars, launcher, lpc, lcopy>>
    BY <1>2 DEF TrainerExits
  <2>2. Phases' /\ Ahead
    BY <2>1 DEF Orderly, Phases, Ahead, Over, apiVars
  <2>3. Honest(status)' /\ (lcopy' # NoDoc => Honest(lcopy)')
    BY <2>1, <2>2, HonestStays DEF Orderly, EveryCopyHonest, Honest
  <2>4. NoEarlySignal' /\ LauncherNamed'
    BY <2>1 DEF Orderly, NoEarlySignal, LauncherNamed, NamesLauncher, apiVars
  <2> QED
    BY <2>1, <2>2, <2>3, <2>4, QuietOrderly
<1>3. CASE ReapLauncher \/ \E stamp \in {"service", "launcher"} : GraceExpires(stamp)
  <2>1. /\ UNCHANGED <<status, apiVars, lpc, lcopy, trainer>>
        /\ launcher' = launcher \/ (launcher = "zombie" /\ launcher' = "gone")
    BY <1>3 DEF ReapLauncher, GraceExpires, launcherVars
  <2>2. Phases' /\ Ahead
    BY <2>1 DEF Orderly, Phases, Ahead, Over, apiVars
  <2>3. Honest(status)' /\ (lcopy' # NoDoc => Honest(lcopy)')
    BY <2>1, <2>2, HonestStays DEF Orderly, EveryCopyHonest, Honest
  <2>4. NoEarlySignal' /\ LauncherNamed'
    BY <2>1 DEF Orderly, NoEarlySignal, LauncherNamed, NamesLauncher, apiVars
  <2> QED
    BY <2>1, <2>2, <2>3, <2>4, QuietOrderly
<1> QED
  BY <1>1, <1>2, <1>3, <1>4

LEMMA StepOrderly ==
  ASSUME StopsOfARunningRun, IInv, Orderly, [Next]_vars
  PROVE  Orderly'
<1>1. CASE Create
  BY <1>1, CreateOrderly
<1>2. ASSUME NEW t \in Stoppers, Stop(t) PROVE Orderly'
  BY <1>2, StopOrderly
<1>3. ASSUME NEW t \in Stoppers \cup Pollers, Poll(t) PROVE Orderly'
  BY <1>3, PollOrderly
<1>4. CASE LauncherStep
  BY <1>4, LauncherStepOrderly
<1>5. CASE \/ LogFails \/ LauncherDies \/ TrainerExits \/ ReapLauncher
           \/ \E stamp \in {"service", "launcher"} : GraceExpires(stamp)
  BY <1>5, EnvironmentOrderly
<1>6. CASE UNCHANGED vars
  <2>1. UNCHANGED <<status, apiVars, launcher, lpc, lcopy, trainer>>
    BY <1>6 DEF vars, apiVars
  <2>2. Phases' /\ Ahead
    BY <2>1 DEF Orderly, Phases, Ahead, Over, apiVars
  <2>3. Honest(status)' /\ (lcopy' # NoDoc => Honest(lcopy)')
    BY <2>1, <2>2, HonestStays DEF Orderly, EveryCopyHonest, Honest
  <2>4. NoEarlySignal' /\ LauncherNamed'
    BY <2>1 DEF Orderly, NoEarlySignal, LauncherNamed, NamesLauncher, apiVars
  <2> QED
    BY <2>1, <2>2, <2>3, <2>4, QuietOrderly
<1> QED
  BY <1>1, <1>2, <1>3, <1>4, <1>5, <1>6 DEF Next

THEOREM StaysOrderly ==
  ASSUME StopsOfARunningRun
  PROVE  Spec => []Orderly
<1>1. Init => Orderly
  BY InitOrderly
<1>2. IInv /\ Orderly /\ [Next]_vars => Orderly'
  BY StepOrderly
<1> QED
  BY <1>1, <1>2, Inductive, PTL DEF Spec

(* However the launcher, the polls, the stops and the creating thread      *)
(* overwrite each other's run_status.json, a run that is shown as ended    *)
(* while its launcher lives has no trainer left: only a launcher that died *)
(* beside its trainer makes such a status untrue.  This is for any number  *)
(* of stops, of a launcher that may die and a log that may fail.           *)
THEOREM EndedUnlessOrphaned ==
  ASSUME StopsOfARunningRun
  PROVE  Spec => [](launcher = "alive" /\ status.state \in Terminal => trainer # "alive")
<1>1. Orderly => (launcher = "alive" /\ status.state \in Terminal => trainer # "alive")
  BY DEF Orderly, Phases, EveryCopyHonest, Honest, Over
<1> QED
  BY <1>1, StaysOrderly, PTL

---------------------------------------------------------------------------
(* A trainer is orphaned by a launcher that dies, by a log that cannot be  *)
(* written, and by a third stop: each stop is one SIGINT, the first two    *)
(* take the launcher to its two _graceful_stop, the third ends it.         *)
Undisturbed ==
  /\ Faults = {}
  /\ \A a, b, c \in Stoppers : a = b \/ b = c \/ a = c

MaySignal(t) == pc[t] \in {"idle", "mark", "markReplace", "signal"}

Attended ==
  /\ lpc = "dead" => trainer # "alive"
  /\ lpc # "logError"
  /\ lpc = "graceful1" => \E a \in Stoppers : ~MaySignal(a)
  /\ lpc = "graceful2" => \E a, b \in Stoppers : a # b /\ ~MaySignal(a) /\ ~MaySignal(b)

(* Whoever has sent its signal sends no other. *)
LEMMA ApiAttended ==
  ASSUME IInv, Attended, NEW t \in Threads, NEW next \in ApiPC, Goto(t, next),
         next \in {"idle", "mark", "markReplace", "signal"} => MaySignal(t),
         UNCHANGED <<launcherVars, trainer>>
  PROVE  Attended'
<1>1. pc \in [Threads -> ApiPC] /\ pc' = [pc EXCEPT ![t] = next]
      /\ lpc' = lpc /\ trainer' = trainer /\ Stoppers \subseteq Threads
  BY DEF IInv, TypeOK, Goto, launcherVars, Threads
<1>2. \A a \in Stoppers : ~MaySignal(a) => ~MaySignal(a)'
  BY <1>1 DEF MaySignal
<1> QED
  BY <1>1, <1>2 DEF Attended

LEMMA InterruptAttended ==
  ASSUME Undisturbed, IInv, Orderly, Attended, NEW t \in Stoppers, pc[t] = "signal",
         InterruptLauncher, Goto(t, "poll")
  PROVE  Attended'
<1>1. /\ pc \in [Threads -> ApiPC] /\ pc' = [pc EXCEPT ![t] = "poll"]
      /\ Stoppers \subseteq Threads /\ lpc \in LauncherPC /\ launcher \in ProcessStates
  BY DEF IInv, TypeOK, Goto, Threads
<1>2. lpc \notin BeforeTrainer \cup {"runLoad", "runWrite", "logError"} /\ MaySignal(t)
  BY DEF Orderly, NoEarlySignal, Attended, MaySignal
<1>3. ~MaySignal(t)' /\ \A a \in Stoppers : ~MaySignal(a) => ~MaySignal(a)'
  BY <1>1 DEF MaySignal
<1>4. lpc # "graceful2"
  <2> SUFFICES ASSUME lpc = "graceful2" PROVE FALSE
    OBVIOUS
  <2> PICK a \in Stoppers, b \in Stoppers : a # b /\ ~MaySignal(a) /\ ~MaySignal(b)
    BY DEF Attended
  <2> QED
    BY <1>2 DEF Undisturbed
<1>5. CASE launcher # "alive"
  BY <1>1, <1>2, <1>5 DEF InterruptLauncher, Orderly, Phases, Attended, ProcessStates,
     BeforeTrainer
<1>6. CASE launcher = "alive" /\ lpc \in {"stream", "lineWrite"}
  <2>1. lpc' = "graceful1"
    BY <1>6 DEF InterruptLauncher, InterruptTarget, OutsideTry
  <2> QED
    BY <1>3, <2>1 DEF Attended
<1>7. CASE launcher = "alive" /\ lpc = "graceful1"
  <2>1. lpc' = "graceful2"
    BY <1>7 DEF InterruptLauncher, InterruptTarget, OutsideTry
  <2> PICK a \in Stoppers : ~MaySignal(a)
    BY <1>7 DEF Attended
  <2>2. a # t /\ ~MaySignal(a)'
    BY <1>2, <1>3
  <2> QED
    BY <1>3, <2>1, <2>2 DEF Attended
<1>8. CASE launcher = "alive" /\ lpc \in {"finalise", "finalWrite"}
  BY <1>8 DEF InterruptLauncher, InterruptTarget, OutsideTry, LauncherEnds, Orderly,
     Phases, Supervising, Attended
<1>9. launcher = "alive" => lpc # "dead"
  BY DEF Orderly, Phases
<1> QED
  BY <1>1, <1>2, <1>4, <1>5, <1>6, <1>7, <1>8, <1>9 DEF LauncherPC, BeforeTrainer

LEMMA ApiStepAttended ==
  ASSUME Undisturbed, IInv, Orderly, Attended,
         Create \/ (\E t \in Stoppers : Stop(t)) \/ (\E t \in Stoppers \cup Pollers : Poll(t))
  PROVE  Attended'
<1>1. CASE Create
  <2>1. CASE SpawnLauncher
    <3>1. Creator \in Threads /\ Creator \notin Stoppers /\ Stoppers \subseteq Threads
      BY ConstantsOK DEF Threads
    <3>2. lpc' = "preflight"
      BY <2>1 DEF SpawnLauncher
    <3> QED
      BY <3>2 DEF Attended
  <2>2. CASE ~SpawnLauncher
    <3>1. PICK next \in {"created", "createWrite", "createReplace", "done"} :
                 Goto(Creator, next) /\ UNCHANGED <<launcherVars, trainer>>
      BY <1>1, <2>2 DEF Create, SpawnLauncherFails, CreateLoads, CreateRecords,
         CreateReplaces, LoadStatus, WriteTemporary, ReplaceStatus
    <3> QED
      BY <3>1, ApiAttended DEF Threads, ApiPC
  <2> QED
    BY <2>1, <2>2
<1>2. ASSUME NEW t \in Stoppers, Stop(t) PROVE Attended'
  <2>t. t \in Threads
    BY DEF Threads
  <2>1. CASE StopSignals(t) /\ InterruptLauncher /\ Goto(t, "poll")
    BY <2>1, InterruptAttended DEF StopSignals
  <2>2. CASE ~(StopSignals(t) /\ InterruptLauncher /\ Goto(t, "poll"))
    <3>1. PICK next \in ApiPC :
            /\ Goto(t, next) /\ UNCHANGED <<launcherVars, trainer>>
            /\ next \in {"idle", "mark", "markReplace", "signal"} => MaySignal(t)
      <4>1. CASE StopLoads(t)
        BY <4>1 DEF StopLoads, LoadStatus, MaySignal, ApiPC
      <4>2. CASE StopMarks(t)
        BY <4>2 DEF StopMarks, WriteTemporary, MaySignal, ApiPC
      <4>3. CASE StopMarkReplaces(t)
        BY <4>3 DEF StopMarkReplaces, ReplaceStatus, MaySignal, ApiPC
      <4>4. CASE StopSignals(t)
        BY <2>2, <4>4 DEF StopSignals, ApiPC
      <4>5. CASE StopGivesUp(t)
        BY <4>5 DEF StopGivesUp, WriteTemporary, ApiPC
      <4>6. CASE StopGiveUpReplaces(t)
        BY <4>6 DEF StopGiveUpReplaces, ReplaceStatus, ApiPC
      <4> QED
        BY <1>2, <4>1, <4>2, <4>3, <4>4, <4>5, <4>6 DEF Stop
    <3> QED
      BY <2>t, <3>1, ApiAttended
  <2> QED
    BY <2>1, <2>2
<1>3. ASSUME NEW t \in Stoppers \cup Pollers, Poll(t) PROVE Attended'
  <2>1. PICK next \in {"check", "recover", "recoverReplace", "poll", "done"} :
               Goto(t, next) /\ UNCHANGED <<launcherVars, trainer>>
    <3>1. CASE PollLoads(t)
      BY <3>1 DEF PollLoads, LoadStatus
    <3>2. CASE PollChecks(t)
      BY <3>2 DEF PollChecks, AfterPoll
    <3>3. CASE PollRecovers(t)
      BY <3>3 DEF PollRecovers, WriteTemporary
    <3>4. CASE PollReplaces(t)
      BY <3>4 DEF PollReplaces, ReplaceStatus, AfterPoll
    <3> QED
      BY <1>3, <3>1, <3>2, <3>3, <3>4 DEF Poll
  <2> QED
    BY <2>1, ApiAttended DEF Threads, ApiPC
<1> QED
  BY <1>1, <1>2, <1>3

LEMMA StepAttended ==
  ASSUME Undisturbed, IInv, Orderly, Attended, [Next]_vars
  PROVE  Attended'
<1>a. /\ trainer = "alive" => lpc \in Supervising \cup {"logError", "dead"}
      /\ lpc # "logError" /\ (lpc = "dead" => trainer # "alive")
  BY DEF Orderly, Phases, Attended
<1>1. CASE Create \/ (\E t \in Stoppers : Stop(t)) \/ (\E t \in Stoppers \cup Pollers : Poll(t))
  BY <1>1, ApiStepAttended
<1>2. CASE LauncherStep
  <2>1. UNCHANGED pc /\ lpc' \notin {"logError", "graceful1", "graceful2"}
    BY <1>2, <1>a DEF LauncherStep, apiVars, At, LauncherEnds, LauncherLoads, LauncherMoves,
       LauncherWrites, LauncherConcludes, LauncherRejects, LauncherAcceptsDirectory, RejectLoads,
       RejectWrites, StartLoads, StartWrites, LauncherEntersTry, SpawnTrainer,
       SpawnTrainerFails, SpawnErrorWrites, RunLoads, RunWrites, LineLoads, LineWrites,
       LogErrorWrites, LauncherWaits, GracefulStop, FinalLoads, FinalWrites
  <2>2. lpc' = "dead" => trainer' # "alive"
    <3>1. lpc' = "dead" => lpc \notin Supervising /\ LauncherEnds
      BY <1>2, <1>a DEF LauncherStep, At, LauncherLoads, LauncherMoves, Supervising,
         LauncherWrites, LauncherConcludes, LauncherRejects, LauncherAcceptsDirectory, RejectLoads,
         RejectWrites, StartLoads, StartWrites, LauncherEntersTry, SpawnTrainer,
         SpawnTrainerFails, SpawnErrorWrites, RunLoads, RunWrites, LineLoads, LineWrites,
         LogErrorWrites, LauncherWaits, GracefulStop, FinalLoads, FinalWrites
    <3> QED
      BY <1>a, <3>1 DEF LauncherEnds
  <2> QED
    BY <2>1, <2>2 DEF Attended
<1>3. CASE LogFails \/ LauncherDies
  BY <1>3 DEF LogFails, LauncherDies, Undisturbed
<1>4. CASE \/ TrainerExits \/ ReapLauncher
           \/ (\E stamp \in {"service", "launcher"} : GraceExpires(stamp)) \/ UNCHANGED vars
  <2>1. UNCHANGED <<pc, lpc>> /\ (trainer' = trainer \/ trainer' # "alive")
    BY <1>4 DEF TrainerExits, ReapLauncher, GraceExpires, vars, apiVars, launcherVars
  <2> QED
    BY <2>1 DEF Attended, MaySignal
<1> QED
  BY <1>1, <1>2, <1>3, <1>4 DEF Next

THEOREM StaysAttended ==
  ASSUME StopsOfARunningRun, Undisturbed
  PROVE  Spec => []Attended
<1>1. Init => Attended
  BY DEF Init, Attended
<1>2. IInv /\ Orderly /\ Attended /\ [Next]_vars => Attended'
  BY StepAttended
<1> QED
  BY <1>1, <1>2, Inductive, StaysOrderly, PTL DEF Spec

(* Undisturbed, a run that is shown as ended has no trainer that lives,    *)
(* whoever wrote it: the launcher at its end, a poll that found the        *)
(* process absent, or a stop that found nothing to signal (health.py       *)
(* 716-746, run_service.py 488-515, launch.py 733-743).                    *)
THEOREM TerminalIsOver ==
  ASSUME StopsOfARunningRun, Undisturbed
  PROVE  Spec => []TerminalMeansNoTrainer
<1>1. Orderly /\ Attended => TerminalMeansNoTrainer
  BY DEF Orderly, Phases, BeforeTrainer, EveryCopyHonest, Honest, Over, Attended,
         TerminalMeansNoTrainer
<1> QED
  BY <1>1, StaysOrderly, StaysAttended, PTL

(* ... and while the trainer lives, the status on disk names a process by  *)
(* which a stop reaches it (run_service.py 477-501), also when the thread  *)
(* that created the run overwrites what the launcher has signed in with.   *)
THEOREM TrainerStaysReachable ==
  ASSUME StopsOfARunningRun, Undisturbed
  PROVE  Spec => []TrainerIsReachable
<1>1. IInv /\ Orderly /\ Attended => TrainerIsReachable
  <2> SUFFICES ASSUME IInv, Orderly, Attended, trainer = "alive", status.state \in Active
               PROVE  status.pid \/ (status.launcherPid /\ Exists(launcher))
    BY DEF TrainerIsReachable
  <2>1. lpc \in Supervising /\ launcher = "alive"
    BY DEF Orderly, Phases, Attended, IInv, TypeOK, ProcessStates, Supervising
  <2>2. NamesLauncher(status) /\ Honest(status)
    BY <2>1 DEF Orderly, LauncherNamed, EveryCopyHonest
  <2> QED
    BY <2>1, <2>2 DEF NamesLauncher, Honest, Active, Exists
<1> QED
  BY <1>1, StaysOrderly, StaysAttended, Inductive, PTL
==========================================================================
