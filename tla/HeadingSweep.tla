----------------------------- MODULE HeadingSweep ---------------------------
(***************************************************************************)
(* scripts/overnight_waypoint_heading_sweep.py: one process trains three   *)
(* arms one after another on the one GPU, evaluates each, picks at most    *)
(* one nonzero arm by a written rule and trains it further, all before a   *)
(* deadline.  It may fail or be killed at any step and be started again:   *)
(* the summary begins anew, what it wrote below checkpoints/ stays.        *)
(* Of the four suites the model has the waypoint suite and one more.       *)
(***************************************************************************)
EXTENDS Naturals, FiniteSets

CONSTANT MaxSweeps     \* bound of the model: times the script is started

Arms == <<"control", "turn_12", "turn_25", "extended">>
Suites == <<"waypoint", "balance">>
\* what the code tells apart of the time that remains: more than 7200 s, at
\* least 3000 s, at least 300 s, more than 60 s, and no more than that
Ample == 4
Enough == 3
Some == 2
Little == 1
Gone == 0

VARIABLES sweep,      \* the number and the state of this start of the script
          left,       \* the time that remains
          at, arm, suite,
          run,        \* the last training run this process started
          data,       \* the summary: checkpoint and evaluations of each arm
          transfers,  \* the evaluation transfers on disk, and what each was made from
          chosen      \* extension_decision: an arm, 0 for none
vars == <<sweep, left, at, arm, suite, run, data, transfers, chosen>>

\* a checkpoint is named by the start of the script and the arm that trained it
None == [sweep |-> 0, arm |-> 0]
Own == [sweep |-> sweep.number, arm |-> arm]
Checkpoints == [sweep : 0..MaxSweeps, arm : 0..4]
NoEvidence == [passed |-> 0, hard |-> 0, of |-> None]
NoRun == [parent |-> None, state |-> "none", stopTried |-> FALSE, late |-> FALSE]
Blank == [ckpt |-> None, evidence |-> [s \in 1..2 |-> NoEvidence]]

TypeOK ==
  /\ sweep \in [number : 1..MaxSweeps, state : {"running", "failed", "complete"}]
  /\ left \in Gone..Ample /\ arm \in 1..4 /\ suite \in 1..2
  /\ at \in {"train", "wait", "evaluate", "decide", "over"}
  /\ run.parent \in Checkpoints /\ run.state \in {"none", "active", "finished", "stopped"}
  /\ \A a \in 1..4 : data[a].ckpt \in Checkpoints
  /\ transfers \in [(1..4) \X (1..2) -> Checkpoints]
  /\ chosen \in {0, 2, 3}

Init ==
  /\ sweep = [number |-> 1, state |-> "running"] /\ left = Ample
  /\ at = "train" /\ arm = 1 /\ suite = 1 /\ run = NoRun
  /\ data = [a \in 1..4 |-> Blank]
  /\ transfers = [p \in (1..4) \X (1..2) |-> None] /\ chosen = 0

\* a command takes time, and is not begun in the last minute
Takes == left > Gone /\ left' \in Gone..left
Over(state) == sweep' = [sweep EXCEPT !.state = state] /\ at' = "over"

\* start_training: the actor transfer of the arm exists or is made, the run is created
Parent == IF arm = 4 THEN data[chosen].ckpt ELSE None
Train ==
  /\ at = "train" /\ Takes
  /\ run' = [parent |-> Parent, state |-> "active", stopTried |-> FALSE, late |-> left' = Gone]
  /\ at' = "wait"
  /\ UNCHANGED <<sweep, arm, suite, data, transfers, chosen>>

\* Seeded defect: the stop is left to the end of the wait, when no command is run.
StopDueNever == FALSE
StopDue == left = Little /\ ~run.stopTried

\* one round of wait_for_run while the run goes on; rounds are 45 s apart
Poll ==
  /\ at = "wait" /\ run.state = "active" /\ left > Gone
  /\ run' = [run EXCEPT !.stopTried = @ \/ StopDue]
  /\ left' \in IF StopDue THEN {left} ELSE {left, left - 1}
  /\ UNCHANGED <<sweep, at, arm, suite, data, transfers, chosen>>

\* the run ends by itself or because it was stopped
RunEnds ==
  /\ run.state = "active"
  /\ \/ run' = [run EXCEPT !.state = "finished"]
     \/ run' = [run EXCEPT !.state = "stopped"]
  /\ UNCHANGED <<sweep, left, at, arm, suite, data, transfers, chosen>>

\* the run finished with a checkpoint: the arm enters the summary
Trained ==
  /\ at = "wait" /\ run.state = "finished" /\ left > Gone
  /\ data' = [data EXCEPT ![arm] = [Blank EXCEPT !.ckpt = Own]]
  /\ at' = "evaluate" /\ suite' = 1
  /\ UNCHANGED <<sweep, left, arm, run, transfers, chosen>>

NextArm ==
  /\ suite' = 1
  /\ IF arm < 3 THEN arm' = arm + 1 /\ at' = "train" ELSE arm' = arm /\ at' = "decide"

\* Seeded defect: the transfer is named after the task alone.
TransferShared(a, s) == <<1, s>>
\* the path of an evaluation transfer: the arm and the task of the suite
TransferOf(a, s) == <<a, s>>

\* the counts of gates that a decision still reads: none of the extended arm
Counts(of) == IF arm = 4 \/ (of = "passed" /\ suite = 2) THEN {0} ELSE {0, 1}

\* a suite: a transfer that exists is used as it is, the evaluation's gates are read
\* back by the path of the checkpoint, and the summary is saved
Evaluate ==
  /\ at = "evaluate" /\ left >= Enough /\ Takes
  /\ LET path == TransferOf(arm, suite)
         made == IF transfers[path] = None THEN data[arm].ckpt ELSE transfers[path]
     IN /\ transfers' = [transfers EXCEPT ![path] = made]
        /\ \E p \in Counts("passed"), h \in Counts("hard") :
             data' = [data EXCEPT ![arm].evidence[suite] =
                        [passed |-> p, hard |-> h, of |-> made]]
  /\ IF suite = 1 THEN suite' = 2 /\ UNCHANGED <<arm, at>> ELSE NextArm
  /\ UNCHANGED <<sweep, run, chosen>>

\* less than 3000 s: the remaining suites of the arm are skipped
Skip ==
  /\ at = "evaluate" /\ left < Enough
  /\ NextArm
  /\ UNCHANGED <<sweep, left, run, data, transfers, chosen>>

Complete(a) == \A s \in 1..2 : data[a].evidence[s] # NoEvidence
\* Seeded defect: only the waypoint suite is compared with the control.
SaferInOne(a) == data[a].evidence[1].hard <= data[1].evidence[1].hard
\* no suite has more hard failures than the control has there
Safe(a) == \A s \in 1..2 : data[a].evidence[s].hard <= data[1].evidence[s].hard
Passed(a) == data[a].evidence[1].passed

\* all_four_valid and select_extension; whether training saw a number that is not finite is free
Candidates(clean) ==
  IF 1 \in clean /\ Complete(1)
  THEN {a \in {2, 3} \cap clean : Complete(a) /\ Passed(a) > Passed(1) /\ Safe(a)}
  ELSE {}
Best(candidates) == {a \in candidates : \A b \in candidates :
                       Passed(a) > Passed(b) \/ (Passed(a) = Passed(b) /\ a >= b)}

\* a selected arm is extended when more than 7200 s remain
Decide ==
  /\ at = "decide" /\ arm = 3
  /\ \E clean \in SUBSET (1..3) :
       chosen' = IF Best(Candidates(clean)) = {} THEN 0
                 ELSE CHOOSE a \in Best(Candidates(clean)) : TRUE
  /\ IF chosen' # 0 /\ left = Ample THEN arm' = 4 /\ at' = "train" /\ UNCHANGED sweep
     ELSE Over("complete") /\ UNCHANGED arm
  /\ UNCHANGED <<left, suite, run, data, transfers>>

Finish ==
  /\ at = "decide" /\ arm = 4
  /\ Over("complete")
  /\ UNCHANGED <<left, arm, suite, run, data, transfers, chosen>>

\* an exception: the run was lost or stopped, the deadline passed, a command failed
Fails ==
  /\ at \in {"train", "wait", "evaluate"}
  /\ at = "wait" => run.state = "stopped" \/ left = Gone
  /\ Over("failed")
  /\ UNCHANGED <<left, arm, suite, run, data, transfers, chosen>>

\* started again after it ended, or was killed without a word in the summary
Restart ==
  /\ sweep.number < MaxSweeps
  /\ sweep' = [number |-> sweep.number + 1, state |-> "running"]
  /\ left' = Ample /\ at' = "train" /\ arm' = 1 /\ suite' = 1 /\ run' = NoRun
  /\ data' = [a \in 1..4 |-> Blank] /\ chosen' = 0
  /\ UNCHANGED transfers

Next ==
  \/ Train \/ Poll \/ RunEnds \/ Trained \/ Evaluate \/ Skip
  \/ Decide \/ Finish \/ Fails \/ Restart

Spec == Init /\ [][Next]_vars

(***************************************************************************)
(* Properties                                                              *)
(***************************************************************************)

\* The extended run starts from the checkpoint of an arm that was compared with the
\* control on every suite and is better and no less safe, and, unless an earlier start
\* of the script left transfers behind, every number in that comparison was measured on
\* the checkpoint it is attributed to (transfer, find_evaluation, select_extension).
ExtensionIsEarned ==
  run.parent # None =>
    /\ run.parent = data[chosen].ckpt
    /\ Complete(1) /\ Complete(chosen) /\ Passed(chosen) > Passed(1)
    /\ \A s \in 1..2 : data[chosen].evidence[s].hard <= data[1].evidence[s].hard
    /\ sweep.number = 1 =>
         \A a \in {1, chosen}, s \in 1..2 : data[a].evidence[s].of = data[a].ckpt

\* When the script ends, no run of its goes on that it did not try to stop, unless the
\* start of that run used up the time (wait_for_run).
NoRunIsLeftBehind ==
  sweep.state # "running" /\ run.state = "active" => run.stopTried \/ run.late

(***************************************************************************)
(* The inductive invariant                                                 *)
(***************************************************************************)

(* In the first start of the script every number in the summary was        *)
(* measured on the checkpoint it stands beside, because an arm is trained  *)
(* before there is a transfer of it.  The extended arm is the last one, so *)
(* what it was chosen by does not change any more.                         *)
Named == [sweep : Nat, arm : Nat]
Numbers == [passed : Nat, hard : Nat, of : Named]
Results == [ckpt : Named, evidence : [1..2 -> Numbers]]
Runs == [parent : Named, state : {"none", "active", "finished", "stopped"},
         stopTried : BOOLEAN, late : BOOLEAN]

Types ==
  /\ sweep \in [number : Nat \ {0}, state : {"running", "failed", "complete"}]
  /\ left \in Nat /\ arm \in 1..4 /\ suite \in 1..2 /\ chosen \in {0, 2, 3}
  /\ at \in {"train", "wait", "evaluate", "decide", "over"} /\ run \in Runs
  /\ data \in [1..4 -> Results] /\ transfers \in [(1..4) \X (1..2) -> Named]

\* The arm a was trained in this start of the script.
Made(a) == a < arm \/ (a = arm /\ at \notin {"train", "wait"})

NumbersAreOwn ==
  sweep.number = 1 =>
    \A a \in 1..4, s \in 1..2 :
      /\ data[a].evidence[s] # NoEvidence => data[a].evidence[s].of = data[a].ckpt
      /\ transfers[<<a, s>>] # None => Made(a) /\ transfers[<<a, s>>] = data[a].ckpt

\* The arm a is better than the control and no less safe.
Won(a) == Complete(1) /\ Complete(a) /\ Passed(a) > Passed(1) /\ Safe(a)

ExtendsAWinner ==
  IF arm = 4 THEN chosen # 0 /\ Won(chosen) /\ run.parent \in {None, data[chosen].ckpt}
  ELSE run.parent = None

\* A run that goes on is waited for, or the script has ended.
Watched ==
  /\ at = "over" <=> sweep.state # "running"
  /\ run.state = "active" => /\ at \in {"wait", "over"}
                             /\ at = "over" \/ left = Gone => run.stopTried \/ run.late

IInv == Types /\ NumbersAreOwn /\ ExtendsAWinner /\ Watched
=============================================================================
