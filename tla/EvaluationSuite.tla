--------------------------- MODULE EvaluationSuite ---------------------------
(***************************************************************************)
(* One evaluation of a checkpoint (evaluation/cli.py _evaluate, runner.py   *)
(* run_scenarios, gates.py, consistency.py, store.py) and the two recorders *)
(* that may ride on it.  Scenarios are run family by family in batches of   *)
(* the capacity of one reused world, the last batch of a family padded with *)
(* copies of its last scenario.  A trainer may replace the checkpoint file  *)
(* meanwhile, a batch may raise, and the process may die between two files. *)
(***************************************************************************)
EXTENDS Integers, Sequences, FiniteSets, Functions

CONSTANTS
    Families,     \* scenario families
    PerFamily,    \* bound: scenarios of a family
    RolloutSteps, \* steps of every rollout
    MaxBatch,     \* bound: --batch-size
    MaxVersion    \* bound: contents the checkpoint file takes

VARIABLES
    suite, batchSize,    \* what the evaluation was asked for
    file,                \* content of the checkpoint file, as a version
    stage,               \* where the evaluation is
    digests,             \* manifest sha, weights loaded, sha after the run
    results,             \* scenario ids of the results, in order
    loop,                \* the family of family_order and the start of the next batch
    frames,              \* BenchmarkReplayRecorder: step of each kept frame
    labels,              \* AnchorReplayRecorder: (scenario, step) of each sample
    gates, status,       \* evaluate_gates
    artifacts            \* files of the output directory, in writing order

vars == <<suite, batchSize, file, stage, digests, results, loop, frames, labels,
          gates, status, artifacts>>

None == -1
Ids == [family : Families, index : 1..PerFamily]
Suites == {s \in UNION {[1..n -> Ids] : n \in 1..Cardinality(Ids)} : IsInjective(s)}
GateOutcomes == [outcome : {"passed", "failed", "missing"}, hard : BOOLEAN]

Completed == <<"manifest", "database", "summary", "consistency", "gate", "failures", "report">>
InvalidPreflight == <<"manifest", "summary", "consistency", "gate", "failures", "report">>
MissingCapability == <<"manifest", "summary", "gate", "report">>

TypeOK ==
    /\ suite \in Suites /\ batchSize \in 1..MaxBatch /\ file \in 0..MaxVersion
    /\ stage \in {"start", "preflight", "load", "run", "grade", "write", "raised", "dead"}
    /\ digests \in [manifest : None..MaxVersion, loaded : None..MaxVersion,
                    after : None..MaxVersion]
    /\ results \in Seq(Ids)
    /\ loop \in [family : 1..(Cardinality(Families) + 1), start : 0..PerFamily]
    /\ frames \in [Ids -> Seq(1..RolloutSteps)]
    /\ labels \in Seq(Ids \X (1..RolloutSteps))
    /\ gates \subseteq GateOutcomes
    /\ status \in {"", "PASS", "FAIL", "INCOMPLETE", "INVALID"}
    /\ artifacts \in Seq({Completed[i] : i \in 1..Len(Completed)})

Init ==
    /\ suite \in Suites /\ batchSize \in 1..MaxBatch
    /\ file = 0 /\ stage = "start"
    /\ digests = [manifest |-> None, loaded |-> None, after |-> None]
    /\ results = <<>> /\ loop = [family |-> 1, start |-> 0]
    /\ frames = [i \in Ids |-> <<>>] /\ labels = <<>>
    /\ gates = {} /\ status = "" /\ artifacts = <<>>

-----------------------------------------------------------------------------
(* Batches.                                                                *)

\* The numbers of a finite set in their order, and a sequence restricted to them.
Ordered(S) ==
    [k \in 1..Cardinality(S) |-> CHOOSE i \in S : Cardinality({j \in S : j <= i}) = k]
Picked(s, S) == [k \in 1..Cardinality(S) |-> s[Ordered(S)[k]]]

\* Families in order of first appearance.
Firsts == {i \in DOMAIN suite : \A j \in 1..(i - 1) : suite[j].family # suite[i].family}
FamilyOrder == Picked([i \in DOMAIN suite |-> suite[i].family], Firsts)

\* The scenarios of a family, in the order of the suite.
PlacesOf(f) == {i \in DOMAIN suite : suite[i].family = f}
Own(f) == Picked(suite, PlacesOf(f))

Capacity == IF batchSize < Len(suite) THEN batchSize ELSE Len(suite)

\* The next batch of the family: the capacity of them, or what is left.
Family == Own(FamilyOrder[loop.family])
End == IF loop.start + Capacity < Len(Family) THEN loop.start + Capacity ELSE Len(Family)
Batch == SubSeq(Family, loop.start + 1, End)
BatchesLeft == loop.family <= Len(FamilyOrder)

\* The world has one size: short batches repeat their last scenario.
Padded(batch) == [i \in 1..Capacity |-> batch[IF i <= Len(batch) THEN i ELSE Len(batch)]]

\* Seeded defect: the padding's results are kept.
KeepPadding(batch) == Padded(batch)

\* The results a batch contributes: the padding's are dropped.
Kept(batch) == SubSeq(Padded(batch), 1, Len(batch))

\* BenchmarkReplayRecorder.record_step: every slot showing a selected scenario
\* appends a frame on every step, copies included.
Frames(batch) ==
    [id \in Ids |->
        LET copies == Cardinality({i \in 1..Capacity : Padded(batch)[i] = id})
        IN  frames[id] \o [n \in 1..(copies * RolloutSteps) |-> ((n - 1) \div copies) + 1]]

\* Seeded defect: no _seen set.
LabelEverySlot(batch) ==
    LET padded == Padded(batch)
    IN  labels \o [n \in 1..(Capacity * RolloutSteps) |->
                     <<padded[((n - 1) % Capacity) + 1], ((n - 1) \div Capacity) + 1>>]

\* AnchorReplayRecorder.record: a (scenario, step) already seen is skipped.
Label(batch) ==
    LET padded == Padded(batch)
        shown == [n \in 1..(Capacity * RolloutSteps) |->
                     <<padded[((n - 1) % Capacity) + 1], ((n - 1) \div Capacity) + 1>>]
        new == {n \in DOMAIN shown : /\ shown[n] \notin Range(labels)
                                     /\ \A m \in 1..(n - 1) : shown[m] # shown[n]}
    IN  labels \o Picked(shown, new)

-----------------------------------------------------------------------------
(* Verdict.                                                                *)

\* evaluate_gates: a missing metric outranks a failed hard gate; soft gates are
\* reported and decide nothing.
GateStatus(gs) ==
    IF \E g \in gs : g.outcome = "missing" THEN "INCOMPLETE"
    ELSE IF \E g \in gs : g.hard /\ g.outcome = "failed" THEN "FAIL"
    ELSE "PASS"

\* check_collection: one result per scenario, and every episode self-consistent.
Consistent(episodesOk) ==
    /\ Len(results) = Len(suite)
    /\ Range(results) = Range(suite)
    /\ episodesOk

-----------------------------------------------------------------------------
(* The evaluation.                                                         *)

\* The manifest records the digest of the file; a suite that asks for more than
\* the task offers stops here.
Manifest ==
    /\ stage = "start"
    /\ digests' = [digests EXCEPT !.manifest = file]
    /\ \/ stage' = "preflight" /\ UNCHANGED status
       \/ stage' = "write" /\ status' = "INCOMPLETE"
    /\ UNCHANGED <<suite, batchSize, file, results, loop, frames, labels, gates, artifacts>>

\* _checkpoint_contract_preflight reads the file by itself.
Preflight ==
    /\ stage = "preflight"
    /\ \/ stage' = "load" /\ UNCHANGED status
       \/ stage' = "write" /\ status' = "INVALID"
    /\ UNCHANGED <<suite, batchSize, file, digests, results, loop, frames, labels,
                   gates, artifacts>>

\* _create_runtime loads the weights every batch will use.
CreateRuntime ==
    /\ stage = "load"
    /\ stage' = "run"
    /\ digests' = [digests EXCEPT !.loaded = file]
    /\ UNCHANGED <<suite, batchSize, file, results, loop, frames, labels, gates, status,
                   artifacts>>

RunBatch ==
    /\ stage = "run" /\ BatchesLeft
    /\ results' = results \o Kept(Batch)
    /\ frames' = Frames(Batch)
    /\ labels' = Label(Batch)
    /\ loop' = IF End < Len(Family) THEN [loop EXCEPT !.start = End]
                                   ELSE [family |-> loop.family + 1, start |-> 0]
    /\ UNCHANGED <<suite, batchSize, file, stage, digests, gates, status, artifacts>>

\* Loading refused, or an exception of a batch: the world is closed, the
\* results so far are lost, nothing is written.
Raise ==
    /\ stage \in {"load", "run"}
    /\ stage' = "raised"
    /\ results' = <<>>
    /\ UNCHANGED <<suite, batchSize, file, digests, loop, frames, labels, gates, status, artifacts>>

\* Seeded defect: the manifest's digest is taken when the run is over.
FinishManifestLast ==
    /\ stage = "run" /\ ~BatchesLeft
    /\ stage' = "grade"
    /\ digests' = [digests EXCEPT !.after = file, !.manifest = file]
    /\ UNCHANGED <<suite, batchSize, file, results, loop, frames, labels, gates,
                   status, artifacts>>

\* run_scenarios returns the digest of the file as it is after the run.
Finish ==
    /\ stage = "run" /\ ~BatchesLeft
    /\ stage' = "grade"
    /\ digests' = [digests EXCEPT !.after = file]
    /\ UNCHANGED <<suite, batchSize, file, results, loop, frames, labels, gates,
                   status, artifacts>>

Grade ==
    /\ stage = "grade"
    /\ \E g, h \in GateOutcomes, ok \in BOOLEAN :
         /\ gates' = {g, h}
         /\ status' = IF Consistent(ok) THEN GateStatus({g, h}) ELSE "INVALID"
    /\ stage' = "write"
    /\ UNCHANGED <<suite, batchSize, file, digests, results, loop, frames, labels, artifacts>>

\* Seeded defect: the verdict is written first.
PlanVerdictFirst ==
    IF digests.after # None
    THEN <<"manifest", "gate", "database", "summary", "consistency", "failures", "report">>
    ELSE IF status = "INVALID" THEN InvalidPreflight ELSE MissingCapability

\* Which files the evaluation writes, in this order.
Plan ==
    IF digests.after # None THEN Completed
    ELSE IF status = "INVALID" THEN InvalidPreflight ELSE MissingCapability

WriteNext ==
    /\ stage = "write" /\ Len(artifacts) < Len(Plan)
    /\ artifacts' = Append(artifacts, Plan[Len(artifacts) + 1])
    /\ UNCHANGED <<suite, batchSize, file, stage, digests, results, loop, frames,
                   labels, gates, status>>

\* The process dies; what it held in memory is gone.
Die ==
    /\ stage \notin {"raised", "dead"}
    /\ stage' = "dead"
    /\ UNCHANGED <<suite, batchSize, file, digests, results, loop, frames, labels,
                   gates, status, artifacts>>

\* A trainer or an operator puts other weights at the same path.  (Once the
\* second digest is taken nothing reads the file again.)
ReplaceCheckpoint ==
    /\ file < MaxVersion /\ digests.after = None
    /\ file' = file + 1
    /\ UNCHANGED <<suite, batchSize, stage, digests, results, loop, frames, labels,
                   gates, status, artifacts>>

Next ==
    \/ Manifest \/ Preflight \/ CreateRuntime \/ RunBatch \/ Raise \/ Finish
    \/ Grade \/ WriteNext \/ Die \/ ReplaceCheckpoint

Spec == Init /\ [][Next]_vars

-----------------------------------------------------------------------------
(* Properties.                                                             *)

\* The suite regrouped by family: by the first appearance of the families, then as in
\* the suite.
First(f) == CHOOSE i \in Firsts : suite[i].family = f
Place(id) == CHOOSE i \in DOMAIN suite : suite[i] = id
Before(a, b) == \/ First(a.family) < First(b.family)
                \/ a.family = b.family /\ Place(a) < Place(b)

\* Whatever the batch size and the mixture of families, the results are those of the
\* suite regrouped by family, from its beginning, each scenario once: padding adds no
\* result and loses none, and an evaluation that ends has them all.
\* (runner.py:1939-1957)
OneResultEach ==
    /\ Range(results) \subseteq Range(suite)
    /\ \A i, j \in DOMAIN results : i < j => Before(results[i], results[j])
    /\ \A id \in Range(results), other \in Range(suite) :
         Before(other, id) => other \in Range(results)
    /\ digests.after # None => Range(results) = Range(suite)

\* A directory that holds a PASS or FAIL verdict holds what the verdict was
\* computed from, however early the process died, and PASS is written only for a
\* complete suite whose hard gates all passed.  (cli.py:385-452)
VerdictHasEvidence ==
    LET written == Range(artifacts)
    IN  "gate" \in written /\ status \in {"PASS", "FAIL"} =>
          /\ {"manifest", "database", "summary", "consistency"} \subseteq written
          /\ Range(results) = Range(suite)
          /\ status = "PASS" => \A g \in gates : g.hard => g.outcome = "passed"

\* The manifest's digest and the one taken after the run enclose the load: when
\* they agree the evaluated weights are the ones the manifest names.  Nothing in
\* the code compares them.  (cli.py:180, runner.py:1980)
DigestsEncloseTheLoad ==
    digests.after # None /\ digests.after = digests.manifest => digests.loaded = digests.manifest

\* The anchor corpus holds a (scenario, step) once, padded batches included.
\* (retention_replay.py:177-182)
LabelsAreUnique == IsInjective(labels)

\* A scenario with a result is on the recording with every one of its steps, in
\* order; the padding may repeat a step but never brings back an earlier one.
\* (replay.py, runner.py:1939-1957)
RecordingIsComplete ==
    \A id \in Range(results) :
        /\ Range(frames[id]) = 1..RolloutSteps
        /\ \A i, j \in DOMAIN frames[id] : i < j => frames[id][i] <= frames[id][j]
-----------------------------------------------------------------------------
(* Inductive strengthening.                                                *)

\* The k-th scenario of the m-th family.
Order == 1..Len(FamilyOrder)
Scenarios(m) == 1..Len(Own(FamilyOrder[m]))
At(m, k) == Own(FamilyOrder[m])[k]

\* The scenarios the loop has passed.
Passed(m, k) == m < loop.family \/ (m = loop.family /\ k <= loop.start)

SuiteIsAsked ==
    /\ suite \in Suites /\ batchSize \in Nat \ {0}
    /\ file \in Nat /\ results \in Seq(Ids) /\ labels \in Seq(Ids \X Int)
    /\ frames \in [Ids -> Seq(Int)]
    /\ digests \in [manifest : Int, loaded : Int, after : Int]

\* The loop stands between two batches.
LoopIsInTheSuite ==
    /\ loop \in [family : Nat \ {0}, start : Nat]
    /\ loop.family <= Len(FamilyOrder) + 1
    /\ BatchesLeft => loop.start < Len(Family)

\* The results are the scenarios passed, in their order; a raise loses them all.
ResultsArePassed ==
    /\ \A i \in DOMAIN results : \E m \in Order : \E k \in Scenarios(m) :
         Passed(m, k) /\ results[i] = At(m, k)
    /\ \A i, j \in DOMAIN results : i < j => Before(results[i], results[j])
    /\ IF stage = "raised" THEN results = <<>>
       ELSE \A m \in Order : \A k \in Scenarios(m) : Passed(m, k) => At(m, k) \in Range(results)

\* A scenario passed is on the recording, one to come is not.
FramesArePassed ==
    \A m \in Order : \A k \in Scenarios(m) :
        IF Passed(m, k)
        THEN /\ Range(frames[At(m, k)]) = 1..RolloutSteps
             /\ \A i, j \in DOMAIN frames[At(m, k)] :
                  i < j => frames[At(m, k)][i] <= frames[At(m, k)][j]
        ELSE frames[At(m, k)] = <<>>

\* The file only changes to later contents, and is read in this order.
DigestsInOrder ==
    /\ stage \in {"preflight", "load"} => digests.manifest <= file
    /\ stage = "run" => digests.manifest <= digests.loaded /\ digests.loaded <= file
    /\ digests.after # None =>
         /\ digests.manifest <= digests.loaded /\ digests.loaded <= digests.after
         /\ stage \in {"grade", "write", "dead"} /\ ~BatchesLeft
    /\ stage = "grade" => digests.after # None

\* A verdict on results has all of them.
VerdictIsComplete ==
    status \in {"PASS", "FAIL"} =>
        /\ digests.after # None /\ stage # "grade"
        /\ Range(results) = Range(suite)
        /\ status = "PASS" => \A g \in gates : g.hard => g.outcome = "passed"

\* The directory holds the first files of the plan.
ArtifactsArePlanned ==
    /\ artifacts \in Seq({Completed[i] : i \in 1..Len(Completed)})
    /\ artifacts # <<>> => stage \in {"write", "dead"}
    /\ Len(artifacts) <= Len(Plan)
    /\ \A i \in DOMAIN artifacts : artifacts[i] = Plan[i]

IInv ==
    /\ SuiteIsAsked /\ LoopIsInTheSuite /\ ResultsArePassed /\ FramesArePassed
    /\ DigestsInOrder /\ VerdictIsComplete /\ ArtifactsArePlanned /\ LabelsAreUnique
=============================================================================
