---------------------- MODULE MCTrainingRecords_proofs ----------------------
(***************************************************************************)
(* What training judges, keeps and hands on, proved for any number of      *)
(* environments, attempts, episodes, frames, collectors, checkpoints and   *)
(* runs: promotions, jumps, the verdict of a slot, rewards, scripts, the   *)
(* live monitor, the anchor corpus and checkpoints.  One section proves    *)
(* the inductive invariant IInv of each module, in the variables v1, v2,   *)
(* ... that MCTraining gives it, and the last one draws the properties of  *)
(* the run from them.                                                      *)
(***************************************************************************)
EXTENDS MCTraining, FiniteSetTheorems, SequenceTheorems, TLAPS

-----------------------------------------------------------------------------
\* Mix (GoalMixRun): evidence is a rate, and a stage is left for what was seen in it.
\* Variables: v1 account, v2 recovered, v3 mix.

\* Finite sets, in the instance and in the library.
LEMMA MixFinite ==
  \A S : (Mix!IsFiniteSet(S) <=> IsFiniteSet(S)) /\ Mix!Cardinality(S) = Cardinality(S)
BY Zenon DEF Mix!IsFiniteSet, IsFiniteSet, Mix!Cardinality, Cardinality

\* Windows of the same size add up.
LEMMA MixOneMore ==
  ASSUME NEW m \in Nat, NEW a \in Nat
  PROVE  m * a \in Nat /\ m * (a + 1) = m * a + m
OBVIOUS

LEMMA MixMonotone ==
  ASSUME NEW m \in Nat, NEW a \in Nat, NEW b \in Nat, a <= b PROVE m * a <= m * b
<1> DEFINE d == b - a
<1>1. d \in Nat /\ b = a + d
  OBVIOUS
<1> HIDE DEF d
<1>2. m * d \in Nat /\ m * a \in Nat /\ m * (a + d) = m * a + m * d
  BY <1>1
<1> QED
  BY <1>1, <1>2

\* What a call counts: no episode has reached more than it tried.
LEMMA MixCountsAreRates ==
  ASSUME Mix!IInv, NEW S
  PROVE  \A k \in Mix!Evidence : /\ Mix!Tries(S)[k] \in Nat /\ Mix!Wins(S)[k] \in Nat
                             /\ Mix!Wins(S)[k] <= Mix!Tries(S)[k]
<1>1. ASSUME NEW k \in Mix!Lengths
      PROVE  /\ Cardinality(Mix!Attempts(S, k)) \in Nat /\ Cardinality(Mix!Reached(S, k)) \in Nat
             /\ Cardinality(Mix!Reached(S, k)) <= Cardinality(Mix!Attempts(S, k))
  <2> DEFINE All == Navigators \X (1..MaxTargets)
  <2>1. IsFiniteSet(All)
    <3>1. IsFiniteSet(1..MaxTargets)
      BY FS_Interval, MixParameters
    <3> QED
      BY <3>1, FS_Product, MixParameters
  <2>2. Mix!Attempts(S, k) \in SUBSET All
    BY DEF Mix!Attempts
  <2>3. Mix!Reached(S, k) \in SUBSET Mix!Attempts(S, k)
    <3> SUFFICES ASSUME NEW p \in Mix!Reached(S, k) PROVE p \in Mix!Attempts(S, k)
      OBVIOUS
    <3>1. /\ p \in (S \cap Navigators) \X (1..MaxTargets)
          /\ p[1] \in Navigators /\ p[2] \in Nat
          /\ p[2] <= v1[p[1]].won[k]
      BY MixParameters DEF Mix!Reached
    <3>2. /\ v1[p[1]].won[k] <= v1[p[1]].tried[k]
          /\ v1[p[1]].won[k] \in Nat /\ v1[p[1]].tried[k] \in Nat
      BY <3>1 DEF Mix!IInv, Mix!TypeOK, Mix!Account, Mix!AccountsAreRates
    <3> QED
      BY <3>1, <3>2 DEF Mix!Attempts
  <2> HIDE DEF All
  <2>4. IsFiniteSet(Mix!Attempts(S, k))
    BY <2>1, <2>2, FS_Subset
  <2> QED
    BY <2>3, <2>4, FS_Subset, FS_CardinalityType
<1>2. /\ Cardinality(S \cap Gates) \in Nat
      /\ Cardinality({e \in S \cap Gates : v2[e]}) \in Nat
      /\ Cardinality({e \in S \cap Gates : v2[e]}) <= Cardinality(S \cap Gates)
  <2>1. S \cap Gates \in SUBSET Gates
    OBVIOUS
  <2>2. IsFiniteSet(S \cap Gates)
    BY <2>1, FS_Subset, MixParameters
  <2>3. {e \in S \cap Gates : v2[e]} \in SUBSET (S \cap Gates)
    OBVIOUS
  <2> QED
    BY <2>2, <2>3, FS_Subset, FS_CardinalityType
<1>3. "short" \in Mix!Lengths /\ "long" \in Mix!Lengths
  BY DEF Mix!Lengths
<1> QED
  BY <1>1, <1>2, <1>3, MixFinite DEF Mix!Tries, Mix!Wins, Mix!Evidence

\* Crediting adds the counts of a call to the window and to the run, and nothing else.
LEMMA MixCreditedIs ==
  ASSUME NEW x \in Mix!MixType, NEW tries, NEW wins,
         \A k \in Mix!Evidence : tries[k] \in Nat /\ wins[k] \in Nat
  PROVE  /\ Mix!Credited(x, tries, wins) \in Mix!MixType
         /\ Mix!Credited(x, tries, wins).stage = x.stage
         /\ Mix!Credited(x, tries, wins).streak = x.streak
         /\ \A k \in Mix!Evidence :
              /\ Mix!Credited(x, tries, wins).tried[k] = x.tried[k] + tries[k]
              /\ Mix!Credited(x, tries, wins).won[k] = x.won[k] + wins[k]
              /\ Mix!Credited(x, tries, wins).allTried[k] = x.allTried[k] + tries[k]
<1>1. /\ Mix!Sum(x.tried, tries) \in [Mix!Evidence -> Nat] /\ Mix!Sum(x.won, wins) \in [Mix!Evidence -> Nat]
      /\ Mix!Sum(x.allTried, tries) \in [Mix!Evidence -> Nat]
  BY DEF Mix!Sum, Mix!MixType
<1>2. \A k \in Mix!Evidence : /\ Mix!Sum(x.tried, tries)[k] = x.tried[k] + tries[k]
                          /\ Mix!Sum(x.won, wins)[k] = x.won[k] + wins[k]
                          /\ Mix!Sum(x.allTried, tries)[k] = x.allTried[k] + tries[k]
  BY DEF Mix!Sum
<1>3. Mix!Credited(x, tries, wins) =
        [x EXCEPT !.tried = Mix!Sum(x.tried, tries), !.won = Mix!Sum(x.won, wins),
                  !.allTried = Mix!Sum(x.allTried, tries)]
  BY DEF Mix!Credited, Mix!MixType
<1> QED
  BY <1>1, <1>2, <1>3 DEF Mix!MixType

LEMMA MixNextStageIs ==
  ASSUME NEW x \in Mix!MixType, x.streak > 0 => x.stage > 0 /\ x.streak < DemotionWindows
  PROVE  /\ Mix!NextStage(x).stage \in Mix!Stage /\ Mix!NextStage(x).streak \in Nat
         /\ Mix!NextStage(x).stage + Mix!NextStage(x).streak <= x.stage + x.streak + 1
         /\ Mix!NextStage(x).stage = 2 =>
              x.stage > 0 /\ (Mix!NextStage(x).streak = 0 \/ Mix!NextStage(x).streak <= x.streak + 1)
         /\ Mix!NextStage(x).stage = 2 /\ x.stage = 1 => Mix!NextStage(x).streak = 0
         /\ Mix!NextStage(x).stage # x.stage => Mix!NextStage(x).streak = 0
         /\ Mix!NextStage(x).stage < x.stage => x.streak + 1 >= DemotionWindows
         /\ Mix!NextStage(x).streak > 0 =>
              Mix!NextStage(x).stage > 0 /\ Mix!NextStage(x).streak < DemotionWindows
<1>1. x.stage \in 0..2 /\ x.streak \in Nat /\ DemotionWindows \in Nat \ {0}
  BY MixParameters DEF Mix!MixType, Mix!Stage
<1>2. CASE Mix!PromotionReady(x)
  BY <1>1, <1>2 DEF Mix!NextStage, Mix!PromotionReady, Mix!Stage
<1>3. CASE ~Mix!PromotionReady(x)
  BY <1>1, <1>3 DEF Mix!NextStage, Mix!Stage
<1> QED
  BY <1>2, <1>3

\* A window that is judged holds enough trials for one more stage or one more mark.
LEMMA MixJudgedIsEarned ==
  ASSUME NEW x \in Mix!MixType, x.streak > 0 => x.stage > 0 /\ x.streak < DemotionWindows,
         \A k \in Mix!Evidence : x.won[k] <= x.tried[k] /\ x.tried[k] <= x.allTried[k],
         \A k \in {"gate", "short"} :
           x.allTried[k] >= x.tried[k] + MinAttempts * (x.stage + x.streak),
         x.stage = 2 => x.allTried["long"] >= x.tried["long"] + MinAttempts * (1 + x.streak)
  PROVE  /\ Mix!Judged(x) \in Mix!MixType
         /\ \A k \in Mix!Evidence : /\ Mix!Judged(x).won[k] <= Mix!Judged(x).tried[k]
                                /\ Mix!Judged(x).tried[k] <= Mix!Judged(x).allTried[k]
         /\ \A k \in {"gate", "short"} : Mix!Judged(x).allTried[k] >=
              Mix!Judged(x).tried[k] + MinAttempts * (Mix!Judged(x).stage + Mix!Judged(x).streak)
         /\ Mix!Judged(x).stage = 2 => Mix!Judged(x).allTried["long"] >=
              Mix!Judged(x).tried["long"] + MinAttempts * (1 + Mix!Judged(x).streak)
         /\ Mix!Judged(x).stage # x.stage => Mix!Judged(x).streak = 0
         /\ Mix!Judged(x).stage < x.stage => x.streak + 1 >= DemotionWindows
         /\ Mix!Judged(x).streak > 0 => Mix!Judged(x).stage > 0 /\ Mix!Judged(x).streak < DemotionWindows
<1>1. CASE ~Mix!WindowReady(x)
  <2>1. Mix!Judged(x) = x
    BY <1>1 DEF Mix!Judged
  <2> QED
    BY <2>1 DEF Mix!MixType, Mix!Stage
<1>2. CASE Mix!WindowReady(x)
  <2> DEFINE s == Mix!NextStage(x).stage
             m == Mix!NextStage(x).streak
  <2>1. Mix!Judged(x) = [x EXCEPT !.stage = s, !.streak = m,
                              !.tried = Mix!NoEvidence, !.won = Mix!NoEvidence]
    BY <1>2 DEF Mix!Judged
  <2>2. /\ s \in Mix!Stage /\ m \in Nat /\ s + m <= x.stage + x.streak + 1
        /\ s = 2 => x.stage > 0 /\ (m = 0 \/ m <= x.streak + 1)
        /\ s = 2 /\ x.stage = 1 => m = 0
        /\ s # x.stage => m = 0
        /\ s < x.stage => x.streak + 1 >= DemotionWindows
        /\ m > 0 => s > 0 /\ m < DemotionWindows
    BY MixNextStageIs
  <2> HIDE DEF s, m
  <2>3. Mix!NoEvidence \in [Mix!Evidence -> Nat] /\ \A k \in Mix!Evidence : Mix!NoEvidence[k] = 0
    BY DEF Mix!NoEvidence
  <2>4. /\ Mix!Judged(x) \in Mix!MixType /\ Mix!Judged(x).stage = s /\ Mix!Judged(x).streak = m
        /\ Mix!Judged(x).tried = Mix!NoEvidence /\ Mix!Judged(x).won = Mix!NoEvidence
        /\ Mix!Judged(x).allTried = x.allTried
    BY <2>1, <2>2, <2>3 DEF Mix!MixType
  <2>5. /\ x.stage \in 0..2 /\ x.streak \in Nat /\ MinAttempts \in Nat /\ s \in 0..2
        /\ \A k \in Mix!Evidence : x.tried[k] \in Nat /\ x.allTried[k] \in Nat
    BY <2>2, MixParameters DEF Mix!MixType, Mix!Stage
  <2>6. /\ x.tried["gate"] >= MinAttempts /\ x.tried["short"] >= MinAttempts
        /\ x.stage # 0 => x.tried["long"] >= MinAttempts
    BY <1>2 DEF Mix!WindowReady, Mix!Enough
  <2>7. \A a, b \in Nat : a <= b => MinAttempts * a <= MinAttempts * b
    BY <2>5, MixMonotone
  <2>8. \A a \in Nat : /\ MinAttempts * a \in Nat
                       /\ MinAttempts * (a + 1) = MinAttempts * a + MinAttempts
    BY <2>5, MixOneMore
  <2>9. \A k \in {"gate", "short"} : x.allTried[k] >= MinAttempts * (s + m)
    <3> SUFFICES ASSUME NEW k \in {"gate", "short"}
                 PROVE  x.allTried[k] >= MinAttempts * (s + m)
      OBVIOUS
    <3> DEFINE a == x.stage + x.streak
               b == MinAttempts * a
    <3>1. a \in Nat /\ s + m \in Nat /\ s + m <= a + 1
      BY <2>2, <2>5
    <3>2. x.allTried[k] >= x.tried[k] + b /\ x.tried[k] >= MinAttempts /\ k \in Mix!Evidence
      BY <2>6 DEF Mix!Evidence
    <3>3. MinAttempts * (a + 1) = b + MinAttempts /\ b \in Nat
      BY <3>1, <2>8
    <3>4. MinAttempts * (s + m) <= MinAttempts * (a + 1)
      BY <3>1, <2>7
    <3>5. MinAttempts * (s + m) \in Nat
      BY <3>1, <2>5
    <3> HIDE DEF a, b
    <3> QED
      BY <3>2, <3>3, <3>4, <3>5, <2>5
  <2>10. s = 2 => x.allTried["long"] >= MinAttempts * (1 + m)
    <3> SUFFICES ASSUME s = 2 PROVE x.allTried["long"] >= MinAttempts * (1 + m)
      OBVIOUS
    <3>1. /\ "long" \in Mix!Evidence /\ x.tried["long"] \in Nat /\ x.allTried["long"] \in Nat
          /\ x.tried["long"] >= MinAttempts /\ x.tried["long"] <= x.allTried["long"]
      BY <2>2, <2>5, <2>6 DEF Mix!Evidence
    <3>2. CASE m = 0
      <4>1. MinAttempts * (1 + m) = MinAttempts
        BY <3>2, <2>5
      <4> QED
        BY <4>1, <3>1, <2>5
    <3>3. CASE m # 0
      <4>1. x.stage = 2 /\ m <= x.streak + 1
        BY <2>2, <2>5, <3>3
      <4> DEFINE b == MinAttempts * (1 + x.streak)
      <4>2. x.allTried["long"] >= x.tried["long"] + b /\ b \in Nat
        BY <4>1, <2>5
      <4>3. MinAttempts * ((1 + x.streak) + 1) = b + MinAttempts
        BY <2>5, <2>8
      <4>4. MinAttempts * (1 + m) <= MinAttempts * ((1 + x.streak) + 1)
        BY <2>2, <2>5, <4>1, <2>7
      <4>5. MinAttempts * (1 + m) \in Nat
        BY <2>2, <2>5
      <4> HIDE DEF b
      <4> QED
        BY <4>2, <4>3, <4>4, <4>5, <3>1, <2>5
    <3> QED
      BY <3>2, <3>3
  <2>11. /\ MinAttempts * (s + m) \in Nat /\ MinAttempts * (1 + m) \in Nat
         /\ \A k \in {"gate", "short", "long"} : k \in Mix!Evidence
    BY <2>2, <2>5 DEF Mix!Evidence
  <2> QED
    BY <2>2, <2>3, <2>4, <2>5, <2>9, <2>10, <2>11
<1> QED
  BY <1>1, <1>2

LEMMA MixInitIInv == ASSUME Mix!Init PROVE Mix!IInv
<1>1. Mix!Nothing \in Mix!Account /\ \A k \in Mix!Lengths : Mix!Nothing.won[k] = 0 /\ Mix!Nothing.tried[k] = 0
  BY DEF Mix!Nothing, Mix!Account
<1>2. /\ Mix!NewMix \in Mix!MixType /\ Mix!NewMix.stage = 0 /\ Mix!NewMix.streak = 0
      /\ \A k \in Mix!Evidence : /\ Mix!NewMix.tried[k] = 0 /\ Mix!NewMix.won[k] = 0
                             /\ Mix!NewMix.allTried[k] = 0
  BY DEF Mix!NewMix, Mix!MixType, Mix!NoEvidence, Mix!Stage
<1>3. Mix!TypeOK
  BY <1>1, <1>2 DEF Mix!Init, Mix!TypeOK
<1>4. Mix!AccountsAreRates
  BY <1>1 DEF Mix!Init, Mix!AccountsAreRates
<1>5. Mix!WindowIsOfTheRun /\ Mix!MarksAreLow /\ Mix!EvidenceIsARate
  BY <1>2 DEF Mix!Init, Mix!WindowIsOfTheRun, Mix!MarksAreLow, Mix!EvidenceIsARate
<1>6. Mix!PromotionsEarned
  BY <1>2, MixParameters DEF Mix!Init, Mix!PromotionsEarned, Mix!Evidence
<1> QED
  BY <1>3, <1>4, <1>5, <1>6 DEF Mix!IInv

LEMMA MixStepPreserves == ASSUME Mix!IInv, [Mix!Next]_Mix!vars PROVE Mix!IInv' /\ Mix!MarksBelongToTheStage
<1>1. /\ v3 \in Mix!MixType /\ v3.stage \in 0..2 /\ v3.streak \in Nat
      /\ DemotionWindows \in Nat \ {0}
      /\ v3.streak > 0 => v3.stage > 0 /\ v3.streak < DemotionWindows
  BY MixParameters DEF Mix!IInv, Mix!TypeOK, Mix!MixType, Mix!Stage, Mix!MarksAreLow
<1>2. ASSUME v3' = v3
      PROVE  /\ Mix!MarksBelongToTheStage /\ Mix!WindowIsOfTheRun' /\ Mix!MarksAreLow'
             /\ Mix!EvidenceIsARate' /\ Mix!PromotionsEarned' /\ (v3 \in Mix!MixType)'
  BY <1>1, <1>2 DEF Mix!IInv, Mix!MarksBelongToTheStage, Mix!WindowIsOfTheRun,
     Mix!MarksAreLow,
                    Mix!EvidenceIsARate, Mix!PromotionsEarned
<1>3. ASSUME NEW e \in Navigators, NEW k \in Mix!Lengths, Mix!Issue(e, k)
      PROVE  Mix!IInv' /\ Mix!MarksBelongToTheStage
  <2> DEFINE d == [v1[e].tried EXCEPT ![k] = @ + 1]
  <2>1. d \in [Mix!Lengths -> Nat] /\ \A l \in Mix!Lengths : v1[e].tried[l] <= d[l]
    BY DEF Mix!IInv, Mix!TypeOK, Mix!Account
  <2>2. v1' = [v1 EXCEPT ![e] = [v1[e] EXCEPT !.tried = d]]
    BY <1>3 DEF Mix!Issue, Mix!IInv, Mix!TypeOK, Mix!Account
  <2> HIDE DEF d
  <2>3. /\ [v1[e] EXCEPT !.tried = d] \in Mix!Account
        /\ [v1[e] EXCEPT !.tried = d].tried = d
        /\ [v1[e] EXCEPT !.tried = d].won = v1[e].won
    BY <2>1 DEF Mix!IInv, Mix!TypeOK, Mix!Account
  <2>4. v1' \in [Navigators -> Mix!Account] /\ v2' = v2 /\ v3' = v3
    BY <2>2, <2>3, <1>3 DEF Mix!Issue, Mix!IInv, Mix!TypeOK
  <2>5. Mix!AccountsAreRates'
    <3> SUFFICES ASSUME NEW f \in Navigators, NEW l \in Mix!Lengths
                 PROVE  v1'[f].won[l] <= v1'[f].tried[l]
      BY DEF Mix!AccountsAreRates
    <3>1. /\ v1[f].won[l] <= v1[f].tried[l]
          /\ v1[f].won[l] \in Nat /\ v1[f].tried[l] \in Nat
      BY DEF Mix!IInv, Mix!AccountsAreRates, Mix!TypeOK, Mix!Account
    <3>2. CASE f = e
      <4>1. v1'[f].won = v1[e].won /\ v1'[f].tried = d
        BY <2>2, <2>3, <3>2 DEF Mix!IInv, Mix!TypeOK
      <4>2. d[l] \in Nat /\ v1[e].tried[l] <= d[l]
        BY <2>1
      <4> QED
        BY <3>1, <3>2, <4>1, <4>2
    <3>3. CASE f # e
      <4>1. v1'[f] = v1[f]
        BY <2>2, <3>3 DEF Mix!IInv, Mix!TypeOK
      <4> QED
        BY <3>1, <4>1
    <3> QED
      BY <3>2, <3>3
  <2> QED
    BY <2>4, <2>5, <1>2 DEF Mix!IInv, Mix!TypeOK
<1>4. ASSUME NEW e \in Navigators, NEW k \in Mix!Lengths, Mix!Reach(e, k)
      PROVE  Mix!IInv' /\ Mix!MarksBelongToTheStage
  <2> DEFINE d == [v1[e].won EXCEPT ![k] = @ + 1]
  <2>1. d \in [Mix!Lengths -> Nat] /\ \A l \in Mix!Lengths : d[l] <= v1[e].tried[l]
    BY <1>4 DEF Mix!IInv, Mix!TypeOK, Mix!Account, Mix!Reach, Mix!AccountsAreRates
  <2>2. v1' = [v1 EXCEPT ![e] = [v1[e] EXCEPT !.won = d]]
    BY <1>4 DEF Mix!Reach, Mix!IInv, Mix!TypeOK, Mix!Account
  <2> HIDE DEF d
  <2>3. /\ [v1[e] EXCEPT !.won = d] \in Mix!Account
        /\ [v1[e] EXCEPT !.won = d].won = d
        /\ [v1[e] EXCEPT !.won = d].tried = v1[e].tried
    BY <2>1 DEF Mix!IInv, Mix!TypeOK, Mix!Account
  <2>4. v1' \in [Navigators -> Mix!Account] /\ v2' = v2 /\ v3' = v3
    BY <2>2, <2>3, <1>4 DEF Mix!Reach, Mix!IInv, Mix!TypeOK
  <2>5. Mix!AccountsAreRates'
    <3> SUFFICES ASSUME NEW f \in Navigators, NEW l \in Mix!Lengths
                 PROVE  v1'[f].won[l] <= v1'[f].tried[l]
      BY DEF Mix!AccountsAreRates
    <3>1. v1[f].won[l] <= v1[f].tried[l]
      BY DEF Mix!IInv, Mix!AccountsAreRates
    <3>2. CASE f = e
      <4>1. v1'[f].won = d /\ v1'[f].tried = v1[e].tried
        BY <2>2, <2>3, <3>2 DEF Mix!IInv, Mix!TypeOK
      <4> QED
        BY <2>1, <4>1
    <3>3. CASE f # e
      <4>1. v1'[f] = v1[f]
        BY <2>2, <3>3 DEF Mix!IInv, Mix!TypeOK
      <4> QED
        BY <3>1, <4>1
    <3> QED
      BY <3>2, <3>3
  <2> QED
    BY <2>4, <2>5, <1>2 DEF Mix!IInv, Mix!TypeOK
<1>5. ASSUME NEW e \in Gates, Mix!Recover(e) PROVE Mix!IInv' /\ Mix!MarksBelongToTheStage
  <2>1. v1' = v1 /\ v3' = v3 /\ v2' \in [Gates -> BOOLEAN]
    BY <1>5 DEF Mix!Recover, Mix!IInv, Mix!TypeOK
  <2> QED
    BY <2>1, <1>2 DEF Mix!IInv, Mix!TypeOK, Mix!AccountsAreRates
<1>6. ASSUME NEW S \in SUBSET Mix!Envs, Mix!EndEpisodes(S) PROVE Mix!IInv' /\ Mix!MarksBelongToTheStage
  <2> DEFINE t == Mix!Tries(S)
             w == Mix!Wins(S)
             c == Mix!Credited(v3, t, w)
  <2>1. \A k \in Mix!Evidence : t[k] \in Nat /\ w[k] \in Nat /\ w[k] <= t[k]
    BY MixCountsAreRates
  <2>2. v3' = Mix!Judged(c)
    BY <1>6 DEF Mix!EndEpisodes
  <2> HIDE DEF t, w
  <2>3. /\ c \in Mix!MixType /\ c.stage = v3.stage /\ c.streak = v3.streak
        /\ \A k \in Mix!Evidence : /\ c.tried[k] = v3.tried[k] + t[k]
                               /\ c.won[k] = v3.won[k] + w[k]
                               /\ c.allTried[k] = v3.allTried[k] + t[k]
    BY <1>1, <2>1, MixCreditedIs
  <2> HIDE DEF c
  <2>4. /\ MinAttempts * (v3.stage + v3.streak) \in Nat
        /\ MinAttempts * (1 + v3.streak) \in Nat
        /\ \A k \in {"gate", "short", "long"} : k \in Mix!Evidence
    BY <1>1, MixParameters DEF Mix!Evidence
  <2>5. \A k \in Mix!Evidence : /\ v3.won[k] \in Nat /\ v3.tried[k] \in Nat
                            /\ v3.allTried[k] \in Nat
                            /\ v3.won[k] <= v3.tried[k] /\ v3.tried[k] <= v3.allTried[k]
    BY <1>1 DEF Mix!IInv, Mix!MixType, Mix!EvidenceIsARate, Mix!WindowIsOfTheRun
  <2>6. \A k \in Mix!Evidence : c.won[k] <= c.tried[k] /\ c.tried[k] <= c.allTried[k]
    BY <2>1, <2>3, <2>5
  <2>7. \A k \in {"gate", "short"} :
          c.allTried[k] >= c.tried[k] + MinAttempts * (c.stage + c.streak)
    <3> SUFFICES ASSUME NEW k \in {"gate", "short"}
                 PROVE  c.allTried[k] >= c.tried[k] + MinAttempts * (c.stage + c.streak)
      OBVIOUS
    <3>1. v3.allTried[k] >= v3.tried[k] + MinAttempts * (v3.stage + v3.streak)
      BY DEF Mix!IInv, Mix!PromotionsEarned
    <3> QED
      BY <2>1, <2>3, <2>4, <2>5, <3>1
  <2>8. c.stage = 2 => c.allTried["long"] >= c.tried["long"] + MinAttempts * (1 + c.streak)
    <3>1. v3.stage = 2 =>
            v3.allTried["long"] >= v3.tried["long"] + MinAttempts * (1 + v3.streak)
      BY DEF Mix!IInv, Mix!PromotionsEarned
    <3> QED
      BY <2>1, <2>3, <2>4, <2>5, <3>1
  <2>9. c.streak > 0 => c.stage > 0 /\ c.streak < DemotionWindows
    BY <1>1, <2>3
  <2>10. /\ v3' \in Mix!MixType
         /\ \A k \in Mix!Evidence : /\ v3'.won[k] <= v3'.tried[k]
                                /\ v3'.tried[k] <= v3'.allTried[k]
         /\ \A k \in {"gate", "short"} : v3'.allTried[k] >=
              v3'.tried[k] + MinAttempts * (v3'.stage + v3'.streak)
         /\ v3'.stage = 2 => v3'.allTried["long"] >=
              v3'.tried["long"] + MinAttempts * (1 + v3'.streak)
         /\ v3'.stage # v3.stage => v3'.streak = 0
         /\ v3'.stage < v3.stage => v3.streak + 1 >= DemotionWindows
         /\ v3'.streak > 0 => v3'.stage > 0 /\ v3'.streak < DemotionWindows
    BY <2>2, <2>3, <2>6, <2>7, <2>8, <2>9, MixJudgedIsEarned
  <2>11. Mix!Nothing \in Mix!Account /\ \A k \in Mix!Lengths : Mix!Nothing.won[k] = 0 /\ Mix!Nothing.tried[k] = 0
    BY DEF Mix!Nothing, Mix!Account
  <2>12. v1' \in [Navigators -> Mix!Account] /\ Mix!AccountsAreRates'
    BY <1>6, <2>11 DEF Mix!EndEpisodes, Mix!IInv, Mix!TypeOK, Mix!AccountsAreRates
  <2>13. v2' \in [Gates -> BOOLEAN]
    <3>1. v2' = [e \in Gates |-> v2[e] /\ e \notin S]
      BY <1>6 DEF Mix!EndEpisodes
    <3> QED
      BY <3>1
  <2>14. Mix!MarksBelongToTheStage
    BY <2>10 DEF Mix!MarksBelongToTheStage
  <2>15. Mix!WindowIsOfTheRun' /\ Mix!EvidenceIsARate' /\ Mix!MarksAreLow' /\ Mix!PromotionsEarned'
    BY <2>10 DEF Mix!WindowIsOfTheRun, Mix!EvidenceIsARate, Mix!MarksAreLow,
       Mix!PromotionsEarned
  <2> QED
    BY <2>10, <2>12, <2>13, <2>14, <2>15 DEF Mix!IInv, Mix!TypeOK
<1>7. CASE UNCHANGED Mix!vars
  <2>1. v1' = v1 /\ v2' = v2 /\ v3' = v3
    BY <1>7 DEF Mix!vars
  <2> QED
    BY <2>1, <1>2 DEF Mix!IInv, Mix!TypeOK, Mix!AccountsAreRates
<1> QED
  BY <1>3, <1>4, <1>5, <1>6, <1>7 DEF Mix!Next

-----------------------------------------------------------------------------
\* Horizon (HorizonCurriculum): a streak is of its stage but for the episodes that were
\* under way.
\* Variables: v1 stage, v2 pending, v3 quality, v4 tally, v5 best, v6 fixed, v7 disk,
\*   v8 pc, v9 fresh, v10 earned.

\* Finite sets, in the instance and in the library.
LEMMA HorizonFinite ==
  \A S : (Horizon!IsFiniteSet(S) <=> IsFiniteSet(S)) /\ Horizon!Cardinality(S) = Cardinality(S)
BY Zenon DEF Horizon!IsFiniteSet, IsFiniteSet, Horizon!Cardinality, Cardinality

LEMMA HorizonWindowIsFinite ==
  ASSUME NEW A \in SUBSET (1..Window)
  PROVE  /\ IsFiniteSet(A) /\ Cardinality(A) \in Nat
         /\ \A B : B \subseteq A => Cardinality(B) \in Nat /\ Cardinality(B) <= Cardinality(A)
<1>1. IsFiniteSet(1..Window)
  BY FS_Interval, HorizonParameters
<1>2. IsFiniteSet(A)
  BY <1>1, FS_Subset
<1>3. ASSUME NEW B, B \subseteq A
      PROVE  Cardinality(B) \in Nat /\ Cardinality(B) <= Cardinality(A)
  <2>1. B \in SUBSET A
    BY <1>3
  <2> QED
    BY <1>2, <2>1, FS_Subset, FS_CardinalityType
<1> QED
  BY <1>2, <1>3, FS_CardinalityType

LEMMA HorizonWindowCounts ==
  /\ Horizon!Timeouts \in Nat
  /\ Horizon!FreshInWindow \in Nat
<1>1. {i \in 1..Window : v2[i].timeout} \in SUBSET (1..Window)
  OBVIOUS
<1>2. {i \in 1..Window : v2[i].at = v1} \in SUBSET (1..Window)
  OBVIOUS
<1>3. /\ Horizon!Timeouts = Cardinality({i \in 1..Window : v2[i].timeout})
      /\ Horizon!FreshInWindow = Cardinality({i \in 1..Window : v2[i].at = v1})
  BY HorizonFinite DEF Horizon!Timeouts, Horizon!FreshInWindow, Horizon!Count
<1> QED
  BY <1>1, <1>2, <1>3, HorizonWindowIsFinite

\* All but the first k episodes of a window are of the stage.
LEMMA HorizonWindowIsFresh ==
  ASSUME Horizon!IInv, Len(v2) >= Window, NEW k \in 0..Window, Horizon!OldAtTheHead(k)
  PROVE  Horizon!FreshInWindow >= Window - k
<1>1. {i \in 1..Window : v2[i].at = v1} \in SUBSET (1..Window)
  OBVIOUS
<1>2. Window \in Nat /\ Len(v2) \in Nat
  BY HorizonParameters DEF Horizon!IInv, Horizon!Types
<1>3. (k + 1)..Window \subseteq {i \in 1..Window : v2[i].at = v1}
  BY <1>2 DEF Horizon!OldAtTheHead
<1>4. Cardinality((k + 1)..Window) = Window - k
  <2>1. k + 1 \in Int /\ Window \in Int
    BY <1>2
  <2>2. Cardinality((k + 1)..Window) =
          IF k + 1 > Window THEN 0 ELSE Window - (k + 1) + 1
    BY <2>1, FS_Interval
  <2> QED
    BY <2>2, <1>2
<1>5. Horizon!FreshInWindow = Cardinality({i \in 1..Window : v2[i].at = v1})
  BY HorizonFinite DEF Horizon!FreshInWindow, Horizon!Count
<1> QED
  BY <1>1, <1>3, <1>4, <1>5, HorizonWindowIsFinite

LEMMA HorizonInitIInv == ASSUME Horizon!Init PROVE Horizon!IInv
<1>1. Required * Window \in Nat
  BY HorizonParameters
<1>2. Horizon!Types
  <2>1. /\ <<>> \in Seq(Horizon!Outcome) /\ <<>> \in Seq(BOOLEAN) /\ Len(<<>>) = 0
    OBVIOUS
  <2>2. /\ v2 = <<>> /\ v3 = <<>> /\ v1 \in 0..Top /\ v4 = Horizon!NoTally
        /\ v5 = -1 /\ v7 = [checkpoint |-> -1, metadata |-> -1] /\ v8 = "rolling"
        /\ v9 = 0 /\ v10 = Required * Window /\ v6 = (v1 = Top)
    BY DEF Horizon!Init
  <2>3. v4 \in [successes : 0..Required, failures : 0..RequiredFailures,
                   windows : 0..MinDwell]
    BY <2>2, HorizonParameters DEF Horizon!NoTally
  <2>4. -1 \in Int
    OBVIOUS
  <2>5. v7 \in [checkpoint : Int, metadata : Int]
    BY <2>2, <2>4
  <2>6. v6 \in BOOLEAN
    BY <2>2
  <2> QED
    BY <1>1, <2>1, <2>2, <2>3, <2>4, <2>5, <2>6, HorizonParameters DEF Horizon!Types,
       Horizon!TypeOK
<1>3. Horizon!QueueIsDrained
  BY HorizonParameters DEF Horizon!Init, Horizon!QueueIsDrained
<1>4. Horizon!StreakIsFresh
  <2>1. v4.successes = 0 /\ v9 = 0 /\ Len(v2) = 0
    BY DEF Horizon!Init, Horizon!NoTally
  <2>2. Horizon!OldAtTheHead(0)
    BY <2>1 DEF Horizon!OldAtTheHead
  <2>3. 0 \in 0..(NumEnvs - 1) /\ Window * 0 = 0
    BY HorizonParameters
  <2> QED
    BY <2>1, <2>2, <2>3, HorizonParameters DEF Horizon!StreakIsFresh
<1>5. Horizon!PromotionIsEarned
  BY <1>1, HorizonParameters DEF Horizon!Init, Horizon!PromotionIsEarned
<1>6. Horizon!CandidateIsStaged
  <2>1. /\ v7.metadata = -1 /\ v7.checkpoint = -1 /\ v5 = -1
        /\ v8 = "rolling" /\ v6 = (v1 = Top)
    BY DEF Horizon!Init
  <2>2. v1 = Top => v6
    BY <2>1
  <2> QED
    BY <2>1, <2>2 DEF Horizon!CandidateIsStaged
<1> QED
  BY <1>2, <1>3, <1>4, <1>5, <1>6 DEF Horizon!IInv

-----------------------------------------------------------------------------
LEMMA HorizonStepKeeps == ASSUME Horizon!IInv, Horizon!Step PROVE Horizon!IInv'
<1>1. PICK n \in 1..NumEnvs : \E timeouts, passes \in [1..n -> BOOLEAN] :
        /\ v2' = v2 \o [i \in 1..n |-> [timeout |-> timeouts[i], at |-> v1]]
        /\ v3' = v3 \o passes
  BY DEF Horizon!Step
<1>2. PICK timeouts, passes \in [1..n -> BOOLEAN] :
        /\ v2' = v2 \o [i \in 1..n |-> [timeout |-> timeouts[i], at |-> v1]]
        /\ v3' = v3 \o passes
  BY <1>1
<1> DEFINE new == [i \in 1..n |-> [timeout |-> timeouts[i], at |-> v1]]
<1>3. /\ n \in Nat /\ n <= NumEnvs /\ NumEnvs \in Nat /\ Window \in Nat
      /\ v1 \in 0..Top /\ v8 = "rolling" /\ Len(v2) < Window
      /\ v2 \in Seq(Horizon!Outcome) /\ v3 \in Seq(BOOLEAN) /\ Len(v3) = Len(v2)
  BY HorizonParameters DEF Horizon!IInv, Horizon!Types, Horizon!TypeOK,
     Horizon!QueueIsDrained, Horizon!Step
<1>4. new \in Seq(Horizon!Outcome) /\ Len(new) = n /\ \A i \in 1..n : new[i].at = v1
  <2>1. new \in [1..n -> Horizon!Outcome]
    BY <1>3 DEF Horizon!Outcome
  <2>2. new \in Seq(Horizon!Outcome)
    BY <2>1, <1>3, IsASeq
  <2>3. Len(new) = n
    BY <2>1, <2>2, <1>3, LenProperties
  <2> QED
    BY <2>2, <2>3
<1>5. passes \in Seq(BOOLEAN) /\ Len(passes) = n
  <2>1. passes \in Seq(BOOLEAN)
    BY <1>3, IsASeq
  <2> QED
    BY <2>1, <1>3, LenProperties
<1>6. v2' = v2 \o new /\ v3' = v3 \o passes
  BY <1>2
<1> HIDE DEF new
<1>7. /\ v2' \in Seq(Horizon!Outcome) /\ Len(v2') = Len(v2) + n
      /\ \A i \in 1..Len(v2) : v2'[i] = v2[i]
      /\ \A i \in 1..Len(v2') : i > Len(v2) => v2'[i].at = v1
  <2>1. /\ v2' \in Seq(Horizon!Outcome) /\ Len(v2') = Len(v2) + Len(new)
        /\ \A i \in 1..(Len(v2) + Len(new)) :
             v2'[i] = IF i <= Len(v2) THEN v2[i] ELSE new[i - Len(v2)]
    BY <1>3, <1>4, <1>6, ConcatProperties
  <2>2. Len(v2) \in Nat
    BY <1>3
  <2>3. \A i \in 1..(Len(v2) + n) : i > Len(v2) => i - Len(v2) \in 1..n
    BY <1>3, <2>2
  <2>4. v2' \in Seq(Horizon!Outcome) /\ Len(v2') = Len(v2) + n
    BY <1>4, <2>1
  <2>5. \A i \in 1..Len(v2) : v2'[i] = v2[i]
    BY <1>3, <1>4, <2>1, <2>2
  <2>6. ASSUME NEW i \in 1..Len(v2'), i > Len(v2) PROVE v2'[i].at = v1
    <3>1. i \in 1..(Len(v2) + n) /\ i - Len(v2) \in 1..n /\ ~(i <= Len(v2))
      BY <1>3, <2>2, <2>3, <2>4, <2>6
    <3>2. v2'[i] = new[i - Len(v2)]
      BY <1>4, <2>1, <3>1
    <3> QED
      BY <1>4, <3>1, <3>2
  <2> QED
    BY <2>4, <2>5, <2>6
<1>8. v3' \in Seq(BOOLEAN) /\ Len(v3') = Len(v3) + n
  BY <1>3, <1>5, <1>6, ConcatProperties
<1>9. /\ v8' = IF Len(v2') >= Window THEN "judging" ELSE "rolling"
      /\ UNCHANGED <<v1, v4, v5, v6, v7, v9, v10>>
  BY DEF Horizon!Step, Horizon!Rolling
<1>10. Horizon!Types'
  BY <1>3, <1>7, <1>8, <1>9 DEF Horizon!IInv, Horizon!Types, Horizon!TypeOK
<1>11. Horizon!QueueIsDrained'
  BY <1>3, <1>7, <1>9 DEF Horizon!QueueIsDrained
<1>12. Horizon!StreakIsFresh'
  <2>1. PICK k \in 0..(NumEnvs - 1) :
          /\ Horizon!OldAtTheHead(k)
          /\ v1 # Top => v9 >= Window * v4.successes + k - (NumEnvs - 1)
    BY DEF Horizon!IInv, Horizon!StreakIsFresh
  <2>2. \A i \in 1..Len(v2') : i > k => v2'[i].at = v1'
    BY <1>3, <1>7, <1>9, <2>1 DEF Horizon!OldAtTheHead
  <2>3. v1' # Top => v4'.successes < Required
    BY <1>9 DEF Horizon!IInv, Horizon!StreakIsFresh
  <2> QED
    BY <1>9, <2>1, <2>2, <2>3 DEF Horizon!StreakIsFresh, Horizon!OldAtTheHead
<1>13. Horizon!PromotionIsEarned' /\ Horizon!CandidateIsStaged'
  BY <1>3, <1>9 DEF Horizon!IInv, Horizon!PromotionIsEarned, Horizon!CandidateIsStaged
<1> QED
  BY <1>10, <1>11, <1>12, <1>13 DEF Horizon!IInv

\* The counters of a judged window.
LEMMA HorizonTalliedIs ==
  ASSUME Horizon!IInv
  PROVE  /\ Horizon!Tallied \in [successes : 0..Required, failures : 0..RequiredFailures,
                         windows : 0..MinDwell]
         /\ Horizon!Tallied.successes = 0 \/ (Horizon!Good /\ (Horizon!Tallied.successes = v4.successes + 1
                                               \/ v4.successes = Required))
         /\ ~Horizon!Good => Horizon!Tallied.successes = 0
         /\ Horizon!NextTally \in [successes : 0..Required, failures : 0..RequiredFailures,
                           windows : 0..MinDwell]
         /\ Horizon!Promoted \/ Horizon!Demoted => Horizon!NextTally.successes = 0
         /\ ~Horizon!Promoted /\ ~Horizon!Demoted => Horizon!NextTally.successes = Horizon!Tallied.successes
<1>1. /\ Required \in Nat /\ RequiredFailures \in Nat /\ MinDwell \in Nat
      /\ v4.successes \in 0..Required /\ v4.failures \in 0..RequiredFailures
      /\ v4.windows \in 0..MinDwell
  BY HorizonParameters DEF Horizon!IInv, Horizon!Types, Horizon!TypeOK
<1> DEFINE s == IF Horizon!Good THEN Horizon!Saturated(v4.successes, Required) ELSE 0
           f == IF ~Horizon!Good /\ Horizon!Timeouts < BadTimeouts
                THEN Horizon!Saturated(v4.failures, RequiredFailures) ELSE 0
           w == Horizon!Saturated(v4.windows, MinDwell)
<1>2. /\ s \in 0..Required /\ f \in 0..RequiredFailures /\ w \in 0..MinDwell
      /\ s = 0 \/ (Horizon!Good /\ (s = v4.successes + 1 \/ v4.successes = Required))
      /\ ~Horizon!Good => s = 0
  BY <1>1 DEF Horizon!Saturated
<1>3. Horizon!Tallied = [successes |-> s, failures |-> f, windows |-> w]
  BY DEF Horizon!Tallied
<1> HIDE DEF s, f, w
<1>4. /\ Horizon!Tallied \in [successes : 0..Required, failures : 0..RequiredFailures,
                      windows : 0..MinDwell]
      /\ Horizon!Tallied.successes = s
  BY <1>2, <1>3
<1>5. Horizon!NoTally \in [successes : 0..Required, failures : 0..RequiredFailures,
                   windows : 0..MinDwell] /\ Horizon!NoTally.successes = 0
  BY <1>1 DEF Horizon!NoTally
<1>6. /\ [Horizon!Tallied EXCEPT !.failures = 0] \in
           [successes : 0..Required, failures : 0..RequiredFailures, windows : 0..MinDwell]
      /\ [Horizon!Tallied EXCEPT !.failures = 0].successes = Horizon!Tallied.successes
  BY <1>1, <1>4
<1>7. ~(Horizon!Protected /\ (Horizon!Promoted \/ Horizon!Demoted))
  <2>1. v1 \in 0..Top /\ Top \in Nat
    BY HorizonParameters DEF Horizon!IInv, Horizon!Types, Horizon!TypeOK
  <2> QED
    BY <2>1 DEF Horizon!Protected, Horizon!Promoted, Horizon!Demoted
<1>8. \/ (Horizon!Promoted \/ Horizon!Demoted) /\ Horizon!NextTally = Horizon!NoTally
      \/ ~Horizon!Promoted /\ ~Horizon!Demoted /\ Horizon!NextTally = [Horizon!Tallied EXCEPT !.failures = 0]
      \/ ~Horizon!Promoted /\ ~Horizon!Demoted /\ Horizon!NextTally = Horizon!Tallied
  BY <1>7 DEF Horizon!NextTally
<1> QED
  BY <1>2, <1>4, <1>5, <1>6, <1>8

\* The episodes left in the queue after a window.
LEMMA HorizonQueueMovesUp ==
  ASSUME Horizon!IInv, Len(v2) >= Window, v2' = SubSeq(v2, Window + 1, Len(v2)),
         v3' = SubSeq(v3, Window + 1, Len(v3))
  PROVE  /\ v2' \in Seq(Horizon!Outcome) /\ v3' \in Seq(BOOLEAN)
         /\ Len(v2') = Len(v2) - Window /\ Len(v3') = Len(v2')
         /\ Len(v2') <= NumEnvs - 1
         /\ \A i \in 1..Len(v2') : v2'[i] = v2[i + Window]
<1>1. /\ v2 \in Seq(Horizon!Outcome) /\ v3 \in Seq(BOOLEAN) /\ Len(v3) = Len(v2)
      /\ Len(v2) \in Nat /\ Window \in Nat \ {0} /\ NumEnvs \in Nat
      /\ Len(v2) < Window + NumEnvs
  BY HorizonParameters DEF Horizon!IInv, Horizon!Types, Horizon!TypeOK
<1>2. Window + 1 \in 1..(Len(v2) + 1) /\ Len(v2) \in Window..Len(v2)
  BY <1>1
<1>3. ASSUME NEW T, NEW q \in Seq(T), Len(q) = Len(v2)
      PROVE  /\ SubSeq(q, Window + 1, Len(q)) \in Seq(T)
             /\ Len(SubSeq(q, Window + 1, Len(q))) = Len(q) - Window
             /\ \A i \in 1..(Len(q) - Window) :
                  SubSeq(q, Window + 1, Len(q))[i] = q[i + Window]
  <2>1. Window + 1 \in Int /\ Len(q) \in Int
    BY <1>1, <1>3
  <2>2. \A i \in (Window + 1)..Len(q) : q[i] \in T
    <3>1. \A i \in (Window + 1)..Len(q) : i \in 1..Len(q)
      BY <1>1, <1>3
    <3> QED
      BY <3>1, ElementOfSeq
  <2>3. /\ SubSeq(q, Window + 1, Len(q)) \in Seq(T)
        /\ Len(SubSeq(q, Window + 1, Len(q))) =
             IF Window + 1 <= Len(q) THEN Len(q) - (Window + 1) + 1 ELSE 0
        /\ \A i \in 1..(Len(q) - (Window + 1) + 1) :
             SubSeq(q, Window + 1, Len(q))[i] = q[(Window + 1) + i - 1]
    BY <2>1, <2>2, SubSeqProperties
  <2>4. /\ Len(q) - (Window + 1) + 1 = Len(q) - Window
        /\ \A i \in Int : (Window + 1) + i - 1 = i + Window
        /\ ~(Window + 1 <= Len(q)) => Len(q) - Window = 0
        /\ \A i \in 1..(Len(q) - Window) : i \in Int
    BY <1>1, <1>3
  <2> DEFINE e == SubSeq(q, Window + 1, Len(q))
  <2> HIDE DEF e
  <2>5. /\ e \in Seq(T) /\ Len(e) = Len(q) - Window
        /\ \A i \in 1..(Len(q) - Window) : e[i] = q[(Window + 1) + i - 1]
    BY <2>3, <2>4 DEF e
  <2>6. \A i \in 1..(Len(q) - Window) : e[i] = q[i + Window]
    BY <2>4, <2>5
  <2> QED
    BY <2>5, <2>6 DEF e
<1> QED
  BY <1>1, <1>3

LEMMA HorizonStreakGrows == ASSUME Horizon!IInv, Horizon!Judge PROVE Horizon!StreakIsFresh' /\ Horizon!PromotionIsEarned'
<1>1. /\ Required \in Nat \ {0} /\ Window \in Nat \ {0} /\ NumEnvs \in Nat \ {0} /\ Top \in Nat
      /\ Len(v2) >= Window /\ Len(v2) \in Nat /\ v1 \in 0..Top
      /\ v4.successes \in 0..Required /\ v9 \in Nat /\ v10 \in Nat
      /\ Horizon!FreshInWindow \in Nat
  BY HorizonWindowCounts, HorizonParameters DEF Horizon!IInv, Horizon!Types, Horizon!TypeOK,
     Horizon!QueueIsDrained, Horizon!Judge
<1>2. /\ Len(v2') = Len(v2) - Window /\ Len(v2') <= NumEnvs - 1
      /\ \A i \in 1..Len(v2') : v2'[i] = v2[i + Window]
  BY <1>1, HorizonQueueMovesUp DEF Horizon!Judge
<1>3. PICK k \in 0..(NumEnvs - 1) :
        /\ Horizon!OldAtTheHead(k)
        /\ v1 # Top => v9 >= Window * v4.successes + k - (NumEnvs - 1)
  BY DEF Horizon!IInv, Horizon!StreakIsFresh
<1>4. /\ v4' = Horizon!NextTally /\ Horizon!NextTally.successes \in 0..Required
      /\ Horizon!Tallied.successes \in 0..Required
      /\ Horizon!Tallied.successes = 0 \/ (Horizon!Good /\ (Horizon!Tallied.successes = v4.successes + 1
                                            \/ v4.successes = Required))
      /\ Horizon!Promoted \/ Horizon!Demoted => Horizon!NextTally.successes = 0
      /\ ~Horizon!Promoted /\ ~Horizon!Demoted => Horizon!NextTally.successes = Horizon!Tallied.successes
  BY HorizonTalliedIs DEF Horizon!Judge
<1>5. /\ ~(Horizon!Promoted /\ Horizon!Demoted)
      /\ Horizon!Promoted => v1' = v1 + 1 /\ v1 # Top
      /\ Horizon!Demoted => v1' = v1 - 1 /\ v1 # Top
      /\ ~Horizon!Promoted /\ ~Horizon!Demoted => v1' = v1
  <2>1. v1' = CASE Horizon!Promoted -> v1 + 1 [] Horizon!Demoted -> v1 - 1 [] OTHER -> v1
    BY DEF Horizon!Judge
  <2>2. ~(Horizon!Promoted /\ Horizon!Demoted) /\ (Horizon!Promoted => v1 # Top) /\ (Horizon!Demoted => v1 \in 1..(Top - 1))
    BY DEF Horizon!Promoted, Horizon!Demoted
  <2>3. Horizon!Demoted => v1 # Top
    BY <2>2, <1>1
  <2>4. CASE Horizon!Promoted
    BY <2>1, <2>2, <2>4
  <2>5. CASE Horizon!Demoted
    BY <2>1, <2>2, <2>3, <2>5
  <2>6. CASE ~Horizon!Promoted /\ ~Horizon!Demoted
    BY <2>1, <2>6
  <2> QED
    BY <2>4, <2>5, <2>6
<1>6. v1 # Top => v4.successes < Required
  BY DEF Horizon!IInv, Horizon!StreakIsFresh
\* What leaves the queue with the window, and what of it is of the stage.
<1> DEFINE r == IF k <= Window THEN 0 ELSE k - Window
           W == Window * v4.successes
<1>7. /\ r \in 0..(NumEnvs - 1)
      /\ Horizon!FreshInWindow >= Window - (k - r)
      /\ \A i \in 1..Len(v2') : i > r => v2'[i].at = v1
  <2>1. Horizon!FreshInWindow >= Window - (k - r)
    <3>1. CASE k <= Window
      BY <1>1, <1>3, <3>1, HorizonWindowIsFresh
    <3>2. CASE k > Window
      BY <1>1, <1>3, <3>2
    <3> QED
      BY <1>1, <1>3, <3>1, <3>2
  <2>2. \A i \in 1..Len(v2') : i > r => v2'[i].at = v1
    <3>1. \A i \in 1..Len(v2') : i + Window \in 1..Len(v2) /\ (i > r => i + Window > k)
      BY <1>1, <1>2, <1>3
    <3> QED
      BY <1>2, <1>3, <3>1 DEF Horizon!OldAtTheHead
  <2> QED
    BY <1>1, <1>3, <2>1, <2>2
<1>8. /\ W \in Nat /\ Window * (v4.successes + 1) = W + Window
      /\ Window * 0 = 0
  BY <1>1
<1> HIDE DEF r, W
<1>9. v1 # Top => v9 + Horizon!FreshInWindow >= W + Window + r - (NumEnvs - 1)
  <2>1. v1 # Top => v9 >= W + k - (NumEnvs - 1)
    BY <1>1, <1>3 DEF W
  <2>2. r \in Nat
    BY <1>1, <1>7
  <2> QED
    BY <1>1, <1>3, <1>7, <1>8, <2>1, <2>2
<1>10. Horizon!PromotionIsEarned'
  <2>1. CASE Horizon!Promoted
    <3>1. v4.successes + 1 = Required /\ v1 # Top
      BY <1>1, <1>4, <1>6, <2>1 DEF Horizon!Promoted
    <3>2. v10' = v9 + Horizon!FreshInWindow
      BY <2>1 DEF Horizon!Judge
    <3>3. Window * (v4.successes + 1) = Required * Window /\ Required * Window \in Nat
      BY <1>1, <3>1
    <3> QED
      BY <1>1, <1>7, <1>8, <1>9, <3>1, <3>2, <3>3 DEF Horizon!PromotionIsEarned
  <2>2. CASE ~Horizon!Promoted
    <3>1. v10' = v10
      BY <2>2 DEF Horizon!Judge
    <3> QED
      BY <3>1 DEF Horizon!IInv, Horizon!PromotionIsEarned
  <2> QED
    BY <2>1, <2>2
<1>11. CASE Horizon!Promoted \/ Horizon!Demoted
  <2>a. v1' # v1
    BY <1>1, <1>5, <1>11
  <2>b. v9' = IF Horizon!Good /\ v1' = v1 /\ v1 # Top THEN v9 + Horizon!FreshInWindow ELSE 0
    BY DEF Horizon!Judge
  <2>1. /\ v4'.successes = 0 /\ v9' = 0
    BY <1>4, <1>11, <2>a, <2>b
  <2>2. \A i \in 1..Len(v2') : i > NumEnvs - 1 => v2'[i].at = v1'
    BY <1>1, <1>2
  <2>3. NumEnvs - 1 \in 0..(NumEnvs - 1) /\ Window * v4'.successes = 0
    BY <1>1, <1>8, <2>1
  <2>4. Horizon!OldAtTheHead(NumEnvs - 1)'
    BY <2>2 DEF Horizon!OldAtTheHead
  <2>5. v9' >= Window * v4'.successes + (NumEnvs - 1) - (NumEnvs - 1)
    BY <1>1, <2>1, <2>3
  <2>6. v4'.successes < Required
    BY <1>1, <2>1
  <2> QED
    BY <1>10, <2>3, <2>4, <2>5, <2>6 DEF Horizon!StreakIsFresh
<1>12. CASE ~Horizon!Promoted /\ ~Horizon!Demoted
  <2>1. v1' = v1 /\ v4'.successes = Horizon!Tallied.successes
    BY <1>4, <1>5, <1>12
  <2>2. Horizon!OldAtTheHead(r)'
    BY <1>7, <2>1 DEF Horizon!OldAtTheHead
  <2>3. v1 # Top => v4'.successes < Required
    BY <1>1, <1>4, <1>12, <2>1 DEF Horizon!Promoted
  <2>4. v1 # Top => v9' >= Window * v4'.successes + r - (NumEnvs - 1)
    <3>1. CASE v1 # Top /\ Horizon!Good /\ Horizon!Tallied.successes = v4.successes + 1
      <4>1. v9' = v9 + Horizon!FreshInWindow
        BY <2>1, <3>1 DEF Horizon!Judge
      <4> QED
        BY <1>8, <1>9, <2>1, <3>1, <4>1
    <3>2. CASE v1 # Top /\ Horizon!Tallied.successes = 0
      <4>1. v9' = 0 \/ v9' = v9 + Horizon!FreshInWindow
        BY DEF Horizon!Judge
      <4>2. v9' \in Nat
        BY <1>1, <4>1
      <4> QED
        BY <1>1, <1>7, <1>8, <2>1, <3>2, <4>2
    <3> QED
      BY <1>1, <1>4, <1>6, <3>1, <3>2
  <2> QED
    BY <1>7, <1>10, <2>1, <2>2, <2>3, <2>4 DEF Horizon!StreakIsFresh, Horizon!OldAtTheHead
<1> QED
  BY <1>10, <1>11, <1>12

LEMMA HorizonJudgeKeeps == ASSUME Horizon!IInv, Horizon!Judge PROVE Horizon!IInv'
<1>1. /\ v8 = "judging" /\ Len(v2) >= Window /\ Len(v2) \in Nat
      /\ v1 \in 0..Top /\ Top \in Nat /\ Window \in Nat \ {0} /\ NumEnvs \in Nat
      /\ Horizon!Timeouts \in Nat /\ Horizon!FreshInWindow \in Nat /\ v9 \in Nat /\ v10 \in Nat
      /\ v5 \in Int
  BY HorizonWindowCounts, HorizonParameters DEF Horizon!IInv, Horizon!Types, Horizon!TypeOK,
     Horizon!QueueIsDrained, Horizon!Judge
<1>2. /\ v2' \in Seq(Horizon!Outcome) /\ v3' \in Seq(BOOLEAN)
      /\ Len(v3') = Len(v2') /\ Len(v2') <= NumEnvs - 1
      /\ Len(v2') \in Nat
  <2>1. /\ v2' = SubSeq(v2, Window + 1, Len(v2))
        /\ v3' = SubSeq(v3, Window + 1, Len(v3))
    BY DEF Horizon!Judge
  <2>2. /\ v2' \in Seq(Horizon!Outcome) /\ v3' \in Seq(BOOLEAN)
        /\ Len(v3') = Len(v2') /\ Len(v2') <= NumEnvs - 1
    BY <1>1, <2>1, HorizonQueueMovesUp
  <2> QED
    BY <2>2
<1>3. /\ v4' \in [successes : 0..Required, failures : 0..RequiredFailures,
                      windows : 0..MinDwell]
  BY HorizonTalliedIs DEF Horizon!Judge
<1>4. v1' \in 0..Top
  <2>1. v1' = CASE Horizon!Promoted -> v1 + 1 [] Horizon!Demoted -> v1 - 1 [] OTHER -> v1
    BY DEF Horizon!Judge
  <2>2. CASE Horizon!Promoted
    BY <1>1, <2>1, <2>2 DEF Horizon!Promoted, Horizon!Demoted
  <2>3. CASE Horizon!Demoted
    BY <1>1, <2>1, <2>3 DEF Horizon!Promoted, Horizon!Demoted
  <2>4. CASE ~Horizon!Promoted /\ ~Horizon!Demoted
    BY <1>1, <2>1, <2>4
  <2> QED
    BY <2>2, <2>3, <2>4
<1>5. /\ v6' \in BOOLEAN /\ (v1' = Top => v6')
  <2>1. v6 \in BOOLEAN /\ v6' = (v6 \/ v1' = Top)
    BY DEF Horizon!IInv, Horizon!Types, Horizon!Judge
  <2> QED
    BY <2>1
<1>6. v9' \in Nat /\ v10' \in Nat
  BY <1>1 DEF Horizon!Judge
<1>7. v5' \in Int /\ v5 <= v5' /\ (~Horizon!Better => v5' = v5) /\ v7' = v7
  BY <1>1 DEF Horizon!Judge, Horizon!Better
<1>8. v8' = IF Horizon!Better THEN "replacing" ELSE IF Len(v2') >= Window THEN "judging" ELSE "rolling"
  BY DEF Horizon!Judge, Horizon!Rolling
<1>9. Horizon!Types'
  BY <1>1, <1>2, <1>3, <1>4, <1>5, <1>6, <1>7, <1>8 DEF Horizon!IInv, Horizon!Types,
     Horizon!TypeOK
<1>10. Horizon!QueueIsDrained'
  BY <1>1, <1>2, <1>8 DEF Horizon!QueueIsDrained
<1>11. Horizon!CandidateIsStaged'
  <2>1. /\ v7.checkpoint \in Int /\ v7.metadata \in Int
        /\ v7.metadata <= v7.checkpoint /\ v7.checkpoint <= v5 /\ v7.metadata = v5
    BY <1>1 DEF Horizon!IInv, Horizon!Types, Horizon!CandidateIsStaged
  <2> QED
    BY <1>1, <1>5, <1>7, <1>8, <2>1 DEF Horizon!CandidateIsStaged
<1> QED
  BY <1>9, <1>10, <1>11, HorizonStreakGrows DEF Horizon!IInv

LEMMA HorizonStepPreserves == ASSUME Horizon!IInv, [Horizon!Next]_Horizon!vars PROVE Horizon!IInv'
<1>1. ASSUME UNCHANGED <<v1, v2, v4, v9, v10>>
      PROVE  Horizon!StreakIsFresh' /\ Horizon!PromotionIsEarned'
  BY <1>1 DEF Horizon!IInv, Horizon!StreakIsFresh, Horizon!OldAtTheHead,
     Horizon!PromotionIsEarned
<1>2. /\ v5 \in Int /\ v7 \in [checkpoint : Int, metadata : Int]
      /\ v7.metadata <= v7.checkpoint /\ v7.checkpoint <= v5
      /\ v1 = Top => v6
      /\ Len(v2) \in Nat /\ Window \in Nat
  BY HorizonParameters DEF Horizon!IInv, Horizon!Types, Horizon!CandidateIsStaged
<1>3. CASE Horizon!ReplaceCheckpoint
  <2>1. /\ v7' = [v7 EXCEPT !.checkpoint = v5] /\ v8' = "describing"
        /\ UNCHANGED <<v1, v2, v3, v4, v5, v6, v9, v10>>
    BY <1>3 DEF Horizon!ReplaceCheckpoint
  <2>2. /\ v7' \in [checkpoint : Int, metadata : Int]
        /\ v7'.checkpoint = v5 /\ v7'.metadata = v7.metadata
    BY <1>2, <2>1
  <2>3. Horizon!Types' /\ Horizon!QueueIsDrained'
    BY <2>1, <2>2 DEF Horizon!IInv, Horizon!Types, Horizon!TypeOK, Horizon!QueueIsDrained
  <2>4. Horizon!CandidateIsStaged'
    BY <1>2, <2>1, <2>2 DEF Horizon!CandidateIsStaged
  <2> QED
    BY <1>1, <2>1, <2>3, <2>4 DEF Horizon!IInv
<1>4. CASE Horizon!ReplaceMetadata
  <2>1. /\ v7' = [v7 EXCEPT !.metadata = v5] /\ v8 = "describing"
        /\ v8' = IF Len(v2) >= Window THEN "judging" ELSE "rolling"
        /\ UNCHANGED <<v1, v2, v3, v4, v5, v6, v9, v10>>
    BY <1>4 DEF Horizon!ReplaceMetadata, Horizon!Rolling
  <2>2. /\ v7' \in [checkpoint : Int, metadata : Int]
        /\ v7'.checkpoint = v7.checkpoint /\ v7'.metadata = v5
        /\ v7.checkpoint = v5
    BY <1>2, <2>1 DEF Horizon!IInv, Horizon!CandidateIsStaged
  <2>3. Horizon!Types' /\ Horizon!QueueIsDrained'
    BY <1>2, <2>1, <2>2 DEF Horizon!IInv, Horizon!Types, Horizon!TypeOK,
       Horizon!QueueIsDrained
  <2>4. Horizon!CandidateIsStaged'
    BY <1>2, <2>1, <2>2 DEF Horizon!CandidateIsStaged
  <2> QED
    BY <1>1, <2>1, <2>3, <2>4 DEF Horizon!IInv
<1>5. CASE Horizon!Crash
  <2>1. /\ v8' = "crashed"
        /\ UNCHANGED <<v1, v2, v3, v4, v5, v6, v7, v9, v10>>
    BY <1>5 DEF Horizon!Crash
  <2>2. Horizon!Types' /\ Horizon!QueueIsDrained'
    BY <2>1 DEF Horizon!IInv, Horizon!Types, Horizon!TypeOK, Horizon!QueueIsDrained
  <2>3. Horizon!CandidateIsStaged'
    BY <1>2, <2>1 DEF Horizon!CandidateIsStaged
  <2> QED
    BY <1>1, <2>1, <2>2, <2>3 DEF Horizon!IInv
<1>6. CASE UNCHANGED Horizon!vars
  <2>1. UNCHANGED <<v1, v2, v3, v4, v5, v6, v7, v8, v9, v10>>
    BY <1>6 DEF Horizon!vars
  <2>2. Horizon!Types' /\ Horizon!QueueIsDrained' /\ Horizon!CandidateIsStaged'
    BY <2>1 DEF Horizon!IInv, Horizon!Types, Horizon!TypeOK, Horizon!QueueIsDrained,
       Horizon!CandidateIsStaged
  <2> QED
    BY <1>1, <2>1, <2>2 DEF Horizon!IInv
<1> QED
  BY <1>3, <1>4, <1>5, <1>6, HorizonStepKeeps, HorizonJudgeKeeps DEF Horizon!Next

\* Between the renames the files are ordered; when both are done they are the best.
LEMMA HorizonPromotionsHold == ASSUME Horizon!IInv PROVE Horizon!PromotionIsEarned /\ Horizon!CandidateIsTheBest
<1>1. v7.checkpoint \in Int /\ v7.metadata \in Int /\ v5 \in Int
  BY DEF Horizon!IInv, Horizon!Types
<1> QED
  BY <1>1 DEF Horizon!IInv, Horizon!CandidateIsStaged, Horizon!CandidateIsTheBest

-----------------------------------------------------------------------------
\* Jump (JumpAttempt): a request, its attempt and its landing.
\* Variables: v1 requests, v2 jump, v3 jumped.

LEMMA JumpInitIInv == ASSUME Jump!Init PROVE Jump!IInv
BY JumpParameters
DEF Jump!Init, Jump!Idle, Jump!NoEvent, Jump!IInv, Jump!Types, Jump!Attempts, Jump!Shown,
   Jump!Phases, Jump!RequestsSeenOnce, Jump!OneTakeoff,
    Jump!LandingsShown, Jump!PhasesInOrder, Jump!Pace

LEMMA JumpIInvHolds == ASSUME Jump!IInv PROVE Jump!RequestsSeenOnce /\ Jump!OneTakeoff /\ Jump!CalmRobotFinishes
<1>1. Jump!RequestsSeenOnce /\ Jump!OneTakeoff
  BY DEF Jump!IInv
<1>2. CASE v2.active
  <2>1. v2.phase \in Jump!Phases \ {"idle"} /\ (v2.phase = "flight" => v2.airborne)
    BY <1>2 DEF Jump!IInv, Jump!Types, Jump!Attempts, Jump!OneTakeoff
  <2>2. Jump!Pace(v2, v3.calm)
    BY DEF Jump!IInv
  <2>3. v2.time \in Nat /\ v2.stable \in Nat /\ v3.calm \in Nat
    BY DEF Jump!IInv, Jump!Types, Jump!Attempts, Jump!Shown
  <2>4. v3.calm <= Jump!Longest
    BY <2>1, <2>2, <2>3, JumpParameters DEF Jump!Pace, Jump!Phases, Jump!Longest
  <2> QED
    BY <1>1, <2>4 DEF Jump!CalmRobotFinishes
<1> QED
  BY <1>1, <1>2 DEF Jump!CalmRobotFinishes

-----------------------------------------------------------------------------
\* The steps of update_jump_state, one after the other, on an attempt j.

LEMMA JumpEnterIs ==
  ASSUME NEW j \in Jump!Attempts, NEW phase \in Jump!Phases
  PROVE  LET k == Jump!Enter(j, phase) IN
         /\ k \in Jump!Attempts /\ k.phase = phase /\ k.time = 0
         /\ k.supported = j.supported /\ k.airborne = j.airborne /\ k.active = j.active
         /\ k.takenOff = j.takenOff /\ k.hadSupport = j.hadSupport /\ k.seen = j.seen
         /\ k.stable = j.stable /\ k.event = j.event
BY DEF Jump!Enter, Jump!Attempts

LEMMA JumpBeginIs ==
  ASSUME NEW j \in Jump!Attempts, NEW contact
  PROVE  LET k == Jump!Begin(j, contact) IN
         /\ k \in Jump!Attempts /\ k.airborne = j.airborne /\ k.seen = j.seen
         /\ Jump!NewRequest(j) => /\ k.active /\ k.phase = "crouch" /\ k.time = 0
                             /\ ~k.takenOff /\ k.stable = 0
         /\ ~Jump!NewRequest(j) => /\ k.active = j.active /\ k.phase = j.phase
                              /\ k.takenOff = j.takenOff /\ k.stable = j.stable
                              /\ k.time = IF j.active /\ j.time < ThrustSteps
                                          THEN j.time + 1 ELSE j.time
<1>1. CASE Jump!NewRequest(j)
  <2> DEFINE e == Jump!Enter(j, "crouch")
             k == [e EXCEPT !.active = TRUE, !.takenOff = FALSE, !.stable = 0,
                            !.hadSupport = j.supported \/ contact = "both"]
  <2>1. /\ e \in Jump!Attempts /\ e.airborne = j.airborne /\ e.seen = j.seen
        /\ e.phase = "crouch" /\ e.time = 0
    BY JumpEnterIs DEF Jump!Phases
  <2>2. (j.supported \/ contact = "both") \in BOOLEAN
    BY DEF Jump!Attempts
  <2> HIDE DEF e
  <2>3. /\ k \in Jump!Attempts /\ k.airborne = e.airborne /\ k.seen = e.seen
        /\ k.active /\ k.phase = e.phase /\ k.time = e.time /\ ~k.takenOff /\ k.stable = 0
    BY <2>1, <2>2 DEF Jump!Attempts
  <2>4. Jump!Begin(j, contact) = k
    BY <1>1 DEF Jump!Begin, e
  <2> HIDE DEF k
  <2> QED
    BY <1>1, <2>1, <2>3, <2>4
<1>2. CASE ~Jump!NewRequest(j)
  <2> DEFINE t == IF j.active /\ j.time < ThrustSteps THEN j.time + 1 ELSE j.time
  <2>1. t \in Nat
    BY JumpParameters DEF Jump!Attempts
  <2> HIDE DEF t
  <2>2. Jump!Begin(j, contact) = [j EXCEPT !.time = t]
    BY <1>2 DEF Jump!Begin, Jump!Attempts, t
  <2> QED
    BY <1>2, <2>1, <2>2 DEF Jump!Attempts, t
<1> QED
  BY <1>1, <1>2

LEMMA JumpStartedIs ==
  ASSUME NEW j \in Jump!Attempts, NEW contact, v1 \in Nat
  PROVE  LET k == Jump!Started(j, contact)
             b == Jump!Begin(j, contact) IN
         /\ k \in Jump!Attempts /\ k.airborne = b.airborne /\ k.seen = v1
         /\ k.active = b.active /\ k.phase = b.phase /\ k.time = b.time
         /\ k.takenOff = b.takenOff /\ k.stable = b.stable
<1> DEFINE c == Jump!Begin(j, contact)
           b == [c EXCEPT !.seen = v1]
<1>1. c \in Jump!Attempts
  BY JumpBeginIs
<1> HIDE DEF c
<1>2. /\ b \in Jump!Attempts /\ b.airborne = c.airborne /\ b.seen = v1
      /\ b.active = c.active /\ b.phase = c.phase /\ b.time = c.time
      /\ b.takenOff = c.takenOff /\ b.stable = c.stable
  BY <1>1 DEF Jump!Attempts
<1> HIDE DEF b
<1> DEFINE s == b.hadSupport \/ (b.active /\ contact = "both")
<1>3. s \in BOOLEAN
  BY <1>2 DEF Jump!Attempts
<1>4. Jump!Started(j, contact) = [b EXCEPT !.hadSupport = s]
  BY DEF Jump!Started, b, c
<1> HIDE DEF s
<1> QED
  BY <1>2, <1>3, <1>4 DEF c, Jump!Attempts

LEMMA JumpCrouchedIs ==
  ASSUME NEW j \in Jump!Attempts
  PROVE  LET k == Jump!Crouched(j)
             ends == j.active /\ j.phase = "crouch" /\ j.time >= CrouchSteps IN
         /\ k \in Jump!Attempts /\ k.airborne = j.airborne /\ k.seen = j.seen
         /\ k.active = j.active /\ k.takenOff = j.takenOff /\ k.stable = j.stable
         /\ k.phase = (IF ends THEN "thrust" ELSE j.phase)
         /\ k.time = (IF ends THEN 0 ELSE j.time)
BY JumpEnterIs DEF Jump!Crouched, Jump!Phases

LEMMA JumpContactedIs ==
  ASSUME NEW j \in Jump!Attempts, NEW contact
  PROVE  LET k == Jump!Contacted(j, contact) IN
         /\ k \in Jump!Attempts /\ k.airborne = j.airborne /\ k.seen = j.seen
         /\ k.active = j.active /\ k.stable = j.stable
         /\ k.event.takeoff <=> Jump!TakesOff(j, contact)
         /\ k.event.landing <=> Jump!Lands(j, contact)
         /\ Jump!TakesOff(j, contact) => k.phase = "flight" /\ k.time = 0 /\ k.takenOff
         /\ ~Jump!TakesOff(j, contact) =>
              /\ k.takenOff = j.takenOff
              /\ Jump!Lands(j, contact) => k.phase = "landing" /\ k.time = 0
              /\ ~Jump!Lands(j, contact) => k.phase = j.phase /\ k.time = j.time
<1> DEFINE v == [takeoff |-> Jump!TakesOff(j, contact), landing |-> Jump!Lands(j, contact),
                 recovered |-> FALSE]
           e == [j EXCEPT !.event = v]
<1>1. /\ v \in [takeoff : BOOLEAN, landing : BOOLEAN, recovered : BOOLEAN]
      /\ (v.takeoff <=> Jump!TakesOff(j, contact)) /\ (v.landing <=> Jump!Lands(j, contact))
  BY DEF Jump!TakesOff, Jump!Lands, Jump!Attempts
<1> HIDE DEF v
<1>2. /\ e \in Jump!Attempts /\ e.airborne = j.airborne /\ e.seen = j.seen
      /\ e.active = j.active /\ e.stable = j.stable /\ e.event = v
      /\ e.takenOff = j.takenOff /\ e.phase = j.phase /\ e.time = j.time
  BY <1>1 DEF Jump!Attempts
<1> HIDE DEF e
<1>3. CASE Jump!TakesOff(j, contact)
  <2> DEFINE f == Jump!Enter(e, "flight")
  <2>1. /\ f \in Jump!Attempts /\ f.airborne = j.airborne /\ f.seen = j.seen
        /\ f.active = j.active /\ f.stable = j.stable /\ f.event = v
        /\ f.phase = "flight" /\ f.time = 0
    BY <1>2, JumpEnterIs DEF Jump!Phases
  <2>2. Jump!Contacted(j, contact) = [f EXCEPT !.takenOff = TRUE]
    BY <1>3 DEF Jump!Contacted, e, v
  <2> HIDE DEF f
  <2>3. LET k == [f EXCEPT !.takenOff = TRUE] IN
        /\ k \in Jump!Attempts /\ k.airborne = f.airborne /\ k.seen = f.seen
        /\ k.active = f.active /\ k.stable = f.stable /\ k.event = f.event
        /\ k.phase = f.phase /\ k.time = f.time /\ k.takenOff
    BY <2>1 DEF Jump!Attempts
  <2> QED
    BY <1>1, <1>3, <2>1, <2>2, <2>3
<1>4. CASE ~Jump!TakesOff(j, contact) /\ Jump!Lands(j, contact)
  <2> DEFINE f == Jump!Enter(e, "landing")
  <2>1. /\ f \in Jump!Attempts /\ f.airborne = j.airborne /\ f.seen = j.seen
        /\ f.active = j.active /\ f.stable = j.stable /\ f.event = v
        /\ f.takenOff = j.takenOff /\ f.phase = "landing" /\ f.time = 0
    BY <1>2, JumpEnterIs DEF Jump!Phases
  <2>2. Jump!Contacted(j, contact) = f
    BY <1>4 DEF Jump!Contacted, e, v
  <2> HIDE DEF f
  <2> QED
    BY <1>1, <1>4, <2>1, <2>2
<1>5. CASE ~Jump!TakesOff(j, contact) /\ ~Jump!Lands(j, contact)
  <2>1. Jump!Contacted(j, contact) = e
    BY <1>5 DEF Jump!Contacted, e, v
  <2> QED
    BY <1>1, <1>2, <1>5, <2>1
<1> QED
  BY <1>3, <1>4, <1>5

LEMMA JumpSettledIs ==
  ASSUME NEW j \in Jump!Attempts
  PROVE  LET k == Jump!Settled(j)
             ends == j.active /\ j.phase = "landing" /\ j.time >= LandingSteps IN
         /\ k \in Jump!Attempts /\ k.airborne = j.airborne /\ k.seen = j.seen
         /\ k.active = j.active /\ k.takenOff = j.takenOff /\ k.stable = j.stable
         /\ k.event = j.event
         /\ k.phase = (IF ends THEN "recovery" ELSE j.phase)
         /\ k.time = (IF ends THEN 0 ELSE j.time)
BY JumpEnterIs DEF Jump!Settled, Jump!Phases

LEMMA JumpRecoveringIs ==
  ASSUME NEW j \in Jump!Attempts, NEW calm
  PROVE  LET k == Jump!Recovering(j, calm) IN
         /\ k \in Jump!Attempts /\ k.airborne = j.airborne /\ k.seen = j.seen
         /\ k.active = j.active /\ k.takenOff = j.takenOff /\ k.event = j.event
         /\ k.phase = j.phase /\ k.time = j.time
         /\ k.stable = IF j.active /\ j.phase = "recovery" /\ calm
                       THEN IF j.stable < RecoverySteps THEN j.stable + 1 ELSE j.stable
                       ELSE 0
<1> DEFINE s == IF j.active /\ j.phase = "recovery" /\ calm
                THEN IF j.stable < RecoverySteps THEN j.stable + 1 ELSE j.stable
                ELSE 0
<1>1. s \in Nat
  BY JumpParameters DEF Jump!Attempts
<1> HIDE DEF s
<1>2. Jump!Recovering(j, calm) = [j EXCEPT !.stable = s]
  BY DEF Jump!Recovering, Jump!Attempts, s
<1>3. LET k == [j EXCEPT !.stable = s] IN
      /\ k \in Jump!Attempts /\ k.airborne = j.airborne /\ k.seen = j.seen
      /\ k.active = j.active /\ k.takenOff = j.takenOff /\ k.event = j.event
      /\ k.phase = j.phase /\ k.time = j.time /\ k.stable = s
  BY <1>1 DEF Jump!Attempts
<1> QED
  BY <1>2, <1>3 DEF s

Recovered(j) == j.active /\ j.phase = "recovery" /\ j.stable >= RecoverySteps
Failed(j) == j.active /\ ~j.takenOff /\ j.phase = "thrust" /\ j.time >= ThrustSteps

LEMMA JumpFinishedIs ==
  ASSUME NEW j \in Jump!Attempts
  PROVE  LET k == Jump!Finished(j) IN
         /\ k \in Jump!Attempts /\ k.seen = j.seen /\ k.airborne = j.airborne
         /\ k.takenOff = j.takenOff /\ k.stable = j.stable
         /\ k.event.takeoff = j.event.takeoff /\ k.event.landing = j.event.landing
         /\ k.event.recovered = Recovered(j)
         /\ Recovered(j) \/ Failed(j) => ~k.active /\ k.phase = "idle"
         /\ ~(Recovered(j) \/ Failed(j)) =>
              k.active = j.active /\ k.phase = j.phase /\ k.time = j.time
<1> DEFINE v == [j.event EXCEPT !.recovered = Recovered(j)]
           e == [j EXCEPT !.event.recovered = Recovered(j)]
           f == Jump!Enter(e, "idle")
<1>1. /\ v \in [takeoff : BOOLEAN, landing : BOOLEAN, recovered : BOOLEAN]
      /\ v.takeoff = j.event.takeoff /\ v.landing = j.event.landing
      /\ v.recovered = Recovered(j)
  BY DEF Recovered, Jump!Attempts
<1>2. e = [j EXCEPT !.event = v]
  BY DEF Jump!Attempts
<1> HIDE DEF v, e
<1>3. /\ e \in Jump!Attempts /\ e.seen = j.seen /\ e.airborne = j.airborne
      /\ e.active = j.active /\ e.phase = j.phase /\ e.time = j.time
      /\ e.takenOff = j.takenOff /\ e.stable = j.stable /\ e.event = v
  BY <1>1, <1>2 DEF Jump!Attempts
<1>4. CASE Recovered(j) \/ Failed(j)
  <2>1. /\ f \in Jump!Attempts /\ f.seen = j.seen /\ f.airborne = j.airborne
        /\ f.takenOff = j.takenOff /\ f.stable = j.stable /\ f.event = v
        /\ f.phase = "idle"
    BY <1>3, JumpEnterIs DEF Jump!Phases
  <2>2. Jump!Finished(j) = [f EXCEPT !.active = FALSE, !.hadSupport = FALSE]
    BY <1>4 DEF Jump!Finished, e, f, Recovered, Failed
  <2> HIDE DEF f
  <2>3. LET k == [f EXCEPT !.active = FALSE, !.hadSupport = FALSE] IN
        /\ k \in Jump!Attempts /\ k.seen = f.seen /\ k.airborne = f.airborne
        /\ k.takenOff = f.takenOff /\ k.stable = f.stable /\ k.event = f.event
        /\ k.phase = f.phase /\ ~k.active
    BY <2>1 DEF Jump!Attempts
  <2> QED
    BY <1>1, <1>4, <2>1, <2>2, <2>3
<1>5. CASE ~(Recovered(j) \/ Failed(j))
  <2>1. Jump!Finished(j) = e
    BY <1>5 DEF Jump!Finished, e, Recovered, Failed
  <2> QED
    BY <1>1, <1>3, <1>5, <2>1
<1> QED
  BY <1>4, <1>5

LEMMA JumpContactsAreKept ==
  ASSUME NEW j \in Jump!Attempts, NEW contact
  PROVE  LET k == [j EXCEPT !.supported = contact = "both", !.airborne = contact = "none"] IN
         /\ k \in Jump!Attempts /\ k.seen = j.seen /\ (k.airborne <=> contact = "none")
         /\ k.takenOff = j.takenOff /\ k.stable = j.stable /\ k.event = j.event
         /\ k.active = j.active /\ k.phase = j.phase /\ k.time = j.time
BY DEF Jump!Attempts

-----------------------------------------------------------------------------
\* What the calls before update_jump_state have shown of the attempt it goes on with.
Before == IF Jump!NewRequest(v2) THEN [attempts |-> v3.attempts + 1, takeoffs |-> 0,
                                    landings |-> 0, calm |-> 0]
          ELSE v3
One(e) == IF e THEN 1 ELSE 0

LEMMA JumpShownIs ==
  ASSUME v3 \in Jump!Shown, NEW contact, NEW calm \in BOOLEAN, Jump!Step(contact, calm)
  PROVE  /\ Before \in Jump!Shown
         /\ Jump!NewRequest(v2) => /\ Before.attempts = v3.attempts + 1 /\ Before.takeoffs = 0
                                /\ Before.landings = 0 /\ Before.calm = 0
         /\ ~Jump!NewRequest(v2) => Before = v3
         /\ v3' \in Jump!Shown
         /\ v3'.attempts = Before.attempts
         /\ v3'.takeoffs = Before.takeoffs + One(v2'.event.takeoff)
         /\ Before.landings <= v3'.landings
         /\ v2'.event.landing => v3'.landings > 0
         /\ v3'.calm <= IF calm THEN Before.calm + 1 ELSE 0
<1>1. /\ Before \in Jump!Shown
      /\ Jump!NewRequest(v2) => /\ Before.attempts = v3.attempts + 1 /\ Before.takeoffs = 0
                             /\ Before.landings = 0 /\ Before.calm = 0
      /\ ~Jump!NewRequest(v2) => Before = v3
  BY DEF Before, Jump!Shown
<1> DEFINE t == Before.takeoffs + One(v2'.event.takeoff)
           l == IF Before.landings < 2 THEN Before.landings + One(v2'.event.landing)
                ELSE Before.landings
           c == IF ~calm THEN 0 ELSE IF Before.calm > Jump!Longest THEN Before.calm
                                ELSE Before.calm + 1
           p == [Before EXCEPT !.takeoffs = t]
           q == [p EXCEPT !.landings = l]
<1>2. /\ t \in Nat /\ l \in Nat /\ c \in Nat
      /\ Before.landings <= l /\ (v2'.event.landing => l > 0)
      /\ c <= IF calm THEN Before.calm + 1 ELSE 0
  BY <1>1 DEF Jump!Shown, One
<1>3. v3' = [Before EXCEPT !.takeoffs = t, !.landings = l, !.calm = c]
  BY <1>1 DEF Jump!Step, Before, One, Jump!Shown
<1> HIDE DEF t, l, c
<1>4. LET r == [Before EXCEPT !.takeoffs = t, !.landings = l, !.calm = c] IN
      /\ r \in Jump!Shown /\ r.attempts = Before.attempts /\ r.takeoffs = t
      /\ r.landings = l /\ r.calm = c
  BY <1>1, <1>2 DEF Jump!Shown
<1> QED
  BY <1>1, <1>2, <1>3, <1>4 DEF t

LEMMA JumpStepKeeps ==
  ASSUME Jump!IInv, NEW contact \in Jump!Contacts, NEW calm \in BOOLEAN, Jump!Step(contact, calm)
  PROVE  Jump!IInv' /\ Jump!RecoveredHasLanded
<1> DEFINE b  == Jump!Begin(v2, contact)
           j1 == Jump!Started(v2, contact)
           j2 == Jump!Crouched(j1)
           j3 == Jump!Contacted(j2, contact)
           j4 == Jump!Settled(j3)
           j5 == Jump!Recovering(j4, calm)
           j6 == Jump!Finished(j5)
<1>1. /\ v2' = [j6 EXCEPT !.supported = contact = "both", !.airborne = contact = "none"]
      /\ v1' = v1 /\ (calm => contact = "both")
  BY DEF Jump!Step, Jump!Updated
<1>2. j1 \in Jump!Attempts /\ j2 \in Jump!Attempts /\ j3 \in Jump!Attempts
  BY JumpStartedIs, JumpCrouchedIs, JumpContactedIs DEF Jump!IInv, Jump!Types
<1>3. j4 \in Jump!Attempts /\ j5 \in Jump!Attempts /\ j6 \in Jump!Attempts /\ v2' \in Jump!Attempts
  BY <1>1, <1>2, JumpSettledIs, JumpRecoveringIs, JumpFinishedIs, JumpContactsAreKept
<1> HIDE DEF j1, j2, j3, j4, j5, j6
<1>4. /\ v3 \in Jump!Shown /\ v3' \in Jump!Shown /\ Before \in Jump!Shown
      /\ v3.takeoffs \in Nat /\ v3.landings \in Nat /\ v3.calm \in Nat
      /\ v3'.takeoffs \in Nat /\ v3'.landings \in Nat /\ v3'.calm \in Nat
      /\ Before.takeoffs \in Nat /\ Before.landings \in Nat /\ Before.calm \in Nat
  BY JumpShownIs DEF Jump!IInv, Jump!Types, Jump!Shown
\* The attempt j as the calls leave it, while the counters are still those of Before.
<1> DEFINE Held(j) ==
             /\ j.active <=> j.phase # "idle"
             /\ j.active => /\ Before.takeoffs <= 1
                            /\ j.takenOff <=> Before.takeoffs = 1
                            /\ j.phase = "flight" => j.airborne /\ j.takenOff
             /\ Jump!PhasesInOrder(j, Before.landings)
           \* one step later in its phase than the steps it was calm in
           Due(j) ==
             /\ j.airborne => Before.calm = 0 /\ (j.active => j.stable = 0)
             /\ j.active /\ j.phase \notin {"flight", "recovery"} => j.stable = 0
             /\ j.phase = "crouch" => j.time <= CrouchSteps /\ Before.calm <= j.time
             /\ j.phase = "thrust" => j.time <= ThrustSteps
                                      /\ Before.calm <= CrouchSteps + j.time
             /\ j.phase = "landing" => j.time <= LandingSteps /\ Before.calm <= j.time
             /\ j.phase = "recovery" => Before.calm <= LandingSteps + j.stable
<1>5. Held(j1) /\ Due(j1)
  <2>1. /\ j1.airborne = b.airborne /\ j1.active = b.active /\ j1.phase = b.phase
        /\ j1.time = b.time /\ j1.takenOff = b.takenOff /\ j1.stable = b.stable
    BY JumpStartedIs DEF Jump!IInv, Jump!Types, j1
  <2>2. CASE Jump!NewRequest(v2)
    <3>1. /\ j1.active /\ j1.phase = "crouch" /\ j1.time = 0 /\ ~j1.takenOff
          /\ j1.stable = 0 /\ Before.takeoffs = 0 /\ Before.calm = 0
      BY <2>1, <2>2, JumpBeginIs, JumpShownIs DEF Jump!IInv, Jump!Types
    <3> QED
      BY <3>1, JumpParameters DEF Jump!PhasesInOrder
  <2>3. CASE ~Jump!NewRequest(v2)
    <3>1. /\ j1.active = v2.active /\ j1.phase = v2.phase
          /\ j1.takenOff = v2.takenOff /\ j1.stable = v2.stable
          /\ j1.airborne = v2.airborne /\ Before = v3
          /\ j1.time = IF v2.active /\ v2.time < ThrustSteps
                       THEN v2.time + 1 ELSE v2.time
      BY <2>1, <2>3, JumpBeginIs, JumpShownIs DEF Jump!IInv, Jump!Types
    <3>2. v2.time \in Nat /\ v2.stable \in Nat
      BY DEF Jump!IInv, Jump!Types, Jump!Attempts
    <3>3. Held(j1)
      BY <3>1 DEF Jump!IInv, Jump!OneTakeoff, Jump!LandingsShown, Jump!PhasesInOrder
    <3>4. Due(j1)
      BY <3>1, <3>2, <1>4, JumpParameters DEF Jump!IInv, Jump!Pace, Jump!OneTakeoff
    <3> QED
      BY <3>3, <3>4
  <2> QED
    BY <2>2, <2>3
<1>6. Held(j2) /\ Due(j2) /\ (j2.phase = "crouch" => j2.time < CrouchSteps)
  <2>1. LET ends == j1.active /\ j1.phase = "crouch" /\ j1.time >= CrouchSteps IN
        /\ j2.airborne = j1.airborne /\ j2.active = j1.active
        /\ j2.takenOff = j1.takenOff /\ j2.stable = j1.stable
        /\ j2.phase = (IF ends THEN "thrust" ELSE j1.phase)
        /\ j2.time = (IF ends THEN 0 ELSE j1.time)
    BY <1>2, JumpCrouchedIs DEF j2
  <2>2. j1.time \in Nat /\ j1.stable \in Nat
    BY <1>2 DEF Jump!Attempts
  <2>3. Held(j2)
    BY <2>1, <1>5 DEF Jump!PhasesInOrder
  <2> QED
    BY <2>1, <2>2, <2>3, <1>4, <1>5, JumpParameters
\* From here on the counters of takeoffs and landings are those of this step.
<1> DEFINE Went(j) ==
             /\ j.active <=> j.phase # "idle"
             /\ j.active => /\ v3'.takeoffs <= 1
                            /\ j.takenOff <=> v3'.takeoffs = 1
                            /\ j.phase = "flight" => contact = "none" /\ j.takenOff
             /\ Jump!PhasesInOrder(j, v3'.landings)
<1>7. /\ v2'.event.takeoff = j3.event.takeoff /\ v2'.event.landing = j3.event.landing
      /\ j5.event = j3.event
  <2>1. j4.event = j3.event /\ j5.event = j4.event
    BY <1>2, <1>3, JumpSettledIs, JumpRecoveringIs DEF j4, j5
  <2>2. j6.event.takeoff = j5.event.takeoff /\ j6.event.landing = j5.event.landing
    BY <1>3, JumpFinishedIs DEF j6
  <2>3. v2'.event = j6.event
    BY <1>1, <1>3, JumpContactsAreKept
  <2> QED
    BY <2>1, <2>2, <2>3
<1>8. /\ Went(j3) /\ Due(j3)
      /\ (j3.phase = "crouch" => j3.time < CrouchSteps)
      /\ (Jump!TakesOff(j2, contact) \/ Jump!Lands(j2, contact) \/ j3.phase = j2.phase)
  <2>1. /\ j3.airborne = j2.airborne /\ j3.active = j2.active /\ j3.stable = j2.stable
        /\ j3.event.takeoff <=> Jump!TakesOff(j2, contact)
        /\ j3.event.landing <=> Jump!Lands(j2, contact)
        /\ Jump!TakesOff(j2, contact) => j3.phase = "flight" /\ j3.time = 0 /\ j3.takenOff
        /\ ~Jump!TakesOff(j2, contact) =>
              /\ j3.takenOff = j2.takenOff
              /\ Jump!Lands(j2, contact) => j3.phase = "landing" /\ j3.time = 0
              /\ ~Jump!Lands(j2, contact) => j3.phase = j2.phase /\ j3.time = j2.time
    BY <1>2, JumpContactedIs DEF j3
  <2>2. /\ v3'.takeoffs = Before.takeoffs + One(j3.event.takeoff)
        /\ Before.landings <= v3'.landings
        /\ j3.event.landing => v3'.landings > 0
    BY <1>7, JumpShownIs DEF Jump!IInv, Jump!Types
  <2>3. j2.time \in Nat /\ j2.stable \in Nat
    BY <1>2 DEF Jump!Attempts
  <2>4. CASE Jump!TakesOff(j2, contact)
    <3>1. /\ j2.active /\ ~j2.takenOff /\ ~j2.airborne /\ contact = "none"
      BY <2>4 DEF Jump!TakesOff
    <3>2. ~j2.takenOff => Before.takeoffs = 0
      BY <3>1, <1>4, <1>6
    <3>3. j3.event.takeoff /\ v3'.takeoffs = 1
      BY <2>1, <2>2, <2>4, <3>1, <3>2, <1>4 DEF One
    <3>4. j3.active /\ j3.takenOff /\ j3.phase = "flight" /\ ~j3.airborne
      BY <2>1, <2>4, <3>1
    <3>5. Went(j3)
      BY <3>1, <3>3, <3>4 DEF Jump!PhasesInOrder
    <3>6. Due(j3)
      BY <2>1, <3>1, <3>4, <1>6
    <3> QED
      BY <2>4, <3>4, <3>5, <3>6
  <2>5. CASE ~Jump!TakesOff(j2, contact) /\ Jump!Lands(j2, contact)
    <3>1. j2.active /\ j2.airborne /\ contact # "none"
      BY <2>5 DEF Jump!Lands
    <3>2. v3'.takeoffs = Before.takeoffs
      BY <2>1, <2>2, <2>5, <1>4 DEF One
    <3>3. j3.event.landing /\ v3'.landings > 0
      BY <2>1, <2>2, <2>5
    <3>4. /\ j3.active /\ j3.phase = "landing" /\ j3.time = 0 /\ j3.takenOff = j2.takenOff
          /\ j2.stable = 0
      BY <2>1, <2>5, <3>1, <1>6
    <3>5. Went(j3)
      BY <3>1, <3>2, <3>3, <3>4, <1>6 DEF Jump!PhasesInOrder
    <3>6. Due(j3)
      BY <2>1, <3>1, <3>4, <1>4, <1>6, JumpParameters
    <3> QED
      BY <2>5, <3>4, <3>5, <3>6
  <2>6. CASE ~Jump!TakesOff(j2, contact) /\ ~Jump!Lands(j2, contact)
    <3>1. v3'.takeoffs = Before.takeoffs
      BY <2>1, <2>2, <2>6, <1>4 DEF One
    <3>2. j2.active /\ j2.airborne => contact = "none"
      BY <2>6 DEF Jump!Lands
    <3> QED
      BY <2>1, <2>2, <2>3, <2>6, <3>1, <3>2, <1>4, <1>6 DEF Jump!PhasesInOrder
  <2> QED
    BY <2>4, <2>5, <2>6
<1>9. /\ Went(j4) /\ Due(j4)
      /\ (j4.phase = "crouch" => j4.time < CrouchSteps)
      /\ (j4.phase = "landing" => j4.time < LandingSteps)
  <2>1. LET ends == j3.active /\ j3.phase = "landing" /\ j3.time >= LandingSteps IN
        /\ j4.airborne = j3.airborne /\ j4.active = j3.active
        /\ j4.takenOff = j3.takenOff /\ j4.stable = j3.stable
        /\ j4.phase = (IF ends THEN "recovery" ELSE j3.phase)
        /\ j4.time = (IF ends THEN 0 ELSE j3.time)
    BY <1>2, JumpSettledIs DEF j4
  <2>2. j3.time \in Nat /\ j3.stable \in Nat
    BY <1>2 DEF Jump!Attempts
  <2>3. Went(j4)
    BY <2>1, <1>8 DEF Jump!PhasesInOrder
  <2> QED
    BY <2>1, <2>2, <2>3, <1>4, <1>8, JumpParameters
<1>10. /\ Went(j5)
       /\ j5.active /\ j5.phase # "recovery" => j5.stable = 0
       /\ contact = "none" => v3'.calm = 0 /\ j5.stable = 0
       /\ j5.phase = "crouch" => j5.time < CrouchSteps /\ v3'.calm <= j5.time + 1
       /\ j5.phase = "thrust" => j5.time <= ThrustSteps
                                 /\ v3'.calm <= CrouchSteps + j5.time + 1
       /\ j5.phase = "landing" => j5.time < LandingSteps /\ v3'.calm <= j5.time + 1
       /\ j5.phase = "recovery" =>
            j5.stable >= RecoverySteps \/ v3'.calm <= LandingSteps + j5.stable
  <2>1. /\ j5.active = j4.active /\ j5.takenOff = j4.takenOff
        /\ j5.phase = j4.phase /\ j5.time = j4.time
        /\ j5.stable = IF j4.active /\ j4.phase = "recovery" /\ calm
                       THEN IF j4.stable < RecoverySteps THEN j4.stable + 1 ELSE j4.stable
                       ELSE 0
    BY <1>3, JumpRecoveringIs DEF j5
  <2>2. v3'.calm <= IF calm THEN Before.calm + 1 ELSE 0
    BY JumpShownIs DEF Jump!IInv, Jump!Types
  <2>3. j4.time \in Nat /\ j4.stable \in Nat
    BY <1>3 DEF Jump!Attempts
  <2>4. Went(j5)
    BY <2>1, <1>9 DEF Jump!PhasesInOrder
  <2>5. j5.phase # "idle" => j4.active
    BY <2>1, <1>9
  <2>6. j5.phase = "recovery" =>
          j5.stable >= RecoverySteps \/ v3'.calm <= LandingSteps + j5.stable
    BY <2>1, <2>2, <2>3, <2>5, <1>4, <1>9, JumpParameters
  <2>7. /\ j5.phase = "crouch" => j5.time < CrouchSteps /\ v3'.calm <= j5.time + 1
        /\ j5.phase = "thrust" => j5.time <= ThrustSteps
                                  /\ v3'.calm <= CrouchSteps + j5.time + 1
        /\ j5.phase = "landing" => j5.time < LandingSteps /\ v3'.calm <= j5.time + 1
    BY <2>1, <2>2, <2>3, <1>4, <1>9, JumpParameters
  <2>8. contact = "none" => v3'.calm = 0 /\ j5.stable = 0
    BY <2>1, <2>2, <1>1, <1>4
  <2> QED
    BY <2>1, <2>4, <2>6, <2>7, <2>8
<1>11. /\ v2'.active = j6.active /\ v2'.phase = j6.phase /\ v2'.time = j6.time
       /\ v2'.takenOff = j6.takenOff /\ v2'.stable = j6.stable
       /\ v2'.event = j6.event /\ v2'.seen = j6.seen
       /\ (v2'.airborne <=> contact = "none")
  BY <1>1, <1>3, JumpContactsAreKept
<1>12. /\ j6.takenOff = j5.takenOff /\ j6.stable = j5.stable
       /\ j6.event.recovered = Recovered(j5)
       /\ Recovered(j5) \/ Failed(j5) => ~j6.active /\ j6.phase = "idle"
       /\ ~(Recovered(j5) \/ Failed(j5)) =>
            j6.active = j5.active /\ j6.phase = j5.phase /\ j6.time = j5.time
  BY <1>3, JumpFinishedIs DEF j6
<1>13. v2'.seen = v1
  <2>1. j1.seen = v1
    BY JumpStartedIs DEF Jump!IInv, Jump!Types, j1
  <2>2. j2.seen = j1.seen /\ j3.seen = j2.seen
    BY <1>2, JumpCrouchedIs, JumpContactedIs DEF j2, j3
  <2>3. j4.seen = j3.seen /\ j5.seen = j4.seen /\ j6.seen = j5.seen
    BY <1>2, <1>3, JumpSettledIs, JumpRecoveringIs, JumpFinishedIs DEF j4, j5, j6
  <2> QED
    BY <1>11, <2>1, <2>2, <2>3
<1>14. Jump!Types'
  BY <1>1, <1>3, <1>4 DEF Jump!IInv, Jump!Types
<1>15. Jump!RequestsSeenOnce'
  <2>1. /\ v1 \in Nat /\ v2.seen \in Nat /\ v3.attempts \in Nat
        /\ v2.seen <= v1
        /\ v3.attempts + (v1 - v2.seen) <= v1
    BY DEF Jump!IInv, Jump!Types, Jump!Attempts, Jump!Shown, Jump!RequestsSeenOnce
  <2>2. /\ Jump!NewRequest(v2) => v3'.attempts = v3.attempts + 1
        /\ ~Jump!NewRequest(v2) => v3'.attempts = v3.attempts
    BY JumpShownIs DEF Jump!IInv, Jump!Types
  <2>3. Jump!NewRequest(v2) => v1 # v2.seen
    BY DEF Jump!NewRequest
  <2> QED
    BY <2>1, <2>2, <2>3, <1>1, <1>13 DEF Jump!RequestsSeenOnce
<1>16. Jump!OneTakeoff'
  BY <1>10, <1>11, <1>12 DEF Jump!OneTakeoff, Recovered, Failed
<1>17. Jump!LandingsShown'
  <2>1. Jump!PhasesInOrder(v2', v3'.landings)
    BY <1>10, <1>11, <1>12 DEF Jump!PhasesInOrder, Recovered, Failed
  <2>2. v2'.event.recovered => v3'.landings > 0
    BY <1>10, <1>11, <1>12 DEF Jump!PhasesInOrder, Recovered
  <2> QED
    BY <2>1, <2>2 DEF Jump!LandingsShown, Jump!PhasesInOrder
<1>18. Jump!Pace(v2, v3.calm)'
  <2>1. /\ v2'.time \in Nat /\ v2'.stable \in Nat /\ j5.time \in Nat
        /\ j5.stable \in Nat
    BY <1>3 DEF Jump!Attempts
  <2>2. v2'.active => ~Recovered(j5) /\ ~Failed(j5)
    BY <1>11, <1>12
  <2>3. v2'.phase # "idle" => v2'.active
    BY <1>16 DEF Jump!OneTakeoff
  <2>4. j5.phase = "thrust" => j5.active /\ ~j5.takenOff
    BY <1>10 DEF Jump!PhasesInOrder
  <2>5. j5.phase = "recovery" => j5.active
    BY <1>10
  <2>6. CASE ~v2'.active
    <3>1. v2'.phase = "idle"
      BY <2>3, <2>6
    <3> QED
      BY <2>6, <3>1, <1>10, <1>11 DEF Jump!Pace
  <2>7. CASE v2'.active
    <3>1. /\ v2'.phase = j5.phase /\ v2'.time = j5.time /\ v2'.stable = j5.stable
          /\ j5.active
      BY <2>2, <2>7, <1>11, <1>12
    <3>2. j5.phase = "recovery" => j5.stable < RecoverySteps
      BY <2>1, <2>2, <2>5, <2>7, JumpParameters DEF Recovered
    <3>3. j5.phase = "thrust" => j5.time < ThrustSteps
      BY <2>1, <2>2, <2>4, <2>7, JumpParameters DEF Failed
    <3> QED
      BY <3>1, <3>2, <3>3, <2>1, <1>4, <1>10, <1>11, JumpParameters DEF Jump!Pace
  <2> QED
    BY <2>6, <2>7
<1>19. Jump!RecoveredHasLanded
  <2>1. v2'.event.recovered => v3'.landings > 0
    BY <1>17 DEF Jump!LandingsShown
  <2>2. ASSUME v2.active, ~v2'.active, v3.takeoffs = 1 PROVE v2'.event.recovered
    <3>1. ~Jump!NewRequest(v2) /\ v2.takenOff
      BY <2>2 DEF Jump!NewRequest, Jump!IInv, Jump!OneTakeoff
    <3>2. Before.takeoffs = 1 /\ v3'.takeoffs >= 1
      BY <2>2, <3>1, <1>4, JumpShownIs DEF Jump!IInv, Jump!Types, One
    <3>3. j5.active
      <4>1. j1.active = b.active /\ b.active = v2.active
        BY <3>1, JumpStartedIs, JumpBeginIs DEF j1, Jump!IInv, Jump!Types
      <4>2. j2.active = j1.active /\ j3.active = j2.active
        BY <1>2, JumpCrouchedIs, JumpContactedIs DEF j2, j3
      <4>3. j4.active = j3.active /\ j5.active = j4.active
        BY <1>2, <1>3, JumpSettledIs, JumpRecoveringIs DEF j4, j5
      <4> QED
        BY <2>2, <4>1, <4>2, <4>3
    <3>4. j5.takenOff
      BY <3>2, <3>3, <1>4, <1>10
    <3> QED
      BY <2>2, <3>3, <3>4, <1>11, <1>12 DEF Failed
  <2> QED
    BY <2>1, <2>2 DEF Jump!RecoveredHasLanded
<1> QED
  BY <1>14, <1>15, <1>16, <1>17, <1>18, <1>19 DEF Jump!IInv

LEMMA JumpStepPreserves == ASSUME Jump!IInv, [Jump!Next]_Jump!vars PROVE Jump!IInv' /\ Jump!RecoveredHasLanded
<1>1. CASE Jump!Request
  <2>1. v1 \in Nat /\ v1' = v1 + 1 /\ UNCHANGED <<v2, v3>>
    BY <1>1 DEF Jump!Request, Jump!IInv, Jump!Types
  <2>2. Jump!RequestsSeenOnce'
    BY <2>1 DEF Jump!IInv, Jump!Types, Jump!Attempts, Jump!Shown, Jump!RequestsSeenOnce
  <2>3. Jump!IInv'
    BY <2>1, <2>2 DEF Jump!IInv, Jump!Types, Jump!OneTakeoff, Jump!LandingsShown,
       Jump!PhasesInOrder, Jump!Pace
  <2>4. Jump!RecoveredHasLanded
    BY <2>1 DEF Jump!RecoveredHasLanded, Jump!IInv, Jump!LandingsShown
  <2> QED
    BY <2>3, <2>4
<1>2. CASE Jump!Reset
  <2>1. v2' = Jump!Idle /\ UNCHANGED <<v1, v3>>
    BY <1>2 DEF Jump!Reset
  <2>2. /\ v2' \in Jump!Attempts /\ v2'.seen = v1 /\ ~v2'.active
        /\ v2'.phase = "idle" /\ ~v2'.event.recovered /\ ~v2'.airborne
    BY <2>1 DEF Jump!Idle, Jump!NoEvent, Jump!Attempts, Jump!Phases, Jump!IInv, Jump!Types
  <2>3. Jump!Types' /\ Jump!RequestsSeenOnce'
    BY <2>1, <2>2 DEF Jump!IInv, Jump!Types, Jump!Attempts, Jump!Shown, Jump!RequestsSeenOnce
  <2>4. Jump!IInv'
    BY <2>1, <2>2, <2>3 DEF Jump!IInv, Jump!OneTakeoff, Jump!LandingsShown,
       Jump!PhasesInOrder, Jump!Pace
  <2>5. Jump!RecoveredHasLanded
    BY <2>1, <2>2 DEF Jump!RecoveredHasLanded
  <2> QED
    BY <2>4, <2>5
<1>3. ASSUME NEW contact \in Jump!Contacts, NEW calm \in BOOLEAN, Jump!Step(contact, calm)
      PROVE  Jump!IInv' /\ Jump!RecoveredHasLanded
  BY <1>3, JumpStepKeeps
<1>4. CASE UNCHANGED Jump!vars
  <2>1. UNCHANGED <<v1, v2, v3>>
    BY <1>4 DEF Jump!vars
  <2> QED
    BY <2>1 DEF Jump!IInv, Jump!Types, Jump!RequestsSeenOnce, Jump!OneTakeoff,
       Jump!LandingsShown, Jump!PhasesInOrder, Jump!Pace,
                Jump!RecoveredHasLanded
<1> QED
  BY <1>1, <1>2, <1>3, <1>4 DEF Jump!Next

-----------------------------------------------------------------------------
\* Slot (EvaluationSlot): the counters of a slot are the windows that its rollout ends
\* with.
\* Variables: v1 scenario, v2 step, v3 active, v4 success, v5 reason, v6 episodeSteps,
\*   v7 pending, v8 waypoint, v9 settling, v10 recovery, v11 rollout.

\* Finite sets, in the instance and in the library.
LEMMA SlotFinite ==
  \A S : (Slot!IsFiniteSet(S) <=> IsFiniteSet(S)) /\ Slot!Cardinality(S) = Cardinality(S)
BY Zenon DEF Slot!IsFiniteSet, IsFiniteSet, Slot!Cardinality, Cardinality

\* A slot that runs has no reason.
LEMMA SlotUndecidedIs ==
  Slot!Undecided \notin {"nonfinite", "horizon", "early_timeout", "backend_timeout"}
BY Zenon DEF Slot!Undecided

LEMMA SlotScenarioIs ==
  ASSUME Slot!IInv
  PROVE  /\ v1.horizon \in 1..MaxHorizon /\ v1.issued \subseteq Nat
         /\ v1.pushEnd \in {Slot!Never} \cup 1..MaxHorizon
         /\ IsFiniteSet(v1.issued)
         /\ Len(v11) \in Nat /\ v2 \in Nat /\ Len(v11) <= v2
<1>1. v1 \in Slot!Scenarios
  BY DEF Slot!IInv, Slot!Types
<1>2. /\ v1.horizon \in 1..MaxHorizon
      /\ v1.issued \in SUBSET (0..(MaxHorizon - 1))
      /\ v1.pushEnd \in {Slot!Never} \cup 1..MaxHorizon
  BY <1>1 DEF Slot!Scenarios
<1>3. IsFiniteSet(0..(MaxHorizon - 1))
  BY FS_Interval, SlotParameters
<1>4. IsFiniteSet(v1.issued)
  BY <1>2, <1>3, FS_Subset
<1>5. Len(v11) \in Nat /\ v2 \in Nat /\ Len(v11) <= v2
  <2>1. /\ v11 \in Seq(Slot!Shown) /\ v2 \in 0..MaxHorizon
        /\ Len(v11) = v6 /\ v6 <= v2
    BY DEF Slot!IInv, Slot!Types
  <2>2. Len(v11) \in Nat
    BY <2>1, LenProperties
  <2> QED
    BY <2>1, <2>2, SlotParameters
<1> QED
  BY <1>2, <1>4, <1>5, SlotParameters

-----------------------------------------------------------------------------
\* What one more sample makes of the windows and of the samples counted at the end.
LEMMA SlotGrown ==
  ASSUME v11 \in Seq(Slot!Shown), NEW x \in Slot!Shown, v11' = Append(v11, x)
  PROVE  /\ Len(v11) \in Nat /\ Len(v11') = Len(v11) + 1
         /\ v11' \in Seq(Slot!Shown)
         /\ \A i \in 1..Len(v11) : v11'[i] = v11[i]
         /\ v11'[Len(v11) + 1] = x
<1>1. Len(v11) \in Nat
  OBVIOUS
<1>2. /\ v11' \in Seq(Slot!Shown) /\ Len(v11') = Len(v11) + 1
      /\ \A i \in 1..(Len(v11) + 1) :
           v11'[i] = IF i <= Len(v11) THEN v11[i] ELSE x
  BY AppendProperties
<1> QED
  BY <1>1, <1>2

LEMMA SlotWindowsGrow ==
  ASSUME v11 \in Seq(Slot!Shown), NEW x \in Slot!Shown, v11' = Append(v11, x),
         NEW n \in Nat \ {0}, NEW lo \in Nat, NEW f
  PROVE  /\ Slot!Windows(n, lo, Len(v11), f) \subseteq Slot!Windows(n, lo, Len(v11), f)'
         /\ \A e \in Slot!Windows(n, lo, Len(v11), f)' :
              e \in Slot!Windows(n, lo, Len(v11), f) \/ e = Len(v11) + 1
         /\ \A e \in Slot!Windows(n, lo, Len(v11), f) : e \in Nat /\ e <= Len(v11)
         /\ Len(v11) + 1 \in Slot!Windows(n, lo, Len(v11), f)' <=>
              /\ lo + n <= Len(v11) + 1
              /\ \A i \in 1..(Len(v11) + 1) :
                   i > Len(v11) + 1 - n => v11'[i][f]
<1> DEFINE l == Len(v11)
<1>1. /\ l \in Nat /\ Len(v11') = l + 1
      /\ \A i \in 1..l : v11'[i] = v11[i]
  BY SlotGrown
<1>2. Slot!Windows(n, lo, Len(v11), f) =
        {e \in (lo + n)..l : /\ e - n + 1 >= 1 /\ e <= l
                             /\ \A i \in (e - n + 1)..e : v11[i][f]}
  BY DEF Slot!Windows, Slot!Quiet
<1>3. Slot!Windows(n, lo, Len(v11), f)' =
        {e \in (lo + n)..(l + 1) : /\ e - n + 1 >= 1 /\ e <= l + 1
                                   /\ \A i \in (e - n + 1)..e : v11'[i][f]}
  BY <1>1 DEF Slot!Windows, Slot!Quiet
<1> HIDE DEF l
<1>4. ASSUME NEW e \in (lo + n)..l
      PROVE  (\A i \in (e - n + 1)..e : v11[i][f]) <=>
             (\A i \in (e - n + 1)..e : v11'[i][f])
  <2>1. \A i \in (e - n + 1)..e : i \in 1..l
    BY <1>1
  <2> QED
    BY <1>1, <2>1
<1>5. Slot!Windows(n, lo, Len(v11), f) \subseteq Slot!Windows(n, lo, Len(v11), f)'
  <2> SUFFICES ASSUME NEW e \in (lo + n)..l, e - n + 1 >= 1,
                      \A i \in (e - n + 1)..e : v11[i][f]
               PROVE  e \in Slot!Windows(n, lo, Len(v11), f)'
    BY <1>2
  <2>1. e \in (lo + n)..(l + 1) /\ e <= l + 1
    BY <1>1
  <2> QED
    BY <1>3, <1>4, <2>1
<1>6. \A e \in Slot!Windows(n, lo, Len(v11), f)' :
        e \in Slot!Windows(n, lo, Len(v11), f) \/ e = l + 1
  <2> SUFFICES ASSUME NEW e \in (lo + n)..(l + 1), e # l + 1, e - n + 1 >= 1,
                      \A i \in (e - n + 1)..e : v11'[i][f]
               PROVE  e \in Slot!Windows(n, lo, Len(v11), f)
    BY <1>3
  <2>1. e \in (lo + n)..l /\ e <= l
    BY <1>1
  <2> QED
    BY <1>2, <1>4, <2>1
<1>7. \A e \in Slot!Windows(n, lo, Len(v11), f) : e \in Nat /\ e <= l
  BY <1>1, <1>2
<1>8. l + 1 \in Slot!Windows(n, lo, Len(v11), f)' <=>
        /\ lo + n <= l + 1
        /\ \A i \in 1..(l + 1) : i > l + 1 - n => v11'[i][f]
  <2>1. ASSUME lo + n <= l + 1
        PROVE  \A i : i \in (l + 1 - n + 1)..(l + 1) <=>
                        i \in 1..(l + 1) /\ i > l + 1 - n
    BY <1>1, <2>1
  <2> QED
    BY <1>1, <1>3, <2>1
<1> QED
  BY <1>5, <1>6, <1>7, <1>8 DEF l

LEMMA SlotTrailingGrows ==
  ASSUME v11 \in Seq(Slot!Shown), NEW x \in Slot!Shown, v11' = Append(v11, x),
         NEW c \in Nat, NEW lo \in Nat, NEW f, Slot!AllTrailing(c, lo, f), lo <= Len(v11),
         NEW m, m = IF x[f] THEN c + 1 ELSE 0
  PROVE  /\ m \in Nat
         /\ \A k : k = m => Slot!AllTrailing(k, lo, f)'
         /\ \A n \in Nat \ {0} :
              Len(v11) + 1 \in Slot!Windows(n, lo, Len(v11), f)' <=> m >= n
<1> DEFINE l == Len(v11)
<1>1. /\ l \in Nat /\ Len(v11') = l + 1
      /\ \A i \in 1..l : v11'[i] = v11[i]
      /\ v11'[l + 1] = x
  BY SlotGrown
<1>2. /\ c <= l - lo /\ lo <= l
      /\ \A i \in 1..l : i > l - c => v11[i][f]
      /\ c < l - lo => ~v11[l - c][f]
  BY DEF Slot!AllTrailing, Slot!Trailing
<1> HIDE DEF l
<1>3. m \in Nat /\ m <= (l + 1) - lo
  BY <1>1, <1>2
<1>4. \A i \in 1..(l + 1) : i > (l + 1) - m => v11'[i][f]
  <2> SUFFICES ASSUME NEW i \in 1..(l + 1), i > (l + 1) - m PROVE v11'[i][f]
    OBVIOUS
  <2>1. x[f] /\ m = c + 1
    BY <1>1, <1>3
  <2>2. CASE i = l + 1
    BY <1>1, <2>1, <2>2
  <2>3. CASE i # l + 1
    <3>1. i \in 1..l /\ i > l - c
      BY <1>1, <2>1, <2>3
    <3> QED
      BY <1>1, <1>2, <3>1
  <2> QED
    BY <2>2, <2>3
<1>5. m < (l + 1) - lo => ~v11'[(l + 1) - m][f]
  <2>1. CASE x[f]
    <3>1. m = c + 1 /\ (l + 1) - m = l - c
      BY <1>1, <2>1
    <3>2. ASSUME m < (l + 1) - lo PROVE c < l - lo /\ l - c \in 1..l
      BY <1>1, <3>1, <3>2
    <3> QED
      BY <1>1, <1>2, <3>1, <3>2
  <2>2. CASE ~x[f]
    <3>1. m = 0 /\ (l + 1) - m = l + 1
      BY <1>1, <2>2
    <3> QED
      BY <1>1, <2>2, <3>1
  <2> QED
    BY <2>1, <2>2
<1>6. \A k : k = m => Slot!AllTrailing(k, lo, f)'
  BY <1>1, <1>3, <1>4, <1>5 DEF Slot!AllTrailing, Slot!Trailing
<1>7. ASSUME NEW n \in Nat \ {0}
      PROVE  l + 1 \in Slot!Windows(n, lo, Len(v11), f)' <=> m >= n
  <2>1. l + 1 \in Slot!Windows(n, lo, Len(v11), f)' <=>
          /\ lo + n <= l + 1
          /\ \A i \in 1..(l + 1) : i > l + 1 - n => v11'[i][f]
    BY SlotWindowsGrow DEF l
  <2>2. ASSUME m >= n PROVE lo + n <= l + 1 /\ \A i \in 1..(l + 1) : i > l + 1 - n => v11'[i][f]
    <3>1. \A i \in 1..(l + 1) : i > l + 1 - n => i > (l + 1) - m
      BY <1>1, <1>3, <2>2
    <3>2. \A i \in 1..(l + 1) : i > l + 1 - n => v11'[i][f]
      BY <1>4, <3>1
    <3>3. lo + n <= l + 1
      BY <1>1, <1>3, <2>2
    <3> QED
      BY <3>2, <3>3
  <2>3. ASSUME ~(m >= n), lo + n <= l + 1,
               \A i \in 1..(l + 1) : i > l + 1 - n => v11'[i][f]
        PROVE  FALSE
    <3>1. /\ m < (l + 1) - lo
          /\ (l + 1) - m \in 1..(l + 1) /\ (l + 1) - m > l + 1 - n
      BY <1>1, <1>3, <2>3
    <3> QED
      BY <1>5, <2>3, <3>1
  <2> QED
    BY <2>1, <2>2, <2>3
<1> QED
  BY <1>3, <1>6, <1>7 DEF l

-----------------------------------------------------------------------------
\* A step with the slot still running, by its sample.
LEMMA SlotRunIs ==
  ASSUME Slot!IInv, NEW sample \in Slot!Samples, NEW ending \in Slot!Endings, Slot!Run(sample, ending)
  PROVE  \E x \in Slot!Shown :
           /\ x.fell <=> ending = "fell"
           /\ x["stop"] = sample.stop /\ x["stable"] = sample.stable
           /\ v11' = Append(v11, x) /\ v11 \in Seq(Slot!Shown)
           /\ Slot!Live /\ v2 = Len(v11) /\ Len(v11) \in Nat
<1> DEFINE x == [stop |-> sample.stop, stable |-> sample.stable, fell |-> ending = "fell"]
<1>1. /\ x \in Slot!Shown /\ x["stop"] = sample.stop /\ x["stable"] = sample.stable
      /\ x.fell <=> ending = "fell"
  BY DEF Slot!Shown, Slot!Samples
<1>2. v11' = Append(v11, x) /\ Slot!Live
  BY DEF Slot!Run
<1>3. /\ v11 \in Seq(Slot!Shown) /\ v2 = Len(v11) /\ Len(v11) \in Nat
  BY <1>2, SlotScenarioIs DEF Slot!IInv, Slot!Types, Slot!Verdicts
<1> QED
  BY <1>1, <1>2, <1>3

LEMMA SlotSettlingKeeps ==
  ASSUME Slot!IInv, NEW sample \in Slot!Samples, NEW ending \in Slot!Endings, Slot!Run(sample, ending)
  PROVE  v9' \in Slot!Watch /\ Slot!SettlingCounts'
<1>1. PICK x \in Slot!Shown :
        /\ x["stop"] = sample.stop /\ x["stable"] = sample.stable
        /\ v11' = Append(v11, x) /\ v11 \in Seq(Slot!Shown)
        /\ Slot!Live /\ v2 = Len(v11) /\ Len(v11) \in Nat
  BY SlotRunIs
<1> DEFINE n == IF x["stable"] THEN v9.count + 1 ELSE 0
<1>2. /\ v9 \in Slot!Watch /\ StableSteps \in Nat \ {0} /\ 0 \in Nat
  BY SlotParameters DEF Slot!IInv, Slot!Types
<1>3. v9' = IF v9.done THEN v9
                  ELSE IF n >= StableSteps
                       THEN [count |-> n, done |-> TRUE, at |-> v2 + 1]
                       ELSE [v9 EXCEPT !.count = n]
  BY <1>1 DEF Slot!Run, Slot!Settle
<1>4. /\ Slot!Settled \subseteq Slot!Settled'
      /\ \A e \in Slot!Settled' : e \in Slot!Settled \/ e = Len(v11) + 1
      /\ \A e \in Slot!Settled : e \in Nat /\ e <= Len(v11)
  BY <1>1, <1>2, SlotWindowsGrow DEF Slot!Settled
<1>5. CASE v9.done
  <2>1. /\ v9' = v9 /\ v9.at \in Slot!Settled
        /\ \A e \in Slot!Settled : v9.at <= e
    BY <1>3, <1>5 DEF Slot!IInv, Slot!SettlingCounts
  <2>2. \A e \in Slot!Settled' : v9.at <= e
    BY <1>1, <1>4, <2>1
  <2> QED
    BY <1>2, <1>4, <1>5, <2>1, <2>2 DEF Slot!SettlingCounts
<1>6. CASE ~v9.done
  <2>1. Slot!Settled = {} /\ Slot!AllTrailing(v9.count, 0, "stable") /\ v9.count \in Nat
    BY <1>1, <1>2, <1>6 DEF Slot!IInv, Slot!SettlingCounts, Slot!Watch
  <2>2. /\ n \in Nat /\ \A k : k = n => Slot!AllTrailing(k, 0, "stable")'
        /\ Len(v11) + 1 \in Slot!Settled' <=> n >= StableSteps
    BY <1>1, <1>2, <2>1, SlotTrailingGrows DEF Slot!Settled
  <2> HIDE DEF n
  <2>3. CASE n >= StableSteps
    <3>1. v9' = [count |-> n, done |-> TRUE, at |-> v2 + 1]
      BY <1>3, <1>6, <2>3
    <3>2. v9' \in Slot!Watch /\ v9'.done /\ v9'.at = Len(v11) + 1
      BY <1>1, <2>2, <3>1 DEF Slot!Watch
    <3>3. v9'.at \in Slot!Settled' /\ \A e \in Slot!Settled' : v9'.at <= e
      BY <1>1, <1>4, <2>1, <2>2, <2>3, <3>2
    <3> QED
      BY <3>2, <3>3 DEF Slot!SettlingCounts
  <2>4. CASE ~(n >= StableSteps)
    <3>1. v9' = [v9 EXCEPT !.count = n]
      BY <1>3, <1>6, <2>4
    <3>2. v9' \in Slot!Watch /\ ~v9'.done /\ v9'.count = n
      BY <1>2, <1>6, <2>2, <3>1 DEF Slot!Watch
    <3>3. Slot!Settled' = {}
      BY <1>4, <2>1, <2>2, <2>4
    <3> QED
      BY <2>2, <3>2, <3>3 DEF Slot!SettlingCounts
  <2> QED
    BY <2>3, <2>4
<1> QED
  BY <1>5, <1>6

LEMMA SlotRecoveryKeeps ==
  ASSUME Slot!IInv, NEW sample \in Slot!Samples, NEW ending \in Slot!Endings, Slot!Run(sample, ending)
  PROVE  v10' \in Slot!Watch /\ Slot!RecoveryCounts'
<1>1. PICK x \in Slot!Shown :
        /\ x["stop"] = sample.stop /\ x["stable"] = sample.stable
        /\ v11' = Append(v11, x) /\ v11 \in Seq(Slot!Shown)
        /\ Slot!Live /\ v2 = Len(v11) /\ Len(v11) \in Nat
  BY SlotRunIs
<1>2. /\ v10 \in Slot!Watch /\ StableSteps \in Nat \ {0} /\ 0 \in Nat
      /\ v1.pushEnd \in {Slot!Never} \cup 1..MaxHorizon
      /\ MaxHorizon \in Nat /\ v1' = v1
  BY SlotParameters, SlotScenarioIs DEF Slot!IInv, Slot!Types, Slot!Run
<1>3. v10' =
        IF ~(v1.pushEnd >= 0 /\ v2 >= v1.pushEnd) THEN v10
        ELSE IF ~v10.done /\ (IF x["stable"] THEN v10.count + 1 ELSE 0) >= StableSteps
             THEN [count |-> IF x["stable"] THEN v10.count + 1 ELSE 0, done |-> TRUE,
                   at |-> v2 - StableSteps + 1 - v1.pushEnd]
             ELSE [v10 EXCEPT !.count = IF x["stable"] THEN v10.count + 1 ELSE 0]
  BY <1>1 DEF Slot!Run, Slot!Recover
<1>4. PICK r \in Slot!Watch : r = v10
  BY <1>2
<1>5. PICK n \in Nat : n = IF x["stable"] THEN r.count + 1 ELSE 0
  BY <1>4 DEF Slot!Watch
<1>6. CASE v1.pushEnd = Slot!Never
  <2>1. v10' = v10 /\ ~v10.done
    BY <1>6, <1>3 DEF Slot!IInv, Slot!RecoveryCounts, Slot!Never
  <2> QED
    BY <1>2, <1>6, <2>1 DEF Slot!RecoveryCounts
<1>7. CASE v1.pushEnd # Slot!Never
  <2>1. PICK p \in Nat : p = v1.pushEnd /\ p >= 1
    BY <1>2, <1>7
  <2> DEFINE At(y) == y.at + p + StableSteps
  <2>2. v10' = IF v2 < p THEN r
                    ELSE IF ~r.done /\ n >= StableSteps
                         THEN [count |-> n, done |-> TRUE, at |-> v2 - StableSteps + 1 - p]
                         ELSE [r EXCEPT !.count = n]
    <3>1. ~(p >= 0 /\ v2 >= p) <=> v2 < p
      BY <1>1, <2>1
    <3> QED
      BY <1>4, <1>5, <1>3, <2>1, <3>1
  <2>3. /\ Slot!Recovered \subseteq Slot!Recovered'
        /\ \A e \in Slot!Recovered' : e \in Slot!Recovered \/ e = Len(v11) + 1
        /\ \A e \in Slot!Recovered : e \in Nat /\ e <= Len(v11)
        /\ Len(v11) + 1 \in Slot!Recovered' => p + StableSteps <= Len(v11) + 1
    <3>1. /\ Slot!Recovered = Slot!Windows(StableSteps, p, Len(v11), "stable")
          /\ Slot!Recovered' = Slot!Windows(StableSteps, p, Len(v11), "stable")'
      BY <1>2, <2>1 DEF Slot!Recovered
    <3> QED
      BY <1>1, <1>2, <3>1, SlotWindowsGrow
  <2>4. /\ IF Len(v11) < p THEN r.count = 0 ELSE Slot!AllTrailing(r.count, p, "stable")
        /\ ~r.done => Slot!Recovered = {}
        /\ r.done => At(r) \in Slot!Recovered /\ \A e \in Slot!Recovered : At(r) <= e
    BY <1>1, <1>4, <1>7, <2>1 DEF Slot!IInv, Slot!RecoveryCounts
  <2>5. r.done => At(r) \in Slot!Recovered' /\ \A e \in Slot!Recovered' : At(r) <= e
    BY <1>1, <2>3, <2>4
  <2>6. Len(v11') = Len(v11) + 1 /\ v1'.pushEnd = p /\ Len(v11') \in Nat
    BY <1>1, <1>2, <2>1, SlotGrown
  <2>7. ASSUME NEW y \in Slot!Watch, v10' = y,
               IF Len(v11') < p THEN y.count = 0 ELSE Slot!AllTrailing(y.count, p, "stable")',
               ~y.done => Slot!Recovered' = {},
               y.done => At(y) \in Slot!Recovered' /\ \A e \in Slot!Recovered' : At(y) <= e
        PROVE  v10' \in Slot!Watch /\ Slot!RecoveryCounts'
    BY <1>2, <1>7, <2>1, <2>6, <2>7 DEF Slot!RecoveryCounts
  <2>8. CASE Len(v11) < p
    <3>1. v10' = r /\ r.count = 0
      BY <1>1, <2>2, <2>4, <2>8
    <3>2. Len(v11') < p \/ Slot!AllTrailing(r.count, p, "stable")'
      <4>1. ASSUME ~(Len(v11') < p) PROVE Len(v11') = p
        BY <1>1, <2>1, <2>6, <2>8, <4>1
      <4> QED
        BY <2>1, <2>6, <3>1, <4>1 DEF Slot!AllTrailing, Slot!Trailing
    <3>3. ~r.done => Slot!Recovered' = {}
      BY <1>1, <1>2, <2>1, <2>3, <2>4, <2>8
    <3> QED
      BY <2>5, <2>7, <3>1, <3>2, <3>3
  <2>9. CASE Len(v11) >= p
    <3>1. Slot!AllTrailing(r.count, p, "stable") /\ r.count \in Nat
      BY <1>1, <2>1, <2>4, <2>9 DEF Slot!Watch
    <3>2. /\ Slot!AllTrailing(n, p, "stable")'
          /\ Len(v11) + 1 \in Slot!Recovered' <=> n >= StableSteps
      <4>1. Slot!Recovered' = Slot!Windows(StableSteps, p, Len(v11), "stable")'
        BY <1>2, <2>1 DEF Slot!Recovered
      <4>2. p <= Len(v11)
        BY <1>1, <2>1, <2>9
      <4>3. \A k : k = n => Slot!AllTrailing(k, p, "stable")'
        BY <1>1, <1>5, <3>1, <4>2, SlotTrailingGrows
      <4>4. Len(v11) + 1 \in Slot!Windows(StableSteps, p, Len(v11), "stable")' <=> n >= StableSteps
        BY <1>1, <1>2, <1>5, <3>1, <4>2, SlotTrailingGrows
      <4> QED
        BY <4>1, <4>3, <4>4
    <3>3. Len(v11') >= p
      BY <1>1, <2>1, <2>6, <2>9
    <3>4. CASE ~r.done /\ n >= StableSteps
      <4>1. v10' = [count |-> n, done |-> TRUE, at |-> v2 - StableSteps + 1 - p]
        BY <1>1, <2>1, <2>2, <2>9, <3>4
      <4>2. PICK y \in Slot!Watch : /\ v10' = y /\ y.count = n /\ y.done
                               /\ At(y) = Len(v11) + 1
        <5> DEFINE z == [count |-> n, done |-> TRUE, at |-> v2 - StableSteps + 1 - p]
        <5>1. z \in Slot!Watch /\ z.count = n /\ z.done /\ z.at = v2 - StableSteps + 1 - p
          BY <1>1, <1>2, <2>1 DEF Slot!Watch
        <5> HIDE DEF z
        <5>2. At(z) = Len(v11) + 1
          BY <1>1, <1>2, <2>1, <5>1
        <5> QED
          BY <4>1, <5>1, <5>2 DEF z
      <4>3. \A e \in Slot!Recovered' : e = Len(v11) + 1
        BY <2>3, <2>4, <3>4
      <4>4. At(y) \in Slot!Recovered' /\ \A e \in Slot!Recovered' : At(y) <= e
        BY <1>1, <3>2, <3>4, <4>2, <4>3
      <4>5. Slot!AllTrailing(y.count, p, "stable")'
        BY <3>2, <4>2
      <4> QED
        BY <1>1, <2>1, <2>6, <2>7, <3>3, <4>2, <4>4, <4>5
    <3>5. CASE ~(~r.done /\ n >= StableSteps)
      <4>1. v10' = [r EXCEPT !.count = n]
        BY <1>1, <2>1, <2>2, <2>9, <3>5
      <4>2. PICK y \in Slot!Watch : /\ v10' = y /\ y.count = n /\ y.done = r.done
                               /\ At(y) = At(r)
        BY <4>1 DEF Slot!Watch
      <4>3. ~y.done => Slot!Recovered' = {}
        BY <2>3, <2>4, <3>2, <3>5, <4>2
      <4>4. Slot!AllTrailing(y.count, p, "stable")'
        BY <3>2, <4>2
      <4>5. y.done => At(y) \in Slot!Recovered' /\ \A e \in Slot!Recovered' : At(y) <= e
        BY <2>5, <4>2
      <4> QED
        BY <1>1, <2>1, <2>6, <2>7, <3>3, <4>2, <4>3, <4>4, <4>5
    <3> QED
      BY <3>4, <3>5
  <2> QED
    BY <1>1, <2>1, <2>8, <2>9
<1> QED
  BY <1>6, <1>7

-----------------------------------------------------------------------------
\* The counted waypoints are those that were held, the current one included.
LEMMA SlotHeldAreCounted ==
  ASSUME Slot!IInv
  PROVE  /\ IsFiniteSet(Slot!HeldWaypoints) /\ Slot!HeldWaypoints \subseteq v1.issued
         /\ Slot!CompletedCount = Cardinality(Slot!HeldWaypoints)
         /\ \A w \in Slot!HeldWaypoints : w < Len(v11)
<1>1. Slot!HeldWaypoints \in SUBSET v1.issued
  BY DEF Slot!HeldWaypoints
<1>2. IsFiniteSet(Slot!HeldWaypoints)
  BY <1>1, FS_Subset, SlotScenarioIs
<1>3. \A w \in Slot!HeldWaypoints : w < Len(v11)
  <2> SUFFICES ASSUME NEW w \in Slot!HeldWaypoints PROVE w < Len(v11)
    OBVIOUS
  <2>1. PICK e \in Slot!Windows(DwellSteps, w, Len(v11), "stop") : TRUE
    BY DEF Slot!HeldWaypoints
  <2>2. e \in (w + DwellSteps)..Len(v11)
    BY <2>1 DEF Slot!Windows
  <2>3. w \in Nat /\ Len(v11) \in Nat /\ DwellSteps \in Nat \ {0}
    BY <1>1, SlotScenarioIs, SlotParameters
  <2> QED
    BY <2>2, <2>3
<1>4. Slot!CompletedCount = Cardinality(Slot!HeldWaypoints)
  <2>1. v8.completed \in Nat /\ v8.active \in BOOLEAN /\ v8.confirmed \in BOOLEAN
    BY DEF Slot!IInv, Slot!Types
  <2>2. CASE ~v8.active /\ v8.completed = 0 /\ \A v \in v1.issued : v >= v2
    <3>1. Slot!HeldWaypoints = {}
      <4>1. \A w \in Slot!HeldWaypoints : w >= v2 /\ w \in Nat
        BY <1>1, <2>2, SlotScenarioIs
      <4> QED
        BY <1>3, <4>1, SlotScenarioIs
    <3>2. Cardinality(Slot!HeldWaypoints) = 0
      BY <3>1, FS_EmptySet
    <3> QED
      BY <2>2, <3>2, SlotFinite DEF Slot!CompletedCount
  <2>3. CASE \E c \in v1.issued : Slot!CountsFor(c)
    <3>1. PICK c \in v1.issued : Slot!CountsFor(c)
      BY <2>3
    <3>2. /\ v8.active /\ (v8.confirmed <=> c \in Slot!HeldWaypoints)
          /\ v8.completed = Cardinality(Slot!HeldWaypoints \ {c})
      BY <3>1, SlotFinite DEF Slot!CountsFor
    <3>3. Cardinality(Slot!HeldWaypoints \ {c}) =
            IF c \in Slot!HeldWaypoints THEN Cardinality(Slot!HeldWaypoints) - 1 ELSE Cardinality(Slot!HeldWaypoints)
      BY <1>2, FS_RemoveElement
    <3>4. Cardinality(Slot!HeldWaypoints) \in Nat
      BY <1>2, FS_CardinalityType
    <3> QED
      BY <2>1, <3>2, <3>3, <3>4 DEF Slot!CompletedCount
  <2> QED
    BY <2>2, <2>3 DEF Slot!IInv, Slot!WaypointCounts
<1> QED
  BY <1>1, <1>2, <1>3, <1>4

\* What the counters say of waypoint c, or of none, once the command of this
\* iteration has been taken.
LEMMA SlotIssueCounts ==
  ASSUME Slot!IInv, NEW w, w = Slot!Issue(v8)
  PROVE  /\ w \in [active : BOOLEAN, confirmed : BOOLEAN, completed : Nat, dwell : Nat]
         /\ Slot!Trailing(w.dwell, 0, "stop")
         /\ \/ /\ ~w.active /\ w.completed = 0 /\ w.dwell = 0
               /\ \A v \in v1.issued : v >= v2 + 1
            \/ \E c \in v1.issued :
                 /\ c <= v2 /\ \A v \in v1.issued : v < v2 + 1 => v <= c
                 /\ w.active /\ (w.confirmed <=> c \in Slot!HeldWaypoints)
                 /\ w.completed = Cardinality(Slot!HeldWaypoints \ {c})
                 /\ Slot!Live => Slot!AllTrailing(w.dwell, c, "stop")
<1>1. /\ v8 \in [active : BOOLEAN, confirmed : BOOLEAN, completed : Nat, dwell : Nat]
      /\ v2 \in Nat /\ Len(v11) \in Nat /\ Len(v11) <= v2
      /\ v1.issued \subseteq Nat
      /\ Slot!Live => Len(v11) = v2
  BY SlotScenarioIs DEF Slot!IInv, Slot!Types, Slot!Verdicts
<1>2. CASE v2 \in v1.issued
  <2>1. w = [active |-> TRUE, confirmed |-> FALSE, dwell |-> 0, completed |-> Slot!CompletedCount]
    BY <1>2 DEF Slot!Issue, Slot!CompletedCount
  <2>2. /\ Slot!CompletedCount = Cardinality(Slot!HeldWaypoints) /\ Slot!CompletedCount \in Nat
        /\ v2 \notin Slot!HeldWaypoints
    BY <1>1, SlotHeldAreCounted, FS_CardinalityType
  <2>3. Slot!HeldWaypoints \ {v2} = Slot!HeldWaypoints
    BY <2>2
  <2>4. /\ w \in [active : BOOLEAN, confirmed : BOOLEAN, completed : Nat, dwell : Nat]
        /\ w.active /\ ~w.confirmed /\ w.dwell = 0
        /\ w.completed = Cardinality(Slot!HeldWaypoints \ {v2})
    BY <2>1, <2>2, <2>3
  <2>5. /\ Slot!Trailing(0, 0, "stop") /\ (Slot!Live => Slot!AllTrailing(0, v2, "stop"))
    BY <1>1 DEF Slot!Trailing, Slot!AllTrailing
  <2>6. v2 <= v2 /\ \A v \in v1.issued : v < v2 + 1 => v <= v2
    BY <1>1
  <2> QED
    BY <1>2, <2>2, <2>4, <2>5, <2>6
<1>3. CASE v2 \notin v1.issued
  <2>1. w = v8
    BY <1>3 DEF Slot!Issue
  <2>2. \A v \in v1.issued : (v >= v2 => v >= v2 + 1) /\ (v < v2 + 1 => v < v2)
    BY <1>1, <1>3
  <2>3. ASSUME NEW c \in v1.issued, Slot!CountsFor(c)
        PROVE  /\ c <= v2 /\ \A v \in v1.issued : v < v2 + 1 => v <= c
               /\ w.active /\ (w.confirmed <=> c \in Slot!HeldWaypoints)
               /\ w.completed = Cardinality(Slot!HeldWaypoints \ {c})
               /\ Slot!Live => Slot!AllTrailing(w.dwell, c, "stop")
    <3>1. c \in Nat /\ c < v2
      BY <1>1, <2>3 DEF Slot!CountsFor
    <3> QED
      BY <1>1, <2>1, <2>2, <2>3, <3>1, SlotFinite DEF Slot!CountsFor
  <2>4. Slot!Trailing(w.dwell, 0, "stop")
    BY <2>1 DEF Slot!IInv, Slot!WaypointCounts
  <2> QED
    BY <1>1, <2>1, <2>2, <2>3, <2>4 DEF Slot!IInv, Slot!WaypointCounts
<1> QED
  BY <1>2, <1>3

\* The sample changes nothing of the earlier waypoints, nor of those to come.
LEMMA SlotOnlyCurrentIsHeld ==
  ASSUME Slot!IInv, NEW x \in Slot!Shown, v11' = Append(v11, x), v1' = v1,
         v2 = Len(v11), NEW c \in v1.issued, c <= v2,
         \A v \in v1.issued : v < v2 + 1 => v <= c
  PROVE  /\ Slot!HeldWaypoints' \ {c} = Slot!HeldWaypoints \ {c}
         /\ c \in Slot!HeldWaypoints' <=>
              \/ c \in Slot!HeldWaypoints
              \/ Len(v11) + 1 \in Slot!Windows(DwellSteps, c, Len(v11), "stop")'
<1> DEFINE l == Len(v11)
           W(w) == Slot!Windows(DwellSteps, w, Len(v11), "stop")
<1>1. /\ v11 \in Seq(Slot!Shown) /\ DwellSteps \in Nat \ {0} /\ l \in Nat
      /\ v1.issued \subseteq Nat
  BY SlotScenarioIs, SlotParameters DEF Slot!IInv, Slot!Types
<1>2. ASSUME NEW w \in Nat
      PROVE  /\ W(w) \subseteq W(w)'
             /\ \A e \in W(w)' : e \in W(w) \/ e = l + 1
             /\ \A e \in W(w) : e \in Nat /\ e <= l
             /\ l + 1 \in W(w)' => w + DwellSteps <= l + 1
  BY <1>1, SlotWindowsGrow
<1>3. /\ Slot!HeldWaypoints =
            {w \in v1.issued : \E e \in W(w) : \A v \in v1.issued : v > w => e <= v}
      /\ Slot!HeldWaypoints' =
            {w \in v1.issued : \E e \in W(w)' : \A v \in v1.issued : v > w => e <= v}
  BY DEF Slot!HeldWaypoints
<1> HIDE DEF W, l
<1>4. ASSUME NEW w \in v1.issued, w # c
      PROVE  w \in Slot!HeldWaypoints' <=> w \in Slot!HeldWaypoints
  <2>1. w \in Nat /\ c \in Nat /\ v2 = l
    BY <1>1 DEF l
  <2>2. CASE w < c
    <3>1. ASSUME NEW e \in W(w)', e <= c PROVE e \in W(w)
      BY <1>1, <1>2, <2>1, <3>1
    <3> QED
      BY <1>2, <1>3, <2>1, <2>2, <3>1
  <2>3. CASE w > c
    <3>1. w >= l + 1
      BY <1>1, <2>1, <2>3
    <3>2. l + 1 \notin W(w)'
      BY <1>1, <1>2, <2>1, <3>1
    <3> QED
      BY <1>2, <1>3, <2>1, <3>2
  <2> QED
    BY <1>4, <2>1, <2>2, <2>3
<1>5. c \in Slot!HeldWaypoints' <=> c \in Slot!HeldWaypoints \/ l + 1 \in W(c)'
  <2>1. c \in Nat /\ v2 = l
    BY <1>1 DEF l
  <2>2. \A v \in v1.issued : v > c => l + 1 <= v
    BY <1>1, <2>1
  <2> QED
    BY <1>2, <1>3, <2>1, <2>2
<1>6. Slot!HeldWaypoints \subseteq v1.issued /\ Slot!HeldWaypoints' \subseteq v1.issued
  BY <1>3
<1> QED
  BY <1>4, <1>5, <1>6 DEF W, l

LEMMA SlotWaypointsKeep ==
  ASSUME Slot!IInv, NEW sample \in Slot!Samples, NEW ending \in Slot!Endings, Slot!Run(sample, ending)
  PROVE  /\ v8' \in [active : BOOLEAN, confirmed : BOOLEAN, completed : Nat, dwell : Nat]
         /\ Slot!WaypointCounts'
<1>1. PICK x \in Slot!Shown :
        /\ x["stop"] = sample.stop /\ x["stable"] = sample.stable
        /\ v11' = Append(v11, x) /\ v11 \in Seq(Slot!Shown)
        /\ Slot!Live /\ v2 = Len(v11) /\ Len(v11) \in Nat
  BY SlotRunIs
<1>2. /\ v1' = v1 /\ v2' = v2 + 1 /\ v1.issued \subseteq Nat
      /\ DwellSteps \in Nat \ {0} /\ Len(v11') = Len(v11) + 1
  BY <1>1, SlotScenarioIs, SlotParameters, SlotGrown DEF Slot!Run
<1>3. PICK w : w = Slot!Issue(v8)
  OBVIOUS
<1> DEFINE WType == [active : BOOLEAN, confirmed : BOOLEAN, completed : Nat, dwell : Nat]
<1>4. /\ w \in WType
      /\ \/ /\ ~w.active /\ w.completed = 0 /\ w.dwell = 0
            /\ \A v \in v1.issued : v >= v2 + 1
         \/ \E c \in v1.issued :
              /\ c <= v2 /\ \A v \in v1.issued : v < v2 + 1 => v <= c
              /\ w.active /\ (w.confirmed <=> c \in Slot!HeldWaypoints)
              /\ w.completed = Cardinality(Slot!HeldWaypoints \ {c})
              /\ Slot!AllTrailing(w.dwell, c, "stop")
  BY <1>1, <1>3, SlotIssueCounts
<1>5. v8' = Slot!Dwell(w, sample.stop)
  BY <1>3 DEF Slot!Run
<1>6. CASE /\ ~w.active /\ w.completed = 0 /\ w.dwell = 0
           /\ \A v \in v1.issued : v >= v2 + 1
  <2>1. v8' = w
    BY <1>5, <1>6 DEF Slot!Dwell
  <2>2. Slot!Trailing(0, 0, "stop")'
    BY <1>1, <1>2 DEF Slot!Trailing
  <2> QED
    BY <1>2, <1>4, <1>6, <2>1, <2>2 DEF Slot!WaypointCounts
<1>7. ASSUME NEW c \in v1.issued,
             c <= v2, \A v \in v1.issued : v < v2 + 1 => v <= c,
             w.active, w.confirmed <=> c \in Slot!HeldWaypoints,
             w.completed = Cardinality(Slot!HeldWaypoints \ {c}),
             Slot!AllTrailing(w.dwell, c, "stop")
      PROVE  v8' \in WType /\ Slot!WaypointCounts'
  <2>1. PICK n \in Nat : n = IF x["stop"] THEN w.dwell + 1 ELSE 0
    BY <1>4
  <2>2. v8' = [w EXCEPT !.dwell = n, !.confirmed = w.confirmed \/ (x["stop"] /\ n >= DwellSteps)]
    BY <1>1, <1>4, <1>5, <1>7, <2>1 DEF Slot!Dwell
  <2>3. c \in Nat /\ c <= Len(v11) /\ w.dwell \in Nat
    BY <1>1, <1>2, <1>4, <1>7
  <2>4. \A k : k = n => Slot!AllTrailing(k, c, "stop")'
    BY <1>1, <1>7, <2>1, <2>3, SlotTrailingGrows
  <2>5. Len(v11) + 1 \in Slot!Windows(DwellSteps, c, Len(v11), "stop")' <=> n >= DwellSteps
    BY <1>1, <1>2, <1>7, <2>1, <2>3, SlotTrailingGrows
  <2>6. /\ Slot!HeldWaypoints' \ {c} = Slot!HeldWaypoints \ {c}
        /\ c \in Slot!HeldWaypoints' <=> c \in Slot!HeldWaypoints \/ n >= DwellSteps
    BY <1>1, <1>2, <1>7, <2>5, SlotOnlyCurrentIsHeld
  <2>7. n >= DwellSteps => x["stop"]
    BY <1>2, <2>1
  <2>8. PICK b \in BOOLEAN : b <=> (w.confirmed \/ (x["stop"] /\ n >= DwellSteps))
    OBVIOUS
  <2>9. v8' = [w EXCEPT !.dwell = n, !.confirmed = b]
    <3>1. w.confirmed \in BOOLEAN /\ (x["stop"] /\ n >= DwellSteps) \in BOOLEAN
      BY <1>4
    <3> QED
      BY <2>2, <2>8, <3>1
  <2>10. /\ v8' \in WType /\ v8'.dwell = n /\ (v8'.confirmed <=> b)
         /\ v8'.active /\ v8'.completed = w.completed
    BY <1>4, <1>7, <2>9
  <2>11. Slot!CountsFor(c)'
    <3>1. c < v2' /\ \A v \in v1'.issued : v < v2' => v <= c
      BY <1>1, <1>2, <1>7, <2>3
    <3>2. v8'.confirmed <=> c \in Slot!HeldWaypoints'
      BY <1>7, <2>6, <2>7, <2>8, <2>10
    <3>3. v8'.completed = Cardinality(Slot!HeldWaypoints' \ {c})
      BY <1>7, <2>6, <2>10
    <3>4. Slot!AllTrailing(v8.dwell, c, "stop")'
      BY <2>4, <2>10
    <3> QED
      BY <1>2, <2>10, <3>1, <3>2, <3>3, <3>4, SlotFinite DEF Slot!CountsFor
  <2>12. Slot!Trailing(v8.dwell, 0, "stop")'
    <3>1. Slot!Trailing(n, c, "stop")'
      BY <2>4 DEF Slot!AllTrailing
    <3>2. Slot!Trailing(n, 0, "stop")'
      BY <1>1, <1>2, <2>3, <3>1 DEF Slot!Trailing
    <3> QED
      BY <2>10, <3>2
  <2> QED
    BY <1>2, <2>10, <2>11, <2>12 DEF Slot!WaypointCounts
<1> QED
  BY <1>4, <1>6, <1>7

-----------------------------------------------------------------------------
LEMMA SlotVerdictsKeep ==
  ASSUME Slot!IInv, NEW sample \in Slot!Samples, NEW ending \in Slot!Endings, Slot!Run(sample, ending)
  PROVE  /\ v1' \in Slot!Scenarios /\ v2' \in 0..MaxHorizon
         /\ v3' \in BOOLEAN /\ v4' \in BOOLEAN /\ v7' \in BOOLEAN
         /\ v5' \in {Slot!Undecided, "nonfinite", "horizon", "early_timeout", "backend_timeout"}
         /\ v11' \in Seq(Slot!Shown) /\ Len(v11') = v6'
         /\ v6' <= v2'
         /\ Slot!Verdicts' /\ Slot!VerdictIsFinal
<1>1. PICK x \in Slot!Shown :
        /\ x.fell <=> ending = "fell"
        /\ v11' = Append(v11, x) /\ v11 \in Seq(Slot!Shown)
        /\ Slot!Live /\ v2 = Len(v11) /\ Len(v11) \in Nat
  BY SlotRunIs
<1>2. /\ v11' \in Seq(Slot!Shown) /\ Len(v11') = Len(v11) + 1
      /\ \A i \in 1..Len(v11) : v11'[i] = v11[i]
      /\ v11'[Len(v11) + 1] = x
  BY <1>1, SlotGrown
<1>3. /\ v6 = v2 /\ v6' = v2 + 1 /\ v2' = v2 + 1
      /\ v1' = v1 /\ v1 \in Slot!Scenarios
      /\ v1.horizon \in Nat /\ v2 < MaxHorizon /\ v2 < v1.horizon
      /\ MaxHorizon \in Nat /\ v2 \in Nat /\ v5 = Slot!Undecided /\ Slot!NoFall
  <2>1. /\ v6' = v6 + 1 /\ v2' = v2 + 1 /\ v1' = v1
        /\ v2 < MaxHorizon
    BY DEF Slot!Run
  <2>2. /\ v3 /\ v6 = v2 /\ v5 = Slot!Undecided /\ Slot!NoFall
        /\ v6 < v1.horizon /\ v1 \in Slot!Scenarios
    BY <1>1 DEF Slot!Live, Slot!IInv, Slot!Types, Slot!Verdicts
  <2> QED
    BY <2>1, <2>2, SlotScenarioIs, SlotParameters
<1>4. PICK v : v = Slot!Verdict(ending)
  OBVIOUS
<1>5. /\ v \in {Slot!Undecided, "nonfinite", "horizon", "early_timeout"}
      /\ v # "nonfinite" => ending # "fell"
      /\ v = "horizon" => v2 + 1 >= v1.horizon
      /\ v = Slot!Undecided => v2 + 1 < v1.horizon
  <2>1. CASE ending = "fell"
    <3>1. v = "nonfinite"
      BY <1>4, <2>1 DEF Slot!Verdict
    <3> QED
      BY <3>1, SlotUndecidedIs
  <2>2. CASE ending # "fell" /\ v2 + 1 >= v1.horizon
    <3>1. v6 + 1 >= v1.horizon /\ ~(v6 + 1 < v1.horizon)
      BY <1>3, <2>2
    <3>2. v = "horizon"
      BY <1>4, <2>2, <3>1 DEF Slot!Verdict
    <3> QED
      BY <2>2, <3>2, SlotUndecidedIs
  <2>3. CASE ending # "fell" /\ ~(v2 + 1 >= v1.horizon)
    <3>1. /\ v6 + 1 < v1.horizon /\ ~(v6 + 1 >= v1.horizon)
          /\ v2 + 1 < v1.horizon
      BY <1>3, <2>3
    <3>2. v = Slot!Undecided \/ v = "early_timeout"
      BY <1>4, <2>3, <3>1 DEF Slot!Verdict
    <3> QED
      BY <2>3, <3>1, <3>2, SlotUndecidedIs
  <2> QED
    BY <2>1, <2>2, <2>3
<1>6. /\ v5' = v
      /\ v4' \in BOOLEAN /\ v3' \in BOOLEAN /\ v7' \in BOOLEAN
      /\ v4' <=> v = "horizon"
      /\ v3' <=> v = Slot!Undecided
  <2>1. /\ v5' = v /\ v4' = (v = "horizon") /\ v3' = (v = Slot!Undecided)
        /\ v7' = (ending = "late" /\ v = Slot!Undecided)
    BY <1>4, Zenon DEF Slot!Run
  <2> QED
    BY <2>1, Zenon
<1>7. v # "nonfinite" => Slot!NoFall'
  <2> SUFFICES ASSUME v # "nonfinite", NEW i \in 1..(Len(v11) + 1)
               PROVE  ~v11'[i].fell
    BY <1>2 DEF Slot!NoFall
  <2>1. CASE i = Len(v11) + 1
    BY <1>1, <1>2, <1>5, <2>1
  <2>2. CASE i # Len(v11) + 1
    <3>1. i \in 1..Len(v11)
      BY <1>1, <2>2
    <3> QED
      BY <1>2, <1>3, <3>1 DEF Slot!NoFall
  <2> QED
    BY <2>1, <2>2
<1>8. v4' => Len(v11') = v1'.horizon /\ Slot!NoFall'
  <2> SUFFICES ASSUME v4' PROVE Len(v11') = v1.horizon /\ Slot!NoFall'
    BY <1>3
  <2>1. v = "horizon"
    BY <1>6
  <2>2. v2 + 1 >= v1.horizon /\ Slot!NoFall'
    BY <1>5, <1>7, <2>1
  <2> QED
    BY <1>1, <1>2, <1>3, <2>2
<1>9. /\ v3' => v = Slot!Undecided /\ ~v4'
      /\ ~v3' => v # Slot!Undecided
      /\ v3' \in BOOLEAN /\ v4' \in BOOLEAN /\ v7' \in BOOLEAN
  BY <1>6, SlotUndecidedIs
<1>10. Slot!Verdicts'
  BY <1>3, <1>5, <1>6, <1>7, <1>8, <1>9, SlotUndecidedIs DEF Slot!Verdicts
<1>11. Slot!VerdictIsFinal
  BY <1>3, <1>8 DEF Slot!VerdictIsFinal, Slot!NoFall
<1> QED
  BY <1>1, <1>2, <1>3, <1>5, <1>6, <1>9, <1>10, <1>11

LEMMA SlotRunKeeps ==
  ASSUME Slot!IInv, NEW sample \in Slot!Samples, NEW ending \in Slot!Endings, Slot!Run(sample, ending)
  PROVE  Slot!IInv' /\ Slot!VerdictIsFinal
BY SlotVerdictsKeep, SlotSettlingKeeps, SlotRecoveryKeeps, SlotWaypointsKeep DEF Slot!IInv,
   Slot!Types

\* The rollout of a slot that has ended is what it was.
LEMMA SlotIdleKeeps == ASSUME Slot!IInv, Slot!Idle PROVE Slot!IInv' /\ Slot!VerdictIsFinal
<1>1. /\ ~Slot!Live /\ ~v3' /\ ~v7' /\ v2' = v2 + 1
      /\ v2 < MaxHorizon /\ v2 \in Nat /\ MaxHorizon \in Nat
      /\ v8' = Slot!Issue(v8)
      /\ v5' = IF v5 = Slot!Undecided THEN "backend_timeout" ELSE v5
      /\ UNCHANGED <<v1, v4, v6, v9, v10, v11>>
  <2>1. /\ ~Slot!Live /\ ~v3' /\ ~v7'
    BY DEF Slot!Idle
  <2> QED
    BY <2>1, SlotScenarioIs, SlotParameters DEF Slot!Idle
<1>2. ~Slot!Live'
  BY <1>1 DEF Slot!Live
<1>3. /\ v4 => v5 # Slot!Undecided /\ Len(v11) = v1.horizon /\ Slot!NoFall
      /\ v4 \in BOOLEAN
  BY DEF Slot!IInv, Slot!Types, Slot!Verdicts
<1>4. Slot!Verdicts' /\ Slot!VerdictIsFinal
  BY <1>1, <1>2, <1>3, SlotUndecidedIs DEF Slot!Verdicts, Slot!VerdictIsFinal, Slot!NoFall
<1>5. Slot!SettlingCounts' /\ Slot!RecoveryCounts'
  BY <1>1, <1>2 DEF Slot!IInv, Slot!SettlingCounts, Slot!RecoveryCounts, Slot!Settled,
     Slot!Recovered, Slot!Windows, Slot!Quiet
<1>6. PICK w : w = Slot!Issue(v8)
  OBVIOUS
<1>7. /\ w \in [active : BOOLEAN, confirmed : BOOLEAN, completed : Nat, dwell : Nat]
      /\ Slot!Trailing(w.dwell, 0, "stop")
      /\ \/ /\ ~w.active /\ w.completed = 0 /\ w.dwell = 0
            /\ \A v \in v1.issued : v >= v2 + 1
         \/ \E c \in v1.issued :
              /\ c <= v2 /\ \A v \in v1.issued : v < v2 + 1 => v <= c
              /\ w.active /\ (w.confirmed <=> c \in Slot!HeldWaypoints)
              /\ w.completed = Cardinality(Slot!HeldWaypoints \ {c})
  BY <1>6, SlotIssueCounts
<1>8. v8' = w /\ Slot!HeldWaypoints' = Slot!HeldWaypoints
  BY <1>1, <1>6 DEF Slot!HeldWaypoints, Slot!Windows, Slot!Quiet
<1>9. Slot!WaypointCounts'
  <2>1. Slot!Trailing(v8.dwell, 0, "stop")'
    BY <1>1, <1>7, <1>8 DEF Slot!Trailing
  <2>2. ASSUME NEW c \in v1.issued, c <= v2,
               \A v \in v1.issued : v < v2 + 1 => v <= c,
               w.active, w.confirmed <=> c \in Slot!HeldWaypoints,
               w.completed = Cardinality(Slot!HeldWaypoints \ {c})
        PROVE  Slot!CountsFor(c)'
    <3>1. c < v2'
      BY <1>1, <2>2, SlotScenarioIs
    <3> QED
      BY <1>1, <1>2, <1>8, <2>2, <3>1, SlotFinite DEF Slot!CountsFor
  <2>3. CASE \E c \in v1.issued :
               /\ c <= v2 /\ \A v \in v1.issued : v < v2 + 1 => v <= c
               /\ w.active /\ (w.confirmed <=> c \in Slot!HeldWaypoints)
               /\ w.completed = Cardinality(Slot!HeldWaypoints \ {c})
    <3>1. \E c \in v1'.issued : Slot!CountsFor(c)'
      BY <1>1, <2>2, <2>3
    <3> QED
      BY <2>1, <3>1 DEF Slot!WaypointCounts
  <2> QED
    BY <1>1, <1>7, <1>8, <2>1, <2>3 DEF Slot!WaypointCounts
<1>10. Slot!Types'
  <2>1. v2' \in 0..MaxHorizon /\ v6' <= v2'
    <3>1. v6 \in Nat /\ v6 <= v2
      BY SlotScenarioIs DEF Slot!IInv, Slot!Types
    <3> QED
      BY <1>1, <3>1
  <2>2. v5' \in {Slot!Undecided, "nonfinite", "horizon", "early_timeout", "backend_timeout"}
    <3>1. CASE v5 = Slot!Undecided
      BY <1>1, <3>1
    <3>2. CASE v5 # Slot!Undecided
      BY <1>1, <3>2 DEF Slot!IInv, Slot!Types
    <3> QED
      BY <3>1, <3>2
  <2>3. /\ v1' \in Slot!Scenarios /\ v3' \in BOOLEAN /\ v4' \in BOOLEAN
        /\ v7' \in BOOLEAN
    <3>1. v3' \in BOOLEAN /\ v7' \in BOOLEAN
      BY Zenon DEF Slot!Idle
    <3> QED
      BY <1>1, <1>3, <3>1 DEF Slot!IInv, Slot!Types
  <2>4. v11' \in Seq(Slot!Shown) /\ Len(v11') = v6'
    BY <1>1 DEF Slot!IInv, Slot!Types
  <2>5. v9' \in Slot!Watch /\ v10' \in Slot!Watch
    BY <1>1 DEF Slot!IInv, Slot!Types
  <2>6. v8' \in [active : BOOLEAN, confirmed : BOOLEAN, completed : Nat, dwell : Nat]
    BY <1>7, <1>8
  <2> QED
    BY <2>1, <2>2, <2>3, <2>4, <2>5, <2>6 DEF Slot!Types
<1> QED
  BY <1>4, <1>5, <1>9, <1>10 DEF Slot!IInv

LEMMA SlotInitIInv == ASSUME Slot!Init PROVE Slot!IInv
<1>1. /\ v1 \in Slot!Scenarios /\ v2 = 0 /\ v6 = 0
      /\ v5 = Slot!Undecided /\ v11 = <<>>
  BY DEF Slot!Init
<1>2. /\ v3 \in BOOLEAN /\ v3 /\ v4 \in BOOLEAN /\ ~v4
       /\ v7 \in BOOLEAN /\ ~v7
  BY DEF Slot!Init
<1>3. /\ v1.horizon \in 1..MaxHorizon
      /\ v1.issued \in SUBSET (0..(MaxHorizon - 1))
      /\ v1.pushEnd \in {Slot!Never} \cup 1..MaxHorizon
  BY <1>1 DEF Slot!Scenarios
<1>4. v11 \in Seq(Slot!Shown) /\ Len(v11) = 0
  BY <1>1
<1>5. Slot!Never \in Int
  BY DEF Slot!Never
<1>6. /\ v9 \in Slot!Watch /\ v9.count = 0 /\ ~v9.done
      /\ v10 \in Slot!Watch /\ v10.count = 0 /\ ~v10.done
  BY <1>5 DEF Slot!Init, Slot!Watch
<1>7. /\ v8 \in [active : BOOLEAN, confirmed : BOOLEAN, completed : Nat, dwell : Nat]
       /\ ~v8.active /\ v8.completed = 0 /\ v8.dwell = 0
  BY DEF Slot!Init
<1>8. Slot!Types
  BY <1>1, <1>4, <1>6, <1>2, <1>7, SlotParameters DEF Slot!Types
<1>9. Slot!Verdicts
  BY <1>1, <1>3, <1>4, <1>2, SlotParameters DEF Slot!Verdicts, Slot!NoFall, Slot!Live
<1>10. ASSUME NEW lo \in Nat PROVE Slot!Windows(StableSteps, lo, Len(v11), "stable") = {}
  BY <1>4, SlotParameters DEF Slot!Windows
<1>11. Slot!SettlingCounts
  <2>1. Slot!Settled = {}
    BY <1>10 DEF Slot!Settled
  <2> QED
    BY <1>4, <1>6, <2>1 DEF Slot!SettlingCounts, Slot!AllTrailing, Slot!Trailing
<1>12. Slot!RecoveryCounts
  <2>1. ASSUME v1.pushEnd # Slot!Never
        PROVE  v1.pushEnd \in Nat /\ Len(v11) < v1.pushEnd
    BY <1>3, <1>4, <2>1, SlotParameters
  <2>2. v1.pushEnd # Slot!Never => Slot!Recovered = {}
    BY <1>10, <2>1 DEF Slot!Recovered
  <2> QED
    BY <1>6, <2>1, <2>2 DEF Slot!RecoveryCounts
<1>13. Slot!WaypointCounts
  BY <1>1, <1>3, <1>4, <1>7 DEF Slot!WaypointCounts, Slot!Trailing
<1> QED
  BY <1>8, <1>9, <1>11, <1>12, <1>13 DEF Slot!IInv

LEMMA SlotStepPreserves == ASSUME Slot!IInv, [Slot!Next]_Slot!vars PROVE Slot!IInv' /\ Slot!VerdictIsFinal
<1>1. CASE UNCHANGED Slot!vars
  <2>1. UNCHANGED <<v1, v2, v3, v4, v5, v6, v7,
                    v8, v9, v10, v11>>
    BY <1>1 DEF Slot!vars
  <2>2. Slot!Types' /\ Slot!Verdicts' /\ Slot!VerdictIsFinal
    BY <2>1 DEF Slot!IInv, Slot!Types, Slot!Verdicts, Slot!VerdictIsFinal, Slot!Live,
       Slot!NoFall
  <2>3. Slot!Live' = Slot!Live
    BY <2>1 DEF Slot!Live
  <2>4. Slot!SettlingCounts' /\ Slot!RecoveryCounts'
    BY <2>1, <2>3 DEF Slot!IInv, Slot!SettlingCounts, Slot!RecoveryCounts, Slot!Settled,
       Slot!Recovered, Slot!Windows, Slot!Quiet,
                      Slot!AllTrailing, Slot!Trailing
  <2>5. Slot!HeldWaypoints' = Slot!HeldWaypoints
    BY <2>1 DEF Slot!HeldWaypoints, Slot!Windows, Slot!Quiet
  <2>6. Slot!WaypointCounts'
    BY <2>1, <2>3, <2>5 DEF Slot!IInv, Slot!WaypointCounts, Slot!CountsFor,
       Slot!AllTrailing, Slot!Trailing
  <2> QED
    BY <2>2, <2>4, <2>6 DEF Slot!IInv
<1> QED
  BY <1>1, SlotRunKeeps, SlotIdleKeeps DEF Slot!Next

-----------------------------------------------------------------------------
LEMMA SlotSuccessHolds == ASSUME Slot!IInv PROVE Slot!WaypointsAreHeld /\ Slot!RecoveryIsSustained
<1>1. /\ IsFiniteSet(Slot!HeldWaypoints) /\ Slot!HeldWaypoints \subseteq v1.issued
      /\ Slot!CompletedCount = Cardinality(Slot!HeldWaypoints)
  BY SlotHeldAreCounted
<1>2. ASSUME Slot!SequenceComplete
      PROVE  /\ Slot!HeldWaypoints = v1.issued
             /\ Len(v11) = v1.horizon
             /\ Slot!Quiet(Len(v11) - StopSteps + 1, Len(v11), "stop")
  <2>1. Slot!HeldWaypoints = v1.issued
    <3>1. Cardinality(Slot!HeldWaypoints) = Cardinality(v1.issued)
      BY <1>1, <1>2, SlotFinite DEF Slot!SequenceComplete
    <3>2. IsFiniteSet(v1.issued) /\ Slot!HeldWaypoints \in SUBSET v1.issued
      BY <1>1, SlotScenarioIs
    <3> QED
      BY <3>1, <3>2, FS_Subset
  <2>2. Len(v11) = v1.horizon /\ v8.dwell >= StopSteps
    BY <1>2 DEF Slot!SequenceComplete, Slot!FinalStopped, Slot!IInv, Slot!Verdicts
  <2>3. /\ v8.dwell \in Nat /\ StopSteps \in Nat \ {0} /\ Len(v11) \in Nat
        /\ v8.dwell <= Len(v11)
        /\ \A i \in 1..Len(v11) : i > Len(v11) - v8.dwell => v11[i]["stop"]
    <3>1. Slot!Trailing(v8.dwell, 0, "stop") /\ v8.dwell \in Nat
      BY DEF Slot!IInv, Slot!Types, Slot!WaypointCounts
    <3>2. StopSteps \in Nat \ {0} /\ Len(v11) \in Nat
      BY SlotScenarioIs, SlotParameters
    <3> QED
      BY <3>1, <3>2 DEF Slot!Trailing
  <2>4. Slot!Quiet(Len(v11) - StopSteps + 1, Len(v11), "stop")
    BY <2>2, <2>3 DEF Slot!Quiet
  <2> QED
    BY <2>1, <2>2, <2>4
<1>3. Slot!WaypointsAreHeld
  BY <1>1, <1>2, SlotFinite DEF Slot!WaypointsAreHeld
<1>4. /\ v9.done \in BOOLEAN /\ v10.done \in BOOLEAN /\ v9.at \in Int
      /\ v10.at \in Int
  BY DEF Slot!IInv, Slot!Types, Slot!Watch
<1>5. /\ v9.done <=> Slot!Settled # {}
      /\ v9.done => v9.at \in Slot!Settled /\ \A e \in Slot!Settled : v9.at <= e
  BY DEF Slot!IInv, Slot!SettlingCounts
<1>6. /\ v1.pushEnd = Slot!Never => ~v10.done
      /\ v1.pushEnd # Slot!Never =>
           /\ v10.done <=> Slot!Recovered # {}
           /\ v10.done => /\ v10.at + v1.pushEnd + StableSteps \in Slot!Recovered
                               /\ \A e \in Slot!Recovered :
                                    v10.at + v1.pushEnd + StableSteps <= e
  BY DEF Slot!IInv, Slot!RecoveryCounts
<1> DEFINE recovered == IF v1.pushEnd = Slot!Never THEN {} ELSE Slot!Recovered
<1>7. /\ v10.done <=> recovered # {}
      /\ v10.done => /\ v10.at + v1.pushEnd + StableSteps \in recovered
                          /\ \A e \in recovered :
                               v10.at + v1.pushEnd + StableSteps <= e
  BY <1>6
<1>8. v9.done = (Slot!Settled # {}) /\ v10.done = (recovered # {})
  BY <1>4, <1>5, <1>7
<1>9. Slot!RecoveryIsSustained
  BY <1>5, <1>7, <1>8 DEF Slot!RecoveryIsSustained, Slot!Settled, Slot!Recovered
<1> QED
  BY <1>3, <1>9

-----------------------------------------------------------------------------
\* Settled (SettledBonus): every attempt is in the books once, and who settles is paid.
\* Variables: v1 cohort, v2 env, v3 done, v4 credit, v5 bonus, v6 pays.

Rows == 0 .. HistoryCapacity - 1
OneRow == [id : Nat \cup {-1}, reason : Settled!Outcomes \cup {"none", "pending"},
        arrived : BOOLEAN, settled : BOOLEAN]

\* What the steps of a call leave alone of the attempt and of its account.
SameAttempt(s, r) ==
  /\ s.id = r.id /\ s.writes = r.writes /\ s.slot = r.slot /\ s.band = r.band
  /\ s.arrival = r.arrival /\ s.attempts = r.attempts /\ s.arrivals = r.arrivals
SameEpisode(s, r) ==
  /\ s.here = r.here /\ s.dwell = r.dwell /\ s.credited = r.credited
  /\ s.retargeted = r.retargeted

LEMMA SettledFieldTypes ==
  ASSUME NEW r \in Settled!Episode
  PROVE  /\ r.id \in Nat \cup {-1} /\ r.writes \in Nat /\ r.slot \in Rows \cup {-1}
         /\ r.history \in [Rows -> OneRow] /\ r.band \in Settled!Bands \cup {"none"}
         /\ r.attempts \in Settled!Counts /\ r.arrivals \in Settled!Counts /\ r.settles \in Settled!Counts
         /\ r.falls \in Settled!Counts /\ r.timeouts \in Settled!Counts /\ r.resets \in Settled!Counts
         /\ r.dwell \in 0 .. HoldCalls /\ r.stable \in 0 .. Calm /\ r.elapsed \in 0 .. RetargetTime
         /\ r.pending \in BOOLEAN /\ r.arrival \in BOOLEAN /\ r.settle \in BOOLEAN
         /\ r.here \in BOOLEAN /\ r.credited \in BOOLEAN /\ r.retargeted \in BOOLEAN
         /\ r.stopRecorded \in BOOLEAN /\ r.pushed \in BOOLEAN /\ r.recovered \in BOOLEAN
         /\ r.second \in BOOLEAN /\ r.stop \in BOOLEAN /\ r.postStop \in BOOLEAN
BY DEF Settled!Episode, OneRow, Rows

-----------------------------------------------------------------------------
\* A reason closes the attempt, in its counter and in its row.
LEMMA SettledFinalizeIs ==
  ASSUME NEW r, Settled!Well(r), r.pending, NEW reason \in Settled!Outcomes, NEW c, c = Settled!Finalize(r, reason)
  PROVE  /\ c \in Settled!Episode /\ ~c.pending /\ SameAttempt(c, r) /\ SameEpisode(c, r)
         /\ c.settles = r.settles /\ c.settle = r.settle /\ c.stopRecorded = r.stopRecorded
         /\ \A b \in Settled!Bands :
              /\ c.falls[b] = r.falls[b] + (IF reason = "fall" /\ b = r.band THEN 1 ELSE 0)
              /\ c.timeouts[b] = r.timeouts[b] + (IF reason = "timeout" /\ b = r.band THEN 1 ELSE 0)
              /\ c.resets[b] = r.resets[b] + (IF reason = "reset" /\ b = r.band THEN 1 ELSE 0)
         /\ \A i \in Rows :
              /\ c.history[i].reason = IF i = r.slot THEN reason ELSE r.history[i].reason
              /\ c.history[i].id = r.history[i].id
              /\ c.history[i].arrived = r.history[i].arrived
              /\ c.history[i].settled = r.history[i].settled
<1> DEFINE h == [r.history EXCEPT ![r.slot].reason = reason]
           f == [r.falls EXCEPT ![r.band] = @ + (IF reason = "fall" THEN 1 ELSE 0)]
           t == [r.timeouts EXCEPT ![r.band] = @ + (IF reason = "timeout" THEN 1 ELSE 0)]
           s == [r.resets EXCEPT ![r.band] = @ + (IF reason = "reset" THEN 1 ELSE 0)]
<1>1. r \in Settled!Episode /\ r.slot >= 0 /\ r.band \in Settled!Bands
  BY DEF Settled!Well
<1>2. /\ r.falls \in Settled!Counts /\ r.timeouts \in Settled!Counts /\ r.resets \in Settled!Counts
      /\ r.history \in [Rows -> OneRow] /\ r.slot \in Rows
  BY <1>1, SettledFieldTypes DEF Rows
<1>3. /\ f \in Settled!Counts /\ t \in Settled!Counts /\ s \in Settled!Counts
      /\ \A b \in Settled!Bands :
           /\ f[b] = r.falls[b] + (IF reason = "fall" /\ b = r.band THEN 1 ELSE 0)
           /\ t[b] = r.timeouts[b] + (IF reason = "timeout" /\ b = r.band THEN 1 ELSE 0)
           /\ s[b] = r.resets[b] + (IF reason = "reset" /\ b = r.band THEN 1 ELSE 0)
  <2>1. f \in Settled!Counts /\ \A b \in Settled!Bands :
          f[b] = r.falls[b] + (IF reason = "fall" /\ b = r.band THEN 1 ELSE 0)
    BY <1>1, <1>2 DEF Settled!Counts
  <2>2. t \in Settled!Counts /\ \A b \in Settled!Bands :
          t[b] = r.timeouts[b] + (IF reason = "timeout" /\ b = r.band THEN 1 ELSE 0)
    BY <1>1, <1>2 DEF Settled!Counts
  <2>3. s \in Settled!Counts /\ \A b \in Settled!Bands :
          s[b] = r.resets[b] + (IF reason = "reset" /\ b = r.band THEN 1 ELSE 0)
    BY <1>1, <1>2 DEF Settled!Counts
  <2> HIDE DEF f, t, s
  <2> QED
    BY <2>1, <2>2, <2>3
<1>4. /\ h \in [Rows -> OneRow]
      /\ \A i \in Rows :
           /\ h[i].reason = IF i = r.slot THEN reason ELSE r.history[i].reason
           /\ h[i].id = r.history[i].id /\ h[i].arrived = r.history[i].arrived
           /\ h[i].settled = r.history[i].settled
  BY <1>1, <1>2 DEF OneRow
<1>5. c = [r EXCEPT !.pending = FALSE, !.history = h, !.falls = f, !.timeouts = t, !.resets = s]
  BY Zenon DEF Settled!Finalize
<1> HIDE DEF h, f, t, s
<1>6. [r EXCEPT !.pending = FALSE, !.history = h, !.falls = f, !.timeouts = t, !.resets = s]
        \in Settled!Episode
  BY <1>1, <1>3, <1>4 DEF Settled!Episode, OneRow, Rows
<1>7. c \in Settled!Episode
  BY <1>5, <1>6, Zenon
<1>8. /\ ~c.pending /\ c.history = h /\ c.falls = f /\ c.timeouts = t /\ c.resets = s
      /\ SameAttempt(c, r) /\ SameEpisode(c, r)
      /\ c.settles = r.settles /\ c.settle = r.settle /\ c.stopRecorded = r.stopRecorded
  BY <1>1, <1>5 DEF Settled!Episode, SameAttempt, SameEpisode
<1> QED
  BY <1>3, <1>4, <1>7, <1>8

\* The books stay balanced when an episode closes its attempt.
LEMMA SettledCloseKeeps ==
  ASSUME NEW c, NEW r, Settled!Sound(r, c), NEW reason \in {"fall", "timeout", "reset"},
         NEW s, s = Settled!Finalize(r, reason)
  PROVE  /\ Settled!Sound(s, c) /\ ~s.pending /\ SameAttempt(s, r) /\ SameEpisode(s, r)
         /\ s.settles = r.settles
<1>1. CASE ~r.pending
  <2>1. s = r
    BY <1>1 DEF Settled!Finalize
  <2> QED
    BY <1>1, <2>1 DEF SameAttempt, SameEpisode
<1>2. CASE r.pending
  <2>1. Settled!Well(r) /\ reason \in Settled!Outcomes
    BY DEF Settled!Sound, Settled!Outcomes
  <2>2. /\ s \in Settled!Episode /\ ~s.pending /\ SameAttempt(s, r) /\ SameEpisode(s, r)
        /\ s.settles = r.settles /\ s.settle = r.settle /\ s.stopRecorded = r.stopRecorded
        /\ \A b \in Settled!Bands :
             /\ s.falls[b] = r.falls[b] + (IF reason = "fall" /\ b = r.band THEN 1 ELSE 0)
             /\ s.timeouts[b] = r.timeouts[b] + (IF reason = "timeout" /\ b = r.band THEN 1 ELSE 0)
             /\ s.resets[b] = r.resets[b] + (IF reason = "reset" /\ b = r.band THEN 1 ELSE 0)
        /\ \A i \in Rows :
             /\ s.history[i].reason = IF i = r.slot THEN reason ELSE r.history[i].reason
             /\ s.history[i].id = r.history[i].id
             /\ s.history[i].arrived = r.history[i].arrived
             /\ s.history[i].settled = r.history[i].settled
    BY <1>2, <2>1, SettledFinalizeIs
  <2>3. /\ r.attempts \in Settled!Counts /\ r.arrivals \in Settled!Counts /\ r.settles \in Settled!Counts
        /\ r.falls \in Settled!Counts /\ r.timeouts \in Settled!Counts /\ r.resets \in Settled!Counts
        /\ r.slot \in Rows /\ r.band \in Settled!Bands
    BY <1>2, <2>1, SettledFieldTypes DEF Settled!Well, Rows
  <2>4. Settled!Balanced(s)
    <3> SUFFICES ASSUME NEW b \in Settled!Bands
                 PROVE  s.attempts[b] = s.settles[b] + s.falls[b] + s.timeouts[b] + s.resets[b]
                                        + Settled!Open(s, b)
      BY DEF Settled!Balanced
    <3>1. /\ r.attempts[b] = r.settles[b] + r.falls[b] + r.timeouts[b] + r.resets[b]
                              + (IF b = r.band THEN 1 ELSE 0)
          /\ Settled!Open(s, b) = 0
      BY <1>2, <2>2 DEF Settled!Sound, Settled!Balanced, Settled!Open
    <3>2. /\ r.attempts[b] \in Nat /\ r.settles[b] \in Nat /\ r.falls[b] \in Nat
          /\ r.timeouts[b] \in Nat /\ r.resets[b] \in Nat
      BY <2>3 DEF Settled!Counts
    <3>3. s.falls[b] + s.timeouts[b] + s.resets[b] =
            r.falls[b] + r.timeouts[b] + r.resets[b] + (IF b = r.band THEN 1 ELSE 0)
      <4>1. CASE reason = "fall"
        BY <2>2, <3>2, <4>1
      <4>2. CASE reason = "timeout"
        BY <2>2, <3>2, <4>2
      <4>3. CASE reason = "reset"
        BY <2>2, <3>2, <4>3
      <4> QED
        BY <4>1, <4>2, <4>3
    <3>4. s.falls[b] \in Nat /\ s.timeouts[b] \in Nat /\ s.resets[b] \in Nat
      BY <2>2, <3>2
    <3> QED
      BY <2>2, <3>1, <3>2, <3>3, <3>4 DEF SameAttempt
  <2>5. Settled!OneOpenRow(s)
    BY <1>2, <2>2, <2>3 DEF Settled!Sound, Settled!OneOpenRow, SameAttempt, Rows
  <2>6. Settled!Reached(s)
    BY <1>2, <2>2, <2>3 DEF Settled!Sound, Settled!Reached, Settled!Open, SameAttempt,
       Settled!Counts
  <2>7. Settled!Well(s) /\ Settled!Active(s, c)
    BY <2>2 DEF Settled!Well, Settled!Active
  <2> QED
    BY <2>2, <2>4, <2>5, <2>6, <2>7 DEF Settled!Sound
<1> QED
  BY <1>1, <1>2

\* A settled stop is counted and closes the attempt, which has arrived.
LEMMA SettledRecordSettledKeeps ==
  ASSUME NEW c, NEW r, Settled!Sound(r, c), r.pending, r.arrival, NEW isGate \in BOOLEAN,
         NEW s, s = Settled!RecordSettled(r, isGate)
  PROVE  /\ Settled!Sound(s, c) /\ ~s.pending /\ SameAttempt(s, r) /\ SameEpisode(s, r)
         /\ \A b \in Settled!Bands : s.settles[b] = r.settles[b] + (IF b = r.band THEN 1 ELSE 0)
<1> DEFINE h == [r.history EXCEPT ![r.slot].settled = TRUE]
           f == [r.settles EXCEPT ![r.band] = @ + 1]
           stop == r.stop \/ ~isGate \/ r.retargeted
           u == [r EXCEPT !.settle = TRUE, !.stopRecorded = TRUE, !.stop = stop,
                          !.settles = f, !.history = h]
<1>1. /\ r \in Settled!Episode /\ r.slot >= 0 /\ r.band \in Settled!Bands /\ r.id >= 0 /\ ~r.settle
      /\ Settled!Well(r)
  BY DEF Settled!Well, Settled!Sound, Settled!Active
<1>2. /\ r.attempts \in Settled!Counts /\ r.arrivals \in Settled!Counts /\ r.settles \in Settled!Counts
      /\ r.falls \in Settled!Counts /\ r.timeouts \in Settled!Counts /\ r.resets \in Settled!Counts
      /\ r.history \in [Rows -> OneRow] /\ r.slot \in Rows
      /\ r.stop \in BOOLEAN /\ r.retargeted \in BOOLEAN
  BY <1>1, SettledFieldTypes DEF Rows
<1>3. f \in Settled!Counts /\ \A b \in Settled!Bands : f[b] = r.settles[b] + (IF b = r.band THEN 1 ELSE 0)
  BY <1>1, <1>2 DEF Settled!Counts
<1>4. /\ h \in [Rows -> OneRow]
      /\ \A i \in Rows :
           /\ h[i].settled <=> (i = r.slot \/ r.history[i].settled)
           /\ h[i].id = r.history[i].id /\ h[i].arrived = r.history[i].arrived
           /\ h[i].reason = r.history[i].reason
  BY <1>1, <1>2 DEF OneRow
<1>5. stop \in BOOLEAN
  BY <1>2
<1>6. s = Settled!Finalize(u, "settled")
  BY <1>1, Zenon DEF Settled!RecordSettled
<1> HIDE DEF h, f, stop
<1>7. u \in Settled!Episode
  BY <1>1, <1>3, <1>4, <1>5 DEF Settled!Episode, OneRow, Rows
<1>8. /\ u.pending /\ u.settle /\ u.history = h /\ u.settles = f /\ u.stopRecorded
      /\ SameAttempt(u, r) /\ SameEpisode(u, r)
      /\ u.falls = r.falls /\ u.timeouts = r.timeouts /\ u.resets = r.resets
  BY <1>1 DEF Settled!Episode, SameAttempt, SameEpisode
<1> HIDE DEF u
<1>9. Settled!Well(u) /\ "settled" \in Settled!Outcomes
  BY <1>1, <1>7, <1>8 DEF Settled!Well, SameAttempt, Settled!Outcomes
<1>10. /\ s \in Settled!Episode /\ ~s.pending /\ SameAttempt(s, u) /\ SameEpisode(s, u)
       /\ s.settles = f /\ s.settle /\ s.stopRecorded
       /\ \A b \in Settled!Bands : /\ s.falls[b] = r.falls[b] /\ s.timeouts[b] = r.timeouts[b]
                           /\ s.resets[b] = r.resets[b]
       /\ \A i \in Rows :
            /\ s.history[i].reason = IF i = r.slot THEN "settled" ELSE r.history[i].reason
            /\ s.history[i].id = r.history[i].id
            /\ s.history[i].arrived = r.history[i].arrived
            /\ s.history[i].settled <=> (i = r.slot \/ r.history[i].settled)
  <2>1. \A b \in Settled!Bands : r.falls[b] \in Nat /\ r.timeouts[b] \in Nat /\ r.resets[b] \in Nat
    BY <1>2 DEF Settled!Counts
  <2>2. /\ s \in Settled!Episode /\ ~s.pending /\ SameAttempt(s, u) /\ SameEpisode(s, u)
        /\ s.settles = u.settles
    BY <1>6, <1>8, <1>9, SettledFinalizeIs
  <2>8. s.settle <=> u.settle
    BY <1>6, <1>8, <1>9, SettledFinalizeIs
  <2>9. s.stopRecorded <=> u.stopRecorded
    BY <1>6, <1>8, <1>9, SettledFinalizeIs
  <2>3. \A b \in Settled!Bands :
          /\ s.falls[b] = u.falls[b] + (IF "settled" = "fall" /\ b = u.band THEN 1 ELSE 0)
          /\ s.timeouts[b] = u.timeouts[b] + (IF "settled" = "timeout" /\ b = u.band THEN 1 ELSE 0)
          /\ s.resets[b] = u.resets[b] + (IF "settled" = "reset" /\ b = u.band THEN 1 ELSE 0)
    BY <1>6, <1>8, <1>9, SettledFinalizeIs
  <2>4. \A i \in Rows :
          /\ s.history[i].reason = IF i = u.slot THEN "settled" ELSE u.history[i].reason
          /\ s.history[i].id = u.history[i].id
          /\ s.history[i].arrived = u.history[i].arrived
          /\ s.history[i].settled = u.history[i].settled
    BY <1>6, <1>8, <1>9, SettledFinalizeIs
  <2>5. u.slot = r.slot
    BY <1>8 DEF SameAttempt
  <2>6. \A i \in Rows :
          /\ s.history[i].reason = IF i = r.slot THEN "settled" ELSE r.history[i].reason
          /\ s.history[i].id = r.history[i].id
          /\ s.history[i].arrived = r.history[i].arrived
          /\ s.history[i].settled <=> (i = r.slot \/ r.history[i].settled)
    BY <1>4, <1>8, <2>4, <2>5
  <2>7. \A b \in Settled!Bands : /\ s.falls[b] = r.falls[b] /\ s.timeouts[b] = r.timeouts[b]
                         /\ s.resets[b] = r.resets[b]
    BY <1>8, <2>1, <2>3
  <2> QED
    BY <1>8, <2>2, <2>6, <2>7, <2>8, <2>9
<1>11. SameAttempt(s, r) /\ SameEpisode(s, r)
  BY <1>8, <1>10 DEF SameAttempt, SameEpisode
<1>12. ASSUME NEW b \in Settled!Bands
       PROVE  /\ r.attempts[b] \in Nat /\ r.settles[b] \in Nat /\ r.falls[b] \in Nat
              /\ r.timeouts[b] \in Nat /\ r.resets[b] \in Nat /\ r.arrivals[b] \in Nat
              /\ r.attempts[b] = r.settles[b] + r.falls[b] + r.timeouts[b] + r.resets[b]
                                 + (IF b = r.band THEN 1 ELSE 0)
              /\ r.settles[b] + (IF b = r.band THEN 1 ELSE 0) <= r.arrivals[b]
              /\ r.arrivals[b] <= r.attempts[b]
              /\ Settled!Open(s, b) = 0
  <2>1. r.arrivals[b] + 0 <= r.attempts[b]
    BY DEF Settled!Sound, Settled!Reached
  <2> QED
    BY <1>2, <1>10, <2>1 DEF Settled!Sound, Settled!Balanced, Settled!Reached, Settled!Open,
       Settled!Counts
<1>13. Settled!Balanced(s)
  BY <1>3, <1>10, <1>11, <1>12 DEF Settled!Balanced, SameAttempt
<1>14. Settled!Reached(s)
  BY <1>3, <1>10, <1>11, <1>12 DEF Settled!Reached, SameAttempt
<1>15. Settled!OneOpenRow(s)
  <2>1. s.slot = r.slot /\ s.id = r.id /\ s.arrival = r.arrival
    BY <1>11 DEF SameAttempt
  <2>2. s.settle \in BOOLEAN /\ s.history \in [Rows -> OneRow]
    BY <1>10, SettledFieldTypes
  <2>3. s.history[r.slot].settled \in BOOLEAN
    BY <1>2, <2>2 DEF OneRow
  <2>4. s.history[r.slot].settled = s.settle
    BY <1>2, <1>10, <2>2, <2>3
  <2>5. \A i \in Rows : r.history[i].reason = "pending" <=> i = r.slot
    BY DEF Settled!Sound, Settled!OneOpenRow, Rows
  <2>6. \A i \in Rows : s.history[i].reason # "pending"
    BY <1>10, <2>5
  <2>7. r.history[r.slot].id = r.id /\ r.history[r.slot].arrived = r.arrival
    BY <1>1 DEF Settled!Sound, Settled!OneOpenRow
  <2>8. \A i \in Rows : s.history[i].reason = "pending" <=> s.pending /\ i = s.slot
    BY <1>10, <2>6
  <2>9. /\ s.history[s.slot].id = s.id /\ s.history[s.slot].arrived = s.arrival
        /\ s.history[s.slot].settled = s.settle
    <3>1. /\ s.history[r.slot].id = r.history[r.slot].id
          /\ s.history[r.slot].arrived = r.history[r.slot].arrived
      BY <1>2, <1>10
    <3> QED
      BY <2>1, <2>4, <2>7, <3>1
  <2> QED
    BY <2>8, <2>9 DEF Settled!OneOpenRow, Rows
<1>16. Settled!Well(s) /\ Settled!Active(s, c)
  BY <1>10 DEF Settled!Well, Settled!Active
<1> QED
  BY <1>3, <1>10, <1>11, <1>13, <1>14, <1>15, <1>16 DEF Settled!Sound

\* A new attempt takes a row of its own and is counted; none is active before it.
LEMMA SettledBeginIs ==
  ASSUME NEW c, NEW r, Settled!Sound(r, c), ~r.pending, NEW band \in Settled!Bands, NEW s, s = Settled!Begin(r, band)
  PROVE  /\ s \in Settled!Episode /\ s.pending /\ s.slot >= 0 /\ s.band \in Settled!Bands
         /\ ~s.arrival /\ ~s.settle /\ s.id = r.id + 1 /\ s.id >= 0
         /\ Settled!Balanced(s) /\ Settled!OneOpenRow(s) /\ Settled!Reached(s) /\ SameEpisode(s, r)
         /\ s.arrivals = r.arrivals /\ s.settles = r.settles
         /\ s.attempts = [r.attempts EXCEPT ![band] = @ + 1]
<1> DEFINE slot == r.writes % HistoryCapacity
           row == [id |-> r.id + 1, reason |-> "pending", arrived |-> FALSE, settled |-> FALSE]
           h == [r.history EXCEPT ![slot] = row]
           f == [r.attempts EXCEPT ![band] = @ + 1]
           id == r.id + 1
           w == r.writes + 1
<1>1. r \in Settled!Episode
  BY DEF Settled!Sound, Settled!Well
<1>2. /\ r.attempts \in Settled!Counts /\ r.arrivals \in Settled!Counts /\ r.settles \in Settled!Counts
      /\ r.falls \in Settled!Counts /\ r.timeouts \in Settled!Counts /\ r.resets \in Settled!Counts
      /\ r.history \in [Rows -> OneRow] /\ r.id \in Nat \cup {-1} /\ r.writes \in Nat
  BY <1>1, SettledFieldTypes
<1>3. slot \in Rows /\ slot \in Int /\ slot >= 0
  BY <1>2, SequenceParameters DEF Rows
<1>4. id \in Nat /\ w \in Nat /\ id >= 0
  BY <1>2
<1>5. row \in OneRow /\ row.id = id /\ row.reason = "pending" /\ ~row.arrived /\ ~row.settled
  BY <1>4 DEF OneRow
<1>6. f \in Settled!Counts /\ \A b \in Settled!Bands : f[b] = r.attempts[b] + (IF b = band THEN 1 ELSE 0)
  BY <1>2 DEF Settled!Counts
<1> HIDE DEF row, slot
<1>7. /\ h \in [Rows -> OneRow] /\ h[slot] = row
      /\ \A i \in Rows : i # slot => h[i] = r.history[i]
  BY <1>2, <1>3, <1>5
<1>8. s = [r EXCEPT !.id = id, !.band = band, !.pending = TRUE, !.arrival = FALSE,
                    !.settle = FALSE, !.slot = slot, !.writes = w, !.history = h, !.attempts = f]
  BY Zenon DEF Settled!Begin, Settled!Finalize, row, slot
<1> HIDE DEF h, f, id, w
<1>9. [r EXCEPT !.id = id, !.band = band, !.pending = TRUE, !.arrival = FALSE,
                !.settle = FALSE, !.slot = slot, !.writes = w, !.history = h, !.attempts = f]
        \in Settled!Episode
  BY <1>1, <1>3, <1>4, <1>6, <1>7 DEF Settled!Episode, OneRow, Rows
<1>10. s \in Settled!Episode
  BY <1>8, <1>9, Zenon
<1>11. /\ s.pending /\ s.slot = slot /\ s.band = band /\ ~s.arrival /\ ~s.settle /\ s.id = id
       /\ s.history = h /\ s.attempts = f /\ SameEpisode(s, r)
       /\ s.arrivals = r.arrivals /\ s.settles = r.settles /\ s.falls = r.falls
       /\ s.timeouts = r.timeouts /\ s.resets = r.resets
  BY <1>1, <1>8 DEF Settled!Episode, SameEpisode
<1>12. ASSUME NEW b \in Settled!Bands
       PROVE  /\ r.attempts[b] \in Nat /\ r.settles[b] \in Nat /\ r.falls[b] \in Nat
              /\ r.timeouts[b] \in Nat /\ r.resets[b] \in Nat /\ r.arrivals[b] \in Nat
              /\ r.attempts[b] = r.settles[b] + r.falls[b] + r.timeouts[b] + r.resets[b]
              /\ r.settles[b] <= r.arrivals[b] /\ r.arrivals[b] <= r.attempts[b]
              /\ Settled!Open(s, b) = IF b = band THEN 1 ELSE 0
  <2>1. /\ r.attempts[b] \in Nat /\ r.settles[b] \in Nat /\ r.falls[b] \in Nat
        /\ r.timeouts[b] \in Nat /\ r.resets[b] \in Nat /\ r.arrivals[b] \in Nat
    BY <1>2 DEF Settled!Counts
  <2>2. Settled!Open(r, b) = 0 /\ Settled!Open(s, b) = IF b = band THEN 1 ELSE 0
    BY <1>11 DEF Settled!Open
  <2>3. /\ r.settles[b] + (IF r.arrival THEN Settled!Open(r, b) ELSE 0) <= r.arrivals[b]
        /\ r.arrivals[b] + (IF r.arrival THEN 0 ELSE Settled!Open(r, b)) <= r.attempts[b]
        /\ r.attempts[b] = r.settles[b] + r.falls[b] + r.timeouts[b] + r.resets[b] + Settled!Open(r, b)
    BY DEF Settled!Sound, Settled!Reached, Settled!Balanced
  <2> QED
    BY <2>1, <2>2, <2>3
<1>13. Settled!Balanced(s)
  BY <1>6, <1>11, <1>12 DEF Settled!Balanced
<1>14. Settled!Reached(s)
  BY <1>6, <1>11, <1>12 DEF Settled!Reached
<1>15. Settled!OneOpenRow(s)
  <2>1. \A i \in Rows : r.history[i].reason # "pending"
    BY DEF Settled!Sound, Settled!OneOpenRow, Rows
  <2>2. row.arrived = s.arrival /\ row.settled = s.settle
    BY <1>11, <1>5, <1>10, SettledFieldTypes DEF OneRow
  <2> QED
    BY <1>3, <1>5, <1>7, <1>11, <2>1, <2>2 DEF Settled!OneOpenRow, Rows
<1> QED
  BY <1>3, <1>4, <1>10, <1>11, <1>13, <1>14, <1>15 DEF id, f

\* An arrival is recorded once, of the attempt that is active.
LEMMA SettledRecordArrivalKeeps ==
  ASSUME NEW c, NEW r, Settled!Sound(r, c), NEW s, s = Settled!RecordArrival(r)
  PROVE  /\ Settled!Sound(s, c) /\ (s.pending <=> r.pending) /\ (s.pending => s.arrival)
         /\ s.id = r.id /\ SameEpisode(s, r) /\ s.attempts = r.attempts
         /\ s.settles = r.settles
         /\ \/ s.arrivals = r.arrivals
            \/ /\ r.arrivals[r.band] < r.attempts[r.band] /\ r.band \in Settled!Bands
               /\ s.arrivals = [r.arrivals EXCEPT ![r.band] = @ + 1]
<1> DEFINE h == [r.history EXCEPT ![r.slot].arrived = TRUE]
           f == [r.arrivals EXCEPT ![r.band] = @ + 1]
<1>1. r \in Settled!Episode
  BY DEF Settled!Sound, Settled!Well
<1>2. /\ r.attempts \in Settled!Counts /\ r.arrivals \in Settled!Counts /\ r.settles \in Settled!Counts
      /\ r.falls \in Settled!Counts /\ r.timeouts \in Settled!Counts /\ r.resets \in Settled!Counts
      /\ r.history \in [Rows -> OneRow] /\ r.slot \in Rows \cup {-1}
      /\ r.arrival \in BOOLEAN /\ r.pending \in BOOLEAN /\ r.settle \in BOOLEAN
  BY <1>1, SettledFieldTypes
<1>3. CASE ~(r.pending /\ ~r.arrival)
  <2>1. s = r
    BY <1>3, Zenon DEF Settled!RecordArrival
  <2> QED
    BY <1>3, <2>1 DEF SameEpisode
<1>4. CASE r.pending /\ ~r.arrival
  <2>1. /\ r.slot \in Rows /\ r.band \in Settled!Bands /\ r.slot >= 0 /\ ~r.settle /\ r.id >= 0
        /\ (r.here => r.arrival) /\ ~r.stopRecorded /\ ~(c = "gate" /\ ~r.retargeted)
    BY <1>2, <1>4 DEF Settled!Sound, Settled!Well, Settled!Active, Rows
  <2>2. f \in Settled!Counts /\ \A b \in Settled!Bands : f[b] = r.arrivals[b] + (IF b = r.band THEN 1 ELSE 0)
    BY <1>2, <2>1 DEF Settled!Counts
  <2>3. /\ h \in [Rows -> OneRow]
        /\ \A i \in Rows :
             /\ h[i].arrived <=> (i = r.slot \/ r.history[i].arrived)
             /\ h[i].id = r.history[i].id /\ h[i].settled = r.history[i].settled
             /\ h[i].reason = r.history[i].reason
    BY <1>2, <2>1 DEF OneRow
  <2>4. s = [r EXCEPT !.arrival = TRUE, !.arrivals = f, !.history = h]
    BY <1>4, Zenon DEF Settled!RecordArrival
  <2> HIDE DEF h
  <2>5. [r EXCEPT !.arrival = TRUE, !.arrivals = f, !.history = h] \in Settled!Episode
    <3> HIDE DEF f
    <3> QED
      BY <1>1, <2>2, <2>3 DEF Settled!Episode, OneRow, Rows
  <2>6. s \in Settled!Episode
    BY <2>4, <2>5, Zenon
  <2>7. /\ s.arrival /\ s.arrivals = f /\ s.history = h /\ SameEpisode(s, r) /\ s.id = r.id
        /\ s.attempts = r.attempts /\ s.settles = r.settles /\ s.slot = r.slot
        /\ s.band = r.band /\ s.falls = r.falls /\ s.timeouts = r.timeouts
        /\ s.resets = r.resets /\ s.pending /\ ~s.settle /\ ~s.stopRecorded
    <3> HIDE DEF f
    <3> QED
      BY <1>1, <1>4, <2>1, <2>4 DEF Settled!Episode, SameEpisode
  <2>8. ASSUME NEW b \in Settled!Bands
        PROVE  /\ r.attempts[b] \in Nat /\ r.settles[b] \in Nat /\ r.falls[b] \in Nat
               /\ r.timeouts[b] \in Nat /\ r.resets[b] \in Nat /\ r.arrivals[b] \in Nat
               /\ r.attempts[b] = r.settles[b] + r.falls[b] + r.timeouts[b] + r.resets[b]
                                  + (IF b = r.band THEN 1 ELSE 0)
               /\ r.settles[b] <= r.arrivals[b]
               /\ r.arrivals[b] + (IF b = r.band THEN 1 ELSE 0) <= r.attempts[b]
               /\ Settled!Open(s, b) = IF b = r.band THEN 1 ELSE 0
    <3>1. /\ r.attempts[b] \in Nat /\ r.settles[b] \in Nat /\ r.falls[b] \in Nat
          /\ r.timeouts[b] \in Nat /\ r.resets[b] \in Nat /\ r.arrivals[b] \in Nat
      BY <1>2 DEF Settled!Counts
    <3>2. /\ Settled!Open(r, b) = IF b = r.band THEN 1 ELSE 0
          /\ Settled!Open(s, b) = IF b = r.band THEN 1 ELSE 0
      BY <1>4, <2>7 DEF Settled!Open
    <3>3. /\ r.settles[b] + (IF r.arrival THEN Settled!Open(r, b) ELSE 0) <= r.arrivals[b]
          /\ r.arrivals[b] + (IF r.arrival THEN 0 ELSE Settled!Open(r, b)) <= r.attempts[b]
          /\ r.attempts[b] = r.settles[b] + r.falls[b] + r.timeouts[b] + r.resets[b] + Settled!Open(r, b)
      BY DEF Settled!Sound, Settled!Reached, Settled!Balanced
    <3> QED
      BY <1>4, <3>1, <3>2, <3>3
  <2>9. Settled!Balanced(s)
    BY <2>7, <2>8 DEF Settled!Balanced
  <2>10. Settled!Reached(s)
    <3> HIDE DEF f
    <3> QED
      BY <2>2, <2>7, <2>8 DEF Settled!Reached
  <2>11. Settled!OneOpenRow(s)
    <3>1. /\ \A i \in Rows : r.history[i].reason = "pending" <=> i = r.slot
          /\ r.history[r.slot].id = r.id /\ r.history[r.slot].settled = r.settle
      BY <1>4, <2>1 DEF Settled!Sound, Settled!OneOpenRow, Rows
    <3>2. s.history[s.slot].arrived = s.arrival
      BY <2>1, <2>3, <2>6, <2>7, SettledFieldTypes DEF OneRow
    <3>3. s.history[s.slot].settled = s.settle
      BY <1>1, <2>1, <2>3, <2>6, <2>7, <3>1, SettledFieldTypes
    <3> QED
      BY <2>1, <2>3, <2>7, <3>1, <3>2, <3>3 DEF Settled!OneOpenRow, Rows
  <2>12. Settled!Well(s) /\ Settled!Active(s, c)
    BY <2>1, <2>6, <2>7 DEF Settled!Well, Settled!Active, SameEpisode
  <2> QED
    BY <1>4, <2>1, <2>7, <2>8, <2>9, <2>10, <2>11, <2>12 DEF Settled!Sound
<1> QED
  BY <1>3, <1>4

-----------------------------------------------------------------------------
(* The parts of a call.                                                    *)

SameBooks(s, r) ==
  /\ SameAttempt(s, r) /\ s.pending = r.pending /\ s.settle = r.settle /\ s.history = r.history
  /\ s.settles = r.settles /\ s.falls = r.falls /\ s.timeouts = r.timeouts
  /\ s.resets = r.resets

\* What the books rest on is the attempt and its row.
LEMMA SettledBooksKeep ==
  ASSUME NEW c, NEW r, NEW s, s \in Settled!Episode, SameBooks(s, r),
         Settled!Balanced(r), Settled!OneOpenRow(r), Settled!Reached(r),
         s.pending => /\ s.slot >= 0 /\ s.band \in Settled!Bands /\ s.id >= 0 /\ ~s.settle
                      /\ (s.here => s.arrival),
         s.stopRecorded \/ (c = "gate" /\ ~s.retargeted) => ~s.pending
  PROVE  Settled!Sound(s, c)
<1>1. \A b \in Settled!Bands : Settled!Open(s, b) = Settled!Open(r, b)
  BY DEF Settled!Open, SameBooks, SameAttempt
<1>2. Settled!Balanced(s)
  BY <1>1 DEF Settled!Balanced, SameBooks, SameAttempt
<1>3. Settled!Reached(s)
  BY <1>1 DEF Settled!Reached, SameBooks, SameAttempt
<1>4. Settled!OneOpenRow(s)
  BY DEF Settled!OneOpenRow, SameBooks, SameAttempt
<1>5. Settled!Well(s) /\ Settled!Active(s, c)
  BY DEF Settled!Well, Settled!Active
<1> QED
  BY <1>2, <1>3, <1>4, <1>5 DEF Settled!Sound

LEMMA SettledSoundIs ==
  ASSUME NEW c, NEW r, Settled!Sound(r, c)
  PROVE  /\ r \in Settled!Episode /\ Settled!Balanced(r) /\ Settled!OneOpenRow(r) /\ Settled!Reached(r)
         /\ r.pending => /\ r.slot >= 0 /\ r.band \in Settled!Bands /\ r.id >= 0 /\ ~r.settle
                         /\ (r.here => r.arrival)
         /\ r.stopRecorded \/ (c = "gate" /\ ~r.retargeted) => ~r.pending
BY DEF Settled!Sound, Settled!Well, Settled!Active

LEMMA SettledPushKeeps ==
  ASSUME NEW c, NEW r, Settled!Sound(r, c), NEW s,
         \/ s = Settled!Push(r)
         \/ s = [r EXCEPT !.elapsed = IF @ < RetargetTime THEN @ + 1 ELSE @]
  PROVE  Settled!Sound(s, c) /\ SameBooks(s, r) /\ SameEpisode(s, r)
<1>1. r \in Settled!Episode /\ r.elapsed \in 0 .. RetargetTime /\ RetargetTime \in Nat
  BY SettledSoundIs, SettledFieldTypes, SequenceParameters
<1>2. PICK e \in 0 .. RetargetTime : e = IF r.elapsed < RetargetTime THEN r.elapsed + 1 ELSE r.elapsed
  BY <1>1
<1>3. PICK b \in BOOLEAN : \/ s = [r EXCEPT !.pushed = b]
                          \/ s = [r EXCEPT !.elapsed = e]
                          \/ s = r
  <2>1. CASE s = Settled!Push(r)
    BY <2>1, Zenon DEF Settled!Push
  <2>2. CASE s = [r EXCEPT !.elapsed = IF @ < RetargetTime THEN @ + 1 ELSE @]
    BY <1>2, <2>2, Zenon
  <2> QED
    BY <2>1, <2>2
<1>4. /\ s \in Settled!Episode /\ SameBooks(s, r) /\ SameEpisode(s, r)
      /\ s.stopRecorded = r.stopRecorded
  <2>1. CASE s = [r EXCEPT !.pushed = b]
    BY <1>1, <2>1 DEF Settled!Episode, SameBooks, SameAttempt, SameEpisode
  <2>2. CASE s = [r EXCEPT !.elapsed = e]
    BY <1>1, <2>2 DEF Settled!Episode, SameBooks, SameAttempt, SameEpisode
  <2>3. CASE s = r
    BY <1>1, <2>3 DEF SameBooks, SameAttempt, SameEpisode
  <2> QED
    BY <1>3, <2>1, <2>2, <2>3
<1> QED
  BY <1>4, SettledSoundIs, SettledBooksKeep DEF SameBooks, SameAttempt, SameEpisode

\* The retarget of a gate issues its first attempt.
LEMMA SettledRetargetKeeps ==
  ASSUME NEW r, Settled!Sound(r, "gate"), NEW s, s = Settled!Retarget(r)
  PROVE  /\ Settled!Sound(s, "gate") /\ s.settles = r.settles /\ s.arrivals = r.arrivals
         /\ s.credited = r.credited
         /\ \/ /\ s.retargeted /\ ~r.retargeted /\ s.id = r.id + 1 /\ s.dwell = 0
               /\ s.attempts = [r.attempts EXCEPT !["short"] = @ + 1]
            \/ s = r
<1>1. CASE ~(r.elapsed >= RetargetTime /\ ~r.retargeted)
  <2>1. s = r
    BY <1>1, Zenon DEF Settled!Retarget
  <2> QED
    BY <2>1
<1>2. CASE r.elapsed >= RetargetTime /\ ~r.retargeted
  <2>1. PICK t : t = Settled!Begin(r, "short")
    OBVIOUS
  <2>2. ~r.pending /\ "short" \in Settled!Bands
    BY <1>2, SettledSoundIs DEF Settled!Bands
  <2>3. /\ t \in Settled!Episode /\ t.pending /\ t.slot >= 0 /\ t.band \in Settled!Bands
        /\ ~t.arrival /\ ~t.settle /\ t.id = r.id + 1 /\ t.id >= 0
        /\ Settled!Balanced(t) /\ Settled!OneOpenRow(t) /\ Settled!Reached(t) /\ SameEpisode(t, r)
        /\ t.arrivals = r.arrivals /\ t.settles = r.settles
        /\ t.attempts = [r.attempts EXCEPT !["short"] = @ + 1]
    BY <2>1, <2>2, SettledBeginIs
  <2>4. s = [t EXCEPT !.retargeted = TRUE, !.here = FALSE, !.stopRecorded = FALSE,
                      !.dwell = 0, !.stable = 0]
    BY <1>2, <2>1, Zenon DEF Settled!Retarget
  <2>5. /\ s \in Settled!Episode /\ SameBooks(s, t) /\ s.retargeted /\ ~s.here /\ ~s.stopRecorded
        /\ s.dwell = 0 /\ s.credited = t.credited
    <3>1. 0 \in 0 .. HoldCalls /\ 0 \in 0 .. Calm /\ t \in Settled!Episode
      BY <2>3, SequenceParameters
    <3>2. [t EXCEPT !.retargeted = TRUE, !.here = FALSE, !.stopRecorded = FALSE,
                    !.dwell = 0, !.stable = 0] \in Settled!Episode
      BY <3>1 DEF Settled!Episode
    <3>4. s \in Settled!Episode
      BY <2>4, <3>2, Zenon
    <3>3. /\ s.retargeted /\ ~s.here /\ ~s.stopRecorded /\ s.dwell = 0 /\ s.credited = t.credited
          /\ SameBooks(s, t)
      BY <2>4, <3>1 DEF Settled!Episode, SameBooks, SameAttempt
    <3> QED
      BY <3>3, <3>4
  <2>6. Settled!Sound(s, "gate")
    BY <2>3, <2>5, SettledBooksKeep DEF SameBooks, SameAttempt
  <2> QED
    BY <1>2, <2>3, <2>5, <2>6 DEF SameBooks, SameAttempt, SameEpisode
<1> QED
  BY <1>1, <1>2

LEMMA SettledGateEventsKeep ==
  ASSUME NEW c \in Settled!Cohorts, NEW r, Settled!Sound(r, c), NEW s, s = Settled!GateEvents(r, c)
  PROVE  /\ Settled!Sound(s, c) /\ s.settles = r.settles /\ s.arrivals = r.arrivals
         /\ s.credited = r.credited
         /\ \/ /\ s.retargeted /\ ~r.retargeted /\ s.id = r.id + 1 /\ s.dwell = 0
               /\ c = "gate" /\ s.attempts = [r.attempts EXCEPT !["short"] = @ + 1]
            \/ SameAttempt(s, r) /\ SameEpisode(s, r) /\ s.pending = r.pending
<1>1. PICK t : t = [r EXCEPT !.elapsed = IF @ < RetargetTime THEN @ + 1 ELSE @]
  OBVIOUS
<1>2. Settled!Sound(t, c) /\ SameBooks(t, r) /\ SameEpisode(t, r)
  BY <1>1, SettledPushKeeps
<1>3. CASE c # "gate"
  <2>1. s = t
    BY <1>1, <1>3, Zenon DEF Settled!GateEvents
  <2> QED
    BY <1>2, <2>1 DEF SameBooks, SameAttempt, SameEpisode
<1>4. CASE c = "gate"
  <2>1. PICK u : u = Settled!Push(t)
    OBVIOUS
  <2>2. Settled!Sound(u, c) /\ SameBooks(u, t) /\ SameEpisode(u, t)
    BY <1>2, <2>1, SettledPushKeeps
  <2>3. s = Settled!Retarget(u)
    BY <1>1, <1>4, <2>1, Zenon DEF Settled!GateEvents
  <2>4. /\ Settled!Sound(s, "gate") /\ s.settles = u.settles /\ s.arrivals = u.arrivals
        /\ s.credited = u.credited
        /\ \/ /\ s.retargeted /\ ~u.retargeted /\ s.id = u.id + 1 /\ s.dwell = 0
              /\ s.attempts = [u.attempts EXCEPT !["short"] = @ + 1]
           \/ s = u
    BY <1>4, <2>2, <2>3, SettledRetargetKeeps
  <2>5. /\ SameAttempt(u, r) /\ SameEpisode(u, r) /\ u.pending = r.pending
        /\ u.settles = r.settles
    BY <1>2, <2>2 DEF SameBooks, SameAttempt, SameEpisode
  <2> QED
    BY <1>4, <2>4, <2>5 DEF SameAttempt, SameEpisode
<1> QED
  BY <1>3, <1>4

LEMMA SettledTrackRecoveryKeeps ==
  ASSUME NEW c, NEW r, Settled!Sound(r, c), NEW m \in Settled!Motion, NEW s, s = Settled!TrackRecovery(r, c, m)
  PROVE  Settled!Sound(s, c) /\ SameBooks(s, r) /\ SameEpisode(s, r)
<1>1. /\ r \in Settled!Episode /\ r.stable \in 0 .. Calm /\ r.recovered \in BOOLEAN /\ Calm \in Nat
      /\ m.calm \in BOOLEAN
  BY SettledSoundIs, SettledFieldTypes, SequenceParameters DEF Settled!Motion
<1>2. CASE ~(c = "gate" /\ r.pushed /\ ~r.retargeted)
  <2>1. s = r
    BY <1>2, Zenon DEF Settled!TrackRecovery
  <2> QED
    BY <2>1 DEF SameBooks, SameAttempt, SameEpisode
<1>3. CASE c = "gate" /\ r.pushed /\ ~r.retargeted
  <2>1. PICK n : n = IF ~m.calm THEN 0 ELSE IF r.stable < Calm THEN r.stable + 1 ELSE r.stable
    OBVIOUS
  <2>2. n \in 0 .. Calm
    BY <1>1, <2>1
  <2>3. PICK q \in BOOLEAN : q = (r.recovered \/ n >= Calm)
    BY Zenon
  <2>4. s = [r EXCEPT !.stable = n, !.recovered = q]
    BY <1>3, <2>1, <2>3, Zenon DEF Settled!TrackRecovery
  <2>5. [r EXCEPT !.stable = n, !.recovered = q] \in Settled!Episode
    BY <1>1, <2>2 DEF Settled!Episode
  <2>6. s \in Settled!Episode
    BY <2>4, <2>5, Zenon
  <2>7. SameBooks(s, r) /\ SameEpisode(s, r) /\ s.stopRecorded = r.stopRecorded
    BY <1>1, <2>4 DEF Settled!Episode, SameBooks, SameAttempt, SameEpisode
  <2> QED
    BY <2>6, <2>7, SettledSoundIs, SettledBooksKeep DEF SameBooks, SameAttempt, SameEpisode
<1> QED
  BY <1>2, <1>3

\* Who is at the target has arrived, if there is an attempt to arrive at.
LEMMA SettledTrackArrivalKeeps ==
  ASSUME NEW c, NEW r, Settled!Sound(r, c), NEW m \in Settled!Motion, NEW s, s = Settled!TrackArrival(r, c, m)
  PROVE  /\ Settled!Sound(s, c) /\ s.pending = r.pending /\ s.id = r.id /\ s.attempts = r.attempts
         /\ s.settles = r.settles /\ s.dwell = r.dwell /\ s.credited = r.credited
         /\ s.retargeted = r.retargeted
         /\ s.pending /\ m.place # "away" => s.arrival
         /\ \/ s.arrivals = r.arrivals
            \/ /\ r.arrivals[r.band] < r.attempts[r.band] /\ r.band \in Settled!Bands
               /\ s.arrivals = [r.arrivals EXCEPT ![r.band] = @ + 1]
<1> DEFINE within == m.place # "away" /\ (c # "gate" \/ r.retargeted)
<1>1. PICK a : a = Settled!RecordArrival(r)
  OBVIOUS
<1>2. /\ Settled!Sound(a, c) /\ (a.pending <=> r.pending) /\ (a.pending => a.arrival)
      /\ a.id = r.id /\ SameEpisode(a, r) /\ a.attempts = r.attempts /\ a.settles = r.settles
      /\ \/ a.arrivals = r.arrivals
         \/ /\ r.arrivals[r.band] < r.attempts[r.band] /\ r.band \in Settled!Bands
            /\ a.arrivals = [r.arrivals EXCEPT ![r.band] = @ + 1]
  BY <1>1, SettledRecordArrivalKeeps
<1>3. /\ r \in Settled!Episode /\ a \in Settled!Episode /\ r.second \in BOOLEAN /\ a.second \in BOOLEAN
      /\ r.here \in BOOLEAN /\ a.here \in BOOLEAN /\ r.retargeted \in BOOLEAN
      /\ a.pending \in BOOLEAN /\ r.pending \in BOOLEAN
  BY <1>2, SettledSoundIs, SettledFieldTypes
<1>4. PICK q \in BOOLEAN : q = (a.second \/ (c = "gate" /\ r.retargeted))
  BY Zenon
<1>5. CASE within /\ ~r.here
  <2>1. PICK b : b = [a EXCEPT !.second = q]
    OBVIOUS
  <2>2. PICK w \in BOOLEAN : w = (b.here \/ within)
    BY Zenon
  <2>8. s = [b EXCEPT !.here = w]
    BY <1>1, <1>4, <1>5, <2>1, <2>2, Zenon DEF Settled!TrackArrival
  <2>3. /\ b \in Settled!Episode /\ SameBooks(b, a) /\ SameEpisode(b, a)
        /\ b.stopRecorded = a.stopRecorded
    BY <1>3, <2>1 DEF Settled!Episode, SameBooks, SameAttempt, SameEpisode
  <2>4. b.here \in BOOLEAN
    BY <2>3, SettledFieldTypes
  <2>5. /\ s \in Settled!Episode /\ SameBooks(s, b) /\ s.dwell = b.dwell /\ s.credited = b.credited
        /\ s.retargeted = b.retargeted /\ s.stopRecorded = b.stopRecorded
    BY <2>3, <2>8 DEF Settled!Episode, SameBooks, SameAttempt, SameEpisode
  <2>6. /\ SameBooks(s, a) /\ s.stopRecorded = a.stopRecorded /\ s.retargeted = a.retargeted
    BY <2>3, <2>5 DEF SameBooks, SameAttempt, SameEpisode
  <2>7. Settled!Sound(s, c)
    BY <1>2, <2>5, <2>6, SettledSoundIs, SettledBooksKeep DEF SameBooks, SameAttempt
  <2> QED
    BY <1>2, <1>3, <2>3, <2>5, <2>6, <2>7 DEF SameBooks, SameAttempt, SameEpisode
<1>6. CASE ~(within /\ ~r.here)
  <2>1. s = [r EXCEPT !.here = @ \/ within]
    BY <1>6, Zenon DEF Settled!TrackArrival
  <2>2. /\ s \in Settled!Episode /\ SameBooks(s, r) /\ s.dwell = r.dwell /\ s.credited = r.credited
        /\ s.retargeted = r.retargeted /\ s.stopRecorded = r.stopRecorded
        /\ s.here <=> r.here
    BY <1>3, <1>6, <2>1 DEF Settled!Episode, SameBooks, SameAttempt, SameEpisode
  <2>3. Settled!Sound(s, c)
    BY <2>2, SettledSoundIs, SettledBooksKeep DEF SameBooks, SameAttempt
  <2>4. s.pending /\ m.place # "away" => s.arrival
    <3> SUFFICES ASSUME s.pending, m.place # "away" PROVE s.arrival
      OBVIOUS
    <3>1. r.pending /\ r.here
      BY <1>6, <2>2, SettledSoundIs DEF SameBooks
    <3> QED
      BY <2>2, <3>1, SettledSoundIs DEF SameBooks, SameAttempt
  <2> QED
    BY <2>2, <2>3, <2>4 DEF SameBooks, SameAttempt
<1> QED
  BY <1>5, <1>6

\* What the call has seen when it turns to the goal mix.
SeenOf(s, r, c, m) ==
  /\ Settled!Sound(s, c) /\ s.settles = r.settles /\ s.credited = r.credited
  /\ s.pending /\ m.place # "away" => s.arrival
  /\ \/ /\ s.retargeted /\ ~r.retargeted /\ s.id = r.id + 1 /\ s.dwell = 0
        /\ c = "gate" /\ s.attempts = [r.attempts EXCEPT !["short"] = @ + 1]
     \/ /\ s.id = r.id /\ s.attempts = r.attempts /\ s.dwell = r.dwell
        /\ s.retargeted = r.retargeted /\ (s.pending => r.pending)
  /\ \/ s.arrivals = r.arrivals
     \/ \E b \in Settled!Bands : /\ r.arrivals[b] < s.attempts[b]
                         /\ s.arrivals = [r.arrivals EXCEPT ![b] = @ + 1]

LEMMA SettledSeenIs ==
  ASSUME NEW c \in Settled!Cohorts, NEW r, Settled!Sound(r, c), NEW m \in Settled!Motion,
         NEW d \in {"no", "fall", "timeout"}
  PROVE  SeenOf(Settled!Seen(r, c, m, d), r, c, m)
<1> DEFINE s == Settled!Seen(r, c, m, d)
<1>1. PICK g : g = Settled!GateEvents(r, c)
  OBVIOUS
<1>2. PICK t : t = Settled!TrackRecovery(g, c, m)
  OBVIOUS
<1>3. PICK a : a = Settled!TrackArrival(t, c, m)
  OBVIOUS
<1>4. s = Settled!CloseDone(a, d)
  BY <1>1, <1>2, <1>3, Zenon DEF Settled!Seen
<1> HIDE DEF s
<1>5. /\ Settled!Sound(g, c) /\ g.settles = r.settles /\ g.arrivals = r.arrivals
      /\ g.credited = r.credited
      /\ \/ /\ g.retargeted /\ ~r.retargeted /\ g.id = r.id + 1 /\ g.dwell = 0
            /\ c = "gate" /\ g.attempts = [r.attempts EXCEPT !["short"] = @ + 1]
         \/ SameAttempt(g, r) /\ SameEpisode(g, r) /\ g.pending = r.pending
  BY <1>1, SettledGateEventsKeep
<1>6. Settled!Sound(t, c) /\ SameBooks(t, g) /\ SameEpisode(t, g)
  BY <1>2, <1>5, SettledTrackRecoveryKeeps
<1>7. /\ Settled!Sound(a, c) /\ a.pending = t.pending /\ a.id = t.id /\ a.attempts = t.attempts
      /\ a.settles = t.settles /\ a.dwell = t.dwell /\ a.credited = t.credited
      /\ a.retargeted = t.retargeted
      /\ a.pending /\ m.place # "away" => a.arrival
      /\ \/ a.arrivals = t.arrivals
         \/ /\ t.arrivals[t.band] < t.attempts[t.band] /\ t.band \in Settled!Bands
            /\ a.arrivals = [t.arrivals EXCEPT ![t.band] = @ + 1]
  BY <1>3, <1>6, SettledTrackArrivalKeeps
<1>8. /\ Settled!Sound(s, c) /\ SameAttempt(s, a) /\ SameEpisode(s, a) /\ s.settles = a.settles
      /\ (s.pending => a.pending)
  <2>1. CASE d = "no"
    <3>1. s = a
      BY <1>4, <2>1, Zenon DEF Settled!CloseDone
    <3> QED
      BY <1>7, <3>1 DEF SameAttempt, SameEpisode
  <2>2. CASE d # "no"
    <3>1. s = Settled!Finalize(a, d) /\ d \in {"fall", "timeout", "reset"}
      BY <1>4, <2>2, Zenon DEF Settled!CloseDone
    <3> QED
      BY <1>7, <3>1, SettledCloseKeeps
  <2> QED
    BY <2>1, <2>2
<1>9. /\ s.settles = r.settles /\ s.credited = r.credited
      /\ s.pending /\ m.place # "away" => s.arrival
  BY <1>5, <1>6, <1>7, <1>8 DEF SameBooks, SameAttempt, SameEpisode
<1>10. \/ /\ s.retargeted /\ ~r.retargeted /\ s.id = r.id + 1 /\ s.dwell = 0
          /\ c = "gate" /\ s.attempts = [r.attempts EXCEPT !["short"] = @ + 1]
       \/ /\ s.id = r.id /\ s.attempts = r.attempts /\ s.dwell = r.dwell
          /\ s.retargeted = r.retargeted /\ (s.pending => r.pending)
  BY <1>5, <1>6, <1>7, <1>8 DEF SameBooks, SameAttempt, SameEpisode
<1>11. t.arrivals = r.arrivals /\ s.arrivals = a.arrivals /\ s.attempts = t.attempts
  BY <1>5, <1>6, <1>7, <1>8 DEF SameBooks, SameAttempt, SameEpisode
<1>12. \/ s.arrivals = r.arrivals
       \/ \E b \in Settled!Bands : /\ r.arrivals[b] < s.attempts[b]
                           /\ s.arrivals = [r.arrivals EXCEPT ![b] = @ + 1]
  BY <1>7, <1>11
<1>13. SeenOf(s, r, c, m)
  BY <1>8, <1>9, <1>10, <1>12 DEF SeenOf
<1> QED
  BY <1>13 DEF s

\* The dwell of the call, in the sequence and in the reward alike.
Longer(n, m) == IF m.place # "settled" THEN 0 ELSE IF n < HoldCalls THEN n + 1 ELSE n

\* A stop is recorded of a robot that has dwelt at its target, and closes the attempt.
LEMMA SettledRecordStopIs ==
  ASSUME NEW c, NEW r, Settled!Sound(r, c), NEW m \in Settled!Motion,
         r.pending /\ m.place # "away" => r.arrival, NEW s, s = Settled!RecordStop(r, c, m)
  PROVE  /\ Settled!Sound(s, c) /\ SameAttempt(s, r) /\ s.credited = r.credited
         /\ s.retargeted = r.retargeted /\ s.dwell = Longer(r.dwell, m)
         /\ s.pending => r.pending /\ ~(Longer(r.dwell, m) >= HoldCalls)
         /\ Settled!Ready(r, m) <=> Longer(r.dwell, m) >= HoldCalls
         /\ \A b \in Settled!Bands : s.settles[b] > r.settles[b]
                               => r.pending /\ Longer(r.dwell, m) >= HoldCalls
<1>1. PICK w : w = Settled!Dwell(r, m)
  OBVIOUS
<1>2. PICK n \in 0 .. HoldCalls : n = Longer(r.dwell, m)
  <2>1. r.dwell \in 0 .. HoldCalls /\ HoldCalls \in Nat
    BY SettledSoundIs, SettledFieldTypes, SequenceParameters
  <2> QED
    BY <2>1 DEF Longer
<1>3. w = [r EXCEPT !.dwell = n]
  BY <1>1, <1>2, Zenon DEF Settled!Dwell, Longer
<1>4. /\ w \in Settled!Episode /\ SameBooks(w, r) /\ w.dwell = n /\ w.credited = r.credited
      /\ w.retargeted = r.retargeted /\ w.here = r.here /\ w.stopRecorded = r.stopRecorded
  <2>1. r \in Settled!Episode
    BY SettledSoundIs
  <2> QED
    BY <1>3, <2>1 DEF Settled!Episode, SameBooks, SameAttempt
<1>5. Settled!Sound(w, c)
  BY <1>4, SettledSoundIs, SettledBooksKeep DEF SameBooks, SameAttempt
<1>6. Settled!Ready(r, m) <=> n >= HoldCalls
  BY <1>1, <1>4 DEF Settled!Ready
<1>7. \A b \in Settled!Bands : r.settles[b] \in Nat
  BY SettledSoundIs, SettledFieldTypes DEF Settled!Counts
<1>8. CASE ~(Settled!Ready(r, m) /\ ~r.stopRecorded)
  <2>1. s = w
    BY <1>1, <1>8, Zenon DEF Settled!RecordStop
  <2>2. n >= HoldCalls => ~w.pending
    BY <1>4, <1>5, <1>6, <1>8, SettledSoundIs
  <2>3. w.settles = r.settles /\ SameAttempt(w, r) /\ w.pending = r.pending
    BY <1>4 DEF SameBooks
  <2>4. \A b \in Settled!Bands : ~(s.settles[b] > r.settles[b])
    BY <1>7, <2>1, <2>3
  <2> QED
    BY <1>2, <1>4, <1>5, <1>6, <2>1, <2>2, <2>3, <2>4
<1>9. CASE Settled!Ready(r, m) /\ ~r.stopRecorded
  <2>1. PICK g \in BOOLEAN : g = (c = "gate")
    BY Zenon
  <2>2. PICK t : t = Settled!RecordSettled(w, g)
    OBVIOUS
  <2>3. PICK p : p = (t.postStop \/ (c = "gate" /\ r.retargeted))
    OBVIOUS
  <2>4. s = [t EXCEPT !.postStop = p]
    BY <1>1, <1>9, <2>1, <2>2, <2>3, Zenon DEF Settled!RecordStop
  <2>5. p \in BOOLEAN
    BY <2>3, Zenon
  <2>6. n >= HoldCalls /\ m.place = "settled" /\ m.place # "away"
    <3>1. n >= HoldCalls /\ HoldCalls >= 1 /\ HoldCalls \in Nat
      BY <1>6, <1>9, SequenceParameters
    <3> QED
      BY <1>2, <3>1 DEF Longer
  <2>7. /\ Settled!Sound(t, c) /\ ~t.pending /\ SameAttempt(t, w) /\ SameEpisode(t, w)
        /\ ~w.pending => t = w
    <3>1. CASE w.pending
      <4>1. w.arrival
        BY <1>4, <2>6, <3>1 DEF SameBooks, SameAttempt
      <4> QED
        BY <1>5, <2>2, <3>1, <4>1, SettledRecordSettledKeeps
    <3>2. CASE ~w.pending
      <4>1. t = w
        BY <2>2, <3>2, Zenon DEF Settled!RecordSettled
      <4> QED
        BY <1>5, <3>2, <4>1 DEF SameAttempt, SameEpisode
    <3> QED
      BY <3>1, <3>2
  <2>8. /\ s \in Settled!Episode /\ SameBooks(s, t) /\ SameEpisode(s, t)
        /\ s.stopRecorded = t.stopRecorded
    <3>1. t \in Settled!Episode
      BY <2>7, SettledSoundIs
    <3> QED
      BY <2>4, <2>5, <3>1 DEF Settled!Episode, SameBooks, SameAttempt, SameEpisode
  <2>9. Settled!Sound(s, c)
    BY <2>7, <2>8, SettledSoundIs, SettledBooksKeep DEF SameBooks, SameAttempt, SameEpisode
  <2>10. /\ SameAttempt(s, r) /\ s.credited = r.credited /\ s.retargeted = r.retargeted
         /\ s.dwell = n /\ ~s.pending
    BY <1>4, <2>7, <2>8 DEF SameBooks, SameAttempt, SameEpisode
  <2>11. ~r.pending => s.settles = r.settles
    BY <1>4, <2>7, <2>8 DEF SameBooks
  <2>12. \A b \in Settled!Bands : s.settles[b] > r.settles[b] => r.pending
    BY <1>7, <2>11
  <2> QED
    BY <1>2, <1>6, <1>9, <2>6, <2>9, <2>10, <2>12
<1> QED
  BY <1>8, <1>9

\* A robot that has settled is given its next attempt, and only such a robot.
LEMMA SettledNextTargetIs ==
  ASSUME NEW c \in Settled!Cohorts, NEW r, Settled!Sound(r, c), NEW m \in Settled!Motion,
         r.pending /\ m.place # "away" => r.arrival, NEW band \in Settled!BandsFor(c),
         NEW s, s = Settled!NextTarget(r, c, m, band)
  PROVE  /\ Settled!Sound(s, c) /\ s.credited = r.credited /\ s.arrivals = r.arrivals
         /\ \/ /\ s.id = r.id /\ s.attempts = r.attempts
               /\ s.dwell = Longer(r.dwell, m)
               /\ s.pending => r.pending /\ ~(Longer(r.dwell, m) >= HoldCalls)
            \/ /\ s.id = r.id + 1 /\ s.dwell = 0 /\ band \in Settled!Bands
               /\ s.attempts = [r.attempts EXCEPT ![band] = @ + 1]
         /\ \A b \in Settled!Bands : s.settles[b] > r.settles[b]
                               => r.pending /\ Longer(r.dwell, m) >= HoldCalls
<1>1. PICK t : t = Settled!RecordStop(r, c, m)
  OBVIOUS
<1>2. /\ Settled!Sound(t, c) /\ SameAttempt(t, r) /\ t.credited = r.credited
      /\ t.retargeted = r.retargeted /\ t.dwell = Longer(r.dwell, m)
      /\ t.pending => r.pending /\ ~(Longer(r.dwell, m) >= HoldCalls)
      /\ Settled!Ready(r, m) <=> Longer(r.dwell, m) >= HoldCalls
      /\ \A b \in Settled!Bands : t.settles[b] > r.settles[b]
                            => r.pending /\ Longer(r.dwell, m) >= HoldCalls
  BY <1>1, SettledRecordStopIs
<1>3. CASE ~(Settled!Ready(r, m) /\ c # "gate")
  <2>1. s = t
    BY <1>1, <1>3, Zenon DEF Settled!NextTarget
  <2> QED
    BY <1>2, <2>1 DEF SameAttempt
<1>4. CASE Settled!Ready(r, m) /\ c # "gate"
  <2>1. ~t.pending /\ band \in Settled!Bands
    BY <1>2, <1>4 DEF Settled!BandsFor, Settled!Cohorts, Settled!Bands
  <2>2. PICK u : u = Settled!Begin(t, band)
    OBVIOUS
  <2>3. /\ u \in Settled!Episode /\ u.pending /\ u.slot >= 0 /\ u.band \in Settled!Bands
        /\ ~u.arrival /\ ~u.settle /\ u.id = t.id + 1 /\ u.id >= 0
        /\ Settled!Balanced(u) /\ Settled!OneOpenRow(u) /\ Settled!Reached(u) /\ SameEpisode(u, t)
        /\ u.arrivals = t.arrivals /\ u.settles = t.settles
        /\ u.attempts = [t.attempts EXCEPT ![band] = @ + 1]
    BY <1>2, <2>1, <2>2, SettledBeginIs
  <2>4. s = [u EXCEPT !.dwell = 0, !.here = FALSE, !.stopRecorded = FALSE]
    BY <1>1, <1>4, <2>2, Zenon DEF Settled!NextTarget
  <2>5. 0 \in 0 .. HoldCalls /\ u \in Settled!Episode
    BY <2>3, SequenceParameters
  <2>6. /\ s \in Settled!Episode /\ SameBooks(s, u) /\ ~s.here /\ ~s.stopRecorded /\ s.dwell = 0
        /\ s.credited = u.credited
    <3>1. s \in Settled!Episode
      <4>1. [u EXCEPT !.dwell = 0, !.here = FALSE, !.stopRecorded = FALSE] \in Settled!Episode
        BY <2>5 DEF Settled!Episode
      <4> QED
        BY <2>4, <4>1, Zenon
    <3>2. /\ ~s.here /\ ~s.stopRecorded /\ s.dwell = 0 /\ s.credited = u.credited
          /\ SameBooks(s, u)
      BY <2>4, <2>5 DEF Settled!Episode, SameBooks, SameAttempt
    <3> QED
      BY <3>1, <3>2
  <2>7. Settled!Sound(s, c)
    BY <1>4, <2>3, <2>6, SettledBooksKeep DEF SameBooks, SameAttempt
  <2> QED
    BY <1>2, <2>1, <2>3, <2>6, <2>7 DEF SameBooks, SameAttempt, SameEpisode
<1> QED
  BY <1>3, <1>4

-----------------------------------------------------------------------------
(* Episodes and steps.                                                     *)

\* Every band begins with nothing.
LEMMA SettledNoCountIs == Settled!NoCount \in Settled!Counts /\ \A b \in Settled!Bands : Settled!NoCount[b] = 0
BY DEF Settled!NoCount, Settled!Counts

LEMMA SettledFreshEpisodeIs ==
  ASSUME NEW c, NEW k, k.id \in Nat \cup {-1}, k.writes \in Nat, k.history \in [Rows -> OneRow],
         \A i \in Rows : k.history[i].reason # "pending", NEW s, s = Settled!FreshEpisode(k)
  PROVE  /\ Settled!Sound(s, c) /\ ~s.pending /\ ~s.credited /\ ~s.here /\ ~s.stopRecorded
         /\ s.dwell = 0 /\ s.id = k.id /\ s.attempts = Settled!NoCount /\ s.arrivals = Settled!NoCount
         /\ s.settles = Settled!NoCount
<1>1. /\ 0 \in 0 .. HoldCalls /\ 0 \in 0 .. Calm /\ 0 \in 0 .. RetargetTime
  BY SequenceParameters
<1>2. s \in Settled!Episode
  BY <1>1, SettledNoCountIs DEF Settled!FreshEpisode, Settled!Episode, OneRow, Rows
<1>3. /\ ~s.pending /\ ~s.credited /\ ~s.here /\ ~s.stopRecorded
      /\ s.dwell = 0 /\ s.id = k.id /\ s.attempts = Settled!NoCount /\ s.arrivals = Settled!NoCount
      /\ s.settles = Settled!NoCount /\ s.falls = Settled!NoCount /\ s.timeouts = Settled!NoCount
      /\ s.resets = Settled!NoCount /\ s.history = k.history /\ s.slot = -1
  BY DEF Settled!FreshEpisode
<1>4. \A b \in Settled!Bands : Settled!Open(s, b) = 0
  BY <1>3 DEF Settled!Open
<1>5. Settled!Balanced(s) /\ Settled!Reached(s)
  BY <1>3, <1>4, SettledNoCountIs DEF Settled!Balanced, Settled!Reached
<1>6. Settled!OneOpenRow(s)
  BY <1>3 DEF Settled!OneOpenRow, Rows
<1>7. Settled!Well(s) /\ Settled!Active(s, c)
  BY <1>2, <1>3 DEF Settled!Well, Settled!Active
<1> QED
  BY <1>3, <1>5, <1>6, <1>7 DEF Settled!Sound

\* A new episode has no account yet but the attempt it begins with.
StartOf(s, r, c, band) ==
  /\ Settled!Sound(s, c) /\ ~s.credited /\ s.dwell = 0
  /\ s.arrivals = Settled!NoCount /\ s.settles = Settled!NoCount
  /\ \/ s.attempts = Settled!NoCount /\ s.id = r.id
     \/ /\ s.attempts = [Settled!NoCount EXCEPT ![band] = @ + 1] /\ band \in Settled!Bands
        /\ s.id = r.id + 1

LEMMA SettledStartEpisodeIs ==
  ASSUME NEW c \in Settled!Cohorts, NEW r, Settled!Sound(r, c), NEW band \in Settled!BandsFor(c),
         NEW s, s = Settled!StartEpisode(r, c, band)
  PROVE  StartOf(s, r, c, band)
<1>1. PICK t : t = Settled!Finalize(r, "reset")
  OBVIOUS
<1>2. Settled!Sound(t, c) /\ ~t.pending /\ SameAttempt(t, r)
  BY <1>1, SettledCloseKeeps
<1>3. /\ t.id \in Nat \cup {-1} /\ t.writes \in Nat /\ t.history \in [Rows -> OneRow]
      /\ \A i \in Rows : t.history[i].reason # "pending"
  BY <1>2, SettledSoundIs, SettledFieldTypes DEF Settled!OneOpenRow, Rows
<1>4. PICK f : f = Settled!FreshEpisode(t)
  OBVIOUS
<1>5. /\ Settled!Sound(f, c) /\ ~f.pending /\ ~f.credited /\ ~f.here /\ ~f.stopRecorded
      /\ f.dwell = 0 /\ f.id = t.id /\ f.attempts = Settled!NoCount /\ f.arrivals = Settled!NoCount
      /\ f.settles = Settled!NoCount
  BY <1>3, <1>4, SettledFreshEpisodeIs
<1>6. CASE c = "gate"
  <2>1. s = f
    BY <1>1, <1>4, <1>6, Zenon DEF Settled!StartEpisode, Settled!ResetMetrics
  <2> QED
    BY <1>2, <1>5, <2>1 DEF SameAttempt, StartOf
<1>7. CASE c # "gate"
  <2>1. s = Settled!Begin(f, band)
    BY <1>1, <1>4, <1>7, Zenon DEF Settled!StartEpisode, Settled!ResetMetrics
  <2>2. band \in Settled!Bands
    BY <1>7 DEF Settled!BandsFor, Settled!Cohorts, Settled!Bands
  <2>3. /\ s \in Settled!Episode /\ s.pending /\ s.slot >= 0 /\ s.band \in Settled!Bands
        /\ ~s.arrival /\ ~s.settle /\ s.id = f.id + 1 /\ s.id >= 0
        /\ Settled!Balanced(s) /\ Settled!OneOpenRow(s) /\ Settled!Reached(s) /\ SameEpisode(s, f)
        /\ s.arrivals = f.arrivals /\ s.settles = f.settles
        /\ s.attempts = [f.attempts EXCEPT ![band] = @ + 1]
    BY <1>5, <2>1, <2>2, SettledBeginIs
  <2>4. ~s.stopRecorded
    BY <1>5, <2>1, SettledSoundIs DEF Settled!Begin, Settled!Finalize, Settled!Episode
  <2>5. Settled!Well(s) /\ Settled!Active(s, c)
    BY <1>5, <1>7, <2>3, <2>4 DEF Settled!Well, Settled!Active, SameEpisode
  <2>6. Settled!Sound(s, c)
    BY <2>3, <2>5 DEF Settled!Sound
  <2> QED
    BY <1>2, <1>5, <2>2, <2>3, <2>6 DEF SameEpisode, SameAttempt, StartOf
<1> QED
  BY <1>6, <1>7

-----------------------------------------------------------------------------
(* The reward beside it.                                                   *)

\* What an environment has issued so far, over the bands.
Total(f) == f["short"] + f["medium"] + f["long"]

LEMMA SettledTotalIs ==
  ASSUME NEW f \in Settled!Counts
  PROVE  /\ Total(f) \in Nat
         /\ \A b \in Settled!Bands : Total([f EXCEPT ![b] = @ + 1]) = Total(f) + 1
         /\ \A g \in Settled!Counts :
              Total([b \in Settled!Bands |-> f[b] + g[b]]) = Total(f) + Total(g)
BY DEF Total, Settled!Counts, Settled!Bands

LEMMA SettledInitIInv == ASSUME Settled!BonusInit PROVE Settled!IInv
<1>1. /\ v1 \in Settled!Cohorts /\ v3 = "no" /\ v4 = Settled!NoCredit
      /\ v5 = [dwell |-> 0, rewarded |-> FALSE, last |-> -1]
  BY DEF Settled!BonusInit, Settled!Init
<1>2. PICK b \in Settled!BandsFor(v1) : v2 = Settled!StartEpisode(Settled!FreshEpisode(Settled!Unborn), v1, b)
  BY DEF Settled!BonusInit, Settled!Init
<1>3. PICK u : u = Settled!Unborn
  OBVIOUS
<1>4. PICK f : f = Settled!FreshEpisode(u)
  OBVIOUS
<1>5. /\ u.id = -1 /\ u.writes = 0 /\ u.history \in [Rows -> OneRow]
      /\ \A i \in Rows : u.history[i].reason # "pending"
  BY <1>3 DEF Settled!Unborn, Settled!NoSlot, Rows, OneRow
<1>6. Settled!Sound(f, v1) /\ f.id = -1
  <2>1. u.id \in Nat \cup {-1} /\ u.writes \in Nat
    BY <1>5
  <2>2. Settled!Sound(f, v1) /\ f.id = u.id
    BY <1>4, <1>5, <2>1, SettledFreshEpisodeIs
  <2> QED
    BY <1>5, <2>2
<1>7. /\ Settled!Sound(v2, v1) /\ ~v2.credited /\ v2.dwell = 0
      /\ \/ v2.attempts = Settled!NoCount /\ v2.id = -1
         \/ /\ v2.attempts = [Settled!NoCount EXCEPT ![b] = @ + 1] /\ b \in Settled!Bands
            /\ v2.id = 0
  <2>1. StartOf(v2, f, v1, b)
    BY <1>1, <1>2, <1>3, <1>4, <1>6, SettledStartEpisodeIs
  <2> QED
    BY <1>6, <2>1 DEF StartOf
<1>8. Settled!CreditedOnce
  <2>1. Total(v4.tried) = 0 /\ Total(v2.attempts) <= v2.id + 1
    <3>1. Total(Settled!NoCount) = 0
      BY SettledNoCountIs DEF Total, Settled!Bands
    <3>2. v4.tried = Settled!NoCount
      BY <1>1 DEF Settled!NoCredit
    <3>3. Total(v2.attempts) <= v2.id + 1
      BY <1>7, <3>1, SettledNoCountIs, SettledTotalIs
    <3> QED
      BY <3>1, <3>2, <3>3
  <2>2. Total(v2.attempts) \in Nat /\ v2.id \in Int
    BY <1>7, SettledSoundIs, SettledFieldTypes, SettledTotalIs
  <2>3. Total(v4.tried) + (IF v2.credited THEN 0 ELSE Total(v2.attempts)) <= v2.id + 1
    BY <2>1, <2>2
  <2> QED
    BY <2>3 DEF Settled!CreditedOnce, Total
<1>9. Settled!ClocksAgree
  BY <1>1, <1>7, SettledSoundIs DEF Settled!ClocksAgree
<1>10. v4 \in [tried : Settled!Counts, won : Settled!Counts]
  BY <1>1, SettledNoCountIs DEF Settled!NoCredit
<1>11. v5 \in [dwell : 0 .. HoldCalls, rewarded : BOOLEAN, last : Nat \cup {-1}]
  BY <1>1, SequenceParameters
<1> QED
  BY <1>1, <1>7, <1>8, <1>9, <1>10, <1>11 DEF Settled!IInv

\* The term counts the same calls: of the attempt the robot is on it has paid, or its
\* clock is not behind.
LEMMA SettledRewardIs ==
  ASSUME Settled!IInv, NEW settled \in BOOLEAN, Settled!Reward(settled)
  PROVE  /\ v5' \in [dwell : 0 .. HoldCalls, rewarded : BOOLEAN, last : Nat \cup {-1}]
         /\ v5'.last = v2.id
         /\ v5'.rewarded \/ v5'.dwell >= 0
         /\ v2.pending /\ settled =>
              \/ v5'.rewarded
              \/ /\ v5'.dwell < HoldCalls
                 /\ v5'.dwell >= IF v2.dwell < HoldCalls THEN v2.dwell + 1 ELSE v2.dwell
<1> DEFINE changed == v2.id # v5.last
           counts == settled /\ v2.id >= 0
           before == IF changed THEN 0 ELSE v5.dwell
           dwell == IF ~counts THEN 0 ELSE IF before < HoldCalls THEN before + 1 ELSE before
           rewarded == v5.rewarded /\ ~changed
           paid == counts /\ ~rewarded /\ dwell >= HoldCalls
<1>1. /\ v2.id \in Nat \cup {-1} /\ v2.dwell \in 0 .. HoldCalls /\ HoldCalls \in Nat \ {0}
      /\ v5.dwell \in 0 .. HoldCalls /\ v5.rewarded \in BOOLEAN
      /\ v2.pending => v2.id >= 0
  BY SettledSoundIs, SettledFieldTypes, SequenceParameters DEF Settled!IInv
<1>2. v6' = paid /\ v5' = [dwell |-> dwell, rewarded |-> rewarded \/ paid, last |-> v2.id]
  BY DEF Settled!Reward
<1>3. dwell \in 0 .. HoldCalls
  BY <1>1
<1>4. (rewarded \/ paid) \in BOOLEAN
  BY Zenon
<1>5. ASSUME v2.pending, settled
      PROVE  rewarded \/ dwell >= HoldCalls \/ dwell >= IF v2.dwell < HoldCalls THEN v2.dwell + 1 ELSE v2.dwell
  <2>1. CASE changed
    <3>1. v2.dwell = 0 /\ dwell = 1
      BY <1>1, <1>5, <2>1 DEF Settled!IInv, Settled!ClocksAgree
    <3> QED
      BY <1>1, <3>1
  <2>2. CASE ~changed
    <3>1. v5.rewarded \/ v5.dwell >= v2.dwell
      BY <1>5, <2>2 DEF Settled!IInv, Settled!ClocksAgree
    <3> QED
      BY <1>1, <1>5, <2>2, <3>1
  <2> QED
    BY <2>1, <2>2
<1>6. ASSUME v2.pending, settled
      PROVE  dwell >= HoldCalls => rewarded \/ paid
  BY <1>1, <1>6
<1> HIDE DEF dwell, rewarded, paid
<1>7. /\ v5'.dwell = dwell /\ v5'.last = v2.id
      /\ v5'.rewarded <=> (rewarded \/ paid)
  BY <1>2
<1>8. v5' \in [dwell : 0 .. HoldCalls, rewarded : BOOLEAN, last : Nat \cup {-1}]
  BY <1>1, <1>2, <1>3, <1>4
<1> QED
  BY <1>1, <1>3, <1>5, <1>6, <1>7, <1>8

\* What a call does, in one place: the attempt it leaves, and what it has credited.
LEMMA SettledStepIs ==
  ASSUME Settled!IInv, NEW m \in Settled!Motion, NEW d \in {"no", "fall", "timeout"}, NEW b \in Settled!BandsFor(v1),
         Settled!Step(m, d, b), NEW seen, seen = Settled!Seen(v2, v1, m, d)
  PROVE  /\ Settled!Sound(seen, v1) /\ Settled!Sound(v2', v1) /\ v3' = d /\ v1' = v1
         /\ d = "no" => ~v2'.credited /\ v4' = v4
         /\ d # "no" => v2'.credited /\ v4' = Settled!CreditOf(v4, v1, seen)
         /\ seen.retargeted /\ ~v2.retargeted => m.place = "away"
         /\ v2'.arrivals = seen.arrivals
         /\ \/ /\ v2'.id = seen.id /\ v2'.attempts = seen.attempts
               /\ v2'.dwell = Longer(seen.dwell, m) /\ (v2'.pending => seen.pending)
            \/ /\ v2'.id = seen.id + 1 /\ v2'.dwell = 0 /\ b \in Settled!Bands
               /\ v2'.attempts = [seen.attempts EXCEPT ![b] = @ + 1]
         /\ \A x \in Settled!Bands : v2'.settles[x] > v2.settles[x]
                               => seen.pending /\ Longer(seen.dwell, m) >= HoldCalls
<1>1. /\ Settled!Sound(v2, v1) /\ v1 \in Settled!Cohorts /\ (v3 = "no" => ~v2.credited)
  BY DEF Settled!IInv
<1>2. /\ Settled!Sound(seen, v1) /\ seen.settles = v2.settles /\ seen.credited = v2.credited
      /\ (seen.pending /\ m.place # "away" => seen.arrival)
  <2>1. SeenOf(seen, v2, v1, m)
    BY <1>1, SettledSeenIs
  <2> QED
    BY <2>1 DEF SeenOf
<1>3. v3 = "no" /\ ~v2.credited /\ ~seen.credited
  BY <1>1, <1>2 DEF Settled!Step
<1>4. PICK q \in BOOLEAN : q = (d # "no" /\ ~seen.credited)
  BY Zenon
<1>5. PICK p \in BOOLEAN : p = (seen.credited \/ q)
  BY Zenon
<1>6. PICK k : k = [seen EXCEPT !.credited = p]
  OBVIOUS
<1>7. /\ v2' = Settled!NextTarget(k, v1, m, b) /\ v3' = d /\ v1' = v1
      /\ v4' = IF q THEN Settled!CreditOf(v4, v1, seen) ELSE v4
      /\ seen.retargeted /\ ~v2.retargeted => m.place = "away"
  <2>1. v2' = Settled!NextTarget(k, v1, m, b)
    BY <1>4, <1>5, <1>6, Zenon DEF Settled!Step
  <2>2. v4' = IF q THEN Settled!CreditOf(v4, v1, seen) ELSE v4
    BY <1>4, Zenon DEF Settled!Step
  <2> QED
    BY <2>1, <2>2 DEF Settled!Step
<1>8. (q <=> d # "no") /\ (p <=> d # "no")
  BY <1>3, <1>4, <1>5, Zenon
<1>9. /\ k \in Settled!Episode /\ SameBooks(k, seen) /\ k.dwell = seen.dwell /\ k.here = seen.here
      /\ k.retargeted = seen.retargeted /\ k.stopRecorded = seen.stopRecorded
      /\ (k.credited <=> p)
  <2>1. seen \in Settled!Episode
    BY <1>2, SettledSoundIs
  <2> QED
    BY <1>6, <2>1 DEF Settled!Episode, SameBooks, SameAttempt
<1>10. Settled!Sound(k, v1)
  BY <1>2, <1>9, SettledSoundIs, SettledBooksKeep DEF SameBooks, SameAttempt
<1>11. k.pending /\ m.place # "away" => k.arrival
  BY <1>2, <1>9 DEF SameBooks, SameAttempt
<1>12. /\ Settled!Sound(v2', v1) /\ v2'.credited = k.credited /\ v2'.arrivals = k.arrivals
       /\ \/ /\ v2'.id = k.id /\ v2'.attempts = k.attempts
             /\ v2'.dwell = Longer(k.dwell, m)
             /\ v2'.pending => k.pending /\ ~(Longer(k.dwell, m) >= HoldCalls)
          \/ /\ v2'.id = k.id + 1 /\ v2'.dwell = 0 /\ b \in Settled!Bands
             /\ v2'.attempts = [k.attempts EXCEPT ![b] = @ + 1]
       /\ \A x \in Settled!Bands : v2'.settles[x] > k.settles[x]
                             => k.pending /\ Longer(k.dwell, m) >= HoldCalls
  BY <1>1, <1>7, <1>10, <1>11, SettledNextTargetIs
<1>13. /\ k.id = seen.id /\ k.attempts = seen.attempts /\ k.arrivals = seen.arrivals
       /\ k.settles = v2.settles /\ k.pending = seen.pending /\ k.dwell = seen.dwell
  BY <1>2, <1>9 DEF SameBooks, SameAttempt
<1>14. /\ d = "no" => ~v2'.credited /\ v4' = v4
       /\ d # "no" => v2'.credited /\ v4' = Settled!CreditOf(v4, v1, seen)
  BY <1>7, <1>8, <1>9, <1>12
<1>15. \/ /\ v2'.id = seen.id /\ v2'.attempts = seen.attempts
          /\ v2'.dwell = Longer(seen.dwell, m) /\ (v2'.pending => seen.pending)
       \/ /\ v2'.id = seen.id + 1 /\ v2'.dwell = 0 /\ b \in Settled!Bands
          /\ v2'.attempts = [seen.attempts EXCEPT ![b] = @ + 1]
  BY <1>12, <1>13
<1>16. \A x \in Settled!Bands : v2'.settles[x] > v2.settles[x]
                           => seen.pending /\ Longer(seen.dwell, m) >= HoldCalls
  BY <1>12, <1>13
<1> QED
  BY <1>2, <1>7, <1>12, <1>13, <1>14, <1>15, <1>16

LEMMA SettledStepPreserves == ASSUME Settled!IInv, [Settled!BonusNext]_Settled!bonusVars PROVE Settled!IInv'
<1>1. CASE Settled!RewardedStep
  <2>1. PICK m \in Settled!Motion, d \in {"no", "fall", "timeout"}, b \in Settled!BandsFor(v1), w \in BOOLEAN :
          Settled!Step(m, d, b) /\ Settled!Reward(m.place = "settled" \/ (m.place = "near" /\ w))
    BY <1>1, Zenon DEF Settled!RewardedStep
  <2>2. PICK seen : seen = Settled!Seen(v2, v1, m, d)
    OBVIOUS
  <2>3. PICK q \in BOOLEAN : q = (m.place = "settled" \/ (m.place = "near" /\ w))
    BY Zenon
  <2>4. Settled!Reward(q)
    BY <2>1, <2>3
  <2>5. /\ v5' \in [dwell : 0 .. HoldCalls, rewarded : BOOLEAN, last : Nat \cup {-1}]
        /\ v5'.last = v2.id
        /\ v2.pending /\ q =>
             \/ v5'.rewarded
             \/ v5'.dwell >= IF v2.dwell < HoldCalls THEN v2.dwell + 1 ELSE v2.dwell
    BY <2>4, SettledRewardIs
  <2>6. /\ Settled!Sound(seen, v1) /\ Settled!Sound(v2', v1) /\ v3' = d /\ v1' = v1
        /\ d = "no" => ~v2'.credited /\ v4' = v4
        /\ d # "no" => v2'.credited /\ v4' = Settled!CreditOf(v4, v1, seen)
        /\ seen.retargeted /\ ~v2.retargeted => m.place = "away"
        /\ \/ /\ v2'.id = seen.id /\ v2'.attempts = seen.attempts
              /\ v2'.dwell = Longer(seen.dwell, m) /\ (v2'.pending => seen.pending)
           \/ /\ v2'.id = seen.id + 1 /\ v2'.dwell = 0 /\ b \in Settled!Bands
              /\ v2'.attempts = [seen.attempts EXCEPT ![b] = @ + 1]
    BY <2>1, <2>2, SettledStepIs
  <2>7. \/ /\ seen.retargeted /\ ~v2.retargeted /\ seen.id = v2.id + 1 /\ seen.dwell = 0
           /\ v1 = "gate"
        \/ /\ seen.id = v2.id /\ seen.attempts = v2.attempts /\ seen.dwell = v2.dwell
           /\ (seen.pending => v2.pending)
    <3>1. SeenOf(seen, v2, v1, m)
      BY <2>2, SettledSeenIs DEF Settled!IInv
    <3> QED
      BY <3>1 DEF SeenOf
  <2>8. /\ v2 \in Settled!Episode /\ seen \in Settled!Episode /\ v2' \in Settled!Episode /\ v1 \in Settled!Cohorts
        /\ v4 \in [tried : Settled!Counts, won : Settled!Counts]
    BY <2>6, SettledSoundIs DEF Settled!IInv
  <2>9. Settled!ClocksAgree'
    <3>1. /\ v2.id \in Int /\ seen.id \in Int /\ v2.dwell \in 0 .. HoldCalls /\ HoldCalls \in Nat \ {0}
          /\ v5'.dwell \in 0 .. HoldCalls
      BY <2>5, <2>8, SettledFieldTypes, SequenceParameters
    <3> SUFFICES ASSUME v2'.pending
                 PROVE  IF v5'.last = v2'.id THEN v5'.rewarded \/ v5'.dwell >= v2'.dwell
                        ELSE v2'.dwell = 0
      BY DEF Settled!ClocksAgree
    <3>2. CASE seen.id = v2.id + 1 /\ seen.dwell = 0 /\ m.place = "away"
      BY <2>5, <2>6, <3>1, <3>2 DEF Longer
    <3>3. CASE v2'.id = seen.id + 1 /\ v2'.dwell = 0 /\ (seen.id = v2.id \/ seen.id = v2.id + 1)
      BY <2>5, <3>1, <3>3
    <3>4. CASE /\ v2'.id = v2.id /\ v2'.dwell = Longer(v2.dwell, m) /\ v2.pending
      <4>1. CASE m.place = "settled"
        BY <2>3, <2>5, <3>1, <3>4, <4>1 DEF Longer
      <4>2. CASE m.place # "settled"
        BY <2>5, <3>1, <3>4, <4>2 DEF Longer
      <4> QED
        BY <4>1, <4>2
    <3> QED
      BY <2>6, <2>7, <3>2, <3>3, <3>4
  <2>10. v4' \in [tried : Settled!Counts, won : Settled!Counts]
    <3>1. seen.attempts \in Settled!Counts /\ seen.arrivals \in Settled!Counts
      BY <2>8, SettledFieldTypes
    <3>2. Settled!CreditOf(v4, v1, seen) \in [tried : Settled!Counts, won : Settled!Counts]
      BY <2>8, <3>1 DEF Settled!CreditOf, Settled!Counts
    <3> QED
      BY <2>1, <2>6, <2>8, <3>2
  <2>11. Settled!CreditedOnce'
    <3> SUFFICES ASSUME v1 = "navigation"
                 PROVE  Total(v4'.tried) + (IF v2'.credited THEN 0 ELSE Total(v2'.attempts))
                          <= v2'.id + 1
      BY <2>6 DEF Settled!CreditedOnce, Total
    <3>1. /\ ~v2.credited /\ seen.id = v2.id /\ seen.attempts = v2.attempts
      BY <2>1, <2>7 DEF Settled!IInv, Settled!Step
    <3>2. Total(v4.tried) + Total(v2.attempts) <= v2.id + 1
      BY <3>1 DEF Settled!IInv, Settled!CreditedOnce, Total
    <3>3. /\ v2.attempts \in Settled!Counts /\ v2.id \in Int /\ v4.tried \in Settled!Counts
          /\ Total(v2.attempts) \in Nat /\ Total(v4.tried) \in Nat
      BY <2>8, SettledFieldTypes, SettledTotalIs
    <3>4. \/ v2'.id = v2.id /\ Total(v2'.attempts) = Total(v2.attempts)
          \/ v2'.id = v2.id + 1 /\ Total(v2'.attempts) = Total(v2.attempts) + 1
      <4>1. CASE v2'.id = seen.id /\ v2'.attempts = seen.attempts
        BY <3>1, <4>1
      <4>2. CASE /\ v2'.id = seen.id + 1 /\ b \in Settled!Bands
                 /\ v2'.attempts = [seen.attempts EXCEPT ![b] = @ + 1]
        BY <3>1, <3>3, <4>2, SettledTotalIs
      <4> QED
        BY <2>6, <4>1, <4>2
    <3>5. CASE d = "no"
      BY <2>6, <3>2, <3>3, <3>4, <3>5
    <3>6. CASE d # "no"
      <4>1. v4'.tried = [x \in Settled!Bands |-> v4.tried[x] + v2.attempts[x]]
        BY <2>6, <3>1, <3>6 DEF Settled!CreditOf
      <4>2. Total(v4'.tried) = Total(v4.tried) + Total(v2.attempts)
        BY <3>3, <4>1, SettledTotalIs
      <4> QED
        BY <2>6, <3>2, <3>3, <3>4, <3>6, <4>2
    <3> QED
      BY <3>5, <3>6
  <2> QED
    BY <2>1, <2>5, <2>6, <2>8, <2>9, <2>10, <2>11 DEF Settled!IInv
<1>2. CASE Settled!RewardedReset
  <2>1. PICK b \in Settled!BandsFor(v1) : v2' = Settled!StartEpisode(v2, v1, b)
    BY <1>2 DEF Settled!RewardedReset, Settled!ResetDone
  <2>2. /\ v3' = "no" /\ v1' = v1 /\ v4' = v4
        /\ v5' = [dwell |-> 0, rewarded |-> FALSE, last |-> -1]
    BY <1>2 DEF Settled!RewardedReset, Settled!ResetDone
  <2>3. /\ Settled!Sound(v2, v1) /\ v1 \in Settled!Cohorts /\ v4 \in [tried : Settled!Counts, won : Settled!Counts]
    BY DEF Settled!IInv
  <2>4. /\ Settled!Sound(v2', v1) /\ ~v2'.credited /\ v2'.dwell = 0
        /\ \/ v2'.attempts = Settled!NoCount /\ v2'.id = v2.id
           \/ /\ v2'.attempts = [Settled!NoCount EXCEPT ![b] = @ + 1] /\ b \in Settled!Bands
              /\ v2'.id = v2.id + 1
    <3>1. StartOf(v2', v2, v1, b)
      BY <2>1, <2>3, SettledStartEpisodeIs
    <3> QED
      BY <3>1 DEF StartOf
  <2>5. /\ v2.id \in Int /\ v2'.id \in Int /\ v2.attempts \in Settled!Counts
        /\ v2'.attempts \in Settled!Counts
    BY <2>3, <2>4, SettledSoundIs, SettledFieldTypes
  <2>6. /\ Total(v4.tried) \in Nat /\ Total(v2.attempts) \in Nat
        /\ Total(v2'.attempts) \in Nat /\ Total(Settled!NoCount) = 0
    <3>1. Total(Settled!NoCount) = 0
      BY SettledNoCountIs DEF Total, Settled!Bands
    <3> QED
      BY <2>3, <2>5, <3>1, SettledTotalIs
  <2>7. v2'.id = v2.id + Total(v2'.attempts)
    <3>1. CASE v2'.attempts = Settled!NoCount /\ v2'.id = v2.id
      BY <2>5, <2>6, <3>1
    <3>2. CASE /\ v2'.attempts = [Settled!NoCount EXCEPT ![b] = @ + 1] /\ b \in Settled!Bands
               /\ v2'.id = v2.id + 1
      BY <2>5, <2>6, <3>2, SettledNoCountIs, SettledTotalIs
    <3> QED
      BY <2>4, <3>1, <3>2
  <2>8. v1 = "navigation" =>
          Total(v4.tried) + (IF v2.credited THEN 0 ELSE Total(v2.attempts)) <= v2.id + 1
    BY DEF Settled!IInv, Settled!CreditedOnce, Total
  <2>9. v1 = "navigation" =>
          Total(v4.tried) + (IF v2'.credited THEN 0 ELSE Total(v2'.attempts)) <= v2'.id + 1
    BY <2>4, <2>5, <2>6, <2>7, <2>8
  <2>10. Settled!CreditedOnce'
    BY <2>2, <2>9 DEF Settled!CreditedOnce, Total
  <2>11. Settled!ClocksAgree'
    BY <2>2, <2>4, SettledSoundIs DEF Settled!ClocksAgree
  <2>12. v5' \in [dwell : 0 .. HoldCalls, rewarded : BOOLEAN, last : Nat \cup {-1}]
    BY <2>2, SequenceParameters
  <2> QED
    BY <2>2, <2>3, <2>4, <2>10, <2>11, <2>12 DEF Settled!IInv
<1>3. CASE UNCHANGED Settled!bonusVars
  <2>1. UNCHANGED <<v1, v2, v3, v4, v5>>
    BY <1>3 DEF Settled!bonusVars, Settled!vars
  <2> QED
    BY <2>1 DEF Settled!IInv, Settled!CreditedOnce, Settled!ClocksAgree
<1> QED
  BY <1>1, <1>2, <1>3 DEF Settled!BonusNext

-----------------------------------------------------------------------------
(* What follows from the invariant.                                        *)

LEMMA SettledBooksHold ==
  ASSUME Settled!IInv PROVE Settled!AttemptBooks /\ Settled!HistoryAgrees /\ Settled!CreditedOnce /\ Settled!SettledWasReached
<1>1. v2 \in Settled!Episode /\ Settled!Balanced(v2) /\ Settled!OneOpenRow(v2) /\ Settled!Reached(v2)
  BY SettledSoundIs DEF Settled!IInv
<1>2. Settled!AttemptBooks
  BY <1>1 DEF Settled!AttemptBooks, Settled!Balanced, Settled!Open
<1>3. Settled!HistoryAgrees
  <2>1. DOMAIN v2.history = 0 .. HistoryCapacity - 1
    BY <1>1, SettledFieldTypes DEF Rows
  <2> QED
    BY <1>1, <2>1 DEF Settled!HistoryAgrees, Settled!OneOpenRow
<1>4. Settled!SettledWasReached
  <2> SUFFICES ASSUME NEW b \in Settled!Bands
               PROVE  v2.settles[b] <= v2.arrivals[b] /\ v2.arrivals[b] <= v2.attempts[b]
    BY DEF Settled!SettledWasReached
  <2>1. /\ v2.attempts[b] \in Nat /\ v2.arrivals[b] \in Nat /\ v2.settles[b] \in Nat
        /\ Settled!Open(v2, b) \in Nat
    BY <1>1, SettledFieldTypes DEF Settled!Counts, Settled!Open
  <2>2. /\ v2.settles[b] + (IF v2.arrival THEN Settled!Open(v2, b) ELSE 0) <= v2.arrivals[b]
        /\ v2.arrivals[b] + (IF v2.arrival THEN 0 ELSE Settled!Open(v2, b)) <= v2.attempts[b]
    BY <1>1 DEF Settled!Reached
  <2> QED
    BY <2>1, <2>2
<1> QED
  BY <1>2, <1>3, <1>4 DEF Settled!IInv

LEMMA SettledStopsArePaid == ASSUME Settled!IInv, [Settled!BonusNext]_Settled!bonusVars PROVE Settled!SettledIsPaid
<1>1. \A b \in Settled!Bands : v2.settles[b] \in Nat
  BY SettledSoundIs, SettledFieldTypes DEF Settled!IInv, Settled!Counts
<1>2. CASE Settled!RewardedStep
  <2>1. PICK m \in Settled!Motion, d \in {"no", "fall", "timeout"}, b \in Settled!BandsFor(v1), w \in BOOLEAN :
          Settled!Step(m, d, b) /\ Settled!Reward(m.place = "settled" \/ (m.place = "near" /\ w))
    BY <1>2, Zenon DEF Settled!RewardedStep
  <2>2. PICK seen : seen = Settled!Seen(v2, v1, m, d)
    OBVIOUS
  <2>3. PICK q \in BOOLEAN : q = (m.place = "settled" \/ (m.place = "near" /\ w))
    BY Zenon
  <2>4. Settled!Reward(q)
    BY <2>1, <2>3
  <2>5. /\ v5' \in [dwell : 0 .. HoldCalls, rewarded : BOOLEAN, last : Nat \cup {-1}]
        /\ v5'.last = v2.id
        /\ v2.pending /\ q =>
             \/ v5'.rewarded
             \/ /\ v5'.dwell < HoldCalls
                /\ v5'.dwell >= IF v2.dwell < HoldCalls THEN v2.dwell + 1 ELSE v2.dwell
    BY <2>4, SettledRewardIs
  <2>6. /\ seen.retargeted /\ ~v2.retargeted => m.place = "away"
        /\ \A x \in Settled!Bands : v2'.settles[x] > v2.settles[x]
                              => seen.pending /\ Longer(seen.dwell, m) >= HoldCalls
    BY <2>1, <2>2, SettledStepIs
  <2>7. \/ seen.retargeted /\ ~v2.retargeted
        \/ seen.dwell = v2.dwell /\ (seen.pending => v2.pending)
    <3>1. SeenOf(seen, v2, v1, m)
      BY <2>2, SettledSeenIs DEF Settled!IInv
    <3> QED
      BY <3>1 DEF SeenOf
  <2> SUFFICES ASSUME NEW x \in Settled!Bands, v2'.settles[x] > v2.settles[x]
               PROVE  v5'.rewarded /\ v5'.last = v2.id
    BY DEF Settled!SettledIsPaid
  <2>8. seen.pending /\ Longer(seen.dwell, m) >= HoldCalls
    BY <2>6
  <2>9. /\ HoldCalls \in Nat \ {0} /\ v2.dwell \in 0 .. HoldCalls /\ v5'.dwell \in 0 .. HoldCalls
    BY <2>5, SettledSoundIs, SettledFieldTypes, SequenceParameters DEF Settled!IInv
  <2>10. m.place = "settled"
    BY <2>8, <2>9 DEF Longer
  <2>11. v2.pending /\ Longer(v2.dwell, m) >= HoldCalls
    BY <2>6, <2>7, <2>8, <2>10
  <2>12. (IF v2.dwell < HoldCalls THEN v2.dwell + 1 ELSE v2.dwell) >= HoldCalls
    BY <2>10, <2>11 DEF Longer
  <2>13. q
    BY <2>3, <2>10
  <2> QED
    BY <2>5, <2>9, <2>11, <2>12, <2>13
<1>3. CASE Settled!RewardedReset
  <2>1. PICK b \in Settled!BandsFor(v1) : v2' = Settled!StartEpisode(v2, v1, b)
    BY <1>3 DEF Settled!RewardedReset, Settled!ResetDone
  <2>2. v2'.settles = Settled!NoCount
    <3>1. Settled!Sound(v2, v1) /\ v1 \in Settled!Cohorts
      BY DEF Settled!IInv
    <3> QED
      <4>1. StartOf(v2', v2, v1, b)
        BY <2>1, <3>1, SettledStartEpisodeIs
      <4> QED
        BY <4>1 DEF StartOf
  <2> QED
    BY <1>1, <2>2, SettledNoCountIs DEF Settled!SettledIsPaid
<1>4. CASE UNCHANGED Settled!bonusVars
  <2>1. v2' = v2
    BY <1>4 DEF Settled!bonusVars, Settled!vars
  <2> QED
    BY <1>1, <2>1 DEF Settled!SettledIsPaid
<1> QED
  BY <1>2, <1>3, <1>4 DEF Settled!BonusNext

-----------------------------------------------------------------------------
(* To the goal mix the environment is an episode ledger.                   *)

\* One more attempt, or one more arrival, is one more on the account, or, for a medium
\* target, none.
LEMMA SettledOnAccountIs ==
  ASSUME NEW a \in Settled!Counts, NEW w \in Settled!Counts
  PROVE  /\ Settled!OnAccount(a, w) = [tried |-> [k \in {"short", "long"} |-> a[k]],
                               won |-> [k \in {"short", "long"} |-> w[k]]]
BY DEF Settled!OnAccount

LEMMA SettledIssueOnAccount ==
  ASSUME NEW a \in Settled!Counts, NEW w \in Settled!Counts, NEW s,
         s = a \/ \E b \in Settled!Bands : s = [a EXCEPT ![b] = @ + 1]
  PROVE  Settled!OnAccount(s, w) \in Settled!Ledger!Issue(Settled!OnAccount(a, w))
<1>1. CASE s = a
  BY <1>1 DEF Settled!Ledger!Issue
<1>2. ASSUME NEW b \in Settled!Bands, s = [a EXCEPT ![b] = @ + 1]
      PROVE  Settled!OnAccount(s, w) \in Settled!Ledger!Issue(Settled!OnAccount(a, w))
  <2>1. s \in Settled!Counts
    BY <1>2 DEF Settled!Counts
  <2>2. CASE b = "medium"
    <3>1. s["short"] = a["short"] /\ s["long"] = a["long"]
      BY <1>2, <2>2 DEF Settled!Counts, Settled!Bands
    <3>2. [k \in {"short", "long"} |-> s[k]] = [k \in {"short", "long"} |-> a[k]]
      BY <3>1
    <3>3. Settled!OnAccount(s, w) = Settled!OnAccount(a, w)
      BY <3>2, Zenon DEF Settled!OnAccount
    <3> QED
      BY <3>3 DEF Settled!Ledger!Issue
  <2>3. CASE b \in {"short", "long"}
    <3> DEFINE t == [k \in {"short", "long"} |-> a[k]]
               u == [k \in {"short", "long"} |-> s[k]]
               v == [k \in {"short", "long"} |-> w[k]]
    <3>1. u = [t EXCEPT ![b] = @ + 1]
      BY <1>2, <2>3 DEF Settled!Counts, Settled!Bands
    <3>2. Settled!OnAccount(s, w) = [tried |-> u, won |-> v] /\ Settled!OnAccount(a, w) = [tried |-> t, won |-> v]
      BY <2>1, SettledOnAccountIs
    <3> HIDE DEF t, u, v
    <3>3. [tried |-> u, won |-> v] = [[tried |-> t, won |-> v] EXCEPT !.tried[b] = @ + 1]
      BY <3>1
    <3> QED
      BY <2>3, <3>2, <3>3 DEF Settled!Ledger!Issue, Settled!Ledger!Lengths
  <2> QED
    BY <2>2, <2>3 DEF Settled!Bands
<1> QED
  BY <1>1, <1>2

LEMMA SettledReachOnAccount ==
  ASSUME NEW a \in Settled!Counts, NEW w \in Settled!Counts, NEW s,
         s = w \/ \E b \in Settled!Bands : w[b] < a[b] /\ s = [w EXCEPT ![b] = @ + 1]
  PROVE  Settled!OnAccount(a, s) \in Settled!Ledger!Reach(Settled!OnAccount(a, w))
<1>1. CASE s = w
  BY <1>1 DEF Settled!Ledger!Reach
<1>2. ASSUME NEW b \in Settled!Bands, w[b] < a[b], s = [w EXCEPT ![b] = @ + 1]
      PROVE  Settled!OnAccount(a, s) \in Settled!Ledger!Reach(Settled!OnAccount(a, w))
  <2>1. s \in Settled!Counts
    BY <1>2 DEF Settled!Counts
  <2>2. CASE b = "medium"
    <3>1. s["short"] = w["short"] /\ s["long"] = w["long"]
      BY <1>2, <2>2 DEF Settled!Counts, Settled!Bands
    <3>2. [k \in {"short", "long"} |-> s[k]] = [k \in {"short", "long"} |-> w[k]]
      BY <3>1
    <3>3. Settled!OnAccount(a, s) = Settled!OnAccount(a, w)
      BY <3>2, Zenon DEF Settled!OnAccount
    <3> QED
      BY <3>3 DEF Settled!Ledger!Reach
  <2>3. CASE b \in {"short", "long"}
    <3> DEFINE t == [k \in {"short", "long"} |-> w[k]]
               u == [k \in {"short", "long"} |-> s[k]]
               v == [k \in {"short", "long"} |-> a[k]]
    <3>1. u = [t EXCEPT ![b] = @ + 1] /\ t[b] < v[b]
      BY <1>2, <2>3 DEF Settled!Counts, Settled!Bands
    <3>2. Settled!OnAccount(a, s) = [tried |-> v, won |-> u] /\ Settled!OnAccount(a, w) = [tried |-> v, won |-> t]
      BY <2>1, SettledOnAccountIs
    <3> HIDE DEF t, u, v
    <3>3. [tried |-> v, won |-> u] = [[tried |-> v, won |-> t] EXCEPT !.won[b] = @ + 1]
      BY <3>1
    <3>4. PICK o : o = Settled!OnAccount(a, w)
      OBVIOUS
    <3>5. b \in {k \in Settled!Ledger!Lengths : o.won[k] < o.tried[k]}
      BY <2>3, <3>1, <3>2, <3>4 DEF Settled!Ledger!Lengths
    <3>6. Settled!OnAccount(a, s) = [o EXCEPT !.won[b] = @ + 1]
      BY <3>2, <3>3, <3>4, Zenon
    <3> QED
      BY <3>4, <3>5, <3>6, Zenon DEF Settled!Ledger!Reach
  <2> QED
    BY <2>2, <2>3 DEF Settled!Bands
<1> QED
  BY <1>1, <1>2

LEMMA SettledCreditOnAccount ==
  ASSUME NEW k \in [tried : Settled!Counts, won : Settled!Counts], NEW a \in Settled!Counts, NEW w \in Settled!Counts, NEW r,
         r.attempts = a, r.arrivals = w, NEW s, s = Settled!CreditOf(k, "navigation", r)
  PROVE  Settled!OnAccount(s.tried, s.won) = Settled!Ledger!Plus(Settled!OnAccount(k.tried, k.won), Settled!OnAccount(a, w))
<1>1. /\ s.tried = [b \in Settled!Bands |-> k.tried[b] + a[b]]
      /\ s.won = [b \in Settled!Bands |-> k.won[b] + w[b]]
  BY DEF Settled!CreditOf
<1>2. s.tried \in Settled!Counts /\ s.won \in Settled!Counts /\ k.tried \in Settled!Counts /\ k.won \in Settled!Counts
  BY <1>1 DEF Settled!Counts
<1>3. /\ [x \in {"short", "long"} |-> s.tried[x]] = [x \in {"short", "long"} |-> k.tried[x] + a[x]]
      /\ [x \in {"short", "long"} |-> s.won[x]] = [x \in {"short", "long"} |-> k.won[x] + w[x]]
  BY <1>1 DEF Settled!Bands
<1>4. Settled!OnAccount(s.tried, s.won) =
        [tried |-> [x \in {"short", "long"} |-> k.tried[x] + a[x]],
         won |-> [x \in {"short", "long"} |-> k.won[x] + w[x]]]
  BY <1>3, Zenon DEF Settled!OnAccount
<1>5. PICK u, v : u = Settled!OnAccount(k.tried, k.won) /\ v = Settled!OnAccount(a, w)
  OBVIOUS
<1>6. \A x \in {"short", "long"} : /\ u.tried[x] = k.tried[x] /\ u.won[x] = k.won[x]
                                  /\ v.tried[x] = a[x] /\ v.won[x] = w[x]
  BY <1>2, <1>5, SettledOnAccountIs
<1>7. /\ [x \in {"short", "long"} |-> u.tried[x] + v.tried[x]]
           = [x \in {"short", "long"} |-> k.tried[x] + a[x]]
      /\ [x \in {"short", "long"} |-> u.won[x] + v.won[x]]
           = [x \in {"short", "long"} |-> k.won[x] + w[x]]
  BY <1>6
<1> QED
  BY <1>4, <1>5, <1>7, Zenon DEF Settled!Ledger!Plus, Settled!Ledger!Lengths

LEMMA SettledNothingOnAccount == Settled!OnAccount(Settled!NoCount, Settled!NoCount) = Settled!Ledger!Empty
<1>1. [k \in {"short", "long"} |-> Settled!NoCount[k]] = [k \in {"short", "long"} |-> 0]
  BY DEF Settled!NoCount, Settled!Bands
<1> QED
  BY <1>1, SettledNoCountIs, SettledOnAccountIs DEF Settled!Ledger!Empty,
     Settled!Ledger!None, Settled!Ledger!Lengths

LEMMA SettledLedgerBegins == ASSUME Settled!BonusInit PROVE Settled!Ledger!LedgerInit
<1>1. /\ v1 \in Settled!Cohorts /\ v3 = "no" /\ v4 = Settled!NoCredit
  BY DEF Settled!BonusInit, Settled!Init
<1>2. PICK b \in Settled!BandsFor(v1) : v2 = Settled!StartEpisode(Settled!FreshEpisode(Settled!Unborn), v1, b)
  BY DEF Settled!BonusInit, Settled!Init
<1>3. PICK u : u = Settled!Unborn
  OBVIOUS
<1>4. PICK f : f = Settled!FreshEpisode(u)
  OBVIOUS
<1>5. /\ u.id = -1 /\ u.writes = 0 /\ u.history \in [Rows -> OneRow]
      /\ \A i \in Rows : u.history[i].reason # "pending"
  BY <1>3 DEF Settled!Unborn, Settled!NoSlot, Rows, OneRow
<1>6. Settled!Sound(f, v1)
  BY <1>4, <1>5, SettledFreshEpisodeIs
<1>7. /\ v2.arrivals = Settled!NoCount
      /\ v2.attempts = Settled!NoCount \/ \E x \in Settled!Bands : v2.attempts = [Settled!NoCount EXCEPT ![x] = @ + 1]
  <2>1. StartOf(v2, f, v1, b)
    BY <1>1, <1>2, <1>3, <1>4, <1>6, SettledStartEpisodeIs
  <2> QED
    BY <2>1 DEF StartOf
<1>8. Settled!OnAccount(v2.attempts, v2.arrivals) \in Settled!Ledger!Issue(Settled!Ledger!Empty)
  BY <1>7, SettledNoCountIs, SettledIssueOnAccount, SettledNothingOnAccount
<1>9. Settled!OnAccount(v4.tried, v4.won) = Settled!Ledger!Empty
  BY <1>1, SettledNothingOnAccount DEF Settled!NoCredit
<1>10. (v3 # "no") = FALSE
  BY <1>1
<1> QED
  BY <1>1, <1>8, <1>9, <1>10 DEF Settled!Ledger!LedgerInit, Settled!Cohorts

LEMMA SettledLedgerGoesOn ==
  ASSUME Settled!IInv, [Settled!BonusNext]_Settled!bonusVars
  PROVE  Settled!Ledger!Call \/ Settled!Ledger!Restart \/ UNCHANGED Settled!Ledger!ledgerVars
<1>1. /\ Settled!Sound(v2, v1) /\ v1 \in Settled!Cohorts /\ v4 \in [tried : Settled!Counts, won : Settled!Counts]
  BY DEF Settled!IInv
<1>2. /\ v2.attempts \in Settled!Counts /\ v2.arrivals \in Settled!Counts
  BY <1>1, SettledSoundIs, SettledFieldTypes
<1>3. CASE Settled!RewardedStep
  <2>1. PICK m \in Settled!Motion, d \in {"no", "fall", "timeout"}, b \in Settled!BandsFor(v1) :
          Settled!Step(m, d, b)
    BY <1>3, Zenon DEF Settled!RewardedStep
  <2>2. PICK seen : seen = Settled!Seen(v2, v1, m, d)
    OBVIOUS
  <2>3. /\ Settled!Sound(seen, v1) /\ v3' = d /\ v1' = v1
        /\ d = "no" => v4' = v4
        /\ d # "no" => v4' = Settled!CreditOf(v4, v1, seen)
        /\ v2'.arrivals = seen.arrivals
        /\ \/ v2'.attempts = seen.attempts
           \/ b \in Settled!Bands /\ v2'.attempts = [seen.attempts EXCEPT ![b] = @ + 1]
    BY <2>1, <2>2, SettledStepIs
  <2>4. SeenOf(seen, v2, v1, m)
    BY <1>1, <2>2, SettledSeenIs
  <2>5. /\ seen.attempts = v2.attempts \/ seen.attempts = [v2.attempts EXCEPT !["short"] = @ + 1]
        /\ \/ seen.arrivals = v2.arrivals
           \/ \E x \in Settled!Bands : /\ v2.arrivals[x] < seen.attempts[x]
                               /\ seen.arrivals = [v2.arrivals EXCEPT ![x] = @ + 1]
    BY <2>4 DEF SeenOf
  <2>6. seen.attempts \in Settled!Counts /\ seen.arrivals \in Settled!Counts
    BY <2>3, SettledSoundIs, SettledFieldTypes
  <2>7. PICK a : a = Settled!OnAccount(seen.attempts, seen.arrivals)
    OBVIOUS
  <2>8. PICK i : i = Settled!OnAccount(seen.attempts, v2.arrivals)
    OBVIOUS
  <2>9. i \in Settled!Ledger!Issue(Settled!OnAccount(v2.attempts, v2.arrivals))
    <3>1. "short" \in Settled!Bands
      BY DEF Settled!Bands
    <3> QED
      BY <1>2, <2>5, <2>8, <3>1, SettledIssueOnAccount
  <2>10. a \in Settled!Ledger!Reach(i)
    BY <1>2, <2>5, <2>6, <2>7, <2>8, SettledReachOnAccount
  <2>11. a \in Settled!Ledger!Before(Settled!OnAccount(v2.attempts, v2.arrivals))
    BY <2>9, <2>10 DEF Settled!Ledger!Before
  <2>12. Settled!OnAccount(v2'.attempts, v2'.arrivals) \in Settled!Ledger!Issue(a)
    BY <2>3, <2>6, <2>7, SettledIssueOnAccount
  <2>13. Settled!OnAccount(v4'.tried, v4'.won) =
           IF d # "no" /\ v1 = "navigation"
           THEN Settled!Ledger!Plus(Settled!OnAccount(v4.tried, v4.won), a)
           ELSE Settled!OnAccount(v4.tried, v4.won)
    <3>1. CASE d # "no" /\ v1 = "navigation"
      <4>1. v4' = Settled!CreditOf(v4, "navigation", seen)
        BY <2>3, <3>1
      <4>2. Settled!OnAccount(v4'.tried, v4'.won) =
              Settled!Ledger!Plus(Settled!OnAccount(v4.tried, v4.won), a)
        BY <1>1, <2>6, <2>7, <4>1, SettledCreditOnAccount
      <4> QED
        BY <3>1, <4>2
    <3>2. CASE d # "no" /\ v1 # "navigation"
      <4>1. v4' = v4
        BY <2>3, <3>2 DEF Settled!CreditOf
      <4> QED
        BY <3>2, <4>1
    <3>3. CASE d = "no"
      BY <2>3, <3>3
    <3> QED
      BY <3>1, <3>2, <3>3
  <2>14. v3 = "no"
    BY <2>1 DEF Settled!Step
  <2>15. ~(v3 # "no") /\ (v3' # "no") \in BOOLEAN /\ ((v3' # "no") <=> d # "no")
    BY <2>3, <2>14
  <2> QED
    BY <2>3, <2>11, <2>12, <2>13, <2>15, Zenon DEF Settled!Ledger!Call
<1>4. CASE Settled!RewardedReset
  <2>1. PICK b \in Settled!BandsFor(v1) : v2' = Settled!StartEpisode(v2, v1, b)
    BY <1>4 DEF Settled!RewardedReset, Settled!ResetDone
  <2>2. v3 # "no" /\ v3' = "no" /\ v1' = v1 /\ v4' = v4
    BY <1>4 DEF Settled!RewardedReset, Settled!ResetDone
  <2>3. /\ v2'.arrivals = Settled!NoCount
        /\ \/ v2'.attempts = Settled!NoCount
           \/ \E x \in Settled!Bands : v2'.attempts = [Settled!NoCount EXCEPT ![x] = @ + 1]
    <3>1. StartOf(v2', v2, v1, b)
      BY <1>1, <2>1, SettledStartEpisodeIs
    <3> QED
      BY <3>1 DEF StartOf
  <2>4. Settled!OnAccount(v2'.attempts, v2'.arrivals) \in Settled!Ledger!Issue(Settled!Ledger!Empty)
    BY <2>3, SettledNoCountIs, SettledIssueOnAccount, SettledNothingOnAccount
  <2>5. (v3' # "no") = FALSE
    BY <2>2
  <2> QED
    BY <2>2, <2>4, <2>5 DEF Settled!Ledger!Restart
<1>5. CASE UNCHANGED Settled!bonusVars
  <2>1. UNCHANGED <<v1, v2, v3, v4>>
    BY <1>5 DEF Settled!bonusVars, Settled!vars
  <2> QED
    BY <2>1 DEF Settled!Ledger!ledgerVars
<1> QED
  BY <1>3, <1>4, <1>5 DEF Settled!BonusNext

-----------------------------------------------------------------------------
\* Rewards (AttemptRewards): what the terms remember is of the attempt they were last
\* called in.
\* Variables: v1 stage, v2 robot, v3 target, v4 attempt, v5 cost, v6 shaping, v7 credit,
\*   v8 filter, v9 pay, v10 age, v11 from, v12 began, v13 spent, v14 quiet.

LEMMA RewardsInitIInv == ASSUME Rewards!Init PROVE Rewards!IInv
BY RewardParameters DEF Rewards!Init, Rewards!IInv, Rewards!Counters, Rewards!Seen,
   Rewards!Current, Rewards!Foreign, Rewards!RewardsAreOfOneAttempt

\* The terms are called: whatever they remembered, afterwards it is this attempt's.
LEMMA RewardsActKeeps ==
    ASSUME Rewards!IInv, NEW to, NEW good \in BOOLEAN, NEW still \in BOOLEAN,
           Rewards!Act(to, good, still)
    PROVE  Rewards!IInv'
<1> USE DEF Rewards!Act
<1>1. v10 \in Nat /\ v4 \in Int /\ v10' = v10 + 1 /\ v10' > 0 /\ Rewards!Seen'
  BY DEF Rewards!IInv, Rewards!Counters, Rewards!Seen
<1>2. v5' = [elapsed |-> IF v4 >= 0 THEN v10' ELSE 0,
               target |-> v3, attempt |-> v4]
  <2>1. CASE Rewards!Seen
    BY <2>1, <1>1 DEF Rewards!IInv, Rewards!Current, Rewards!Cost, Rewards!Changed
  <2>2. CASE ~Rewards!Seen
    <3>1. Rewards!Changed(v5) /\ v10 = 0
      BY <2>2, <1>1 DEF Rewards!IInv, Rewards!Foreign, Rewards!Seen
    <3> QED
      BY <3>1, <1>1 DEF Rewards!Cost
  <2> QED
    BY <2>1, <2>2
<1>3. v7' = [given |-> v13', target |-> v3, attempt |-> v4]
      /\ v13' \in 0..HoldCredit
  <2>1. CASE Rewards!Seen
    <3>1. ~Rewards!Changed(v7) /\ v7.given = v13 /\ v13 \in 0..HoldCredit
      BY <2>1 DEF Rewards!IInv, Rewards!Counters, Rewards!Current, Rewards!Changed
    <3> QED
      BY <3>1, RewardParameters DEF Rewards!Given, Rewards!Credit
  <2>2. CASE ~Rewards!Seen
    <3>1. Rewards!Changed(v7) /\ v13 = 0
      BY <2>2 DEF Rewards!IInv, Rewards!Foreign
    <3> QED
      BY <3>1, RewardParameters DEF Rewards!Given, Rewards!Credit
  <2> QED
    BY <2>1, <2>2
<1>4. v9'.shaping = (IF v10' = 1 /\ ~v12' THEN <<>>
                      ELSE <<Rewards!Distance(v11', v3'), Rewards!Distance(v2', v3')>>)
  <2>1. CASE Rewards!Seen
    <3>1. ~Rewards!Changed(v6) /\ v6.distance = Rewards!Distance(v11, v3)
      BY <2>1 DEF Rewards!IInv, Rewards!Current, Rewards!Changed
    <3>2. ~(v10' = 1 /\ ~v12)
      BY <2>1, <1>1 DEF Rewards!Seen
    <3> QED
      BY <3>1, <3>2 DEF Rewards!Shaping
  <2>2. CASE ~Rewards!Seen
    <3>1. Rewards!Changed(v6) /\ v10' = 1 /\ ~v12
      BY <2>2, <1>1 DEF Rewards!IInv, Rewards!Foreign, Rewards!Seen
    <3> QED
      BY <3>1 DEF Rewards!Shaping
  <2> QED
    BY <2>1, <2>2
<1>5. v8' \in 0..ReadyCount /\ v14' = v8' /\ (v9'.filter => v14' = ReadyCount)
  <2>1. v8' \in 0..ReadyCount /\ v14' = v8'
    BY RewardParameters DEF Rewards!IInv, Rewards!Counters
  <2>2. v9'.filter => v8' >= ReadyCount
    BY Zenon
  <2> HIDE DEF Rewards!Act
  <2> QED
    BY <2>1, <2>2, RewardParameters
<1>6. v9'.cost = IF v4' >= 0 THEN v10' ELSE 0
  BY <1>2
<1>7. Rewards!Current'
  BY <1>2, <1>3 DEF Rewards!Current
<1>8. Rewards!RewardsAreOfOneAttempt'
  BY <1>3, <1>4, <1>5, <1>6, <1>1, RewardParameters DEF Rewards!RewardsAreOfOneAttempt
<1> QED
  BY <1>1, <1>3, <1>5, <1>7, <1>8 DEF Rewards!IInv, Rewards!Counters

\* The next step of the same attempt.
LEMMA RewardsContinueKeeps == ASSUME Rewards!IInv, Rewards!Continue PROVE Rewards!IInv'
BY DEF Rewards!IInv, Rewards!Continue, Rewards!Counters, Rewards!Seen, Rewards!Current,
   Rewards!Foreign, Rewards!Changed, Rewards!RewardsAreOfOneAttempt

\* A new target after a call: every cache is the old target's, and either the
\* number of the attempt or the target itself is another.
LEMMA RewardsIssueKeeps == ASSUME Rewards!IInv, NEW t, Rewards!Issue(t) PROVE Rewards!IInv'
<1>1. Rewards!Current /\ v4 \in Int /\ v4' = v4 + 1 /\ v10' = 0 /\ ~v12' /\ v13' = 0
  BY DEF Rewards!IInv, Rewards!Counters, Rewards!Seen, Rewards!Issue, Rewards!NewTarget
<1>2. Rewards!Foreign'
  BY <1>1 DEF Rewards!Current, Rewards!Foreign, Rewards!Changed, Rewards!Issue
<1> QED
  BY <1>1, <1>2, RewardParameters DEF Rewards!IInv, Rewards!Counters, Rewards!Seen,
     Rewards!Issue, Rewards!NewTarget, Rewards!RewardsAreOfOneAttempt

LEMMA RewardsRetargetKeeps == ASSUME Rewards!IInv, NEW t, Rewards!Retarget(t) PROVE Rewards!IInv'
<1>1. Rewards!Current /\ v3' # v3 /\ v10' = 0 /\ ~v12' /\ v13' = 0
  BY DEF Rewards!IInv, Rewards!Counters, Rewards!Seen, Rewards!Retarget, Rewards!NewTarget
<1>2. Rewards!Foreign'
  BY <1>1 DEF Rewards!Current, Rewards!Foreign, Rewards!Changed, Rewards!Retarget
<1> QED
  BY <1>1, <1>2, RewardParameters DEF Rewards!IInv, Rewards!Counters, Rewards!Seen,
     Rewards!Retarget, Rewards!NewTarget, Rewards!RewardsAreOfOneAttempt

\* A reset fills the caches after it has placed robot and target.
LEMMA RewardsResetKeeps ==
    ASSUME Rewards!IInv, NEW r, NEW t, NEW opens \in BOOLEAN, Rewards!Reset(r, t, opens)
    PROVE  Rewards!IInv'
<1>1. v4' \in Int /\ v10' = 0 /\ v12' /\ v13' = 0 /\ v14' = 0 /\ v8' = 0
  BY DEF Rewards!IInv, Rewards!Counters, Rewards!Reset, Rewards!Caches
<1>2. Rewards!Current'
  BY <1>1 DEF Rewards!Current, Rewards!Reset, Rewards!Caches
<1> QED
  BY <1>1, <1>2, RewardParameters DEF Rewards!IInv, Rewards!Counters, Rewards!Seen,
     Rewards!Reset, Rewards!RewardsAreOfOneAttempt

LEMMA RewardsStepPreserves == ASSUME Rewards!IInv, [Rewards!Next]_Rewards!vars PROVE Rewards!IInv'
<1>1. ASSUME NEW to \in RewardPlaces, NEW good \in BOOLEAN, NEW still \in BOOLEAN,
             Rewards!Act(to, good, still)
      PROVE  Rewards!IInv'
  BY <1>1, RewardsActKeeps
<1>2. CASE Rewards!Continue
  BY <1>2, RewardsContinueKeeps
<1>3. ASSUME NEW t \in RewardPlaces, Rewards!Issue(t) PROVE Rewards!IInv'
  BY <1>3, RewardsIssueKeeps
<1>4. ASSUME NEW t \in RewardPlaces, Rewards!Retarget(t) PROVE Rewards!IInv'
  BY <1>4, RewardsRetargetKeeps
<1>5. ASSUME NEW r \in RewardPlaces, NEW t \in RewardPlaces, NEW opens \in BOOLEAN,
             Rewards!Reset(r, t, opens)
      PROVE  Rewards!IInv'
  BY <1>5, RewardsResetKeeps
<1>6. CASE UNCHANGED Rewards!vars
  BY <1>6 DEF Rewards!vars, Rewards!IInv, Rewards!Counters, Rewards!Seen, Rewards!Current,
     Rewards!Foreign, Rewards!Changed, Rewards!RewardsAreOfOneAttempt
<1> QED
  BY <1>1, <1>2, <1>3, <1>4, <1>5, <1>6 DEF Rewards!Next

-----------------------------------------------------------------------------
\* Episode (EpisodeScript): what was told so far says how the script goes on.
\* Variables: v1 task, v2 place, v3 tilt, v4 height, v5 target, v6 gate, v7 phase,
\*   v8 settled, v9 pushed, v10 start, v11 told.

LEMMA EpisodeInitIInv == ASSUME Episode!Init PROVE Episode!IInv
<1>1. 0 \in -Arena..Arena /\ 0 \in Episode!Ground
  BY EpisodeParameters DEF Episode!Ground
<1>2. v11 = <<>> /\ Len(v11) = 0 /\ v11 \in Seq(Episode!Events)
  BY EmptySeq DEF Episode!Init
<1>3. v7 = "initial" /\ v5 = v10 /\ v5 = 0
  BY DEF Episode!Init
<1>4. Episode!Types /\ v4 = Episode!Extent(v3) /\ ~v6 /\ ~v9
  <2>1. v4 = Episode!Extent(v3) /\ ~v6 /\ ~v9
    BY DEF Episode!Init, Episode!Extent
  <2>2. v2 = 0 /\ v5 = 0 /\ v6 \in BOOLEAN /\ v9 \in BOOLEAN /\ v8 = 0
    BY DEF Episode!Init
  <2>3. v1 \in {"balance", "settle", "gate"} /\ v7 \in Episode!Phases
    BY DEF Episode!Init, Episode!Phases
  <2> QED
    BY <2>1, <2>2, <2>3, <1>1, <1>2 DEF Episode!Types
<1> QED
  BY <1>1, <1>2, <1>3, <1>4 DEF Episode!IInv, Episode!BalanceTold, Episode!SettleTold,
     Episode!GateTold

LEMMA EpisodeScriptHolds == ASSUME Episode!IInv PROVE Episode!EpisodeFollowsTheScript
<1>1. PICK n \in Nat : n = Len(v11)
  BY LenProperties DEF Episode!IInv, Episode!Types
<1>2. CASE v1 = "balance"
  <2>1. v5 = v10 /\ v4 = Episode!Extent(v3)
    BY <1>2 DEF Episode!IInv, Episode!BalanceTold
  <2>2. Len(v11) = 0 \/ Len(v11) = 1
    BY <1>2 DEF Episode!IInv, Episode!BalanceTold
  <2> QED
    <3>1. Len(v11) <= 1
      BY <1>1, <2>2
    <3>2. v1 # "gate" /\ v1 # "settle"
      BY <1>2
    <3> QED
      BY <3>1, <3>2, <2>1 DEF Episode!EpisodeFollowsTheScript
<1>3. CASE v1 = "settle"
  <2>1. \/ Len(v11) = 0 /\ v5 = v10 /\ v7 # "complete"
        \/ Len(v11) = 1 /\ v5 = v10 /\ v7 # "complete" /\ Episode!Came(1, "push")
        \/ Len(v11) = 2 /\ Episode!Came(1, "push") /\ Episode!Came(2, "target")
    BY <1>3 DEF Episode!IInv, Episode!SettleTold
  <2>2. \A i \in 1..Len(v11) : v11[i].after >= HoldSteps
    BY <2>1 DEF Episode!Came
  <2>3. Len(v11) = 2 => ~\A i \in 1..Len(v11) : v11[i].what = "push"
    BY <2>1 DEF Episode!Came
  <2>4. Len(v11) \in 0..2 /\ (Len(v11) # 0 => v11[1].what = "push")
    BY <2>1 DEF Episode!Came
  <2> QED
    BY <1>3, <2>1, <2>2, <2>3, <2>4 DEF Episode!IInv, Episode!EpisodeFollowsTheScript,
       Episode!Came
<1>4. CASE v1 = "gate"
  <2>1. Len(v11) = 0 <=> v11 = <<>>
    BY EmptySeq DEF Episode!IInv, Episode!Types
  <2>2. v6 /\ (\A i \in 1..Len(v11) : v11[i].what = "push") => v5 = v10
    <3>1. Len(v11) # 0 => v11[1].what = "target" /\ 1 \in 1..Len(v11)
      BY <1>1, <1>4 DEF Episode!IInv, Episode!GateTold
    <3> QED
      BY <1>4, <3>1 DEF Episode!IInv, Episode!GateTold
  <2> QED
    BY <1>4, <2>1, <2>2 DEF Episode!IInv, Episode!GateTold, Episode!EpisodeFollowsTheScript
<1> QED
  BY <1>2, <1>3, <1>4 DEF Episode!IInv, Episode!Types

-----------------------------------------------------------------------------
\* Every sampled target is inside the arena, the fallback included.
LEMMA EpisodeTargetsAreInside ==
  ASSUME NEW p \in Episode!Ground PROVE Episode!Bounded(p) \subseteq -Arena..Arena
<1> DEFINE middle == (Near + Far) \div 2
<1>1. middle \in Overshoot..Arena
  BY EpisodeParameters
<1> HIDE DEF middle
<1>2. (IF p > 0 THEN p - middle ELSE p + middle) \in -Arena..Arena
  BY <1>1, EpisodeParameters DEF Episode!Ground
<1> QED
  BY <1>2 DEF Episode!Bounded, middle

LEMMA EpisodeResetKeeps ==
  ASSUME Episode!IInv, NEW p \in Episode!Ground, NEW a \in 0..1, NEW g \in BOOLEAN, Episode!Reset(p, a, g)
  PROVE  Episode!IInv'
<1>1. v11' = <<>> /\ Len(v11') = 0 /\ v11' \in Seq(Episode!Events)
  BY EmptySeq DEF Episode!Reset
<1>2. /\ v2' = p /\ v10' = p /\ v4' = Episode!Extent(a) /\ v3' = a
      /\ (g => v1 = "gate") /\ v6' = g /\ v5' \in Episode!FirstTargets(p, g)
      /\ v7' = "initial" /\ v8' = 0 /\ v9' = FALSE /\ v1' = v1
  BY DEF Episode!Reset, Episode!SupportedHeight, Episode!Extent
<1>3. /\ v1 # "gate" \/ g => v5' = p
      /\ v1 = "gate" /\ ~g => v5' \in -Arena..Arena
  BY <1>2, EpisodeTargetsAreInside DEF Episode!FirstTargets
<1>4. v5' \in Int
  BY <1>2, <1>3, EpisodeParameters DEF Episode!IInv, Episode!Types, Episode!Ground
<1> QED
  <2>1. Episode!Types' /\ (v4 = Episode!Extent(v3))'
    BY <1>1, <1>2, <1>4 DEF Episode!IInv, Episode!Types, Episode!Phases, Episode!Extent
  <2>2. Episode!BalanceTold' /\ Episode!SettleTold' /\ Episode!GateTold'
    BY <1>1, <1>2, <1>3 DEF Episode!BalanceTold, Episode!SettleTold, Episode!GateTold
  <2> QED
    BY <1>2, <2>1, <2>2 DEF Episode!IInv

\* Another push or target is told after those that were.
LEMMA EpisodeToldMore ==
  ASSUME v11 \in Seq(Episode!Events), NEW e \in Episode!Events, v11' = Append(v11, e)
  PROVE  /\ v11' \in Seq(Episode!Events) /\ Len(v11) \in Nat /\ Len(v11') = Len(v11) + 1
         /\ \A i \in 1..Len(v11) : v11'[i] = v11[i]
         /\ v11'[Len(v11) + 1] = e
BY AppendProperties, LenProperties

LEMMA EpisodeOneShotKeeps ==
  ASSUME Episode!IInv, NEW p \in Episode!Ground, Episode!OneShot(p) PROVE Episode!IInv'
<1>1. /\ v1 = "balance" /\ v2' = p /\ v9' = TRUE
      /\ UNCHANGED <<v1, v3, v4, v5, v6, v7, v8, v10>>
  BY DEF Episode!OneShot, Episode!Roll
<1>2. Len(v11') = 1 /\ v11' \in Seq(Episode!Events)
  <2>1. CASE v9
    BY <2>1, <1>1 DEF Episode!OneShot, Episode!IInv, Episode!Types, Episode!BalanceTold
  <2>2. CASE ~v9
    <3>1. [what |-> "push", after |-> 0] \in Episode!Events
      BY DEF Episode!Events
    <3>2. v11' = Append(v11, [what |-> "push", after |-> 0])
      BY <2>2 DEF Episode!OneShot
    <3> QED
      BY <1>1, <2>2, <3>1, <3>2, EpisodeToldMore DEF Episode!IInv, Episode!Types,
         Episode!BalanceTold
  <2> QED
    BY <2>1, <2>2
<1> QED
  BY <1>1, <1>2 DEF Episode!IInv, Episode!Types, Episode!BalanceTold, Episode!SettleTold,
     Episode!GateTold, Episode!Extent

LEMMA EpisodeRetargetKeeps ==
  ASSUME Episode!IInv, NEW p \in Episode!Ground, Episode!Retarget(p) PROVE Episode!IInv'
<1> DEFINE e == [what |-> "target", after |-> 0]
<1>1. /\ v1 = "gate" /\ v2' = p /\ v5' \in -Arena..Arena
      /\ v11' = Append(v11, e)
      /\ UNCHANGED <<v1, v3, v4, v6, v7, v8, v9, v10>>
  BY EpisodeTargetsAreInside DEF Episode!Retarget, Episode!Roll
<1>2. e \in Episode!Events /\ e.what = "target"
  BY DEF Episode!Events
<1> HIDE DEF e
<1>3. /\ v11' \in Seq(Episode!Events) /\ Len(v11) \in Nat /\ Len(v11') = Len(v11) + 1
      /\ \A i \in 1..Len(v11) : v11'[i] = v11[i]
      /\ v11'[Len(v11) + 1] = e
  BY <1>1, <1>2, EpisodeToldMore DEF Episode!IInv, Episode!Types
<1>4. \A i \in 1..Len(v11') : i \in 1..Len(v11) \/ i = Len(v11) + 1
  BY <1>3
<1>5. \A i \in 1..Len(v11') : v11'[i].what = "target"
  BY <1>1, <1>2, <1>3, <1>4 DEF Episode!IInv, Episode!GateTold
<1>6. v5' \in Int
  BY <1>1, EpisodeParameters
<1> QED
  BY <1>1, <1>3, <1>5, <1>6 DEF Episode!IInv, Episode!Types, Episode!BalanceTold,
     Episode!SettleTold, Episode!GateTold, Episode!Extent

\* A tick pushes, retargets or only lets time pass.
LEMMA EpisodeTickIs ==
  ASSUME Episode!IInv, NEW p \in Episode!Ground, NEW still \in BOOLEAN, NEW t \in Episode!Ground, Episode!Tick(p, still, t)
  PROVE  /\ v1 = "settle" /\ v2' = p /\ v8' \in Nat
         /\ UNCHANGED <<v1, v3, v4, v6, v9, v10>>
         /\ \/ /\ v7 = "initial" /\ v7' = "recovery" /\ v5' = v5
               /\ \E n \in Nat : n >= HoldSteps
                                 /\ v11' = Append(v11, [what |-> "push", after |-> n])
            \/ /\ v7 = "recovery" /\ v7' = "stop" /\ v5' = t
               /\ \E n \in Nat : n >= HoldSteps
                                 /\ v11' = Append(v11, [what |-> "target", after |-> n])
            \/ /\ v7' = v7 \/ (v7 = "stop" /\ v7' = "complete")
               /\ v5' = v5 /\ v11' = v11
<1> DEFINE n == IF still THEN v8 + 1 ELSE 0
           push == "initial" \in Episode!Eligible(n)
           retarget == "recovery" \in Episode!Eligible(n)
           arrived == "stop" \in Episode!Eligible(n) /\ p = v5
<1>1. /\ v1 = "settle" /\ v2' = p
      /\ v7' = CASE retarget -> "stop"
                    [] push /\ ~retarget -> "recovery"
                    [] arrived -> "complete"
                    [] OTHER -> v7
      /\ v8' = IF push \/ retarget THEN 0 ELSE n
      /\ v5' = IF retarget THEN t ELSE v5
      /\ v11' = v11 \o (IF push THEN <<[what |-> "push", after |-> n]>> ELSE <<>>)
                      \o (IF retarget THEN <<[what |-> "target",
                                              after |-> IF push THEN 0 ELSE n]>> ELSE <<>>)
      /\ UNCHANGED <<v1, v3, v4, v6, v9, v10>>
  BY DEF Episode!Tick, Episode!Roll
<1>2. n \in Nat /\ v11 \in Seq(Episode!Events)
  BY DEF Episode!IInv, Episode!Types
<1>3. /\ push <=> n >= HoldSteps /\ v7 = "initial"
      /\ retarget <=> n >= HoldSteps /\ v7 = "recovery"
      /\ arrived => v7 = "stop"
  BY DEF Episode!Eligible
<1> HIDE DEF n, push, retarget, arrived
<1>4. CASE push
  <2>1. ~retarget
    BY <1>3, <1>4
  <2>2. v11' = v11 \o <<[what |-> "push", after |-> n]>> \o <<>>
    BY <1>1, <1>4, <2>1
  <2>3. v11' = Append(v11, [what |-> "push", after |-> n])
    <3>1. [what |-> "push", after |-> n] \in Episode!Events
      BY <1>2 DEF Episode!Events
    <3>2. Append(v11, [what |-> "push", after |-> n]) \in Seq(Episode!Events)
      BY <1>2, <3>1, AppendProperties
    <3> QED
      BY <1>2, <2>2, <3>1, <3>2, AppendIsConcat, ConcatEmptySeq
  <2> QED
    BY <1>1, <1>2, <1>3, <1>4, <2>1, <2>3
<1>5. CASE ~push /\ retarget
  <2>2. v11' = v11 \o <<>> \o <<[what |-> "target", after |-> n]>>
    BY <1>1, <1>5
  <2>3. v11' = Append(v11, [what |-> "target", after |-> n])
    <3>1. [what |-> "target", after |-> n] \in Episode!Events
      BY <1>2 DEF Episode!Events
    <3> QED
      BY <1>2, <2>2, <3>1, AppendIsConcat, ConcatEmptySeq
  <2> QED
    BY <1>1, <1>2, <1>3, <1>5, <2>3
<1>6. CASE ~push /\ ~retarget
  <2>1. v11' = v11
    BY <1>1, <1>2, <1>6, ConcatEmptySeq
  <2> QED
    BY <1>1, <1>2, <1>3, <1>6, <2>1
<1> QED
  BY <1>4, <1>5, <1>6

LEMMA EpisodeTickKeeps ==
  ASSUME Episode!IInv, NEW p \in Episode!Ground, NEW still \in BOOLEAN, NEW t \in Episode!Ground, Episode!Tick(p, still, t)
  PROVE  Episode!IInv'
<1>1. /\ v1 = "settle" /\ v2' = p /\ v8' \in Nat /\ ~v6
      /\ UNCHANGED <<v1, v3, v4, v6, v9, v10>>
  BY EpisodeTickIs DEF Episode!IInv
<1>2. ASSUME Episode!Types', Episode!SettleTold' PROVE Episode!IInv'
  BY <1>1, <1>2 DEF Episode!IInv, Episode!BalanceTold, Episode!GateTold, Episode!Extent
<1>3. CASE /\ v7 = "initial" /\ v7' = "recovery" /\ v5' = v5
           /\ \E n \in Nat : n >= HoldSteps
                             /\ v11' = Append(v11, [what |-> "push", after |-> n])
  <2>1. PICK n \in Nat : n >= HoldSteps
                         /\ v11' = Append(v11, [what |-> "push", after |-> n])
    BY <1>3
  <2>2. [what |-> "push", after |-> n] \in Episode!Events
    BY DEF Episode!Events
  <2>3. /\ v11' \in Seq(Episode!Events) /\ Len(v11') = Len(v11) + 1
        /\ v11'[Len(v11) + 1] = [what |-> "push", after |-> n]
    BY <2>1, <2>2, EpisodeToldMore DEF Episode!IInv, Episode!Types
  <2>4. Len(v11) = 0 /\ v5 = v10
    BY <1>1, <1>3 DEF Episode!IInv, Episode!SettleTold
  <2>5. Episode!SettleTold'
    BY <1>1, <1>3, <2>1, <2>3, <2>4 DEF Episode!SettleTold, Episode!Came
  <2> QED
    BY <1>1, <1>2, <1>3, <2>3, <2>5 DEF Episode!IInv, Episode!Types, Episode!Phases
<1>4. CASE /\ v7 = "recovery" /\ v7' = "stop" /\ v5' = t
           /\ \E n \in Nat : n >= HoldSteps
                             /\ v11' = Append(v11, [what |-> "target", after |-> n])
  <2>1. PICK n \in Nat : n >= HoldSteps
                         /\ v11' = Append(v11, [what |-> "target", after |-> n])
    BY <1>4
  <2>2. [what |-> "target", after |-> n] \in Episode!Events
    BY DEF Episode!Events
  <2>3. /\ v11' \in Seq(Episode!Events) /\ Len(v11') = Len(v11) + 1
        /\ \A i \in 1..Len(v11) : v11'[i] = v11[i]
        /\ v11'[Len(v11) + 1] = [what |-> "target", after |-> n]
    BY <2>1, <2>2, EpisodeToldMore DEF Episode!IInv, Episode!Types
  <2>4. Len(v11) = 1 /\ Episode!Came(1, "push")
    BY <1>1, <1>4 DEF Episode!IInv, Episode!SettleTold
  <2>5. v11'[1] = v11[1]
    BY <2>3, <2>4
  <2>6. Episode!SettleTold'
    BY <1>1, <1>4, <2>1, <2>3, <2>4, <2>5 DEF Episode!SettleTold, Episode!Came
  <2>7. t \in Int
    BY EpisodeParameters DEF Episode!Ground
  <2> QED
    BY <1>1, <1>2, <1>4, <2>3, <2>6, <2>7 DEF Episode!IInv, Episode!Types, Episode!Phases
<1>5. CASE /\ v7' = v7 \/ (v7 = "stop" /\ v7' = "complete")
           /\ v5' = v5 /\ v11' = v11
  <2>1. Episode!SettleTold'
    BY <1>1, <1>5 DEF Episode!IInv, Episode!SettleTold, Episode!Came
  <2> QED
    BY <1>1, <1>2, <1>5, <2>1 DEF Episode!IInv, Episode!Types, Episode!Phases
<1> QED
  BY <1>3, <1>4, <1>5, EpisodeTickIs

LEMMA EpisodeStepPreserves == ASSUME Episode!IInv, [Episode!Next]_Episode!vars PROVE Episode!IInv'
<1>1. CASE UNCHANGED Episode!vars
  <2>1. UNCHANGED <<v1, v2, v3, v4, v5, v6, v7, v8, v9, v10,
                    v11>>
    BY <1>1 DEF Episode!vars
  <2> QED
    BY <2>1 DEF Episode!IInv, Episode!Types, Episode!BalanceTold, Episode!SettleTold,
       Episode!GateTold, Episode!Came, Episode!Extent
<1> QED
  BY <1>1, EpisodeResetKeeps, EpisodeOneShotKeeps, EpisodeRetargetKeeps,
     EpisodeTickKeeps DEF Episode!Next

-----------------------------------------------------------------------------
\* Monitor (LiveMonitor): every frame is written, in the mailbox, held, or counted as
\* lost.
\* Variables: v1 pc, v2 worker, v3 mailbox, v4 holding, v5 offered, v6 dropped,
\*   v7 stopped, v8 disabled, v9 written.

\* Finite sets, in the instance and in the library.
LEMMA MonitorFinite ==
  \A S : (Monitor!IsFiniteSet(S) <=> IsFiniteSet(S)) /\ Monitor!Cardinality(S) = Cardinality(S)
BY Zenon DEF Monitor!IsFiniteSet, IsFiniteSet, Monitor!Cardinality, Cardinality

LEMMA MonitorLostIsFinite == ASSUME v5 \in Nat PROVE IsFiniteSet(Monitor!Lost) /\ Cardinality(Monitor!Lost) \in Nat
<1>1. IsFiniteSet(1..v5) /\ Monitor!Lost \subseteq 1..v5
  BY FS_Interval DEF Monitor!Lost
<1>2. IsFiniteSet(Monitor!Lost)
  BY <1>1, FS_Subset
<1> QED
  BY <1>2, FS_CardinalityType

\* A set that gains nothing does not grow, and one that gains an element grows by one.
LEMMA MonitorGrowsByOne ==
  ASSUME NEW S, IsFiniteSet(S), NEW T, NEW x
  PROVE  /\ T \subseteq S => Cardinality(T) <= Cardinality(S)
         /\ T \subseteq S \cup {x} => Cardinality(T) <= Cardinality(S) + 1
<1>1. IsFiniteSet(S \cup {x}) /\ Cardinality(S \cup {x}) <= Cardinality(S) + 1
  <2>1. Cardinality(S) \in Nat
    BY FS_CardinalityType
  <2>2. /\ IsFiniteSet(S \cup {x})
        /\ Cardinality(S \cup {x}) = IF x \in S THEN Cardinality(S) ELSE Cardinality(S) + 1
    BY FS_AddElement
  <2> QED
    BY <2>1, <2>2
<1>2. T \subseteq S \cup {x} => Cardinality(T) <= Cardinality(S \cup {x}) /\ IsFiniteSet(T)
  BY <1>1, FS_Subset
<1>3. T \subseteq S => Cardinality(T) <= Cardinality(S)
  BY FS_Subset
<1> QED
  BY <1>1, <1>2, <1>3, FS_CardinalityType


LEMMA MonitorWhereFramesAre ==
  /\ Monitor!OnTheWay = Monitor!InHand \cup Monitor!InMailbox
  /\ Monitor!OnTheWay' = Monitor!InHand' \cup Monitor!InMailbox'
BY DEF Monitor!OnTheWay, Monitor!InHand, Monitor!InMailbox

LEMMA MonitorKept == ASSUME v3' = v3 PROVE Monitor!InMailbox' = Monitor!InMailbox
BY DEF Monitor!InMailbox

LEMMA MonitorAdded ==
  ASSUME v3 \in Seq(Nat), NEW x \in Nat, v3' = Append(v3, x)
  PROVE  v3' \in Seq(Nat) /\ Monitor!InMailbox' = Monitor!InMailbox \cup {x}
<1>1. /\ v3' \in Seq(Nat) /\ Len(v3') = Len(v3) + 1 /\ Len(v3) \in Nat
      /\ \A i \in 1..Len(v3) : v3'[i] = v3[i]
      /\ v3'[Len(v3) + 1] = x
  BY AppendProperties, LenProperties
<1>2. \A i : i \in 1..Len(v3') <=> i \in 1..Len(v3) \/ i = Len(v3) + 1
  BY <1>1
<1> QED
  BY <1>1, <1>2 DEF Monitor!InMailbox

LEMMA MonitorTaken ==
  ASSUME v3 \in Seq(Nat), v3 # <<>>, v3' = Tail(v3)
  PROVE  /\ Head(v3) \in Nat /\ v3' \in Seq(Nat)
         /\ Monitor!InMailbox = Monitor!InMailbox' \cup {Head(v3)}
<1>1. /\ Head(v3) \in Nat /\ v3' \in Seq(Nat) /\ Len(v3') = Len(v3) - 1
      /\ Len(v3) \in Nat \ {0} /\ Head(v3) = v3[1]
      /\ \A i \in 1..Len(v3') : v3'[i] = v3[i + 1]
  BY HeadTailProperties, LenProperties, EmptySeq
<1>2. \A i \in 1..Len(v3) : i = 1 \/ (i - 1 \in 1..Len(v3') /\ v3[i] = v3'[i - 1])
  BY <1>1
<1>3. \A i \in 1..Len(v3') : i + 1 \in 1..Len(v3)
  BY <1>1
<1>4. Monitor!InMailbox \subseteq Monitor!InMailbox' \cup {Head(v3)}
  <2>1. ASSUME NEW i \in 1..Len(v3), i # 1 PROVE v3[i] \in Monitor!InMailbox'
    <3>1. v3[i] = v3'[i - 1] /\ i - 1 \in 1..Len(v3')
      BY <1>2, <2>1
    <3> QED
      BY <3>1 DEF Monitor!InMailbox
  <2>2. ASSUME NEW i \in 1..Len(v3) PROVE v3[i] \in Monitor!InMailbox' \cup {Head(v3)}
    BY <1>1, <2>1
  <2> QED
    BY <2>2 DEF Monitor!InMailbox
<1>5. Monitor!InMailbox' \subseteq Monitor!InMailbox
  <2>1. ASSUME NEW i \in 1..Len(v3') PROVE v3'[i] \in Monitor!InMailbox
    <3>1. v3'[i] = v3[i + 1] /\ i + 1 \in 1..Len(v3)
      BY <1>1, <1>3
    <3> QED
      BY <3>1 DEF Monitor!InMailbox
  <2> QED
    BY <2>1 DEF Monitor!InMailbox
<1>6. Head(v3) \in Monitor!InMailbox
  <2>1. 1 \in 1..Len(v3)
    BY <1>1
  <2> QED
    BY <1>1, <2>1 DEF Monitor!InMailbox
<1> QED
  BY <1>1, <1>4, <1>5, <1>6

\* The frames on the way stay on the way, but for one.
LEMMA MonitorBound ==
  ASSUME Monitor!Types, Monitor!Types', Monitor!Works, Monitor!AllCounted, NEW x,
         \/ Monitor!Lost' \subseteq Monitor!Lost /\ v6' >= v6 /\ (Monitor!RoomMade => Monitor!RoomMade')
         \/ /\ Monitor!Lost' \subseteq Monitor!Lost \cup {x}
            /\ \/ v6' = v6 + 1 /\ (Monitor!RoomMade => Monitor!RoomMade')
               \/ v6' = v6 /\ ~Monitor!RoomMade /\ Monitor!RoomMade'
  PROVE  Monitor!AllCounted'
<1>1. IsFiniteSet(Monitor!Lost) /\ Cardinality(Monitor!Lost) \in Nat /\ Cardinality(Monitor!Lost') \in Nat
  <2>1. v5' \in Nat
    BY DEF Monitor!Types
  <2>2. IsFiniteSet(1..v5') /\ Monitor!Lost' \subseteq 1..v5'
    BY <2>1, FS_Interval DEF Monitor!Lost
  <2>3. IsFiniteSet(Monitor!Lost')
    BY <2>2, FS_Subset
  <2> QED
    BY <2>3, MonitorLostIsFinite, FS_CardinalityType DEF Monitor!Types
<1>2. /\ Monitor!Lost' \subseteq Monitor!Lost => Cardinality(Monitor!Lost') <= Cardinality(Monitor!Lost)
      /\ Monitor!Lost' \subseteq Monitor!Lost \cup {x} => Cardinality(Monitor!Lost') <= Cardinality(Monitor!Lost) + 1
  BY <1>1, MonitorGrowsByOne
<1> QED
  BY <1>1, <1>2, MonitorFinite DEF Monitor!AllCounted, Monitor!Types

-----------------------------------------------------------------------------

LEMMA MonitorInitIInv == Monitor!Init => Monitor!IInv
<1> SUFFICES ASSUME Monitor!Init PROVE Monitor!IInv
  OBVIOUS
<1>1. Monitor!Lost = {}
  BY DEF Monitor!Init, Monitor!Lost
<1>2. Cardinality(Monitor!Lost) = 0
  BY <1>1, FS_EmptySet
<1> QED
  BY <1>2, MonitorFinite DEF Monitor!Init, Monitor!IInv, Monitor!Types, Monitor!AllCounted,
     Monitor!RoomMade

\* The three steps that evict or refuse a frame.
LEMMA MonitorEvictKeeps == ASSUME Monitor!IInv, Monitor!Evict \/ Monitor!MakeRoom PROVE Monitor!IInv'
<1>1. /\ UNCHANGED <<v4, v5, v9, v2>>
      /\ \/ v3' = v3
         \/ v3 # <<>> /\ v3' = Tail(v3)
  BY DEF Monitor!Evict, Monitor!MakeRoom
<1>2. v3' \in Seq(Nat) /\ Monitor!InMailbox \subseteq Monitor!InMailbox' \cup {Head(v3)}
  BY <1>1, MonitorKept, MonitorTaken DEF Monitor!IInv, Monitor!Types
<1>3. Monitor!Types'
  BY <1>1, <1>2 DEF Monitor!Evict, Monitor!MakeRoom, Monitor!IInv, Monitor!Types
<1>4. Monitor!Lost' \subseteq Monitor!Lost \cup {Head(v3)}
  <2>1. Monitor!InHand' \cup {0} = Monitor!InHand \cup {0}
    BY <1>1 DEF Monitor!Evict, Monitor!MakeRoom, Monitor!InHand
  <2>2. 0 \notin 1..v5
    BY DEF Monitor!IInv, Monitor!Types
  <2> QED
    BY <1>1, <1>2, <2>1, <2>2, MonitorWhereFramesAre DEF Monitor!Lost
<1>5. \/ v6' = v6 + 1 /\ (Monitor!RoomMade => Monitor!RoomMade')
      \/ v6' = v6 /\ ~Monitor!RoomMade /\ Monitor!RoomMade'
  BY DEF Monitor!Evict, Monitor!MakeRoom, Monitor!RoomMade
<1>6. Monitor!Works' => Monitor!Works
  BY <1>1 DEF Monitor!Works
<1> QED
  BY <1>3, <1>4, <1>5, <1>6, MonitorBound DEF Monitor!IInv

LEMMA MonitorPutAgainKeeps == ASSUME Monitor!IInv, Monitor!PutAgain PROVE Monitor!IInv'
<1>1. /\ UNCHANGED <<v4, v5, v9, v2>>
      /\ Monitor!InHand = {v4, v5} /\ Monitor!InHand' = {v4, 0} /\ ~Monitor!RoomMade
  BY DEF Monitor!PutAgain, Monitor!InHand, Monitor!RoomMade
<1>2. Monitor!Works' => Monitor!Works
  BY <1>1 DEF Monitor!Works
<1>3. CASE Monitor!Full
  <2>1. v3' = v3 /\ v6' = v6 + 1
    BY <1>3 DEF Monitor!PutAgain
  <2>2. Monitor!Types'
    BY <1>1, <2>1 DEF Monitor!PutAgain, Monitor!IInv, Monitor!Types
  <2>3. Monitor!Lost' \subseteq Monitor!Lost \cup {v5}
    BY <1>1, <2>1, MonitorKept, MonitorWhereFramesAre DEF Monitor!Lost
  <2> QED
    BY <1>1, <1>2, <2>1, <2>2, <2>3, MonitorBound DEF Monitor!IInv
<1>4. CASE ~Monitor!Full
  <2>1. v3' = Append(v3, v5) /\ v6' = v6
    BY <1>4 DEF Monitor!PutAgain, Monitor!Put
  <2>2. v3' \in Seq(Nat) /\ Monitor!InMailbox' = Monitor!InMailbox \cup {v5}
    BY <2>1, MonitorAdded DEF Monitor!IInv, Monitor!Types
  <2>3. Monitor!Types'
    BY <1>1, <2>1, <2>2 DEF Monitor!PutAgain, Monitor!IInv, Monitor!Types
  <2>4. Monitor!Lost' \subseteq Monitor!Lost
    BY <1>1, <2>2, MonitorWhereFramesAre DEF Monitor!Lost
  <2> QED
    BY <1>1, <1>2, <2>1, <2>3, <2>4, MonitorBound DEF Monitor!IInv, Monitor!Types
<1> QED
  BY <1>3, <1>4

\* Everything else loses nothing.
LEMMA MonitorOfferKeeps == ASSUME Monitor!IInv, Monitor!Offer PROVE Monitor!IInv'
<1>1. /\ UNCHANGED <<v4, v6, v9, v2>> /\ v1 = "training" /\ ~Monitor!RoomMade
      /\ v5' = v5 + 1 /\ v5' \in Nat
  BY DEF Monitor!Offer, Monitor!RoomMade, Monitor!IInv, Monitor!Types
<1>2. /\ v3' \in Seq(Nat) /\ Monitor!InMailbox \subseteq Monitor!InMailbox'
      /\ v5' \in Monitor!InMailbox' \/ v1' = "evicting"
  <2>1. CASE Monitor!Full
    BY <2>1, MonitorKept DEF Monitor!Offer, Monitor!IInv, Monitor!Types
  <2>2. CASE ~Monitor!Full
    <3>1. v3' = Append(v3, v5')
      BY <2>2 DEF Monitor!Offer, Monitor!Put
    <3> QED
      BY <3>1, <1>1, MonitorAdded DEF Monitor!IInv, Monitor!Types
  <2> QED
    BY <2>1, <2>2
<1>3. Monitor!Types'
  BY <1>1, <1>2 DEF Monitor!IInv, Monitor!Types
<1>4. Monitor!Lost' \subseteq Monitor!Lost
  <2>1. Monitor!InHand = {v4, 0} /\ v4 \in Monitor!InHand' /\ v5' \in Monitor!InHand' \cup Monitor!InMailbox'
    BY <1>1, <1>2 DEF Monitor!InHand
  <2>2. 1..v5' = (1..v5) \cup {v5'} /\ 0 \notin 1..v5'
    BY <1>1 DEF Monitor!IInv, Monitor!Types
  <2> QED
    BY <1>1, <1>2, <2>1, <2>2, MonitorWhereFramesAre DEF Monitor!Lost
<1>5. Monitor!Works' => Monitor!Works
  BY <1>1 DEF Monitor!Works
<1> QED
  BY <1>1, <1>3, <1>4, <1>5, MonitorBound DEF Monitor!IInv, Monitor!Types

LEMMA MonitorCloseKeeps == ASSUME Monitor!IInv, Monitor!Close \/ Monitor!PutSentinel PROVE Monitor!IInv'
<1>1. /\ UNCHANGED <<v4, v5, v6, v9, v2>> /\ (Monitor!RoomMade => Monitor!RoomMade')
      /\ Monitor!InHand' = Monitor!InHand /\ (v3' = v3 \/ v3' = Append(v3, 0))
  BY DEF Monitor!Close, Monitor!PutSentinel, Monitor!Put, Monitor!Sentinel, Monitor!InHand,
     Monitor!RoomMade
<1>2. v3' \in Seq(Nat) /\ Monitor!InMailbox \subseteq Monitor!InMailbox'
  BY <1>1, MonitorKept, MonitorAdded DEF Monitor!IInv, Monitor!Types
<1>3. Monitor!Types'
  BY <1>1, <1>2 DEF Monitor!IInv, Monitor!Types
<1>4. Monitor!Lost' \subseteq Monitor!Lost
  BY <1>1, <1>2, MonitorWhereFramesAre DEF Monitor!Lost
<1>5. Monitor!Works' => Monitor!Works
  BY <1>1 DEF Monitor!Works
<1> QED
  BY <1>1, <1>3, <1>4, <1>5, MonitorBound DEF Monitor!IInv, Monitor!Types

LEMMA MonitorWorkerKeeps == ASSUME Monitor!IInv, Monitor!Get \/ Monitor!Write PROVE Monitor!IInv'
<1>1. UNCHANGED <<v5, v6, v1>> /\ Monitor!Works /\ (Monitor!RoomMade => Monitor!RoomMade')
  BY DEF Monitor!Get, Monitor!Write, Monitor!Works, Monitor!RoomMade
<1>2. CASE Monitor!Get
  <2>1. /\ v4' = Head(v3) /\ v4 = 0 /\ v9' = v9
        /\ v3 # <<>> /\ v3' = Tail(v3)
    BY <1>2 DEF Monitor!Get, Monitor!IInv, Monitor!Types
  <2>2. /\ Head(v3) \in Nat /\ v3' \in Seq(Nat)
        /\ Monitor!InMailbox = Monitor!InMailbox' \cup {Head(v3)}
    BY <2>1, MonitorTaken DEF Monitor!IInv, Monitor!Types
  <2>3. Monitor!Types'
    BY <1>2, <2>1, <2>2 DEF Monitor!Get, Monitor!IInv, Monitor!Types
  <2>4. Monitor!Lost' \subseteq Monitor!Lost
    <3>1. Monitor!InHand \subseteq Monitor!InHand' \cup {0} /\ v4' \in Monitor!InHand'
      BY <1>1, <2>1 DEF Monitor!InHand
    <3>2. 0 \notin 1..v5
      BY DEF Monitor!IInv, Monitor!Types
    <3> QED
      BY <1>1, <2>1, <2>2, <3>1, <3>2, MonitorWhereFramesAre DEF Monitor!Lost
  <2> QED
    BY <1>1, <2>3, <2>4, MonitorBound DEF Monitor!IInv, Monitor!Types
<1>3. CASE Monitor!Write
  <2>1. /\ v4' = 0 /\ v9' = v9 \cup {v4} /\ v3' = v3
    BY <1>3 DEF Monitor!Write
  <2>2. Monitor!Types'
    BY <1>3, <2>1 DEF Monitor!Write, Monitor!IInv, Monitor!Types
  <2>3. Monitor!InHand \subseteq Monitor!InHand' \cup {v4}
    BY <1>1, <2>1 DEF Monitor!InHand
  <2>4. Monitor!Lost' \subseteq Monitor!Lost
    BY <1>1, <2>1, <2>3, MonitorKept, MonitorWhereFramesAre DEF Monitor!Lost
  <2> QED
    BY <1>1, <2>2, <2>4, MonitorBound DEF Monitor!IInv, Monitor!Types
<1> QED
  BY <1>2, <1>3

LEMMA MonitorOthersKeep ==
  ASSUME Monitor!IInv, Monitor!CaptureFails \/ Monitor!Join \/ Monitor!Exit \/ Monitor!WriteFails \/ UNCHANGED Monitor!vars
  PROVE  Monitor!IInv'
<1>1. Monitor!Types'
  BY DEF Monitor!CaptureFails, Monitor!Join, Monitor!Exit, Monitor!WriteFails, Monitor!vars,
     Monitor!IInv, Monitor!Types
<1>2. ASSUME Monitor!Works' PROVE Monitor!AllCounted'
  <2>1. Monitor!Works /\ Monitor!AllCounted /\ v6' = v6 /\ (Monitor!RoomMade => Monitor!RoomMade')
    BY <1>2 DEF Monitor!IInv, Monitor!Works, Monitor!CaptureFails, Monitor!Join,
       Monitor!Exit, Monitor!WriteFails, Monitor!vars, Monitor!RoomMade
  <2>2. Monitor!Lost' \subseteq Monitor!Lost
    BY <1>2 DEF Monitor!CaptureFails, Monitor!Join, Monitor!Exit, Monitor!WriteFails,
       Monitor!Works, Monitor!vars, Monitor!Lost, Monitor!OnTheWay
  <2> QED
    BY <1>1, <2>1, <2>2, MonitorBound DEF Monitor!IInv, Monitor!Types
<1> QED
  BY <1>1, <1>2 DEF Monitor!IInv

LEMMA MonitorStepPreserves == ASSUME Monitor!IInv, [Monitor!Next]_Monitor!vars PROVE Monitor!IInv'
BY MonitorEvictKeeps, MonitorPutAgainKeeps, MonitorOfferKeeps, MonitorCloseKeeps,
   MonitorWorkerKeeps, MonitorOthersKeep DEF Monitor!Next

LEMMA MonitorCountsAll == ASSUME Monitor!IInv PROVE Monitor!NoSilentLoss
<1> SUFFICES ASSUME Monitor!IInv, Monitor!Works PROVE Cardinality(Monitor!Lost) <= v6 + (IF v1 = "training" THEN 0 ELSE 1)
  BY MonitorFinite DEF Monitor!NoSilentLoss, Monitor!Works
<1> QED
  BY MonitorLostIsFinite, MonitorFinite DEF Monitor!IInv, Monitor!Types, Monitor!AllCounted,
     Monitor!RoomMade

-----------------------------------------------------------------------------
\* Anchors (AnchorReplay): a published file is that of the collector it names.
\* Variables: v1 teacher, v2 collector, v3 arrays, v4 manifest, v5 reader.

LEMMA AnchorsInitIInv == ASSUME Anchors!Init PROVE Anchors!IInv
BY DEF Anchors!Init, Anchors!IInv, Anchors!Types, Anchors!FilesAreOfTheirCollectors,
   Anchors!ReaderHasOneCorpus, Anchors!Published, Anchors!Taught,
       Anchors!None, Anchors!NoManifest

\* What a published file says of its collector stays true while collectors go on.
LEMMA AnchorsRecordsStand ==
  ASSUME Anchors!IInv, Anchors!Types',
         \A c \in Collectors : Anchors!Published(c) => Anchors!Published(c)' /\ Anchors!Taught(c)' = Anchors!Taught(c)
  PROVE  /\ UNCHANGED <<v3, v4>> => Anchors!FilesAreOfTheirCollectors'
         /\ UNCHANGED v5 => Anchors!ReaderHasOneCorpus'
BY DEF Anchors!IInv, Anchors!FilesAreOfTheirCollectors, Anchors!ReaderHasOneCorpus

LEMMA AnchorsGoesOn ==
  ASSUME Anchors!IInv, NEW c \in Collectors,
         NEW pc \in {"evaluated", "described", "half", "ended"},
         Anchors!Goto(c, pc), Anchors!Published(c) => pc \in {"half", "ended"}
  PROVE  /\ v1' = v1 => Anchors!Types'
         /\ \A d \in Collectors : Anchors!Published(d) => Anchors!Published(d)' /\ Anchors!Taught(d)' = Anchors!Taught(d)
         /\ pc \in {"half", "ended"} => Anchors!Published(c)'
         /\ Anchors!Taught(c)' = Anchors!Taught(c)
BY DEF Anchors!Goto, Anchors!IInv, Anchors!Types, Anchors!Published, Anchors!Taught

LEMMA AnchorsStepPreserves == ASSUME Anchors!IInv, [Anchors!Next]_Anchors!vars PROVE Anchors!IInv'
<1> USE DEF Anchors!At
<1>1. CASE Anchors!SaveTeacher
  <2>1. Anchors!Types' /\ UNCHANGED <<v3, v4, v5, v2>>
    BY <1>1 DEF Anchors!SaveTeacher, Anchors!IInv, Anchors!Types
  <2>2. \A d \in Collectors : Anchors!Published(d) => Anchors!Published(d)' /\ Anchors!Taught(d)' = Anchors!Taught(d)
    BY <2>1 DEF Anchors!Published, Anchors!Taught
  <2> QED
    BY <2>1, <2>2, AnchorsRecordsStand DEF Anchors!IInv
<1>2. CASE Anchors!ReadManifest
  <2>1. Anchors!Types' /\ UNCHANGED <<v3, v4, v2>>
    BY <1>2 DEF Anchors!ReadManifest, Anchors!IInv, Anchors!Types
  <2>2. v5'.pc = "read" /\ v5'.manifest = v4 /\ v4.by # "none"
    BY <1>2 DEF Anchors!ReadManifest
  <2>3. Anchors!FilesAreOfTheirCollectors' /\ Anchors!ReaderHasOneCorpus'
    BY <2>1, <2>2 DEF Anchors!IInv, Anchors!FilesAreOfTheirCollectors,
       Anchors!ReaderHasOneCorpus, Anchors!Published, Anchors!Taught
  <2> QED
    BY <2>1, <2>3 DEF Anchors!IInv
<1>3. CASE Anchors!Load
  <2>1. Anchors!Types' /\ UNCHANGED <<v3, v4, v2>>
    BY <1>3 DEF Anchors!Load, Anchors!IInv, Anchors!Types
  <2>2. /\ v5'.arrays = v3 /\ v5'.manifest = v5.manifest
        /\ v5'.pc = IF v3.by = v5.manifest.by THEN "loaded" ELSE "refused"
        /\ v5.pc = "read"
    BY <1>3 DEF Anchors!Load
  <2>3. Anchors!FilesAreOfTheirCollectors' /\ Anchors!ReaderHasOneCorpus'
    BY <2>1, <2>2, AnchorParameters
    DEF Anchors!IInv, Anchors!FilesAreOfTheirCollectors, Anchors!ReaderHasOneCorpus,
       Anchors!Published, Anchors!Taught
  <2> QED
    BY <2>1, <2>3 DEF Anchors!IInv
<1>4. ASSUME NEW c \in Collectors, Anchors!Collect(c) PROVE Anchors!IInv'
  <2>1. Anchors!Types' /\ UNCHANGED <<v3, v4, v5>>
    BY <1>4 DEF Anchors!Collect, Anchors!IInv, Anchors!Types
  <2>2. \A d \in Collectors : Anchors!Published(d) => Anchors!Published(d)' /\ Anchors!Taught(d)' = Anchors!Taught(d)
    BY <1>4 DEF Anchors!Collect, Anchors!IInv, Anchors!Types, Anchors!Published,
       Anchors!Taught
  <2> QED
    BY <2>1, <2>2, AnchorsRecordsStand DEF Anchors!IInv
<1>5. ASSUME NEW c \in Collectors, Anchors!Refuse(c) \/ Anchors!Kill(c) PROVE Anchors!IInv'
  <2>1. UNCHANGED <<v1, v3, v4, v5>> /\ Anchors!Goto(c, "ended")
    BY <1>5 DEF Anchors!Refuse, Anchors!Kill
  <2> QED
    BY <2>1, AnchorsGoesOn, AnchorsRecordsStand DEF Anchors!IInv
<1>6. ASSUME NEW c \in Collectors, Anchors!Describe(c) PROVE Anchors!IInv'
  <2>1. Anchors!Types' /\ UNCHANGED <<v3, v4, v5>>
    BY <1>6 DEF Anchors!Describe, Anchors!Goto, Anchors!IInv, Anchors!Types
  <2>2. \A d \in Collectors : Anchors!Published(d) => Anchors!Published(d)' /\ Anchors!Taught(d)' = Anchors!Taught(d)
    BY <1>6 DEF Anchors!Describe, Anchors!Goto, Anchors!IInv, Anchors!Types,
       Anchors!Published, Anchors!Taught
  <2> QED
    BY <2>1, <2>2, AnchorsRecordsStand DEF Anchors!IInv
<1>7. ASSUME NEW c \in Collectors, Anchors!PublishArrays(c) PROVE Anchors!IInv'
  <2>1. /\ UNCHANGED <<v1, v4, v5>> /\ Anchors!Goto(c, "half") /\ ~Anchors!Published(c)
        /\ v3' = [by |-> c, taught |-> Anchors!Taught(c)]
    BY <1>7 DEF Anchors!PublishArrays, Anchors!Published, Anchors!Taught
  <2>2. /\ Anchors!Types' /\ Anchors!Published(c)' /\ Anchors!Taught(c)' = Anchors!Taught(c)
        /\ \A d \in Collectors : Anchors!Published(d) => Anchors!Published(d)' /\ Anchors!Taught(d)' = Anchors!Taught(d)
    BY <2>1, AnchorsGoesOn DEF Anchors!IInv
  <2>3. Anchors!FilesAreOfTheirCollectors'
    BY <2>1, <2>2 DEF Anchors!IInv, Anchors!FilesAreOfTheirCollectors
  <2> QED
    BY <2>1, <2>2, <2>3, AnchorsRecordsStand DEF Anchors!IInv
<1>8. ASSUME NEW c \in Collectors, Anchors!PublishManifest(c) PROVE Anchors!IInv'
  <2>1. /\ UNCHANGED <<v1, v3, v5>> /\ Anchors!Goto(c, "ended")
        /\ v4' = [by |-> c, evaluated |-> Anchors!Taught(c), source |-> v2[c].source]
    BY <1>8 DEF Anchors!PublishManifest, Anchors!Taught
  <2>2. /\ Anchors!Types' /\ Anchors!Published(c)' /\ Anchors!Taught(c)' = Anchors!Taught(c)
        /\ \A d \in Collectors : Anchors!Published(d) => Anchors!Published(d)' /\ Anchors!Taught(d)' = Anchors!Taught(d)
    BY <2>1, AnchorsGoesOn DEF Anchors!IInv
  <2>3. Anchors!FilesAreOfTheirCollectors'
    BY <2>1, <2>2 DEF Anchors!IInv, Anchors!FilesAreOfTheirCollectors
  <2> QED
    BY <2>1, <2>2, <2>3, AnchorsRecordsStand DEF Anchors!IInv
<1>9. CASE UNCHANGED Anchors!vars
  <2>1. UNCHANGED <<v1, v2, v3, v4, v5>>
    BY <1>9 DEF Anchors!vars
  <2> QED
    BY <2>1 DEF Anchors!IInv, Anchors!Types, Anchors!FilesAreOfTheirCollectors,
       Anchors!ReaderHasOneCorpus, Anchors!Published, Anchors!Taught
<1> QED
  BY <1>1, <1>2, <1>3, <1>4, <1>5, <1>6, <1>7, <1>8, <1>9 DEF Anchors!Next

\* A file that two agree with is one collector's.
LEMMA AnchorsCorpusHolds == ASSUME Anchors!IInv PROVE Anchors!LoadedCorpusIsWhole
BY DEF Anchors!IInv, Anchors!ReaderHasOneCorpus, Anchors!LoadedCorpusIsWhole

-----------------------------------------------------------------------------
\* Lineage (CheckpointLineage): a label says what the weights were trained with.
\* Variables: v1 version, v2 file, v3 run.

LEMMA LineageModeIs == /\ \A task : Lineage!Mode(task) \in BOOLEAN
                /\ \A task \in Lineage!Tasks : Lineage!Profiles(task) \subseteq Lineage!Normalizers
BY DEF Lineage!Mode, Lineage!Profiles, Lineage!Normalizers

LEMMA LineageInitIInv == ASSUME Lineage!Init PROVE Lineage!IInv
<1>1. PICK old \in Lineage!Legacy : v2 = [s \in Slots |-> old]
  BY DEF Lineage!Init
<1>2. PICK task \in Lineage!Tasks, named \in BOOLEAN, steps \in 0..1 :
        old = [is |-> "checkpoint", task |-> task, named |-> named, mode |-> FALSE,
               label |-> Lineage!None, weights |-> "empirical", wide |-> FALSE,
               steps |-> steps, counter |-> Lineage!Absent]
  BY DEF Lineage!Legacy
<1>3. old \in Lineage!Checkpoints /\ Lineage!LabelIsTrue(old)
  BY <1>2 DEF Lineage!Checkpoints, Lineage!LabelIsTrue, Lineage!Progress,
     Lineage!Normalizers, Lineage!None, Lineage!Absent
<1> QED
  BY <1>1, <1>3 DEF Lineage!Init, Lineage!IInv, Lineage!Types, Lineage!RunIsOfItsTask,
     Lineage!RunFitsItsWeights, Lineage!NoRun, Lineage!None

\* A process that was started for a task, with weights and steps of its own.
LEMMA LineageProcessStarts ==
  ASSUME NEW task \in Lineage!Tasks, NEW normalizer \in Lineage!Profiles(task),
         NEW weights \in Lineage!Normalizers, NEW steps \in Nat, NEW counter \in Int,
         weights = normalizer, counter = steps, Lineage!IInv,
         v3' = [is |-> "run", task |-> task, mode |-> Lineage!Mode(task),
                 normalizer |-> normalizer, weights |-> weights, wide |-> Lineage!Mode(task),
                 steps |-> steps, counter |-> counter],
         UNCHANGED <<v1, v2>>
  PROVE  Lineage!IInv'
<1>1. v3' \in Lineage!Runs
  BY LineageModeIs DEF Lineage!Runs
<1>2. /\ v3'.task = task /\ v3'.mode = Lineage!Mode(task) /\ v3'.wide = Lineage!Mode(task)
      /\ v3'.weights = v3'.normalizer /\ v3'.counter = v3'.steps
      /\ v1' = v1
  OBVIOUS
<1>3. \A s \in Slots : Lineage!LabelIsTrue(v2[s])'
  BY DEF Lineage!IInv, Lineage!LabelIsTrue, Lineage!Progress
<1> QED
  BY <1>1, <1>2, <1>3 DEF Lineage!IInv, Lineage!Types, Lineage!RunIsOfItsTask,
     Lineage!RunFitsItsWeights, Lineage!Mode

LEMMA LineageProcessIs ==
  ASSUME NEW task \in Lineage!Tasks, NEW normalizer, NEW weights
  PROVE  /\ Lineage!Process(task, normalizer) =
              [is |-> "run", task |-> task, mode |-> Lineage!Mode(task),
               normalizer |-> normalizer, weights |-> normalizer, wide |-> Lineage!Mode(task),
               steps |-> 0, counter |-> 0]
         /\ [Lineage!Process(task, normalizer) EXCEPT !.weights = weights] =
              [is |-> "run", task |-> task, mode |-> Lineage!Mode(task),
               normalizer |-> normalizer, weights |-> weights, wide |-> Lineage!Mode(task),
               steps |-> 0, counter |-> 0]
BY DEF Lineage!Process

LEMMA LineageResumedIs ==
  ASSUME NEW task, NEW normalizer, NEW weights, NEW steps, NEW counter
  PROVE  [Lineage!Process(task, normalizer) EXCEPT !.weights = weights, !.steps = steps,
                                           !.counter = counter]
         = [is |-> "run", task |-> task, mode |-> Lineage!Mode(task),
            normalizer |-> normalizer, weights |-> weights, wide |-> Lineage!Mode(task),
            steps |-> steps, counter |-> counter]
<1> DEFINE p == [is |-> "run", task |-> task, mode |-> Lineage!Mode(task),
                 normalizer |-> normalizer, weights |-> weights, wide |-> Lineage!Mode(task),
                 steps |-> 0, counter |-> 0]
           q == [is |-> "run", task |-> task, mode |-> Lineage!Mode(task),
                 normalizer |-> normalizer, weights |-> weights, wide |-> Lineage!Mode(task),
                 steps |-> steps, counter |-> 0]
<1>1. [Lineage!Process(task, normalizer) EXCEPT !.weights = weights] = p
  BY DEF Lineage!Process
<1>2. [p EXCEPT !.steps = steps] = q
  OBVIOUS
<1>3. [q EXCEPT !.counter = counter] =
        [is |-> "run", task |-> task, mode |-> Lineage!Mode(task),
         normalizer |-> normalizer, weights |-> weights, wide |-> Lineage!Mode(task),
         steps |-> steps, counter |-> counter]
  OBVIOUS
<1> HIDE DEF p, q
<1> QED
  BY <1>1, <1>2, <1>3, Zenon

\* A file that is written whole: the others stay.
LEMMA LineageFileReplaced ==
  ASSUME Lineage!IInv, NEW s \in Slots, NEW f \in Lineage!Checkpoints, Lineage!LabelIsTrue(f),
         v2' = [v2 EXCEPT ![s] = f], UNCHANGED <<v1, v3>>
  PROVE  Lineage!IInv'
<1>1. Lineage!Types'
  BY DEF Lineage!IInv, Lineage!Types
<1>2. \A t \in Slots : v2'[t] = f \/ v2'[t] = v2[t]
  BY DEF Lineage!IInv, Lineage!Types
<1>3. \A t \in Slots : Lineage!LabelIsTrue(v2[t])'
  BY <1>2 DEF Lineage!IInv, Lineage!LabelIsTrue, Lineage!Progress
<1>4. Lineage!RunIsOfItsTask' /\ Lineage!RunFitsItsWeights'
  BY DEF Lineage!IInv, Lineage!RunIsOfItsTask, Lineage!RunFitsItsWeights, Lineage!Mode
<1> QED
  BY <1>1, <1>3, <1>4 DEF Lineage!IInv

LEMMA LineageSaveKeeps == ASSUME Lineage!IInv, NEW s \in Slots, Lineage!Save(s) PROVE Lineage!IInv'
<1> DEFINE f == [is |-> "checkpoint", task |-> v3.task, named |-> TRUE, mode |-> v3.mode,
                 label |-> v3.normalizer, weights |-> v3.weights, wide |-> v3.wide,
                 steps |-> v3.steps, counter |-> v3.counter]
<1>1. v3 \in Lineage!Runs /\ Lineage!RunIsOfItsTask /\ Lineage!RunFitsItsWeights /\ v3.is = "run"
  BY DEF Lineage!Save, Lineage!IInv, Lineage!Types, Lineage!NoRun, Lineage!None
<1>2. f \in Lineage!Checkpoints
  BY <1>1 DEF Lineage!Runs, Lineage!Checkpoints
<1>3. Lineage!LabelIsTrue(f)
  BY <1>1
  DEF Lineage!LabelIsTrue, Lineage!Progress, Lineage!RunIsOfItsTask,
     Lineage!RunFitsItsWeights, Lineage!Runs, Lineage!Normalizers, Lineage!None, Lineage!Mode
<1>4. v2' = [v2 EXCEPT ![s] = f] /\ UNCHANGED <<v1, v3>>
  BY DEF Lineage!Save
<1> HIDE DEF f
<1> QED
  BY <1>2, <1>3, <1>4, LineageFileReplaced

LEMMA LineageMigrateKeeps ==
  ASSUME Lineage!IInv, NEW s \in Slots, Lineage!MigrateSemantic(s) \/ Lineage!MigrateContext(s) PROVE Lineage!IInv'
<1>1. v2[s] \in Lineage!Checkpoints /\ Lineage!LabelIsTrue(v2[s])
  BY DEF Lineage!IInv, Lineage!Types
<1>2. CASE Lineage!MigrateSemantic(s)
  <2> DEFINE g == [v2[s] EXCEPT !.label = "semantic", !.weights = "semantic"]
  <2>1. v2' = [v2 EXCEPT ![s] = g] /\ UNCHANGED <<v1, v3>>
    BY <1>2 DEF Lineage!MigrateSemantic, Lineage!IInv, Lineage!Types
  <2>2. g \in Lineage!Checkpoints
    BY <1>1 DEF Lineage!Checkpoints, Lineage!Normalizers
  <2>3. /\ g.label = "semantic" /\ g.weights = "semantic"
        /\ g.wide = v2[s].wide /\ g.mode = v2[s].mode /\ g.task = v2[s].task
        /\ g.steps = v2[s].steps /\ g.counter = v2[s].counter
    BY <1>1 DEF Lineage!Checkpoints
  <2> HIDE DEF g
  <2>4. Lineage!LabelIsTrue(g)
    BY <2>3, <1>1 DEF Lineage!LabelIsTrue, Lineage!Progress, Lineage!None
  <2> QED
    BY <2>1, <2>2, <2>4, LineageFileReplaced
<1>3. CASE Lineage!MigrateContext(s)
  <2> DEFINE g == [v2[s] EXCEPT !.label = "context", !.weights = "context",
                                  !.mode = TRUE, !.wide = TRUE]
  <2>1. v2' = [v2 EXCEPT ![s] = g] /\ UNCHANGED <<v1, v3>>
    BY <1>3 DEF Lineage!MigrateContext, Lineage!IInv, Lineage!Types
  <2>2. g \in Lineage!Checkpoints
    BY <1>1 DEF Lineage!Checkpoints, Lineage!Normalizers
  <2>3. /\ g.label = "context" /\ g.weights = "context"
        /\ g.wide = TRUE /\ g.mode = TRUE /\ g.task = v2[s].task
        /\ g.steps = v2[s].steps /\ g.counter = v2[s].counter
    BY <1>1 DEF Lineage!Checkpoints
  <2> HIDE DEF g
  <2>4. Lineage!Mode(v2[s].task)
    BY <1>3 DEF Lineage!MigrateContext
  <2>5. Lineage!LabelIsTrue(g)
    BY <2>3, <2>4, <1>1 DEF Lineage!LabelIsTrue, Lineage!Progress, Lineage!None, Lineage!Mode
  <2> QED
    BY <2>1, <2>2, <2>5, LineageFileReplaced
<1> QED
  BY <1>2, <1>3

\* The contract lets a run have a checkpoint only under the normalizer of its weights.
LEMMA LineageContractHolds ==
  ASSUME Lineage!IInv, NEW s \in Slots, NEW task \in Lineage!Tasks, NEW normalizer \in Lineage!Profiles(task),
         Lineage!NormalizerContractHolds(v2[s], normalizer)
  PROVE  /\ v2[s] \in Lineage!Checkpoints /\ v2[s].weights = normalizer
         /\ v2[s].weights \in Lineage!Normalizers /\ v2[s].steps \in Nat
         /\ Lineage!Progress(v2[s]) = v2[s].steps
BY LineageModeIs DEF Lineage!IInv, Lineage!Types, Lineage!Checkpoints, Lineage!LabelIsTrue,
   Lineage!NormalizerContractHolds, Lineage!Normalizers, Lineage!None

LEMMA LineageResumeKeeps == ASSUME Lineage!IInv, NEW s \in Slots, Lineage!Resume(s) PROVE Lineage!IInv'
<1>1. PICK task \in Lineage!Tasks : \E normalizer \in Lineage!Profiles(task) :
        /\ Lineage!NormalizerContractHolds(v2[s], normalizer)
        /\ v3' = [Lineage!Process(task, normalizer) EXCEPT
                     !.weights = v2[s].weights, !.steps = v2[s].steps,
                     !.counter = Lineage!Progress(v2[s])]
  BY DEF Lineage!Resume
<1>2. PICK normalizer \in Lineage!Profiles(task) :
        /\ Lineage!NormalizerContractHolds(v2[s], normalizer)
        /\ v3' = [Lineage!Process(task, normalizer) EXCEPT
                     !.weights = v2[s].weights, !.steps = v2[s].steps,
                     !.counter = Lineage!Progress(v2[s])]
  BY <1>1
<1>3. UNCHANGED <<v1, v2>>
  BY DEF Lineage!Resume
<1>4. /\ v2[s].weights = normalizer
      /\ v2[s].weights \in Lineage!Normalizers /\ v2[s].steps \in Nat
      /\ Lineage!Progress(v2[s]) = v2[s].steps /\ Lineage!Progress(v2[s]) \in Int
  BY <1>2, LineageContractHolds
<1>5. v3' = [is |-> "run", task |-> task, mode |-> Lineage!Mode(task), normalizer |-> normalizer,
              weights |-> v2[s].weights, wide |-> Lineage!Mode(task),
              steps |-> v2[s].steps, counter |-> Lineage!Progress(v2[s])]
  BY <1>2, LineageResumedIs
<1> QED
  BY <1>3, <1>4, <1>5, LineageProcessStarts

LEMMA LineageTransferKeeps == ASSUME Lineage!IInv, NEW s \in Slots, Lineage!Transfer(s) PROVE Lineage!IInv'
<1>1. PICK task \in Lineage!Tasks : \E normalizer \in Lineage!Profiles(task) :
        /\ Lineage!NormalizerContractHolds(v2[s], normalizer)
        /\ v3' = [Lineage!Process(task, normalizer) EXCEPT !.weights = v2[s].weights]
  BY DEF Lineage!Transfer
<1>2. PICK normalizer \in Lineage!Profiles(task) :
        /\ Lineage!NormalizerContractHolds(v2[s], normalizer)
        /\ v3' = [Lineage!Process(task, normalizer) EXCEPT !.weights = v2[s].weights]
  BY <1>1
<1>3. UNCHANGED <<v1, v2>>
  BY DEF Lineage!Transfer
<1>4. v2[s].weights = normalizer /\ v2[s].weights \in Lineage!Normalizers
  BY <1>2, LineageContractHolds
<1>5. v3' = [is |-> "run", task |-> task, mode |-> Lineage!Mode(task), normalizer |-> normalizer,
              weights |-> v2[s].weights, wide |-> Lineage!Mode(task), steps |-> 0, counter |-> 0]
  BY <1>2, LineageProcessIs
<1> QED
  BY <1>3, <1>4, <1>5, LineageProcessStarts

LEMMA LineageStepPreserves == ASSUME Lineage!IInv, [Lineage!Next]_Lineage!vars PROVE Lineage!IInv'
<1>1. CASE Lineage!Start
  <2>0. PICK task \in Lineage!Tasks : \E normalizer \in Lineage!Profiles(task) : v3' = Lineage!Process(task, normalizer)
    BY <1>1 DEF Lineage!Start
  <2>1. PICK normalizer \in Lineage!Profiles(task) : v3' = Lineage!Process(task, normalizer)
    BY <2>0
  <2>2. normalizer \in Lineage!Normalizers /\ UNCHANGED <<v1, v2>>
    BY <1>1, LineageModeIs DEF Lineage!Start
  <2>3. v3' = [is |-> "run", task |-> task, mode |-> Lineage!Mode(task), normalizer |-> normalizer,
                weights |-> normalizer, wide |-> Lineage!Mode(task), steps |-> 0, counter |-> 0]
    BY <2>1, LineageProcessIs
  <2> QED
    BY <2>2, <2>3, LineageProcessStarts
<1>2. CASE Lineage!Train
  <2>1. /\ v3 \in Lineage!Runs /\ UNCHANGED <<v1, v2>>
        /\ v3' = [v3 EXCEPT !.steps = @ + 1, !.counter = @ + 1]
        /\ Lineage!RunIsOfItsTask /\ Lineage!RunFitsItsWeights /\ v3.is = "run"
    BY <1>2 DEF Lineage!Train, Lineage!IInv, Lineage!Types, Lineage!NoRun, Lineage!None
  <2> DEFINE p == [v3 EXCEPT !.steps = v3.steps + 1]
  <2>a. p \in Lineage!Runs /\ p.task = v3.task /\ p.mode = v3.mode /\ p.wide = v3.wide
    BY <2>1 DEF Lineage!Runs
  <2>b. /\ p.weights = v3.weights /\ p.normalizer = v3.normalizer
        /\ p.steps = v3.steps + 1 /\ p.counter = v3.counter
    BY <2>1 DEF Lineage!Runs
  <2>c. v3' = [p EXCEPT !.counter = p.counter + 1]
    BY <2>1, <2>b DEF Lineage!Runs
  <2> HIDE DEF p
  <2>2. /\ v3' \in Lineage!Runs /\ v3'.task = v3.task /\ v3'.mode = v3.mode
        /\ v3'.wide = v3.wide /\ v3'.weights = v3.weights
        /\ v3'.normalizer = v3.normalizer
        /\ v3'.steps = v3.steps + 1 /\ v3'.counter = v3.counter + 1
    BY <2>a, <2>b, <2>c DEF Lineage!Runs
  <2>3. Lineage!Types' /\ Lineage!RunIsOfItsTask' /\ Lineage!RunFitsItsWeights'
    BY <2>1, <2>2 DEF Lineage!IInv, Lineage!Types, Lineage!RunIsOfItsTask,
       Lineage!RunFitsItsWeights, Lineage!Mode
  <2>4. \A s \in Slots : Lineage!LabelIsTrue(v2[s])'
    BY <2>1 DEF Lineage!IInv, Lineage!LabelIsTrue, Lineage!Progress
  <2> QED
    BY <2>3, <2>4 DEF Lineage!IInv
<1>3. CASE Lineage!End
  <2>1. v3' = Lineage!NoRun /\ UNCHANGED <<v1, v2>>
    BY <1>3 DEF Lineage!End
  <2>2. \A s \in Slots : Lineage!LabelIsTrue(v2[s])'
    BY <2>1 DEF Lineage!IInv, Lineage!LabelIsTrue, Lineage!Progress
  <2> QED
    BY <2>1, <2>2 DEF Lineage!IInv, Lineage!Types, Lineage!RunIsOfItsTask,
       Lineage!RunFitsItsWeights, Lineage!NoRun, Lineage!None
<1>4. CASE Lineage!Upgrade
  <2>1. v3 = Lineage!NoRun /\ v1' = 2 /\ UNCHANGED <<v2, v3>>
    BY <1>4 DEF Lineage!Upgrade
  <2>2. \A s \in Slots : Lineage!LabelIsTrue(v2[s])'
    BY <2>1 DEF Lineage!IInv, Lineage!LabelIsTrue, Lineage!Progress
  <2> QED
    BY <2>1, <2>2 DEF Lineage!IInv, Lineage!Types, Lineage!RunIsOfItsTask,
       Lineage!RunFitsItsWeights, Lineage!NoRun, Lineage!None
<1>5. CASE UNCHANGED Lineage!vars
  <2>1. UNCHANGED <<v1, v2, v3>>
    BY <1>5 DEF Lineage!vars
  <2> QED
    BY <2>1
    DEF Lineage!IInv, Lineage!Types, Lineage!LabelIsTrue, Lineage!Progress,
       Lineage!RunIsOfItsTask, Lineage!RunFitsItsWeights, Lineage!Mode
<1> QED
  BY <1>1, <1>2, <1>3, <1>4, <1>5, LineageSaveKeeps, LineageMigrateKeeps,
     LineageResumeKeeps, LineageTransferKeeps DEF Lineage!Next

-----------------------------------------------------------------------------
\* A behaviour is about one protocol, which begins and goes on as its module says.

LEMMA PartsBegin ==
  ASSUME Init
  PROVE  /\ part = "mix" => Mix!Init
         /\ part = "horizon" => Horizon!Init
         /\ part = "jump" => Jump!Init
         /\ part = "slot" => Slot!Init
         /\ part = "settled" => Settled!BonusInit
         /\ part = "rewards" => Rewards!Init
         /\ part = "episode" => Episode!Init
         /\ part = "monitor" => Monitor!Init
         /\ part = "anchors" => Anchors!Init
         /\ part = "lineage" => Lineage!Init
BY Zenon DEF Init,
   MixBegins, SettledBegins, JumpBegins, RewardsBegins, EpisodeBegins, HorizonBegins,
   MonitorBegins, AnchorsBegins, LineageBegins, SlotBegins, SuiteBegins, StatisticsBegins,
   TimelineBegins, SweepBegins

LEMMA PartsGoOn ==
  ASSUME [Next]_vars
  PROVE  /\ part' = part
         /\ part = "mix" => [Mix!Next]_Mix!vars
         /\ part = "horizon" => [Horizon!Next]_Horizon!vars
         /\ part = "jump" => [Jump!Next]_Jump!vars
         /\ part = "slot" => [Slot!Next]_Slot!vars
         /\ part = "settled" => [Settled!BonusNext]_Settled!bonusVars
         /\ part = "rewards" => [Rewards!Next]_Rewards!vars
         /\ part = "episode" => [Episode!Next]_Episode!vars
         /\ part = "monitor" => [Monitor!Next]_Monitor!vars
         /\ part = "anchors" => [Anchors!Next]_Anchors!vars
         /\ part = "lineage" => [Lineage!Next]_Lineage!vars
<1>1. CASE Next
  <2>1. part' = part
    BY <1>1, Zenon DEF Next,
       MixStep, SettledStep, JumpStep, RewardsStep, EpisodeStep, HorizonStep, MonitorStep,
       AnchorsStep, LineageStep, SlotStep, SuiteStep, StatisticsStep, TimelineStep,
       SweepStep
  <2>2. part = "mix" => Mix!Next
    BY <1>1, Zenon DEF Next,
       MixStep, SettledStep, JumpStep, RewardsStep, EpisodeStep, HorizonStep, MonitorStep,
       AnchorsStep, LineageStep, SlotStep, SuiteStep, StatisticsStep, TimelineStep,
       SweepStep
  <2>3. part = "horizon" => Horizon!Next
    BY <1>1, Zenon DEF Next,
       MixStep, SettledStep, JumpStep, RewardsStep, EpisodeStep, HorizonStep, MonitorStep,
       AnchorsStep, LineageStep, SlotStep, SuiteStep, StatisticsStep, TimelineStep,
       SweepStep
  <2>4. part = "jump" => Jump!Next
    BY <1>1, Zenon DEF Next,
       MixStep, SettledStep, JumpStep, RewardsStep, EpisodeStep, HorizonStep, MonitorStep,
       AnchorsStep, LineageStep, SlotStep, SuiteStep, StatisticsStep, TimelineStep,
       SweepStep
  <2>5. part = "slot" => Slot!Next
    BY <1>1, Zenon DEF Next,
       MixStep, SettledStep, JumpStep, RewardsStep, EpisodeStep, HorizonStep, MonitorStep,
       AnchorsStep, LineageStep, SlotStep, SuiteStep, StatisticsStep, TimelineStep,
       SweepStep
  <2>6. part = "settled" => Settled!BonusNext
    BY <1>1, Zenon DEF Next,
       MixStep, SettledStep, JumpStep, RewardsStep, EpisodeStep, HorizonStep, MonitorStep,
       AnchorsStep, LineageStep, SlotStep, SuiteStep, StatisticsStep, TimelineStep,
       SweepStep
  <2>7. part = "rewards" => Rewards!Next
    BY <1>1, Zenon DEF Next,
       MixStep, SettledStep, JumpStep, RewardsStep, EpisodeStep, HorizonStep, MonitorStep,
       AnchorsStep, LineageStep, SlotStep, SuiteStep, StatisticsStep, TimelineStep,
       SweepStep
  <2>8. part = "episode" => Episode!Next
    BY <1>1, Zenon DEF Next,
       MixStep, SettledStep, JumpStep, RewardsStep, EpisodeStep, HorizonStep, MonitorStep,
       AnchorsStep, LineageStep, SlotStep, SuiteStep, StatisticsStep, TimelineStep,
       SweepStep
  <2>9. part = "monitor" => Monitor!Next
    BY <1>1, Zenon DEF Next,
       MixStep, SettledStep, JumpStep, RewardsStep, EpisodeStep, HorizonStep, MonitorStep,
       AnchorsStep, LineageStep, SlotStep, SuiteStep, StatisticsStep, TimelineStep,
       SweepStep
  <2>10. part = "anchors" => Anchors!Next
    BY <1>1, Zenon DEF Next,
       MixStep, SettledStep, JumpStep, RewardsStep, EpisodeStep, HorizonStep, MonitorStep,
       AnchorsStep, LineageStep, SlotStep, SuiteStep, StatisticsStep, TimelineStep,
       SweepStep
  <2>11. part = "lineage" => Lineage!Next
    BY <1>1, Zenon DEF Next,
       MixStep, SettledStep, JumpStep, RewardsStep, EpisodeStep, HorizonStep, MonitorStep,
       AnchorsStep, LineageStep, SlotStep, SuiteStep, StatisticsStep, TimelineStep,
       SweepStep
  <2> QED
    BY <2>1, <2>2, <2>3, <2>4, <2>5, <2>6, <2>7, <2>8, <2>9, <2>10, <2>11
<1>2. CASE UNCHANGED vars
  <2>1. UNCHANGED <<part, v1, v2, v3, v4, v5, v6, v7, v8, v9, v10, v11, v12, v13, v14>>
    BY <1>2 DEF vars
  <2> QED
    BY <2>1 DEF Mix!vars, Horizon!vars, Jump!vars, Slot!vars, Settled!bonusVars, Settled!vars, Rewards!vars, Episode!vars, Monitor!vars, Anchors!vars, Lineage!vars
<1> QED
  BY <1>1, <1>2

-----------------------------------------------------------------------------
(* The theorems.  The invariant of a part is its module's IInv, and says   *)
(* nothing of a behaviour that is about another part.                      *)

\* The goal mix steps up on fresh evidence that holds as many successes as trials at
\* most, the horizon on windows that are nearly all of its stage, and the candidate kept
\* on disk is never better than the best window, whatever crash falls between its two
\* renames.  (mdp/events.py update_generalist_goal_mix, horizon_curriculum.py)
THEOREM PromotionsStayEarned == Spec => []PromotionsAreEarned
<1> DEFINE I == /\ part = "mix" => Mix!IInv
                /\ part = "horizon" => Horizon!IInv
<1>1. Init => I
  BY PartsBegin, MixInitIInv, HorizonInitIInv
<1>2. I /\ [Next]_vars => I'
  BY PartsGoOn, MixStepPreserves, HorizonStepPreserves
<1>3. I => PromotionsAreEarned
  BY HorizonPromotionsHold DEF PromotionsAreEarned, Mix!IInv
<1> HIDE DEF I
<1> QED
  BY <1>1, <1>2, <1>3, PTL DEF Spec

\* A request of a jump is one attempt with one takeoff at most, and a robot that stays
\* calm ends it in bounded time from every phase.  (mdp/jump.py)
THEOREM JumpsStayWhole == Spec => []JumpsAreWhole
<1> DEFINE I == part = "jump" => Jump!IInv
<1>1. Init => I
  BY PartsBegin, JumpInitIInv
<1>2. I /\ [Next]_vars => I'
  BY PartsGoOn, JumpStepPreserves
<1>3. I => JumpsAreWhole
  BY JumpIInvHolds DEF JumpsAreWhole
<1> HIDE DEF I
<1> QED
  BY <1>1, <1>2, <1>3, PTL DEF Spec

\* A confirmed stop, a settling and a recovery are reported exactly when the rollout holds
\* the window that confirms them, for any horizon and any lengths of the windows.
\* (evaluation/runner.py:1128-1208, 1431-1447)
THEOREM SuccessStaysSustained == Spec => []SuccessIsSustained
<1> DEFINE I == part = "slot" => Slot!IInv
<1>1. Init => I
  BY PartsBegin, SlotInitIInv
<1>2. I /\ [Next]_vars => I'
  BY PartsGoOn, SlotStepPreserves
<1>3. I => SuccessIsSustained
  BY SlotSuccessHolds DEF SuccessIsSustained
<1> HIDE DEF I
<1> QED
  BY <1>1, <1>2, <1>3, PTL DEF Spec

\* No step takes back a judgement: a bad mark of a window goes with the stage it was given
\* in, the verdict of a slot stays while the other slots run on, and only a recovered
\* landing ends an attempt that took off.  (events.py, runner.py:1472-1534, jump.py)
THEOREM JudgementsAreFinal == Spec => JudgementsStand
<1> DEFINE I == /\ part = "mix" => Mix!IInv
                /\ part = "slot" => Slot!IInv
                /\ part = "jump" => Jump!IInv
           A == /\ part = "mix" => Mix!MarksBelongToTheStage
                /\ part = "slot" => Slot!VerdictIsFinal
                /\ part = "jump" => Jump!RecoveredHasLanded
<1>1. Init => I
  BY PartsBegin, MixInitIInv, SlotInitIInv, JumpInitIInv
<1>2. I /\ [Next]_vars => I' /\ A
  BY PartsGoOn, MixStepPreserves, SlotStepPreserves, JumpStepPreserves
<1>3. JudgementsStand <=> [][A]_vars
  BY Zenon DEF JudgementsStand
<1> HIDE DEF I, A
<1> QED
  BY <1>1, <1>2, <1>3, PTL DEF Spec

\* Every term of the reward is computed from the state of the attempt and the episode it
\* is paid for, whatever ends, resets or is retargeted between two of its calls.
\* (mdp/rewards.py)
THEOREM RewardsStayWithTheirAttempt == Spec => []RewardsAreOfOneAttempt
<1> DEFINE I == part = "rewards" => Rewards!IInv
<1>1. Init => I
  BY PartsBegin, RewardsInitIInv
<1>2. I /\ [Next]_vars => I'
  BY PartsGoOn, RewardsStepPreserves
<1>3. I => RewardsAreOfOneAttempt
  BY DEF RewardsAreOfOneAttempt, Rewards!IInv
<1> HIDE DEF I
<1> QED
  BY <1>1, <1>2, <1>3, PTL DEF Spec

\* An episode of any length in an arena of any size tells the robot what its task says and
\* in the order it says it.  (mdp/events.py)
THEOREM EpisodesFollowTheirScript == Spec => []EpisodeFollowsTheScript
<1> DEFINE I == part = "episode" => Episode!IInv
<1>1. Init => I
  BY PartsBegin, EpisodeInitIInv
<1>2. I /\ [Next]_vars => I'
  BY PartsGoOn, EpisodeStepPreserves
<1>3. I => EpisodeFollowsTheScript
  BY EpisodeScriptHolds DEF EpisodeFollowsTheScript
<1> HIDE DEF I
<1> QED
  BY <1>1, <1>2, <1>3, PTL DEF Spec

\* The count of dropped frames covers every frame the display has missed, for a mailbox of
\* any capacity.  (live_training_monitor.py)
THEOREM EveryLossIsCounted == Spec => []NoSilentLoss
<1> DEFINE I == part = "monitor" => Monitor!IInv
<1>1. Init => I
  BY PartsBegin, MonitorInitIInv
<1>2. I /\ [Next]_vars => I'
  BY PartsGoOn, MonitorStepPreserves
<1>3. I => NoSilentLoss
  BY MonitorCountsAll DEF NoSilentLoss
<1> HIDE DEF I
<1> QED
  BY <1>1, <1>2, <1>3, PTL DEF Spec

\* A run that starts has the arrays that its manifest of the corpus describes, and the
\* normalizer and the schedules that its weights were trained with, for any number of
\* collectors, teachers, checkpoints and runs.
\* (retention_replay.py, semantic_normalization.py, provenance_runner.py)
THEOREM InheritanceStaysFit == Spec => []InheritanceFits
<1> DEFINE I == /\ part = "anchors" => Anchors!IInv
                /\ part = "lineage" => Lineage!IInv
<1>1. Init => I
  BY PartsBegin, AnchorsInitIInv, LineageInitIInv
<1>2. I /\ [Next]_vars => I'
  BY PartsGoOn, AnchorsStepPreserves, LineageStepPreserves
<1>3. I => InheritanceFits
  BY AnchorsCorpusHolds DEF InheritanceFits, Lineage!IInv
<1> HIDE DEF I
<1> QED
  BY <1>1, <1>2, <1>3, PTL DEF Spec

\* The books of the attempts balance, the ring of attempts agrees with the one that is
\* active, nothing is settled that was not reached, and no attempt is credited twice, for
\* any dwell, any ring and any number of episodes.  (mdp/events.py, mdp/metrics.py)
THEOREM AttemptsStayBooked == Spec => []AttemptsAreBooked
<1> DEFINE I == part = "settled" => Settled!IInv
<1>1. Init => I
  BY PartsBegin, SettledInitIInv
<1>2. I /\ [Next]_vars => I'
  BY PartsGoOn, SettledStepPreserves
<1>3. I => AttemptsAreBooked
  BY SettledBooksHold DEF AttemptsAreBooked
<1> HIDE DEF I
<1> QED
  BY <1>1, <1>2, <1>3, PTL DEF Spec

\* Whoever the sequence records as settled has been paid for that very attempt, although
\* the reward and the sequence each time the dwell with a clock of their own.
\* (mdp/rewards.py, mdp/events.py)
THEOREM WhoSettlesIsPaid == Spec => SettledIsPaid
<1> DEFINE I == part = "settled" => Settled!IInv
           A == part = "settled" => Settled!SettledIsPaid
<1>1. Init => I
  BY PartsBegin, SettledInitIInv
<1>2. I /\ [Next]_vars => I' /\ A
  BY PartsGoOn, SettledStepPreserves, SettledStopsArePaid
<1>3. SettledIsPaid <=> [][A]_vars
  BY Zenon DEF SettledIsPaid
<1> HIDE DEF I, A
<1> QED
  BY <1>1, <1>2, <1>3, PTL DEF Spec

\* To the goal mix an environment is an episode ledger: the sequence begins as one, and
\* each of its calls and resets is a step of one or changes nothing the mix can see.
\* (mdp/events.py, _record_goal_mix_outcomes)
THEOREM TheSequenceIsALedger == Spec => ImplementsLedger
<1> DEFINE I == part = "settled" => Settled!IInv
           B == part = "settled" => Settled!Ledger!LedgerInit
           A == part = "settled" => \/ Settled!Ledger!Call \/ Settled!Ledger!Restart
                                    \/ UNCHANGED Settled!Ledger!ledgerVars
<1>1. Init => I /\ B
  BY PartsBegin, SettledInitIInv, SettledLedgerBegins
<1>2. I /\ [Next]_vars => I' /\ A
  BY PartsGoOn, SettledStepPreserves, SettledLedgerGoesOn
<1>3. ImplementsLedger <=> B /\ [][A]_vars
  BY Zenon DEF ImplementsLedger
<1> HIDE DEF I, B, A
<1> QED
  BY <1>1, <1>2, <1>3, PTL DEF Spec
=============================================================================
