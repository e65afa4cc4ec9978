----------------------------- MODULE GoalMixRun -----------------------------
(***************************************************************************)
(* The goal-mix curriculum of a training run                               *)
(* (src/ascento_mjlab/mdp/events.py): a batch of environments, each an     *)
(* episode ledger (EpisodeLedger, which TargetSequence implements), and    *)
(* the one dictionary they are credited to.  Several episodes may end in   *)
(* one call; they are credited together and the window is judged once.     *)
(* The precision cohort is no evidence, so its environments are left out.  *)
(***************************************************************************)
EXTENDS GoalMix

CONSTANTS Gates, Navigators,  \* environments of the two cohorts that count
          MaxTargets,         \* bound: attempts on an episode's account
          MaxEvidence         \* bound: what is credited in a run, of each kind

Envs == Gates \cup Navigators

VARIABLES account,    \* what the running episode has tried and won
          recovered,  \* recovery_completed, of gate episodes
          mix         \* ascento_generalist_goal_mix

vars == <<account, recovered, mix>>

Lengths == {"short", "long"}
Nothing == [tried |-> [k \in Lengths |-> 0], won |-> [k \in Lengths |-> 0]]

(* The single attempts on the accounts of S, and those that reached.       *)
Attempts(S, k) ==
  {p \in (S \cap Navigators) \X (1..MaxTargets) : p[2] <= account[p[1]].tried[k]}
Reached(S, k) ==
  {p \in (S \cap Navigators) \X (1..MaxTargets) : p[2] <= account[p[1]].won[k]}

(* The counts a call adds to the window for the episodes that end in it.   *)
Tries(S) == [gate |-> Cardinality(S \cap Gates),
             short |-> Cardinality(Attempts(S, "short")),
             long |-> Cardinality(Attempts(S, "long"))]

\* Seeded defect: every recovered gate environment counts, not only those that end.
WinsOfAll(S) == [gate |-> Cardinality({e \in Gates : recovered[e]}),
                 short |-> Cardinality(Reached(S, "short")),
                 long |-> Cardinality(Reached(S, "long"))]

Wins(S) == [gate |-> Cardinality({e \in S \cap Gates : recovered[e]}),
            short |-> Cardinality(Reached(S, "short")),
            long |-> Cardinality(Reached(S, "long"))]

Init == /\ account = [e \in Navigators |-> Nothing]
        /\ recovered = [e \in Gates |-> FALSE]
        /\ mix = NewMix

Issue(e, k) == /\ account[e].tried["short"] + account[e].tried["long"] < MaxTargets
               /\ account' = [account EXCEPT ![e].tried[k] = @ + 1]
               /\ UNCHANGED <<recovered, mix>>

Reach(e, k) == /\ account[e].won[k] < account[e].tried[k]
               /\ account' = [account EXCEPT ![e].won[k] = @ + 1]
               /\ UNCHANGED <<recovered, mix>>

Recover(e) == /\ ~recovered[e]
              /\ recovered' = [recovered EXCEPT ![e] = TRUE]
              /\ UNCHANGED <<account, mix>>

(* Episodes end in one call, are credited and start again.                 *)
EndEpisodes(S) ==
  /\ \A k \in Evidence : mix.allTried[k] + Tries(S)[k] <= MaxEvidence
  /\ mix' = Judged(Credited(mix, Tries(S), Wins(S)))
  /\ account' = [e \in Navigators |-> IF e \in S THEN Nothing ELSE account[e]]
  /\ recovered' = [e \in Gates |-> recovered[e] /\ e \notin S]

Next == \/ \E e \in Navigators, k \in Lengths : Issue(e, k) \/ Reach(e, k)
        \/ \E e \in Gates : Recover(e)
        \/ \E S \in SUBSET Envs \ {{}} : EndEpisodes(S)

Spec == Init /\ [][Next]_vars
-----------------------------------------------------------------------------
Account == [tried : [Lengths -> Nat], won : [Lengths -> Nat]]

TypeOK == /\ account \in [Navigators -> Account]
          /\ recovered \in [Gates -> BOOLEAN]
          /\ mix \in MixType

(* The evidence the stage is judged on is a rate: no more successes than   *)
(* trials (the Wilson bound takes the root of rate * (1 - rate)).          *)
EvidenceIsARate == \A k \in Evidence : mix.won[k] <= mix.tried[k]

(* Every step up was earned by fresh evidence: each stage, and each bad    *)
(* window that is held against it, used up a window of its own, and a      *)
(* stage past the first has seen long targets too.                         *)
PromotionsEarned ==
  /\ \A k \in {"gate", "short"} :
       mix.allTried[k] >= mix.tried[k] + MinAttempts * (mix.stage + mix.streak)
  /\ mix.stage = 2 => mix.allTried["long"] >= mix.tried["long"] + MinAttempts * (1 + mix.streak)

(* The curriculum can neither stall at the top nor fall through: a bad     *)
(* mark never outlives the stage it was given in, and is never given where *)
(* there is nothing below.                                                 *)
MarksBelongToTheStage ==
  /\ mix'.stage # mix.stage => mix'.streak = 0
  /\ mix'.stage < mix.stage => mix.streak + 1 >= DemotionWindows
  /\ mix'.streak > 0 => mix'.stage > 0 /\ mix'.streak < DemotionWindows

(***************************************************************************)
(* The inductive invariant                                                 *)
(***************************************************************************)

(* An attempt is tried before it is won, so a call never credits more wins *)
(* than tries; and the trials of the run are at least those of the window. *)
AccountsAreRates == \A e \in Navigators, k \in Lengths : account[e].won[k] <= account[e].tried[k]

WindowIsOfTheRun == \A k \in Evidence : mix.tried[k] <= mix.allTried[k]

MarksAreLow == mix.streak > 0 => mix.stage > 0 /\ mix.streak < DemotionWindows

IInv == /\ TypeOK /\ AccountsAreRates /\ WindowIsOfTheRun /\ MarksAreLow
        /\ EvidenceIsARate /\ PromotionsEarned
=============================================================================
