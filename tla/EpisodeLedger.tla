--------------------------- MODULE EpisodeLedger ---------------------------
(***************************************************************************)
(* What the goal mix needs to know of an environment, and all it may       *)
(* assume: in an episode attempts at short and long targets are issued one *)
(* after the other and some are reached; the episode ends and its account  *)
(* is evidence, once; what is issued after that is never evidence.         *)
(* TargetSequence implements this; GoalMixRun runs many of them against    *)
(* one goal mix.                                                           *)
(***************************************************************************)
EXTENDS Naturals

VARIABLES cohort, account, ended, evidence

ledgerVars == <<cohort, account, ended, evidence>>

Lengths == {"short", "long"}
None == [k \in Lengths |-> 0]
Empty == [tried |-> None, won |-> None]

Issue(a) == {a} \cup {[a EXCEPT !.tried[k] = @ + 1] : k \in Lengths}
Reach(a) == {a} \cup {[a EXCEPT !.won[k] = @ + 1] : k \in {k \in Lengths : a.won[k] < a.tried[k]}}

(* The account after a call, up to where the goal mix looks at it.         *)
Before(a) == UNION {Reach(i) : i \in Issue(a)}

Plus(a, b) == [tried |-> [k \in Lengths |-> a.tried[k] + b.tried[k]],
               won |-> [k \in Lengths |-> a.won[k] + b.won[k]]]

LedgerInit == /\ cohort \in {"precision", "gate", "navigation"}
              /\ account \in Issue(Empty)
              /\ ended = FALSE
              /\ evidence = Empty

Call == /\ ~ended
        /\ \E a \in Before(account) :
             /\ account' \in Issue(a)
             /\ ended' \in BOOLEAN
             /\ evidence' = IF ended' /\ cohort = "navigation" THEN Plus(evidence, a) ELSE evidence
        /\ UNCHANGED cohort

Restart == /\ ended
           /\ account' \in Issue(Empty)
           /\ ended' = FALSE
           /\ UNCHANGED <<cohort, evidence>>

LedgerSpec == LedgerInit /\ [][Call \/ Restart]_ledgerVars
=============================================================================
