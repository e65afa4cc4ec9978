---------------------------- MODULE JumpAttempt ----------------------------
(***************************************************************************)
(* The jump attempts of one robot (src/ascento_mjlab/mdp/jump.py): a       *)
(* command term counts the requests, and update_jump_state, called once in *)
(* every control step, turns requests and wheel contacts into one attempt  *)
(* at a time with its phases and events.  Which wheels touch the ground,   *)
(* and whether the robot is within the recovery envelope, is the physics'  *)
(* choice.  Time is counted in control steps.                              *)
(***************************************************************************)
EXTENDS Naturals

CONSTANTS CrouchSteps, ThrustSteps, LandingSteps, RecoverySteps,
          MaxRequests  \* bound: requests in the run

Phases == {"idle", "crouch", "thrust", "flight", "landing", "recovery"}
Contacts == {"none", "one", "both"}

VARIABLES requests,  \* jump_generation of the command term
          jump,      \* ascento_jump_state
          jumped     \* what the running attempt has shown; only properties read it

vars == <<requests, jump, jumped>>

NoEvent == [takeoff |-> FALSE, landing |-> FALSE, recovered |-> FALSE]

\* Seeded defect: a reset forgets which requests were seen.
IdleForgets == [supported |-> TRUE, airborne |-> FALSE, phase |-> "idle", time |-> 0,
                active |-> FALSE, takenOff |-> FALSE, hadSupport |-> FALSE,
                seen |-> 0, stable |-> 0, event |-> NoEvent]

(* initialize_jump_state: a reset acknowledges the requests made so far.   *)
Idle == [supported |-> TRUE, airborne |-> FALSE, phase |-> "idle", time |-> 0,
         active |-> FALSE, takenOff |-> FALSE, hadSupport |-> FALSE,
         seen |-> requests, stable |-> 0, event |-> NoEvent]

Init == /\ requests = 0
        /\ jump = Idle
        /\ jumped = [attempts |-> 0, takeoffs |-> 0, landings |-> 0, calm |-> 0]

(* AscentoMotionCommand._resample_command draws a command with a jump.     *)
Request == /\ requests < MaxRequests
           /\ requests' = requests + 1
           /\ UNCHANGED <<jump, jumped>>

-----------------------------------------------------------------------------
(* update_jump_state, in its order.                                        *)

Enter(j, phase) == [j EXCEPT !.phase = phase, !.time = 0]

NewRequest(j) == requests # j.seen /\ ~j.active

(* A request starts an attempt unless one is active; it is seen once.      *)
Begin(j, contact) ==
  IF NewRequest(j)
  THEN [Enter(j, "crouch") EXCEPT !.active = TRUE, !.takenOff = FALSE, !.stable = 0,
                                  !.hadSupport = j.supported \/ contact = "both"]
  ELSE [j EXCEPT !.time = IF j.active /\ @ < ThrustSteps THEN @ + 1 ELSE @]

Started(j, contact) ==
  LET b == [Begin(j, contact) EXCEPT !.seen = requests]
  IN [b EXCEPT !.hadSupport = @ \/ (b.active /\ contact = "both")]

Crouched(j) ==
  IF j.active /\ j.phase = "crouch" /\ j.time >= CrouchSteps THEN Enter(j, "thrust") ELSE j

\* Seeded defect: every hop of an attempt is a takeoff.
TakesOffAgain(j, contact) == j.active /\ j.hadSupport /\ ~j.airborne /\ contact = "none"

TakesOff(j, contact) == /\ j.active /\ ~j.takenOff /\ j.hadSupport
                        /\ ~j.airborne /\ contact = "none"

Lands(j, contact) == j.active /\ j.airborne /\ contact # "none"

(* The events are those of this step; both are decided from the contacts   *)
(* before either changes the state.                                        *)
Contacted(j, contact) ==
  LET e == [j EXCEPT !.event = [takeoff |-> TakesOff(j, contact), landing |-> Lands(j, contact),
                                recovered |-> FALSE]]
  IN IF TakesOff(j, contact) THEN [Enter(e, "flight") EXCEPT !.takenOff = TRUE]
     ELSE IF Lands(j, contact) THEN Enter(e, "landing")
     ELSE e

Settled(j) ==
  IF j.active /\ j.phase = "landing" /\ j.time >= LandingSteps THEN Enter(j, "recovery") ELSE j

Recovering(j, calm) ==
  [j EXCEPT !.stable = IF j.active /\ j.phase = "recovery" /\ calm
                       THEN IF @ < RecoverySteps THEN @ + 1 ELSE @
                       ELSE 0]

\* Seeded defect: an attempt that never took off is not given up.
FinishedOnlyRecovered(j) ==
  LET recovered == j.active /\ j.phase = "recovery" /\ j.stable >= RecoverySteps
      e == [j EXCEPT !.event.recovered = recovered]
  IN IF recovered THEN [Enter(e, "idle") EXCEPT !.active = FALSE, !.hadSupport = FALSE] ELSE e

\* Seeded defect: the timeout also ends an attempt that is in the air.
FinishedInFlight(j) ==
  LET recovered == j.active /\ j.phase = "recovery" /\ j.stable >= RecoverySteps
      failed == j.active /\ j.time >= ThrustSteps
      e == [j EXCEPT !.event.recovered = recovered]
  IN IF recovered \/ failed
     THEN [Enter(e, "idle") EXCEPT !.active = FALSE, !.hadSupport = FALSE]
     ELSE e

(* An attempt ends when it has recovered, or when it did not get off the   *)
(* ground in time.                                                         *)
Finished(j) ==
  LET recovered == j.active /\ j.phase = "recovery" /\ j.stable >= RecoverySteps
      failed == j.active /\ ~j.takenOff /\ j.phase = "thrust" /\ j.time >= ThrustSteps
      e == [j EXCEPT !.event.recovered = recovered]
  IN IF recovered \/ failed
     THEN [Enter(e, "idle") EXCEPT !.active = FALSE, !.hadSupport = FALSE]
     ELSE e

Updated(j, contact, calm) ==
  [Finished(Recovering(Settled(Contacted(Crouched(Started(j, contact)), contact)), calm))
     EXCEPT !.supported = contact = "both", !.airborne = contact = "none"]

\* how many calm steps in a row an attempt may take, whatever phase they find it in
Longest == CrouchSteps + ThrustSteps + LandingSteps + RecoverySteps

(* A control step.  The recovery envelope asks for both wheels' support.   *)
Step(contact, calm) ==
  /\ calm => contact = "both"
  /\ jump' = Updated(jump, contact, calm)
  /\ jumped' = LET before == IF NewRequest(jump)
                             THEN [attempts |-> jumped.attempts + 1, takeoffs |-> 0, landings |-> 0,
                                   calm |-> 0]
                             ELSE jumped
                   One(e) == IF e THEN 1 ELSE 0
               IN [before EXCEPT !.takeoffs = @ + One(jump'.event.takeoff),
                                 !.landings = IF @ < 2 THEN @ + One(jump'.event.landing) ELSE @,
                                 !.calm = IF ~calm THEN 0 ELSE IF @ > Longest THEN @ ELSE @ + 1]
  /\ UNCHANGED requests

(* The episode ends and the environment is reset.                          *)
Reset == /\ jump' = Idle
         /\ UNCHANGED <<requests, jumped>>

Next == \/ Request
        \/ \E contact \in Contacts, calm \in BOOLEAN : Step(contact, calm)
        \/ Reset

Spec == Init /\ [][Next]_vars
-----------------------------------------------------------------------------
TypeOK ==
  /\ requests \in 0 .. MaxRequests
  /\ jump \in [supported : BOOLEAN, airborne : BOOLEAN, phase : Phases, time : 0 .. ThrustSteps,
               active : BOOLEAN, takenOff : BOOLEAN, hadSupport : BOOLEAN, seen : Nat,
               stable : 0 .. RecoverySteps,
               event : [takeoff : BOOLEAN, landing : BOOLEAN, recovered : BOOLEAN]]

(* Every request is observed at most once, whatever resets and running     *)
(* attempts come between: there are never more attempts than requests.     *)
RequestsSeenOnce == /\ jump.seen <= requests
                    /\ jumped.attempts + (requests - jump.seen) <= requests

(* An attempt leaves the ground at most once, and only flies after it did; *)
(* the phases of an attempt are only ever entered while it is active.      *)
OneTakeoff == /\ jump.active <=> jump.phase # "idle"
              /\ jump.active => /\ jumped.takeoffs <= 1
                                /\ jump.takenOff <=> jumped.takeoffs = 1
                                /\ jump.phase = "flight" => jump.airborne /\ jump.takenOff

(* A success needs a landing that was held: no recovered_landing without a *)
(* landing in the same attempt, and no attempt that took off is ended      *)
(* before it has landed.                                                   *)
RecoveredHasLanded ==
  /\ jump'.event.recovered => jumped'.landings > 0
  /\ jump.active /\ ~jump'.active /\ jumped.takeoffs = 1 /\ jump' # Idle => jump'.event.recovered

(* No attempt hangs: a robot that stays upright on both wheels from some    *)
(* step on finishes its attempt, whichever phase the last contacts left it *)
(* in, in the air or before it ever took off.                              *)
CalmRobotFinishes == jump.active => jumped.calm <= Longest

(***************************************************************************)
(* The inductive invariant                                                 *)
(***************************************************************************)

(* The last conjunct says how long an attempt has been calm in the phase   *)
(* it is in: every phase ends in time, and none is entered twice by a      *)
(* robot that stays on its wheels.                                         *)
Attempts == [supported : BOOLEAN, airborne : BOOLEAN, phase : Phases, time : Nat,
             active : BOOLEAN, takenOff : BOOLEAN, hadSupport : BOOLEAN, seen : Nat,
             stable : Nat,
             event : [takeoff : BOOLEAN, landing : BOOLEAN, recovered : BOOLEAN]]
Shown == [attempts : Nat, takeoffs : Nat, landings : Nat, calm : Nat]

Types == requests \in Nat /\ jump \in Attempts /\ jumped \in Shown

\* A takeoff leads to the flight, and only a landing to the phases after it.
PhasesInOrder(j, landings) ==
  j.active => /\ j.takenOff => j.phase \notin {"crouch", "thrust"}
              /\ j.phase \in {"landing", "recovery"} => landings > 0

LandingsShown == /\ PhasesInOrder(jump, jumped.landings)
                 /\ jump.event.recovered => jumped.landings > 0

Pace(j, calm) ==
  /\ j.airborne => calm = 0 /\ (j.active => j.stable = 0)
  /\ j.active /\ j.phase # "recovery" => j.stable = 0
  /\ j.phase = "crouch" => j.time < CrouchSteps /\ calm <= j.time + 1
  /\ j.phase = "thrust" => j.time < ThrustSteps /\ calm <= CrouchSteps + j.time + 1
  /\ j.phase = "landing" => j.time < LandingSteps /\ calm <= j.time + 1
  /\ j.phase = "recovery" => j.stable < RecoverySteps /\ calm <= LandingSteps + j.stable

IInv == /\ Types /\ RequestsSeenOnce /\ OneTakeoff /\ LandingsShown
        /\ Pace(jump, jumped.calm)
=============================================================================
