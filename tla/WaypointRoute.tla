---------------------------- MODULE WaypointRoute ---------------------------
(***************************************************************************)
(* WaypointController (viewer/waypoints.py): set, queue, hold, resume and  *)
(* cancel commands, the advance after each simulation step, and the reset  *)
(* of the environment, against a robot that may be anywhere.  Positions    *)
(* are points of a line; a waypoint is the position it names, and carries  *)
(* a number only to tell two of them apart.  A refused command changes     *)
(* last_command alone.                                                     *)
(***************************************************************************)
EXTENDS Naturals, Sequences

CONSTANTS Arena,       \* the positions 0..Arena of the simulation arena
          MaxSegment, MaxQueued, DwellSteps,
          MaxIssued    \* bound of the model: waypoints accepted

VARIABLES place,                     \* the position of each waypoint accepted so far
          active,                    \* the number of the active waypoint, 0 for none
          queued, paused, arrived, dwell,
          target,                    \* target_xy, what the policy observes
          robot,
          held                       \* where _hold_at_current_pose last stood
vars == <<place, active, queued, paused, arrived, dwell, target, robot, held>>

Position == 0..Arena
\* positions outside of the arena are asked for too
Asked == 0..(Arena + 1)
Distance(p, q) == IF p > q THEN p - q ELSE q - p
Issued == 1..Len(place)

TypeOK ==
  /\ place \in Seq(Position) /\ active \in {0} \cup Issued
  /\ queued \in Seq(Issued) /\ Len(queued) <= MaxQueued
  /\ {paused, arrived} \subseteq BOOLEAN /\ dwell \in 0..DwellSteps
  /\ {target, robot, held} \subseteq Position

Init ==
  /\ place = <<>> /\ active = 0 /\ queued = <<>>
  /\ paused = FALSE /\ arrived = FALSE /\ dwell = 0
  /\ robot \in Position /\ target = robot /\ held = robot

HoldHere == target' = robot' /\ held' = robot'

\* _activate: the waypoint becomes the target, whatever held the robot before
Activate(w) ==
  /\ active' = w /\ paused' = FALSE /\ arrived' = FALSE /\ dwell' = 0
  /\ target' = place'[w] /\ UNCHANGED held

\* where _validate_destination measures the segment from
Source(op) == IF op = "queue" /\ queued # <<>> THEN place[queued[Len(queued)]]
              ELSE IF op = "queue" /\ active # 0 /\ ~arrived THEN place[active]
              ELSE robot
Accepted(op, p) == p \in Position /\ Distance(p, Source(op)) <= MaxSegment

Issue(op, p) ==
  /\ Len(place) < MaxIssued /\ Accepted(op, p)
  /\ place' = Append(place, p) /\ UNCHANGED robot

\* Seeded defect: a new route leaves the waypoints of the old one in the queue.
SetKeepsQueue(p) ==
  /\ Issue("set", p) /\ Activate(Len(place'))
  /\ queued' = IF active = 0 THEN <<>> ELSE queued

Set(p) ==
  /\ Issue("set", p) /\ Activate(Len(place'))
  /\ queued' = <<>>

Queue(p) ==
  /\ Issue("queue", p)
  /\ IF active = 0 \/ (arrived /\ ~paused)
     THEN Activate(Len(place')) /\ UNCHANGED queued
     ELSE /\ Len(queued) < MaxQueued /\ queued' = Append(queued, Len(place'))
          /\ UNCHANGED <<active, paused, arrived, dwell, target, held>>

Hold ==
  /\ paused' = TRUE /\ dwell' = 0 /\ UNCHANGED robot /\ HoldHere
  /\ UNCHANGED <<place, active, queued, arrived>>

\* Seeded defect: resuming leaves the held pose as the target.
ResumeKeepsTarget ==
  /\ active # 0
  /\ paused' = FALSE /\ arrived' = FALSE /\ dwell' = 0
  /\ UNCHANGED <<place, active, queued, robot, target, held>>

\* without an active waypoint the queue is empty and nothing changes
Resume ==
  /\ active # 0
  /\ paused' = FALSE /\ arrived' = FALSE /\ dwell' = 0 /\ target' = place[active]
  /\ UNCHANGED <<place, active, queued, robot, held>>

Dropped ==
  /\ active' = 0 /\ queued' = <<>> /\ paused' = FALSE /\ arrived' = FALSE /\ dwell' = 0
  /\ HoldHere /\ UNCHANGED place

Cancel == robot' = robot /\ Dropped
\* the environment is reset, by the user, by a new checkpoint or inside a step
Reset == robot' \in Position /\ Dropped

Driving == active # 0 /\ ~paused /\ ~arrived
Dwelt(settled) == IF settled THEN dwell + 1 ELSE 0

\* Seeded defect: arriving does not start the next waypoint of the queue.
ArriveAndWait ==
  /\ arrived' = TRUE /\ UNCHANGED <<active, queued, paused, target, held>>
  /\ dwell' = DwellSteps

\* the dwell is complete: the next of the queue is activated in the same call
Arrive ==
  IF queued # <<>>
  THEN Activate(Head(queued)) /\ queued' = Tail(queued)
  ELSE /\ arrived' = TRUE /\ UNCHANGED <<active, queued, paused, target, held>>
       /\ dwell' = DwellSteps

\* advance() after a step of the simulation: the robot has moved, and is settled
\* at its waypoint (pose, speed, tilt, both wheels on the ground) or is not
Step(p, still) ==
  /\ robot' = p /\ UNCHANGED place
  /\ LET d == Dwelt(still /\ p = place[active])
     IN IF ~Driving THEN UNCHANGED <<active, queued, paused, arrived, dwell, target, held>>
        ELSE IF d >= DwellSteps THEN Arrive
        ELSE dwell' = d /\ UNCHANGED <<active, queued, paused, arrived, target, held>>

Next ==
  \/ \E p \in Asked : Set(p) \/ Queue(p)
  \/ Hold \/ Resume \/ Cancel \/ Reset
  \/ \E p \in Position, still \in BOOLEAN : Step(p, still)

Spec == Init /\ [][Next]_vars

(***************************************************************************)
(* Properties                                                              *)
(***************************************************************************)

\* What the policy is told to reach is the active waypoint while a route is driven
\* or has arrived, and the pose at which the robot was last held while it is paused
\* or has none (WaypointController: every command and every advance).
TargetFollowsTheRoute ==
  target = IF active # 0 /\ ~paused THEN place[active] ELSE held

\* A waypoint waits only behind one that is driven to or that was paused: no order
\* of commands, arrivals and resets strands a queue, and it is driven in the order in
\* which it was accepted (apply, advance).
RouteIsAlive ==
  /\ queued # <<>> => active # 0 /\ (paused \/ ~arrived)
  /\ \A i \in 1..Len(queued) :
       (IF i = 1 THEN active ELSE queued[i - 1]) < queued[i]

(***************************************************************************)
(* The inductive invariant                                                 *)
(***************************************************************************)

\* The two properties carry themselves, given what kind of numbers the waypoints are.
IInv == TypeOK /\ TargetFollowsTheRoute /\ RouteIsAlive
=============================================================================
