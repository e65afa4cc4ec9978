------------------------- MODULE ViewerSlot_proofs -------------------------
(***************************************************************************)
(* Safety of ViewerSlot for any number of viewers and process ids, with    *)
(* process ids used again and any fault.                                   *)
(***************************************************************************)
EXTENDS ViewerSlot, TLAPS

ZombiesHaveExit ==
  \A p \in Pids : process[p].life = "zombie" => process[p].exit # "none"

StartedHavePid ==
  /\ \A id \in orphans : pidOf[id] # None
  /\ \A p \in Pids : process[p].owner \in Viewers => pidOf[process[p].owner] # None

(* Until a poll has seen its exit, the pid of the active viewer is its own. *)
ActiveOwnsPid ==
  active # None =>
    /\ active.id \notin orphans
    /\ active.exit = "none" =>
         /\ process[active.pid].owner = active.id
         /\ process[active.pid].life \in {"alive", "zombie"}

(* LiveIsManaged, and no poll has seen the exit of a live worker. *)
LiveIsWatched ==
  \A p \in Pids :
    process[p].life = "alive" /\ process[p].owner \in Viewers \ orphans =>
      /\ active # None
      /\ active.id = process[p].owner /\ active.pid = p
      /\ active.state \in Busy /\ active.exit = "none"

SlotInv == ZombiesHaveExit /\ StartedHavePid /\ ActiveOwnsPid /\ LiveIsWatched
IInv == TypeOK /\ SlotInv /\ SignalsStayInSlot

LEMMA InitIInv == Init => IInv
<1> SUFFICES ASSUME Init PROVE IInv
  OBVIOUS
<1> QED
  BY ConstantsOK DEF Init, IInv, SlotInv, TypeOK, SignalsStayInSlot, Process, Free,
     ZombiesHaveExit, StartedHavePid, ActiveOwnsPid, LiveIsWatched, Signals

---------------------------------------------------------------------------
(* A poll changes the exit of a viewer and nothing else of it. *)
LEMMA PolledShape ==
  ASSUME IInv, NEW v \in ManagedViewer
  PROVE  /\ Polled(v) \in ManagedViewer
         /\ Polled(v).id = v.id /\ Polled(v).pid = v.pid /\ Polled(v).state = v.state
         /\ v.exit # "none" => Polled(v) = v
         /\ Polled(v).exit = "none" <=> v.exit = "none" /\ process[v.pid].life # "zombie"
BY DEF IInv, SlotInv, TypeOK, ZombiesHaveExit, Polled, ManagedViewer, Process, Busy

(* A refreshed viewer is busy exactly while no exit has been seen. *)
LEMMA RefreshedShape ==
  ASSUME IInv, NEW v \in ManagedViewer, NEW opened \in BOOLEAN
  PROVE  /\ Refreshed(v, opened) \in ManagedViewer
         /\ Refreshed(v, opened).id = v.id /\ Refreshed(v, opened).pid = v.pid
         /\ Refreshed(v, opened).exit = Polled(v).exit
         /\ Refreshed(v, opened).state \in Busy <=> Polled(v).exit = "none"
<1> DEFINE state == CASE Polled(v).exit # "none" ->
                           IF v.state = "stopping" \/ Polled(v).exit = "zero"
                           THEN "stopped" ELSE "failed"
                      [] Polled(v).exit = "none" /\ v.state = "stopping" -> "stopping"
                      [] OTHER -> IF opened THEN "running" ELSE "starting"
<1>1. Refreshed(v, opened) = [Polled(v) EXCEPT !.state = state]
  BY DEF Refreshed
<1>2. /\ state \in Busy \cup {"stopped", "failed"}
      /\ state \in Busy <=> Polled(v).exit = "none"
  BY DEF Busy
<1> HIDE DEF state
<1> QED
  BY <1>1, <1>2, PolledShape DEF ManagedViewer

(* Every look at the slot polls the active viewer: whatever state it gives *)
(* to one whose exit it sees, one whose exit it does not see stays busy.   *)
LEMMA LookKeepsSlot ==
  ASSUME IInv, active # None, active' \in ManagedViewer,
         active'.id = active.id, active'.pid = active.pid,
         active'.exit = Polled(active).exit,
         active'.exit = "none" => active'.state \in Busy,
         process' = Reaped(active), UNCHANGED <<pidOf, orphans>>
  PROVE  SlotInv' /\ process' \in [Pids -> Process]
<1> active \in ManagedViewer /\ active.pid \in Pids
  BY DEF IInv, TypeOK, ManagedViewer
<1>1. process' \in [Pids -> Process]
  BY DEF IInv, TypeOK, Reaped, Process, Free
<1>2. \A p \in Pids : process'[p] = process[p] \/ process'[p] = Free
  BY DEF IInv, TypeOK, Reaped
<1>3. \A p \in Pids : process[p].life = "alive" => process'[p] = process[p]
  BY DEF IInv, TypeOK, Reaped
<1>4. ZombiesHaveExit' /\ StartedHavePid'
  BY <1>2, ConstantsOK DEF IInv, SlotInv, ZombiesHaveExit, StartedHavePid, Free
<1>5. ActiveOwnsPid'
  <2>1. active'.exit = "none" => active.exit = "none" /\ process' = process
    BY PolledShape DEF Reaped
  <2> QED
    BY <2>1 DEF IInv, SlotInv, ActiveOwnsPid
<1>6. LiveIsWatched'
  <2> SUFFICES ASSUME NEW p \in Pids, process'[p].life = "alive",
                      process'[p].owner \in Viewers \ orphans'
               PROVE  /\ active' # None
                      /\ active'.id = process'[p].owner /\ active'.pid = p
                      /\ active'.state \in Busy /\ active'.exit = "none"
    BY DEF LiveIsWatched
  <2>1. process'[p] = process[p]
    BY <1>2 DEF Free
  <2>2. /\ active.id = process[p].owner /\ active.pid = p
        /\ active.exit = "none"
    BY <2>1 DEF IInv, SlotInv, LiveIsWatched
  <2>3. active'.exit = "none"
    BY <2>1, <2>2, PolledShape
  <2> QED
    BY <2>1, <2>2, <2>3, ConstantsOK
<1> QED
  BY <1>1, <1>4, <1>5, <1>6 DEF SlotInv

(* A signal to the active viewer stays in the slot while no exit is seen. *)
LEMMA SignalStays ==
  ASSUME IInv, active # None, NEW v, v.pid = active.pid, active.exit = "none",
         NEW sig \in Signals, Signal(v, sig)
  PROVE  received' \in [Viewers \cup {Other} -> SUBSET Signals] /\ SignalsStayInSlot'
<1>1. process[v.pid].owner = active.id /\ active.id \in Viewers
  BY DEF IInv, TypeOK, SlotInv, ActiveOwnsPid, ManagedViewer
<1> QED
  BY <1>1, ConstantsOK DEF IInv, TypeOK, SignalsStayInSlot, Signal

(* The first stop of a viewer that was just refreshed and found busy. *)
LEMMA BeginStopKeeps ==
  ASSUME IInv, active # None, NEW opened \in BOOLEAN,
         Refreshed(active, opened).state \in Busy, BeginStop(Refreshed(active, opened))
  PROVE  /\ active' \in ManagedViewer
         /\ active'.id = active.id /\ active'.pid = active.pid
         /\ active'.exit = Polled(active).exit /\ active'.state \in Busy
         /\ received' \in [Viewers \cup {Other} -> SUBSET Signals]
         /\ escalation' \in [Viewers -> {"none", "grace", "term", "over"}]
         /\ SignalsStayInSlot'
<1> DEFINE v == Refreshed(active, opened)
<1> active \in ManagedViewer
  BY DEF IInv, TypeOK
<1>1. /\ v \in ManagedViewer /\ v.id = active.id /\ v.pid = active.pid
      /\ v.exit = Polled(active).exit /\ active.exit = "none"
  BY RefreshedShape, PolledShape
<1>2. v.state \in Busy /\ BeginStop(v)
  OBVIOUS
<1> HIDE DEF v
<1>3. CASE v.state = "stopping" /\ active' = v /\ UNCHANGED <<received, escalation>>
  BY <1>1, <1>2, <1>3 DEF IInv, TypeOK, SignalsStayInSlot
<1>4. CASE /\ v.state \in {"starting", "running"}
           /\ active' = [v EXCEPT !.state = "stopping"]
           /\ Signal(v, "INT")
           /\ \/ escalation' = [escalation EXCEPT ![v.id] = "grace"]
              \/ "thread_start_fails" \in Faults /\ UNCHANGED escalation
  <2>1. received' \in [Viewers \cup {Other} -> SUBSET Signals] /\ SignalsStayInSlot'
    BY <1>1, <1>4, SignalStays DEF Signals
  <2>2. active' \in ManagedViewer /\ active'.id = v.id /\ active'.pid = v.pid
        /\ active'.exit = v.exit /\ active'.state \in Busy
    BY <1>1, <1>4 DEF ManagedViewer, Busy
  <2>3. escalation' \in [Viewers -> {"none", "grace", "term", "over"}]
    BY <1>4 DEF IInv, TypeOK
  <2> QED
    BY <1>1, <2>1, <2>2, <2>3
<1> QED
  BY <1>2, <1>3, <1>4 DEF BeginStop

---------------------------------------------------------------------------
LEMMA StartIInv ==
  ASSUME IInv, NEW id \in Viewers, NEW pid \in Pids, Start(id, pid)
  PROVE  IInv'
<1> DEFINE worker == [owner |-> id, life |-> "alive", exit |-> "none"]
<1>1. Reaped(active) \in [Pids -> Process] /\ worker \in Process
  BY DEF IInv, TypeOK, Reaped, Process, Free
<1>2. \A p \in Pids : Reaped(active)[p] = process[p] \/ Reaped(active)[p] = Free
  BY DEF IInv, TypeOK, Reaped
<1>3. /\ process' \in [Pids -> Process]
      /\ process'[pid] = worker
      /\ \A p \in Pids \ {pid} : process'[p] = Reaped(active)[p]
  BY <1>1 DEF Start
<1>4. TypeOK'
  BY <1>3 DEF IInv, TypeOK, Start, ManagedViewer, Busy
<1>5. ZombiesHaveExit'
  BY <1>2, <1>3 DEF IInv, SlotInv, ZombiesHaveExit, Free
<1>6. StartedHavePid'
  <2>1. pidOf'[id] # None /\ \A o \in Viewers \ {id} : pidOf'[o] = pidOf[o]
    BY ConstantsOK DEF Start, IInv, TypeOK
  <2>2. \A o \in orphans' : pidOf'[o] # None
    BY <2>1 DEF Start, IInv, TypeOK, SlotInv, StartedHavePid
  <2>3. \A p \in Pids : process'[p].owner \in Viewers => pidOf'[process'[p].owner] # None
    BY <1>2, <1>3, <2>1, ConstantsOK DEF IInv, SlotInv, StartedHavePid, Free
  <2> QED
    BY <2>2, <2>3 DEF StartedHavePid
<1>7. ActiveOwnsPid'
  BY <1>3 DEF Start, IInv, SlotInv, StartedHavePid, ActiveOwnsPid
<1>8. LiveIsWatched'
  <2> SUFFICES ASSUME NEW p \in Pids, process'[p].life = "alive",
                      process'[p].owner \in Viewers \ orphans'
               PROVE  /\ active' # None
                      /\ active'.id = process'[p].owner /\ active'.pid = p
                      /\ active'.state \in Busy /\ active'.exit = "none"
    BY DEF LiveIsWatched
  <2>1. CASE p = pid
    <3>1. active' \in ManagedViewer /\ active'.state = "starting"
      BY DEF Start, ManagedViewer, Busy
    <3> QED
      BY <1>3, <2>1, <3>1, ConstantsOK DEF Start, Busy
  <2>2. CASE p # pid
    <3>1. process'[p] = process[p]
      BY <1>2, <1>3, <2>2 DEF Free
    <3>2. active # None /\ active.pid = p /\ active.exit = "none"
      BY <3>1 DEF Start, IInv, SlotInv, LiveIsWatched
    <3>3. active \in ManagedViewer /\ Polled(active).exit = "none"
      BY <3>1, <3>2, PolledShape DEF IInv, TypeOK
    <3>4. PICK opened \in BOOLEAN : SlotFree(LookInSlot(opened))
      BY DEF Start
    <3>5. Refreshed(active, opened).state \notin Busy
      BY <3>2, <3>3, <3>4, RefreshedShape, ConstantsOK DEF SlotFree, LookInSlot
    <3> QED
      BY <3>3, <3>5, RefreshedShape
  <2> QED
    BY <2>1, <2>2
<1>9. SignalsStayInSlot'
  BY DEF Start, IInv, SignalsStayInSlot
<1> QED
  BY <1>4, <1>5, <1>6, <1>7, <1>8, <1>9 DEF IInv, SlotInv

(* The requests that look at the slot, and signal what they find in it. *)
LEMMA SnapshotIInv ==
  ASSUME IInv, StartRefused \/ Snapshot
  PROVE  IInv'
<1>1. active # None /\ active \in ManagedViewer
  BY DEF StartRefused, Snapshot, IInv, TypeOK
<1>2. PICK opened \in BOOLEAN : active' = Refreshed(active, opened)
  BY <1>1 DEF StartRefused, Snapshot, LookInSlot
<1>3. SlotInv' /\ process' \in [Pids -> Process]
  BY <1>1, <1>2, RefreshedShape, LookKeepsSlot DEF StartRefused, Snapshot
<1>4. active' \in ManagedViewer
  BY <1>1, <1>2, RefreshedShape
<1> QED
  BY <1>3, <1>4 DEF StartRefused, Snapshot, IInv, TypeOK, SignalsStayInSlot

LEMMA StopIInv ==
  ASSUME IInv, Stop
  PROVE  IInv'
<1>1. active # None /\ active \in ManagedViewer
  BY DEF Stop, IInv, TypeOK
<1>2. PICK opened \in BOOLEAN :
        LET v == Refreshed(active, opened) IN
        IF v.state \in Busy THEN BeginStop(v)
        ELSE active' = Refreshed(v, opened) /\ UNCHANGED <<received, escalation>>
  BY DEF Stop
<1> DEFINE v == Refreshed(active, opened)
<1>3. CASE v.state \in Busy
  <2>1. BeginStop(v)
    BY <1>2, <1>3
  <2>2. SlotInv' /\ process' \in [Pids -> Process]
    BY <1>1, <1>3, <2>1, BeginStopKeeps, LookKeepsSlot DEF Stop
  <2> QED
    BY <1>1, <1>3, <2>1, <2>2, BeginStopKeeps DEF Stop, IInv, TypeOK
<1>4. CASE v.state \notin Busy
  <2>1. active' = Refreshed(v, opened) /\ UNCHANGED <<received, escalation>>
    BY <1>2, <1>4
  <2>2. /\ v \in ManagedViewer /\ v.id = active.id /\ v.pid = active.pid
        /\ v.exit = Polled(active).exit /\ v.exit # "none"
    BY <1>1, <1>4, RefreshedShape
  <2>3. /\ active' \in ManagedViewer /\ active'.id = active.id /\ active'.pid = active.pid
        /\ active'.exit = Polled(active).exit /\ active'.exit # "none"
    BY <2>1, <2>2, RefreshedShape, PolledShape
  <2>4. SlotInv' /\ process' \in [Pids -> Process]
    BY <1>1, <2>3, LookKeepsSlot DEF Stop
  <2> QED
    BY <2>1, <2>3, <2>4 DEF Stop, IInv, TypeOK, SignalsStayInSlot
<1> QED
  BY <1>3, <1>4

LEMMA ShutDownIInv ==
  ASSUME IInv, ShutDown
  PROVE  IInv'
<1>1. CASE active = None
  BY <1>1 DEF ShutDown, IInv, TypeOK, SlotInv, ZombiesHaveExit, StartedHavePid,
     ActiveOwnsPid, LiveIsWatched, SignalsStayInSlot
<1>2. CASE active # None
  <2>1. active \in ManagedViewer
    BY <1>2 DEF IInv, TypeOK
  <2>2. PICK opened \in BOOLEAN :
          LET v == Refreshed(active, opened) IN
          IF v.state \in Busy THEN BeginStop(v)
          ELSE active' = v /\ UNCHANGED <<received, escalation>>
    BY <1>2 DEF ShutDown
  <2> DEFINE v == Refreshed(active, opened)
  <2>3. process' = Reaped(active)
    BY <1>2 DEF ShutDown
  <2>4. CASE v.state \in Busy
    <3>1. BeginStop(v)
      BY <2>2, <2>4
    <3>2. SlotInv' /\ process' \in [Pids -> Process]
      BY <1>2, <2>3, <2>4, <3>1, BeginStopKeeps, LookKeepsSlot DEF ShutDown
    <3> QED
      BY <1>2, <2>4, <3>1, <3>2, BeginStopKeeps DEF ShutDown, IInv, TypeOK
  <2>5. CASE v.state \notin Busy
    <3>1. active' = v /\ UNCHANGED <<received, escalation>>
      BY <2>2, <2>5
    <3>2. /\ v \in ManagedViewer /\ v.id = active.id /\ v.pid = active.pid
          /\ v.exit = Polled(active).exit /\ v.exit # "none"
      BY <2>1, <2>5, RefreshedShape
    <3>3. SlotInv' /\ process' \in [Pids -> Process]
      BY <1>2, <2>3, <3>1, <3>2, LookKeepsSlot DEF ShutDown
    <3> QED
      BY <3>1, <3>2, <3>3 DEF ShutDown, IInv, TypeOK, SignalsStayInSlot
  <2> QED
    BY <2>4, <2>5
<1> QED
  BY <1>1, <1>2

LEMMA EscalateIInv ==
  ASSUME IInv, NEW id \in Viewers, Escalate(id)
  PROVE  IInv'
<1> DEFINE stopping == /\ active # None
                       /\ active.id = id /\ active.pid = pidOf[id]
                       /\ active.state = "stopping"
<1>1. escalation' \in [Viewers -> {"none", "grace", "term", "over"}]
  BY DEF Escalate, IInv, TypeOK
<1>2. received' \in [Viewers \cup {Other} -> SUBSET Signals] /\ SignalsStayInSlot'
  <2>1. CASE stopping /\ Polled(active).exit = "none"
    <3>1. active.exit = "none"
      BY <2>1, PolledShape DEF IInv, TypeOK
    <3>2. PICK sig \in Signals : Signal(active, sig)
      <4>1. Signal(active, NextAlarm[escalation[id]]) /\ escalation[id] \in DOMAIN NextAlarm
        BY <2>1 DEF Escalate
      <4> QED
        BY <4>1 DEF NextAlarm, Signals
    <3> QED
      BY <2>1, <3>1, <3>2, SignalStays
  <2>2. CASE ~(stopping /\ Polled(active).exit = "none")
    <3>1. UNCHANGED received
      BY <2>2 DEF Escalate
    <3> QED
      BY <3>1 DEF IInv, TypeOK, SignalsStayInSlot
  <2> QED
    BY <2>1, <2>2
<1>3. active' \in {None} \cup ManagedViewer /\ SlotInv' /\ process' \in [Pids -> Process]
  <2>1. CASE stopping
    <3>1. active \in ManagedViewer /\ active' = Polled(active) /\ process' = Reaped(active)
      BY <2>1 DEF Escalate, IInv, TypeOK
    <3>2. active'.state \in Busy
      BY <2>1, <3>1, PolledShape DEF Busy
    <3> QED
      BY <2>1, <3>1, <3>2, PolledShape, LookKeepsSlot DEF Escalate
  <2>2. CASE ~stopping
    <3>1. UNCHANGED <<active, process, pidOf, orphans>>
      BY <2>2 DEF Escalate
    <3> QED
      BY <3>1 DEF IInv, TypeOK, SlotInv, ZombiesHaveExit, StartedHavePid,
         ActiveOwnsPid, LiveIsWatched
  <2> QED
    BY <2>1, <2>2
<1> QED
  BY <1>1, <1>2, <1>3 DEF Escalate, IInv, TypeOK

---------------------------------------------------------------------------
LEMMA DashboardEndsIInv ==
  ASSUME IInv, DashboardEnds
  PROVE  IInv'
<1>1. process' \in [Pids -> Process]
  BY DEF DashboardEnds, IInv, TypeOK, Process, Free
<1>2. \A p \in Pids : process'[p] = process[p] \/ process'[p] = Free
  BY DEF DashboardEnds, IInv, TypeOK
<1>3. TypeOK'
  BY <1>1 DEF DashboardEnds, IInv, TypeOK
<1>4. ZombiesHaveExit' /\ StartedHavePid' /\ ActiveOwnsPid'
  BY <1>2, ConstantsOK DEF DashboardEnds, IInv, SlotInv, ZombiesHaveExit, StartedHavePid,
     ActiveOwnsPid, Free
<1>5. LiveIsWatched'
  BY <1>2, ConstantsOK DEF DashboardEnds, IInv, SlotInv, StartedHavePid, LiveIsWatched, Free
<1> QED
  BY <1>3, <1>4, <1>5 DEF DashboardEnds, IInv, SlotInv, SignalsStayInSlot

LEMMA WorkerExitsIInv ==
  ASSUME IInv, NEW pid \in Pids, WorkerExits(pid)
  PROVE  IInv'
<1>1. PICK code \in {"zero", "nonzero"} :
        process' = [process EXCEPT ![pid] =
          IF process[pid].owner \in orphans THEN Free
          ELSE [process[pid] EXCEPT !.life = "zombie", !.exit = code]]
  BY DEF WorkerExits, IInv, TypeOK
<1>2. process' \in [Pids -> Process]
  BY <1>1 DEF IInv, TypeOK, Process, Free
<1>3. \A p \in Pids \ {pid} : process'[p] = process[p]
  BY <1>1 DEF IInv, TypeOK
<1>4. \/ process[pid].owner \in orphans /\ process'[pid] = Free
      \/ /\ process'[pid].owner = process[pid].owner
         /\ process'[pid].life = "zombie" /\ process'[pid].exit # "none"
  BY <1>1 DEF IInv, TypeOK, Process
<1>5. TypeOK'
  BY <1>2 DEF WorkerExits, IInv, TypeOK
<1>6. ZombiesHaveExit' /\ StartedHavePid'
  BY <1>3, <1>4, ConstantsOK DEF WorkerExits, IInv, SlotInv, ZombiesHaveExit,
     StartedHavePid, Free
<1>7. ActiveOwnsPid'
  <2>1. active # None => active.pid \in Pids
    BY DEF IInv, TypeOK, ManagedViewer
  <2> QED
    BY <1>3, <1>4, <2>1 DEF WorkerExits, IInv, SlotInv, ActiveOwnsPid
<1>8. LiveIsWatched'
  BY <1>3, <1>4 DEF WorkerExits, IInv, SlotInv, LiveIsWatched, Free
<1> QED
  BY <1>5, <1>6, <1>7, <1>8 DEF WorkerExits, IInv, SlotInv, SignalsStayInSlot

(* Processes that have nothing to do with viewers come and go. *)
LEMMA OthersIInv ==
  ASSUME IInv, NEW pid \in Pids, OtherStarts(pid) \/ OtherEnds(pid)
  PROVE  IInv'
<1>1. process' \in [Pids -> Process]
  BY DEF OtherStarts, OtherEnds, IInv, TypeOK, Process, Free
<1>2. \A p \in Pids \ {pid} : process'[p] = process[p]
  BY DEF OtherStarts, OtherEnds, IInv, TypeOK
<1>3. process[pid].owner \notin Viewers
  BY ConstantsOK DEF OtherStarts, OtherEnds, Free
<1>4. process'[pid].owner \notin Viewers /\ process'[pid].life # "zombie"
  BY ConstantsOK DEF OtherStarts, OtherEnds, IInv, TypeOK, Free
<1>5. TypeOK'
  BY <1>1 DEF OtherStarts, OtherEnds, IInv, TypeOK
<1>6. ZombiesHaveExit' /\ StartedHavePid'
  BY <1>2, <1>4 DEF OtherStarts, OtherEnds, IInv, SlotInv, ZombiesHaveExit, StartedHavePid
<1>7. ActiveOwnsPid'
  <2>1. active # None => active.pid \in Pids /\ active.id \in Viewers
    BY DEF IInv, TypeOK, ManagedViewer
  <2> QED
    BY <1>2, <1>3, <2>1 DEF OtherStarts, OtherEnds, IInv, SlotInv, ActiveOwnsPid
<1>8. LiveIsWatched'
  BY <1>2, <1>4 DEF OtherStarts, OtherEnds, IInv, SlotInv, LiveIsWatched
<1> QED
  BY <1>5, <1>6, <1>7, <1>8 DEF OtherStarts, OtherEnds, IInv, SlotInv, SignalsStayInSlot

LEMMA RestIInv ==
  ASSUME IInv, DashboardStarts \/ (\E pid \in Pids : Listen(pid)) \/ UNCHANGED vars
  PROVE  IInv'
BY DEF DashboardStarts, Listen, vars, IInv, TypeOK, SlotInv, ZombiesHaveExit,
   StartedHavePid, ActiveOwnsPid, LiveIsWatched, SignalsStayInSlot

---------------------------------------------------------------------------
(* The inductive invariant holds of every behaviour. *)
THEOREM Inductive == Spec => []IInv
<1>1. Init => IInv
  BY InitIInv
<1>2. IInv /\ [Next]_vars => IInv'
  <2> SUFFICES ASSUME IInv, [Next]_vars PROVE IInv'
    OBVIOUS
  <2>1. CASE \E id \in Viewers, pid \in Pids : Start(id, pid)
    BY <2>1, StartIInv
  <2>2. CASE StartRefused \/ Snapshot
    BY <2>2, SnapshotIInv
  <2>3. CASE Stop
    BY <2>3, StopIInv
  <2>4. CASE \E id \in Viewers : Escalate(id)
    BY <2>4, EscalateIInv
  <2>5. CASE ShutDown
    BY <2>5, ShutDownIInv
  <2>6. CASE DashboardEnds
    BY <2>6, DashboardEndsIInv
  <2>7. CASE \E pid \in Pids : WorkerExits(pid)
    BY <2>7, WorkerExitsIInv
  <2>8. CASE \E pid \in Pids : OtherStarts(pid) \/ OtherEnds(pid)
    BY <2>8, OthersIInv
  <2>9. CASE DashboardStarts \/ (\E pid \in Pids : Listen(pid)) \/ UNCHANGED vars
    BY <2>9, RestIInv
  <2> QED
    BY <2>1, <2>2, <2>3, <2>4, <2>5, <2>6, <2>7, <2>8, <2>9 DEF Next
<1> QED
  BY <1>1, <1>2, PTL DEF Spec

(* No signal of the service ever reaches a process that is not a viewer's, *)
(* for any number of viewers and process ids (viewer_service.py 476-522).  *)
THEOREM SignalsStay == Spec => []SignalsStayInSlot
<1>1. IInv => SignalsStayInSlot
  BY DEF IInv
<1> QED
  BY <1>1, Inductive, PTL

(* There is never a second live viewer of one dashboard, nor one that its  *)
(* slot does not show as busy (viewer_service.py 158-164, 529-540).        *)
THEOREM OneManagedViewer == Spec => []LiveIsManaged
<1>1. IInv => LiveIsManaged
  BY DEF IInv, SlotInv, LiveIsWatched, LiveIsManaged
<1> QED
  BY <1>1, Inductive, PTL

(* Every variable keeps its type. *)
THEOREM TypeCorrect == Spec => []TypeOK
<1>1. IInv => TypeOK
  BY DEF IInv
<1> QED
  BY <1>1, Inductive, PTL

---------------------------------------------------------------------------
(* EscalationInOrder rests on this: a viewer whose escalation has begun    *)
(* was stopped and is never shown as running again, and a thread waits to  *)
(* send SIGKILL only when its SIGTERM arrived.                             *)
EscalationInv ==
  /\ active # None /\ active.exit = "none" => active.state \in Busy
  /\ \A id \in Viewers : escalation[id] # "none" =>
       /\ pidOf[id] # None
       /\ active # None /\ active.id = id => active.state \notin {"starting", "running"}
  /\ \A id \in Viewers : escalation[id] = "term" => "TERM" \in received[id]
  /\ EscalationInOrder

(* A look never turns a stopping or ended viewer into a running one. *)
LEMMA RefreshedStays ==
  ASSUME IInv, EscalationInv, active # None, NEW opened \in BOOLEAN,
         Refreshed(active, opened).state \in {"starting", "running"}
  PROVE  active.state \in {"starting", "running"}
<1>1. active \in ManagedViewer
  BY DEF IInv, TypeOK
<1>2. Polled(active).exit = "none" /\ active.exit = "none"
  BY <1>1, RefreshedShape, PolledShape DEF Busy
<1>3. active.state # "stopping"
  BY <1>1, <1>2, PolledShape DEF Refreshed, ManagedViewer
<1> QED
  BY <1>2, <1>3 DEF EscalationInv, Busy

(* A look that signals nothing. *)
LEMMA LookKeepsEscalation ==
  ASSUME IInv, EscalationInv, active # None,
         active' \in ManagedViewer, active'.id = active.id,
         active'.exit = "none" => active'.state \in Busy,
         active'.state \in {"starting", "running"} => active.state \in {"starting", "running"},
         UNCHANGED <<pidOf, escalation, received>>
  PROVE  EscalationInv'
BY DEF EscalationInv, EscalationInOrder

LEMMA BeginStopEscalation ==
  ASSUME IInv, EscalationInv, active # None, NEW opened \in BOOLEAN,
         Refreshed(active, opened).state \in Busy, BeginStop(Refreshed(active, opened)),
         UNCHANGED pidOf
  PROVE  EscalationInv'
<1> DEFINE v == Refreshed(active, opened)
<1>1. /\ active \in ManagedViewer /\ v \in ManagedViewer
      /\ v.id = active.id /\ v.pid = active.pid
      /\ active.exit = "none" /\ process[v.pid].life # "zombie"
  BY RefreshedShape, PolledShape DEF IInv, TypeOK
<1>2. v.state \in {"starting", "running"} => active.state \in {"starting", "running"}
  BY RefreshedStays
<1>3. v.state \in Busy /\ BeginStop(v)
  OBVIOUS
<1> HIDE DEF v
<1>4. CASE v.state = "stopping" /\ active' = v /\ UNCHANGED <<received, escalation>>
  BY <1>1, <1>4, LookKeepsEscalation DEF Busy
<1>5. CASE /\ v.state \in {"starting", "running"}
           /\ active' = [v EXCEPT !.state = "stopping"]
           /\ Signal(v, "INT")
           /\ \/ escalation' = [escalation EXCEPT ![v.id] = "grace"]
              \/ "thread_start_fails" \in Faults /\ UNCHANGED escalation
  <2>1. active'.id = v.id /\ active'.state = "stopping"
    BY <1>1, <1>5 DEF ManagedViewer
  <2>2. v.id \in Viewers /\ escalation[v.id] = "none" /\ pidOf[v.id] # None
    <3>1. process[active.pid].owner = active.id /\ active.pid \in Pids
      BY <1>1 DEF IInv, SlotInv, ActiveOwnsPid, ManagedViewer
    <3> QED
      BY <1>1, <1>2, <1>5, <3>1 DEF EscalationInv, IInv, SlotInv, StartedHavePid, ManagedViewer
  <2>3. \A id \in Viewers : \/ escalation'[id] = escalation[id]
                            \/ id = v.id /\ escalation'[id] = "grace"
    <3>1. escalation' = [escalation EXCEPT ![v.id] = "grace"] \/ UNCHANGED escalation
      BY <1>5
    <3>2. escalation \in [Viewers -> {"none", "grace", "term", "over"}]
      BY DEF IInv, TypeOK
    <3> QED
      BY <2>2, <3>1, <3>2
  <2>4. \A id \in Viewers : received'[id] \ {"INT"} = received[id] \ {"INT"}
    BY <1>5 DEF Signal, IInv, TypeOK
  <2>5. \A id \in Viewers : /\ "TERM" \in received'[id] <=> "TERM" \in received[id]
                            /\ "KILL" \in received'[id] <=> "KILL" \in received[id]
    BY <2>4
  <2> QED
    BY <2>1, <2>2, <2>3, <2>5 DEF EscalationInv, EscalationInOrder, Busy
<1> QED
  BY <1>3, <1>4, <1>5 DEF BeginStop

LEMMA EscalateEscalation ==
  ASSUME IInv, EscalationInv, NEW id \in Viewers, Escalate(id)
  PROVE  EscalationInv'
<1> DEFINE stopping == /\ active # None
                       /\ active.id = id /\ active.pid = pidOf[id]
                       /\ active.state = "stopping"
           next == IF escalation[id] = "grace" THEN "term" ELSE "over"
<1>1. escalation[id] \in {"grace", "term"}
  BY DEF Escalate, NextAlarm
<1>2. active # None => /\ active' # None /\ active'.id = active.id
                       /\ active'.state = active.state
                       /\ active'.exit = "none" => active.exit = "none"
  <2>1. active # None => active \in ManagedViewer
    BY DEF IInv, TypeOK
  <2>2. CASE stopping
    BY <2>1, <2>2, PolledShape, ConstantsOK DEF Escalate
  <2>3. CASE ~stopping
    BY <2>3 DEF Escalate
  <2> QED
    BY <2>2, <2>3
<1>3. active = None => active' = None
  BY DEF Escalate
<1>4. UNCHANGED pidOf
  BY DEF Escalate
<1>5. CASE stopping /\ Polled(active).exit = "none"
  <2>1. /\ active \in ManagedViewer /\ active.exit = "none"
        /\ process[active.pid].life = "alive" /\ process[active.pid].owner = id
    BY <1>5, PolledShape DEF IInv, TypeOK, SlotInv, ActiveOwnsPid
  <2>2. /\ received' = [received EXCEPT ![id] = @ \cup {NextAlarm[escalation[id]]}]
        /\ escalation' = [escalation EXCEPT ![id] = next]
    BY <1>5, <2>1 DEF Escalate, Signal
  <2>3. /\ \A o \in Viewers \ {id} : received'[o] = received[o] /\ escalation'[o] = escalation[o]
        /\ received'[id] = received[id] \cup {NextAlarm[escalation[id]]}
        /\ escalation'[id] = next
    BY <2>2 DEF IInv, TypeOK
  <2>4. CASE escalation[id] = "grace"
    <3>1. received'[id] = received[id] \cup {"TERM"} /\ escalation'[id] = "term"
      BY <2>3, <2>4 DEF NextAlarm
    <3> QED
      BY <1>1, <1>2, <1>3, <1>4, <2>3, <2>4, <3>1 DEF EscalationInv, EscalationInOrder
  <2>5. CASE escalation[id] = "term"
    <3>1. received'[id] = received[id] \cup {"KILL"} /\ escalation'[id] = "over"
      BY <2>3, <2>5 DEF NextAlarm
    <3> QED
      BY <1>1, <1>2, <1>3, <1>4, <2>3, <2>5, <3>1 DEF EscalationInv, EscalationInOrder
  <2> QED
    BY <1>1, <2>4, <2>5
<1>6. CASE ~(stopping /\ Polled(active).exit = "none")
  <2>1. UNCHANGED received /\ escalation' = [escalation EXCEPT ![id] = "over"]
    BY <1>6 DEF Escalate
  <2>2. \A o \in Viewers : escalation'[o] = IF o = id THEN "over" ELSE escalation[o]
    BY <2>1 DEF IInv, TypeOK
  <2> QED
    BY <1>1, <1>2, <1>3, <1>4, <2>1, <2>2 DEF EscalationInv, EscalationInOrder
<1> QED
  BY <1>5, <1>6

LEMMA StepEscalation ==
  ASSUME IInv, EscalationInv, [Next]_vars
  PROVE  EscalationInv'
<1>1. CASE \E id \in Viewers, pid \in Pids : Start(id, pid)
  <2> PICK id \in Viewers, pid \in Pids : Start(id, pid)
    BY <1>1
  <2>1. escalation[id] = "none"
    BY DEF Start, EscalationInv
  <2>2. \A o \in Viewers \ {id} : pidOf'[o] = pidOf[o]
    BY DEF Start, IInv, TypeOK
  <2>3. active'.id = id /\ active'.state \in Busy
    BY DEF Start, Busy
  <2> QED
    BY <2>1, <2>2, <2>3 DEF Start, EscalationInv, EscalationInOrder
<1>2. CASE StartRefused \/ Snapshot
  <2>1. active # None /\ active \in ManagedViewer
    BY <1>2 DEF StartRefused, Snapshot, IInv, TypeOK
  <2>2. PICK opened \in BOOLEAN : active' = Refreshed(active, opened)
    BY <1>2, <2>1 DEF StartRefused, Snapshot, LookInSlot
  <2> QED
    BY <1>2, <2>1, <2>2, RefreshedShape, RefreshedStays, LookKeepsEscalation
    DEF StartRefused, Snapshot
<1>3. CASE Stop
  <2>1. active # None /\ active \in ManagedViewer
    BY <1>3 DEF Stop, IInv, TypeOK
  <2>2. PICK opened \in BOOLEAN :
          LET v == Refreshed(active, opened) IN
          IF v.state \in Busy THEN BeginStop(v)
          ELSE active' = Refreshed(v, opened) /\ UNCHANGED <<received, escalation>>
    BY <1>3 DEF Stop
  <2>3. CASE Refreshed(active, opened).state \in Busy
    BY <1>3, <2>1, <2>2, <2>3, BeginStopEscalation DEF Stop
  <2>4. CASE Refreshed(active, opened).state \notin Busy
    <3> DEFINE v == Refreshed(active, opened)
    <3>1. v \in ManagedViewer /\ v.id = active.id /\ v.exit # "none"
      BY <2>1, <2>4, RefreshedShape
    <3>2. active' = Refreshed(v, opened) /\ UNCHANGED <<received, escalation>>
      BY <2>2, <2>4
    <3> HIDE DEF v
    <3>3. /\ active' \in ManagedViewer /\ active'.id = active.id
          /\ active'.exit # "none" /\ active'.state \notin Busy
      BY <3>1, <3>2, RefreshedShape, PolledShape
    <3> QED
      BY <1>3, <2>1, <3>2, <3>3, LookKeepsEscalation DEF Stop, Busy
  <2> QED
    BY <2>3, <2>4
<1>4. CASE \E id \in Viewers : Escalate(id)
  BY <1>4, EscalateEscalation
<1>5. CASE ShutDown
  <2>1. CASE active = None
    BY <1>5, <2>1 DEF ShutDown, EscalationInv, EscalationInOrder
  <2>2. CASE active # None
    <3>1. active \in ManagedViewer
      BY <2>2 DEF IInv, TypeOK
    <3>2. PICK opened \in BOOLEAN :
            LET v == Refreshed(active, opened) IN
            IF v.state \in Busy THEN BeginStop(v)
            ELSE active' = v /\ UNCHANGED <<received, escalation>>
      BY <1>5, <2>2 DEF ShutDown
    <3>3. CASE Refreshed(active, opened).state \in Busy
      BY <1>5, <2>2, <3>2, <3>3, BeginStopEscalation DEF ShutDown
    <3>4. CASE Refreshed(active, opened).state \notin Busy
      BY <1>5, <2>2, <3>1, <3>2, <3>4, RefreshedShape, LookKeepsEscalation
      DEF ShutDown, Busy
    <3> QED
      BY <3>3, <3>4
  <2> QED
    BY <2>1, <2>2
<1>6. CASE DashboardEnds
  <2>1. \A id \in Viewers : escalation'[id] = IF escalation[id] = "none" THEN "none" ELSE "over"
    BY <1>6 DEF DashboardEnds
  <2> QED
    BY <1>6, <2>1 DEF DashboardEnds, EscalationInv, EscalationInOrder
<1>7. CASE \/ DashboardStarts \/ UNCHANGED vars
           \/ \E pid \in Pids : Listen(pid) \/ WorkerExits(pid) \/ OtherStarts(pid) \/ OtherEnds(pid)
  <2>1. UNCHANGED <<active, pidOf, escalation, received>>
    BY <1>7 DEF DashboardStarts, vars, Listen, WorkerExits, OtherStarts, OtherEnds
  <2> QED
    BY <2>1 DEF EscalationInv, EscalationInOrder
<1> QED
  BY <1>1, <1>2, <1>3, <1>4, <1>5, <1>6, <1>7 DEF Next

(* No viewer gets a signal of another viewer's stop, and none gets a later *)
(* signal of its own before an earlier one, for any number of threads      *)
(* asleep (viewer_service.py 506-522).                                     *)
THEOREM EscalationOrdered == Spec => []EscalationInOrder
<1>1. Init => EscalationInv
  BY ConstantsOK DEF Init, EscalationInv, EscalationInOrder
<1>2. IInv /\ EscalationInv /\ [Next]_vars => EscalationInv'
  BY StepEscalation
<1>3. EscalationInv => EscalationInOrder
  BY DEF EscalationInv
<1> QED
  BY <1>1, <1>2, <1>3, Inductive, PTL DEF Spec
===========================================================================
