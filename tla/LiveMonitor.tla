---------------------------- MODULE LiveMonitor ----------------------------
(***************************************************************************)
(* The sampled telemetry of a training run                                 *)
(* (src/ascento_mjlab/live_training_monitor.py).  The training thread      *)
(* samples frames into a bounded mailbox and, when learning ends, closes   *)
(* it; a daemon thread writes the frames to live_monitor.json.  Frames are *)
(* numbered as they are offered.  When the process exits the daemon dies   *)
(* wherever it is.                                                         *)
(***************************************************************************)
EXTENDS Naturals, Sequences, FiniteSets

CONSTANTS Capacity, \* of the mailbox
          MaxFrames \* bound: frames offered in the run

VARIABLES pc,       \* the training thread
          worker,   \* the writing thread
          mailbox,  \* pending
          holding,  \* the frame being written, 0 for none
          offered, dropped,
          stopped,  \* _stopped
          disabled, \* _disabled
          written   \* the frames written to live_monitor.json so far

vars == <<pc, worker, mailbox, holding, offered, dropped, stopped, disabled, written>>

Sentinel == 0  \* None in the queue

Init == /\ pc = "training" /\ worker = "waiting"
        /\ mailbox = <<>> /\ holding = 0
        /\ offered = 0 /\ dropped = 0
        /\ stopped = FALSE /\ disabled = FALSE
        /\ written = {}

Full == Len(mailbox) >= Capacity
Put(frame) == mailbox' = Append(mailbox, frame)

-----------------------------------------------------------------------------
(* The training thread.  A sample that is not due or not finite is no      *)
(* step; one whose capture raises switches sampling off for good.          *)

CaptureFails == /\ pc = "training" /\ ~disabled
                /\ disabled' = TRUE
                /\ UNCHANGED <<pc, worker, mailbox, holding, offered, dropped, stopped, written>>

(* offer: the frame goes in, or finds the mailbox full ...                 *)
Offer == /\ pc = "training" /\ ~disabled /\ ~stopped /\ offered < MaxFrames
         /\ offered' = offered + 1
         /\ IF Full THEN pc' = "evicting" /\ UNCHANGED mailbox
                    ELSE Put(offered') /\ UNCHANGED pc
         /\ UNCHANGED <<worker, holding, dropped, stopped, disabled, written>>

\* Seeded defect: an evicted frame is not counted.
EvictUncounted == /\ pc = "evicting"
                  /\ mailbox' = IF mailbox = <<>> THEN mailbox ELSE Tail(mailbox)
                  /\ pc' = "putting"
                  /\ UNCHANGED <<worker, holding, offered, dropped, stopped, disabled, written>>

(* ... then the oldest is evicted, unless the worker has just emptied the  *)
(* mailbox, and a drop is counted either way ...                           *)
Evict == /\ pc = "evicting"
         /\ mailbox' = IF mailbox = <<>> THEN mailbox ELSE Tail(mailbox)
         /\ dropped' = dropped + 1
         /\ pc' = "putting"
         /\ UNCHANGED <<worker, holding, offered, stopped, disabled, written>>

(* ... and the frame is put again.                                         *)
PutAgain == /\ pc = "putting"
            /\ IF Full THEN dropped' = dropped + 1 /\ UNCHANGED mailbox
                       ELSE Put(offered) /\ UNCHANGED dropped
            /\ pc' = "training"
            /\ UNCHANGED <<worker, holding, offered, stopped, disabled, written>>

(* close, once learning ends or fails: the sentinel goes in ...            *)
Close == /\ pc = "training"
         /\ \/ stopped /\ pc' = "closed" /\ UNCHANGED mailbox
            \/ ~stopped /\ Full /\ pc' = "making_room" /\ UNCHANGED mailbox
            \/ ~stopped /\ ~Full /\ Put(Sentinel) /\ pc' = "joining"
         /\ UNCHANGED <<worker, holding, offered, dropped, stopped, disabled, written>>

\* Seeded defect: room is made by emptying the mailbox.
MakeAllRoom == /\ pc = "making_room"
               /\ mailbox' = <<>>
               /\ pc' = "put_sentinel"
               /\ UNCHANGED <<worker, holding, offered, dropped, stopped, disabled, written>>

(* ... evicting the oldest frame first when there is no room ...           *)
MakeRoom == /\ pc = "making_room"
            /\ mailbox' = IF mailbox = <<>> THEN mailbox ELSE Tail(mailbox)
            /\ pc' = "put_sentinel"
            /\ UNCHANGED <<worker, holding, offered, dropped, stopped, disabled, written>>

PutSentinel == /\ pc = "put_sentinel"
               /\ IF Full THEN UNCHANGED mailbox ELSE Put(Sentinel)
               /\ pc' = "joining"
               /\ UNCHANGED <<worker, holding, offered, dropped, stopped, disabled, written>>

(* ... and the worker is joined, or a second has passed.                   *)
Join == /\ pc = "joining"
        /\ pc' = IF worker = "done" THEN "closed" ELSE "timed_out"
        /\ stopped' = TRUE
        /\ UNCHANGED <<worker, mailbox, holding, offered, dropped, disabled, written>>

Exit == /\ pc \in {"closed", "timed_out"} /\ worker # "killed"
        /\ worker' = IF worker = "done" THEN "done" ELSE "killed"
        /\ pc' = "exited"
        /\ UNCHANGED <<mailbox, holding, offered, dropped, stopped, disabled, written>>

-----------------------------------------------------------------------------
(* The writing thread.                                                     *)

Get == /\ worker = "waiting" /\ mailbox # <<>>
       /\ mailbox' = Tail(mailbox)
       /\ holding' = Head(mailbox)
       /\ worker' = IF Head(mailbox) = Sentinel THEN "done" ELSE "writing"
       /\ UNCHANGED <<pc, offered, dropped, stopped, disabled, written>>

(* The file is written beside the output and renamed over it.              *)
Write == /\ worker = "writing"
         /\ written' = written \cup {holding} /\ holding' = 0
         /\ worker' = "waiting"
         /\ UNCHANGED <<pc, mailbox, offered, dropped, stopped, disabled>>

\* Any filesystem error switches the writer off, silently for the trainer.
WriteFails == /\ worker = "writing"
              /\ stopped' = TRUE /\ holding' = 0
              /\ worker' = "failed"
              /\ UNCHANGED <<pc, mailbox, offered, dropped, disabled, written>>

Next == \/ CaptureFails \/ Offer \/ Evict \/ PutAgain
        \/ Close \/ MakeRoom \/ PutSentinel \/ Join \/ Exit
        \/ Get \/ Write \/ WriteFails

Spec == Init /\ [][Next]_vars

-----------------------------------------------------------------------------
TypeOK == /\ pc \in {"training", "evicting", "putting", "making_room", "put_sentinel",
                     "joining", "closed", "timed_out", "exited"}
          /\ worker \in {"waiting", "writing", "done", "failed", "killed"}
          /\ mailbox \in Seq(0..MaxFrames) /\ Len(mailbox) <= Capacity
          /\ holding \in 0..MaxFrames /\ written \subseteq 1..offered

OnTheWay == {holding, IF pc \in {"evicting", "putting"} THEN offered ELSE 0}
              \cup {mailbox[i] : i \in 1..Len(mailbox)}
Lost == (1..offered) \ (written \cup OnTheWay)

(* Frames that never reach live_monitor.json are counted, but for the one  *)
(* that closing the monitor may evict and the ones a failed or killed      *)
(* writer leaves behind; so dropped_display_frames never understates what  *)
(* the reader of the telemetry has missed while training runs.             *)
NoSilentLoss == worker \in {"waiting", "writing", "done"} =>
                  Cardinality(Lost) <= dropped + (IF pc = "training" THEN 0 ELSE 1)

(***************************************************************************)
(* The inductive invariant: a step loses at most one frame, and the steps  *)
(* that lose one count it, but for the one that makes room for the         *)
(* sentinel.                                                               *)
(***************************************************************************)

InMailbox == {mailbox[i] : i \in 1..Len(mailbox)}
InHand == {holding, IF pc \in {"evicting", "putting"} THEN offered ELSE 0}

\* The mailbox may have lost a frame to the sentinel.
RoomMade == pc \in {"put_sentinel", "joining", "closed", "timed_out", "exited"}

Types == /\ mailbox \in Seq(Nat) /\ holding \in Nat
         /\ offered \in Nat /\ dropped \in Nat
         /\ worker = "waiting" => holding = 0

AllCounted == Cardinality(Lost) <= dropped + (IF RoomMade THEN 1 ELSE 0)

Works == worker \in {"waiting", "writing", "done"}

IInv == Types /\ (Works => AllCounted)
=============================================================================
