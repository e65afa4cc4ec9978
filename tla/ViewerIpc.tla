------------------------------ MODULE ViewerIpc -----------------------------
(***************************************************************************)
(* The directory through which the dashboard asks a viewer for captures,   *)
(* explanations and waypoints (viewer/ipc.py).  A slot is a lock file that *)
(* names its request and a request file; the dashboard creates both under  *)
(* the lock of ViewerService, the worker claims the request by a rename    *)
(* while it steps, and frees the slot: a capture when it was read, an      *)
(* explanation when its answer was published.  A viewer's directory is its *)
(* own: what a dead worker leaves behind is never read again.              *)
(***************************************************************************)
EXTENDS Integers

CONSTANT MaxRequests     \* bound of the model: requests made of each slot

Slots == {"capture", "explanation"}
None == 0     \* no lock file
Blank == -1   \* a lock file that nothing was written to yet

VARIABLES lock,      \* what each lock file says
          made,      \* the requests made of each slot; they are numbered
          queueing,  \* the slot the dashboard is at, and how far
          files,     \* the request files of each slot
          claimed,   \* the requests the worker has renamed
          served,    \* the requests it has read (capture) or answered (explanation)
          leaked,    \* the slots whose holder failed after it took the lock
          paused     \* the viewer executes no step
vars == <<lock, made, queueing, files, claimed, served, leaked, paused>>

Requests == 1..MaxRequests
TypeOK ==
  /\ lock \in [Slots -> Requests \cup {None, Blank}]
  /\ made \in [Slots -> 0..MaxRequests]
  /\ queueing \in [slot : Slots \cup {"none"}, at : {"idle", "locked", "named"}]
  /\ {files, claimed, served} \subseteq [Slots -> SUBSET Requests]
  /\ leaked \subseteq Slots /\ paused \in BOOLEAN

AtRest == [slot |-> "none", at |-> "idle"]
Init ==
  /\ lock = [s \in Slots |-> None] /\ made = [s \in Slots |-> 0] /\ queueing = AtRest
  /\ files = [s \in Slots |-> {}] /\ claimed = files /\ served = files
  /\ leaked = {} /\ paused = FALSE

----------------------------------------------------------------------------
\* The dashboard: request_manual_capture, queue_explanation_request.

\* Seeded defect: the lock file is opened for writing instead of created.
TakeOpen(s) ==
  /\ queueing = AtRest /\ made[s] < MaxRequests
  /\ lock' = [lock EXCEPT ![s] = Blank]
  /\ made' = [made EXCEPT ![s] = @ + 1]
  /\ queueing' = [slot |-> s, at |-> "locked"]
  /\ UNCHANGED <<files, claimed, served, leaked, paused>>

\* the lock file is created, or the request is refused as busy
Take(s) ==
  /\ queueing = AtRest /\ made[s] < MaxRequests /\ lock[s] = None
  /\ lock' = [lock EXCEPT ![s] = Blank]
  /\ made' = [made EXCEPT ![s] = @ + 1]
  /\ queueing' = [slot |-> s, at |-> "locked"]
  /\ UNCHANGED <<files, claimed, served, leaked, paused>>

Name(s) ==
  /\ queueing = [slot |-> s, at |-> "locked"]
  /\ lock' = [lock EXCEPT ![s] = made[s]]
  /\ queueing' = [queueing EXCEPT !.at = "named"]
  /\ UNCHANGED <<made, files, claimed, served, leaked, paused>>

\* the identifier cannot be written: only FileExistsError is handled
NameFails(s) ==
  /\ queueing = [slot |-> s, at |-> "locked"]
  /\ queueing' = AtRest /\ leaked' = leaked \cup {s}
  /\ UNCHANGED <<lock, made, files, claimed, served, paused>>

Post(s) ==
  /\ queueing = [slot |-> s, at |-> "named"]
  /\ files' = [files EXCEPT ![s] = @ \cup {made[s]}]
  /\ queueing' = AtRest
  /\ UNCHANGED <<lock, made, claimed, served, leaked, paused>>

\* the request cannot be written: the lock is removed again
PostFails(s) ==
  /\ queueing = [slot |-> s, at |-> "named"]
  /\ lock' = [lock EXCEPT ![s] = None]
  /\ queueing' = AtRest
  /\ UNCHANGED <<made, files, claimed, served, leaked, paused>>

----------------------------------------------------------------------------
\* The worker, inside an executed step: consume_..., publish_explanation.

Claim(s) ==
  /\ ~paused /\ claimed[s] = {}
  /\ \E r \in files[s] :
       /\ files' = [files EXCEPT ![s] = @ \ {r}]
       /\ claimed' = [claimed EXCEPT ![s] = {r}]
  /\ UNCHANGED <<lock, made, queueing, served, leaked, paused>>

\* Seeded defect: an explanation's slot is left to the next request.
FreeCaptures(s, r) ==
  lock' = [lock EXCEPT ![s] = IF @ = r /\ s = "capture" THEN None ELSE @]

\* the lock file is removed if it names this request
Free(s, r) == lock' = [lock EXCEPT ![s] = IF @ = r THEN None ELSE @]

\* the claimed file was read and removed (capture), the answer is in place (explanation)
Serve(s) == \E r \in claimed[s] :
  /\ Free(s, r)
  /\ claimed' = [claimed EXCEPT ![s] = {}]
  /\ served' = [served EXCEPT ![s] = @ \cup {r}]
  /\ UNCHANGED <<made, queueing, files, leaked, paused>>

\* the answer holds a number that JSON cannot carry: publish_explanation raises
PublishFails ==
  /\ claimed["explanation"] # {}
  /\ claimed' = [claimed EXCEPT !["explanation"] = {}]
  /\ leaked' = leaked \cup {"explanation"}
  /\ UNCHANGED <<lock, made, queueing, files, served, paused>>

Pause == paused' = ~paused /\ UNCHANGED <<lock, made, queueing, files, claimed, served, leaked>>

Next ==
  \/ \E s \in Slots : \/ Take(s) \/ Name(s) \/ NameFails(s) \/ Post(s)
                                \/ PostFails(s) \/ Claim(s) \/ Serve(s)
            \/ PublishFails \/ Pause

\* a thread of the dashboard finishes its request, and the worker its step
Fairness ==
  /\ \A s \in Slots : WF_vars(Name(s) \/ NameFails(s)) /\ WF_vars(Post(s) \/ PostFails(s))
  /\ \A s \in Slots : WF_vars(Claim(s)) /\ WF_vars(Serve(s) \/ (PublishFails /\ s = "explanation"))
Spec == Init /\ [][Next]_vars /\ Fairness

(***************************************************************************)
(* Properties                                                              *)
(***************************************************************************)

\* A slot has at most one request between the dashboard and the worker, and the
\* lock file names it: a second request can neither overtake nor free the slot of
\* the first, whatever fails on either side (ipc.py, both slots).
SlotIsExclusive == \A s \in Slots : \A r \in files[s] \cup claimed[s] : lock[s] = r

\* A slot that is taken comes free again as long as the viewer steps, unless its
\* holder failed where nothing removes the lock: the identifier could not be
\* written, or the answer could not be encoded (ipc.py:136, :204).
SlotComesFree == \A s \in Slots :
  (lock[s] # None) ~> (lock[s] = None \/ s \in leaked \/ paused)

(***************************************************************************)
(* The inductive invariant                                                 *)
(***************************************************************************)

\* Nothing of a slot is under way while its lock names no request or its request is being
\* made, the dashboard knows what it has done to the lock, and a request is in a file or
\* is claimed, not both.
SlotInv(s) ==
  /\ \A r \in files[s] \cup claimed[s] : lock[s] = r
  /\ lock[s] \in {None, Blank} \/ queueing.slot = s => files[s] \cup claimed[s] = {}
  /\ queueing.slot = s =>
       /\ made[s] \in Requests
       /\ \/ queueing.at = "locked" /\ lock[s] = Blank
          \/ queueing.at = "named" /\ lock[s] = made[s]
  /\ files[s] = {} \/ claimed[s] = {}

IInv == TypeOK /\ \A s \in Slots : SlotInv(s)
=============================================================================
