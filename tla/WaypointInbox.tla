---------------------------- MODULE WaypointInbox ---------------------------
(***************************************************************************)
(* The waypoint commands on their way to the viewer (viewer/ipc.py):       *)
(* queue_waypoint_command puts each into a file whose name starts with the *)
(* clock, from the dashboard and from the panel of the viewer itself;      *)
(* consume_waypoint_commands takes what the directory lists, sorted.       *)
(***************************************************************************)
EXTENDS Naturals, Sequences, FiniteSets

CONSTANTS Queuers,       \* the processes that queue commands
          MaxCommands    \* bound of the model: commands of each of them

VARIABLES clock,
          stamp,     \* the name a queuer is about to give its file, 0 when it is not queueing
          inbox,     \* the files: who queued it, its number, the clock in its name
          sent,      \* the number of commands each has queued
          applied    \* the commands in the order in which the controller got them
vars == <<clock, stamp, inbox, sent, applied>>

Command == [by : Queuers, nth : 1..MaxCommands, at : Nat \ {0}]

TypeOK ==
  /\ clock \in Nat \ {0} /\ stamp \in [Queuers -> Nat]
  /\ sent \in [Queuers -> 0..MaxCommands]
  /\ inbox \subseteq Command /\ applied \in Seq(Command)

Init ==
  /\ clock = 1 /\ stamp = [q \in Queuers |-> 0] /\ inbox = {}
  /\ sent = [q \in Queuers |-> 0] /\ applied = <<>>

\* the clock of the one machine; two readings by a queuer differ
Tick(q) == clock' = clock + 1 /\ stamp' = [stamp EXCEPT ![q] = clock]

\* a queuer reads the clock for the name of its next file
ReadClock(q) ==
  /\ stamp[q] = 0 /\ sent[q] < MaxCommands
  /\ Tick(q) /\ UNCHANGED <<inbox, sent, applied>>

\* Seeded defect: the name of the file starts with its identifier.
SendUnstamped(q) ==
  /\ stamp[q] # 0
  /\ \E at \in 1..clock : inbox' = inbox \cup {[by |-> q, nth |-> sent[q] + 1, at |-> at]}
  /\ sent' = [sent EXCEPT ![q] = @ + 1]
  /\ stamp' = [stamp EXCEPT ![q] = 0]
  /\ UNCHANGED <<clock, applied>>

\* the file appears under that name
Send(q) ==
  /\ stamp[q] # 0
  /\ inbox' = inbox \cup {[by |-> q, nth |-> sent[q] + 1, at |-> stamp[q]]}
  /\ sent' = [sent EXCEPT ![q] = @ + 1]
  /\ stamp' = [stamp EXCEPT ![q] = 0]
  /\ UNCHANGED <<clock, applied>>

\* the listing of the directory, sorted by the names
Sorted(s) ==
  /\ {s[i] : i \in DOMAIN s} = inbox
  /\ \A i, j \in DOMAIN s : i < j => s[i].at < s[j].at

\* the worker takes everything the directory lists, in the order of the names;
\* commands are taken between steps, whether or not the viewer is paused
Apply ==
  /\ inbox # {} /\ inbox' = {}
  /\ \E s \in [1..Cardinality(inbox) -> inbox] : Sorted(s) /\ applied' = applied \o s
  /\ UNCHANGED <<clock, stamp, sent>>

Next == Apply \/ \E q \in Queuers : ReadClock(q) \/ Send(q)
Spec == Init /\ [][Next]_vars

(***************************************************************************)
(* Properties                                                              *)
(***************************************************************************)

\* The commands of one queuer reach the controller in the order it queued them, each
\* once, although they are sorted with those of others by the clock in their names and
\* are listed while files appear (consume_waypoint_commands).
Earlier(i, j) == i < j /\ applied[i].by = applied[j].by
CommandsInOrder ==
  /\ \A i, j \in 1..Len(applied) : Earlier(i, j) => applied[i].nth < applied[j].nth
  /\ \A i \in 1..Len(applied) : \A n \in 1..applied[i].nth - 1 :
       \E j \in 1..Len(applied) : Earlier(j, i) /\ applied[j].nth = n

(***************************************************************************)
(* The inductive invariant                                                 *)
(***************************************************************************)

\* What a queuer has sent is in the directory or was applied, what was applied first.
Numbered ==
  /\ \A c \in inbox : c.nth <= sent[c.by]
  /\ \A i \in 1..Len(applied) : applied[i].nth <= sent[applied[i].by]
  /\ \A q \in Queuers : \A n \in 1..sent[q] :
       \/ \E c \in inbox : c.by = q /\ c.nth = n
       \/ \E i \in 1..Len(applied) : applied[i].by = q /\ applied[i].nth = n
  /\ \A i \in 1..Len(applied), c \in inbox : applied[i].by = c.by => applied[i].nth < c.nth

\* The names of a queuer's files are in the order of its commands, up to the next one.
Stamped ==
  /\ \A q \in Queuers : stamp[q] < clock /\ (stamp[q] # 0 => sent[q] < MaxCommands)
  /\ \A c \in inbox : c.at < clock /\ (stamp[c.by] # 0 => c.at < stamp[c.by])
  /\ \A c, d \in inbox : c.by = d.by =>
       /\ c.nth < d.nth => c.at < d.at
       /\ c.nth = d.nth => c = d

IInv == TypeOK /\ IsFiniteSet(inbox) /\ Numbered /\ Stamped /\ CommandsInOrder
=============================================================================
