-------------------------- MODULE TelemetryHistory --------------------------
(***************************************************************************)
(* The TensorBoard history of a run as the dashboard reads it               *)
(* (dashboard/monitor.py).  Request threads stat the event files, look for  *)
(* records kept under those signatures, and otherwise go on reading each    *)
(* file where its loader stopped; the trainer appends to its newest file    *)
(* all the time, may start another one, and may replace it.                 *)
(***************************************************************************)
EXTENDS Integers, Sequences, FiniteSets, SequencesExt, FiniteSetsExt

CONSTANTS
    Files,      \* event files, in the order of their names
    Callers,    \* request threads
    Steps,      \* training steps that log a scalar
    MaxEvents,  \* bound: events written
    MaxInodes   \* bound: files that take over a name

VARIABLES
    disk,       \* per name: the inode and the events in it
    current,    \* the file the trainer writes
    serial,     \* events written so far: every event has its own
    inodes,     \* inodes used so far
    lock,       \* holder of _TENSORBOARD_LOCK
    loader,     \* _TENSORBOARD_CACHE: per name, signature, open file, records
    kept,       \* _TENSORBOARD_RECORD_CACHE: records under their signatures
    call        \* per thread: where it is and what it holds

vars == <<disk, current, serial, inodes, lock, loader, kept, call>>

None == -1
Events == [step : Steps, serial : 1..MaxEvents]
Signatures == [inode : 0..MaxInodes, size : 0..MaxEvents]
NoRecords == [s \in {} |-> None]
Closed == [sig |-> [inode |-> None, size |-> None], open |-> None, read |-> 0,
           records |-> NoRecords]
NoKey == [f \in {} |-> None]
Idle == [at |-> "idle", key |-> NoKey, todo |-> <<>>, sig |-> Closed.sig,
         records |-> NoRecords, due |-> {}, seen |-> {}]

Records == UNION {[S -> 1..MaxEvents] : S \in SUBSET Steps}

TypeOK ==
    /\ \A f \in Files : disk[f].inode \in 0..MaxInodes /\ disk[f].events \in Seq(Events)
    /\ current \in Files /\ serial \in 0..MaxEvents /\ inodes \in 0..MaxInodes
    /\ lock \in Callers \cup {None}
    /\ \A f \in Files : /\ loader[f].sig \in Signatures \cup {Closed.sig}
                        /\ loader[f].records \in Records
    /\ kept.records \in Records
    /\ \A c \in Callers :
         /\ call[c].at \in {"idle", "signed", "file", "read", "merge", "store", "done"}
         /\ call[c].records \in Records
         /\ call[c].due \subseteq Events

Init ==
    /\ disk = [f \in Files |-> [inode |-> f, events |-> <<>>]]
    /\ current = 1 /\ serial = 0 /\ inodes = Cardinality(Files)
    /\ lock = None
    /\ loader = [f \in Files |-> Closed]
    /\ kept = [key |-> NoKey, records |-> NoRecords]
    /\ call = [c \in Callers |-> Idle]

Sig(f) == [inode |-> disk[f].inode, size |-> Len(disk[f].events)]
OnDisk == UNION {ToSet(disk[f].events) : f \in Files}

-----------------------------------------------------------------------------
(* The trainer.                                                            *)

\* What every call in progress could have seen.
Observe(events) ==
    call' = [c \in Callers |-> IF call[c].at \in {"idle", "done"} THEN call[c]
                               ELSE [call[c] EXCEPT !.seen = @ \cup events]]

Log ==
    /\ serial < MaxEvents
    /\ \E s \in Steps :
         LET event == [step |-> s, serial |-> serial + 1]
         IN  /\ disk' = [disk EXCEPT ![current].events = Append(@, event)]
             /\ Observe({event})
    /\ serial' = serial + 1
    /\ UNCHANGED <<current, inodes, lock, loader, kept>>

NextFile ==
    /\ current + 1 \in Files /\ current' = current + 1
    /\ UNCHANGED <<disk, serial, inodes, lock, loader, kept, call>>

\* Another file takes the name: what was in the old one is no longer due.
Replace ==
    /\ inodes < MaxInodes
    /\ LET gone == ToSet(disk[current].events)
       IN  call' = [c \in Callers |-> [call[c] EXCEPT !.due = @ \ gone]]
    /\ disk' = [disk EXCEPT ![current] = [inode |-> inodes + 1, events |-> <<>>]]
    /\ inodes' = inodes + 1
    /\ UNCHANGED <<current, serial, lock, loader, kept>>

-----------------------------------------------------------------------------
(* A request.                                                              *)

At(c, place) == call[c].at = place
Names == [i \in 1..Cardinality(Files) |-> i]

\* The signatures are taken before the lock.
Sign(c) ==
    /\ At(c, "idle")
    /\ call' = [call EXCEPT ![c] = [Idle EXCEPT !.at = "signed", !.key = [f \in Files |-> Sig(f)],
                                                !.due = OnDisk, !.seen = OnDisk]]
    /\ UNCHANGED <<disk, current, serial, inodes, lock, loader, kept>>

\* Records kept under the same signatures answer at once.
LookUp(c) ==
    /\ At(c, "signed") /\ lock = None
    /\ IF kept.key = call[c].key
       THEN /\ call' = [call EXCEPT ![c].at = "done", ![c].records = kept.records]
            /\ UNCHANGED lock
       ELSE /\ call' = [call EXCEPT ![c].at = "file", ![c].todo = Names]
            /\ lock' = c
    /\ UNCHANGED <<disk, current, serial, inodes, loader, kept>>

\* The next file is asked for its signature again.
StatFile(c) ==
    /\ At(c, "file") /\ call[c].todo # <<>>
    /\ call' = [call EXCEPT ![c].at = "read", ![c].sig = Sig(Head(call[c].todo))]
    /\ UNCHANGED <<disk, current, serial, inodes, lock, loader, kept>>

\* A file seen first, replaced or shorter than before is read from its start.
Reopened(f, sig) ==
    \/ loader[f] = Closed
    \/ loader[f].sig.inode # sig.inode
    \/ sig.size < loader[f].sig.size

\* The later event of a step replaces the earlier.
LastOf(events, s) == events[Max({i \in DOMAIN events : events[i].step = s})]
Updated(records, events) ==
    LET steps == {events[i].step : i \in DOMAIN events}
    IN  [s \in DOMAIN records \cup steps |->
           IF s \in steps THEN LastOf(events, s).serial ELSE records[s]]

\* _read_tensorboard_scalars: everything after the last event read.
More(l, f) ==
    LET events == disk[f].events
        fresh == IF l.open = disk[f].inode THEN SubSeq(events, l.read + 1, Len(events)) ELSE <<>>
    IN  [l EXCEPT !.read = @ + Len(fresh), !.records = Updated(@, fresh)]

\* _tensorboard_file_records: the loader goes on when the signature is another;
\* the signature kept is the one from before the read.
Advanced(f, sig) ==
    LET base == IF Reopened(f, sig) THEN [Closed EXCEPT !.open = disk[f].inode] ELSE loader[f]
    IN  IF Reopened(f, sig) \/ base.sig # sig
        THEN [More(base, f) EXCEPT !.sig = sig] ELSE loader[f]

ReadFile(c) ==
    /\ At(c, "read")
    /\ LET f == Head(call[c].todo)
       IN  loader' = [loader EXCEPT ![f] = Advanced(f, call[c].sig)]
    /\ call' = [call EXCEPT ![c].at = "file", ![c].todo = Tail(@)]
    /\ UNCHANGED <<disk, current, serial, inodes, lock, kept>>

\* Later files win.
Latest(s) == Max({f \in Files : s \in DOMAIN loader[f].records})
Merged == [s \in UNION {DOMAIN loader[f].records : f \in Files} |-> loader[Latest(s)].records[s]]

\* The lock is given back.
Merge(c) ==
    /\ At(c, "file") /\ call[c].todo = <<>>
    /\ call' = [call EXCEPT ![c].at = "store", ![c].records = Merged]
    /\ lock' = None
    /\ UNCHANGED <<disk, current, serial, inodes, loader, kept>>

\* Seeded defect: the records are kept under the signatures of now.
StoreKey(c) == [f \in Files |-> Sig(f)]

\* They are kept under the signatures the call began with.
KeyOf(c) == call[c].key

Store(c) ==
    /\ At(c, "store") /\ lock = None
    /\ kept' = [key |-> KeyOf(c), records |-> call[c].records]
    /\ call' = [call EXCEPT ![c].at = "done"]
    /\ UNCHANGED <<disk, current, serial, inodes, lock, loader>>

Answer(c) ==
    /\ At(c, "done") /\ call' = [call EXCEPT ![c] = Idle]
    /\ UNCHANGED <<disk, current, serial, inodes, lock, loader, kept>>

Next ==
    \/ Log \/ NextFile \/ Replace
    \/ \E c \in Callers : \/ Sign(c) \/ LookUp(c) \/ StatFile(c) \/ ReadFile(c)
                          \/ Merge(c) \/ Store(c) \/ Answer(c)

Spec == Init /\ [][Next]_vars

-----------------------------------------------------------------------------
(* Properties.                                                             *)

Covers(records, due) ==
    \A e \in due : e.step \in DOMAIN records /\ records[e.step] >= e.serial
Within(records, seen) ==
    \A s \in DOMAIN records : [step |-> s, serial |-> records[s]] \in seen

\* An answer lacks nothing that was in the files when the request came (and
\* still is), and holds nothing that was not in them while it was answered,
\* whatever other requests put into the two caches.  (monitor.py:227-328)
HistoryIsTheFiles ==
    \A c \in Callers : At(c, "done") =>
        Covers(call[c].records, call[c].due) /\ Within(call[c].records, call[c].seen)

-----------------------------------------------------------------------------
(* The inductive invariant.                                                *)

Signs == [inode : Int, size : Int]
Places == {"idle", "signed", "file", "read", "store", "done"}
Keys == {NoKey} \cup [Files -> Signs]
Loaders == [sig : Signs, open : Int, read : Nat, records : Records]
Calls == [at : Places, key : Keys, todo : Seq(Files), sig : Signs, records : Records,
          due : SUBSET Events, seen : SUBSET Events]
Active(c) == call[c].at \in {"signed", "file", "read", "store"}

Types ==
    /\ disk \in [Files -> [inode : Nat, events : Seq(Events)]]
    /\ current \in Files /\ serial \in Nat /\ inodes \in Nat
    /\ lock \in Callers \cup {None}
    /\ loader \in [Files -> Loaders]
    /\ kept \in [key : Keys, records : Records]
    /\ call \in [Callers -> Calls]

\* The later an event comes, in its file or in a later one, the later it was written.
InOrder ==
    /\ \A f \in Files : disk[f].inode > 0 /\ disk[f].inode <= inodes
    /\ \A f \in Files : \A i \in DOMAIN disk[f].events :
         /\ disk[f].events[i].serial <= serial
         /\ \A j \in DOMAIN disk[f].events :
              i < j => disk[f].events[i].serial < disk[f].events[j].serial
    /\ \A f, g \in Files : f < g => \A e \in ToSet(disk[f].events) :
         /\ \A later \in ToSet(disk[g].events) : e.serial < later.serial
         /\ \A s \in DOMAIN loader[g].records : e.serial < loader[g].records[s]
    /\ \A g \in Files : g > current =>
         disk[g].events = <<>> /\ DOMAIN loader[g].records = {}

\* A loader has the events it read, if the file it opened still has the name, and has
\* read what its signature counts.
Has(l, f) ==
    /\ l.read <= Len(disk[f].events) /\ Within(l.records, ToSet(disk[f].events))
    /\ \A i \in 1..l.read : Covers(l.records, {disk[f].events[i]})
LoaderIsOfTheFile(l, f) ==
    /\ l.sig.inode <= l.open /\ l.open <= disk[f].inode
    /\ l.open = disk[f].inode => Has(l, f)
    /\ l.sig.inode = disk[f].inode => l.sig.size <= l.read

\* Signatures only advance.
IsPast(key) ==
    /\ key # NoKey
    /\ \A f \in Files : \/ key[f].inode < disk[f].inode
                         \/ /\ key[f].inode = disk[f].inode
                            /\ key[f].size <= Len(disk[f].events)
IsNow(key) == key = [f \in Files |-> Sig(f)]

\* What a request is to find was there under its signatures; two requests with the same
\* signatures are to find the same.
CallIsOfTheFiles(c) ==
    /\ Active(c) =>
         /\ call[c].due \subseteq OnDisk /\ OnDisk \subseteq call[c].seen
         /\ IsPast(call[c].key)
         /\ IsNow(call[c].key) => call[c].due = OnDisk /\ call[c].seen = OnDisk
    /\ \A d \in Callers : Active(c) /\ Active(d) /\ call[c].key = call[d].key =>
         call[c].due = call[d].due /\ call[c].seen = call[d].seen

\* The holder of the lock finds it in the loaders of the files it is through with, and
\* will in that of the file whose signature it has.
HolderIsRight(c) ==
    LET r == call[c]
        f == Head(r.todo)
    IN  /\ lock = c <=> r.at \in {"file", "read"}
        /\ lock = c => \A g \in Files \ ToSet(r.todo) :
             /\ Within(loader[g].records, r.seen)
             /\ Covers(loader[g].records, r.due \cap ToSet(disk[g].events))
        /\ r.at = "read" =>
             /\ r.todo # <<>> /\ r.sig.inode <= disk[f].inode
             /\ r.sig.inode = disk[f].inode => r.sig.size <= Len(disk[f].events)
             /\ loader[f].sig.inode = r.sig.inode => Within(loader[f].records, r.seen)
             /\ \A i \in DOMAIN disk[f].events : disk[f].events[i] \in r.due =>
                  r.sig.inode = disk[f].inode /\ i <= r.sig.size

\* What was merged is right for the request, and what is kept is for every request with
\* the signatures it is kept under.
AnswerIsRight(c) ==
    call[c].at \in {"store", "done"} =>
        Covers(call[c].records, call[c].due) /\ Within(call[c].records, call[c].seen)
KeptIsRight ==
    /\ kept.key = NoKey \/ IsPast(kept.key)
    /\ IsNow(kept.key) => Covers(kept.records, OnDisk) /\ Within(kept.records, OnDisk)
    /\ \A c \in Callers : At(c, "signed") /\ call[c].key = kept.key =>
         Covers(kept.records, call[c].due) /\ Within(kept.records, call[c].seen)

IInv ==
    /\ Types /\ InOrder /\ KeptIsRight
    /\ \A f \in Files : LoaderIsOfTheFile(loader[f], f)
    /\ \A c \in Callers : CallIsOfTheFiles(c) /\ HolderIsRight(c) /\ AnswerIsRight(c)
=============================================================================
