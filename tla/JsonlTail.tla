------------------------------ MODULE JsonlTail -----------------------------
(***************************************************************************)
(* load_jsonl (dashboard/monitor.py): threads of the dashboard read the    *)
(* full history of telemetry.jsonl through one cache entry, which holds    *)
(* the records parsed so far, the bytes after the last newline, and the    *)
(* offset, inode and modification time they belong to.  The size and the   *)
(* inode are read before the lock of the cache is taken.  The writer adds  *)
(* half a line at a time, and may truncate the file or put a new one in    *)
(* its place.  A line is two halves [line, half]; the newline ends the     *)
(* second; a half whose other half is missing is not a record.             *)
(***************************************************************************)
EXTENDS Integers, Sequences, FiniteSets, SequencesExt

CONSTANTS Readers,
          MaxHalves, MaxFiles    \* bounds of the model: halves written, files made

VARIABLES file,      \* [inode, data, mtime]
          written,   \* the halves written so far to any file
          looked,    \* what each reader's stat() said, NoStat outside of load_jsonl
          cache,     \* the cache entry
          result,    \* what the last call returned, and the whole lines of the file then
          astray     \* "yes" after a change that the size and the inode cannot show, "cut"
                     \* while the file is known to be shorter than what was read
vars == <<file, written, looked, cache, result, astray>>

Half == [line : 1..MaxHalves, half : {1, 2}]
NoStat == [inode |-> 0, size |-> 0, mtime |-> 0]
Stat == [inode |-> file.inode, size |-> Len(file.data), mtime |-> file.mtime]
Empty(stat) == [inode |-> stat.inode, mtime |-> stat.mtime, offset |-> 0,
                pending |-> <<>>, records |-> <<>>]
NoEntry == Empty(NoStat)

\* the newlines of a run of bytes that end a line it has both halves of
Ends(bytes) ==
  {i \in 2..Len(bytes) : /\ bytes[i].half = 2
                         /\ bytes[i - 1] = [line |-> bytes[i].line, half |-> 1]}
\* the k-th of them
End(bytes, k) == CHOOSE i \in Ends(bytes) :
                   Cardinality({j \in Ends(bytes) : j <= i}) = k

\* the records of a run of bytes: the lines both of whose halves it has, in order
LinesOf(bytes) == [k \in 1..Cardinality(Ends(bytes)) |-> bytes[End(bytes, k)].line]

MaxTime == 2 * MaxHalves + MaxFiles
TypeOK ==
  /\ file \in [inode : 1..MaxFiles, data : Seq(Half), mtime : 0..MaxTime]
  /\ written \in 0..MaxHalves
  /\ looked \in [Readers -> [inode : 0..MaxFiles, size : 0..MaxHalves,
                             mtime : 0..MaxTime]]
  /\ cache.records \in Seq(1..MaxHalves) /\ cache.pending \in Seq(Half)
  /\ astray \in {"no", "cut", "yes"}

Init ==
  /\ file = [inode |-> 1, data |-> <<>>, mtime |-> 0] /\ written = 0
  /\ looked = [r \in Readers |-> NoStat]
  /\ cache = NoEntry /\ result = [got |-> <<>>, due |-> <<>>] /\ astray = "no"

----------------------------------------------------------------------------
\* The writer

NextHalf == IF file.data = <<>> \/ Last(file.data).half = 2
            THEN [line |-> written + 1, half |-> 1]
            ELSE [Last(file.data) EXCEPT !.half = 2]

Write ==
  /\ written < MaxHalves /\ written' = written + 1
  /\ file' = [file EXCEPT !.data = Append(@, NextHalf), !.mtime = @ + 1]
  /\ astray' = IF astray = "cut" /\ Len(file.data) >= cache.offset THEN "yes" ELSE astray
  /\ UNCHANGED <<looked, cache, result>>

Looking == \E r \in Readers : looked[r] # NoStat

\* another file takes the name; a thread between its stat() and its open() is misled
Replace ==
  /\ file.inode < MaxFiles
  /\ file' = [inode |-> file.inode + 1, data |-> <<>>, mtime |-> file.mtime + 1]
  /\ astray' = IF Looking THEN "yes" ELSE astray
  /\ UNCHANGED <<written, looked, cache, result>>

\* the same file is emptied, and grows again under the same inode
Truncate ==
  /\ file.data # <<>> /\ written < MaxHalves
  /\ file' = [file EXCEPT !.data = <<>>, !.mtime = @ + 1]
  /\ astray' = CASE Looking -> "yes"
                 [] ~Looking /\ astray = "no" /\ cache.inode = file.inode -> "cut"
                 [] OTHER -> astray
  /\ UNCHANGED <<written, looked, cache, result>>

----------------------------------------------------------------------------
\* load_jsonl without a limit

Look(r) ==
  /\ looked[r] = NoStat
  /\ looked' = [looked EXCEPT ![r] = Stat]
  /\ UNCHANGED <<file, written, cache, result, astray>>

\* Seeded defect: a file that is shorter than the offset is not read again.
ResetByInode(stat) == cache.inode # stat.inode

\* the entry is another file's, or the file is not where it was
Reset(stat) == \/ cache.inode # stat.inode
               \/ stat.size < cache.offset
               \/ stat.size = cache.offset /\ stat.mtime # cache.mtime

\* Seeded defect: a line that is not complete is forgotten instead of kept.
ExtendedForgetful(c) ==
  LET chunk == SubSeq(file.data, c.offset + 1, Len(file.data))
  IN [c EXCEPT !.records = @ \o LinesOf(chunk), !.offset = @ + Len(chunk),
               !.inode = file.inode, !.mtime = file.mtime]

\* what is behind the offset joins the pending bytes; whole lines become records
Extended(c) ==
  LET chunk == SubSeq(file.data, c.offset + 1, Len(file.data))
      data == c.pending \o chunk
      cut == IF data # <<>> /\ Last(data).half = 1 THEN Len(data) - 1 ELSE Len(data)
  IN [c EXCEPT !.records = @ \o LinesOf(SubSeq(data, 1, cut)),
               !.pending = SubSeq(data, cut + 1, Len(data)),
               !.offset = @ + Len(chunk), !.inode = file.inode, !.mtime = file.mtime]

\* under the lock of the cache: reset, then read if the stat() promised more
Load(r) ==
  /\ looked[r] # NoStat
  /\ LET c == IF Reset(looked[r]) THEN Empty(looked[r]) ELSE cache
     IN cache' = IF looked[r].size > c.offset THEN Extended(c) ELSE c
  /\ result' = [got |-> cache'.records,
                due |-> LinesOf(file.data)]
  /\ looked' = [looked EXCEPT ![r] = NoStat]
  /\ astray' = IF Reset(looked[r]) /\ astray = "cut" THEN "no" ELSE astray
  /\ UNCHANGED <<file, written>>

\* the file cannot be opened: what was known is returned, the entry stays as it was left
LoadFails(r) ==
  /\ looked[r] # NoStat
  /\ LET c == IF Reset(looked[r]) THEN Empty(looked[r]) ELSE cache
     IN looked[r].size > c.offset /\ cache' = c
  /\ looked' = [looked EXCEPT ![r] = NoStat]
  /\ astray' = IF Reset(looked[r]) /\ astray = "cut" THEN "no" ELSE astray
  /\ UNCHANGED <<file, written, result>>

\* more than 32 files were read since: the entry is dropped
Evict ==
  /\ cache # NoEntry /\ cache' = NoEntry
  /\ astray' = IF astray = "cut" THEN "no" ELSE astray
  /\ UNCHANGED <<file, written, looked, result>>

Next ==
  \/ Write \/ Replace \/ Truncate \/ Evict
  \/ \E r \in Readers : Look(r) \/ Load(r) \/ LoadFails(r)

Spec == Init /\ [][Next]_vars
----------------------------------------------------------------------------
(***************************************************************************)
(* Properties                                                              *)
(***************************************************************************)

\* What a call returns is the beginning of the history that the file holds, and all of
\* it when the cache has read to the end: no record is lost, doubled or glued together
\* however two threads and a writer in the middle of a line interleave, nor across a
\* truncation or replacement of the file (load_jsonl).  It is not promised when the file
\* changes under the same size and inode, or between the stat() and the open() of a call.
RecordsAreTheFile ==
  /\ astray # "yes" => IsPrefix(result.got, result.due)
  /\ astray = "no" /\ cache.inode = file.inode /\ cache.offset = Len(file.data)
       => cache.records = LinesOf(file.data)

(***************************************************************************)
(* The inductive invariant                                                 *)
(***************************************************************************)

\* A file is a run of lines, the last of which may lack its second half.
Halves == [line : Nat, half : {1, 2}]
Paired(bytes) ==
  \A i \in 1..Len(bytes) :
    /\ i % 2 = 1 => bytes[i].half = 1
    /\ i % 2 = 0 => bytes[i] = [line |-> bytes[i - 1].line, half |-> 2]
FirstLines(bytes, n) == [k \in 1..n |-> bytes[2 * k].line]

Types ==
  /\ file \in [inode : Nat, data : Seq(Halves), mtime : Nat]
  /\ file.inode > 0 /\ Paired(file.data)
  /\ written \in Nat /\ astray \in {"no", "cut", "yes"}
  /\ looked \in [Readers -> [inode : Nat, size : Nat, mtime : Nat]]

\* What a thread knows of the file was true of this file.
LooksAreOfTheFile ==
  \A r \in Readers : looked[r] # NoStat =>
    /\ looked[r].inode = file.inode
    /\ looked[r].size <= Len(file.data) /\ looked[r].mtime <= file.mtime

\* The entry is what a reader of the first offset halves knows.
EntryIsRead(c) ==
  /\ c.offset <= Len(file.data) /\ c.mtime <= file.mtime
  /\ c.records = FirstLines(file.data, c.offset \div 2)
  /\ c.pending = SubSeq(file.data, 2 * (c.offset \div 2) + 1, c.offset)

Entries == [inode : Nat, mtime : Nat, offset : Nat, pending : Seq(Halves), records : Seq(Nat)]

\* The entry is of an older file, or it is right, or whoever looks will find it cut.
EntryIsOfTheFile ==
  cache.inode = file.inode =>
    IF astray = "no" THEN EntryIsRead(cache)
    ELSE /\ Len(file.data) <= cache.offset /\ cache.mtime < file.mtime
         /\ \A r \in Readers : looked[r] # NoStat => looked[r].mtime > cache.mtime

IInv ==
  /\ Types
  /\ astray # "yes" => /\ cache \in Entries /\ cache.inode <= file.inode
                       /\ LooksAreOfTheFile /\ EntryIsOfTheFile
                       /\ IsPrefix(result.got, result.due)
=============================================================================
