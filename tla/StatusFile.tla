---------------------------- MODULE StatusFile ----------------------------
(***************************************************************************)
(* run_status.json as the file system sees it: writers that each write a   *)
(* temporary file and rename it over the target, readers that open and     *)
(* read the target.  Module RunLifecycle takes such a write as two atomic  *)
(* steps; this module looks inside, at names, inodes and the moment at     *)
(* which open() has truncated a file that is not yet written.              *)
(*                                                                         *)
(* Who shares a temporary name with whom is a constant.  The API threads   *)
(* (run_service.py and health.py, _write_json) all use                     *)
(* run_status.json.tmp; the launcher (launch.py, write_status) has         *)
(* run_status.tmp for itself.                                              *)
(***************************************************************************)
EXTENDS Integers, FiniteSets

CONSTANTS
  Writers,    \* threads and processes that write the file
  Readers,    \* threads and processes that read it
  Docs,       \* complete documents
  Inodes,     \* files, named or not
  Temporary,  \* the temporary name each writer uses
  Target,     \* the name run_status.json
  None        \* no inode, no document

VARIABLES
  names,      \* the directory: name -> inode, or None
  content,    \* inode -> document, Empty or Torn
  pc,         \* what each writer and reader has done
  file,       \* the inode each of them has open, or None
  doc,        \* the document each writer is writing, or None
  seen        \* what each reader read last

vars == <<names, content, pc, file, doc, seen>>

Empty == "empty"   \* truncated, not yet written
Torn == "torn"     \* the beginning of a document, or one over a longer one

Names == {Target} \cup {Temporary[w] : w \in Writers}
Users == Writers \cup Readers

ASSUME ConstantsOK ==
  /\ Writers \cap Readers = {}
  /\ Temporary \in [Writers -> Names \ {Target}]
  /\ None \notin Inodes \cup Docs
  /\ {Empty, Torn} \cap Docs = {}
  /\ Cardinality(Inodes) > Cardinality(Writers) + Cardinality(Readers)

Free(i) == /\ \A n \in Names : names[n] # i
           /\ \A u \in Users : file[u] # i

Init ==
  /\ \E i \in Inodes, d \in Docs :
       /\ names = [n \in Names |-> IF n = Target THEN i ELSE None]
       /\ content = [j \in Inodes |-> IF j = i THEN d ELSE Empty]
       /\ seen = [r \in Readers |-> d]
  /\ pc = [u \in Users |-> "idle"]
  /\ file = [u \in Users |-> None]
  /\ doc = [w \in Writers |-> None]

Goto(u, here, there) == pc[u] = here /\ pc' = [pc EXCEPT ![u] = there]
OpenFile(u, i) == file' = [file EXCEPT ![u] = i]
CloseFile(u) == file' = [file EXCEPT ![u] = None]

---------------------------------------------------------------------------
\* Seeded defect: an existing temporary file is overwritten, not truncated.
TruncateNot(w) ==
  LET temporary == Temporary[w] IN
  /\ Goto(w, "idle", "opened")
  /\ \E d \in Docs : doc' = [doc EXCEPT ![w] = d]
  /\ IF names[temporary] # None
     THEN OpenFile(w, names[temporary]) /\ UNCHANGED <<names, content>>
     ELSE \E i \in Inodes :
            /\ Free(i)
            /\ OpenFile(w, i)
            /\ names' = [names EXCEPT ![temporary] = i]
            /\ content' = [content EXCEPT ![i] = Empty]
  /\ UNCHANGED seen

(* temporary.write_text: open for writing creates or truncates the file.   *)
Truncate(w) ==
  LET temporary == Temporary[w] IN
  /\ Goto(w, "idle", "opened")
  /\ \E d \in Docs : doc' = [doc EXCEPT ![w] = d]
  /\ IF names[temporary] # None
     THEN /\ OpenFile(w, names[temporary])
          /\ content' = [content EXCEPT ![names[temporary]] = Empty]
          /\ UNCHANGED names
     ELSE \E i \in Inodes :
            /\ Free(i)
            /\ OpenFile(w, i)
            /\ names' = [names EXCEPT ![temporary] = i]
            /\ content' = [content EXCEPT ![i] = Empty]
  /\ UNCHANGED seen

(* ... and the text is written from the start of the file.                 *)
WriteText(w) ==
  LET i == file[w] IN
  /\ Goto(w, "opened", "written")
  /\ \E result \in {doc[w]} \cup (IF content[i] = Empty THEN {} ELSE {Torn}) :
       content' = [content EXCEPT ![i] = result]
  /\ CloseFile(w)
  /\ UNCHANGED <<names, doc, seen>>

\* Seeded defect: the file is renamed before it is written.
RenameEarly(w) ==
  /\ pc[w] \in {"opened", "written"}
  /\ pc' = [pc EXCEPT ![w] = "idle"]
  /\ IF names[Temporary[w]] = None THEN UNCHANGED names
     ELSE names' = [names EXCEPT ![Target] = names[Temporary[w]], ![Temporary[w]] = None]
  /\ doc' = [doc EXCEPT ![w] = None]
  /\ CloseFile(w)
  /\ UNCHANGED <<content, seen>>

(* temporary.replace(path): whatever file has the temporary name gets the  *)
(* target's; FileNotFoundError when it is gone.                            *)
Rename(w) ==
  /\ Goto(w, "written", "idle")
  /\ IF names[Temporary[w]] = None THEN UNCHANGED names
     ELSE names' = [names EXCEPT ![Target] = names[Temporary[w]], ![Temporary[w]] = None]
  /\ doc' = [doc EXCEPT ![w] = None]
  /\ UNCHANGED <<content, file, seen>>

(* The writing process is killed: its temporary file stays, with as much   *)
(* of the text as it had written.                                          *)
WriterDies(w) ==
  /\ pc[w] # "dead"
  /\ pc' = [pc EXCEPT ![w] = "dead"]
  /\ \/ UNCHANGED content
     \/ pc[w] = "opened" /\ content' = [content EXCEPT ![file[w]] = Torn]
  /\ doc' = [doc EXCEPT ![w] = None]
  /\ CloseFile(w)
  /\ UNCHANGED <<names, seen>>

(* It is started again: the dashboard, or a launcher of the same run.      *)
WriterRestarts(w) ==
  /\ Goto(w, "dead", "idle")
  /\ UNCHANGED <<names, content, file, doc, seen>>

---------------------------------------------------------------------------
(* path.read_text.                                                         *)
OpenTarget(r) ==
  /\ Goto(r, "idle", "opened")
  /\ OpenFile(r, names[Target])
  /\ UNCHANGED <<names, content, doc, seen>>

ReadText(r) ==
  /\ Goto(r, "opened", "idle")
  /\ seen' = [seen EXCEPT ![r] = content[file[r]]]
  /\ CloseFile(r)
  /\ UNCHANGED <<names, content, doc>>

Next ==
  \/ \E w \in Writers : \/ Truncate(w) \/ WriteText(w) \/ Rename(w)
                        \/ WriterDies(w) \/ WriterRestarts(w)
  \/ \E r \in Readers : OpenTarget(r) \/ ReadText(r)

Spec == Init /\ [][Next]_vars

---------------------------------------------------------------------------
(* No two writers use the same temporary name. *)
PrivateNames == \A v, w \in Writers : Temporary[v] = Temporary[w] => v = w

TypeOK ==
  /\ names \in [Names -> Inodes \cup {None}]
  /\ names[Target] # None
  /\ content \in [Inodes -> Docs \cup {Empty, Torn}]
  /\ pc \in [Users -> {"idle", "opened", "written", "dead"}]
  /\ file \in [Users -> Inodes \cup {None}]
  /\ doc \in [Writers -> Docs \cup {None}]
  /\ seen \in [Readers -> Docs \cup {Empty, Torn}]

(* "Atomically persist" (health.py 134): the file holds one whole document *)
(* at any moment, whoever is writing and wherever a writer was killed.     *)
FileIsWhole == content[names[Target]] \in Docs

(* A writer that has written its text renames that text: nobody has taken  *)
(* the temporary file away or put another one in its place.                *)
RenamesItsOwn ==
  \A w \in Writers : pc[w] = "written" =>
    names[Temporary[w]] # None /\ content[names[Temporary[w]]] = doc[w]

(* Readers and writers together implement an atomic document.  A reader's  *)
(* result is decided when it opens the file.                               *)
Implemented == INSTANCE AtomicDocument WITH
  document <- content[names[Target]],
  seen <- [r \in Readers |-> IF pc[r] = "opened" THEN content[file[r]] ELSE seen[r]]
AtomicReadsAndWrites == Implemented!Spec
===========================================================================
