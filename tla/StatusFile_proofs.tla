------------------------- MODULE StatusFile_proofs -------------------------
(***************************************************************************)
(* Writers that do not share temporary names implement an atomic document, *)
(* for any number of writers and readers, with writers killed anywhere.    *)
(* PrivateNames is a hypothesis of each theorem: of the API threads of the *)
(* code it is true only while one of them writes at a time.                *)
(***************************************************************************)
EXTENDS StatusFile, TLAPS

Types ==
  /\ names \in [Names -> Inodes \cup {None}]
  /\ content \in [Inodes -> Docs \cup {Empty, Torn}]
  /\ pc \in [Users -> {"idle", "opened", "written", "dead"}]
  /\ file \in [Users -> Inodes \cup {None}]
  /\ doc \in [Writers -> Docs \cup {None}]
  /\ seen \in [Readers -> Docs]

(* No inode has two names, and the target's is a whole document. *)
Directory ==
  /\ \A m, n \in Names : names[m] # None /\ names[m] = names[n] => m = n
  /\ names[Target] # None
  /\ content[names[Target]] \in Docs

(* A writer's temporary name is that of the file it has open or has        *)
(* written.                                                                *)
WriterOwnsTemporary ==
  \A w \in Writers :
    LET i == names[Temporary[w]] IN
    /\ pc[w] = "opened" => /\ i # None /\ file[w] = i
                           /\ content[i] = Empty /\ doc[w] \in Docs
    /\ pc[w] = "written" => /\ i # None
                            /\ content[i] = doc[w] /\ doc[w] \in Docs
    /\ pc[w] # "opened" => file[w] = None

(* The file a reader has open is whole and no writer's: it is, or was, the *)
(* target.                                                                 *)
ReaderHoldsWhole ==
  \A r \in Readers :
    /\ pc[r] = "opened" => /\ file[r] # None
                           /\ content[file[r]] \in Docs
                           /\ \A w \in Writers : names[Temporary[w]] # file[r]
    /\ pc[r] # "opened" => file[r] = None

IInv == Types /\ Directory /\ WriterOwnsTemporary /\ ReaderHoldsWhole

LEMMA NamesAndUsers ==
  /\ Target \in Names
  /\ \A w \in Writers : Temporary[w] \in Names /\ Temporary[w] # Target
  /\ \A w \in Writers : w \in Users /\ w \notin Readers
  /\ \A r \in Readers : r \in Users /\ r \notin Writers
BY ConstantsOK DEF Names, Users

(* What a step does to the abstract document and to what readers see. *)
Document == content[names[Target]]
Seen == [r \in Readers |-> IF pc[r] = "opened" THEN content[file[r]] ELSE seen[r]]

LEMMA InitIInv == Init => IInv
<1> SUFFICES ASSUME Init PROVE IInv
  OBVIOUS
<1> PICK i \in Inodes, d \in Docs :
           /\ names = [n \in Names |-> IF n = Target THEN i ELSE None]
           /\ content = [j \in Inodes |-> IF j = i THEN d ELSE Empty]
           /\ seen = [r \in Readers |-> d]
  BY DEF Init
<1>1. Types
  BY DEF Init, Types
<1>2. Directory
  BY NamesAndUsers, ConstantsOK DEF Directory
<1>3. WriterOwnsTemporary /\ ReaderHoldsWhole
  BY NamesAndUsers DEF Init, WriterOwnsTemporary, ReaderHoldsWhole
<1> QED
  BY <1>1, <1>2, <1>3 DEF IInv

---------------------------------------------------------------------------
(* A writer that touches its own temporary file, or a file that nobody     *)
(* knows, disturbs neither the target nor a reader nor another writer.     *)
LEMMA PrivateInode ==
  ASSUME IInv, PrivateNames, NEW w \in Writers, NEW i \in Inodes,
         names[Temporary[w]] = i
  PROVE  /\ names[Target] # i
         /\ \A v \in Writers \ {w} : names[Temporary[v]] # i
         /\ \A r \in Readers : pc[r] = "opened" => file[r] # i
BY NamesAndUsers, ConstantsOK
   DEF IInv, Directory, PrivateNames, ReaderHoldsWhole

LEMMA TruncateIInv ==
  ASSUME IInv, PrivateNames, NEW w \in Writers, Truncate(w)
  PROVE  IInv' /\ UNCHANGED <<Document, Seen>>
<1> DEFINE temporary == Temporary[w]
<1>1. PICK d \in Docs : doc' = [doc EXCEPT ![w] = d]
  BY DEF Truncate
<1>2. PICK i \in Inodes :
        /\ names' = [names EXCEPT ![temporary] = i]
        /\ content' = [content EXCEPT ![i] = Empty]
        /\ file' = [file EXCEPT ![w] = i]
        /\ names[Target] # i
        /\ \A v \in Writers \ {w} : names[Temporary[v]] # i
        /\ \A r \in Readers : pc[r] = "opened" => file[r] # i
  <2>1. CASE names[temporary] # None
    <3>1. names[temporary] \in Inodes
      BY <2>1, NamesAndUsers DEF IInv, Types
    <3>2. names = [names EXCEPT ![temporary] = names[temporary]]
      BY DEF IInv, Types
    <3> QED
      BY <2>1, <3>1, <3>2, PrivateInode DEF Truncate, OpenFile
  <2>2. CASE names[temporary] = None
    BY <2>2, NamesAndUsers DEF Truncate, OpenFile, Free
  <2> QED
    BY <2>1, <2>2
<1>3. /\ pc[w] = "idle"
      /\ pc' = [pc EXCEPT ![w] = "opened"]
      /\ UNCHANGED seen
  BY DEF Truncate, Goto
<1>4. /\ names'[temporary] = i
      /\ \A n \in Names \ {temporary} : names'[n] = names[n]
      /\ content'[i] = Empty
      /\ \A j \in Inodes \ {i} : content'[j] = content[j]
  BY <1>2, NamesAndUsers DEF IInv, Types
<1>5. \A n \in Names \ {temporary} : names[n] # i
  BY <1>2 DEF Names
<1>6. names[Target] \in Inodes
  BY NamesAndUsers DEF IInv, Types, Directory
<1>7. Types'
  BY <1>1, <1>2, <1>3 DEF IInv, Types
<1>8. Directory'
  <2>1. \A m, n \in Names : names'[m] # None /\ names'[m] = names'[n] => m = n
    BY <1>4, <1>5 DEF IInv, Directory
  <2>2. names'[Target] = names[Target] /\ content'[names'[Target]] = content[names[Target]]
    BY <1>2, <1>4, <1>6, NamesAndUsers
  <2> QED
    BY <2>1, <2>2 DEF IInv, Directory
<1>9. WriterOwnsTemporary'
  <2>1. \A v \in Writers \ {w} :
          /\ names'[Temporary[v]] = names[Temporary[v]]
          /\ names[Temporary[v]] # None =>
               content'[names[Temporary[v]]] = content[names[Temporary[v]]]
          /\ pc'[v] = pc[v] /\ file'[v] = file[v] /\ doc'[v] = doc[v]
    BY <1>1, <1>2, <1>3, <1>4, NamesAndUsers DEF PrivateNames, IInv, Types
  <2>2. pc'[w] = "opened" /\ file'[w] = i /\ doc'[w] = d
    BY <1>1, <1>2, <1>3, NamesAndUsers DEF IInv, Types
  <2>3. i # None
    BY ConstantsOK
  <2>4. \A v \in Writers \ {w} :
          /\ pc'[v] = "opened" => /\ names'[Temporary[v]] # None
                                  /\ file'[v] = names'[Temporary[v]]
                                  /\ content'[names'[Temporary[v]]] = Empty
                                  /\ doc'[v] \in Docs
          /\ pc'[v] = "written" => /\ names'[Temporary[v]] # None
                                   /\ content'[names'[Temporary[v]]] = doc'[v]
                                   /\ doc'[v] \in Docs
          /\ pc'[v] # "opened" => file'[v] = None
    BY <2>1 DEF IInv, WriterOwnsTemporary
  <2> QED
    BY <1>4, <2>2, <2>3, <2>4 DEF WriterOwnsTemporary
<1>10. \A r \in Readers :
         /\ pc'[r] = pc[r] /\ file'[r] = file[r]
         /\ pc[r] = "opened" => content'[file[r]] = content[file[r]]
  <2>1. \A r \in Readers : pc'[r] = pc[r] /\ file'[r] = file[r]
    BY <1>2, <1>3, NamesAndUsers DEF IInv, Types
  <2>2. \A r \in Readers : pc[r] = "opened" => file[r] \in Inodes \ {i}
    BY <1>2, NamesAndUsers DEF IInv, Types, ReaderHoldsWhole
  <2> QED
    BY <2>1, <2>2, <1>4
<1>11. ReaderHoldsWhole'
  <2>1. \A v \in Writers : names'[Temporary[v]] \in {i, names[Temporary[v]]}
    BY <1>4, NamesAndUsers
  <2> QED
    BY <1>2, <1>10, <2>1 DEF IInv, ReaderHoldsWhole
<1>12. UNCHANGED Document
  BY <1>2, <1>4, <1>6, NamesAndUsers DEF Document
<1>13. UNCHANGED Seen
  BY <1>3, <1>10 DEF Seen
<1> QED
  BY <1>7, <1>8, <1>9, <1>11, <1>12, <1>13 DEF IInv

(* A writer writes to, or dies leaving, the file of its temporary name.    *)
LEMMA WriteKeeps ==
  ASSUME IInv, PrivateNames, NEW w \in Writers, pc[w] = "opened",
         NEW result \in Docs \cup {Empty, Torn}, NEW next \in {"written", "dead"},
         pc' = [pc EXCEPT ![w] = next],
         content' = [content EXCEPT ![file[w]] = result],
         next = "written" => result = doc[w] /\ UNCHANGED doc,
         doc' \in [Writers -> Docs \cup {None}],
         \A v \in Writers \ {w} : doc'[v] = doc[v],
         file' = [file EXCEPT ![w] = None],
         UNCHANGED <<names, seen>>
  PROVE  IInv' /\ UNCHANGED <<Document, Seen>>
<1> DEFINE i == file[w]
<1>1. i \in Inodes /\ names[Temporary[w]] = i /\ doc[w] \in Docs
  BY NamesAndUsers, ConstantsOK DEF IInv, Types, WriterOwnsTemporary
<1> HIDE DEF i
<1>2. content' = [content EXCEPT ![i] = result]
  BY DEF i
<1>3. /\ names[Target] # i
      /\ \A v \in Writers \ {w} : names[Temporary[v]] # i
      /\ \A r \in Readers : pc[r] = "opened" => file[r] # i
  BY <1>1, PrivateInode
<1>4. /\ content'[i] = result
      /\ \A j \in Inodes \ {i} : content'[j] = content[j]
  BY <1>1, <1>2 DEF IInv, Types
<1>5. names[Target] \in Inodes
  BY NamesAndUsers DEF IInv, Types, Directory
<1>6. Types'
  BY <1>1, <1>2 DEF IInv, Types
<1>7. Directory' /\ UNCHANGED Document
  BY <1>3, <1>4, <1>5 DEF IInv, Directory, Document
<1>8. WriterOwnsTemporary'
  <2>1. \A v \in Writers \ {w} :
          /\ names[Temporary[v]] # None =>
               content'[names[Temporary[v]]] = content[names[Temporary[v]]]
          /\ pc'[v] = pc[v] /\ file'[v] = file[v] /\ doc'[v] = doc[v]
    BY <1>3, <1>4, NamesAndUsers DEF IInv, Types
  <2>2. pc'[w] = next /\ file'[w] = None
    BY NamesAndUsers DEF IInv, Types
  <2>3. i # None
    BY <1>1, ConstantsOK
  <2>4. \A v \in Writers \ {w} :
          /\ pc'[v] = "opened" => /\ names'[Temporary[v]] # None
                                  /\ file'[v] = names'[Temporary[v]]
                                  /\ content'[names'[Temporary[v]]] = Empty
                                  /\ doc'[v] \in Docs
          /\ pc'[v] = "written" => /\ names'[Temporary[v]] # None
                                   /\ content'[names'[Temporary[v]]] = doc'[v]
                                   /\ doc'[v] \in Docs
          /\ pc'[v] # "opened" => file'[v] = None
    BY <2>1 DEF IInv, WriterOwnsTemporary
  <2> QED
    BY <1>1, <1>4, <2>2, <2>3, <2>4 DEF WriterOwnsTemporary
<1>9. \A r \in Readers :
        /\ pc'[r] = pc[r] /\ file'[r] = file[r]
        /\ pc[r] = "opened" => content'[file[r]] = content[file[r]]
  <2>1. \A r \in Readers : pc'[r] = pc[r] /\ file'[r] = file[r]
    BY NamesAndUsers DEF IInv, Types
  <2>2. \A r \in Readers : pc[r] = "opened" => file[r] \in Inodes \ {i}
    BY <1>3, NamesAndUsers DEF IInv, Types, ReaderHoldsWhole
  <2> QED
    BY <2>1, <2>2, <1>4
<1>10. ReaderHoldsWhole'
  BY <1>9 DEF IInv, ReaderHoldsWhole
<1>11. UNCHANGED Seen
  BY <1>9 DEF Seen
<1> QED
  BY <1>6, <1>7, <1>8, <1>10, <1>11 DEF IInv

LEMMA WriteTextIInv ==
  ASSUME IInv, PrivateNames, NEW w \in Writers, WriteText(w)
  PROVE  IInv' /\ UNCHANGED <<Document, Seen>>
<1>1. content[file[w]] = Empty /\ doc[w] \in Docs
  BY DEF WriteText, Goto, IInv, WriterOwnsTemporary
<1>2. content' = [content EXCEPT ![file[w]] = doc[w]]
  BY <1>1 DEF WriteText
<1> QED
  BY <1>1, <1>2, WriteKeeps DEF WriteText, Goto, CloseFile, IInv, Types

(* A writer that is not in the middle of a file stops, or starts again. *)
LEMMA StopsOrStarts ==
  ASSUME IInv, NEW w \in Writers, NEW next \in {"idle", "dead"},
         pc' = [pc EXCEPT ![w] = next],
         doc' \in [Writers -> Docs \cup {None}],
         \A v \in Writers \ {w} : doc'[v] = doc[v],
         file' = [file EXCEPT ![w] = None],
         UNCHANGED <<names, content, seen>>
  PROVE  IInv' /\ UNCHANGED <<Document, Seen>>
<1>1. /\ pc'[w] = next /\ file'[w] = None
      /\ \A u \in Users \ {w} : pc'[u] = pc[u] /\ file'[u] = file[u]
  BY NamesAndUsers DEF IInv, Types
<1>2. Types' /\ Directory'
  BY DEF IInv, Types, Directory
<1>3. WriterOwnsTemporary'
  BY <1>1, NamesAndUsers DEF IInv, WriterOwnsTemporary
<1>4. ReaderHoldsWhole'
  BY <1>1, NamesAndUsers DEF IInv, ReaderHoldsWhole
<1>5. UNCHANGED <<Document, Seen>>
  BY <1>1, NamesAndUsers DEF Document, Seen
<1> QED
  BY <1>2, <1>3, <1>4, <1>5 DEF IInv

LEMMA WriterDiesIInv ==
  ASSUME IInv, PrivateNames, NEW w \in Writers, WriterDies(w)
  PROVE  IInv' /\ UNCHANGED <<Document, Seen>>
<1>1. /\ pc' = [pc EXCEPT ![w] = "dead"]
      /\ doc' \in [Writers -> Docs \cup {None}]
      /\ \A v \in Writers \ {w} : doc'[v] = doc[v]
      /\ file' = [file EXCEPT ![w] = None]
      /\ UNCHANGED <<names, seen>>
  BY DEF WriterDies, CloseFile, IInv, Types
<1>2. CASE UNCHANGED content
  BY <1>1, <1>2, StopsOrStarts
<1>3. CASE pc[w] = "opened" /\ content' = [content EXCEPT ![file[w]] = Torn]
  BY <1>1, <1>3, WriteKeeps
<1> QED
  BY <1>2, <1>3 DEF WriterDies

LEMMA WriterRestartsIInv ==
  ASSUME IInv, NEW w \in Writers, WriterRestarts(w)
  PROVE  IInv' /\ UNCHANGED <<Document, Seen>>
<1>1. file[w] = None /\ file' = file
  BY DEF WriterRestarts, Goto, IInv, WriterOwnsTemporary
<1>2. file' = [file EXCEPT ![w] = None]
  BY <1>1 DEF IInv, Types
<1> QED
  BY <1>2, StopsOrStarts DEF WriterRestarts, Goto, IInv, Types

(* The rename is the moment at which the document is replaced. *)
LEMMA RenameIInv ==
  ASSUME IInv, PrivateNames, NEW w \in Writers, Rename(w)
  PROVE  IInv' /\ Document' \in Docs /\ UNCHANGED Seen
<1> DEFINE temporary == Temporary[w]
           i == names[temporary]
<1>1. /\ i \in Inodes
      /\ content[i] \in Docs
  BY NamesAndUsers, ConstantsOK DEF Rename, Goto, IInv, Types, WriterOwnsTemporary
<1>2. /\ names' = [names EXCEPT ![Target] = i, ![temporary] = None]
      /\ pc' = [pc EXCEPT ![w] = "idle"]
      /\ doc' = [doc EXCEPT ![w] = None]
      /\ UNCHANGED <<content, file, seen>>
  BY <1>1, ConstantsOK DEF Rename, Goto
<1>3. /\ names'[Target] = i /\ names'[temporary] = None
      /\ \A n \in Names \ {Target, temporary} : names'[n] = names[n]
  BY <1>2, NamesAndUsers DEF IInv, Types
<1>4. /\ pc'[w] = "idle"
      /\ \A u \in Users \ {w} : pc'[u] = pc[u]
  BY <1>2, NamesAndUsers DEF IInv, Types
<1>5. Types'
  BY <1>1, <1>2 DEF IInv, Types
<1>6. Directory'
  <2>1. \A m, n \in Names : names'[m] # None /\ names'[m] = names'[n] => m = n
    BY <1>1, <1>3, NamesAndUsers DEF IInv, Directory
  <2> QED
    BY <1>1, <1>2, <1>3, <2>1, ConstantsOK DEF Directory
<1>7. \A v \in Writers \ {w} :
        names'[Temporary[v]] = names[Temporary[v]] /\ doc'[v] = doc[v] /\ pc'[v] = pc[v]
  BY <1>2, <1>3, <1>4, NamesAndUsers DEF PrivateNames, IInv, Types
<1>8. WriterOwnsTemporary'
  <2>1. file[w] = None
    BY DEF Rename, Goto, IInv, WriterOwnsTemporary
  <2>2. UNCHANGED <<content, file>>
    BY <1>2
  <2>3. \A v \in Writers \ {w} :
          /\ pc'[v] = "opened" => /\ names'[Temporary[v]] # None
                                  /\ file'[v] = names'[Temporary[v]]
                                  /\ content'[names'[Temporary[v]]] = Empty
                                  /\ doc'[v] \in Docs
          /\ pc'[v] = "written" => /\ names'[Temporary[v]] # None
                                   /\ content'[names'[Temporary[v]]] = doc'[v]
                                   /\ doc'[v] \in Docs
          /\ pc'[v] # "opened" => file'[v] = None
    BY <1>7, <2>2 DEF IInv, WriterOwnsTemporary
  <2> QED
    BY <1>4, <2>1, <2>2, <2>3 DEF WriterOwnsTemporary
<1>9. ReaderHoldsWhole'
  <2>1. \A r \in Readers : pc'[r] = pc[r] /\ file'[r] = file[r]
    BY <1>2, <1>4, NamesAndUsers
  <2>2. \A v \in Writers : names'[Temporary[v]] \in {None, names[Temporary[v]]}
    BY <1>3, <1>7
  <2>3. UNCHANGED content
    BY <1>2
  <2> SUFFICES ASSUME NEW r \in Readers
               PROVE  /\ pc[r] = "opened" =>
                           /\ file[r] # None
                           /\ content[file[r]] \in Docs
                           /\ \A v \in Writers : names'[Temporary[v]] # file[r]
                      /\ pc[r] # "opened" => file[r] = None
    BY <2>1, <2>3 DEF ReaderHoldsWhole
  <2> QED
    BY <2>2 DEF IInv, ReaderHoldsWhole
<1>10. Document' \in Docs
  BY <1>1, <1>2, <1>3 DEF Document
<1>11. UNCHANGED Seen
  BY <1>2, <1>4, NamesAndUsers DEF Seen
<1> QED
  BY <1>5, <1>6, <1>8, <1>9, <1>10, <1>11 DEF IInv

(* The opening of the target is the moment at which it is read. *)
LEMMA OpenTargetIInv ==
  ASSUME IInv, NEW r \in Readers, OpenTarget(r)
  PROVE  IInv' /\ UNCHANGED Document /\ Seen' = [Seen EXCEPT ![r] = Document]
<1>1. /\ pc' = [pc EXCEPT ![r] = "opened"]
      /\ file' = [file EXCEPT ![r] = names[Target]]
      /\ UNCHANGED <<names, content, doc, seen>>
  BY DEF OpenTarget, Goto, OpenFile
<1>2. /\ pc'[r] = "opened" /\ file'[r] = names[Target]
      /\ \A u \in Users \ {r} : pc'[u] = pc[u] /\ file'[u] = file[u]
  BY <1>1, NamesAndUsers DEF IInv, Types
<1>3. Types' /\ Directory'
  BY <1>1, NamesAndUsers DEF IInv, Types, Directory
<1>4. WriterOwnsTemporary'
  BY <1>1, <1>2, NamesAndUsers DEF IInv, WriterOwnsTemporary
<1>5. ReaderHoldsWhole'
  <2>1. \A w \in Writers : names[Temporary[w]] # names[Target]
    BY NamesAndUsers DEF IInv, Directory
  <2> QED
    BY <1>1, <1>2, <2>1, NamesAndUsers DEF IInv, Directory, ReaderHoldsWhole
<1>6. UNCHANGED Document
  BY <1>1 DEF Document
<1>7. Seen' = [Seen EXCEPT ![r] = Document]
  <2>1. \A q \in Readers \ {r} : pc'[q] = pc[q] /\ file'[q] = file[q] /\ seen'[q] = seen[q]
    BY <1>1, <1>2, NamesAndUsers
  <2>2. content'[file'[r]] = Document
    BY <1>1, <1>2 DEF Document
  <2>3. Seen' = [q \in Readers |-> IF pc'[q] = "opened" THEN content'[file'[q]] ELSE seen'[q]]
    BY DEF Seen
  <2>4. \A q \in Readers : Seen'[q] = IF q = r THEN Document ELSE Seen[q]
    BY <1>1, <1>2, <2>1, <2>2, <2>3 DEF Seen
  <2> QED
    BY <2>3, <2>4 DEF Seen
<1> QED
  BY <1>7, <1>3, <1>4, <1>5, <1>6 DEF IInv

LEMMA ReadTextIInv ==
  ASSUME IInv, NEW r \in Readers, ReadText(r)
  PROVE  IInv' /\ UNCHANGED <<Document, Seen>>
<1>1. /\ pc[r] = "opened"
      /\ pc' = [pc EXCEPT ![r] = "idle"]
      /\ seen' = [seen EXCEPT ![r] = content[file[r]]]
      /\ file' = [file EXCEPT ![r] = None]
      /\ UNCHANGED <<names, content, doc>>
  BY DEF ReadText, Goto, CloseFile
<1>2. content[file[r]] \in Docs
  BY <1>1 DEF IInv, ReaderHoldsWhole
<1>3. /\ pc'[r] = "idle" /\ file'[r] = None
      /\ \A u \in Users \ {r} : pc'[u] = pc[u] /\ file'[u] = file[u]
  BY <1>1, NamesAndUsers DEF IInv, Types
<1>4. Types' /\ Directory'
  BY <1>1, <1>2 DEF IInv, Types, Directory
<1>5. WriterOwnsTemporary' /\ ReaderHoldsWhole'
  BY <1>1, <1>3, NamesAndUsers DEF IInv, WriterOwnsTemporary, ReaderHoldsWhole
<1>6. UNCHANGED <<Document, Seen>>
  <2>1. \A q \in Readers : seen'[q] = IF q = r THEN content[file[r]] ELSE seen[q]
    BY <1>1 DEF IInv, Types
  <2> QED
    BY <1>1, <1>3, <2>1, NamesAndUsers DEF Document, Seen
<1> QED
  BY <1>4, <1>5, <1>6 DEF IInv

---------------------------------------------------------------------------
(* Every step replaces the document, reads it, or changes neither the      *)
(* document nor what a reader has or will have seen.                       *)
LEMMA StepRefines ==
  ASSUME IInv, PrivateNames, [Next]_vars
  PROVE  /\ IInv'
         /\ \/ Document' \in Docs /\ UNCHANGED Seen
            \/ \E r \in Readers : UNCHANGED Document /\ Seen' = [Seen EXCEPT ![r] = Document]
            \/ UNCHANGED <<Document, Seen>>
<1>1. CASE \E w \in Writers : Truncate(w)
  BY <1>1, TruncateIInv
<1>2. CASE \E w \in Writers : WriteText(w)
  BY <1>2, WriteTextIInv
<1>3. CASE \E w \in Writers : Rename(w)
  BY <1>3, RenameIInv
<1>4. CASE \E w \in Writers : WriterDies(w)
  BY <1>4, WriterDiesIInv
<1>5. CASE \E w \in Writers : WriterRestarts(w)
  BY <1>5, WriterRestartsIInv
<1>6. CASE \E r \in Readers : OpenTarget(r)
  BY <1>6, OpenTargetIInv
<1>7. CASE \E r \in Readers : ReadText(r)
  BY <1>7, ReadTextIInv
<1>8. CASE UNCHANGED vars
  BY <1>8 DEF vars, IInv, Types, Directory, WriterOwnsTemporary, ReaderHoldsWhole,
     Document, Seen
<1> QED
  BY <1>1, <1>2, <1>3, <1>4, <1>5, <1>6, <1>7, <1>8 DEF Next

THEOREM Inductive ==
  ASSUME PrivateNames
  PROVE  Spec => []IInv
<1>1. Init => IInv
  BY InitIInv
<1>2. IInv /\ [Next]_vars => IInv'
  BY StepRefines
<1> QED
  BY <1>1, <1>2, PTL DEF Spec

(* Writers with temporary names of their own never leave the status file   *)
(* empty, torn or missing, wherever they are killed (health.py 134,        *)
(* launch.py write_status).                                                *)
THEOREM Whole ==
  ASSUME PrivateNames
  PROVE  Spec => []FileIsWhole
<1>1. IInv => FileIsWhole
  BY DEF IInv, Directory, FileIsWhole
<1> QED
  BY <1>1, Inductive, PTL

(* ... and what they have written is what they rename. *)
THEOREM OwnRenamed ==
  ASSUME PrivateNames
  PROVE  Spec => []RenamesItsOwn
<1>1. IInv => RenamesItsOwn
  BY DEF IInv, WriterOwnsTemporary, RenamesItsOwn
<1> QED
  BY <1>1, Inductive, PTL

(* Readers and writers together implement an atomic document: write_text   *)
(* and replace of _write_json are one write, read_text is one read.        *)
THEOREM Refines ==
  ASSUME PrivateNames
  PROVE  Spec => AtomicReadsAndWrites
<1>1. Init => Implemented!Init
  <2> SUFFICES ASSUME Init PROVE Implemented!Init
    OBVIOUS
  <2> PICK i \in Inodes, d \in Docs :
             /\ names = [n \in Names |-> IF n = Target THEN i ELSE None]
             /\ content = [j \in Inodes |-> IF j = i THEN d ELSE Empty]
             /\ seen = [r \in Readers |-> d]
    BY DEF Init
  <2>1. content[names[Target]] = d
    BY NamesAndUsers
  <2>2. \A r \in Readers : pc[r] = "idle" /\ seen[r] = d
    BY NamesAndUsers DEF Init
  <2> QED
    BY <2>1, <2>2 DEF Implemented!Init
<1>2. IInv /\ [Next]_vars => [Implemented!Next]_<<Document, Seen>>
  BY StepRefines DEF Implemented!Next, Implemented!Replace, Implemented!Read, Document, Seen
<1> QED
  BY <1>1, <1>2, Inductive, PTL
  DEF Spec, AtomicReadsAndWrites, Implemented!Spec, Document, Seen
===========================================================================
