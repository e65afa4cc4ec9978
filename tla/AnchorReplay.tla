---------------------------- MODULE AnchorReplay ----------------------------
(***************************************************************************)
(* The corpus of reference actions that keeps a fine-tuned policy near its *)
(* teacher (src/ascento_mjlab/retention_replay.py and                      *)
(* scripts/collect_anchor_replay.py).  Collectors evaluate a checkpoint    *)
(* and publish an array file and its manifest by two renames; a training   *)
(* run reads both.  The teacher's checkpoint may be saved again meanwhile, *)
(* and a collector may be killed between any two steps.  A version stands  *)
(* for a checkpoint's content and its digest.                              *)
(***************************************************************************)
EXTENDS Naturals

CONSTANTS Collectors,
          MaxVersion  \* bound: versions of the teacher's checkpoint

VARIABLES teacher,    \* the version of the checkpoint file
          collector,  \* per collector: its step and what it has recorded
          arrays,     \* the array file: who wrote it, from which version
          manifest,   \* the manifest beside it
          reader      \* a training run that loads the corpus

vars == <<teacher, collector, arrays, manifest, reader>>

None == [by |-> "none", taught |-> 0]
NoManifest == [by |-> "none", evaluated |-> 0, source |-> 0]

Init == /\ teacher = 1
        /\ collector = [c \in Collectors |-> [pc |-> "start", taught |-> 0, source |-> 0]]
        /\ arrays = None /\ manifest = NoManifest
        /\ reader = [pc |-> "start", manifest |-> NoManifest, arrays |-> None]

(* Training saves the checkpoint under the same name again.                *)
SaveTeacher == /\ teacher < MaxVersion
               /\ teacher' = teacher + 1
               /\ UNCHANGED <<collector, arrays, manifest, reader>>

At(c, pc) == collector[c].pc = pc
Goto(c, pc) == collector' = [collector EXCEPT ![c].pc = pc]

(* main refuses to overwrite a corpus, long before collect writes one; the *)
(* evaluation loads the checkpoint, records its actions and its digest.    *)
Collect(c) == /\ At(c, "start")
              /\ arrays.by = "none" /\ manifest.by = "none"
              /\ collector' = [collector EXCEPT ![c] =
                                 [pc |-> "evaluated", taught |-> teacher, source |-> 0]]
              /\ UNCHANGED <<teacher, arrays, manifest, reader>>

Refuse(c) == /\ At(c, "start")
             /\ arrays.by # "none" \/ manifest.by # "none"
             /\ Goto(c, "ended")
             /\ UNCHANGED <<teacher, arrays, manifest, reader>>

(* The checkpoint is hashed and read once more for the manifest; a failed  *)
(* gate or a missing contract ends the collection instead.                 *)
Describe(c) == /\ At(c, "evaluated")
               /\ \/ collector' = [collector EXCEPT ![c].pc = "described",
                                                    ![c].source = teacher]
                  \/ Goto(c, "ended")
               /\ UNCHANGED <<teacher, arrays, manifest, reader>>

(* save_anchor_replay, after both files are complete beside their names:   *)
(* the arrays are renamed into place, then the manifest.                   *)
PublishArrays(c) == /\ At(c, "described")
                    /\ arrays' = [by |-> c, taught |-> collector[c].taught]
                    /\ Goto(c, "half")
                    /\ UNCHANGED <<teacher, manifest, reader>>

PublishManifest(c) == /\ At(c, "half")
                      /\ manifest' = [by |-> c, evaluated |-> collector[c].taught,
                                      source |-> collector[c].source]
                      /\ Goto(c, "ended")
                      /\ UNCHANGED <<teacher, arrays, reader>>

Kill(c) == /\ ~At(c, "ended")
           /\ Goto(c, "ended")
           /\ UNCHANGED <<teacher, arrays, manifest, reader>>

(* load_anchor_replay: both files must exist; the manifest is read first.  *)
ReadManifest == /\ reader.pc = "start"
                /\ arrays.by # "none" /\ manifest.by # "none"
                /\ reader' = [reader EXCEPT !.pc = "read", !.manifest = manifest]
                /\ UNCHANGED <<teacher, collector, arrays, manifest>>

\* Seeded defect: the digest of the arrays is not compared.
LoadUnchecked == /\ reader.pc = "read"
                 /\ reader' = [reader EXCEPT !.arrays = arrays, !.pc = "loaded"]
                 /\ UNCHANGED <<teacher, collector, arrays, manifest>>

(* The arrays are read, and must have the digest the manifest gives.       *)
Load == /\ reader.pc = "read"
        /\ reader' = [reader EXCEPT
             !.arrays = arrays,
             !.pc = IF arrays.by = reader.manifest.by THEN "loaded" ELSE "refused"]
        /\ UNCHANGED <<teacher, collector, arrays, manifest>>

Next == \/ SaveTeacher \/ ReadManifest \/ Load
        \/ \E c \in Collectors : \/ Collect(c) \/ Refuse(c) \/ Describe(c)
                                 \/ PublishArrays(c) \/ PublishManifest(c) \/ Kill(c)

Spec == Init /\ [][Next]_vars

-----------------------------------------------------------------------------
TypeOK == /\ teacher \in 1..MaxVersion
          /\ arrays \in [by : Collectors \cup {"none"}, taught : 0..MaxVersion]
          /\ reader.pc \in {"start", "read", "loaded", "refused"}

(* Whatever collectors raced or died, a corpus a run trains on is whole:   *)
(* the arrays are the ones their manifest describes, and the checkpoint    *)
(* the manifest says was evaluated is the one that produced the actions.   *)
(* (Its source_checkpoint_sha256 promises no such thing: the file is       *)
(* hashed after the evaluation and compared with nothing.)                 *)
LoadedCorpusIsWhole ==
  reader.pc = "loaded" => /\ reader.arrays.by = reader.manifest.by
                          /\ reader.arrays.taught = reader.manifest.evaluated

(***************************************************************************)
(* The inductive invariant                                                 *)
(***************************************************************************)

(* Collect fixes what a collector has recorded, and only Kill touches one  *)
(* that has published something; so a file agrees for ever with the record *)
(* of the collector it is from.                                            *)
Taught(c) == collector[c].taught
Published(c) == collector[c].pc \in {"half", "ended"}

Types ==
  /\ teacher \in Nat
  /\ collector \in [Collectors -> [pc : {"start", "evaluated", "described", "half", "ended"},
                                   taught : Nat, source : Nat]]

FilesAreOfTheirCollectors ==
  /\ arrays.by # "none" => /\ arrays.by \in Collectors /\ Published(arrays.by)
                           /\ arrays.taught = Taught(arrays.by)
  /\ manifest.by # "none" => /\ manifest.by \in Collectors /\ Published(manifest.by)
                             /\ manifest.evaluated = Taught(manifest.by)

ReaderHasOneCorpus ==
  /\ reader.pc \in {"start", "read", "loaded", "refused"}
  /\ reader.pc # "start" => /\ reader.manifest.by \in Collectors
                            /\ Published(reader.manifest.by)
                            /\ reader.manifest.evaluated = Taught(reader.manifest.by)
  /\ reader.pc = "loaded" => /\ reader.arrays.by = reader.manifest.by
                             /\ reader.arrays.taught = Taught(reader.manifest.by)

IInv == Types /\ FilesAreOfTheirCollectors /\ ReaderHasOneCorpus
=============================================================================
