----------------------------- MODULE RunLineage -----------------------------
(***************************************************************************)
(* What a run says about where it comes from: run_metadata.json, the commit *)
(* in run_status.json, experiment_manifest.json, the _resume_parent link,   *)
(* and the sidecar maintenance leaves beside runs without a commit          *)
(* (dashboard/launch.py, run_service.py, versioning.py,                     *)
(* scripts/stamp_run_provenance.py).  The code under the launchers may be   *)
(* updated at any time, a user edits metadata, and two launchers may end up *)
(* in one directory: a directory is named by the second it is created in,   *)
(* and found empty before it is made.                                       *)
(***************************************************************************)
EXTENDS Integers, Sequences, FiniteSets

CONSTANTS
    Launchers,
    Dirs,         \* names new run directories may take
    Parents,      \* runs that exist already, each with one checkpoint
    MaxVersion,   \* bound: versions of the code; a commit and its contracts
    MaxSaves      \* bound: checkpoints of one trainer

VARIABLES
    code,         \* the version checked out
    parent,       \* contract of each parent's checkpoint
    launcher,     \* per launcher: progress, directory, parent, trainer
    metadata,     \* per directory: run_id of run_metadata.json
    recorded,     \* per directory: git_commit of run_status.json
    sidecar,      \* per directory: repository_provenance.json
    manifest,     \* per directory: experiment_manifest.json
    link,         \* per directory: where _resume_parent points
    saved,        \* per directory: checkpoints, oldest first
    edit          \* update_metadata: the document it has read

vars == <<code, parent, launcher, metadata, recorded, sidecar, manifest, link, saved,
          edit>>
documents == <<metadata, recorded, sidecar, manifest, link, saved>>

None == -1
Unreadable == -2
Versions == 0..MaxVersion
Checkpoints == [number : 0..(2 * MaxSaves), contract : Versions \cup {Unreadable}]
NoCheckpoint == [number |-> None, contract |-> None]
Manifests == [contract : Versions, launch : Versions \cup {None},
              latest : Checkpoints \cup {NoCheckpoint}]
NoManifest == [contract |-> None, launch |-> None, latest |-> NoCheckpoint]
NoEdit == [dir |-> None, copy |-> None]
Stages == {"idle", "created", "admitted", "checked", "linked", "described", "recorded", "ready",
           "training", "exited", "done", "refused"}

Progress == [at : Stages, dir : Dirs \cup {None}, from : Parents \cup {None},
             began : Versions \cup {None}, trainer : Versions \cup {None},
             loaded : Parents \cup {None}, saves : 0..MaxSaves]

TypeOK ==
    /\ code \in Versions
    /\ parent \in [Parents -> Versions]
    /\ launcher \in [Launchers -> Progress]
    /\ metadata \in [Dirs -> Launchers \cup {None}]
    /\ recorded \in [Dirs -> Versions \cup {None}]
    /\ sidecar \in [Dirs -> Versions \cup {None}]
    /\ manifest \in [Dirs -> Manifests \cup {NoManifest}]
    /\ link \in [Dirs -> Parents \cup {None}]
    /\ saved \in [Dirs -> Seq(Checkpoints)]
    /\ edit \in [dir : Dirs, copy : Launchers] \cup {NoEdit}

Init ==
    /\ code = 0
    /\ parent \in [Parents -> Versions]
    /\ launcher = [l \in Launchers |-> [at |-> "idle", dir |-> None, from |-> None,
                                        began |-> None, trainer |-> None,
                                        loaded |-> None, saves |-> 0]]
    /\ metadata = [d \in Dirs |-> None]
    /\ recorded = [d \in Dirs |-> None] /\ sidecar = [d \in Dirs |-> None]
    /\ manifest = [d \in Dirs |-> NoManifest] /\ link = [d \in Dirs |-> None]
    /\ saved = [d \in Dirs |-> <<>>]
    /\ edit = NoEdit

At(l, stage) == launcher[l].at = stage
Dir(l) == launcher[l].dir
Resumes(l) == launcher[l].from # None
Goto(l, stage) == launcher' = [launcher EXCEPT ![l].at = stage]

-----------------------------------------------------------------------------
(* The launcher, before the trainer.                                       *)

\* RunService.create makes a new directory and its first metadata, then starts
\* the launcher.
Create(l) ==
    /\ At(l, "idle")
    /\ \E d \in Dirs, p \in Parents \cup {None} :
         /\ \A m \in Launchers : Dir(m) # d
         /\ launcher' = [launcher EXCEPT ![l].at = "created", ![l].dir = d, ![l].from = p]
         /\ metadata' = [metadata EXCEPT ![d] = l]
    /\ UNCHANGED <<code, parent, recorded, sidecar, manifest, link, saved, edit>>

\* A launcher started by the service finds exactly the two files of the service
\* (maintenance may have added a third); one started by hand finds the
\* directory missing or empty, then makes it.
Admit(l) ==
    /\ \/ /\ At(l, "created")
          /\ Goto(l, IF sidecar[Dir(l)] = None THEN "admitted" ELSE "refused")
       \/ /\ At(l, "idle")
          /\ \E d \in Dirs, p \in Parents \cup {None} :
               /\ metadata[d] = None /\ link[d] = None
               /\ launcher' = [launcher EXCEPT ![l].at = "admitted", ![l].dir = d,
                                               ![l].from = p]
    /\ UNCHANGED <<code, parent, documents, edit>>

\* _validate_parent_checkpoint: the checkpoint has the contracts of the code (one
\* that cannot be read or has none counts as another version's).
Compatible(p) == parent[p] = code

\* A run that does not resume is not asked.
CheckParent(l) ==
    /\ At(l, "admitted")
    /\ \/ ~Resumes(l) /\ Goto(l, "linked")
       \/ Resumes(l) /\ Compatible(launcher[l].from) /\ Goto(l, "checked")
       \/ Resumes(l) /\ ~Compatible(launcher[l].from) /\ Goto(l, "refused")
    /\ UNCHANGED <<code, parent, documents, edit>>

\* Seeded defect: a link that is already there is good enough.
LinkParentUnless(l) ==
    /\ At(l, "checked")
    /\ link' = [link EXCEPT ![Dir(l)] = IF @ = None THEN launcher[l].from ELSE @]
    /\ Goto(l, "linked")
    /\ UNCHANGED <<code, parent, metadata, recorded, sidecar, manifest, saved, edit>>

\* The link is created, never replaced.
LinkParent(l) ==
    /\ At(l, "checked")
    /\ \/ link[Dir(l)] # None /\ Goto(l, "refused") /\ UNCHANGED link
       \/ /\ link[Dir(l)] = None /\ Goto(l, "linked")
          /\ link' = [link EXCEPT ![Dir(l)] = launcher[l].from]
    /\ UNCHANGED <<code, parent, metadata, recorded, sidecar, manifest, saved, edit>>

\* write_metadata merges into what is there; these fields are its own.
Describe(l) ==
    /\ At(l, "linked") /\ Goto(l, "described")
    /\ metadata' = [metadata EXCEPT ![Dir(l)] = l]
    /\ UNCHANGED <<code, parent, recorded, sidecar, manifest, link, saved, edit>>

\* The first status of the launcher, with the commit of its checkout.
Record(l) ==
    /\ At(l, "described") /\ Goto(l, "recorded")
    /\ recorded' = [recorded EXCEPT ![Dir(l)] = code]
    /\ UNCHANGED <<code, parent, metadata, sidecar, manifest, link, saved, edit>>

\* The contracts are those of the modules this process has imported.
WriteManifest(l) ==
    /\ At(l, "recorded")
    /\ launcher' = [launcher EXCEPT ![l].at = "ready", ![l].began = code]
    /\ manifest' = [manifest EXCEPT ![Dir(l)] =
                      [contract |-> code, launch |-> @.launch, latest |-> NoCheckpoint]]
    /\ UNCHANGED <<code, parent, metadata, recorded, sidecar, link, saved, edit>>

-----------------------------------------------------------------------------
(* The trainer, and the end of the launcher.                               *)

\* A process of its own, with the code as it is now; it finds its parent behind
\* the link of its own directory and takes no checkpoint of other contracts.
StartTrainer(l) ==
    /\ At(l, "ready")
    /\ LET source == IF Resumes(l) THEN link[Dir(l)] ELSE None
       IN  launcher' = [launcher EXCEPT
             ![l].trainer = code,
             ![l].loaded = source,
             ![l].at = IF source # None /\ ~Compatible(source) THEN "exited" ELSE "training"]
    /\ UNCHANGED <<code, parent, documents, edit>>

\* Numbers go on from the parent's.
Number(l) == launcher[l].saves + IF Resumes(l) THEN MaxSaves ELSE 0

SaveCheckpoint(l) ==
    /\ At(l, "training") /\ launcher[l].saves < MaxSaves
    /\ \E torn \in BOOLEAN :
         /\ saved' = [saved EXCEPT ![Dir(l)] = Append(@,
                        [number |-> Number(l) + 1,
                         contract |-> IF torn THEN Unreadable ELSE launcher[l].trainer])]
         /\ launcher' = [launcher EXCEPT ![l].saves = @ + 1,
                                         ![l].at = IF torn THEN "exited" ELSE @]
    /\ UNCHANGED <<code, parent, metadata, recorded, sidecar, manifest, link, edit>>

TrainerExits(l) ==
    /\ At(l, "training") /\ Goto(l, "exited")
    /\ UNCHANGED <<code, parent, documents, edit>>

\* _latest_checkpoint: the highest number, the newest file among equals; the
\* search does not follow the link to the parent.
Latest(d) ==
    LET files == saved[d]
        best == CHOOSE i \in DOMAIN files :
                  \A j \in DOMAIN files : \/ files[j].number < files[i].number
                                          \/ files[j].number = files[i].number /\ j <= i
    IN  files[best]

\* _checkpoint_contracts: a file the loader rejects has none.
Readable(checkpoint) == checkpoint.contract # Unreadable

\* Seeded defect: the launch contracts are saved when they are overwritten.
FinalContracts(old, latest) ==
    IF ~Readable(latest) THEN [old EXCEPT !.latest = latest]
    ELSE [contract |-> latest.contract, launch |-> latest.contract, latest |-> latest]

\* _finalize_experiment_manifest: the checkpoint's contracts replace the
\* launch's, which are kept beside them; what cannot be read replaces nothing.
Final(old, latest) ==
    IF ~Readable(latest) THEN [old EXCEPT !.latest = latest]
    ELSE [contract |-> latest.contract, launch |-> old.contract, latest |-> latest]

Finalize(l) ==
    /\ At(l, "exited") /\ Goto(l, "done")
    /\ manifest' = IF saved[Dir(l)] = <<>> THEN manifest
                   ELSE [manifest EXCEPT ![Dir(l)] = Final(@, Latest(Dir(l)))]
    /\ UNCHANGED <<code, parent, metadata, recorded, sidecar, link, saved, edit>>

-----------------------------------------------------------------------------
(* Users and maintenance.                                                  *)

\* update_metadata reads the document, changes what the user names and writes
\* all of it, the identity it has read included.
PatchRead(d) ==
    /\ edit = NoEdit /\ metadata[d] # None
    /\ edit' = [dir |-> d, copy |-> metadata[d]]
    /\ UNCHANGED <<code, parent, launcher, documents>>

PatchWrite ==
    /\ edit # NoEdit
    /\ metadata' = [metadata EXCEPT ![edit.dir] = edit.copy]
    /\ edit' = NoEdit
    /\ UNCHANGED <<code, parent, launcher, recorded, sidecar, manifest, link, saved>>

UpdateCode ==
    /\ code < MaxVersion /\ code' = code + 1
    /\ UNCHANGED <<parent, launcher, documents, edit>>

\* Seeded defect: the sidecar, when there is one, is believed first.
SidecarFirst(d) == IF sidecar[d] # None THEN sidecar[d] ELSE recorded[d]

\* run_repository_provenance: the launcher's record, then the sidecar.
Provenance(d) == IF recorded[d] # None THEN recorded[d] ELSE sidecar[d]

\* stamp_missing_runs, before an update: every run it finds without a commit.
Stamp ==
    /\ \E d \in Dirs : metadata[d] # None /\ Provenance(d) = None
    /\ sidecar' = [d \in Dirs |-> IF metadata[d] # None /\ Provenance(d) = None
                                  THEN code ELSE sidecar[d]]
    /\ UNCHANGED <<code, parent, launcher, metadata, recorded, manifest, link, saved, edit>>

Next ==
    \/ \E l \in Launchers :
         \/ Create(l) \/ Admit(l) \/ CheckParent(l) \/ LinkParent(l) \/ Describe(l) \/ Record(l)
         \/ WriteManifest(l) \/ StartTrainer(l) \/ SaveCheckpoint(l) \/ TrainerExits(l)
         \/ Finalize(l)
    \/ \E d \in Dirs : PatchRead(d)
    \/ PatchWrite \/ UpdateCode \/ Stamp

Spec == Init /\ [][Next]_vars

-----------------------------------------------------------------------------
(* Properties.                                                             *)

Alone(l) == \A m \in Launchers \ {l} : Dir(m) # Dir(l)

\* A resumed trainer loads from the parent its own launcher checked, even when
\* two launchers share the directory.  (launch.py:193-242)
ResumesItsParent ==
    \A l \in Launchers :
        launcher[l].trainer # None => launcher[l].loaded = launcher[l].from

SpeaksOfTheRun(m, l, files) ==
    /\ files = <<>> => m.contract = launcher[l].began /\ m.latest = NoCheckpoint
    /\ files # <<>> =>
         /\ \A i \in DOMAIN files : files[i].number <= m.latest.number
         /\ m.latest.contract = Unreadable => m.contract = launcher[l].began
         /\ m.latest.contract # Unreadable =>
              m.contract = launcher[l].trainer /\ m.launch = launcher[l].began

\* The manifest a launcher leaves speaks of the run's own last checkpoint: its
\* number, its contracts when it can be read, and beside them the contracts of
\* the launch.  (launch.py:298-316, 438-466)
ManifestIsOfTheRun ==
    \A l \in Launchers : At(l, "done") /\ Alone(l) =>
        SpeaksOfTheRun(manifest[Dir(l)], l, saved[Dir(l)])

\* Whatever is stamped or edited meanwhile, the commit shown for a run that has
\* begun is the one its launcher recorded, and the run keeps its identity.
\* (versioning.py:80-112, stamp_run_provenance.py:25-48, run_service.py:224-259)
CommitIsTheLaunchers ==
    \A l \in Launchers : launcher[l].began # None /\ Alone(l) =>
        /\ metadata[Dir(l)] = l
        /\ Provenance(Dir(l)) = recorded[Dir(l)]

(***************************************************************************)
(* The inductive invariant                                                 *)
(***************************************************************************)

Underway == {"linked", "described", "recorded", "ready", "training", "exited", "done"}
Described == {"described", "recorded", "ready", "training", "exited", "done"}
Recorded == {"recorded", "ready", "training", "exited", "done"}
Began == {"ready", "training", "exited", "done"}
Trained == {"training", "exited", "done"}

Types ==
    /\ code \in Versions
    /\ launcher \in [Launchers -> Progress]
    /\ metadata \in [Dirs -> Launchers \cup {None}]
    /\ recorded \in [Dirs -> Versions \cup {None}]
    /\ link \in [Dirs -> Parents \cup {None}]
    /\ DOMAIN manifest = Dirs /\ DOMAIN saved = Dirs

\* Who is named in a directory works there, in a user's copy too.
Names ==
    /\ \A d \in Dirs : metadata[d] # None => metadata[d] \in Launchers /\ Dir(metadata[d]) = d
    /\ edit = NoEdit \/ /\ edit.dir \in Dirs /\ edit.copy \in Launchers
                        /\ Dir(edit.copy) = edit.dir

Unused == \A d \in Dirs : (\A l \in Launchers : Dir(l) # d) => saved[d] = <<>>

\* How far a launcher is says what it has.
Stands(l) ==
    /\ At(l, "idle") <=> Dir(l) = None
    /\ launcher[l].began # None => launcher[l].at \in Began
    /\ launcher[l].trainer # None => launcher[l].at \in Trained
    /\ At(l, "training") => launcher[l].trainer # None
    /\ launcher[l].at \notin Trained => launcher[l].saves = 0
    /\ At(l, "checked") => Resumes(l)
    /\ launcher[l].trainer # None => launcher[l].loaded = launcher[l].from

Identified(l) ==
    /\ launcher[l].at \in Described /\ Alone(l) => metadata[Dir(l)] = l
    /\ launcher[l].at \in Recorded => recorded[Dir(l)] # None

\* A link is never replaced: what a launcher linked is what its trainer finds.
Linked(l) ==
    launcher[l].at \in Underway /\ Resumes(l) => link[Dir(l)] = launcher[l].from

\* The checkpoints of a directory with one launcher are its trainer's, numbered on.
SavedByItself(l) ==
    ~At(l, "idle") /\ Alone(l) =>
        LET files == saved[Dir(l)]
        IN  /\ files \in Seq(Checkpoints) /\ Len(files) = launcher[l].saves
            /\ \A i \in 1..launcher[l].saves :
                 /\ files[i].number = i + IF Resumes(l) THEN MaxSaves ELSE 0
                 /\ files[i].contract \in {launcher[l].trainer, Unreadable}

\* The manifest is the launch's until the end.
LaunchManifest(l) ==
    launcher[l].at \in {"ready", "training", "exited"} /\ Alone(l) =>
        manifest[Dir(l)] = [contract |-> launcher[l].began,
                            launch |-> manifest[Dir(l)].launch, latest |-> NoCheckpoint]

LeftManifest(l) ==
    At(l, "done") /\ Alone(l) => SpeaksOfTheRun(manifest[Dir(l)], l, saved[Dir(l)])

Account(l) ==
    /\ Stands(l) /\ Identified(l) /\ Linked(l) /\ SavedByItself(l)
    /\ LaunchManifest(l) /\ LeftManifest(l)

IInv == Types /\ Names /\ Unused /\ \A l \in Launchers : Account(l)
=============================================================================
