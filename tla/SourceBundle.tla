---------------------------- MODULE SourceBundle ----------------------------
(***************************************************************************)
(* The source a managed run records (dashboard/provenance.py, the checks of *)
(* dashboard/launch.py).  The launcher looks at the working tree three      *)
(* times: to admit the run, to choose between a clean commit and a bundle,  *)
(* and to capture the bundle.  Each look is several git commands, the       *)
(* capture also reads every untracked file twice, and somebody may edit,    *)
(* commit or check out meanwhile.  A git that cannot be run is left out.    *)
(***************************************************************************)
EXTENDS Integers, FiniteSets

CONSTANTS
    Files,       \* untracked paths
    MaxContent,  \* bound: contents a file takes
    MaxEdits     \* bound: edits of the tree while the launcher works

VARIABLES
    origin,      \* what working_tree_state finds: a checkout or build metadata
    allow,       \* --allow-dirty-provenance
    tree,        \* the commit, the tracked content and the untracked files
    instants,    \* ghost: every tree since the capture began
    reverted,    \* ghost: some part went back to what it was in an earlier one
    edits,       \* edits so far
    stage, pc,   \* which look at the tree this is, and its next read
    look,        \* working_tree_state being filled
    state,       \* the look the capture is held to
    patch, hashes, archive,      \* the capture
    patchAfter, hashesAfter,     \* the second reading
    outcome      \* "", "clean", "published", "refused" (ValueError) or "crashed"

vars == <<origin, allow, tree, instants, reverted, edits, stage, pc, look, state,
          patch, hashes, archive, patchAfter, hashesAfter, outcome>>
capture == <<patch, hashes, archive, patchAfter, hashesAfter>>

Absent == -1
Content == 0..MaxContent
Trees == [head : Content, work : Content, extra : [Files -> Content \cup {Absent}]]
Looks == [tracked : BOOLEAN, paths : SUBSET Files, commit : Content]
Patches == [from : Content, to : Content]
Empty == [from |-> Absent, to |-> Absent]
NoFiles == [f \in {} |-> Absent]
SomeFiles == UNION {[S -> Content] : S \in SUBSET Files}

TypeOK ==
    /\ origin \in {"git", "image", "unverified"} /\ allow \in BOOLEAN
    /\ tree \in Trees /\ instants \subseteq Trees /\ reverted \in BOOLEAN
    /\ edits \in 0..MaxEdits
    /\ stage \in {"admit", "validate", "capture", "after"}
    /\ pc \in {"tracked", "paths", "commit", "patch", "check", "hash", "archive", "again"}
    /\ look \in Looks /\ state \in Looks
    /\ {patch, patchAfter} \subseteq Patches \cup {Empty}
    /\ {hashes, archive, hashesAfter} \subseteq SomeFiles
    /\ outcome \in {"", "clean", "published", "refused", "crashed"}

NoLook == [tracked |-> FALSE, paths |-> {}, commit |-> 0]

Init ==
    /\ origin \in {"git", "image", "unverified"} /\ allow \in BOOLEAN
    /\ tree \in {t \in Trees : t.head = 0 /\ t.work \in 0..1
                               /\ \A f \in Files : t.extra[f] \in {Absent, 0}}
    /\ instants = {tree} /\ reverted = FALSE /\ edits = 0
    /\ stage = "admit" /\ pc = "tracked" /\ look = NoLook /\ state = NoLook
    /\ patch = Empty /\ hashes = NoFiles /\ archive = NoFiles
    /\ patchAfter = Empty /\ hashesAfter = NoFiles
    /\ outcome = ""

-----------------------------------------------------------------------------
(* Somebody works on the source.                                           *)

Changed(t) ==
    /\ t # tree /\ edits < MaxEdits /\ outcome = ""
    /\ tree' = t /\ edits' = edits + 1
    /\ instants' = instants \cup {t}
    /\ reverted' = (reverted
         \/ \E i \in instants : \/ t.head # tree.head /\ i.head = t.head
                                \/ t.work # tree.work /\ i.work = t.work
                                \/ \E f \in Files : t.extra[f] # tree.extra[f]
                                                    /\ i.extra[f] = t.extra[f])
    /\ UNCHANGED <<origin, allow, stage, pc, look, state, capture, outcome>>

EditTracked == \E c \in Content : Changed([tree EXCEPT !.work = c])
EditUntracked == \E f \in Files, c \in Content \cup {Absent} :
                     Changed([tree EXCEPT !.extra[f] = c])
Commit == Changed([tree EXCEPT !.head = tree.work])

-----------------------------------------------------------------------------
(* The launcher.                                                           *)

Dirty(l) == l.tracked \/ l.paths # {}

\* git diff --binary HEAD.
Diff == IF tree.work = tree.head THEN Empty ELSE [from |-> tree.head, to |-> tree.work]

Goto(s, p) == stage' = s /\ pc' = p
End(result) == outcome' = result /\ UNCHANGED <<stage, pc>>
Continue(s, p) == Goto(s, p) /\ UNCHANGED outcome

\* No .git: an image with verified clean build metadata counts as clean, any
\* other one is refused.
ImageState ==
    /\ outcome = "" /\ origin # "git" /\ pc = "tracked"
    /\ \/ origin = "unverified" /\ End("refused")
       \/ origin = "image" /\ stage = "admit" /\ Continue("validate", "tracked")
       \/ origin = "image" /\ stage = "validate" /\ End("clean")
    /\ UNCHANGED <<origin, allow, tree, instants, reverted, edits, look, state, capture>>

\* git diff --name-only HEAD.  The ghosts start over with the capture.
ReadTracked ==
    /\ outcome = "" /\ origin = "git" /\ pc = "tracked"
    /\ look' = [look EXCEPT !.tracked = tree.work # tree.head]
    /\ IF stage = "capture" THEN instants' = {tree} /\ reverted' = FALSE
                            ELSE UNCHANGED <<instants, reverted>>
    /\ Continue(stage, "paths")
    /\ UNCHANGED <<origin, allow, tree, edits, state, capture>>

\* git ls-files --others.
ReadPaths ==
    /\ outcome = "" /\ pc = "paths"
    /\ look' = [look EXCEPT !.paths = {f \in Files : tree.extra[f] # Absent}]
    /\ Continue(stage, "commit")
    /\ UNCHANGED <<origin, allow, tree, instants, reverted, edits, state, capture>>

\* git rev-parse HEAD, and what the look decides.
ReadCommit ==
    /\ outcome = "" /\ pc = "commit"
    /\ LET seen == [look EXCEPT !.commit = tree.head]
       IN  /\ look' = seen
           /\ \/ /\ stage \in {"admit", "validate"} /\ Dirty(seen) /\ ~allow
                 /\ End("refused") /\ UNCHANGED state
              \/ /\ stage = "admit" /\ (Dirty(seen) => allow)
                 /\ Continue("validate", "tracked") /\ UNCHANGED state
              \/ /\ stage = "validate" /\ ~Dirty(seen)
                 /\ End("clean") /\ UNCHANGED state
              \/ /\ stage = "validate" /\ Dirty(seen) /\ allow
                 /\ Continue("capture", "tracked") /\ UNCHANGED state
              \/ /\ stage = "capture"
                 /\ Continue("capture", "patch") /\ state' = seen
              \/ /\ stage = "after"
                 /\ Continue("after", "patch") /\ UNCHANGED state
    /\ UNCHANGED <<origin, allow, tree, instants, reverted, edits, capture>>

\* git diff --binary, before and after.
ReadPatch ==
    /\ outcome = "" /\ pc = "patch"
    /\ \/ /\ stage = "capture" /\ patch' = Diff /\ Continue("capture", "check")
          /\ UNCHANGED patchAfter
       \/ /\ stage = "after" /\ patchAfter' = Diff /\ Continue("after", "hash")
          /\ UNCHANGED patch
    /\ UNCHANGED <<origin, allow, tree, instants, reverted, edits, look, state, hashes,
                   archive, hashesAfter>>

\* The paths are read again, the patch must cover them, and git apply --check
\* tries it on the recorded commit: it refuses an empty patch with an error no
\* caller catches, and may accept one made against another commit.
CheckPatch ==
    /\ outcome = "" /\ pc = "check"
    /\ \/ /\ \/ (tree.work # tree.head) # state.tracked
             \/ (patch # Empty) # state.tracked
          /\ End("refused")
       \/ /\ (tree.work # tree.head) = state.tracked
          /\ (patch # Empty) = state.tracked
          /\ \/ patch.from # state.commit /\ End("crashed")
             \/ patch # Empty /\ Continue("capture", "hash")
    /\ UNCHANGED <<origin, allow, tree, instants, reverted, edits, look, state, capture>>

\* _untracked_manifest: one file after the other, before and after.
HashFile ==
    /\ outcome = "" /\ pc = "hash"
    /\ LET paths == IF stage = "capture" THEN state.paths ELSE look.paths
           done == IF stage = "capture" THEN hashes ELSE hashesAfter
       IN  \/ \E f \in paths \ DOMAIN done :
                IF tree.extra[f] = Absent
                THEN End("refused") /\ UNCHANGED <<hashes, hashesAfter>>
                ELSE LET more == [g \in DOMAIN done \cup {f} |->
                                    IF g = f THEN tree.extra[f] ELSE done[g]]
                     IN  /\ UNCHANGED <<stage, pc, outcome>>
                         /\ IF stage = "capture" THEN hashes' = more /\ UNCHANGED hashesAfter
                                                 ELSE hashesAfter' = more /\ UNCHANGED hashes
           \/ /\ paths = DOMAIN done
              /\ Continue(stage, IF stage = "capture" THEN "archive" ELSE "again")
              /\ UNCHANGED <<hashes, hashesAfter>>
    /\ UNCHANGED <<origin, allow, tree, instants, reverted, edits, look, state, patch,
                   archive, patchAfter>>

\* The tar reads every file again; its members must have the recorded hashes.
ArchiveFile ==
    /\ outcome = "" /\ pc = "archive"
    /\ \/ \E f \in state.paths \ DOMAIN archive :
            IF tree.extra[f] = Absent
            THEN End("crashed") /\ UNCHANGED archive
            ELSE /\ archive' = [g \in DOMAIN archive \cup {f} |->
                                  IF g = f THEN tree.extra[f] ELSE archive[g]]
                 /\ UNCHANGED <<stage, pc, outcome>>
       \/ /\ DOMAIN archive = state.paths /\ UNCHANGED archive
          /\ IF archive = hashes THEN Continue("after", "tracked") ELSE End("refused")
    /\ UNCHANGED <<origin, allow, tree, instants, reverted, edits, look, state, patch,
                   hashes, patchAfter, hashesAfter>>

\* Seeded defect: the names are compared and the untracked files, not the patch.
SamePaths == look = state /\ hashesAfter = hashes

\* What the second reading is compared with.
SameSource == look = state /\ patchAfter = patch /\ hashesAfter = hashes

\* The staged directory gets its name only when both readings agree.
Publish ==
    /\ outcome = "" /\ pc = "again"
    /\ End(IF SameSource THEN "published" ELSE "refused")
    /\ UNCHANGED <<origin, allow, tree, instants, reverted, edits, look, state, capture>>

Next ==
    \/ EditTracked \/ EditUntracked \/ Commit
    \/ ImageState \/ ReadTracked \/ ReadPaths \/ ReadCommit \/ ReadPatch
    \/ CheckPatch \/ HashFile \/ ArchiveFile \/ Publish

Spec == Init /\ [][Next]_vars

-----------------------------------------------------------------------------
(* Properties.                                                             *)

\* A published bundle rebuilds a tree that existed as a whole at one instant of
\* the capture (its commit, patched, plus its archive) unless somebody changed a
\* part and changed it back meanwhile.  (provenance.py:136-216)
BundleIsASnapshot ==
    outcome = "published" /\ ~reverted =>
        /\ patch.from = state.commit
        /\ \E t \in instants :
             /\ t.head = state.commit /\ t.work = patch.to
             /\ \A f \in Files : t.extra[f] = IF f \in DOMAIN archive THEN archive[f] ELSE Absent

(***************************************************************************)
(* The inductive invariant                                                 *)
(***************************************************************************)

HeadWas(c) == \E i \in instants : i.head = c
WorkWas(c) == \E i \in instants : i.work = c
ExtraWas(f, c) == \E i \in instants : i.extra[f] = c

CaptureAt(pcs) == stage = "capture" /\ pc \in pcs
Captured == CaptureAt({"patch", "check", "hash", "archive"}) \/ stage = "after"
Patched == CaptureAt({"hash", "archive"}) \/ stage = "after"
Hashed == CaptureAt({"archive"}) \/ stage = "after"

\* A look is complete before it is used, and the capture is empty before its turn.
Shapes ==
    /\ tree \in instants
    /\ look = [tracked |-> look.tracked, paths |-> look.paths, commit |-> look.commit]
    /\ look.paths \subseteq Files /\ state.paths \subseteq Files
    /\ ~Captured \/ CaptureAt({"patch"}) => patch = Empty
    /\ ~Captured \/ CaptureAt({"patch", "check"}) => hashes = NoFiles
    /\ stage = "after" => pc \in {"tracked", "paths", "commit", "patch", "hash", "again"}
    /\ pc = "again" => stage = "after"
    /\ pc \in {"patch", "check", "hash", "archive"} => stage \in {"capture", "after"}
    /\ Patched => patch # Empty
    /\ Hashed => DOMAIN hashes = state.paths
    /\ stage = "after" => archive = hashes
    /\ stage # "after" => hashesAfter = NoFiles

\* What the first reading found is what some instant of the capture had.
FirstReadings ==
    /\ stage = "capture" /\ pc = "commit" =>
         \A f \in Files \ look.paths : ExtraWas(f, Absent)
    /\ Captured => /\ HeadWas(state.commit)
                   /\ \A f \in Files \ state.paths : ExtraWas(f, Absent)
    /\ patch # Empty => HeadWas(patch.from) /\ WorkWas(patch.to)
    /\ \A f \in DOMAIN hashes : ExtraWas(f, hashes[f])

\* What a part of the tree was at m, between the readings: where it was not what the
\* first one found it is not that now, nor what the second one found.
Between(m) ==
    /\ m.head # state.commit =>
         /\ tree.head # state.commit
         /\ pc \in {"patch", "hash", "again"} => look.commit # state.commit
    /\ m.head # patch.from =>
         tree.head # patch.from /\ (pc \in {"hash", "again"} => patchAfter # patch)
    /\ m.work # patch.to =>
         tree.work # patch.to /\ (pc \in {"hash", "again"} => patchAfter # patch)
    /\ \A f \in state.paths : m.extra[f] # hashes[f] =>
         /\ tree.extra[f] # hashes[f]
         /\ f \in DOMAIN hashesAfter => hashesAfter[f] # hashes[f]
    /\ \A f \in Files \ state.paths : m.extra[f] # Absent =>
         /\ tree.extra[f] # Absent
         /\ pc \in {"commit", "patch", "hash", "again"} => f \in look.paths

OneInstant == stage = "after" /\ ~reverted => \E m \in instants : Between(m)

IInv == Shapes /\ FirstReadings /\ OneInstant /\ BundleIsASnapshot
=============================================================================
