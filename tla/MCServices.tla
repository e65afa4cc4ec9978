----------------------------- MODULE MCServices -----------------------------
(***************************************************************************)
(* One model-checking run for the protocols around a run: between the      *)
(* dashboard, the viewer worker, the launcher and the host.  They share no *)
(* state, so their union is checked and not their product: part says which *)
(* protocol a behaviour is about, its module is instantiated with the      *)
(* variables v1, v2, ..., and those it does not need stay Unused.          *)
(***************************************************************************)
EXTENDS Integers, Sequences, FiniteSets

CONSTANTS MaxSaved, MaxGen, Capacity,
          WrapperClip, Outputs, MaxCalls, MaxLives, MaxPolicies,
          DwellFrames, MaxEvents, MaxFrames,
          Arena, MaxSegment, MaxQueued, DwellSteps, MaxIssued,
          MaxRequests, Queuers, MaxCommands,
          Readers, MaxHalves, MaxFiles,
          Files, Callers, LogSteps, MaxLogged, MaxInodes,
          Requesters, MaxUpdates, MaxCrashes,
          Syncers, Listers, MaxSyncs,
          Paths, MaxContent, MaxEdits,
          Launchers, Dirs, Parents, MaxVersion, MaxSaves

\* What the theorems ask of the parameters.
ASSUME ReloadParameters == Capacity \in Nat \ {0}
ASSUME FrameParameters ==
  /\ WrapperClip \in Int /\ Outputs \subseteq Int
  /\ MaxCalls \in Nat /\ MaxLives \in Nat \ {0} /\ MaxPolicies \in Nat \ {0}
ASSUME CaptureParameters ==
  /\ Capacity \in Nat /\ DwellFrames \in Nat
  /\ MaxEvents \in Nat \ {0} /\ MaxFrames \in Nat
ASSUME RouteParameters == Arena \in Nat /\ MaxQueued \in Nat /\ DwellSteps \in Nat
ASSUME IpcParameters == MaxRequests \in Nat
ASSUME InboxParameters == MaxCommands \in Nat
ASSUME HistoryParameters ==
  /\ IsFiniteSet(Files) /\ Files # {} /\ Files = 1..Cardinality(Files)
  /\ MaxLogged \in Nat /\ -1 \notin Callers
ASSUME HostParameters == MaxUpdates \in Nat
ASSUME LineageParameters == MaxSaves \in Nat /\ MaxVersion \in Nat /\ -1 \notin Dirs

VARIABLES part,
          v1, v2, v3, v4, v5, v6, v7, v8, v9, v10, v11, v12, v13, v14, v15, v16

vars == <<part, v1, v2, v3, v4, v5, v6, v7, v8, v9, v10, v11, v12, v13, v14, v15, v16>>

Unused == "unused"

-----------------------------------------------------------------------------

Reload == INSTANCE PolicyReload WITH
  saved <- v1, target <- v2, current <- v3, live <- v4, weights <- v5, hooked <- v6,
  active <- v7, rejected <- v8, buffer <- v9, capture <- v10, asked <- v11,
  answer <- v12, torn <- v13

Frame == INSTANCE StepFrame WITH
  world <- v1, term <- v2, call <- v3, latest <- v4, snapshot <- v5, observer <- v6,
  frame <- v7

Capture == INSTANCE EventCapture WITH
  frames <- v1, since <- v2, buffer <- v3, event <- v4, artifacts <- v5,
  summaries <- v6, recorder <- v7

Route == INSTANCE WaypointRoute WITH
  place <- v1, active <- v2, queued <- v3, paused <- v4, arrived <- v5, dwell <- v6,
  target <- v7, robot <- v8, held <- v9

Ipc == INSTANCE ViewerIpc WITH
  lock <- v1, made <- v2, queueing <- v3, files <- v4, claimed <- v5, served <- v6,
  leaked <- v7, paused <- v8

Inbox == INSTANCE WaypointInbox WITH
  clock <- v1, stamp <- v2, inbox <- v3, sent <- v4, applied <- v5

Telemetry == INSTANCE JsonlTail WITH
  file <- v1, written <- v2, looked <- v3, cache <- v4, result <- v5, astray <- v6

History == INSTANCE TelemetryHistory WITH
  disk <- v1, current <- v2, serial <- v3, inodes <- v4, lock <- v5, loader <- v6,
  kept <- v7, call <- v8, MaxEvents <- MaxLogged, Steps <- LogSteps

Host == INSTANCE HostUpdate WITH
  updater <- v1, reaped <- v2, stateFile <- v3, request <- v4, waiter <- v5,
  reader <- v6, training <- v7, containers <- v8, crashes <- v9, forgotten <- v10

Database == INSTANCE DashboardDatabase WITH
  files <- v1, row <- v2, events <- v3, checkpoint <- v4, available <- v5, thread <- v6,
  synced <- v7

Bundle == INSTANCE SourceBundle WITH
  origin <- v1, allow <- v2, tree <- v3, instants <- v4, reverted <- v5, edits <- v6,
  stage <- v7, pc <- v8, look <- v9, state <- v10, patch <- v11, hashes <- v12,
  archive <- v13, patchAfter <- v14, hashesAfter <- v15, outcome <- v16, Files <- Paths

Ancestry == INSTANCE RunLineage WITH
  code <- v1, parent <- v2, launcher <- v3, metadata <- v4, recorded <- v5,
  sidecar <- v6, manifest <- v7, link <- v8, saved <- v9, edit <- v10

-----------------------------------------------------------------------------

ReloadBegins ==
  /\ part = "reload" /\ Reload!Init
  /\ v14 = Unused /\ v15 = Unused /\ v16 = Unused

FrameBegins ==
  /\ part = "frame" /\ Frame!Init
  /\ v8 = Unused /\ v9 = Unused /\ v10 = Unused /\ v11 = Unused /\ v12 = Unused
  /\ v13 = Unused /\ v14 = Unused /\ v15 = Unused /\ v16 = Unused

CaptureBegins ==
  /\ part = "capture" /\ Capture!Init
  /\ v8 = Unused /\ v9 = Unused /\ v10 = Unused /\ v11 = Unused /\ v12 = Unused
  /\ v13 = Unused /\ v14 = Unused /\ v15 = Unused /\ v16 = Unused

RouteBegins ==
  /\ part = "route" /\ Route!Init
  /\ v10 = Unused /\ v11 = Unused /\ v12 = Unused /\ v13 = Unused /\ v14 = Unused
  /\ v15 = Unused /\ v16 = Unused

IpcBegins ==
  /\ part = "ipc" /\ Ipc!Init
  /\ v9 = Unused /\ v10 = Unused /\ v11 = Unused /\ v12 = Unused /\ v13 = Unused
  /\ v14 = Unused /\ v15 = Unused /\ v16 = Unused

InboxBegins ==
  /\ part = "inbox" /\ Inbox!Init
  /\ v6 = Unused /\ v7 = Unused /\ v8 = Unused /\ v9 = Unused /\ v10 = Unused
  /\ v11 = Unused /\ v12 = Unused /\ v13 = Unused /\ v14 = Unused /\ v15 = Unused
  /\ v16 = Unused

TelemetryBegins ==
  /\ part = "telemetry" /\ Telemetry!Init
  /\ v7 = Unused /\ v8 = Unused /\ v9 = Unused /\ v10 = Unused /\ v11 = Unused
  /\ v12 = Unused /\ v13 = Unused /\ v14 = Unused /\ v15 = Unused /\ v16 = Unused

HistoryBegins ==
  /\ part = "history" /\ History!Init
  /\ v9 = Unused /\ v10 = Unused /\ v11 = Unused /\ v12 = Unused /\ v13 = Unused
  /\ v14 = Unused /\ v15 = Unused /\ v16 = Unused

HostBegins ==
  /\ part = "host" /\ Host!Init
  /\ v11 = Unused /\ v12 = Unused /\ v13 = Unused /\ v14 = Unused /\ v15 = Unused
  /\ v16 = Unused

DatabaseBegins ==
  /\ part = "database" /\ Database!Init
  /\ v8 = Unused /\ v9 = Unused /\ v10 = Unused /\ v11 = Unused /\ v12 = Unused
  /\ v13 = Unused /\ v14 = Unused /\ v15 = Unused /\ v16 = Unused

BundleBegins ==
  /\ part = "bundle" /\ Bundle!Init

AncestryBegins ==
  /\ part = "ancestry" /\ Ancestry!Init
  /\ v11 = Unused /\ v12 = Unused /\ v13 = Unused /\ v14 = Unused /\ v15 = Unused
  /\ v16 = Unused

ReloadStep ==
  /\ part = "reload" /\ Reload!Next
  /\ UNCHANGED <<part, v14, v15, v16>>

FrameStep ==
  /\ part = "frame" /\ Frame!Next
  /\ UNCHANGED <<part, v8, v9, v10, v11, v12, v13, v14, v15, v16>>

CaptureStep ==
  /\ part = "capture" /\ Capture!Next
  /\ UNCHANGED <<part, v8, v9, v10, v11, v12, v13, v14, v15, v16>>

RouteStep ==
  /\ part = "route" /\ Route!Next
  /\ UNCHANGED <<part, v10, v11, v12, v13, v14, v15, v16>>

IpcStep ==
  /\ part = "ipc" /\ Ipc!Next
  /\ UNCHANGED <<part, v9, v10, v11, v12, v13, v14, v15, v16>>

InboxStep ==
  /\ part = "inbox" /\ Inbox!Next
  /\ UNCHANGED <<part, v6, v7, v8, v9, v10, v11, v12, v13, v14, v15, v16>>

TelemetryStep ==
  /\ part = "telemetry" /\ Telemetry!Next
  /\ UNCHANGED <<part, v7, v8, v9, v10, v11, v12, v13, v14, v15, v16>>

HistoryStep ==
  /\ part = "history" /\ History!Next
  /\ UNCHANGED <<part, v9, v10, v11, v12, v13, v14, v15, v16>>

HostStep ==
  /\ part = "host" /\ Host!Next
  /\ UNCHANGED <<part, v11, v12, v13, v14, v15, v16>>

DatabaseStep ==
  /\ part = "database" /\ Database!Next
  /\ UNCHANGED <<part, v8, v9, v10, v11, v12, v13, v14, v15, v16>>

BundleStep ==
  /\ part = "bundle" /\ Bundle!Next
  /\ UNCHANGED <<part>>

AncestryStep ==
  /\ part = "ancestry" /\ Ancestry!Next
  /\ UNCHANGED <<part, v11, v12, v13, v14, v15, v16>>

Init ==
  \/ ReloadBegins \/ FrameBegins \/ CaptureBegins \/ RouteBegins \/ IpcBegins
  \/ InboxBegins \/ TelemetryBegins \/ HistoryBegins \/ HostBegins
  \/ DatabaseBegins \/ BundleBegins \/ AncestryBegins

Next ==
  \/ ReloadStep \/ FrameStep \/ CaptureStep \/ RouteStep \/ IpcStep \/ InboxStep
  \/ TelemetryStep \/ HistoryStep \/ HostStep \/ DatabaseStep \/ BundleStep
  \/ AncestryStep

(* The fairness of the protocols that promise something for later: a       *)
(* request thread ends its request, the viewer its step, the host what it  *)
(* began.                                                                  *)
IpcVars == <<v1, v2, v3, v4, v5, v6, v7, v8>>
HostVars == <<v1, v2, v3, v4, v5, v6, v7, v8, v9, v10>>
IpcFairness ==
  \A s \in {"capture", "explanation"} :
    /\ WF_IpcVars(part = "ipc" /\ (Ipc!Name(s) \/ Ipc!NameFails(s)))
    /\ WF_IpcVars(part = "ipc" /\ (Ipc!Post(s) \/ Ipc!PostFails(s)))
    /\ WF_IpcVars(part = "ipc" /\ Ipc!Claim(s))
    /\ WF_IpcVars(part = "ipc" /\ (Ipc!Serve(s) \/ (Ipc!PublishFails /\ s = "explanation")))
HostFairness ==
  /\ SF_HostVars(part = "host" /\ Host!StatusLooks)
  /\ WF_HostVars(part = "host" /\ Host!StatusAnswers)
  /\ \A r \in Requesters : /\ WF_HostVars(part = "host" /\ Host!Decide(r))
                           /\ WF_HostVars(part = "host" /\ Host!Start(r))
                           /\ WF_HostVars(part = "host" /\ Host!Record(r))
  /\ \A u \in 1..MaxUpdates : /\ WF_HostVars(part = "host" /\ Host!WaitReturns(u))
                              /\ WF_HostVars(part = "host" /\ Host!Finish(u))
                              /\ WF_HostVars(part = "host" /\ (Host!Advance(u) \/ Host!Fail(u)))
                              /\ WF_HostVars(part = "host" /\ Host!ReapOrphan(u))

Spec == Init /\ [][Next]_vars /\ IpcFairness /\ HostFairness

(***************************************************************************)
(* Properties                                                              *)
(***************************************************************************)

\* Every protocol keeps to the values its code works with, on both sides of every file
\* it goes through.
TypeOK ==
  CASE part = "reload" -> Reload!TypeOK
    [] part = "frame" -> Frame!TypeOK
    [] part = "capture" -> Capture!TypeOK
    [] part = "route" -> Route!TypeOK
    [] part = "ipc" -> Ipc!TypeOK
    [] part = "inbox" -> Inbox!TypeOK
    [] part = "telemetry" -> Telemetry!TypeOK
    [] part = "history" -> History!TypeOK
    [] part = "host" -> Host!TypeOK
    [] part = "database" -> Database!TypeOK
    [] part = "bundle" -> Bundle!TypeOK
    [] part = "ancestry" -> Ancestry!TypeOK

\* What the viewer shows is of one policy and one step: a capture's frames, label and
\* schema, an explanation and its checkpoint, and the parts of one frame, through
\* reloads, refused candidates, resets and steps that raise (viewer/worker.py).
CaptureIsOnePolicy ==
  /\ part = "reload" => Reload!CaptureIsOnePolicy /\ Reload!ExplanationIsOfItsCheckpoint
  /\ part = "frame" => Frame!FrameIsOfOneStep

\* A recovery that is captured was one, and the newest event survives retention
\* (viewer/replay.py).
RecoveryIsReal ==
  part = "capture" => Capture!RecoveryIsReal /\ Capture!NewestIsKept

\* The policy drives to the active waypoint or holds where it was held, and no queued
\* waypoint is stranded or overtaken (viewer/waypoints.py).
RouteIsFollowed ==
  part = "route" => Route!TargetFollowsTheRoute /\ Route!RouteIsAlive

\* Requests to the viewer do not overtake each other: a slot has one request and the
\* lock is its own, and a queuer's commands are applied in its order (viewer/ipc.py).
RequestsKeepTheirOrder ==
  /\ part = "ipc" => Ipc!SlotIsExclusive
  /\ part = "inbox" => Inbox!CommandsInOrder

\* A request slot comes free as long as the viewer steps, unless its holder failed where
\* nothing removes the lock (viewer/ipc.py:136, :204).
SlotComesFree ==
  \A s \in {"capture", "explanation"} :
    (part = "ipc" /\ v1[s] # 0) ~> (part = "ipc" /\ (v1[s] = 0 \/ s \in v7 \/ v8))

\* What the dashboard shows of the telemetry is what the files hold, through half
\* written lines, replaced files and caches that threads share (monitor.py), and the
\* activity feed leads to the row of the run (database.py).
ViewsAreTheFiles ==
  /\ part = "telemetry" => Telemetry!RecordsAreTheFile
  /\ part = "history" => History!HistoryIsTheFiles
  /\ part = "database" => Database!EventsLeadToTheRow

\* Two maintenance scripts whose record stands never work at once, and the recorded
\* outcome of an update is how it ended (scripts/host_supervisor.py).
OneUpdate == part = "host" => Host!OneUpdate /\ Host!OutcomeIsTrue

\* An update that is recorded as running does not stay so for ever, through deaths of
\* the supervisor (update_state, wait_for_update).
UpdateIsSettled ==
  (part = "host" /\ v3.status = "running") ~> (part = "host" /\ v3.status # "running")

\* What is recorded about a run is true: the archived source is a state the tree was in,
\* the trainer resumes the parent its launcher checked, the manifest speaks of the run's
\* own last checkpoint, and the commit shown is the launcher's (dashboard/provenance.py,
\* launch.py, versioning.py).
ProvenanceIsTrue ==
  /\ part = "bundle" => Bundle!BundleIsASnapshot
  /\ part = "ancestry" => /\ Ancestry!ResumesItsParent /\ Ancestry!ManifestIsOfTheRun
                          /\ Ancestry!CommitIsTheLaunchers
=============================================================================
