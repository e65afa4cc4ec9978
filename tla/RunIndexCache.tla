--------------------------- MODULE RunIndexCache ---------------------------
(***************************************************************************)
(* The dashboard's caches of the run list: the directory discovery         *)
(* (monitor.py), the compact index and the overview built from it          *)
(* (app.py), with the request threads that read and fill them, the two     *)
(* background refreshers, and the requests that change a run and then      *)
(* invalidate what was cached.                                             *)
(*                                                                         *)
(* Data is abstracted to "which changes does it show": the files, a cached *)
(* list and a response are sets of mutators.  A critical section of        *)
(* _INDEX_CACHE_LOCK or _OVERVIEW_CACHE_LOCK only copies or assigns, so it *)
(* is one step; the locks held while files are read are variables.         *)
(* Whether a cached value has outlived its time to live is free choice.    *)
(***************************************************************************)
EXTENDS Integers, FiniteSets

CONSTANTS
  Creators,   \* requests that each create one run
  Editors,    \* requests that each change one existing run: stop, metadata
  Readers,    \* request threads of /api/runs/index and /api/overview
  Faults,     \* what may go wrong: subset of FaultKinds
  Nothing     \* an empty cache, a lock nobody holds

VARIABLES
  disk,               \* the changes made to the files
  discovery,          \* _DISCOVERY_CACHE of the artifact root
  discoveryLock,      \* _DISCOVERY_LOCK, held while the tree is walked
  index,              \* _INDEX_CACHE
  indexGeneration,    \* _INDEX_CACHE_GENERATION
  indexPending,       \* _INDEX_REFRESH_PENDING
  indexLock,          \* _INDEX_REFRESH_LOCK
  overview,           \* _OVERVIEW_CACHE
  overviewGeneration, \* _OVERVIEW_CACHE_GENERATION
  overviewLock,       \* _OVERVIEW_REFRESH_LOCK
  pc,                 \* control state of every thread
  want,               \* what a thread needs the index rows for
  rows,               \* the rows a thread has, or Nothing
  base,               \* what was on disk when a thread's scan began
  builtAt,            \* index generation a thread's rebuild began at
  refreshedAt,        \* overview generation a thread's build began at
  since               \* history: requests complete when a thread's began

FaultKinds == {"build_fails", "thread_start_fails"}
IndexRefresher == "index_refresher"
OverviewRefresher == "overview_refresher"
Mutators == Creators \cup Editors
Builders == Readers \cup {IndexRefresher, OverviewRefresher}

ASSUME ConstantsOK ==
  /\ Creators \cap Editors = {}
  /\ Mutators \cap Builders = {}
  /\ {IndexRefresher, OverviewRefresher} \cap Readers = {}
  /\ Faults \subseteq FaultKinds
  /\ \A shown \in SUBSET Mutators : shown # Nothing
  /\ Nothing \notin Builders
  /\ IsFiniteSet(Mutators)

caches == <<discovery, index, overview>>
locks == <<discoveryLock, indexLock, overviewLock>>
generations == <<indexGeneration, overviewGeneration>>
locals == <<want, rows, base, builtAt, refreshedAt, since>>
vars == <<disk, caches, locks, generations, indexPending, pc, locals>>

Done == {m \in Mutators : pc[m] = "done"}
OnDisk(kind) == disk \cap kind

(* What a thread needs the rows for before it has a request. *)
Purpose(t) == IF t = IndexRefresher THEN "refresh" ELSE "overview"

Init ==
  /\ disk = {}
  /\ discovery = Nothing /\ index = Nothing /\ overview = Nothing
  /\ discoveryLock = Nothing /\ indexLock = Nothing /\ overviewLock = Nothing
  /\ indexGeneration = 0 /\ overviewGeneration = 0
  /\ indexPending = FALSE
  /\ pc = [t \in Mutators \cup Builders |-> IF t \in Mutators THEN "write" ELSE "idle"]
  /\ want = [t \in Builders |-> Purpose(t)]
  /\ rows = [t \in Builders |-> Nothing]
  /\ base = [t \in Builders |-> {}]
  /\ builtAt = [t \in Builders |-> 0]
  /\ refreshedAt = [t \in Builders |-> 0]
  /\ since = [t \in Builders |-> {}]

Goto(t, here, there) == pc[t] = here /\ pc' = [pc EXCEPT ![t] = there]

Have(t, found) == rows' = [rows EXCEPT ![t] = found]

(* The thread's function returns: its local variables are gone. *)
Forget(t) ==
  /\ want' = [want EXCEPT ![t] = Purpose(t)]
  /\ Have(t, Nothing)
  /\ base' = [base EXCEPT ![t] = {}]
  /\ builtAt' = [builtAt EXCEPT ![t] = 0]
  /\ refreshedAt' = [refreshedAt EXCEPT ![t] = 0]
  /\ since' = [since EXCEPT ![t] = {}]

---------------------------------------------------------------------------
(* create_run, update_run and stop_run: change the files, then invalidate. *)
\* Seeded defect: a new run does not invalidate the discovery.
WriteOnly(m) ==
  /\ Goto(m, "write", "index")
  /\ disk' = disk \cup {m}
  /\ UNCHANGED <<caches, locks, generations, indexPending, locals>>

Write(m) ==
  /\ Goto(m, "write", IF m \in Creators THEN "discovery" ELSE "index")
  /\ disk' = disk \cup {m}
  /\ UNCHANGED <<caches, locks, generations, indexPending, locals>>

InvalidateDiscovery(m) ==
  /\ Goto(m, "discovery", "index")
  /\ discoveryLock = Nothing
  /\ discovery' = Nothing
  /\ UNCHANGED <<disk, index, overview, locks, generations, indexPending, locals>>

InvalidateIndex(m) ==
  /\ Goto(m, "index", "overview")
  /\ index' = Nothing
  /\ indexGeneration' = indexGeneration + 1
  /\ UNCHANGED <<disk, discovery, overview, locks, overviewGeneration, indexPending, locals>>

InvalidateOverview(m) ==
  /\ Goto(m, "overview", "done")
  /\ overview' = Nothing
  /\ overviewGeneration' = overviewGeneration + 1
  /\ UNCHANGED <<disk, discovery, index, locks, indexGeneration, indexPending, locals>>

Mutate(m) ==
  Write(m) \/ InvalidateDiscovery(m) \/ InvalidateIndex(m) \/ InvalidateOverview(m)

---------------------------------------------------------------------------
(* _indexed_summaries has its rows: back to the caller.                    *)
Return(t, here) ==
  Goto(t, here, IF want[t] = "index" THEN "answer" ELSE "storeOverview")

SeeIndexFresh(t) ==
  /\ Return(t, "lookIndex")
  /\ index # Nothing
  /\ Have(t, index)
  /\ UNCHANGED <<disk, caches, locks, generations, indexPending, want, base, builtAt,
                 refreshedAt, since>>

SeeIndexExpired(t) ==
  /\ Goto(t, "lookIndex", "schedule")
  /\ index # Nothing
  /\ Have(t, index)
  /\ UNCHANGED <<disk, caches, locks, generations, indexPending, want, base, builtAt,
                 refreshedAt, since>>

SeeIndexCold(t) ==
  /\ Goto(t, "lookIndex", "enterIndex")
  /\ index = Nothing
  /\ UNCHANGED <<disk, caches, locks, generations, indexPending, locals>>

(* _schedule_index_cache_refresh. *)
FindPending(t) ==
  /\ Return(t, "schedule")
  /\ indexPending
  /\ UNCHANGED <<disk, caches, locks, generations, indexPending, locals>>

SetPending(t) ==
  /\ Goto(t, "schedule", "startIndexRefresher")
  /\ ~indexPending
  /\ indexPending' = TRUE
  /\ UNCHANGED <<disk, caches, locks, generations, locals>>

StartIndexRefresher(t) ==
  /\ pc[t] = "startIndexRefresher"
  /\ pc' = [pc EXCEPT ![t] = IF want[t] = "index" THEN "answer" ELSE "storeOverview",
                      ![IndexRefresher] = "enterRebuild"]
  /\ UNCHANGED <<disk, caches, locks, generations, indexPending, locals>>

\* Seeded defect: the handler of RuntimeError only logs.
StartFailsPendingKept(t) ==
  /\ Return(t, "startIndexRefresher")
  /\ "thread_start_fails" \in Faults
  /\ UNCHANGED <<disk, caches, locks, generations, indexPending, locals>>

StartIndexRefresherFails(t) ==
  /\ Return(t, "startIndexRefresher")
  /\ "thread_start_fails" \in Faults
  /\ indexPending' = FALSE
  /\ UNCHANGED <<disk, caches, locks, generations, locals>>

---------------------------------------------------------------------------
(* The cold build, and _rebuild_index_cache.                               *)
EnterIndex(t) ==
  /\ indexLock = Nothing
  /\ indexLock' = t
  /\ \/ Goto(t, "enterIndex", "recheckIndex")
     \/ Goto(t, "enterRebuild", "generation")
  /\ UNCHANGED <<disk, caches, discoveryLock, overviewLock, generations, indexPending, locals>>

RecheckIndexFresh(t) ==
  /\ Return(t, "recheckIndex")
  /\ index # Nothing
  /\ Have(t, index)
  /\ indexLock' = Nothing
  /\ UNCHANGED <<disk, caches, discoveryLock, overviewLock, generations, indexPending, want,
                 base, builtAt, refreshedAt, since>>

\* Empty still, or already expired again.
RecheckIndexStale(t) ==
  /\ Goto(t, "recheckIndex", "generation")
  /\ UNCHANGED <<disk, caches, locks, generations, indexPending, locals>>

ReadGeneration(t) ==
  /\ Goto(t, "generation", "discover")
  /\ builtAt' = [builtAt EXCEPT ![t] = indexGeneration]
  /\ UNCHANGED <<disk, caches, locks, generations, indexPending, want, rows, base,
                 refreshedAt, since>>

(* discover_runs: a cached list, or a walk of the tree under the lock.  A  *)
(* directory that appears during the walk may be seen or missed.           *)
DiscoverCached(t) ==
  /\ Goto(t, "discover", "summarise")
  /\ discoveryLock = Nothing
  /\ discovery # Nothing
  /\ Have(t, discovery)
  /\ base' = [base EXCEPT ![t] = OnDisk(Editors)]
  /\ UNCHANGED <<disk, caches, locks, generations, indexPending, want, builtAt,
                 refreshedAt, since>>

WalkBegins(t) ==
  /\ Goto(t, "discover", "walk")
  /\ discoveryLock = Nothing
  /\ discoveryLock' = t
  /\ base' = [base EXCEPT ![t] = OnDisk(Creators)]
  /\ UNCHANGED <<disk, caches, indexLock, overviewLock, generations, indexPending, want,
                 rows, builtAt, refreshedAt, since>>

WalkEnds(t) ==
  /\ Goto(t, "walk", "summarise")
  /\ \E missed \in SUBSET (OnDisk(Creators) \ base[t]) :
       /\ Have(t, OnDisk(Creators) \ missed)
       /\ discovery' = OnDisk(Creators) \ missed
  /\ discoveryLock' = Nothing
  /\ base' = [base EXCEPT ![t] = OnDisk(Editors)]
  /\ UNCHANGED <<disk, index, overview, indexLock, overviewLock, generations, indexPending,
                 want, builtAt, refreshedAt, since>>

(* list_dashboard_summaries reads the files of every discovered run. *)
Summarise(t) ==
  /\ Goto(t, "summarise", "storeIndex")
  /\ \E missed \in SUBSET (OnDisk(Editors) \ base[t]) :
       Have(t, rows[t] \cup (OnDisk(Editors) \ missed))
  /\ base' = [base EXCEPT ![t] = {}]
  /\ UNCHANGED <<disk, caches, locks, generations, indexPending, want, builtAt,
                 refreshedAt, since>>

AfterRebuild(t) == CASE want[t] = "index" -> "answer"
                     [] want[t] = "overview" -> "storeOverview"
                     [] want[t] = "refresh" -> "finish"

\* Seeded defect: the rebuilt index is stored without the generation check.
StoreIndexAlways(t) ==
  /\ Goto(t, "storeIndex", AfterRebuild(t))
  /\ index' = rows[t]
  /\ indexLock' = Nothing
  /\ builtAt' = [builtAt EXCEPT ![t] = 0]
  /\ UNCHANGED <<disk, discovery, overview, discoveryLock, overviewLock, generations,
                 indexPending, want, rows, base, refreshedAt, since>>

StoreIndex(t) ==
  /\ Goto(t, "storeIndex", AfterRebuild(t))
  /\ index' = IF builtAt[t] = indexGeneration THEN rows[t] ELSE index
  /\ indexLock' = Nothing
  /\ builtAt' = [builtAt EXCEPT ![t] = 0]
  /\ UNCHANGED <<disk, discovery, overview, discoveryLock, overviewLock, generations,
                 indexPending, want, rows, base, refreshedAt, since>>

\* The finally block of _refresh_index_cache_in_background.
FinishIndexRefresh(t) ==
  /\ Goto(t, "finish", "idle")
  /\ indexPending' = FALSE
  /\ Forget(t)
  /\ UNCHANGED <<disk, caches, locks, generations>>

(* An exception while the files are read leaves through every with block   *)
(* and finally clause; a request fails.                                    *)
BuildFails(t) ==
  /\ "build_fails" \in Faults
  /\ \/ pc[t] = "summarise" /\ indexLock' = Nothing
     \/ pc[t] = "storeOverview" /\ UNCHANGED indexLock
  /\ overviewLock' = IF want[t] = "overview" THEN Nothing ELSE overviewLock
  /\ pc' = [pc EXCEPT ![t] = IF want[t] = "refresh" THEN "finish" ELSE "idle"]
  /\ Forget(t)
  /\ UNCHANGED <<disk, caches, discoveryLock, generations, indexPending>>

IndexStep(t) ==
  \/ SeeIndexFresh(t) \/ SeeIndexExpired(t) \/ SeeIndexCold(t)
  \/ FindPending(t) \/ SetPending(t) \/ StartIndexRefresher(t) \/ StartIndexRefresherFails(t)
  \/ EnterIndex(t) \/ RecheckIndexFresh(t) \/ RecheckIndexStale(t)
  \/ ReadGeneration(t) \/ DiscoverCached(t) \/ WalkBegins(t) \/ WalkEnds(t)
  \/ Summarise(t) \/ StoreIndex(t) \/ FinishIndexRefresh(t) \/ BuildFails(t)

---------------------------------------------------------------------------
(* overview() and _refresh_overview_cache.                                 *)
SeeOverviewFresh(t) ==
  /\ Goto(t, "lookOverview", "answer")
  /\ overview # Nothing
  /\ Have(t, overview)
  /\ UNCHANGED <<disk, caches, locks, generations, indexPending, want, base, builtAt,
                 refreshedAt, since>>

SeeOverviewExpired(t) ==
  /\ Goto(t, "lookOverview", "tryOverview")
  /\ overview # Nothing
  /\ Have(t, overview)
  /\ UNCHANGED <<disk, caches, locks, generations, indexPending, want, base, builtAt,
                 refreshedAt, since>>

SeeOverviewCold(t) ==
  /\ Goto(t, "lookOverview", "enterOverview")
  /\ overview = Nothing
  /\ UNCHANGED <<disk, caches, locks, generations, indexPending, locals>>

\* acquire(blocking=False): somebody else is refreshing already.
OverviewBusy(t) ==
  /\ Goto(t, "tryOverview", "answer")
  /\ overviewLock # Nothing
  /\ UNCHANGED <<disk, caches, locks, generations, indexPending, locals>>

OverviewAcquired(t) ==
  /\ Goto(t, "tryOverview", "startOverviewRefresher")
  /\ overviewLock = Nothing
  /\ overviewLock' = OverviewRefresher
  /\ UNCHANGED <<disk, caches, discoveryLock, indexLock, generations, indexPending, locals>>

StartOverviewRefresher(t) ==
  /\ pc[t] = "startOverviewRefresher"
  /\ pc' = [pc EXCEPT ![t] = "answer", ![OverviewRefresher] = "refreshOverview"]
  /\ UNCHANGED <<disk, caches, locks, generations, indexPending, locals>>

\* Thread.start raises RuntimeError: the request fails, the lock stays taken.
StartOverviewRefresherFails(t) ==
  /\ Goto(t, "startOverviewRefresher", "idle")
  /\ "thread_start_fails" \in Faults
  /\ Forget(t)
  /\ UNCHANGED <<disk, caches, locks, generations, indexPending>>

EnterOverview(t) ==
  /\ Goto(t, "enterOverview", "recheckOverview")
  /\ overviewLock = Nothing
  /\ overviewLock' = t
  /\ UNCHANGED <<disk, caches, discoveryLock, indexLock, generations, indexPending, locals>>

RecheckOverviewWarm(t) ==
  /\ Goto(t, "recheckOverview", "answer")
  /\ overview # Nothing
  /\ Have(t, overview)
  /\ overviewLock' = Nothing
  /\ UNCHANGED <<disk, caches, discoveryLock, indexLock, generations, indexPending, want,
                 base, builtAt, refreshedAt, since>>

BeginOverview(t) ==
  /\ \/ overview = Nothing /\ Goto(t, "recheckOverview", "lookIndex")
     \/ Goto(t, "refreshOverview", "lookIndex")
  /\ refreshedAt' = [refreshedAt EXCEPT ![t] = overviewGeneration]
  /\ UNCHANGED <<disk, caches, locks, generations, indexPending, want, rows, base, builtAt,
                 since>>

\* Seeded defect: the response is stored without the generation check.
StoreOverviewAlways(t) ==
  /\ Goto(t, "storeOverview", IF t \in Readers THEN "answer" ELSE "idle")
  /\ overview' = rows[t]
  /\ overviewLock' = Nothing
  /\ refreshedAt' = [refreshedAt EXCEPT ![t] = 0]
  /\ Have(t, IF t \in Readers THEN rows[t] ELSE Nothing)
  /\ UNCHANGED <<disk, discovery, index, discoveryLock, indexLock, generations,
                 indexPending, want, base, builtAt, since>>

\* Seeded defect: the refresh lock is kept when an invalidation came in between.
StoreOverviewKeepsLock(t) ==
  /\ Goto(t, "storeOverview", IF t \in Readers THEN "answer" ELSE "idle")
  /\ overview' = IF refreshedAt[t] = overviewGeneration THEN rows[t] ELSE overview
  /\ overviewLock' = IF refreshedAt[t] = overviewGeneration THEN Nothing ELSE overviewLock
  /\ refreshedAt' = [refreshedAt EXCEPT ![t] = 0]
  /\ Have(t, IF t \in Readers THEN rows[t] ELSE Nothing)
  /\ UNCHANGED <<disk, discovery, index, discoveryLock, indexLock, generations,
                 indexPending, want, base, builtAt, since>>

StoreOverview(t) ==
  /\ Goto(t, "storeOverview", IF t \in Readers THEN "answer" ELSE "idle")
  /\ overview' = IF refreshedAt[t] = overviewGeneration THEN rows[t] ELSE overview
  /\ overviewLock' = Nothing
  /\ refreshedAt' = [refreshedAt EXCEPT ![t] = 0]
  /\ Have(t, IF t \in Readers THEN rows[t] ELSE Nothing)
  /\ UNCHANGED <<disk, discovery, index, discoveryLock, indexLock, generations,
                 indexPending, want, base, builtAt, since>>

OverviewStep(t) ==
  \/ SeeOverviewFresh(t) \/ SeeOverviewExpired(t) \/ SeeOverviewCold(t)
  \/ OverviewBusy(t) \/ OverviewAcquired(t)
  \/ StartOverviewRefresher(t) \/ StartOverviewRefresherFails(t)
  \/ EnterOverview(t) \/ RecheckOverviewWarm(t) \/ BeginOverview(t) \/ StoreOverview(t)

---------------------------------------------------------------------------
(* Requests come in and are answered. *)
Request(t, kind) ==
  /\ Goto(t, "idle", IF kind = "index" THEN "lookIndex" ELSE "lookOverview")
  /\ want' = [want EXCEPT ![t] = kind]
  /\ since' = [since EXCEPT ![t] = Done]
  /\ UNCHANGED <<disk, caches, locks, generations, indexPending, rows, base, builtAt,
                 refreshedAt>>

Answer(t) ==
  /\ Goto(t, "answer", "idle")
  /\ Forget(t)
  /\ UNCHANGED <<disk, caches, locks, generations, indexPending>>

Serve(t) == IndexStep(t) \/ OverviewStep(t) \/ Answer(t)

Next ==
  \/ \E m \in Mutators : Mutate(m)
  \/ \E t \in Readers, kind \in {"index", "overview"} : Request(t, kind)
  \/ \E t \in Builders : Serve(t)

Spec == Init /\ [][Next]_vars

(* Threads run, and a lock is not kept from a waiting thread for ever.     *)
Fairness ==
  /\ \A t \in Builders : WF_vars(Serve(t)) /\ SF_vars(EnterIndex(t) \/ EnterOverview(t))
  /\ \A t \in Builders : SF_vars(DiscoverCached(t) \/ WalkBegins(t))
FairSpec == Spec /\ Fairness

---------------------------------------------------------------------------
PCs == {"idle", "answer", "lookIndex", "schedule", "startIndexRefresher", "enterIndex",
        "recheckIndex", "enterRebuild", "generation", "discover", "walk", "summarise",
        "storeIndex", "finish", "lookOverview", "tryOverview", "startOverviewRefresher",
        "enterOverview", "recheckOverview", "refreshOverview", "storeOverview"}

TypeOK ==
  /\ disk \subseteq Mutators
  /\ {discovery, index, overview} \subseteq {Nothing} \cup SUBSET Mutators
  /\ {discoveryLock, indexLock, overviewLock} \subseteq Builders \cup {Nothing}
  /\ indexGeneration \in Nat /\ overviewGeneration \in Nat
  /\ indexPending \in BOOLEAN
  /\ DOMAIN pc = Mutators \cup Builders
  /\ \A m \in Mutators : pc[m] \in {"write", "discovery", "index", "overview", "done"}
  /\ \A t \in Builders : pc[t] \in PCs
  /\ want \in [Builders -> {"index", "overview", "refresh"}]
  /\ rows \in [Builders -> {Nothing} \cup SUBSET Mutators]
  /\ base \in [Builders -> SUBSET Mutators]
  /\ builtAt \in [Builders -> Nat] /\ refreshedAt \in [Builders -> Nat]
  /\ since \in [Builders -> SUBSET Mutators]

(* Once a request has invalidated a cache, no rebuild that began before it *)
(* can put older rows back, nor can the overview, which is built from      *)
(* index rows that may themselves come from the cache: this is what the    *)
(* order index first, overview second of _invalidate_summary_cache buys    *)
(* (app.py 228-238, 314-322, 690-736).                                     *)
IndexInvalidated == {m \in Mutators : pc[m] \in {"overview", "done"}}
CachesNeverStale ==
  /\ index # Nothing => IndexInvalidated \subseteq index
  /\ overview # Nothing => Done \subseteq overview

(* Read your writes: a request answered from any cache, cold build or      *)
(* expired value shows every change whose request had completed when it    *)
(* came in (run_service.py 372-374, app.py 355-372, 705-736).              *)
ReadYourWrites ==
  \A t \in Readers : pc[t] = "answer" => since[t] \subseteq rows[t]

(* A pending index refresh is somebody's: the flag that keeps others from  *)
(* starting one is never left behind (app.py 325-352).                     *)
PendingRefreshIsAlive ==
  indexPending => \/ \E t \in Builders : pc[t] = "startIndexRefresher"
                  \/ pc[IndexRefresher] # "idle"

(* Every request is answered or fails, whatever it has to wait for         *)
(* (app.py 723-736).                                                       *)
EveryRequestEnds == \A t \in Readers : pc[t] # "idle" ~> pc[t] = "idle"
===========================================================================
