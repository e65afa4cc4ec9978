------------------------ MODULE RunIndexCache_proofs ------------------------
(***************************************************************************)
(* Proofs about RunIndexCache, for any number of requests, builders and    *)
(* mutators and whatever faults occur: no cache is stale, a request reads  *)
(* what was completed before it, and the pending flag is somebody's.       *)
(***************************************************************************)
EXTENDS RunIndexCache, TLAPS

(* A mutator passes through these sets one after the other.                *)
DiscoveryInvalidated == {m \in Mutators : pc[m] \in {"index", "overview", "done"}}

(* What the rows of a builder have to show: to its caller, and to those    *)
(* who will find them in the index.                                        *)
OwedToCaller(t) ==
  since[t] \cup (IF want[t] = "overview" /\ refreshedAt[t] = overviewGeneration
                 THEN Done ELSE {})
Owed(t) ==
  OwedToCaller(t) \cup (IF builtAt[t] = indexGeneration THEN IndexInvalidated ELSE {})

Duty(t) ==
  /\ since[t] \subseteq Done
  /\ builtAt[t] \in Nat /\ builtAt[t] <= indexGeneration
  /\ refreshedAt[t] \in Nat /\ refreshedAt[t] <= overviewGeneration
  /\ pc[t] = "walk" => /\ discoveryLock = t
                       /\ DiscoveryInvalidated \cap Creators \subseteq base[t]
  /\ pc[t] = "summarise" => /\ Owed(t) \cap Creators \subseteq rows[t]
                            /\ Owed(t) \cap Editors \subseteq base[t]
  /\ pc[t] = "storeIndex" => Owed(t) \subseteq rows[t]
  /\ pc[t] \in {"schedule", "startIndexRefresher", "storeOverview"}
       => OwedToCaller(t) \subseteq rows[t]
  /\ pc[t] \in {"tryOverview", "startOverviewRefresher", "answer"}
       => since[t] \subseteq rows[t]
  /\ pc[t] = "storeOverview" => want[t] = "overview"

Domains ==
  /\ DOMAIN pc = Mutators \cup Builders
  /\ want \in [Builders -> {"index", "overview", "refresh"}]
  /\ DOMAIN rows = Builders /\ DOMAIN base = Builders
  /\ DOMAIN builtAt = Builders /\ DOMAIN refreshedAt = Builders /\ DOMAIN since = Builders
  /\ indexGeneration \in Nat /\ overviewGeneration \in Nat

OnDiskWhenWritten == \A m \in Mutators : pc[m] # "write" => m \in disk
DiscoveryNeverStale ==
  discovery # Nothing => DiscoveryInvalidated \cap Creators \subseteq discovery

(* The index refresher never leaves its rebuild for a request's business.  *)
RefresherRefreshes ==
  /\ \A t \in Builders : want[t] = "refresh" <=> t = IndexRefresher
  /\ pc[IndexRefresher] \in {"idle", "enterRebuild", "generation", "discover", "walk",
                             "summarise", "storeIndex", "finish"}
  /\ \A t \in Builders : pc[t] = "enterRebuild" => t = IndexRefresher

(* The overview's lock is its builder's, and is passed on to the refresher  *)
(* before that is started.                                                  *)
Building == {"recheckOverview", "refreshOverview", "lookIndex", "schedule",
             "startIndexRefresher", "enterIndex", "recheckIndex", "generation", "discover",
             "walk", "summarise", "storeIndex", "storeOverview"}
OneOverviewBuilder ==
  /\ want[OverviewRefresher] = "overview"
  /\ \A t \in Builders : pc[t] \in {"lookOverview", "enterOverview", "recheckOverview"}
       => want[t] = "overview"
  /\ \A t \in Builders : want[t] = "overview" /\ pc[t] \in Building => overviewLock = t
  /\ \A t \in Builders : pc[t] = "startOverviewRefresher"
       => overviewLock = OverviewRefresher /\ pc[OverviewRefresher] = "idle"
  /\ \A t, u \in Builders : pc[t] = "startOverviewRefresher" /\ pc[u] = pc[t] => t = u
  /\ pc[OverviewRefresher] = "idle" \/ pc[OverviewRefresher] \in Building \ {"recheckOverview"}

IInv ==
  /\ Domains
  /\ OnDiskWhenWritten
  /\ DiscoveryNeverStale
  /\ CachesNeverStale
  /\ RefresherRefreshes
  /\ OneOverviewBuilder
  /\ PendingRefreshIsAlive
  /\ \A t \in Builders : Duty(t)

-----------------------------------------------------------------------------

(* What a builder's step leaves alone.                                     *)
StepOf(t) ==
  /\ disk' = disk /\ generations' = generations
  /\ Domains'
  /\ \A m \in Mutators : pc'[m] = pc[m]
  /\ discoveryLock' = discoveryLock \/ discoveryLock \in {t, Nothing}
  /\ \A u \in Builders : u # t =>
       /\ pc'[u] = pc[u] \/ pc'[u] \in {"enterRebuild", "refreshOverview"}
       /\ want'[u] = want[u] /\ rows'[u] = rows[u] /\ base'[u] = base[u]
       /\ builtAt'[u] = builtAt[u] /\ refreshedAt'[u] = refreshedAt[u]
       /\ since'[u] = since[u]

LEMMA Stages ==
  ASSUME IInv
  PROVE  /\ Done \subseteq IndexInvalidated
         /\ IndexInvalidated \subseteq DiscoveryInvalidated
         /\ DiscoveryInvalidated \subseteq disk
         /\ DiscoveryInvalidated \subseteq Mutators
         /\ \A t \in Builders : Owed(t) \subseteq IndexInvalidated
  BY DEF IInv, OnDiskWhenWritten, Done, IndexInvalidated, DiscoveryInvalidated, Duty, Owed,
         OwedToCaller

(* The sets of mutators stay, and so do the duties of the other builders.  *)
LEMMA Frame ==
  ASSUME IInv, NEW t \in Builders, StepOf(t)
  PROVE  /\ Done' = Done
         /\ IndexInvalidated' = IndexInvalidated
         /\ DiscoveryInvalidated' = DiscoveryInvalidated
         /\ OnDiskWhenWritten'
         /\ \A u \in Builders : u # t => Duty(u)'
<1>1. /\ Done' = Done
      /\ IndexInvalidated' = IndexInvalidated
      /\ DiscoveryInvalidated' = DiscoveryInvalidated
  BY DEF StepOf, Done, IndexInvalidated, DiscoveryInvalidated
<1>2. OnDiskWhenWritten'
  BY DEF IInv, StepOf, OnDiskWhenWritten
<1>3. ASSUME NEW u \in Builders, u # t
      PROVE  Duty(u)'
  <2>1. Duty(u)
    BY DEF IInv
  <2>2. /\ OwedToCaller(u)' = OwedToCaller(u)
        /\ Owed(u)' = Owed(u)
    BY <1>1, <1>3 DEF StepOf, generations, OwedToCaller, Owed
  <2>3. pc'[u] = pc[u] \/ pc'[u] \in {"enterRebuild", "refreshOverview"}
    BY <1>3 DEF StepOf
  <2>4. pc[u] = "walk" => discoveryLock' = u
    BY <1>3, <2>1, ConstantsOK DEF StepOf, Duty
  <2> QED
    BY <1>1, <1>3, <2>1, <2>2, <2>3, <2>4 DEF StepOf, generations, Duty
<1> QED
  BY <1>1, <1>2, <1>3

(* The steps of a builder: each takes its own duty to the next stage.       *)

LEMMA LookSteps ==
  ASSUME IInv, NEW t \in Builders,
         \/ SeeIndexFresh(t) \/ SeeIndexExpired(t) \/ SeeIndexCold(t)
         \/ FindPending(t) \/ SetPending(t) \/ StartIndexRefresher(t)
         \/ StartIndexRefresherFails(t)
  PROVE  IInv'
<1>1. CASE SeeIndexFresh(t)
  <2>1. StepOf(t)
    BY <1>1, ConstantsOK DEF SeeIndexFresh, Return, Goto, Have, IInv, Domains,
           RefresherRefreshes, StepOf, caches, locks, generations, locals
  <2>2. Duty(t)'
    BY <1>1, <2>1, Frame, Stages, ConstantsOK DEF SeeIndexFresh, Return, Goto, Have,
           IInv, Domains, Duty, Owed, OwedToCaller, OnDisk, DiscoveryNeverStale,
           CachesNeverStale, RefresherRefreshes, caches, locks, generations, locals
  <2>3. DiscoveryNeverStale' /\ CachesNeverStale'
    BY <1>1, <2>1, Frame DEF SeeIndexFresh, IInv, DiscoveryNeverStale,
           CachesNeverStale, caches
  <2>4. RefresherRefreshes' /\ PendingRefreshIsAlive'
    BY <1>1, ConstantsOK DEF SeeIndexFresh, Return, Goto, Have, IInv, Domains,
           RefresherRefreshes, OneOverviewBuilder, PendingRefreshIsAlive, Builders,
           Purpose, IndexRefresher, OverviewRefresher, locals
  <2>5. OneOverviewBuilder'
    BY <1>1, ConstantsOK DEF SeeIndexFresh, Return, Goto, Have, IInv, Domains,
           RefresherRefreshes, OneOverviewBuilder, Building, Builders, Purpose,
           IndexRefresher, OverviewRefresher, locks, locals
  <2> QED
    BY <2>1, <2>2, <2>3, <2>4, <2>5, Frame DEF IInv, StepOf
<1>2. CASE SeeIndexExpired(t)
  <2>1. StepOf(t)
    BY <1>2, ConstantsOK DEF SeeIndexExpired, Goto, Have, IInv, Domains,
           RefresherRefreshes, StepOf, caches, locks, generations, locals
  <2>2. Duty(t)'
    BY <1>2, <2>1, Frame, Stages, ConstantsOK DEF SeeIndexExpired, Goto, Have, IInv,
           Domains, Duty, Owed, OwedToCaller, OnDisk, DiscoveryNeverStale,
           CachesNeverStale, RefresherRefreshes, caches, locks, generations, locals
  <2>3. DiscoveryNeverStale' /\ CachesNeverStale'
    BY <1>2, <2>1, Frame DEF SeeIndexExpired, IInv, DiscoveryNeverStale,
           CachesNeverStale, caches
  <2>4. RefresherRefreshes' /\ PendingRefreshIsAlive'
    BY <1>2, ConstantsOK DEF SeeIndexExpired, Goto, Have, IInv, Domains,
           RefresherRefreshes, OneOverviewBuilder, PendingRefreshIsAlive, Builders,
           Purpose, IndexRefresher, OverviewRefresher, locals
  <2>5. OneOverviewBuilder'
    BY <1>2, ConstantsOK DEF SeeIndexExpired, Goto, Have, IInv, Domains,
           RefresherRefreshes, OneOverviewBuilder, Building, Builders, Purpose,
           IndexRefresher, OverviewRefresher, locks, locals
  <2> QED
    BY <2>1, <2>2, <2>3, <2>4, <2>5, Frame DEF IInv, StepOf
<1>3. CASE SeeIndexCold(t)
  <2>1. StepOf(t)
    BY <1>3, ConstantsOK DEF SeeIndexCold, Goto, IInv, Domains, RefresherRefreshes,
           StepOf, caches, locks, generations, locals
  <2>2. Duty(t)'
    BY <1>3, <2>1, Frame, Stages, ConstantsOK DEF SeeIndexCold, Goto, IInv, Domains,
           Duty, Owed, OwedToCaller, OnDisk, DiscoveryNeverStale, CachesNeverStale,
           RefresherRefreshes, caches, locks, generations, locals
  <2>3. DiscoveryNeverStale' /\ CachesNeverStale'
    BY <1>3, <2>1, Frame DEF SeeIndexCold, IInv, DiscoveryNeverStale,
           CachesNeverStale, caches
  <2>4. RefresherRefreshes' /\ PendingRefreshIsAlive'
    BY <1>3, ConstantsOK DEF SeeIndexCold, Goto, IInv, Domains, RefresherRefreshes,
           OneOverviewBuilder, PendingRefreshIsAlive, Builders, Purpose,
           IndexRefresher, OverviewRefresher, locals
  <2>5. OneOverviewBuilder'
    BY <1>3, ConstantsOK DEF SeeIndexCold, Goto, IInv, Domains, RefresherRefreshes,
           OneOverviewBuilder, Building, Builders, Purpose, IndexRefresher,
           OverviewRefresher, locks, locals
  <2> QED
    BY <2>1, <2>2, <2>3, <2>4, <2>5, Frame DEF IInv, StepOf
<1>4. CASE FindPending(t)
  <2>1. StepOf(t)
    BY <1>4, ConstantsOK DEF FindPending, Return, Goto, IInv, Domains,
           RefresherRefreshes, StepOf, caches, locks, generations, locals
  <2>2. Duty(t)'
    BY <1>4, <2>1, Frame, Stages, ConstantsOK DEF FindPending, Return, Goto, IInv,
           Domains, Duty, Owed, OwedToCaller, OnDisk, DiscoveryNeverStale,
           CachesNeverStale, RefresherRefreshes, caches, locks, generations, locals
  <2>3. DiscoveryNeverStale' /\ CachesNeverStale'
    BY <1>4, <2>1, Frame DEF FindPending, IInv, DiscoveryNeverStale, CachesNeverStale,
           caches
  <2>4. RefresherRefreshes' /\ PendingRefreshIsAlive'
    BY <1>4, ConstantsOK DEF FindPending, Return, Goto, IInv, Domains,
           RefresherRefreshes, OneOverviewBuilder, PendingRefreshIsAlive, Builders,
           Purpose, IndexRefresher, OverviewRefresher, locals
  <2>5. OneOverviewBuilder'
    BY <1>4, ConstantsOK DEF FindPending, Return, Goto, IInv, Domains,
           RefresherRefreshes, OneOverviewBuilder, Building, Builders, Purpose,
           IndexRefresher, OverviewRefresher, locks, locals
  <2> QED
    BY <2>1, <2>2, <2>3, <2>4, <2>5, Frame DEF IInv, StepOf
<1>5. CASE SetPending(t)
  <2>1. StepOf(t)
    BY <1>5, ConstantsOK DEF SetPending, Goto, IInv, Domains, RefresherRefreshes,
           StepOf, caches, locks, generations, locals
  <2>2. Duty(t)'
    BY <1>5, <2>1, Frame, Stages, ConstantsOK DEF SetPending, Goto, IInv, Domains,
           Duty, Owed, OwedToCaller, OnDisk, DiscoveryNeverStale, CachesNeverStale,
           RefresherRefreshes, caches, locks, generations, locals
  <2>3. DiscoveryNeverStale' /\ CachesNeverStale'
    BY <1>5, <2>1, Frame DEF SetPending, IInv, DiscoveryNeverStale, CachesNeverStale,
           caches
  <2>4. RefresherRefreshes' /\ PendingRefreshIsAlive'
    BY <1>5, ConstantsOK DEF SetPending, Goto, IInv, Domains, RefresherRefreshes,
           OneOverviewBuilder, PendingRefreshIsAlive, Builders, Purpose,
           IndexRefresher, OverviewRefresher, locals
  <2>5. OneOverviewBuilder'
    BY <1>5, ConstantsOK DEF SetPending, Goto, IInv, Domains, RefresherRefreshes,
           OneOverviewBuilder, Building, Builders, Purpose, IndexRefresher,
           OverviewRefresher, locks, locals
  <2> QED
    BY <2>1, <2>2, <2>3, <2>4, <2>5, Frame DEF IInv, StepOf
<1>6. CASE StartIndexRefresher(t)
  <2>1. StepOf(t)
    BY <1>6, ConstantsOK DEF StartIndexRefresher, IInv, Domains, RefresherRefreshes,
           StepOf, caches, locks, generations, locals, Builders, IndexRefresher,
           OverviewRefresher
  <2>2. Duty(t)'
    BY <1>6, <2>1, Frame, Stages, ConstantsOK DEF StartIndexRefresher, IInv, Domains,
           Duty, Owed, OwedToCaller, OnDisk, DiscoveryNeverStale, CachesNeverStale,
           RefresherRefreshes, caches, locks, generations, locals, IndexRefresher,
           OverviewRefresher
  <2>3. DiscoveryNeverStale' /\ CachesNeverStale'
    BY <1>6, <2>1, Frame DEF StartIndexRefresher, IInv, DiscoveryNeverStale,
           CachesNeverStale, caches
  <2>4. RefresherRefreshes' /\ PendingRefreshIsAlive'
    BY <1>6, ConstantsOK DEF StartIndexRefresher, IInv, Domains, RefresherRefreshes,
           OneOverviewBuilder, PendingRefreshIsAlive, Builders, Purpose,
           IndexRefresher, OverviewRefresher, locals
  <2>5. OneOverviewBuilder'
    BY <1>6, ConstantsOK DEF StartIndexRefresher, IInv, Domains, RefresherRefreshes,
           OneOverviewBuilder, Building, Builders, Purpose, IndexRefresher,
           OverviewRefresher, locks, locals
  <2> QED
    BY <2>1, <2>2, <2>3, <2>4, <2>5, Frame DEF IInv, StepOf
<1>7. CASE StartIndexRefresherFails(t)
  <2>1. StepOf(t)
    BY <1>7, ConstantsOK DEF StartIndexRefresherFails, Return, Goto, IInv, Domains,
           RefresherRefreshes, StepOf, caches, locks, generations, locals
  <2>2. Duty(t)'
    BY <1>7, <2>1, Frame, Stages, ConstantsOK DEF StartIndexRefresherFails, Return,
           Goto, IInv, Domains, Duty, Owed, OwedToCaller, OnDisk, DiscoveryNeverStale,
           CachesNeverStale, RefresherRefreshes, caches, locks, generations, locals
  <2>3. DiscoveryNeverStale' /\ CachesNeverStale'
    BY <1>7, <2>1, Frame DEF StartIndexRefresherFails, IInv, DiscoveryNeverStale,
           CachesNeverStale, caches
  <2>4. RefresherRefreshes' /\ PendingRefreshIsAlive'
    BY <1>7, ConstantsOK DEF StartIndexRefresherFails, Return, Goto, IInv, Domains,
           RefresherRefreshes, OneOverviewBuilder, PendingRefreshIsAlive, Builders,
           Purpose, IndexRefresher, OverviewRefresher, locals
  <2>5. OneOverviewBuilder'
    BY <1>7, ConstantsOK DEF StartIndexRefresherFails, Return, Goto, IInv, Domains,
           RefresherRefreshes, OneOverviewBuilder, Building, Builders, Purpose,
           IndexRefresher, OverviewRefresher, locks, locals
  <2> QED
    BY <2>1, <2>2, <2>3, <2>4, <2>5, Frame DEF IInv, StepOf
<1> QED
  BY <1>1, <1>2, <1>3, <1>4, <1>5, <1>6, <1>7

LEMMA RebuildSteps ==
  ASSUME IInv, NEW t \in Builders,
         \/ EnterIndex(t) \/ RecheckIndexFresh(t) \/ RecheckIndexStale(t)
         \/ ReadGeneration(t) \/ DiscoverCached(t) \/ WalkBegins(t)
         \/ WalkEnds(t) \/ Summarise(t) \/ StoreIndex(t)
         \/ FinishIndexRefresh(t) \/ BuildFails(t)
  PROVE  IInv'
<1>1. CASE EnterIndex(t)
  <2>1. StepOf(t)
    BY <1>1, ConstantsOK DEF EnterIndex, Goto, IInv, Domains, RefresherRefreshes,
           StepOf, caches, locks, generations, locals
  <2>2. Duty(t)'
    BY <1>1, <2>1, Frame, Stages, ConstantsOK DEF EnterIndex, Goto, IInv, Domains,
           Duty, Owed, OwedToCaller, OnDisk, DiscoveryNeverStale, CachesNeverStale,
           RefresherRefreshes, caches, locks, generations, locals
  <2>3. DiscoveryNeverStale' /\ CachesNeverStale'
    BY <1>1, <2>1, Frame DEF EnterIndex, IInv, DiscoveryNeverStale, CachesNeverStale,
           caches
  <2>4. RefresherRefreshes' /\ PendingRefreshIsAlive'
    BY <1>1, ConstantsOK DEF EnterIndex, Goto, IInv, Domains, RefresherRefreshes,
           OneOverviewBuilder, PendingRefreshIsAlive, Builders, Purpose,
           IndexRefresher, OverviewRefresher, locals
  <2>5. OneOverviewBuilder'
    BY <1>1, ConstantsOK DEF EnterIndex, Goto, IInv, Domains, RefresherRefreshes,
           OneOverviewBuilder, Building, Builders, Purpose, IndexRefresher,
           OverviewRefresher, locks, locals
  <2> QED
    BY <2>1, <2>2, <2>3, <2>4, <2>5, Frame DEF IInv, StepOf
<1>2. CASE RecheckIndexFresh(t)
  <2>1. StepOf(t)
    BY <1>2, ConstantsOK DEF RecheckIndexFresh, Return, Goto, Have, IInv, Domains,
           RefresherRefreshes, StepOf, caches, locks, generations, locals
  <2>2. Duty(t)'
    BY <1>2, <2>1, Frame, Stages, ConstantsOK DEF RecheckIndexFresh, Return, Goto,
           Have, IInv, Domains, Duty, Owed, OwedToCaller, OnDisk, DiscoveryNeverStale,
           CachesNeverStale, RefresherRefreshes, caches, locks, generations, locals
  <2>3. DiscoveryNeverStale' /\ CachesNeverStale'
    BY <1>2, <2>1, Frame DEF RecheckIndexFresh, IInv, DiscoveryNeverStale,
           CachesNeverStale, caches
  <2>4. RefresherRefreshes' /\ PendingRefreshIsAlive'
    BY <1>2, ConstantsOK DEF RecheckIndexFresh, Return, Goto, Have, IInv, Domains,
           RefresherRefreshes, OneOverviewBuilder, PendingRefreshIsAlive, Builders,
           Purpose, IndexRefresher, OverviewRefresher, locals
  <2>5. OneOverviewBuilder'
    BY <1>2, ConstantsOK DEF RecheckIndexFresh, Return, Goto, Have, IInv, Domains,
           RefresherRefreshes, OneOverviewBuilder, Building, Builders, Purpose,
           IndexRefresher, OverviewRefresher, locks, locals
  <2> QED
    BY <2>1, <2>2, <2>3, <2>4, <2>5, Frame DEF IInv, StepOf
<1>3. CASE RecheckIndexStale(t)
  <2>1. StepOf(t)
    BY <1>3, ConstantsOK DEF RecheckIndexStale, Goto, IInv, Domains,
           RefresherRefreshes, StepOf, caches, locks, generations, locals
  <2>2. Duty(t)'
    BY <1>3, <2>1, Frame, Stages, ConstantsOK DEF RecheckIndexStale, Goto, IInv,
           Domains, Duty, Owed, OwedToCaller, OnDisk, DiscoveryNeverStale,
           CachesNeverStale, RefresherRefreshes, caches, locks, generations, locals
  <2>3. DiscoveryNeverStale' /\ CachesNeverStale'
    BY <1>3, <2>1, Frame DEF RecheckIndexStale, IInv, DiscoveryNeverStale,
           CachesNeverStale, caches
  <2>4. RefresherRefreshes' /\ PendingRefreshIsAlive'
    BY <1>3, ConstantsOK DEF RecheckIndexStale, Goto, IInv, Domains,
           RefresherRefreshes, OneOverviewBuilder, PendingRefreshIsAlive, Builders,
           Purpose, IndexRefresher, OverviewRefresher, locals
  <2>5. OneOverviewBuilder'
    BY <1>3, ConstantsOK DEF RecheckIndexStale, Goto, IInv, Domains,
           RefresherRefreshes, OneOverviewBuilder, Building, Builders, Purpose,
           IndexRefresher, OverviewRefresher, locks, locals
  <2> QED
    BY <2>1, <2>2, <2>3, <2>4, <2>5, Frame DEF IInv, StepOf
<1>4. CASE ReadGeneration(t)
  <2>1. StepOf(t)
    BY <1>4, ConstantsOK DEF ReadGeneration, Goto, IInv, Domains, RefresherRefreshes,
           StepOf, caches, locks, generations, locals
  <2>2. Duty(t)'
    BY <1>4, <2>1, Frame, Stages, ConstantsOK DEF ReadGeneration, Goto, IInv, Domains,
           Duty, Owed, OwedToCaller, OnDisk, DiscoveryNeverStale, CachesNeverStale,
           RefresherRefreshes, caches, locks, generations, locals
  <2>3. DiscoveryNeverStale' /\ CachesNeverStale'
    BY <1>4, <2>1, Frame DEF ReadGeneration, IInv, DiscoveryNeverStale,
           CachesNeverStale, caches
  <2>4. RefresherRefreshes' /\ PendingRefreshIsAlive'
    BY <1>4, ConstantsOK DEF ReadGeneration, Goto, IInv, Domains, RefresherRefreshes,
           OneOverviewBuilder, PendingRefreshIsAlive, Builders, Purpose,
           IndexRefresher, OverviewRefresher, locals
  <2>5. OneOverviewBuilder'
    BY <1>4, ConstantsOK DEF ReadGeneration, Goto, IInv, Domains, RefresherRefreshes,
           OneOverviewBuilder, Building, Builders, Purpose, IndexRefresher,
           OverviewRefresher, locks, locals
  <2> QED
    BY <2>1, <2>2, <2>3, <2>4, <2>5, Frame DEF IInv, StepOf
<1>5. CASE DiscoverCached(t)
  <2>1. StepOf(t)
    BY <1>5, ConstantsOK DEF DiscoverCached, Goto, Have, IInv, Domains,
           RefresherRefreshes, StepOf, caches, locks, generations, locals
  <2>2. Duty(t)'
    BY <1>5, <2>1, Frame, Stages, ConstantsOK DEF DiscoverCached, Goto, Have, IInv,
           Domains, Duty, Owed, OwedToCaller, OnDisk, DiscoveryNeverStale,
           CachesNeverStale, RefresherRefreshes, caches, locks, generations, locals
  <2>3. DiscoveryNeverStale' /\ CachesNeverStale'
    BY <1>5, <2>1, Frame DEF DiscoverCached, IInv, DiscoveryNeverStale,
           CachesNeverStale, caches
  <2>4. RefresherRefreshes' /\ PendingRefreshIsAlive'
    BY <1>5, ConstantsOK DEF DiscoverCached, Goto, Have, IInv, Domains,
           RefresherRefreshes, OneOverviewBuilder, PendingRefreshIsAlive, Builders,
           Purpose, IndexRefresher, OverviewRefresher, locals
  <2>5. OneOverviewBuilder'
    BY <1>5, ConstantsOK DEF DiscoverCached, Goto, Have, IInv, Domains,
           RefresherRefreshes, OneOverviewBuilder, Building, Builders, Purpose,
           IndexRefresher, OverviewRefresher, locks, locals
  <2> QED
    BY <2>1, <2>2, <2>3, <2>4, <2>5, Frame DEF IInv, StepOf
<1>6. CASE WalkBegins(t)
  <2>1. StepOf(t)
    BY <1>6, ConstantsOK DEF WalkBegins, Goto, IInv, Domains, RefresherRefreshes,
           StepOf, caches, locks, generations, locals
  <2>2. Duty(t)'
    BY <1>6, <2>1, Frame, Stages, ConstantsOK DEF WalkBegins, Goto, IInv, Domains,
           Duty, Owed, OwedToCaller, OnDisk, DiscoveryNeverStale, CachesNeverStale,
           RefresherRefreshes, caches, locks, generations, locals
  <2>3. DiscoveryNeverStale' /\ CachesNeverStale'
    BY <1>6, <2>1, Frame DEF WalkBegins, IInv, DiscoveryNeverStale, CachesNeverStale,
           caches
  <2>4. RefresherRefreshes' /\ PendingRefreshIsAlive'
    BY <1>6, ConstantsOK DEF WalkBegins, Goto, IInv, Domains, RefresherRefreshes,
           OneOverviewBuilder, PendingRefreshIsAlive, Builders, Purpose,
           IndexRefresher, OverviewRefresher, locals
  <2>5. OneOverviewBuilder'
    BY <1>6, ConstantsOK DEF WalkBegins, Goto, IInv, Domains, RefresherRefreshes,
           OneOverviewBuilder, Building, Builders, Purpose, IndexRefresher,
           OverviewRefresher, locks, locals
  <2> QED
    BY <2>1, <2>2, <2>3, <2>4, <2>5, Frame DEF IInv, StepOf
<1>7. CASE WalkEnds(t)
  <2>1. StepOf(t)
    BY <1>7, ConstantsOK DEF WalkEnds, Goto, Have, IInv, Domains, RefresherRefreshes,
           StepOf, caches, locks, generations, locals, Duty
  <2>2. Duty(t)'
    BY <1>7, <2>1, Frame, Stages, ConstantsOK DEF WalkEnds, Goto, Have, IInv, Domains,
           Duty, Owed, OwedToCaller, OnDisk, DiscoveryNeverStale, CachesNeverStale,
           RefresherRefreshes, caches, locks, generations, locals
  <2>3. DiscoveryNeverStale' /\ CachesNeverStale'
    BY <1>7, <2>1, Frame, Stages DEF WalkEnds, Goto, Have, IInv, DiscoveryNeverStale,
           CachesNeverStale, caches, Duty, Owed, OwedToCaller, OnDisk, Domains,
           generations
  <2>4. RefresherRefreshes' /\ PendingRefreshIsAlive'
    BY <1>7, ConstantsOK DEF WalkEnds, Goto, Have, IInv, Domains, RefresherRefreshes,
           OneOverviewBuilder, PendingRefreshIsAlive, Builders, Purpose,
           IndexRefresher, OverviewRefresher, locals
  <2>5. OneOverviewBuilder'
    BY <1>7, ConstantsOK DEF WalkEnds, Goto, Have, IInv, Domains, RefresherRefreshes,
           OneOverviewBuilder, Building, Builders, Purpose, IndexRefresher,
           OverviewRefresher, locks, locals
  <2> QED
    BY <2>1, <2>2, <2>3, <2>4, <2>5, Frame DEF IInv, StepOf
<1>8. CASE Summarise(t)
  <2>1. StepOf(t)
    BY <1>8, ConstantsOK DEF Summarise, Goto, Have, IInv, Domains, RefresherRefreshes,
           StepOf, caches, locks, generations, locals
  <2>2. Duty(t)'
    <3>1. PICK missed \in SUBSET (OnDisk(Editors) \ base[t]) :
            rows' = [rows EXCEPT ![t] = rows[t] \cup (OnDisk(Editors) \ missed)]
      BY <1>8 DEF Summarise, Have
    <3>2. pc[t] = "summarise" /\ pc'[t] = "storeIndex"
      BY <1>8 DEF Summarise, Goto, IInv, Domains
    <3>3. /\ Owed(t) \cap Creators \subseteq rows[t]
          /\ Owed(t) \cap Editors \subseteq base[t]
          /\ Owed(t) \subseteq disk
          /\ Owed(t) \subseteq Mutators
      BY <3>2, Stages DEF IInv, Duty
    <3>4. rows'[t] = rows[t] \cup (OnDisk(Editors) \ missed)
      BY <3>1 DEF IInv, Domains
    <3>5. Owed(t) \subseteq rows'[t]
      BY <3>3, <3>4 DEF OnDisk, Mutators
    <3>6. Owed(t)' = Owed(t)
      BY <1>8, <2>1, Frame DEF Summarise, Owed, OwedToCaller, generations
    <3> QED
      BY <1>8, <2>1, <3>2, <3>5, <3>6, Frame
      DEF Summarise, IInv, Duty, generations, locks
  <2>3. DiscoveryNeverStale' /\ CachesNeverStale'
    BY <1>8, <2>1, Frame DEF Summarise, IInv, DiscoveryNeverStale, CachesNeverStale,
           caches
  <2>4. RefresherRefreshes' /\ PendingRefreshIsAlive'
    BY <1>8, ConstantsOK DEF Summarise, Goto, Have, IInv, Domains, RefresherRefreshes,
           OneOverviewBuilder, PendingRefreshIsAlive, Builders, Purpose,
           IndexRefresher, OverviewRefresher, locals
  <2>5. OneOverviewBuilder'
    BY <1>8, ConstantsOK DEF Summarise, Goto, Have, IInv, Domains, RefresherRefreshes,
           OneOverviewBuilder, Building, Builders, Purpose, IndexRefresher,
           OverviewRefresher, locks, locals
  <2> QED
    BY <2>1, <2>2, <2>3, <2>4, <2>5, Frame DEF IInv, StepOf
<1>9. CASE StoreIndex(t)
  <2>1. StepOf(t)
    BY <1>9, ConstantsOK DEF StoreIndex, Goto, AfterRebuild, IInv, Domains,
           RefresherRefreshes, StepOf, caches, locks, generations, locals
  <2>2. Duty(t)'
    BY <1>9, <2>1, Frame, Stages, ConstantsOK DEF StoreIndex, Goto, AfterRebuild,
           IInv, Domains, Duty, Owed, OwedToCaller, OnDisk, DiscoveryNeverStale,
           CachesNeverStale, RefresherRefreshes, caches, locks, generations, locals
  <2>3. DiscoveryNeverStale' /\ CachesNeverStale'
    BY <1>9, <2>1, Frame, Stages DEF StoreIndex, Goto, AfterRebuild, IInv,
           DiscoveryNeverStale, CachesNeverStale, caches, Duty, Owed, OwedToCaller,
           OnDisk, Domains, generations
  <2>4. RefresherRefreshes' /\ PendingRefreshIsAlive'
    BY <1>9, ConstantsOK DEF StoreIndex, Goto, AfterRebuild, IInv, Domains,
           RefresherRefreshes, OneOverviewBuilder, PendingRefreshIsAlive, Builders,
           Purpose, IndexRefresher, OverviewRefresher, locals
  <2>5. OneOverviewBuilder'
    BY <1>9, ConstantsOK DEF StoreIndex, Goto, AfterRebuild, IInv, Domains,
           RefresherRefreshes, OneOverviewBuilder, Building, Builders, Purpose,
           IndexRefresher, OverviewRefresher, locks, locals
  <2> QED
    BY <2>1, <2>2, <2>3, <2>4, <2>5, Frame DEF IInv, StepOf
<1>10. CASE FinishIndexRefresh(t)
  <2>1. StepOf(t)
    BY <1>10, ConstantsOK DEF FinishIndexRefresh, Goto, Forget, Have, IInv, Domains,
           RefresherRefreshes, StepOf, caches, locks, generations, locals, Purpose,
           IndexRefresher
  <2>2. Duty(t)'
    BY <1>10, <2>1, Frame, Stages, ConstantsOK DEF FinishIndexRefresh, Goto, Forget,
           Have, IInv, Domains, Duty, Owed, OwedToCaller, OnDisk, DiscoveryNeverStale,
           CachesNeverStale, RefresherRefreshes, caches, locks, generations, locals
  <2>3. DiscoveryNeverStale' /\ CachesNeverStale'
    BY <1>10, <2>1, Frame DEF FinishIndexRefresh, IInv, DiscoveryNeverStale,
           CachesNeverStale, caches
  <2>4. RefresherRefreshes' /\ PendingRefreshIsAlive'
    BY <1>10, ConstantsOK DEF FinishIndexRefresh, Goto, Forget, Have, IInv, Domains,
           RefresherRefreshes, OneOverviewBuilder, PendingRefreshIsAlive, Builders,
           Purpose, IndexRefresher, OverviewRefresher, locals
  <2>5. OneOverviewBuilder'
    BY <1>10, ConstantsOK DEF FinishIndexRefresh, Goto, Forget, Have, IInv, Domains,
           RefresherRefreshes, OneOverviewBuilder, Building, Builders, Purpose,
           IndexRefresher, OverviewRefresher, locks, locals
  <2> QED
    BY <2>1, <2>2, <2>3, <2>4, <2>5, Frame DEF IInv, StepOf
<1>11. CASE BuildFails(t)
  <2>1. StepOf(t)
    BY <1>11, ConstantsOK DEF BuildFails, Forget, Have, IInv, Domains,
           RefresherRefreshes, StepOf, caches, locks, generations, locals, Purpose,
           IndexRefresher
  <2>2. Duty(t)'
    BY <1>11, <2>1, Frame, Stages, ConstantsOK DEF BuildFails, Forget, Have, IInv,
           Domains, Duty, Owed, OwedToCaller, OnDisk, DiscoveryNeverStale,
           CachesNeverStale, RefresherRefreshes, caches, locks, generations, locals
  <2>3. DiscoveryNeverStale' /\ CachesNeverStale'
    BY <1>11, <2>1, Frame DEF BuildFails, IInv, DiscoveryNeverStale, CachesNeverStale,
           caches
  <2>4. RefresherRefreshes' /\ PendingRefreshIsAlive'
    BY <1>11, ConstantsOK DEF BuildFails, Forget, Have, IInv, Domains,
           RefresherRefreshes, OneOverviewBuilder, PendingRefreshIsAlive, Builders,
           Purpose, IndexRefresher, OverviewRefresher, locals
  <2>5. OneOverviewBuilder'
    BY <1>11, ConstantsOK DEF BuildFails, Forget, Have, IInv, Domains,
           RefresherRefreshes, OneOverviewBuilder, Building, Builders, Purpose,
           IndexRefresher, OverviewRefresher, locks, locals
  <2> QED
    BY <2>1, <2>2, <2>3, <2>4, <2>5, Frame DEF IInv, StepOf
<1> QED
  BY <1>1, <1>2, <1>3, <1>4, <1>5, <1>6, <1>7, <1>8, <1>9, <1>10, <1>11

LEMMA OverviewSteps ==
  ASSUME IInv, NEW t \in Builders,
         \/ SeeOverviewFresh(t) \/ SeeOverviewExpired(t) \/ SeeOverviewCold(t)
         \/ OverviewBusy(t) \/ OverviewAcquired(t)
         \/ StartOverviewRefresher(t) \/ StartOverviewRefresherFails(t)
         \/ EnterOverview(t) \/ RecheckOverviewWarm(t) \/ BeginOverview(t)
         \/ StoreOverview(t)
  PROVE  IInv'
<1>1. CASE SeeOverviewFresh(t)
  <2>1. StepOf(t)
    BY <1>1, ConstantsOK DEF SeeOverviewFresh, Goto, Have, IInv, Domains,
           RefresherRefreshes, StepOf, caches, locks, generations, locals
  <2>2. Duty(t)'
    BY <1>1, <2>1, Frame, Stages, ConstantsOK DEF SeeOverviewFresh, Goto, Have, IInv,
           Domains, Duty, Owed, OwedToCaller, OnDisk, DiscoveryNeverStale,
           CachesNeverStale, RefresherRefreshes, caches, locks, generations, locals
  <2>3. DiscoveryNeverStale' /\ CachesNeverStale'
    BY <1>1, <2>1, Frame DEF SeeOverviewFresh, IInv, DiscoveryNeverStale,
           CachesNeverStale, caches
  <2>4. RefresherRefreshes' /\ PendingRefreshIsAlive'
    BY <1>1, ConstantsOK DEF SeeOverviewFresh, Goto, Have, IInv, Domains,
           RefresherRefreshes, OneOverviewBuilder, PendingRefreshIsAlive, Builders,
           Purpose, IndexRefresher, OverviewRefresher, locals
  <2>5. OneOverviewBuilder'
    BY <1>1, ConstantsOK DEF SeeOverviewFresh, Goto, Have, IInv, Domains,
           RefresherRefreshes, OneOverviewBuilder, Building, Builders, Purpose,
           IndexRefresher, OverviewRefresher, locks, locals
  <2> QED
    BY <2>1, <2>2, <2>3, <2>4, <2>5, Frame DEF IInv, StepOf
<1>2. CASE SeeOverviewExpired(t)
  <2>1. StepOf(t)
    BY <1>2, ConstantsOK DEF SeeOverviewExpired, Goto, Have, IInv, Domains,
           RefresherRefreshes, StepOf, caches, locks, generations, locals
  <2>2. Duty(t)'
    BY <1>2, <2>1, Frame, Stages, ConstantsOK DEF SeeOverviewExpired, Goto, Have,
           IInv, Domains, Duty, Owed, OwedToCaller, OnDisk, DiscoveryNeverStale,
           CachesNeverStale, RefresherRefreshes, caches, locks, generations, locals
  <2>3. DiscoveryNeverStale' /\ CachesNeverStale'
    BY <1>2, <2>1, Frame DEF SeeOverviewExpired, IInv, DiscoveryNeverStale,
           CachesNeverStale, caches
  <2>4. RefresherRefreshes' /\ PendingRefreshIsAlive'
    BY <1>2, ConstantsOK DEF SeeOverviewExpired, Goto, Have, IInv, Domains,
           RefresherRefreshes, OneOverviewBuilder, PendingRefreshIsAlive, Builders,
           Purpose, IndexRefresher, OverviewRefresher, locals
  <2>5. OneOverviewBuilder'
    BY <1>2, ConstantsOK DEF SeeOverviewExpired, Goto, Have, IInv, Domains,
           RefresherRefreshes, OneOverviewBuilder, Building, Builders, Purpose,
           IndexRefresher, OverviewRefresher, locks, locals
  <2> QED
    BY <2>1, <2>2, <2>3, <2>4, <2>5, Frame DEF IInv, StepOf
<1>3. CASE SeeOverviewCold(t)
  <2>1. StepOf(t)
    BY <1>3, ConstantsOK DEF SeeOverviewCold, Goto, IInv, Domains, RefresherRefreshes,
           StepOf, caches, locks, generations, locals
  <2>2. Duty(t)'
    BY <1>3, <2>1, Frame, Stages, ConstantsOK DEF SeeOverviewCold, Goto, IInv,
           Domains, Duty, Owed, OwedToCaller, OnDisk, DiscoveryNeverStale,
           CachesNeverStale, RefresherRefreshes, caches, locks, generations, locals
  <2>3. DiscoveryNeverStale' /\ CachesNeverStale'
    BY <1>3, <2>1, Frame DEF SeeOverviewCold, IInv, DiscoveryNeverStale,
           CachesNeverStale, caches
  <2>4. RefresherRefreshes' /\ PendingRefreshIsAlive'
    BY <1>3, ConstantsOK DEF SeeOverviewCold, Goto, IInv, Domains, RefresherRefreshes,
           OneOverviewBuilder, PendingRefreshIsAlive, Builders, Purpose,
           IndexRefresher, OverviewRefresher, locals
  <2>5. OneOverviewBuilder'
    BY <1>3, ConstantsOK DEF SeeOverviewCold, Goto, IInv, Domains, RefresherRefreshes,
           OneOverviewBuilder, Building, Builders, Purpose, IndexRefresher,
           OverviewRefresher, locks, locals
  <2> QED
    BY <2>1, <2>2, <2>3, <2>4, <2>5, Frame DEF IInv, StepOf
<1>4. CASE OverviewBusy(t)
  <2>1. StepOf(t)
    BY <1>4, ConstantsOK DEF OverviewBusy, Goto, IInv, Domains, RefresherRefreshes,
           StepOf, caches, locks, generations, locals
  <2>2. Duty(t)'
    BY <1>4, <2>1, Frame, Stages, ConstantsOK DEF OverviewBusy, Goto, IInv, Domains,
           Duty, Owed, OwedToCaller, OnDisk, DiscoveryNeverStale, CachesNeverStale,
           RefresherRefreshes, caches, locks, generations, locals
  <2>3. DiscoveryNeverStale' /\ CachesNeverStale'
    BY <1>4, <2>1, Frame DEF OverviewBusy, IInv, DiscoveryNeverStale,
           CachesNeverStale, caches
  <2>4. RefresherRefreshes' /\ PendingRefreshIsAlive'
    BY <1>4, ConstantsOK DEF OverviewBusy, Goto, IInv, Domains, RefresherRefreshes,
           OneOverviewBuilder, PendingRefreshIsAlive, Builders, Purpose,
           IndexRefresher, OverviewRefresher, locals
  <2>5. OneOverviewBuilder'
    BY <1>4, ConstantsOK DEF OverviewBusy, Goto, IInv, Domains, RefresherRefreshes,
           OneOverviewBuilder, Building, Builders, Purpose, IndexRefresher,
           OverviewRefresher, locks, locals
  <2> QED
    BY <2>1, <2>2, <2>3, <2>4, <2>5, Frame DEF IInv, StepOf
<1>5. CASE OverviewAcquired(t)
  <2>1. StepOf(t)
    BY <1>5, ConstantsOK DEF OverviewAcquired, Goto, IInv, Domains,
           RefresherRefreshes, StepOf, caches, locks, generations, locals
  <2>2. Duty(t)'
    BY <1>5, <2>1, Frame, Stages, ConstantsOK DEF OverviewAcquired, Goto, IInv,
           Domains, Duty, Owed, OwedToCaller, OnDisk, DiscoveryNeverStale,
           CachesNeverStale, RefresherRefreshes, caches, locks, generations, locals
  <2>3. DiscoveryNeverStale' /\ CachesNeverStale'
    BY <1>5, <2>1, Frame DEF OverviewAcquired, IInv, DiscoveryNeverStale,
           CachesNeverStale, caches
  <2>4. RefresherRefreshes' /\ PendingRefreshIsAlive'
    BY <1>5, ConstantsOK DEF OverviewAcquired, Goto, IInv, Domains,
           RefresherRefreshes, OneOverviewBuilder, PendingRefreshIsAlive, Builders,
           Purpose, IndexRefresher, OverviewRefresher, locals
  <2>5. OneOverviewBuilder'
    BY <1>5, ConstantsOK DEF OverviewAcquired, Goto, IInv, Domains,
           RefresherRefreshes, OneOverviewBuilder, Building, Builders, Purpose,
           IndexRefresher, OverviewRefresher, locks, locals
  <2> QED
    BY <2>1, <2>2, <2>3, <2>4, <2>5, Frame DEF IInv, StepOf
<1>6. CASE StartOverviewRefresher(t)
  <2>1. StepOf(t)
    BY <1>6, ConstantsOK DEF StartOverviewRefresher, IInv, Domains,
           RefresherRefreshes, StepOf, caches, locks, generations, locals, Builders,
           IndexRefresher, OverviewRefresher
  <2>2. Duty(t)'
    BY <1>6, <2>1, Frame, Stages, ConstantsOK DEF StartOverviewRefresher, IInv,
           Domains, Duty, Owed, OwedToCaller, OnDisk, DiscoveryNeverStale,
           CachesNeverStale, RefresherRefreshes, caches, locks, generations, locals,
           IndexRefresher, OverviewRefresher
  <2>3. DiscoveryNeverStale' /\ CachesNeverStale'
    BY <1>6, <2>1, Frame DEF StartOverviewRefresher, IInv, DiscoveryNeverStale,
           CachesNeverStale, caches
  <2>4. RefresherRefreshes' /\ PendingRefreshIsAlive'
    BY <1>6, ConstantsOK DEF StartOverviewRefresher, IInv, Domains,
           RefresherRefreshes, OneOverviewBuilder, PendingRefreshIsAlive, Builders,
           Purpose, IndexRefresher, OverviewRefresher, locals
  <2>5. OneOverviewBuilder'
    BY <1>6, ConstantsOK DEF StartOverviewRefresher, IInv, Domains,
           RefresherRefreshes, OneOverviewBuilder, Building, Builders, Purpose,
           IndexRefresher, OverviewRefresher, locks, locals
  <2> QED
    BY <2>1, <2>2, <2>3, <2>4, <2>5, Frame DEF IInv, StepOf
<1>7. CASE StartOverviewRefresherFails(t)
  <2>1. StepOf(t)
    BY <1>7, ConstantsOK DEF StartOverviewRefresherFails, Goto, Forget, Have, IInv,
           Domains, RefresherRefreshes, StepOf, caches, locks, generations, locals,
           Purpose, IndexRefresher
  <2>2. Duty(t)'
    BY <1>7, <2>1, Frame, Stages, ConstantsOK DEF StartOverviewRefresherFails, Goto,
           Forget, Have, IInv, Domains, Duty, Owed, OwedToCaller, OnDisk,
           DiscoveryNeverStale, CachesNeverStale, RefresherRefreshes, caches, locks,
           generations, locals
  <2>3. DiscoveryNeverStale' /\ CachesNeverStale'
    BY <1>7, <2>1, Frame DEF StartOverviewRefresherFails, IInv, DiscoveryNeverStale,
           CachesNeverStale, caches
  <2>4. RefresherRefreshes' /\ PendingRefreshIsAlive'
    BY <1>7, ConstantsOK DEF StartOverviewRefresherFails, Goto, Forget, Have, IInv,
           Domains, RefresherRefreshes, OneOverviewBuilder, PendingRefreshIsAlive,
           Builders, Purpose, IndexRefresher, OverviewRefresher, locals
  <2>5. OneOverviewBuilder'
    BY <1>7, ConstantsOK DEF StartOverviewRefresherFails, Goto, Forget, Have, IInv,
           Domains, RefresherRefreshes, OneOverviewBuilder, Building, Builders,
           Purpose, IndexRefresher, OverviewRefresher, locks, locals
  <2> QED
    BY <2>1, <2>2, <2>3, <2>4, <2>5, Frame DEF IInv, StepOf
<1>8. CASE EnterOverview(t)
  <2>1. StepOf(t)
    BY <1>8, ConstantsOK DEF EnterOverview, Goto, IInv, Domains, RefresherRefreshes,
           StepOf, caches, locks, generations, locals
  <2>2. Duty(t)'
    BY <1>8, <2>1, Frame, Stages, ConstantsOK DEF EnterOverview, Goto, IInv, Domains,
           Duty, Owed, OwedToCaller, OnDisk, DiscoveryNeverStale, CachesNeverStale,
           RefresherRefreshes, caches, locks, generations, locals
  <2>3. DiscoveryNeverStale' /\ CachesNeverStale'
    BY <1>8, <2>1, Frame DEF EnterOverview, IInv, DiscoveryNeverStale,
           CachesNeverStale, caches
  <2>4. RefresherRefreshes' /\ PendingRefreshIsAlive'
    BY <1>8, ConstantsOK DEF EnterOverview, Goto, IInv, Domains, RefresherRefreshes,
           OneOverviewBuilder, PendingRefreshIsAlive, Builders, Purpose,
           IndexRefresher, OverviewRefresher, locals
  <2>5. OneOverviewBuilder'
    BY <1>8, ConstantsOK DEF EnterOverview, Goto, IInv, Domains, RefresherRefreshes,
           OneOverviewBuilder, Building, Builders, Purpose, IndexRefresher,
           OverviewRefresher, locks, locals
  <2> QED
    BY <2>1, <2>2, <2>3, <2>4, <2>5, Frame DEF IInv, StepOf
<1>9. CASE RecheckOverviewWarm(t)
  <2>1. StepOf(t)
    BY <1>9, ConstantsOK DEF RecheckOverviewWarm, Goto, Have, IInv, Domains,
           RefresherRefreshes, StepOf, caches, locks, generations, locals
  <2>2. Duty(t)'
    BY <1>9, <2>1, Frame, Stages, ConstantsOK DEF RecheckOverviewWarm, Goto, Have,
           IInv, Domains, Duty, Owed, OwedToCaller, OnDisk, DiscoveryNeverStale,
           CachesNeverStale, RefresherRefreshes, caches, locks, generations, locals
  <2>3. DiscoveryNeverStale' /\ CachesNeverStale'
    BY <1>9, <2>1, Frame DEF RecheckOverviewWarm, IInv, DiscoveryNeverStale,
           CachesNeverStale, caches
  <2>4. RefresherRefreshes' /\ PendingRefreshIsAlive'
    BY <1>9, ConstantsOK DEF RecheckOverviewWarm, Goto, Have, IInv, Domains,
           RefresherRefreshes, OneOverviewBuilder, PendingRefreshIsAlive, Builders,
           Purpose, IndexRefresher, OverviewRefresher, locals
  <2>5. OneOverviewBuilder'
    BY <1>9, ConstantsOK DEF RecheckOverviewWarm, Goto, Have, IInv, Domains,
           RefresherRefreshes, OneOverviewBuilder, Building, Builders, Purpose,
           IndexRefresher, OverviewRefresher, locks, locals
  <2> QED
    BY <2>1, <2>2, <2>3, <2>4, <2>5, Frame DEF IInv, StepOf
<1>10. CASE BeginOverview(t)
  <2>1. StepOf(t)
    BY <1>10, ConstantsOK DEF BeginOverview, Goto, IInv, Domains, RefresherRefreshes,
           StepOf, caches, locks, generations, locals
  <2>2. Duty(t)'
    BY <1>10, <2>1, Frame, Stages, ConstantsOK DEF BeginOverview, Goto, IInv, Domains,
           Duty, Owed, OwedToCaller, OnDisk, DiscoveryNeverStale, CachesNeverStale,
           RefresherRefreshes, caches, locks, generations, locals
  <2>3. DiscoveryNeverStale' /\ CachesNeverStale'
    BY <1>10, <2>1, Frame DEF BeginOverview, IInv, DiscoveryNeverStale,
           CachesNeverStale, caches
  <2>4. RefresherRefreshes' /\ PendingRefreshIsAlive'
    BY <1>10, ConstantsOK DEF BeginOverview, Goto, IInv, Domains, RefresherRefreshes,
           OneOverviewBuilder, PendingRefreshIsAlive, Builders, Purpose,
           IndexRefresher, OverviewRefresher, locals
  <2>5. OneOverviewBuilder'
    BY <1>10, ConstantsOK DEF BeginOverview, Goto, IInv, Domains, RefresherRefreshes,
           OneOverviewBuilder, Building, Builders, Purpose, IndexRefresher,
           OverviewRefresher, locks, locals
  <2> QED
    BY <2>1, <2>2, <2>3, <2>4, <2>5, Frame DEF IInv, StepOf
<1>11. CASE StoreOverview(t)
  <2>1. StepOf(t)
    BY <1>11, ConstantsOK DEF StoreOverview, Goto, Have, IInv, Domains,
           RefresherRefreshes, StepOf, caches, locks, generations, locals
  <2>2. Duty(t)'
    BY <1>11, <2>1, Frame, Stages, ConstantsOK DEF StoreOverview, Goto, Have, IInv,
           Domains, Duty, Owed, OwedToCaller, OnDisk, DiscoveryNeverStale,
           CachesNeverStale, RefresherRefreshes, caches, locks, generations, locals
  <2>3. DiscoveryNeverStale' /\ CachesNeverStale'
    BY <1>11, <2>1, Frame, Stages DEF StoreOverview, Goto, Have, IInv,
           DiscoveryNeverStale, CachesNeverStale, caches, Duty, Owed, OwedToCaller,
           OnDisk, Domains, generations
  <2>4. RefresherRefreshes' /\ PendingRefreshIsAlive'
    BY <1>11, ConstantsOK DEF StoreOverview, Goto, Have, IInv, Domains,
           RefresherRefreshes, OneOverviewBuilder, PendingRefreshIsAlive, Builders,
           Purpose, IndexRefresher, OverviewRefresher, locals
  <2>5. OneOverviewBuilder'
    BY <1>11, ConstantsOK DEF StoreOverview, Goto, Have, IInv, Domains,
           RefresherRefreshes, OneOverviewBuilder, Building, Builders, Purpose,
           IndexRefresher, OverviewRefresher, locks, locals, Duty
  <2> QED
    BY <2>1, <2>2, <2>3, <2>4, <2>5, Frame DEF IInv, StepOf
<1> QED
  BY <1>1, <1>2, <1>3, <1>4, <1>5, <1>6, <1>7, <1>8, <1>9, <1>10, <1>11

LEMMA RequestSteps ==
  ASSUME IInv, NEW t \in Builders,
         (\E kind \in {"index", "overview"} : t \in Readers /\ Request(t, kind)) \/ Answer(t)
  PROVE  IInv'
<1>1. CASE \E kind \in {"index", "overview"} : t \in Readers /\ Request(t, kind)
  <2>1. StepOf(t)
    BY <1>1, ConstantsOK DEF Request, Goto, IInv, Domains, RefresherRefreshes, StepOf,
           caches, locks, generations, locals
  <2>2. Duty(t)'
    BY <1>1, <2>1, Frame, Stages, ConstantsOK DEF Request, Goto, IInv, Domains, Duty,
           Owed, OwedToCaller, OnDisk, DiscoveryNeverStale, CachesNeverStale,
           RefresherRefreshes, caches, locks, generations, locals
  <2>3. DiscoveryNeverStale' /\ CachesNeverStale'
    BY <1>1, <2>1, Frame DEF Request, IInv, DiscoveryNeverStale, CachesNeverStale,
           caches
  <2>4. RefresherRefreshes' /\ PendingRefreshIsAlive'
    BY <1>1, ConstantsOK DEF Request, Goto, IInv, Domains, RefresherRefreshes,
           OneOverviewBuilder, PendingRefreshIsAlive, Builders, Purpose,
           IndexRefresher, OverviewRefresher, locals
  <2>5. OneOverviewBuilder'
    BY <1>1, ConstantsOK DEF Request, Goto, IInv, Domains, RefresherRefreshes,
           OneOverviewBuilder, Building, Builders, Purpose, IndexRefresher,
           OverviewRefresher, locks, locals
  <2> QED
    BY <2>1, <2>2, <2>3, <2>4, <2>5, Frame DEF IInv, StepOf
<1>2. CASE Answer(t)
  <2>1. StepOf(t)
    BY <1>2, ConstantsOK DEF Answer, Goto, Forget, Have, IInv, Domains,
           RefresherRefreshes, StepOf, caches, locks, generations, locals, Purpose,
           IndexRefresher
  <2>2. Duty(t)'
    BY <1>2, <2>1, Frame, Stages, ConstantsOK DEF Answer, Goto, Forget, Have, IInv,
           Domains, Duty, Owed, OwedToCaller, OnDisk, DiscoveryNeverStale,
           CachesNeverStale, RefresherRefreshes, caches, locks, generations, locals
  <2>3. DiscoveryNeverStale' /\ CachesNeverStale'
    BY <1>2, <2>1, Frame DEF Answer, IInv, DiscoveryNeverStale, CachesNeverStale,
           caches
  <2>4. RefresherRefreshes' /\ PendingRefreshIsAlive'
    BY <1>2, ConstantsOK DEF Answer, Goto, Forget, Have, IInv, Domains,
           RefresherRefreshes, OneOverviewBuilder, PendingRefreshIsAlive, Builders,
           Purpose, IndexRefresher, OverviewRefresher, locals
  <2>5. OneOverviewBuilder'
    BY <1>2, ConstantsOK DEF Answer, Goto, Forget, Have, IInv, Domains,
           RefresherRefreshes, OneOverviewBuilder, Building, Builders, Purpose,
           IndexRefresher, OverviewRefresher, locks, locals
  <2> QED
    BY <2>1, <2>2, <2>3, <2>4, <2>5, Frame DEF IInv, StepOf
<1> QED
  BY <1>1, <1>2

(* The steps of a mutator: each takes it from one set to the next, and an  *)
(* invalidation excuses whoever began before it.                           *)
LEMMA MutatorSteps ==
  ASSUME IInv, NEW m \in Mutators, Mutate(m)
  PROVE  IInv'
<1>1. /\ pc[m] \in {"write", "discovery", "index", "overview"}
      /\ pc' = [pc EXCEPT ![m] = pc'[m]]
      /\ m \notin Builders
      /\ UNCHANGED <<want, rows, base, builtAt, refreshedAt, since, discoveryLock,
                     overviewLock, indexPending>>
  BY ConstantsOK DEF Mutate, Write, InvalidateDiscovery, InvalidateIndex,
         InvalidateOverview, Goto, IInv, Domains, locals, locks
<1>2. /\ Domains'
      /\ \A t \in Builders : pc'[t] = pc[t]
  BY <1>1 DEF Mutate, Write, InvalidateDiscovery, InvalidateIndex, InvalidateOverview,
         IInv, Domains, generations
<1>3. RefresherRefreshes' /\ OneOverviewBuilder' /\ PendingRefreshIsAlive'
  BY <1>1, <1>2 DEF IInv, RefresherRefreshes, OneOverviewBuilder, PendingRefreshIsAlive,
         Builders
<1>4. CASE Write(m)
  <2>1. /\ Done' = Done
        /\ IndexInvalidated' = IndexInvalidated
        /\ DiscoveryInvalidated' \cap Creators = DiscoveryInvalidated \cap Creators
    BY <1>4 DEF Write, Goto, IInv, Domains, Done, IndexInvalidated, DiscoveryInvalidated
  <2>2. OnDiskWhenWritten' /\ DiscoveryNeverStale' /\ CachesNeverStale'
    BY <1>4, <2>1 DEF Write, Goto, IInv, Domains, OnDiskWhenWritten, DiscoveryNeverStale,
           CachesNeverStale, caches
  <2>3. \A t \in Builders : Duty(t)'
    BY <1>1, <1>2, <1>4, <2>1 DEF Write, IInv, Duty, Owed, OwedToCaller, generations
  <2> QED
    BY <1>2, <1>3, <2>2, <2>3 DEF IInv
<1>5. CASE InvalidateDiscovery(m)
  <2>1. Done' = Done /\ IndexInvalidated' = IndexInvalidated
    BY <1>5 DEF InvalidateDiscovery, Goto, IInv, Domains, Done, IndexInvalidated
  <2>2. OnDiskWhenWritten' /\ DiscoveryNeverStale' /\ CachesNeverStale'
    BY <1>5, <2>1 DEF InvalidateDiscovery, Goto, IInv, Domains, OnDiskWhenWritten,
           DiscoveryNeverStale, CachesNeverStale
  <2>3. \A t \in Builders : Duty(t)'
    BY <1>1, <1>2, <1>5, <2>1, ConstantsOK
    DEF InvalidateDiscovery, IInv, Duty, Owed, OwedToCaller, generations
  <2> QED
    BY <1>2, <1>3, <2>2, <2>3 DEF IInv
<1>6. CASE InvalidateIndex(m)
  <2>1. Done' = Done /\ DiscoveryInvalidated' = DiscoveryInvalidated
    BY <1>6 DEF InvalidateIndex, Goto, IInv, Domains, Done, DiscoveryInvalidated
  <2>2. OnDiskWhenWritten' /\ DiscoveryNeverStale' /\ CachesNeverStale'
    BY <1>6, <2>1 DEF InvalidateIndex, Goto, IInv, Domains, OnDiskWhenWritten,
           DiscoveryNeverStale, CachesNeverStale
  <2>3. ASSUME NEW t \in Builders
        PROVE  Duty(t)'
    <3>1. Duty(t) /\ indexGeneration \in Nat /\ indexGeneration' = indexGeneration + 1
      BY <1>6 DEF InvalidateIndex, IInv, Domains
    <3>2. builtAt'[t] # indexGeneration'
      BY <1>1, <3>1 DEF Duty
    <3>3. OwedToCaller(t)' = OwedToCaller(t) /\ Owed(t)' \subseteq Owed(t)
      BY <1>1, <1>6, <2>1, <3>2 DEF InvalidateIndex, OwedToCaller, Owed
    <3> QED
      BY <1>1, <1>2, <1>6, <2>1, <3>1, <3>3 DEF InvalidateIndex, Duty
  <2> QED
    BY <1>2, <1>3, <2>2, <2>3 DEF IInv
<1>7. CASE InvalidateOverview(m)
  <2>1. /\ Done \subseteq Done'
        /\ IndexInvalidated' = IndexInvalidated
        /\ DiscoveryInvalidated' = DiscoveryInvalidated
    BY <1>7 DEF InvalidateOverview, Goto, IInv, Domains, Done, IndexInvalidated,
           DiscoveryInvalidated
  <2>2. OnDiskWhenWritten' /\ DiscoveryNeverStale' /\ CachesNeverStale'
    BY <1>7, <2>1 DEF InvalidateOverview, Goto, IInv, Domains, OnDiskWhenWritten,
           DiscoveryNeverStale, CachesNeverStale
  <2>3. ASSUME NEW t \in Builders
        PROVE  Duty(t)'
    <3>1. /\ Duty(t)
          /\ overviewGeneration \in Nat
          /\ overviewGeneration' = overviewGeneration + 1
      BY <1>7 DEF InvalidateOverview, IInv, Domains
    <3>2. refreshedAt'[t] # overviewGeneration'
      BY <1>1, <3>1 DEF Duty
    <3>3. OwedToCaller(t)' \subseteq OwedToCaller(t) /\ Owed(t)' \subseteq Owed(t)
      BY <1>1, <1>7, <2>1, <3>2 DEF InvalidateOverview, OwedToCaller, Owed
    <3> QED
      BY <1>1, <1>2, <1>7, <2>1, <3>1, <3>3 DEF InvalidateOverview, Duty
  <2> QED
    BY <1>2, <1>3, <2>2, <2>3 DEF IInv
<1> QED
  BY <1>4, <1>5, <1>6, <1>7 DEF Mutate

LEMMA InitIInv == Init => IInv
<1> SUFFICES ASSUME Init PROVE IInv
  OBVIOUS
<1>1. Domains /\ OnDiskWhenWritten /\ DiscoveryNeverStale /\ CachesNeverStale
  BY ConstantsOK DEF Init, Domains, OnDiskWhenWritten, DiscoveryNeverStale,
         CachesNeverStale, Purpose
<1>2. RefresherRefreshes /\ OneOverviewBuilder /\ PendingRefreshIsAlive
  BY ConstantsOK DEF Init, RefresherRefreshes, OneOverviewBuilder, PendingRefreshIsAlive,
         Purpose, Building, Builders, IndexRefresher, OverviewRefresher
<1>3. ASSUME NEW t \in Builders
      PROVE  Duty(t)
  BY ConstantsOK DEF Init, Duty, Done
<1> QED
  BY <1>1, <1>2, <1>3 DEF IInv

LEMMA StutterIInv ==
  ASSUME IInv, UNCHANGED vars
  PROVE  IInv'
<1>1. /\ Done' = Done
      /\ IndexInvalidated' = IndexInvalidated
      /\ DiscoveryInvalidated' = DiscoveryInvalidated
  BY DEF vars, Done, IndexInvalidated, DiscoveryInvalidated
<1>2. \A t \in Builders : Duty(t)'
  BY <1>1 DEF IInv, vars, caches, locks, generations, locals, Duty, Owed, OwedToCaller
<1> QED
  BY <1>1, <1>2 DEF IInv, vars, caches, locks, generations, locals, Domains,
         OnDiskWhenWritten, DiscoveryNeverStale, CachesNeverStale, RefresherRefreshes,
         OneOverviewBuilder, PendingRefreshIsAlive

LEMMA NextIInv == IInv /\ [Next]_vars => IInv'
<1> SUFFICES ASSUME IInv, [Next]_vars PROVE IInv'
  OBVIOUS
<1>1. CASE \E m \in Mutators : Mutate(m)
  BY <1>1, MutatorSteps
<1>2. CASE \E t \in Readers, kind \in {"index", "overview"} : Request(t, kind)
  BY <1>2, RequestSteps DEF Builders
<1>3. CASE \E t \in Builders : Serve(t)
  BY <1>3, LookSteps, RebuildSteps, OverviewSteps, RequestSteps
  DEF Serve, IndexStep, OverviewStep
<1>4. CASE UNCHANGED vars
  BY <1>4, StutterIInv
<1> QED
  BY <1>1, <1>2, <1>3, <1>4 DEF Next

-----------------------------------------------------------------------------

\* Whatever requests, refreshers and invalidations overlap, a cached list shows every
\* change that invalidated it (app.py 228-238, 314-322, 690-736).
THEOREM Fresh == Spec => []CachesNeverStale
<1>1. IInv => CachesNeverStale
  BY DEF IInv
<1> QED
  BY InitIInv, NextIInv, <1>1, PTL DEF Spec

\* A request is answered with every change whose request had completed when it came in
\* (run_service.py 372-374, app.py 355-372, 705-736).
THEOREM ReadsItsWrites == Spec => []ReadYourWrites
<1>1. IInv => ReadYourWrites
  BY DEF IInv, Duty, ReadYourWrites, Builders
<1> QED
  BY InitIInv, NextIInv, <1>1, PTL DEF Spec

\* The flag that keeps threads from starting an index refresher has an owner
\* (app.py 325-352).
THEOREM PendingAlive == Spec => []PendingRefreshIsAlive
<1>1. IInv => PendingRefreshIsAlive
  BY DEF IInv
<1> QED
  BY InitIInv, NextIInv, <1>1, PTL DEF Spec

=============================================================================
