------------------------ MODULE TieredPrefixCacheProofs ------------------------
(***************************************************************************)
(* Theorems of TieredPrefixCache: the allocator and the CPU tier together,   *)
(* for every number of blocks, slots, objects and contents.  The proofs of    *)
(* the two parts are reused: those of the allocator by EXTENDS, those of the  *)
(* tier through the instance Tier.                                         *)
(***************************************************************************)
EXTENDS TieredPrefixCache, PrefixCachingBlockAllocatorProofs

Tier == INSTANCE CpuKvContentCacheProofs WITH
  GpuBlock <- Block, ContentHash <- Hash, NoGpuBlock <- NoBlock, NoContent <- NoHash

(* What the proof below needs of the invariant of the tier.                 *)
TierFacts ==
  /\ TierTypeOK
  /\ SlotsExact
  /\ OneRolePerSlot
  /\ ready \subseteq Resident
  /\ D2hTargets \subseteq Resident

LEMMA TierGives == Tier!TierInv => TierFacts
  BY DEF Tier!TierInv, TierFacts, Tier!TierTypeOK, TierTypeOK, Tier!SlotsExact, SlotsExact,
     Tier!OneRolePerSlot, OneRolePerSlot, Tier!TransfersResident, Tier!Resident, Resident,
     Tier!D2hTargets, D2hTargets, Tier!D2hSources, D2hSources, Tier!CpuSlot, CpuSlot,
     Tier!NoSlot, NoSlot, Tier!H2dSources, H2dSources, Tier!MapsInverse, MapsInverse,
     Tier!FreeIsTheRest, FreeIsTheRest, Tier!LruTotal, LruTotal, Tier!ClaimsPinned,
     ClaimsPinned, Tier!LoadsClaimed, LoadsClaimed, Tier!StoresApart, StoresApart,
     Tier!CommitsPass, CommitsPass, Tier!InUseExplained, InUseExplained,
     Tier!CommitOk, CommitOk, Tier!Evictable, Evictable, Tier!DeferredBlocks, DeferredBlocks

(* The calls that the scheduler makes are steps of the tier ...                *)
LEMMA TierCalls ==
  ASSUME ~draining
  PROVE  /\ BeginStep => Tier!TierNext
         /\ \A h \in Hash : ClaimLoad(h) => Tier!TierNext
         /\ \A h \in Hash, b \in Block : StageStore(h, b) => Tier!TierNext
         /\ \A h \in Hash, s \in load_slots : CancelLoad(h, s) => Tier!TierNext
         /\ \A h \in Hash, s \in load_slots, b \in Block :
              StageLoad(h, s, b) => Tier!TierNext
<1> USE SlotsAssumption, NoBlockAssumption, NoHashAssumption
<1>1. BeginStep => Tier!TierNext
  <2>1. BeginStep <=> Tier!BeginStep
    BY DEF Tier!BeginStep, BeginStep, Tier!BeginOk, BeginOk, Tier!H2dSources, H2dSources,
       Tier!D2hSources, D2hSources, Tier!CpuSlot, CpuSlot, Tier!NoSlot, NoSlot,
       Tier!stepVars, stepVars
  <2>. QED
    BY <2>1 DEF Tier!TierNext, Tier!TierCall
<1>2. ASSUME NEW h \in Hash, ClaimLoad(h) PROVE Tier!TierNext
  <2>1. Tier!ClaimLoad(h)
    BY <1>2 DEF Tier!ClaimLoad, ClaimLoad, Tier!ClaimOk, ClaimOk, Tier!Hits, Hits,
       Tier!StepStarted, StepStarted, Tier!NoSlot, NoSlot, Tier!Touched, Touched,
       Tier!Resident, Resident, Tier!CpuSlot, CpuSlot, Tier!indexVars, indexVars
  <2>. QED
    BY <2>1 DEF Tier!TierNext, Tier!TierCall
<1>3. ASSUME NEW h \in Hash, NEW b \in Block, StageStore(h, b) PROVE Tier!TierNext
  <2>1. Tier!StoreKnown(h) <=> StoreKnown(h)
    BY DEF Tier!StoreKnown, StoreKnown, Tier!Known, Known, Tier!DeferredHashes,
       DeferredHashes, Tier!NoSlot, NoSlot, Tier!Touched, Touched,
       Tier!Resident, Resident, Tier!CpuSlot, CpuSlot, Tier!indexVars, indexVars
  <2>2. Tier!StoreNow(h, b) <=> StoreNow(h, b)
    BY DEF Tier!StoreNow, StoreNow, Tier!Known, Known, Tier!DeferredHashes,
       DeferredHashes, Tier!NoSlot, NoSlot, Tier!Touched, Touched,
       Tier!Resident, Resident, Tier!CpuSlot, CpuSlot, Tier!SmallestFree, SmallestFree,
       Tier!Commit, Commit, Tier!Reindexed, Reindexed, Tier!NotReady, NotReady
  <2>3. Tier!StoreLater(h, b) <=> StoreLater(h, b)
    BY DEF Tier!StoreLater, StoreLater, Tier!Known, Known, Tier!DeferredHashes,
       DeferredHashes, Tier!NoSlot, NoSlot, Tier!DeferredEntry, DeferredEntry,
       Tier!indexVars, indexVars
  <2>4. Tier!StoreOk(h, b) <=> StoreOk(h, b)
    BY DEF Tier!StoreOk, StoreOk, Tier!Known, Known, Tier!DeferredHashes,
       DeferredHashes, Tier!NoSlot, NoSlot, Tier!StepStarted, StepStarted,
       Tier!D2hSources, D2hSources, Tier!DeferredBlocks, DeferredBlocks
  <2>5. Tier!StageStore(h, b)
    BY <1>3, <2>1, <2>2, <2>3, <2>4 DEF Tier!StageStore, StageStore,
       Tier!StageStoreEffect, StageStoreEffect
  <2>. QED
    BY <2>5 DEF Tier!TierNext, Tier!TierCall
<1>4. ASSUME NEW h \in Hash, NEW s \in load_slots, CancelLoad(h, s) PROVE Tier!TierNext
  <2>1. Tier!CancelLoad(h, s)
    BY <1>4 DEF Tier!CancelLoad, CancelLoad, Tier!CancelOk, CancelOk, Tier!H2dSources,
       H2dSources, Tier!CpuSlot, CpuSlot, Tier!indexVars, indexVars
  <2>. QED
    BY <2>1 DEF Tier!TierNext, Tier!TierCall
<1>5. ASSUME NEW h \in Hash, NEW s \in load_slots, NEW b \in Block, StageLoad(h, s, b)
      PROVE  Tier!TierNext
  <2>1. Tier!StageLoad(h, s, b)
    BY <1>5 DEF Tier!StageLoad, StageLoad, Tier!LoadOk, LoadOk, Tier!H2dSources,
       H2dSources, Tier!H2dTargets, H2dTargets, Tier!D2hTargets, D2hTargets,
       Tier!D2hSources, D2hSources, Tier!CpuSlot, CpuSlot, Tier!NoSlot, NoSlot,
       Tier!indexVars, indexVars
  <2>. QED
    BY <2>1 DEF Tier!TierNext, Tier!TierCall
<1>. QED
  BY <1>1, <1>2, <1>3, <1>4, <1>5

(* ... and so is the drain; a step that leaves the tier alone is a stutter.    *)
LEMMA TierDrains ==
  ASSUME StartDrain \/ ResolveStore \/ FinishDrain \/ UNCHANGED cpuTierVars
  PROVE  [Tier!TierNext]_(Tier!tierVars)
<1> USE SlotsAssumption, NoBlockAssumption, NoHashAssumption
<1>1. CASE StartDrain
  <2>1. Tier!StartDrain
    BY <1>1 DEF Tier!StartDrain, StartDrain, Tier!KeptStores, KeptStores,
       Tier!indexVars, indexVars
  <2>. QED
    BY <2>1 DEF Tier!TierNext
<1>2. CASE ResolveStore
  <2>1. Tier!ResolveStore
    BY <1>2 DEF Tier!ResolveStore, ResolveStore, Tier!LeastRecent, LeastRecent,
       Tier!Evictable, Evictable, Tier!Touched, Touched,
       Tier!Resident, Resident, Tier!CpuSlot, CpuSlot, Tier!NoSlot, NoSlot,
       Tier!Commit, Commit, Tier!Reindexed, Reindexed, Tier!NotReady, NotReady,
       Tier!indexVars, indexVars
  <2>. QED
    BY <2>1 DEF Tier!TierNext
<1>3. CASE FinishDrain
  <2>1. Tier!FinishDrain
    BY <1>3 DEF Tier!FinishDrain, FinishDrain, Tier!DrainOk, DrainOk, Tier!H2dSources,
       H2dSources, Tier!D2hTargets, D2hTargets, Tier!D2hSources, D2hSources,
       Tier!CpuSlot, CpuSlot, Tier!NoSlot, NoSlot, Tier!indexVars, indexVars
  <2>. QED
    BY <2>1 DEF Tier!TierNext
<1>4. CASE UNCHANGED cpuTierVars
  BY <1>4 DEF Tier!tierVars, cpuTierVars
<1>. QED
  BY <1>1, <1>2, <1>3, <1>4

(* They keep the invariant of the tier.                                     *)
LEMMA TierCallKeeps ==
  ASSUME Tier!TierInv, ~draining
  PROVE  /\ BeginStep => Tier!TierInv'
         /\ \A h \in Hash : ClaimLoad(h) => Tier!TierInv'
         /\ \A h \in Hash, b \in Block : StageStore(h, b) => Tier!TierInv'
         /\ \A h \in Hash, s \in load_slots : CancelLoad(h, s) => Tier!TierInv'
         /\ \A h \in Hash, s \in load_slots, b \in Block :
              StageLoad(h, s, b) => Tier!TierInv'
<1>1. Tier!TierNext => Tier!TierInv'
  BY SlotsAssumption, NoBlockAssumption, NoHashAssumption, Tier!TierStepInv
<1>. QED
  BY <1>1, TierCalls

LEMMA TierDrainKeeps ==
  ASSUME Tier!TierInv, StartDrain \/ ResolveStore \/ FinishDrain \/ UNCHANGED cpuTierVars
  PROVE  Tier!TierInv'
BY SlotsAssumption, NoBlockAssumption, NoHashAssumption, TierDrains, Tier!TierStepInv

-------------------------------------------------------------------------------
(* The transfers of the step, staged in the tier or handed to the workers.   *)
Loads == swap_in \cup {<<s, h2d[s]>> : s \in H2dSources}
Stores == swap_out \cup {<<b, d2h[b]>> : b \in D2hSources}
DeferredStores == {deferred[i] : i \in DOMAIN deferred}

(* A block in the hands of an object of this step stays there until the step  *)
(* is over, with its content once it has one.                               *)
Busy(b) == \E o \in scheduled : block_id[o] = b
BusyWith(b, h) == \E o \in scheduled : block_id[o] = b /\ content[o] = h

(* Where schedule() is and what the tier and the step have left.             *)
PhaseInv ==
  /\ phase \in {"idle", "running", "prefill", "draining", "execute"}
  /\ (draining <=> phase = "draining")
  /\ phase \in {"idle", "execute"} => BeginOk /\ load_slots = {}
  /\ phase \in {"running", "prefill", "draining"} => pending = {}
  /\ phase # "execute" => swap_in = {} /\ swap_out = {}
  /\ phase = "idle" => touched = {} /\ scheduled = {}

(* Every claim is staged, but for the one of the restore under way, which     *)
(* has its source, no block for its content yet, and an object of its own.   *)
RestoreInv ==
  /\ restoring \in Restore \cup {NoRestore}
  /\ restoring = NoRestore => load_slots = H2dSources
  /\ restoring # NoRestore =>
       /\ phase = "prefill"
       /\ load_slots = H2dSources \cup {restoring.slot}
       /\ restoring.slot \notin H2dSources
       /\ slot_of[restoring.hash] = restoring.slot
       /\ cached[restoring.hash] = NoBlock
       /\ restoring.at = "load" =>
            /\ restoring.obj \in scheduled /\ Allocated(restoring.obj)
            /\ content[restoring.obj] = NoHash
            /\ refcount[block_id[restoring.obj]] = 1

(* What this step filled, loads or stores is busy; a load reads a ready slot, *)
(* a store writes one that is not.                                          *)
StepInv ==
  /\ scheduled \subseteq Obj
  /\ \A b \in touched : \E h \in Hash : BusyWith(b, h)
  /\ \A e \in DeferredStores : e.block \in Block /\ Busy(e.block)
  /\ \A p \in Loads : p \in ready \X Block /\ BusyWith(p[2], hash_of[p[1]])
  /\ \A p \in Stores : p \in Block \X CpuSlot /\ p[2] \notin ready /\ Busy(p[1])
  /\ phase = "execute" => \A s \in pending : \E b \in Block : <<b, s>> \in swap_out

(* What the memories hold: ready slots their content, a block about to be      *)
(* stored the content to store, a cached block its content unless this step   *)
(* computes or loads it.                                                    *)
DataInv ==
  /\ \A s \in ready : cpu[s] = hash_of[s]
  /\ phase = "idle" => \A s \in pending : cpu[s] = hash_of[s]
  /\ \A p \in Stores : gpu[p[1]] = hash_of[p[2]]
  /\ \A e \in DeferredStores : gpu[e.block] = e.hash
  /\ \A h \in Hash : cached[h] # NoBlock =>
       \/ cached[h] \in touched
       \/ \E s \in CpuSlot : <<s, cached[h]>> \in Loads
       \/ gpu[cached[h]] = h

TieredInv ==
  /\ AllocInv
  /\ Tier!TierInv
  /\ PhaseInv
  /\ RestoreInv
  /\ StepInv
  /\ DataInv

-------------------------------------------------------------------------------
(* What a step before the forward pass does to the objects, the map and the   *)
(* touched blocks ...                                                      *)
AllocEffect ==
  /\ scheduled' \subseteq Obj
  /\ \A o \in scheduled : Allocated(o) =>
       /\ o \in scheduled'
       /\ block_id'[o] = block_id[o]
       /\ content[o] # NoHash => content'[o] = content[o]
  /\ touched \subseteq touched'
  /\ \A b \in touched' \ touched : \E h \in Hash : BusyWith(b, h)'
  /\ \A h \in Hash : cached'[h] # NoBlock =>
       \/ cached'[h] = cached[h]
       \/ cached'[h] \in touched'
       \/ \E s \in CpuSlot : <<s, cached'[h]>> \in Loads'

Storable(b, h) == b \in Block /\ Busy(b)' /\ gpu[b] = h

(* ... and to the transfers.                                               *)
TierEffect ==
  /\ \A e \in DeferredStores' : e \in DeferredStores \/ Storable(e.block, e.hash)
  /\ Loads \subseteq Loads'
  /\ \A p \in Loads : p[1] \in ready' /\ hash_of'[p[1]] = hash_of[p[1]]
  /\ \A p \in Loads' : \/ p \in Loads
                       \/ p \in ready' \X Block /\ BusyWith(p[2], hash_of[p[1]])'
  /\ \A p \in Stores' :
       \/ p \in Stores /\ hash_of'[p[2]] = hash_of[p[2]]
       \/ p \in Block \X CpuSlot /\ Storable(p[1], hash_of'[p[2]])
  /\ \A p \in Stores' : p[2] \notin ready'
  /\ \A s \in ready' : cpu[s] = hash_of'[s]
  /\ phase' = "idle" => \A s \in pending' : cpu[s] = hash_of'[s]
  /\ phase' = "execute" => \A s \in pending' : \E b \in Block : <<b, s>> \in swap_out'
  /\ UNCHANGED dataVars

(* Busy blocks stay busy.                                                  *)
LEMMA BusyStays ==
  ASSUME AllocEffect, NEW b \in Block
  PROVE  /\ Busy(b) => Busy(b)'
         /\ \A h \in Hash : BusyWith(b, h) => BusyWith(b, h)'
  BY NoBlockAssumption, NoHashAssumption DEF AllocEffect, Busy, BusyWith, Allocated

(* A step with these effects keeps the two invariants.                       *)
LEMMA EffectsKeep ==
  ASSUME AllocTypeOK, TierFacts, StepInv, DataInv, AllocEffect, TierEffect
  PROVE  StepInv' /\ DataInv'
<1>1. scheduled' \subseteq Obj
  BY DEF AllocEffect
<1>2. ASSUME NEW b \in touched' PROVE \E h \in Hash : BusyWith(b, h)'
  <2>1. CASE b \in touched
    <3>1. PICK h \in Hash : BusyWith(b, h)
      BY <2>1 DEF StepInv
    <3>2. b \in Block
      BY <2>1 DEF AllocTypeOK
    <3>. QED
      BY <3>1, <3>2, BusyStays
  <2>. QED
    BY <1>2, <2>1 DEF AllocEffect
<1>3. ASSUME NEW e \in DeferredStores'
      PROVE  e.block \in Block /\ Busy(e.block)' /\ gpu[e.block] = e.hash
  <2>1. CASE e \in DeferredStores
    BY <2>1, BusyStays DEF StepInv, DataInv
  <2>. QED
    BY <1>3, <2>1 DEF TierEffect, Storable
<1>4. ASSUME NEW p \in Loads'
      PROVE  p \in ready' \X Block /\ BusyWith(p[2], hash_of[p[1]])'
  <2>1. CASE p \in Loads
    <3>1. p \in ready \X Block /\ BusyWith(p[2], hash_of[p[1]])
      BY <2>1 DEF StepInv
    <3>2. p[1] \in ready' /\ hash_of'[p[1]] = hash_of[p[1]] /\ hash_of[p[1]] \in Hash
      BY <2>1, <3>1 DEF TierEffect, TierFacts, Resident, TierTypeOK
    <3>3. BusyWith(p[2], hash_of[p[1]]) => BusyWith(p[2], hash_of[p[1]])'
      BY <3>1, <3>2, NoHashAssumption, NoBlockAssumption
         DEF AllocEffect, BusyWith, Allocated
    <3>. QED
      BY <3>1, <3>2, <3>3
  <2>. QED
    BY <1>4, <2>1 DEF TierEffect
<1>5. ASSUME NEW p \in Stores'
      PROVE  /\ p \in Block \X CpuSlot /\ p[2] \notin ready' /\ Busy(p[1])'
             /\ gpu[p[1]] = hash_of'[p[2]]
  <2>1. CASE p \in Stores /\ hash_of'[p[2]] = hash_of[p[2]]
    BY <1>5, <2>1, BusyStays DEF StepInv, DataInv, TierEffect
  <2>. QED
    BY <1>5, <2>1 DEF TierEffect, Storable
<1>6. StepInv'
  BY <1>1, <1>2, <1>3, <1>4, <1>5 DEF StepInv, TierEffect
<1>7. ASSUME NEW h \in Hash, cached'[h] # NoBlock
      PROVE  \/ cached'[h] \in touched'
             \/ \E s \in CpuSlot : <<s, cached'[h]>> \in Loads'
             \/ gpu[cached'[h]] = h
  BY <1>7, ZenonT(60) DEF AllocEffect, TierEffect, DataInv
<1>8. DataInv'
  BY <1>3, <1>5, <1>7 DEF DataInv, TierEffect, dataVars
<1>. QED
  BY <1>6, <1>8

(* A step that leaves the tier alone has no effect on the transfers.         *)
LEMMA TierAlone ==
  ASSUME TierFacts, StepInv, DataInv, UNCHANGED <<cpuTierVars, swapVars, dataVars>>,
         phase' = "idle" => phase = "idle", phase' # "execute"
  PROVE  TierEffect
<1>1. Loads' = Loads /\ Stores' = Stores /\ DeferredStores' = DeferredStores
  BY DEF cpuTierVars, swapVars, Loads, Stores, DeferredStores, H2dSources, D2hSources
<1>2. ready' = ready /\ hash_of' = hash_of /\ pending' = pending
  BY DEF cpuTierVars
<1>3. \A p \in Loads : p[1] \in ready
  BY DEF StepInv
<1>4. \A p \in Stores : p[2] \notin ready
  BY DEF StepInv
<1>5. /\ \A s \in ready : cpu[s] = hash_of[s]
      /\ phase' = "idle" => \A s \in pending : cpu[s] = hash_of[s]
  BY DEF DataInv
<1>. QED
  BY <1>1, <1>2, <1>3, <1>4, <1>5 DEF TierEffect

(* A step that leaves the allocator alone has none on the objects.           *)
LEMMA AllocAlone ==
  ASSUME StepInv, UNCHANGED <<allocVars, scheduled>>
  PROVE  AllocEffect /\ (AllocInv => AllocInv')
<1>1. AllocEffect
  BY DEF AllocEffect, allocVars, StepInv
<1>2. AllocInv => AllocInv'
  BY NextInv
<1>. QED
  BY <1>1, <1>2

-------------------------------------------------------------------------------
(* A block of the step is neither free nor in the evictor.                   *)
LEMMA BusyIsHeld ==
  ASSUME AllocInv, scheduled \subseteq Obj, NEW b \in Block, Busy(b)
  PROVE  refcount[b] # 0 /\ b \notin free /\ b \notin InEvictor
<1>1. refcount[b] # 0
  BY HoldersOfRefcount DEF AllocInv, Busy
<1>. QED
  BY <1>1 DEF AllocInv, BlocksPartitioned

(* A block is cached for one content at most.                               *)
LEMMA CachedForOne ==
  ASSUME AllocInv, NEW g \in Hash, NEW h \in Hash, cached[g] = cached[h], cached[g] # NoBlock
  PROVE  g = h
<1>1. cached[g] \in Block
  BY DEF AllocInv, AllocTypeOK
<1>2. CASE cached[g] \in InEvictor
  <2>1. \A o \in Obj : block_id[o] # cached[g]
    BY <1>1, <1>2, HoldersOfRefcount DEF AllocInv, BlocksPartitioned
  <2>. QED
    BY <1>2, <2>1 DEF AllocInv, CachedMapExact, CachedIsBacked
<1>3. CASE cached[g] \notin InEvictor
  <2>1. PICK o \in Obj : block_id[o] = cached[g] /\ content[o] = g
    BY <1>3 DEF AllocInv, CachedMapExact, CachedIsBacked
  <2>2. PICK p \in Obj : block_id[p] = cached[g] /\ content[p] = h
    BY <1>3 DEF AllocInv, CachedMapExact, CachedIsBacked
  <2>. QED
    BY <2>1, <2>2 DEF AllocInv, SharedBlocksAgree, Allocated
<1>. QED
  BY <1>2, <1>3

(* A victim really holds what the evictor says: this step has neither filled  *)
(* nor loaded it.                                                          *)
LEMMA VictimHolds ==
  ASSUME AllocInv, StepInv, DataInv, NEW b \in InEvictor
  PROVE  free_table[b].hash \in Hash /\ gpu[b] = free_table[b].hash
<1> DEFINE h == free_table[b].hash
<1>1. b \in Block /\ h \in Hash /\ cached[h] = b
  BY NoEntryAssumption DEF AllocInv, AllocTypeOK, InEvictor, Entry, CachedMapExact, EvictorIsCached
<1>2. ~Busy(b)
  BY <1>1, BusyIsHeld DEF StepInv
<1>3. b \notin touched
  BY <1>2 DEF StepInv, BusyWith, Busy
<1>4. ASSUME NEW s, <<s, b>> \in Loads PROVE FALSE
  <2>1. BusyWith(b, hash_of[s])
    BY <1>4 DEF StepInv
  <2>. QED
    BY <1>2, <2>1 DEF BusyWith, Busy
<1>5. cached[h] # NoBlock
  BY <1>1, NoBlockAssumption
<1>6. \/ cached[h] \in touched
      \/ \E s \in CpuSlot : <<s, cached[h]>> \in Loads
      \/ gpu[cached[h]] = h
  <2> HIDE DEF h
  <2>. QED
    BY <1>1, <1>5 DEF DataInv
<1>. QED
  BY <1>1, <1>3, <1>4, <1>6

(* The effects of the allocator's methods in a step.                         *)
LEMMA FreeEffect ==
  ASSUME AllocInv, StepInv, NEW o \in Obj, o \notin scheduled,
         FreeCached(o) \/ FreeHashless(o), scheduled' = scheduled
  PROVE  AllocInv' /\ AllocEffect /\ touched' = touched
<1>1. AllocInv'
  BY FreeCachedInv, FreeHashlessInv
<1>2. /\ block_id' = [block_id EXCEPT ![o] = NoBlock]
      /\ content' = [content EXCEPT ![o] = NoHash]
      /\ cached' = cached /\ touched' = touched
  BY DEF FreeCached, FreeHashless, Holds
<1>. QED
  BY <1>1, <1>2 DEF AllocEffect, StepInv, AllocInv, AllocTypeOK

LEMMA AllocateEffect ==
  ASSUME AllocInv, StepInv, NEW o \in Obj, AllocateMutable(o), scheduled' = scheduled \cup {o}
  PROVE  /\ AllocInv' /\ AllocEffect /\ touched' = touched
         /\ block_id'[o] \in Block /\ Busy(block_id[o])'
         /\ block_id'[o] \in free \/ block_id'[o] \in InEvictor
         /\ content'[o] = NoHash /\ refcount'[block_id'[o]] = 1
         /\ \A h \in Hash : cached[h] = NoBlock => cached'[h] = NoBlock
<1>1. AllocInv'
  BY AllocateMutableInv
<1>2. PICK b \in Block : /\ AllocateBlockId(b)
                         /\ refcount' = [refcount EXCEPT ![b] = @ + 1]
                         /\ cached' = CachedWithout(b)
                         /\ Holds(o, b, NoHash)
  BY DEF AllocateMutable
<1>3. /\ refcount[b] = 0
      /\ CachedWithout(b) = [h \in Hash |-> IF cached[h] = b THEN NoBlock ELSE cached[h]]
  BY <1>2, PickBlock
<1>4. ~Allocated(o) /\ touched' = touched
  BY DEF AllocateMutable
<1>5. /\ block_id'[o] = b /\ content'[o] = NoHash
      /\ \A p \in Obj : p # o => block_id'[p] = block_id[p] /\ content'[p] = content[p]
  BY <1>2 DEF Holds, AllocInv, AllocTypeOK
<1>6. refcount'[b] = 1
  BY <1>2, <1>3 DEF AllocInv, AllocTypeOK
<1>7. b \in free \/ b \in InEvictor
  BY <1>3 DEF AllocInv, BlocksPartitioned
<1>8. \A h \in Hash : cached'[h] = cached[h] \/ cached'[h] = NoBlock
  BY <1>2, <1>3
<1>9. AllocEffect
  BY <1>4, <1>5, <1>8 DEF AllocEffect, StepInv
<1>. QED
  BY <1>1, <1>2, <1>4, <1>5, <1>6, <1>7, <1>8, <1>9 DEF Busy

LEMMA MissEffect ==
  ASSUME AllocInv, StepInv, NEW o \in Obj, NEW g \in Hash,
         AllocateImmutableMiss(o, g), scheduled' = scheduled \cup {o}
  PROVE  /\ AllocInv' /\ AllocEffect
         /\ block_id'[o] \in Block /\ Busy(block_id[o])'
         /\ block_id'[o] \in free \/ block_id'[o] \in InEvictor
<1>1. AllocInv'
  BY AllocateImmutableMissInv
<1>2. PICK b \in Block : /\ AllocateBlockId(b)
                         /\ cached' = [CachedWithout(b) EXCEPT ![g] = b]
                         /\ touched' = touched \cup {b}
                         /\ Holds(o, b, g)
  BY DEF AllocateImmutableMiss
<1>3. /\ refcount[b] = 0
      /\ CachedWithout(b) = [h \in Hash |-> IF cached[h] = b THEN NoBlock ELSE cached[h]]
  BY <1>2, PickBlock
<1>4. ~Allocated(o)
  BY DEF AllocateImmutableMiss
<1>5. /\ block_id'[o] = b /\ content'[o] = g
      /\ \A p \in Obj : p # o => block_id'[p] = block_id[p] /\ content'[p] = content[p]
  BY <1>2 DEF Holds, AllocInv, AllocTypeOK
<1>6. b \in free \/ b \in InEvictor
  BY <1>3 DEF AllocInv, BlocksPartitioned
<1>7. \A h \in Hash : cached'[h] = cached[h] \/ cached'[h] = NoBlock \/ cached'[h] = b
  BY <1>2, <1>3
<1>8. Busy(b)' /\ BusyWith(b, g)'
  BY <1>5 DEF Busy, BusyWith
<1>9. AllocEffect
  BY <1>2, <1>4, <1>5, <1>7, <1>8 DEF AllocEffect, StepInv
<1>. QED
  BY <1>1, <1>2, <1>5, <1>6, <1>8, <1>9

LEMMA HitEffect ==
  ASSUME AllocInv, StepInv, NEW o \in Obj, NEW g \in Hash,
         AllocateImmutableHit(o, g), scheduled' = scheduled \cup {o}
  PROVE  AllocInv' /\ AllocEffect
<1>1. AllocInv'
  BY AllocateImmutableHitInv
<1>2. /\ ~Allocated(o) /\ cached' = cached /\ touched' = touched
      /\ \A p \in Obj : p # o => block_id'[p] = block_id[p] /\ content'[p] = content[p]
  BY DEF AllocateImmutableHit, Holds, AllocInv, AllocTypeOK
<1>. QED
  BY <1>1, <1>2 DEF AllocEffect, StepInv

LEMMA PromotesEffect ==
  ASSUME AllocInv, StepInv, NEW o \in Obj, NEW g \in Hash, o \notin scheduled,
         PromoteFirst(o, g) \/ PromoteDuplicate(o, g), scheduled' = scheduled \cup {o}
  PROVE  AllocInv' /\ AllocEffect
<1>1. AllocInv'
  BY PromoteFirstInv, PromoteDuplicateInv
<1>2. \A p \in Obj : p # o => block_id'[p] = block_id[p] /\ content'[p] = content[p]
  BY DEF PromoteFirst, PromoteDuplicate, Holds, AllocInv, AllocTypeOK
<1>3. CASE PromoteFirst(o, g)
  <2>1. /\ touched' = touched \cup {block_id[o]}
        /\ block_id'[o] = block_id[o] /\ content'[o] = g
        /\ \A h \in Hash : cached'[h] = cached[h] \/ cached'[h] = block_id[o]
    BY <1>3 DEF PromoteFirst, Holds, AllocInv, AllocTypeOK
  <2>2. BusyWith(block_id[o], g)'
    BY <2>1 DEF BusyWith
  <2>. QED
    BY <1>1, <1>2, <2>1, <2>2 DEF AllocEffect, StepInv
<1>4. CASE PromoteDuplicate(o, g)
  <2>1. cached' = cached /\ touched' = touched
    BY <1>4 DEF PromoteDuplicate
  <2>. QED
    BY <1>1, <1>2, <2>1 DEF AllocEffect, StepInv
<1>. QED
  BY <1>3, <1>4

-------------------------------------------------------------------------------
(* A committed store: its slot was in nobody's hands.                        *)
LEMMA CommitEffect ==
  ASSUME TierFacts, StepInv, DataInv, PhaseInv,
         NEW b \in Block, NEW h \in Hash, NEW s \in CpuSlot, s \notin in_use,
         Commit(h, b, s), b \notin D2hSources,
         Busy(b)', gpu[b] = h, DeferredStores' \subseteq DeferredStores,
         pending' = {}, phase # "execute", phase' # "execute",
         UNCHANGED <<h2d, swapVars, dataVars>>
  PROVE  TierEffect
<1>1. s \notin D2hTargets /\ s \notin H2dSources
  BY DEF TierFacts, OneRolePerSlot, ClaimsPinned, LoadsClaimed, StoresApart
<1>2. Loads' = Loads
  BY DEF Loads, H2dSources, swapVars
<1>3. \A p \in Loads : p[1] \in ready /\ p[1] \in CpuSlot
  BY DEF StepInv, TierFacts, TierTypeOK
<1>4. /\ hash_of'[s] = h /\ ready' = ready \ {s}
      /\ \A t \in CpuSlot : t # s => hash_of'[t] = hash_of[t]
  BY DEF Commit, NotReady, TierFacts, TierTypeOK
<1>5. swap_in = {} /\ swap_out = {}
  BY DEF PhaseInv
<1>6. \A p \in Loads : p[1] # s
  BY <1>1, <1>5 DEF Loads
<1>7. ASSUME NEW p \in Stores'
      PROVE  \/ p \in Stores /\ p[2] # s /\ p \in Block \X CpuSlot
             \/ p = <<b, s>>
  <2>1. d2h' = [d2h EXCEPT ![b] = s] /\ swap_out' = {}
    BY <1>5 DEF Commit, swapVars
  <2>2. PICK c \in Block : d2h'[c] # NoSlot /\ p = <<c, d2h'[c]>>
    BY <2>1 DEF Stores, D2hSources
  <2>3. CASE c = b
    BY <2>1, <2>2, <2>3 DEF TierFacts, TierTypeOK
  <2>4. CASE c # b
    <3>1. c \in D2hSources /\ p = <<c, d2h[c]>>
      BY <2>1, <2>2, <2>4 DEF TierFacts, TierTypeOK, D2hSources
    <3>2. p \in Stores /\ d2h[c] \in D2hTargets
      BY <3>1 DEF Stores, D2hTargets
    <3>. QED
      BY <1>1, <3>1, <3>2 DEF StepInv
  <2>. QED
    BY <2>3, <2>4
<1>8. \A s1 \in ready' : cpu[s1] = hash_of'[s1]
  BY <1>4 DEF DataInv, TierFacts, TierTypeOK
<1>9. ASSUME NEW p \in Stores'
      PROVE  /\ p[2] \notin ready'
             /\ \/ p \in Stores /\ hash_of'[p[2]] = hash_of[p[2]]
                \/ p \in Block \X CpuSlot /\ Storable(p[1], hash_of'[p[2]])
  <2>1. CASE p \in Stores /\ p[2] # s /\ p \in Block \X CpuSlot
    BY <1>4, <2>1 DEF StepInv
  <2>2. CASE p = <<b, s>>
    BY <1>4, <2>2 DEF Storable
  <2>. QED
    BY <1>7, <2>1, <2>2
<1>. QED
  BY <1>2, <1>3, <1>4, <1>6, <1>8, <1>9 DEF TierEffect

(* The victim of an allocation is stored: the call never raises, because a    *)
(* block that was stored in this step is busy and cannot be a victim again.  *)
LEMMA StoresVictimEffect ==
  ASSUME AllocInv, Tier!TierInv, PhaseInv, StepInv, DataInv,
         phase \in {"running", "prefill"},
         NEW b \in Block, b \in free \/ b \in InEvictor, StoresVictim(b), Busy(b)',
         UNCHANGED <<swapVars, dataVars>>
  PROVE  /\ Tier!TierInv' /\ TierEffect
         /\ phase' = phase
         /\ UNCHANGED <<pending, draining, h2d, load_slots>>
         /\ \A h \in Hash : slot_of[h] # NoSlot => slot_of'[h] = slot_of[h]
<1>0. TierFacts
  BY TierGives
<1>1. CASE b \in free
  <2>1. UNCHANGED <<cpuTierVars, phase>>
    BY <1>1 DEF StoresVictim
  <2>2. TierEffect
    BY <1>0, <2>1, TierAlone
  <2>. QED
    BY <2>1, <2>2, TierDrainKeeps DEF cpuTierVars
<1>2. CASE b \notin free
  <2> DEFINE h == free_table[b].hash
  <2>1. b \in InEvictor /\ h \in Hash /\ gpu[b] = h
    BY <1>2, VictimHolds
  <2>2. ~Busy(b)
    BY <2>1, BusyIsHeld DEF StepInv
  <2>3. b \notin D2hSources /\ b \notin DeferredBlocks
    <3>1. ASSUME b \in D2hSources PROVE FALSE
      <4>1. <<b, d2h[b]>> \in Stores
        BY <3>1 DEF Stores
      <4>. QED
        BY <2>2, <4>1 DEF StepInv
    <3>2. ASSUME b \in DeferredBlocks PROVE FALSE
      <4>1. PICK e \in DeferredStores : e.block = b
        BY <3>2 DEF DeferredBlocks, DeferredStores
      <4>. QED
        BY <2>2, <4>1 DEF StepInv
    <3>. QED
      BY <3>1, <3>2
  <2>4. pending = {} /\ ~draining /\ phase # "execute" /\ phase # "idle"
    BY DEF PhaseInv
  <2>5. StoreOk(h, b)
    BY <2>3, <2>4 DEF StoreOk, StepStarted
  <2>6. StageStore(h, b) /\ phase' = phase
    BY <1>2, <2>5 DEF StoresVictim
  <2>7. Tier!TierInv'
    <3> HIDE DEF h
    <3>. QED
      BY <2>1, <2>4, <2>6, TierCallKeeps
  <2>8. UNCHANGED <<pending, draining, h2d, load_slots>>
    BY <2>6 DEF StageStore
  <2> HIDE DEF h
  <2>9. CASE StoreKnown(h)
    <3>1. /\ UNCHANGED <<slot_of, hash_of, ready, d2h, deferred>>
      BY <2>9 DEF StoreKnown, indexVars
    <3>2. Loads' = Loads /\ Stores' = Stores /\ DeferredStores' = DeferredStores
      BY <2>8, <3>1 DEF swapVars, Loads, Stores, DeferredStores, H2dSources, D2hSources
    <3>3. /\ \A p \in Loads : p[1] \in ready
          /\ \A p \in Stores : p[2] \notin ready
          /\ \A s \in ready : cpu[s] = hash_of[s]
      BY DEF StepInv, DataInv
    <3>4. TierEffect
      BY <2>4, <2>6, <3>1, <3>2, <3>3 DEF TierEffect
    <3>. QED
      BY <2>6, <2>7, <2>8, <3>1, <3>4
  <2>10. CASE StoreNow(h, b)
    <3>1. PICK s \in CpuSlot : SmallestFree(s) /\ Commit(h, b, s)
      BY <2>10 DEF StoreNow
    <3>2. slot_of[h] = NoSlot /\ deferred' = deferred
      BY <2>10 DEF StoreNow, Known
    <3>3. s \notin Resident /\ s \notin in_use
      BY <1>0, <3>1 DEF SmallestFree, TierFacts, SlotsExact, FreeIsTheRest, OneRolePerSlot,
         InUseExplained, ClaimsPinned
    <3>4. DeferredStores' \subseteq DeferredStores
      BY <3>2 DEF DeferredStores
    <3>5. TierEffect
      BY <1>0, <2>1, <2>3, <2>4, <2>6, <2>8, <3>1, <3>3, <3>4, CommitEffect
    <3>6. \A g \in Hash : slot_of[g] # NoSlot => slot_of'[g] = slot_of[g]
      BY <3>1, <3>2, <3>3, NoHashAssumption DEF Commit, Reindexed, Resident
    <3>. QED
      BY <2>6, <2>7, <2>8, <3>5, <3>6
  <2>11. CASE StoreLater(h, b)
    <3>1. /\ UNCHANGED <<slot_of, hash_of, ready, d2h>>
          /\ deferred' = Append(deferred, DeferredEntry(h, b))
      BY <2>11 DEF StoreLater, indexVars
    <3>2. Loads' = Loads /\ Stores' = Stores
      BY <2>8, <3>1 DEF swapVars, Loads, Stores, H2dSources, D2hSources
    <3>3. /\ \A p \in Loads : p[1] \in ready
          /\ \A p \in Stores : p[2] \notin ready
          /\ \A s \in ready : cpu[s] = hash_of[s]
      BY DEF StepInv, DataInv
    <3>4. \A e \in DeferredStores' : e \in DeferredStores \/ e = DeferredEntry(h, b)
      BY <1>0, <3>1 DEF DeferredStores, TierFacts, TierTypeOK
    <3>5. Storable(DeferredEntry(h, b).block, DeferredEntry(h, b).hash)
      BY <2>1 DEF Storable, DeferredEntry
    <3>6. TierEffect
      BY <2>4, <2>6, <3>1, <3>2, <3>3, <3>4, <3>5 DEF TierEffect
    <3>. QED
      BY <2>6, <2>7, <2>8, <3>1, <3>6
  <2>. QED
    BY <2>6, <2>9, <2>10, <2>11 DEF StageStore, StageStoreEffect
<1>. QED
  BY <1>1, <1>2

-------------------------------------------------------------------------------
(* The actions.                                                            *)
LEMMA BeginScheduleKeeps == ASSUME TieredInv, BeginSchedule PROVE TieredInv'
<1>0. TierFacts
  BY TierGives DEF TieredInv
<1>1. phase = "idle" /\ BeginOk /\ ~draining /\ swap_in = {} /\ swap_out = {} /\ load_slots = {}
  BY DEF BeginSchedule, TieredInv, PhaseInv
<1>2. BeginStep /\ phase' = "running"
  BY <1>1 DEF BeginSchedule
<1>3. /\ UNCHANGED <<allocVars, scheduled, restoring, swapVars, dataVars>>
      /\ UNCHANGED <<hash_of, slot_of, h2d, d2h, deferred, draining, load_slots, in_use>>
      /\ ready' = ready \cup pending /\ pending' = {}
  BY <1>2 DEF BeginSchedule, BeginStep, stepVars
<1>4. Tier!TierInv'
  BY <1>1, <1>2, TierCallKeeps DEF TieredInv
<1>5. AllocEffect /\ AllocInv'
  BY <1>3, AllocAlone DEF TieredInv
<1>6. /\ Loads = {} /\ Loads' = {} /\ Stores' = {} /\ DeferredStores' = {}
      /\ H2dSources' = H2dSources /\ H2dSources = {}
  BY <1>1, <1>3 DEF Loads, Stores, DeferredStores, H2dSources, D2hSources, BeginOk, swapVars
<1>7. \A s \in ready' : cpu[s] = hash_of'[s]
  BY <1>1, <1>3 DEF TieredInv, DataInv
<1>8. TierEffect
  BY <1>2, <1>3, <1>6, <1>7 DEF TierEffect
<1>9. StepInv' /\ DataInv'
  BY <1>0, <1>5, <1>8, EffectsKeep DEF TieredInv, AllocInv
<1>10. restoring = NoRestore
  BY <1>1 DEF TieredInv, RestoreInv
<1>11. RestoreInv'
  BY <1>1, <1>3, <1>6, <1>10 DEF RestoreInv
<1>12. PhaseInv'
  BY <1>1, <1>2, <1>3 DEF PhaseInv, swapVars
<1>. QED
  BY <1>4, <1>5, <1>9, <1>11, <1>12 DEF TieredInv

(* A step of the scheduler that leaves the tier alone, outside a restore.    *)
LEMMA AllocStepKeeps ==
  ASSUME TieredInv, AllocInv', AllocEffect, restoring = NoRestore,
         UNCHANGED <<cpuTierVars, restoring, swapVars, dataVars>>,
         \/ phase = "idle" /\ phase' = "idle" /\ UNCHANGED <<touched, scheduled>>
         \/ phase \in {"running", "prefill"} /\ phase' \in {"running", "prefill"}
  PROVE  TieredInv'
<1>0. TierFacts
  BY TierGives DEF TieredInv
<1>1. Tier!TierInv'
  BY TierDrainKeeps DEF TieredInv
<1>2. TierEffect
  BY <1>0, TierAlone DEF TieredInv
<1>3. StepInv' /\ DataInv'
  BY <1>0, <1>2, EffectsKeep DEF TieredInv, AllocInv
<1>4. RestoreInv'
  BY DEF TieredInv, RestoreInv, cpuTierVars, H2dSources
<1>5. BeginOk' <=> BeginOk
  BY DEF BeginOk, cpuTierVars, H2dSources, D2hSources
<1>6. PhaseInv'
  BY <1>5 DEF TieredInv, PhaseInv, cpuTierVars, swapVars
<1>. QED
  BY <1>1, <1>3, <1>4, <1>6 DEF TieredInv

LEMMA NotRestoring == ASSUME TieredInv, phase # "prefill" PROVE restoring = NoRestore
  BY DEF TieredInv, RestoreInv

LEMMA FreeObjectKeeps ==
  ASSUME TieredInv, NEW o \in Obj, FreeObject(o) PROVE TieredInv'
<1>1. phase \in {"idle", "running"} /\ phase' = phase /\ o \notin scheduled
  BY DEF FreeObject, TieredInv, PhaseInv
<1>2. AllocInv' /\ AllocEffect /\ touched' = touched
  BY <1>1, FreeEffect DEF FreeObject, TieredInv
<1>3. restoring = NoRestore
  BY <1>1, NotRestoring
<1>. QED
  BY <1>1, <1>2, <1>3, AllocStepKeeps DEF FreeObject

LEMMA PromotesKeeps ==
  ASSUME TieredInv, NEW o \in Obj, NEW h \in Hash, Promotes(o, h) PROVE TieredInv'
<1>1. AllocInv' /\ AllocEffect
  BY PromotesEffect DEF Promotes, TieredInv
<1>2. restoring = NoRestore /\ phase = "running" /\ phase' = phase
  BY NotRestoring DEF Promotes
<1>. QED
  BY <1>1, <1>2, AllocStepKeeps DEF Promotes

LEMMA GpuHitKeeps ==
  ASSUME TieredInv, NEW o \in Obj, NEW h \in Hash, GpuHit(o, h) PROVE TieredInv'
<1>1. AllocInv' /\ AllocEffect
  BY HitEffect DEF GpuHit, TieredInv
<1>. QED
  BY <1>1, AllocStepKeeps DEF GpuHit

LEMMA StartPrefillsKeeps == ASSUME TieredInv, StartPrefills PROVE TieredInv'
<1>1. AllocInv' /\ AllocEffect
  BY AllocAlone DEF StartPrefills, TieredInv
<1>2. restoring = NoRestore
  BY NotRestoring DEF StartPrefills
<1>. QED
  BY <1>1, <1>2, AllocStepKeeps DEF StartPrefills

(* A step of the scheduler that takes block b and stores its victim.         *)
LEMMA StoringStepKeeps ==
  ASSUME TieredInv, AllocInv', AllocEffect, phase \in {"running", "prefill"},
         NEW b \in Block, b \in free \/ b \in InEvictor, StoresVictim(b), Busy(b)',
         UNCHANGED <<swapVars, dataVars>>
  PROVE  /\ Tier!TierInv' /\ PhaseInv' /\ StepInv' /\ DataInv'
         /\ phase' = phase /\ load_slots' = load_slots /\ H2dSources' = H2dSources
         /\ \A h \in Hash : slot_of[h] # NoSlot => slot_of'[h] = slot_of[h]
<1>0. TierFacts
  BY TierGives DEF TieredInv
<1>1. /\ Tier!TierInv' /\ TierEffect
      /\ phase' = phase
      /\ UNCHANGED <<pending, draining, h2d, load_slots>>
      /\ \A h \in Hash : slot_of[h] # NoSlot => slot_of'[h] = slot_of[h]
  BY StoresVictimEffect DEF TieredInv
<1>2. StepInv' /\ DataInv'
  BY <1>0, <1>1, EffectsKeep DEF TieredInv, AllocInv
<1>3. PhaseInv'
  BY <1>1 DEF TieredInv, PhaseInv, swapVars
<1>. QED
  BY <1>1, <1>2, <1>3 DEF H2dSources

LEMMA AllocatesMutableKeeps ==
  ASSUME TieredInv, NEW o \in Obj, AllocatesMutable(o) PROVE TieredInv'
<1>1. /\ AllocInv' /\ AllocEffect
      /\ block_id'[o] \in Block /\ Busy(block_id[o])'
      /\ block_id'[o] \in free \/ block_id'[o] \in InEvictor
  BY AllocateEffect DEF AllocatesMutable, TieredInv
<1>2. PICK b \in Block : b = block_id'[o]
  BY <1>1
<1>3. Busy(b)' /\ StoresVictim(b) /\ phase \in {"running", "prefill"} /\ restoring = NoRestore
  BY <1>1, <1>2 DEF Busy, AllocatesMutable, Scheduling
<1>4. /\ Tier!TierInv' /\ PhaseInv' /\ StepInv' /\ DataInv'
      /\ phase' = phase /\ load_slots' = load_slots /\ H2dSources' = H2dSources
  BY <1>1, <1>2, <1>3, StoringStepKeeps DEF AllocatesMutable
<1>5. RestoreInv'
  BY <1>3, <1>4 DEF TieredInv, RestoreInv, AllocatesMutable
<1>. QED
  BY <1>1, <1>4, <1>5 DEF TieredInv

LEMMA MissKeeps ==
  ASSUME TieredInv, NEW o \in Obj, NEW h \in Hash, Miss(o, h) PROVE TieredInv'
<1>1. /\ AllocInv' /\ AllocEffect
      /\ block_id'[o] \in Block /\ Busy(block_id[o])'
      /\ block_id'[o] \in free \/ block_id'[o] \in InEvictor
  BY MissEffect DEF Miss, TieredInv
<1>2. PICK b \in Block : b = block_id'[o]
  BY <1>1
<1>3. Busy(b)' /\ StoresVictim(b) /\ phase \in {"running", "prefill"} /\ restoring = NoRestore
  BY <1>1, <1>2 DEF Busy, Miss
<1>4. /\ Tier!TierInv' /\ PhaseInv' /\ StepInv' /\ DataInv'
      /\ phase' = phase /\ load_slots' = load_slots /\ H2dSources' = H2dSources
  BY <1>1, <1>2, <1>3, StoringStepKeeps DEF Miss
<1>5. RestoreInv'
  BY <1>3, <1>4 DEF TieredInv, RestoreInv, Miss
<1>. QED
  BY <1>1, <1>4, <1>5 DEF TieredInv

-------------------------------------------------------------------------------
(* A content without a GPU block is not claimed yet: what was claimed in this  *)
(* step is loaded, hence cached.                                            *)
LEMMA MissIsUnclaimed ==
  ASSUME TieredInv, restoring = NoRestore, NEW h \in Hash, cached[h] = NoBlock, Hits(h)
  PROVE  slot_of[h] \in CpuSlot /\ hash_of[slot_of[h]] = h /\ slot_of[h] \notin in_use
<1>0. TierFacts
  BY TierGives DEF TieredInv
<1> DEFINE s == slot_of[h]
<1>1. s \in CpuSlot /\ s \in ready /\ hash_of[s] = h
  BY <1>0 DEF Hits, TierFacts, TierTypeOK, SlotsExact, MapsInverse
<1>2. ASSUME s \in in_use PROVE FALSE
  <2>1. s \in load_slots
    BY <1>0, <1>1, <1>2 DEF TierFacts, OneRolePerSlot, InUseExplained, StoresApart
  <2>2. s \in H2dSources
    BY <2>1 DEF TieredInv, RestoreInv
  <2>3. <<s, h2d[s]>> \in Loads
    BY <2>2 DEF Loads
  <2>4. h2d[s] \in Block /\ BusyWith(h2d[s], h)
    BY <1>1, <2>3 DEF TieredInv, StepInv
  <2>5. PICK o \in Obj : block_id[o] = h2d[s] /\ content[o] = h
    BY <2>4 DEF TieredInv, StepInv, BusyWith
  <2>6. Allocated(o) /\ content[o] # NoHash
    BY <2>4, <2>5, NoBlockAssumption, NoHashAssumption DEF Allocated
  <2>. QED
    BY <2>4, <2>5, <2>6, NoBlockAssumption
       DEF TieredInv, AllocInv, CachedMapExact, FullIsCached
<1>. QED
  BY <1>1, <1>2

(* Claims and cancellations change the claims only.                          *)
LEMMA ClaimStepKeeps ==
  ASSUME TieredInv, Tier!TierInv', RestoreInv', phase = "prefill", phase' = "prefill",
         UNCHANGED <<allocVars, scheduled, swapVars, dataVars>>,
         UNCHANGED <<slot_of, hash_of, ready, free_slots, h2d, d2h, deferred, draining, pending>>
  PROVE  TieredInv'
<1>0. TierFacts
  BY TierGives DEF TieredInv
<1>1. Loads' = Loads /\ Stores' = Stores /\ DeferredStores' = DeferredStores
  BY DEF swapVars, Loads, Stores, DeferredStores, H2dSources, D2hSources
<1>2. /\ \A p \in Loads : p[1] \in ready
      /\ \A p \in Stores : p[2] \notin ready
      /\ \A s \in ready : cpu[s] = hash_of[s]
  BY DEF TieredInv, StepInv, DataInv
<1>3. TierEffect
  BY <1>1, <1>2 DEF TierEffect
<1>4. AllocEffect /\ AllocInv'
  BY AllocAlone DEF TieredInv
<1>5. StepInv' /\ DataInv'
  BY <1>0, <1>3, <1>4, EffectsKeep DEF TieredInv, AllocInv
<1>6. PhaseInv'
  BY DEF TieredInv, PhaseInv, swapVars
<1>. QED
  BY <1>4, <1>5, <1>6 DEF TieredInv

LEMMA RestoreClaimsKeeps ==
  ASSUME TieredInv, NEW o \in Obj, NEW h \in Hash, RestoreClaims(o, h) PROVE TieredInv'
<1>0. TierFacts
  BY TierGives DEF TieredInv
<1>1. phase = "prefill" /\ restoring = NoRestore /\ cached[h] = NoBlock /\ pending = {} /\ ~draining
  BY DEF RestoreClaims, TieredInv, PhaseInv
<1>2. ClaimOk(h)
  BY <1>1, MissIsUnclaimed DEF ClaimOk, StepStarted
<1>3. /\ ClaimLoad(h) /\ phase' = phase
      /\ restoring' = [obj |-> o, hash |-> h, slot |-> slot_of[h], at |-> "allocate"]
  BY <1>2 DEF RestoreClaims
<1>4. Hits(h) /\ slot_of[h] \in CpuSlot /\ slot_of[h] \notin in_use
  BY <1>1, <1>3, MissIsUnclaimed DEF ClaimLoad
<1>5. Tier!TierInv'
  BY <1>1, <1>3, TierCallKeeps DEF TieredInv
<1>6. /\ UNCHANGED <<slot_of, hash_of, ready, free_slots, h2d, d2h, deferred, draining, pending>>
      /\ load_slots' = load_slots \cup {slot_of[h]}
  BY <1>3 DEF ClaimLoad, indexVars
<1>7. load_slots = H2dSources /\ H2dSources' = H2dSources /\ slot_of[h] \notin H2dSources
  BY <1>0, <1>1, <1>4, <1>6
     DEF TieredInv, RestoreInv, H2dSources, TierFacts, OneRolePerSlot, ClaimsPinned
<1>8. RestoreInv'
  <2>1. cached' = cached
    BY DEF RestoreClaims, allocVars
  <2>2. restoring' \in Restore /\ restoring'.slot = slot_of[h] /\ restoring'.hash = h
        /\ restoring'.at = "allocate"
    BY <1>3, <1>4 DEF Restore
  <2>3. restoring' # NoRestore
    BY <2>2, NoRestoreAssumption
  <2>. QED
    BY <1>1, <1>3, <1>6, <1>7, <2>1, <2>2, <2>3 DEF RestoreInv
<1>. QED
  BY <1>1, <1>3, <1>5, <1>6, <1>8, ClaimStepKeeps DEF RestoreClaims

LEMMA RestoreCancelsKeeps == ASSUME TieredInv, RestoreCancels PROVE TieredInv'
<1>1. /\ restoring # NoRestore /\ restoring \in Restore /\ phase = "prefill"
      /\ load_slots = H2dSources \cup {restoring.slot}
      /\ restoring.slot \notin H2dSources
  BY DEF RestoreCancels, RestoringAt, TieredInv, RestoreInv
<1>2. restoring.hash \in Hash /\ restoring.slot \in load_slots /\ ~draining
  BY <1>1 DEF Restore, TieredInv, PhaseInv
<1>3. CancelLoad(restoring.hash, restoring.slot) /\ restoring' = NoRestore /\ phase' = phase
  BY DEF RestoreCancels
<1>4. /\ UNCHANGED <<slot_of, hash_of, ready, free_slots, h2d, d2h, deferred, draining, pending>>
      /\ load_slots' = load_slots \ {restoring.slot}
  BY <1>3 DEF CancelLoad, indexVars
<1>5. Tier!TierInv'
  BY <1>2, <1>3, TierCallKeeps DEF TieredInv
<1>6. H2dSources' = H2dSources
  BY <1>4 DEF H2dSources
<1>7. RestoreInv'
  BY <1>1, <1>3, <1>4, <1>6 DEF RestoreInv
<1>. QED
  BY <1>1, <1>3, <1>4, <1>5, <1>7, ClaimStepKeeps DEF RestoreCancels

LEMMA RestoreAllocatesKeeps == ASSUME TieredInv, RestoreAllocates PROVE TieredInv'
<1>1. /\ restoring # NoRestore /\ restoring \in Restore /\ phase = "prefill"
      /\ load_slots = H2dSources \cup {restoring.slot}
      /\ restoring.slot \notin H2dSources
      /\ slot_of[restoring.hash] = restoring.slot
      /\ cached[restoring.hash] = NoBlock
  BY DEF RestoreAllocates, RestoringAt, TieredInv, RestoreInv
<1>2. /\ restoring.obj \in Obj /\ restoring.hash \in Hash /\ restoring.slot \in CpuSlot
      /\ restoring.slot # NoSlot
  BY <1>1, SlotsAssumption DEF Restore, CpuSlot, NoSlot
<1>3. PICK o \in Obj : o = restoring.obj
  BY <1>2
<1>4. /\ AllocateMutable(o) /\ StoresVictim(block_id'[o])
      /\ restoring' = [restoring EXCEPT !.at = "load"]
      /\ scheduled' = scheduled \cup {o}
      /\ UNCHANGED <<swapVars, dataVars>>
  BY <1>3 DEF RestoreAllocates
<1>5. /\ AllocInv' /\ AllocEffect
      /\ block_id'[o] \in Block /\ Busy(block_id[o])'
      /\ block_id'[o] \in free \/ block_id'[o] \in InEvictor
      /\ content'[o] = NoHash /\ refcount'[block_id'[o]] = 1
      /\ \A h \in Hash : cached[h] = NoBlock => cached'[h] = NoBlock
  BY <1>2, <1>4, AllocateEffect DEF TieredInv
<1>6. PICK b \in Block : b = block_id'[o]
  BY <1>5
<1>7. Busy(b)' /\ StoresVictim(b)
  BY <1>4, <1>5, <1>6 DEF Busy
<1>8. /\ Tier!TierInv' /\ PhaseInv' /\ StepInv' /\ DataInv'
      /\ phase' = phase /\ load_slots' = load_slots /\ H2dSources' = H2dSources
      /\ \A h \in Hash : slot_of[h] # NoSlot => slot_of'[h] = slot_of[h]
  BY <1>1, <1>4, <1>5, <1>6, <1>7, StoringStepKeeps
<1>9. /\ restoring' \in Restore /\ restoring'.slot = restoring.slot
      /\ restoring'.hash = restoring.hash /\ restoring'.obj = o
  BY <1>1, <1>4, <1>3 DEF Restore
<1>10. RestoreInv'
  <2>1. restoring' # NoRestore
    BY <1>9, NoRestoreAssumption
  <2>2. Allocated(o)' /\ o \in scheduled'
    BY <1>4, <1>5, NoBlockAssumption DEF Allocated
  <2>. QED
    BY <1>1, <1>2, <1>5, <1>8, <1>9, <2>1, <2>2 DEF RestoreInv, Allocated
<1>. QED
  BY <1>5, <1>8, <1>10 DEF TieredInv

-------------------------------------------------------------------------------
(* The restore publishes its block behind the back of the promotion: the map   *)
(* stays exact, because the content was cached nowhere and the block is the   *)
(* object's alone.                                                         *)
LEMMA PublishKeeps ==
  ASSUME AllocInv, NEW o \in Obj, NEW h \in Hash, NEW b \in Block,
         block_id[o] = b, content[o] = NoHash, refcount[b] = 1, cached[h] = NoBlock,
         cached' = [cached EXCEPT ![h] = b],
         computed' = [computed EXCEPT ![b] = TRUE],
         content' = [content EXCEPT ![o] = h],
         UNCHANGED <<free_table, older, free, refcount, touched, active,
                     last_accessed, block_id>>
  PROVE  AllocInv'
<1> USE DEF AllocInv
<1>1. AllocTypeOK'
  BY DEF AllocTypeOK
<1>2. RefcountIsHolders' /\ BlocksPartitioned' /\ InEvictor' = InEvictor
  BY DEF RefcountIsHolders, Holders, BlocksPartitioned, InEvictor
<1>3. /\ cached'[h] = b /\ \A g \in Hash : g # h => cached'[g] = cached[g]
      /\ content'[o] = h /\ \A p \in Obj : p # o => content'[p] = content[p]
  BY DEF AllocTypeOK
<1>4. \A p \in Obj : block_id[p] = b => p = o
  BY HoldersOfRefcount
<1>5. CachedIsBacked'
  <2>1. ASSUME NEW g \in Hash, cached'[g] # NoBlock
        PROVE  \/ cached'[g] \in InEvictor' /\ free_table'[cached'[g]].hash = g
               \/ \E p \in Obj : block_id'[p] = cached'[g] /\ content'[p] = g
    <3>1. CASE g = h
      BY <1>3, <3>1
    <3>2. CASE g # h
      <4>1. \/ cached[g] \in InEvictor /\ free_table[cached[g]].hash = g
            \/ \E p \in Obj : block_id[p] = cached[g] /\ content[p] = g
        BY <1>3, <2>1, <3>2 DEF CachedMapExact, CachedIsBacked
      <4>. QED
        BY <1>2, <1>3, <3>2, <4>1, NoHashAssumption
    <3>. QED
      BY <3>1, <3>2
  <2>. QED
    BY <2>1 DEF CachedIsBacked
<1>6. EvictorIsCached'
  <2>1. ASSUME NEW c \in InEvictor PROVE cached'[free_table[c].hash] = c
    <3>1. cached[free_table[c].hash] = c /\ free_table[c].hash \in Hash /\ c \in Block
      BY NoEntryAssumption
         DEF CachedMapExact, EvictorIsCached, AllocTypeOK, InEvictor, Entry
    <3>. QED
      BY <1>3, <3>1, NoBlockAssumption
  <2>. QED
    BY <1>2, <2>1 DEF EvictorIsCached
<1>7. FullIsCached'
  <2>1. ASSUME NEW p \in Obj, Allocated(p), content'[p] # NoHash
        PROVE  cached'[content'[p]] = block_id[p]
    <3>1. CASE p = o
      BY <1>3, <3>1
    <3>2. CASE p # o
      <4>1. content'[p] = content[p] /\ content[p] \in Hash
        BY <1>3, <2>1, <3>2 DEF AllocTypeOK
      <4>2. cached[content[p]] = block_id[p] /\ block_id[p] # NoBlock
        BY <2>1, <4>1 DEF CachedMapExact, FullIsCached, Allocated
      <4>. QED
        BY <1>3, <4>1, <4>2
    <3>. QED
      BY <3>1, <3>2
  <2>. QED
    BY <2>1 DEF FullIsCached, Allocated
<1>8. SharedBlocksAgree'
  <2>1. ASSUME NEW p \in Obj, NEW q \in Obj, Allocated(p), block_id[p] = block_id[q]
        PROVE  content'[p] = content'[q]
    BY <1>3, <1>4, <2>1 DEF SharedBlocksAgree
  <2>. QED
    BY <2>1 DEF SharedBlocksAgree, Allocated
<1>. QED
  BY <1>1, <1>2, <1>5, <1>6, <1>7, <1>8 DEF CachedMapExact

LEMMA RestoreLoadsKeeps == ASSUME TieredInv, RestoreLoads PROVE TieredInv'
<1>0. TierFacts
  BY TierGives DEF TieredInv
<1>1. /\ restoring \in Restore /\ phase = "prefill"
      /\ load_slots = H2dSources \cup {restoring.slot}
      /\ restoring.slot \notin H2dSources
      /\ slot_of[restoring.hash] = restoring.slot
      /\ cached[restoring.hash] = NoBlock
      /\ restoring.obj \in scheduled /\ Allocated(restoring.obj)
      /\ content[restoring.obj] = NoHash
      /\ refcount[block_id[restoring.obj]] = 1
  BY DEF RestoreLoads, RestoringAt, TieredInv, RestoreInv
<1>2. PICK o \in Obj, h \in Hash, s \in CpuSlot :
        o = restoring.obj /\ h = restoring.hash /\ s = restoring.slot
  BY <1>1 DEF Restore
<1>3. PICK b \in Block : b = block_id[o]
  BY <1>1, <1>2 DEF Allocated, TieredInv, AllocInv, AllocTypeOK
<1>4. s \in ready /\ s \in in_use /\ s \notin D2hTargets /\ hash_of[s] = h
  <2>1. s \in load_slots /\ slot_of[h] = s /\ s # NoSlot
    BY <1>1, <1>2, SlotsAssumption DEF CpuSlot, NoSlot
  <2>. QED
    BY <1>0, <2>1 DEF TierFacts, OneRolePerSlot, ClaimsPinned, StoresApart, SlotsExact,
                      MapsInverse
<1>5. b \notin H2dTargets
  <2>1. SUFFICES ASSUME NEW t \in H2dSources, h2d[t] = b PROVE FALSE
    BY DEF H2dTargets
  <2>2. <<t, b>> \in Loads
    BY <2>1 DEF Loads
  <2>3. t \in ready /\ BusyWith(b, hash_of[t])
    BY <2>2 DEF TieredInv, StepInv
  <2>4. PICK p \in Obj : block_id[p] = b /\ content[p] = hash_of[t]
    BY <2>3 DEF TieredInv, StepInv, BusyWith
  <2>5. hash_of[t] # NoHash
    BY <1>0, <2>3 DEF TierFacts, Resident
  <2>. QED
    BY <1>1, <1>2, <1>3, <2>4, <2>5 DEF TieredInv, AllocInv, SharedBlocksAgree
<1>6. LoadOk(h, s, b) /\ cached[h] = NoBlock
  BY <1>1, <1>2, <1>4, <1>5 DEF LoadOk
<1>7. /\ StageLoad(h, s, b)
      /\ cached' = [cached EXCEPT ![h] = b]
      /\ computed' = [computed EXCEPT ![b] = TRUE]
      /\ content' = [content EXCEPT ![o] = h]
      /\ phase' = phase
      /\ restoring' = NoRestore
      /\ UNCHANGED <<free_table, older, free, refcount, touched, active,
                     last_accessed, block_id, scheduled, swapVars, dataVars>>
  BY <1>2, <1>3, <1>6 DEF RestoreLoads, Published
<1>8. AllocInv'
  BY <1>1, <1>2, <1>3, <1>7, PublishKeeps DEF TieredInv
<1>9. ~draining /\ pending = {} /\ s \in load_slots
  BY <1>1, <1>2 DEF TieredInv, PhaseInv
<1>10. Tier!TierInv'
  BY <1>7, <1>9, TierCallKeeps DEF TieredInv
<1>11. /\ UNCHANGED <<slot_of, hash_of, ready, d2h, deferred, draining, pending, load_slots>>
       /\ h2d' = [h2d EXCEPT ![s] = b]
  BY <1>7 DEF StageLoad, indexVars
<1>12. H2dSources' = H2dSources \cup {s}
  BY <1>0, <1>11, NoBlockAssumption DEF H2dSources, TierFacts, TierTypeOK
<1>13. Loads' = Loads \cup {<<s, b>>}
  <2>1. \A t \in CpuSlot : t # s => h2d'[t] = h2d[t]
    BY <1>0, <1>11 DEF TierFacts, TierTypeOK
  <2>2. h2d'[s] = b
    BY <1>0, <1>11 DEF TierFacts, TierTypeOK
  <2>3. swap_in' = swap_in
    BY <1>7 DEF swapVars
  <2>4. s \notin H2dSources /\ H2dSources \subseteq CpuSlot
    BY <1>1, <1>2 DEF H2dSources
  <2>5. {<<t, h2d'[t]>> : t \in H2dSources \cup {s}} =
        {<<t, h2d[t]>> : t \in H2dSources} \cup {<<s, b>>}
    BY <2>1, <2>2, <2>4
  <2>6. Loads' = swap_in' \cup {<<t, h2d'[t]>> : t \in H2dSources'}
    BY DEF Loads
  <2>. QED
    BY <1>12, <2>3, <2>5, <2>6 DEF Loads
<1>14. Stores' = Stores /\ DeferredStores' = DeferredStores
  BY <1>7, <1>11 DEF swapVars, Stores, DeferredStores, D2hSources
<1>15. AllocEffect
  <2>1. \A p \in Obj : content[p] # NoHash => content'[p] = content[p]
    BY <1>1, <1>2, <1>7 DEF TieredInv, AllocInv, AllocTypeOK
  <2>2. \A g \in Hash : cached'[g] = cached[g] \/ cached'[g] = b
    BY <1>7 DEF TieredInv, AllocInv, AllocTypeOK
  <2>3. <<s, b>> \in Loads'
    BY <1>13
  <2>4. scheduled' = scheduled /\ scheduled \subseteq Obj /\ block_id' = block_id /\ touched' = touched
    BY <1>7 DEF TieredInv, StepInv
  <2>. QED
    BY <2>1, <2>2, <2>3, <2>4 DEF AllocEffect
<1>16. TierEffect
  <2>1. BusyWith(b, h)'
    <3>1. content'[o] = h /\ block_id'[o] = b /\ o \in scheduled'
      BY <1>1, <1>2, <1>3, <1>7 DEF TieredInv, AllocInv, AllocTypeOK
    <3>. QED
      BY <3>1 DEF BusyWith
  <2>2. BusyWith(<<s, b>>[2], hash_of[<<s, b>>[1]])'
    <3>1. hash_of'[s] = h
      BY <1>4, <1>11
    <3>. QED
      BY <2>1, <3>1 DEF BusyWith
  <2>3. /\ \A p \in Loads : p[1] \in ready
        /\ \A p \in Stores : p[2] \notin ready
        /\ \A t \in ready : cpu[t] = hash_of[t]
    BY DEF TieredInv, StepInv, DataInv
  <2>4. \A p \in Loads' : \/ p \in Loads
                          \/ p \in ready' \X Block /\ BusyWith(p[2], hash_of[p[1]])'
    BY <1>4, <1>11, <1>13, <2>2
  <2>. QED
    BY <1>1, <1>7, <1>11, <1>13, <1>14, <2>3, <2>4 DEF TierEffect
<1>17. StepInv' /\ DataInv'
  BY <1>0, <1>15, <1>16, EffectsKeep DEF TieredInv, AllocInv
<1>18. RestoreInv'
  BY <1>1, <1>2, <1>7, <1>11, <1>12 DEF RestoreInv
<1>19. PhaseInv'
  BY <1>1, <1>7, <1>11 DEF TieredInv, PhaseInv, swapVars
<1>. QED
  BY <1>8, <1>10, <1>17, <1>18, <1>19 DEF TieredInv

-------------------------------------------------------------------------------
LEMMA StartDrainStepKeeps ==
  ASSUME TieredInv, Scheduling, StartDrain, phase' = "draining",
         UNCHANGED <<allocVars, scheduled, restoring, swapVars, dataVars>>
  PROVE  TieredInv'
<1>0. TierFacts
  BY TierGives DEF TieredInv
<1>1. phase \in {"running", "prefill"} /\ restoring = NoRestore
  BY DEF Scheduling
<1>2. /\ draining' = TRUE /\ deferred' \in {<<>>, deferred}
      /\ UNCHANGED <<slot_of, hash_of, ready, h2d, d2h, pending, load_slots>>
  BY DEF StartDrain, KeptStores, indexVars
<1>3. /\ Loads' = Loads /\ Stores' = Stores /\ H2dSources' = H2dSources
      /\ DeferredStores' \subseteq DeferredStores
  BY <1>2 DEF swapVars, Loads, Stores, DeferredStores, H2dSources, D2hSources
<1>4. /\ \A p \in Loads : p[1] \in ready
      /\ \A p \in Stores : p[2] \notin ready
      /\ \A s \in ready : cpu[s] = hash_of[s]
  BY DEF TieredInv, StepInv, DataInv
<1>5. TierEffect
  BY <1>2, <1>3, <1>4 DEF TierEffect
<1>6. AllocEffect /\ AllocInv'
  BY AllocAlone DEF TieredInv
<1>7. StepInv' /\ DataInv'
  BY <1>0, <1>5, <1>6, EffectsKeep DEF TieredInv, AllocInv
<1>8. RestoreInv'
  BY <1>1, <1>2, <1>3 DEF TieredInv, RestoreInv
<1>9. PhaseInv'
  BY <1>1, <1>2 DEF TieredInv, PhaseInv, swapVars
<1>10. Tier!TierInv'
  BY TierDrainKeeps DEF TieredInv
<1>. QED
  BY <1>6, <1>7, <1>8, <1>9, <1>10 DEF TieredInv

LEMMA FirstOfSeq ==
  ASSUME NEW S, NEW q \in Seq(S), q # <<>>
  PROVE  Head(q) = q[1] /\ q[1] \in S /\ 1 \in DOMAIN q
  OBVIOUS

LEMMA ResolveStepKeeps ==
  ASSUME TieredInv, phase = "draining", ResolveStore,
         UNCHANGED <<phase, allocVars, scheduled, restoring, swapVars, dataVars>>
  PROVE  TieredInv'
<1>0. TierFacts
  BY TierGives DEF TieredInv
<1>1. restoring = NoRestore /\ pending = {} /\ draining
  BY NotRestoring DEF TieredInv, PhaseInv
<1>2. /\ deferred # <<>> /\ deferred' = Tail(deferred)
      /\ UNCHANGED <<load_slots, h2d, draining, pending>>
  BY DEF ResolveStore
<1>3. DeferredStores' \subseteq DeferredStores
  BY <1>0, <1>2 DEF DeferredStores, TierFacts, TierTypeOK
<1>4. AllocEffect /\ AllocInv'
  BY AllocAlone DEF TieredInv
<1>5. TierEffect
  <2>1. CASE \E s \in CpuSlot :
               LeastRecent(s) /\ Commit(Head(deferred).hash, Head(deferred).block, s)
    <3>1. /\ deferred[1] \in DeferredStores /\ Head(deferred) = deferred[1]
          /\ deferred[1] \in [block : Block, hash : Hash] /\ 1 \in DOMAIN deferred
      <4>1. deferred \in Seq([block : Block, hash : Hash])
        BY <1>0 DEF TierFacts, TierTypeOK
      <4>. QED
        BY <1>2, <4>1, FirstOfSeq DEF DeferredStores
    <3>2. PICK b \in Block, h \in Hash : b = deferred[1].block /\ h = deferred[1].hash
      BY <3>1
    <3>3. PICK s \in CpuSlot : LeastRecent(s) /\ Commit(h, b, s)
      BY <2>1, <3>1, <3>2
    <3>4. s \notin in_use
      BY <3>3 DEF LeastRecent, Evictable
    <3>5. b \notin D2hSources
      BY <1>0, <3>1, <3>2 DEF TierFacts, OneRolePerSlot, StoresApart, DeferredBlocks
    <3>6. Busy(b) /\ gpu[b] = h
      BY <3>1, <3>2 DEF TieredInv, StepInv, DataInv
    <3>7. Busy(b)'
      BY <1>4, <3>6, BusyStays
    <3>. QED
      BY <1>0, <1>1, <1>2, <1>3, <3>3, <3>4, <3>5, <3>6, <3>7, CommitEffect DEF TieredInv
  <2>2. CASE UNCHANGED <<indexVars, lru, in_use, d2h>>
    <3>1. UNCHANGED <<hash_of, ready, d2h>>
      BY <2>2 DEF indexVars
    <3>2. Loads' = Loads /\ Stores' = Stores
      BY <1>2, <3>1 DEF swapVars, Loads, Stores, H2dSources, D2hSources
    <3>3. /\ \A p \in Loads : p[1] \in ready
          /\ \A p \in Stores : p[2] \notin ready
          /\ \A s \in ready : cpu[s] = hash_of[s]
      BY DEF TieredInv, StepInv, DataInv
    <3>. QED
      BY <1>2, <1>3, <3>1, <3>2, <3>3 DEF TierEffect
  <2>. QED
    BY <2>1, <2>2 DEF ResolveStore
<1>6. StepInv' /\ DataInv'
  BY <1>0, <1>4, <1>5, EffectsKeep DEF TieredInv, AllocInv
<1>7. RestoreInv'
  BY <1>1, <1>2 DEF TieredInv, RestoreInv, H2dSources
<1>8. PhaseInv'
  BY <1>1, <1>2 DEF TieredInv, PhaseInv, swapVars
<1>9. Tier!TierInv'
  BY TierDrainKeeps DEF TieredInv
<1>. QED
  BY <1>4, <1>6, <1>7, <1>8, <1>9 DEF TieredInv

LEMMA FinishStepKeeps ==
  ASSUME TieredInv, phase = "draining", FinishDrain, phase' = "execute",
         swap_in' = {<<s, h2d[s]>> : s \in H2dSources},
         swap_out' = {<<b, d2h[b]>> : b \in D2hSources},
         UNCHANGED <<allocVars, scheduled, restoring, dataVars>>
  PROVE  TieredInv'
<1>0. TierFacts
  BY TierGives DEF TieredInv
<1>1. restoring = NoRestore /\ pending = {} /\ swap_in = {} /\ swap_out = {}
  BY NotRestoring DEF TieredInv, PhaseInv
<1>2. /\ draining' = FALSE /\ deferred' = deferred /\ deferred = <<>>
      /\ UNCHANGED <<slot_of, hash_of, ready>>
      /\ pending' = pending \cup D2hTargets
      /\ in_use' = {} /\ load_slots' = {}
      /\ h2d' = [s \in CpuSlot |-> NoBlock] /\ d2h' = [b \in Block |-> NoSlot]
  BY DEF FinishDrain, indexVars
<1>3. H2dSources' = {} /\ D2hSources' = {}
  BY <1>2 DEF H2dSources, D2hSources
<1>4. Loads' = Loads /\ Stores' = Stores /\ DeferredStores' = DeferredStores
  BY <1>1, <1>2, <1>3 DEF Loads, Stores, DeferredStores
<1>5. /\ \A p \in Loads : p[1] \in ready
      /\ \A p \in Stores : p[2] \notin ready
      /\ \A s \in ready : cpu[s] = hash_of[s]
  BY DEF TieredInv, StepInv, DataInv
<1>6. \A s \in pending' : \E b \in Block : <<b, s>> \in swap_out'
  BY <1>1, <1>2 DEF D2hTargets, D2hSources
<1>7. TierEffect
  BY <1>2, <1>4, <1>5, <1>6 DEF TierEffect
<1>8. AllocEffect /\ AllocInv'
  BY AllocAlone DEF TieredInv
<1>9. StepInv' /\ DataInv'
  BY <1>0, <1>7, <1>8, EffectsKeep DEF TieredInv, AllocInv
<1>10. RestoreInv'
  BY <1>1, <1>2, <1>3 DEF RestoreInv
<1>11. PhaseInv'
  BY <1>2, <1>3 DEF PhaseInv, BeginOk
<1>12. Tier!TierInv'
  BY TierDrainKeeps DEF TieredInv
<1>. QED
  BY <1>8, <1>9, <1>10, <1>11, <1>12 DEF TieredInv

(* The checks of the drain pass: every claim of the step was staged.         *)
LEMMA DrainPasses == ASSUME TieredInv, phase = "draining" PROVE DrainOk
<1>0. TierFacts
  BY TierGives DEF TieredInv
<1>1. load_slots = H2dSources
  BY NotRestoring DEF TieredInv, RestoreInv
<1>. QED
  BY <1>0, <1>1 DEF TierFacts, OneRolePerSlot, InUseExplained, StoresApart, ClaimsPinned, DrainOk

LEMMA DrainsKeeps == ASSUME TieredInv, Drains PROVE TieredInv'
<1>1. CASE Scheduling /\ StartDrain /\ phase' = "draining" /\ UNCHANGED swapVars
  BY <1>1, StartDrainStepKeeps DEF Drains
<1>2. CASE phase = "draining" /\ ResolveStore /\ UNCHANGED <<phase, swapVars>>
  BY <1>2, ResolveStepKeeps DEF Drains
<1>3. CASE /\ phase = "draining"
           /\ FinishDrain
           /\ phase' = "execute"
           /\ swap_in' = {<<s, h2d[s]>> : s \in H2dSources}
           /\ swap_out' = {<<b, d2h[b]>> : b \in D2hSources}
  BY <1>3, FinishStepKeeps DEF Drains
<1>4. ~(phase = "draining" /\ FailDrain)
  BY DrainPasses DEF FailDrain
<1>. QED
  BY <1>1, <1>2, <1>3, <1>4 DEF Drains

-------------------------------------------------------------------------------
(* The workers: after the transfers and the forward pass every memory holds    *)
(* what its index says.                                                     *)
LEMMA StoredSlots ==
  ASSUME TieredInv, phase = "execute", NEW s \in CpuSlot
  PROVE  /\ s \in ready => StoredFrom(gpu)[s] = hash_of[s]
         /\ s \in pending => StoredFrom(gpu)[s] = hash_of[s]
<1>1. \A b : <<b, s>> \in swap_out => gpu[b] = hash_of[s] /\ s \notin ready
  BY DEF TieredInv, StepInv, DataInv, Stores
<1>2. CASE \E b \in Block : <<b, s>> \in swap_out
  <2> DEFINE c == CHOOSE b \in Block : <<b, s>> \in swap_out
  <2>1. <<c, s>> \in swap_out
    BY <1>2
  <2>2. StoredFrom(gpu)[s] = gpu[c]
    BY <1>2 DEF StoredFrom
  <2>3. gpu[c] = hash_of[s]
    <3> HIDE DEF c
    <3>. QED
      BY <1>1, <2>1
  <2>. QED
    BY <2>2, <2>3
<1>3. CASE ~\E b \in Block : <<b, s>> \in swap_out
  <2>1. StoredFrom(gpu)[s] = cpu[s]
    BY <1>3 DEF StoredFrom
  <2>2. s \notin pending
    BY <1>3 DEF TieredInv, StepInv
  <2>3. s \in ready => cpu[s] = hash_of[s]
    BY DEF TieredInv, DataInv
  <2>. QED
    BY <2>1, <2>2, <2>3
<1>. QED
  BY <1>2, <1>3

LEMMA ComputedBlocks ==
  ASSUME TieredInv, phase = "execute", NEW h \in Hash, cached[h] # NoBlock
  PROVE  Forward(LoadedFrom(StoredFrom(gpu)))[cached[h]] = h
<1>0. TierFacts
  BY TierGives DEF TieredInv
<1>1. PICK b \in Block : b = cached[h]
  BY DEF TieredInv, AllocInv, AllocTypeOK
<1>2. \A g \in Hash : cached[g] = b => g = h
  BY <1>1, CachedForOne DEF TieredInv
<1> DEFINE G == LoadedFrom(StoredFrom(gpu))
<1>3. CASE b \in touched
  <2>1. (CHOOSE g \in Hash : cached[g] = b) = h
    BY <1>1, <1>2
  <2>. QED
    BY <1>1, <1>3, <2>1 DEF Forward
<1>4. CASE b \notin touched
  <2>1. \A o \in Holders(b) : content[o] # NoHash
    <3>1. ASSUME NEW o \in Holders(b) PROVE content[o] # NoHash
      <4>1. o \in Obj /\ block_id[o] = b /\ b # NoBlock
        BY NoBlockAssumption DEF Holders
      <4>2. b \notin InEvictor
        BY <4>1, HoldersOfRefcount DEF TieredInv, AllocInv, BlocksPartitioned
      <4>3. PICK p \in Obj : block_id[p] = b /\ content[p] = h
        BY <1>1, <4>2 DEF TieredInv, AllocInv, CachedMapExact, CachedIsBacked
      <4>. QED
        BY <4>1, <4>3, NoHashAssumption DEF TieredInv, AllocInv, SharedBlocksAgree, Allocated
    <3>. QED
      BY <3>1
  <2>2. Forward(G)[b] = G[b]
    <3> HIDE DEF G
    <3>. QED
      BY <1>4, <2>1 DEF Forward
  <2>3. G[b] = h
    <3>1. CASE \E s \in CpuSlot : <<s, b>> \in swap_in
      <4> DEFINE t == CHOOSE s \in CpuSlot : <<s, b>> \in swap_in
      <4>1. t \in CpuSlot /\ <<t, b>> \in swap_in
        BY <3>1
      <4>2. G[b] = StoredFrom(gpu)[t]
        BY <3>1 DEF LoadedFrom
      <4> HIDE DEF t, G
      <4>3. t \in ready /\ BusyWith(b, hash_of[t])
        BY <4>1 DEF TieredInv, StepInv, Loads
      <4>4. StoredFrom(gpu)[t] = hash_of[t] /\ hash_of[t] \in Hash
        BY <1>0, <4>1, <4>3, StoredSlots DEF TierFacts, Resident, TierTypeOK
      <4>5. PICK p \in Obj : block_id[p] = b /\ content[p] = hash_of[t]
        BY <4>3 DEF BusyWith, TieredInv, StepInv
      <4>6. cached[hash_of[t]] = b
        BY <4>4, <4>5, NoBlockAssumption, NoHashAssumption
           DEF TieredInv, AllocInv, CachedMapExact, FullIsCached, Allocated
      <4>. QED
        BY <1>2, <4>2, <4>4, <4>6
    <3>2. CASE ~\E s \in CpuSlot : <<s, b>> \in swap_in
      <4>1. G[b] = gpu[b]
        BY <3>2 DEF LoadedFrom
      <4>2. H2dSources = {}
        BY DEF TieredInv, PhaseInv, BeginOk
      <4>3. gpu[b] = h
        BY <1>1, <1>4, <3>2, <4>2 DEF TieredInv, DataInv, Loads
      <4>. QED
        BY <4>1, <4>3
    <3>. QED
      BY <3>1, <3>2
  <2>. QED
    BY <1>1, <2>2, <2>3
<1>. QED
  BY <1>3, <1>4

LEMMA ExecuteStepKeeps == ASSUME TieredInv, ExecuteStep PROVE TieredInv'
<1>0. TierFacts
  BY TierGives DEF TieredInv
<1>1. /\ phase = "execute" /\ MarkComputed /\ phase' = "idle" /\ scheduled' = {}
      /\ swap_in' = {} /\ swap_out' = {} /\ UNCHANGED <<cpuTierVars, restoring>>
      /\ cpu' = StoredFrom(gpu) /\ gpu' = Forward(LoadedFrom(StoredFrom(gpu)))
  BY DEF ExecuteStep, Transfer
<1>2. AllocInv' /\ cached' = cached /\ touched' = {}
  BY <1>1, MarksInv DEF TieredInv, MarkComputed
<1>3. Tier!TierInv'
  BY <1>1, TierDrainKeeps DEF TieredInv
<1>4. BeginOk /\ load_slots = {} /\ ~draining /\ restoring = NoRestore
  BY <1>1, NotRestoring DEF TieredInv, PhaseInv
<1>5. BeginOk' /\ load_slots' = {} /\ ~draining' /\ H2dSources' = {} /\ D2hSources' = {}
  BY <1>1, <1>4 DEF BeginOk, cpuTierVars, H2dSources, D2hSources
<1>6. Loads' = {} /\ Stores' = {} /\ DeferredStores' = {}
  BY <1>1, <1>5 DEF Loads, Stores, DeferredStores, BeginOk
<1>7. PhaseInv'
  BY <1>1, <1>2, <1>5 DEF PhaseInv
<1>8. RestoreInv'
  BY <1>1, <1>4, <1>5 DEF RestoreInv
<1>9. StepInv'
  BY <1>1, <1>2, <1>6 DEF StepInv
<1>10. /\ \A s \in ready' : cpu'[s] = hash_of'[s]
       /\ \A s \in pending' : cpu'[s] = hash_of'[s]
  <2>1. ready \subseteq CpuSlot /\ pending \subseteq CpuSlot
    BY <1>0 DEF TierFacts, TierTypeOK
  <2>. QED
    BY <1>1, <2>1, StoredSlots DEF cpuTierVars
<1>11. \A h \in Hash : cached'[h] # NoBlock => gpu'[cached'[h]] = h
  BY <1>1, <1>2, ComputedBlocks
<1>12. DataInv'
  BY <1>6, <1>10, <1>11 DEF DataInv
<1>. QED
  BY <1>2, <1>3, <1>7, <1>8, <1>9, <1>12 DEF TieredInv

-------------------------------------------------------------------------------
LEMMA TieredInitInv == TieredInit => TieredInv
<1> SUFFICES ASSUME TieredInit PROVE TieredInv
  OBVIOUS
<1>1. AllocInv /\ touched = {} /\ \A h \in Hash : cached[h] = NoBlock
  BY InitInv DEF TieredInit, AllocInit
<1>2. Tier!TierInv
  <2>1. Tier!TierInit
    BY DEF TieredInit, TierInit, Tier!TierInit, CpuSlot, Tier!CpuSlot, NoSlot, Tier!NoSlot
  <2>. QED
    BY <2>1, Tier!TierInitInv, SlotsAssumption, NoBlockAssumption, NoHashAssumption
<1>3. H2dSources = {} /\ D2hSources = {} /\ deferred = <<>> /\ DeferredStores = {}
  BY DEF TieredInit, TierInit, H2dSources, D2hSources, DeferredStores
<1>4. Loads = {} /\ Stores = {}
  BY <1>3 DEF TieredInit, Loads, Stores
<1>5. PhaseInv
  BY <1>1, <1>3 DEF TieredInit, TierInit, PhaseInv, BeginOk
<1>6. RestoreInv
  BY <1>3 DEF TieredInit, TierInit, RestoreInv
<1>7. StepInv
  BY <1>1, <1>3, <1>4 DEF TieredInit, StepInv
<1>8. DataInv
  BY <1>1, <1>3, <1>4 DEF TieredInit, TierInit, DataInv
<1>. QED
  BY <1>1, <1>2, <1>5, <1>6, <1>7, <1>8 DEF TieredInv

LEMMA TieredStutter == ASSUME TieredInv, UNCHANGED tieredVars PROVE TieredInv'
<1> USE DEF tieredVars
<1>1. AllocInv' /\ AllocEffect
  BY AllocAlone DEF TieredInv
<1>2. Tier!TierInv'
  BY TierDrainKeeps DEF TieredInv
<1>3. UNCHANGED <<phase, scheduled, restoring, swap_in, swap_out, gpu, cpu, touched, cached,
                  content, block_id, refcount>>
  BY DEF swapVars, dataVars, allocVars
<1>4. /\ UNCHANGED <<hash_of, slot_of, ready, pending, load_slots, deferred, draining>>
      /\ Loads' = Loads /\ Stores' = Stores /\ DeferredStores' = DeferredStores
      /\ H2dSources' = H2dSources /\ (BeginOk' <=> BeginOk)
  BY <1>3 DEF cpuTierVars, Loads, Stores, DeferredStores, H2dSources, D2hSources, BeginOk
<1>5. PhaseInv'
  BY <1>3, <1>4 DEF TieredInv, PhaseInv
<1>6. RestoreInv'
  BY <1>3, <1>4 DEF TieredInv, RestoreInv, Allocated
<1>7. StepInv'
  <2>1. \A b : Busy(b) => Busy(b)'
    BY <1>3 DEF Busy
  <2>2. \A b, h : BusyWith(b, h) => BusyWith(b, h)'
    BY <1>3 DEF BusyWith
  <2>3. ASSUME NEW p \in Loads PROVE BusyWith(p[2], hash_of[p[1]])'
    BY <1>3, <1>4, <2>3 DEF TieredInv, StepInv, BusyWith
  <2>4. \A p \in Stores : Busy(p[1])'
    BY <2>1 DEF TieredInv, StepInv
  <2>5. \A e \in DeferredStores : Busy(e.block)'
    BY <2>1 DEF TieredInv, StepInv
  <2>6. \A b \in touched : \E h \in Hash : BusyWith(b, h)'
    BY <2>2 DEF TieredInv, StepInv
  <2>. QED
    BY <1>3, <1>4, <2>3, <2>4, <2>5, <2>6 DEF TieredInv, StepInv
<1>8. DataInv'
  BY <1>3, <1>4 DEF TieredInv, DataInv
<1>. QED
  BY <1>1, <1>2, <1>5, <1>6, <1>7, <1>8 DEF TieredInv

LEMMA TieredStepInv == ASSUME TieredInv, [TieredNext]_tieredVars PROVE TieredInv'
<1>1. ASSUME NEW o \in Obj, FreeObject(o) \/ AllocatesMutable(o) PROVE TieredInv'
  BY <1>1, FreeObjectKeeps, AllocatesMutableKeeps
<1>2. ASSUME NEW o \in Obj, NEW h \in Hash,
             Promotes(o, h) \/ GpuHit(o, h) \/ Miss(o, h) \/ RestoreClaims(o, h)
      PROVE  TieredInv'
  BY <1>2, PromotesKeeps, GpuHitKeeps, MissKeeps, RestoreClaimsKeeps
<1>3. CASE BeginSchedule \/ StartPrefills \/ RestoreAllocates \/ RestoreCancels
  BY <1>3, BeginScheduleKeeps, StartPrefillsKeeps, RestoreAllocatesKeeps, RestoreCancelsKeeps
<1>4. CASE RestoreLoads \/ Drains \/ ExecuteStep
  BY <1>4, RestoreLoadsKeeps, DrainsKeeps, ExecuteStepKeeps
<1>5. CASE UNCHANGED tieredVars
  BY <1>5, TieredStutter
<1>. QED
  BY <1>1, <1>2, <1>3, <1>4, <1>5 DEF TieredNext

(* The inductive invariant of the two caches together holds in every          *)
(* behaviour of the scheduler and the workers.                              *)
THEOREM TieredInvariant == TieredSpec => []TieredInv
<1>1. TieredInit => TieredInv
  BY TieredInitInv
<1>2. TieredInv /\ [TieredNext]_tieredVars => TieredInv'
  BY TieredStepInv
<1>. QED
  BY <1>1, <1>2, PTL DEF TieredSpec

(* In the order in which schedule() calls it, no check of the CPU tier ever    *)
(* fails: begin_step finds the last step drained, no claim meets a pinned     *)
(* slot, no victim is stored twice, and the drain finds every claim staged.   *)
THEOREM TierIsNeverMisused == TieredSpec => []TierNeverRaises
<1>1. TieredInv => TierNeverRaises
  BY DEF TieredInv, PhaseInv, TierNeverRaises
<1>. QED
  BY <1>1, TieredInvariant, PTL

(* Between steps every block of _cached_blocks holds the KV of its hash,       *)
(* whether it was computed, promoted, or loaded from a slot.                 *)
THEOREM GpuContentIsTrue == TieredSpec => []GpuHoldsItsContent
<1>1. TieredInv => GpuHoldsItsContent
  <2> SUFFICES ASSUME TieredInv, phase = "idle", NEW h \in Hash, cached[h] # NoBlock
               PROVE  gpu[cached[h]] = h
    BY DEF GpuHoldsItsContent
  <2>1. touched = {} /\ Loads = {}
    BY DEF TieredInv, PhaseInv, BeginOk, Loads
  <2>. QED
    BY <2>1 DEF TieredInv, DataInv
<1>. QED
  BY <1>1, TieredInvariant, PTL

(* A slot that may be claimed, and between steps one about to be published,    *)
(* holds the KV of the content that its index names.                        *)
THEOREM CpuContentIsTrue == TieredSpec => []CpuHoldsItsContent
<1>1. TieredInv => CpuHoldsItsContent
  BY DEF TieredInv, DataInv, CpuHoldsItsContent
<1>. QED
  BY <1>1, TieredInvariant, PTL

(* Restores keep the map of the allocator exact.                            *)
THEOREM MapStaysExact == TieredSpec => []MapExactWithTier
<1>1. TieredInv => MapExactWithTier
  BY DEF TieredInv, AllocInv, MapExactWithTier
<1>. QED
  BY <1>1, TieredInvariant, PTL

-------------------------------------------------------------------------------
(* What the allocator and the workers do to the tier, the tier itself allows:  *)
(* a victim is stored by stage_store, or nothing happens to the tier.         *)
LEMMA VictimStep ==
  ASSUME TieredInv, phase # "draining", NEW b \in Block, b \in free \/ b \in InEvictor,
         StoresVictim(b)
  PROVE  [Tier!TierNext]_(Tier!tierVars)
<1>1. CASE UNCHANGED cpuTierVars
  BY <1>1, TierDrains
<1>2. CASE ~(UNCHANGED cpuTierVars)
  <2>1. b \notin free /\ StageStore(free_table[b].hash, b)
    BY <1>2 DEF StoresVictim, Dies
  <2>2. free_table[b].hash \in Hash
    BY <2>1, NoEntryAssumption DEF TieredInv, AllocInv, AllocTypeOK, InEvictor, Entry
  <2>3. ~draining
    BY DEF TieredInv, PhaseInv
  <2>. QED
    BY <2>1, <2>2, <2>3, TierCalls
<1>. QED
  BY <1>1, <1>2

LEMMA TieredStepOfTier ==
  ASSUME TieredInv, [TieredNext]_tieredVars
  PROVE  [Tier!TierNext]_(Tier!tierVars)
<1>0. phase # "draining" => ~draining
  BY DEF TieredInv, PhaseInv
<1>1. CASE BeginSchedule
  <2>1. BeginStep \/ UNCHANGED cpuTierVars
    BY <1>1 DEF BeginSchedule, Dies
  <2>. QED
    BY <1>0, <1>1, <2>1, TierCalls, TierDrains DEF BeginSchedule
<1>2. ASSUME NEW o \in Obj, AllocatesMutable(o) PROVE [Tier!TierNext]_(Tier!tierVars)
  <2>1. phase \in {"running", "prefill"} /\ AllocateMutable(o) /\ StoresVictim(block_id'[o])
    BY <1>2 DEF AllocatesMutable, Scheduling
  <2>2. block_id'[o] \in Block /\ (block_id'[o] \in free \/ block_id'[o] \in InEvictor)
    BY <1>2, <2>1, AllocateEffect DEF TieredInv, AllocatesMutable
  <2>3. PICK b \in Block : b = block_id'[o]
    BY <2>2
  <2>. QED
    BY <2>1, <2>2, <2>3, VictimStep
<1>3. ASSUME NEW o \in Obj, NEW h \in Hash, Miss(o, h) PROVE [Tier!TierNext]_(Tier!tierVars)
  <2>1. phase = "prefill" /\ AllocateImmutableMiss(o, h) /\ StoresVictim(block_id'[o])
    BY <1>3 DEF Miss
  <2>2. block_id'[o] \in Block /\ (block_id'[o] \in free \/ block_id'[o] \in InEvictor)
    BY <1>3, <2>1, MissEffect DEF TieredInv, Miss
  <2>3. PICK b \in Block : b = block_id'[o]
    BY <2>2
  <2>. QED
    BY <2>1, <2>2, <2>3, VictimStep
<1>4. ASSUME NEW o \in Obj, NEW h \in Hash, RestoreClaims(o, h)
      PROVE  [Tier!TierNext]_(Tier!tierVars)
  <2>1. phase = "prefill" /\ (ClaimLoad(h) \/ UNCHANGED cpuTierVars)
    BY <1>4 DEF RestoreClaims, Dies
  <2>. QED
    BY <1>0, <2>1, TierCalls, TierDrains
<1>5. CASE RestoreAllocates
  <2>1. /\ phase = "prefill" /\ restoring.obj \in Obj /\ AllocateMutable(restoring.obj)
        /\ StoresVictim(block_id'[restoring.obj]) /\ scheduled' = scheduled \cup {restoring.obj}
    BY <1>5 DEF RestoreAllocates, RestoringAt, TieredInv, RestoreInv, Restore
  <2>2. PICK o \in Obj : o = restoring.obj
    BY <2>1
  <2>3. block_id'[o] \in Block /\ (block_id'[o] \in free \/ block_id'[o] \in InEvictor)
    BY <2>1, <2>2, AllocateEffect DEF TieredInv
  <2>4. PICK b \in Block : b = block_id'[o]
    BY <2>3
  <2>. QED
    BY <2>1, <2>2, <2>3, <2>4, VictimStep
<1>6. CASE RestoreCancels
  <2>1. /\ phase = "prefill" /\ restoring.hash \in Hash /\ restoring.slot \in load_slots
        /\ CancelLoad(restoring.hash, restoring.slot)
    BY <1>6 DEF RestoreCancels, RestoringAt, TieredInv, RestoreInv, Restore
  <2>. QED
    BY <1>0, <2>1, TierCalls
<1>7. CASE RestoreLoads
  <2>1. /\ phase = "prefill" /\ restoring.hash \in Hash /\ restoring.slot \in load_slots
        /\ restoring.obj \in Obj /\ Allocated(restoring.obj)
    BY <1>7 DEF RestoreLoads, RestoringAt, TieredInv, RestoreInv, Restore
  <2>2. block_id[restoring.obj] \in Block
    BY <2>1 DEF Allocated, TieredInv, AllocInv, AllocTypeOK
  <2>3. \/ StageLoad(restoring.hash, restoring.slot, block_id[restoring.obj])
        \/ UNCHANGED cpuTierVars
    BY <1>7 DEF RestoreLoads, Dies
  <2>. QED
    BY <1>0, <2>1, <2>2, <2>3, TierCalls, TierDrains
<1>8. CASE Drains
  <2>1. StartDrain \/ ResolveStore \/ FinishDrain
    BY <1>8, DrainPasses DEF Drains, FailDrain
  <2>. QED
    BY <2>1, TierDrains
<1>9. CASE StartPrefills \/ ExecuteStep \/ UNCHANGED tieredVars
  <2>1. UNCHANGED cpuTierVars
    BY <1>9 DEF StartPrefills, ExecuteStep, tieredVars
  <2>. QED
    BY <2>1, TierDrains
<1>10. ASSUME NEW o \in Obj, \/ FreeObject(o)
                             \/ \E h \in Hash : Promotes(o, h) \/ GpuHit(o, h)
       PROVE  [Tier!TierNext]_(Tier!tierVars)
  <2>1. UNCHANGED cpuTierVars
    BY <1>10 DEF FreeObject, Promotes, GpuHit
  <2>. QED
    BY <2>1, TierDrains
<1>. QED
  BY <1>1, <1>2, <1>3, <1>4, <1>5, <1>6, <1>7, <1>8, <1>9, <1>10 DEF TieredNext

(* The tier inside the engine is the tier of any client: what schedule(), the   *)
(* allocator's callbacks and the drain do to CpuKvContentCache is a behaviour *)
(* of its own specification, whose theorems hold of it.                     *)
THEOREM TieredImplementsTier == TieredSpec => Tier!TierSpec
<1>1. TieredInit => Tier!TierInit
  BY DEF TieredInit, TierInit, Tier!TierInit, Tier!CpuSlot, CpuSlot, Tier!NoSlot, NoSlot
<1>2. TieredInv /\ [TieredNext]_tieredVars => [Tier!TierNext]_(Tier!tierVars)
  BY TieredStepOfTier
<1>. QED
  BY <1>1, <1>2, TieredInvariant, PTL DEF TieredSpec, Tier!TierSpec

(* A restore never finds its content gone: a prompt's lookups, and the victims   *)
(* that its blocks displace, leave every resident content where it is.        *)
THEOREM ContentSurvivesLookups == TieredSpec => Tier!ResidentsSurviveLookups
BY SlotsAssumption, NoBlockAssumption, NoHashAssumption, TieredImplementsTier,
   Tier!LookupsLoseNothing, PTL

(* No slot of the CPU memory is lost while the allocator evicts and restores,    *)
(* and none has two roles in a step.                                         *)
THEOREM SlotsOfTheEngine == TieredSpec => []SlotsExact /\ []OneRolePerSlot
<1>1. TieredInv => SlotsExact /\ OneRolePerSlot
  BY TierGives DEF TieredInv, TierFacts
<1>. QED
  BY <1>1, TieredInvariant, PTL

===============================================================================
