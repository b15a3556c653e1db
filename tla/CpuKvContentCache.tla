--------------------------- MODULE CpuKvContentCache ---------------------------
(***************************************************************************)
(* CpuKvContentCache of vllm_overrides/core/block/cpu_kv_content_cache.py:  *)
(* the scheduler's index of the KV blocks that the workers keep in pinned   *)
(* CPU memory.  It hands the workers two maps per step: H2D loads and D2H   *)
(* stores.                                                                 *)
(*                                                                         *)
(* One action per method.  A call whose checks fail raises before it has    *)
(* changed anything and is not a step; what raises is stated by the ...Ok   *)
(* predicates.  drain_step takes one step per deferred store.               *)
(***************************************************************************)
EXTENDS Integers, Sequences

CONSTANTS
  GpuBlock,     (* GPU block ids                                            *)
  ContentHash,  (* content hashes                                           *)
  Capacity,     (* number of CPU slots                                      *)
  NoGpuBlock,   (* no entry in a map to GPU blocks                          *)
  NoContent     (* no entry in a map to hashes                              *)

ASSUME CapacityAssumption == Capacity \in Nat \ {0}
ASSUME NoGpuBlockAssumption == NoGpuBlock \notin GpuBlock
ASSUME NoContentAssumption == NoContent \notin ContentHash

CpuSlot == 0 .. Capacity - 1
NoSlot == -1

VARIABLES
  slot_of,     (* _hash_to_slot                                             *)
  hash_of,     (* _slot_to_hash                                             *)
  ready,       (* _ready_slots                                              *)
  lru,         (* _lru: <<s, t>> \in lru iff s comes before t               *)
  free_slots,  (* _free_slots                                               *)
  in_use,      (* _step_slots_in_use                                        *)
  load_slots,  (* _step_load_slots                                          *)
  h2d,         (* _step_h2d: the GPU block a CPU slot is loaded to          *)
  d2h,         (* _step_d2h: the CPU slot a GPU block is stored to          *)
  deferred,    (* _deferred_d2h, in insertion order, with _deferred_hashes  *)
  pending,     (* _pending_ready_slots                                      *)
  draining     (* drain_step is under way                                   *)

indexVars == <<slot_of, hash_of, ready, free_slots>>
stepVars == <<in_use, load_slots, h2d, d2h, deferred, draining>>
tierVars == <<slot_of, hash_of, ready, free_slots, lru, in_use, load_slots,
              h2d, d2h, deferred, draining, pending>>

Resident == {s \in CpuSlot : hash_of[s] # NoContent}
H2dSources == {s \in CpuSlot : h2d[s] # NoGpuBlock}
H2dTargets == {h2d[s] : s \in H2dSources}
D2hSources == {b \in GpuBlock : d2h[b] # NoSlot}
D2hTargets == {d2h[b] : b \in D2hSources}
DeferredBlocks == {deferred[i].block : i \in DOMAIN deferred}
DeferredHashes == {deferred[i].hash : i \in DOMAIN deferred}

TierInit ==
  /\ slot_of = [h \in ContentHash |-> NoSlot]
  /\ hash_of = [s \in CpuSlot |-> NoContent]
  /\ ready = {}
  /\ lru = {}
  /\ free_slots = CpuSlot
  /\ in_use = {}
  /\ load_slots = {}
  /\ h2d = [s \in CpuSlot |-> NoGpuBlock]
  /\ d2h = [b \in GpuBlock |-> NoSlot]
  /\ deferred = <<>>
  /\ pending = {}
  /\ draining = FALSE

-------------------------------------------------------------------------------
(* _touch: the slot moves to, or enters at, the recent end.                 *)
Touched(s) ==
  {p \in lru : p[1] # s /\ p[2] # s} \cup ((Resident \ {s}) \X {s})

(* _select_store_slot, no slot is free: the least recent one not in use.    *)
(* (Variant: pinned slots are candidates too.)                              *)
EvictableAll == Resident
Evictable == Resident \ in_use
LeastRecent(s) ==
  /\ s \in Evictable
  /\ \A t \in Evictable \ {s} : <<s, t>> \in lru

(* heapq.heappop(_free_slots)                                              *)
SmallestFree(s) == s \in free_slots /\ \A t \in free_slots : s <= t

(* The checks of _commit_store.                                            *)
CommitOk(s) ==
  /\ s \in Resident => s \notin in_use
  /\ s \notin H2dSources
  /\ s \notin D2hTargets

(* The slot's old content leaves the index.  (Variant: it stays.)            *)
ReindexedOver(h, s) == [slot_of EXCEPT ![h] = s]
Reindexed(h, s) ==
  [g \in ContentHash |->
     IF g = h THEN s ELSE IF g = hash_of[s] THEN NoSlot ELSE slot_of[g]]

(* The slot is not readable before the copy has been made.  (Variant: it is.) *)
ReadyAtOnce(s) == ready \cup {s}
NotReady(s) == ready \ {s}

(* _commit_store                                                           *)
Commit(h, b, s) ==
  /\ slot_of' = Reindexed(h, s)
  /\ hash_of' = [hash_of EXCEPT ![s] = h]
  /\ ready' = NotReady(s)
  /\ in_use' = in_use \cup {s}
  /\ d2h' = [d2h EXCEPT ![b] = s]
  /\ lru' = Touched(s)
  /\ free_slots' = free_slots \ {s}

-------------------------------------------------------------------------------
(* begin_step raises while the previous step is not drained.                *)
BeginOk ==
  /\ in_use = {} /\ H2dSources = {} /\ D2hSources = {}
  /\ deferred = <<>>

BeginStep ==
  /\ BeginOk
  /\ ready' = ready \cup pending
  /\ pending' = {}
  /\ UNCHANGED <<slot_of, hash_of, free_slots, lru, stepVars>>

(* _require_step_started                                                   *)
StepStarted == pending = {}

(* claim_load: a hit pins the slot; it raises on a slot that is pinned       *)
(* already.                                                                *)
Hits(h) == slot_of[h] # NoSlot /\ slot_of[h] \in ready
ClaimOk(h) == StepStarted /\ (Hits(h) => slot_of[h] \notin in_use)

ClaimLoad(h) ==
  /\ ClaimOk(h)
  /\ Hits(h)
  /\ in_use' = in_use \cup {slot_of[h]}
  /\ load_slots' = load_slots \cup {slot_of[h]}
  /\ lru' = Touched(slot_of[h])
  /\ UNCHANGED <<indexVars, h2d, d2h, deferred, draining, pending>>

(* cancel_load, by the client that holds the claim.                         *)
CancelOk(h, s) ==
  /\ slot_of[h] = s
  /\ s \notin H2dSources
  /\ s \in in_use

CancelLoad(h, s) ==
  /\ s \in load_slots
  /\ CancelOk(h, s)
  /\ in_use' = in_use \ {s}
  /\ load_slots' = load_slots \ {s}
  /\ UNCHANGED <<indexVars, lru, h2d, d2h, deferred, draining, pending>>

(* stage_load: the block is reserved, the load goes into the H2D map.        *)
LoadOk(h, s, b) ==
  /\ slot_of[h] = s
  /\ s \in ready
  /\ s \in in_use
  /\ s \notin H2dSources
  /\ b \notin H2dTargets
  /\ s \notin D2hTargets

StageLoad(h, s, b) ==
  /\ LoadOk(h, s, b)
  /\ h2d' = [h2d EXCEPT ![s] = b]
  /\ UNCHANGED <<indexVars, lru, in_use, load_slots, d2h, deferred, draining, pending>>

(* stage_store: a content that the tier has, or is about to have, is only    *)
(* touched; a free slot is taken at once; otherwise the store is deferred    *)
(* until every lookup of the step is known.                                 *)
Known(h) == slot_of[h] # NoSlot \/ h \in DeferredHashes
StoreOk(h, b) ==
  /\ StepStarted
  /\ ~Known(h) => b \notin D2hSources /\ b \notin DeferredBlocks

StoreKnown(h) ==
  /\ Known(h)
  /\ lru' = IF slot_of[h] # NoSlot THEN Touched(slot_of[h]) ELSE lru
  /\ UNCHANGED <<indexVars, in_use, d2h, deferred>>

StoreNow(h, b) ==
  /\ ~Known(h)
  /\ \E s \in CpuSlot : SmallestFree(s) /\ Commit(h, b, s)
  /\ UNCHANGED deferred

DeferredSwapped(h, b) == [block |-> h, hash |-> b]   \* variant
DeferredEntry(h, b) == [block |-> b, hash |-> h]

StoreLater(h, b) ==
  /\ ~Known(h)
  /\ free_slots = {}
  /\ deferred' = Append(deferred, DeferredEntry(h, b))
  /\ UNCHANGED <<indexVars, lru, in_use, d2h>>

StageStoreEffect(h, b) == StoreKnown(h) \/ StoreNow(h, b) \/ StoreLater(h, b)

StageStore(h, b) ==
  /\ StoreOk(h, b)
  /\ StageStoreEffect(h, b)
  /\ UNCHANGED <<load_slots, h2d, draining, pending>>

-------------------------------------------------------------------------------
(* drain_step, _resolve_deferred_stores: a step that loads drops its         *)
(* deferred stores.  (Variant: it keeps them.)                              *)
KeptStoresAlways == deferred
KeptStores == IF load_slots # {} THEN <<>> ELSE deferred

StartDrain ==
  /\ ~draining
  /\ draining' = TRUE
  /\ deferred' = KeptStores
  /\ UNCHANGED <<indexVars, lru, in_use, load_slots, h2d, d2h, pending>>

(* One deferred store takes the least recent slot, or is skipped.            *)
ResolveStore ==
  /\ draining
  /\ deferred # <<>>
  /\ deferred' = Tail(deferred)
  /\ \/ \E s \in CpuSlot :
          /\ LeastRecent(s)
          /\ Commit(Head(deferred).hash, Head(deferred).block, s)
     \/ /\ Evictable = {}
        /\ UNCHANGED <<indexVars, lru, in_use, d2h>>
  /\ UNCHANGED <<load_slots, h2d, draining, pending>>

DrainOk ==
  /\ H2dSources \cup D2hTargets = in_use
  /\ H2dSources \cap D2hTargets = {}
  /\ H2dSources = load_slots

(* The maps go to the workers and the step is over.                         *)
FinishDrain ==
  /\ draining
  /\ deferred = <<>>
  /\ DrainOk
  /\ draining' = FALSE
  /\ pending' = pending \cup D2hTargets
  /\ h2d' = [s \in CpuSlot |-> NoGpuBlock]
  /\ d2h' = [b \in GpuBlock |-> NoSlot]
  /\ in_use' = {}
  /\ load_slots' = {}
  /\ UNCHANGED <<indexVars, lru, deferred>>

(* The drain raises: a claim was neither staged nor cancelled.              *)
FailDrain ==
  /\ draining
  /\ deferred = <<>>
  /\ ~DrainOk
  /\ draining' = FALSE
  /\ UNCHANGED <<indexVars, lru, in_use, load_slots, h2d, d2h, deferred, pending>>

-------------------------------------------------------------------------------
(* Any client: the methods in any order; it stages and cancels only what it  *)
(* has claimed.                                                            *)
TierCall ==
  \/ BeginStep
  \/ \E h \in ContentHash :
       \/ ClaimLoad(h)
       \/ \E b \in GpuBlock : StageStore(h, b)
       \/ \E s \in load_slots : \/ CancelLoad(h, s)
                                \/ \E b \in GpuBlock : StageLoad(h, s, b)

TierNext ==
  \/ ~draining /\ TierCall
  \/ StartDrain
  \/ ResolveStore
  \/ FinishDrain
  \/ FailDrain

TierSpec == TierInit /\ [][TierNext]_tierVars

-------------------------------------------------------------------------------
(* Type invariant: indices hold slots, blocks and hashes of the tier.        *)
TierTypeOK ==
  /\ slot_of \in [ContentHash -> CpuSlot \cup {NoSlot}]
  /\ hash_of \in [CpuSlot -> ContentHash \cup {NoContent}]
  /\ lru \subseteq CpuSlot \X CpuSlot
  /\ ready \subseteq CpuSlot
  /\ free_slots \subseteq CpuSlot
  /\ in_use \subseteq CpuSlot
  /\ load_slots \subseteq CpuSlot
  /\ h2d \in [CpuSlot -> GpuBlock \cup {NoGpuBlock}]
  /\ d2h \in [GpuBlock -> CpuSlot \cup {NoSlot}]
  /\ deferred \in Seq([block : GpuBlock, hash : ContentHash])
  /\ pending \subseteq CpuSlot
  /\ draining \in BOOLEAN

(* The two dictionaries are inverse to each other, a slot is free or resident *)
(* but not both, and the LRU order is a total order of the residents: no slot *)
(* is lost by an eviction, a deferred store or a skipped one.                *)
MapsInverse ==
  /\ \A h \in ContentHash : slot_of[h] # NoSlot => hash_of[slot_of[h]] = h
  /\ \A s \in Resident : slot_of[hash_of[s]] = s
FreeIsTheRest == free_slots = CpuSlot \ Resident
LruTotal ==
  /\ lru \subseteq Resident \X Resident
  /\ \A s, t \in Resident : s # t => (<<s, t>> \in lru <=> <<t, s>> \notin lru)
  /\ \A s \in Resident : <<s, s>> \notin lru
SlotsExact == MapsInverse /\ FreeIsTheRest /\ LruTotal

(* Within a step no slot has two roles: a claimed slot stays ready and pinned *)
(* and is never a store's destination, and every store has a slot of its own *)
(* that nobody can claim.  No store displaces an accepted one, the checks of *)
(* _commit_store never fail on the slot that stage_store or the drain picks, *)
(* and those of the drain fail only for a claim that its client forgot.      *)
ClaimsPinned == load_slots \subseteq in_use /\ load_slots \subseteq ready
LoadsClaimed == H2dSources \subseteq load_slots
StoresApart ==
  /\ D2hTargets \subseteq in_use \ load_slots
  /\ D2hTargets \cap ready = {}
  /\ \A a, b \in D2hSources : d2h[a] = d2h[b] => a = b
  /\ DeferredBlocks \cap D2hSources = {}
  /\ \A i, j \in DOMAIN deferred : deferred[i].block = deferred[j].block => i = j
CommitsPass ==
  /\ \A s \in free_slots : CommitOk(s)
  /\ draining /\ deferred # <<>> => \A s \in Evictable : CommitOk(s)
InUseExplained == in_use \subseteq load_slots \cup D2hTargets
OneRolePerSlot == ClaimsPinned /\ LoadsClaimed /\ StoresApart /\ CommitsPass
                  /\ InUseExplained

(* Resident content is given up only while a step without loads is drained:  *)
(* "Do not replace resident content until every lookup in this scheduler     *)
(* step is known."                                                         *)
ResidentsSurviveLookups ==
  [][\A h \in ContentHash : slot_of[h] # NoSlot /\ (~draining \/ load_slots # {})
       => slot_of'[h] = slot_of[h]]_tierVars

===============================================================================
