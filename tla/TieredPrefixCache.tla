--------------------------- MODULE TieredPrefixCache ---------------------------
(***************************************************************************)
(* The prefix-caching allocator with the CPU content tier attached          *)
(* (BI100_CPU_KV_OFFLOAD=1): the callbacks of CpuGpuBlockAllocator, the      *)
(* restore path of the allocator, the order of calls in Scheduler.schedule  *)
(* and the transfers of the workers.                                       *)
(*                                                                         *)
(* gpu and cpu are ghost data: the content whose KV a block or slot really   *)
(* holds.  A prompt is prefilled in one step.  An exception that leaves      *)
(* schedule() is the phase "dead".                                         *)
(***************************************************************************)
EXTENDS PrefixCachingBlockAllocator, Sequences

CONSTANTS
  Capacity,    (* CPU slots                                                 *)
  NoRestore    (* no restore under way                                      *)

ASSUME SlotsAssumption == Capacity \in Nat \ {0}

VARIABLES
  slot_of, hash_of, ready, lru, free_slots, in_use, load_slots, h2d, d2h,
  deferred, pending, draining,
  phase,       (* where schedule() is                                       *)
  scheduled,   (* objects this step computes for                            *)
  restoring,   (* the restore of _maybe_restore_external_cached_block       *)
  swap_in,     (* blocks_to_swap_in                                         *)
  swap_out,    (* blocks_to_swap_out                                        *)
  gpu,         (* ghost: the content in a GPU block                         *)
  cpu          (* ghost: the content in a CPU slot                          *)

INSTANCE CpuKvContentCache WITH
  GpuBlock <- Block, ContentHash <- Hash, NoGpuBlock <- NoBlock, NoContent <- NoHash

(* A restore under way: the object, the content, its source and what is next. *)
Restore == [obj : Obj, hash : Hash, slot : CpuSlot, at : {"allocate", "load"}]
ASSUME NoRestoreAssumption == NoRestore \notin Restore

cpuTierVars == <<slot_of, hash_of, ready, free_slots, lru, in_use, load_slots,
                 h2d, d2h, deferred, draining, pending>>
dataVars == <<gpu, cpu>>
swapVars == <<swap_in, swap_out>>
tieredVars == <<allocVars, cpuTierVars, phase, scheduled, restoring, swapVars, dataVars>>

TieredInit ==
  /\ AllocInit
  /\ TierInit
  /\ phase = "idle"
  /\ scheduled = {}
  /\ restoring = NoRestore
  /\ swap_in = {}
  /\ swap_out = {}
  /\ gpu = [b \in Block |-> NoHash]
  /\ cpu = [s \in CpuSlot |-> NoHash]

-------------------------------------------------------------------------------
(* A call that raises in the middle of schedule() kills the engine.         *)
Dies ==
  /\ phase' = "dead"
  /\ UNCHANGED cpuTierVars

(* _external_cache_store, called with the victim before its hash leaves      *)
(* _cached_blocks; a block that was free has no content to store.            *)
StoresVictim(b) ==
  LET h == free_table[b].hash IN
  IF b \in free
    THEN UNCHANGED <<cpuTierVars, phase>>
    ELSE IF StoreOk(h, b) THEN StageStore(h, b) /\ UNCHANGED phase ELSE Dies

(* begin_prefix_cache_step                                                 *)
BeginSchedule ==
  /\ phase = "idle"
  /\ IF BeginOk THEN BeginStep /\ phase' = "running" ELSE Dies
  /\ UNCHANGED <<allocVars, scheduled, restoring, swapVars, dataVars>>

(* Finished and aborted requests are freed between steps, preempted ones     *)
(* while the running queue is scheduled.                                   *)
FreeObject(o) ==
  /\ \/ phase = "idle"
     \/ phase = "running" /\ o \notin scheduled
  /\ FreeCached(o) \/ FreeHashless(o)
  /\ UNCHANGED <<cpuTierVars, phase, scheduled, restoring, swapVars, dataVars>>

Scheduling == phase \in {"running", "prefill"} /\ restoring = NoRestore

(* A block for the next token of a running request, or for the last, partial *)
(* block of a prompt.                                                      *)
AllocatesMutable(o) ==
  /\ Scheduling
  /\ AllocateMutable(o)
  /\ StoresVictim(block_id'[o])
  /\ scheduled' = scheduled \cup {o}
  /\ UNCHANGED <<restoring, swapVars, dataVars>>

(* A running request fills its block.                                      *)
Promotes(o, h) ==
  /\ phase = "running"
  /\ o \notin scheduled
  /\ PromoteFirst(o, h) \/ PromoteDuplicate(o, h)
  /\ scheduled' = scheduled \cup {o}
  /\ UNCHANGED <<cpuTierVars, phase, restoring, swapVars, dataVars>>

StartPrefills ==
  /\ phase = "running"
  /\ phase' = "prefill"
  /\ UNCHANGED <<allocVars, cpuTierVars, scheduled, restoring, swapVars, dataVars>>

-------------------------------------------------------------------------------
(* allocate_immutable_block_with_cache_namespace: the GPU has it, the tier   *)
(* has it, or nobody has.                                                  *)
GpuHit(o, h) ==
  /\ phase = "prefill" /\ restoring = NoRestore
  /\ AllocateImmutableHit(o, h)
  /\ scheduled' = scheduled \cup {o}
  /\ UNCHANGED <<cpuTierVars, phase, restoring, swapVars, dataVars>>

Miss(o, h) ==
  /\ phase = "prefill" /\ restoring = NoRestore
  /\ StepStarted
  /\ ~Hits(h)
  /\ AllocateImmutableMiss(o, h)
  /\ StoresVictim(block_id'[o])
  /\ scheduled' = scheduled \cup {o}
  /\ UNCHANGED <<restoring, swapVars, dataVars>>

(* _maybe_restore_external_cached_block claims the source first ...          *)
RestoreClaims(o, h) ==
  /\ phase = "prefill" /\ restoring = NoRestore
  /\ ~Allocated(o)
  /\ cached[h] = NoBlock
  /\ IF ClaimOk(h)
       THEN /\ ClaimLoad(h)
            /\ restoring' = [obj |-> o, hash |-> h, slot |-> slot_of[h], at |-> "allocate"]
            /\ UNCHANGED phase
       ELSE Dies /\ UNCHANGED restoring
  /\ UNCHANGED <<allocVars, scheduled, swapVars, dataVars>>

RestoringAt(step) == restoring # NoRestore /\ restoring.at = step

(* ... then reserves a GPU block, which may store its victim ...             *)
RestoreAllocates ==
  /\ RestoringAt("allocate")
  /\ AllocateMutable(restoring.obj)
  /\ StoresVictim(block_id'[restoring.obj])
  /\ restoring' = [restoring EXCEPT !.at = "load"]
  /\ scheduled' = scheduled \cup {restoring.obj}
  /\ UNCHANGED <<swapVars, dataVars>>

(* ... or, without one, gives the claim back.  (The block manager admits a    *)
(* prompt only if its blocks are available; a client that does not ask sees  *)
(* the exception.  Variant: the claim is kept.)                             *)
RestoreKeepsClaim ==
  /\ RestoringAt("allocate")
  /\ NoFreeBlocks
  /\ restoring' = NoRestore
  /\ UNCHANGED <<allocVars, cpuTierVars, phase, scheduled, swapVars, dataVars>>

RestoreCancels ==
  /\ RestoringAt("allocate")
  /\ NoFreeBlocks
  /\ CancelLoad(restoring.hash, restoring.slot)
  /\ restoring' = NoRestore
  /\ UNCHANGED <<allocVars, phase, scheduled, swapVars, dataVars>>

(* ... stages the load and publishes the block as cached and computed.       *)
(* (Variant: the block is left out of _cached_blocks.)                       *)
PublishedNowhere(h, b) == cached
Published(h, b) == [cached EXCEPT ![h] = b]

RestoreLoads ==
  LET o == restoring.obj
      h == restoring.hash
      b == block_id[o]
  IN
  /\ RestoringAt("load")
  /\ IF LoadOk(h, restoring.slot, b) /\ cached[h] = NoBlock
       THEN /\ StageLoad(h, restoring.slot, b)
            /\ cached' = Published(h, b)
            /\ computed' = [computed EXCEPT ![b] = TRUE]
            /\ content' = [content EXCEPT ![o] = h]
            /\ UNCHANGED phase
       ELSE Dies /\ UNCHANGED <<cached, computed, content>>
  /\ restoring' = NoRestore
  /\ UNCHANGED <<free_table, older, free, refcount, touched, active,
                 last_accessed, block_id, scheduled, swapVars, dataVars>>

-------------------------------------------------------------------------------
(* get_and_reset_prefix_swaps                                              *)
Drains ==
  /\ \/ Scheduling /\ StartDrain /\ phase' = "draining" /\ UNCHANGED swapVars
     \/ phase = "draining" /\ ResolveStore /\ UNCHANGED <<phase, swapVars>>
     \/ /\ phase = "draining"
        /\ FinishDrain
        /\ phase' = "execute"
        /\ swap_in' = {<<s, h2d[s]>> : s \in H2dSources}
        /\ swap_out' = {<<b, d2h[b]>> : b \in D2hSources}
     \/ phase = "draining" /\ FailDrain /\ phase' = "dead" /\ UNCHANGED swapVars
  /\ UNCHANGED <<allocVars, scheduled, restoring, dataVars>>

(* execute_worker: every D2H copy before any H2D copy.  (Variant: loads go   *)
(* first.)                                                                 *)
StoredFrom(g) == [s \in CpuSlot |->
  IF \E b \in Block : <<b, s>> \in swap_out
    THEN g[CHOOSE b \in Block : <<b, s>> \in swap_out] ELSE cpu[s]]
LoadedFrom(c) == [b \in Block |->
  IF \E s \in CpuSlot : <<s, b>> \in swap_in
    THEN c[CHOOSE s \in CpuSlot : <<s, b>> \in swap_in] ELSE gpu[b]]
TransferLoadsFirst == [cpu |-> StoredFrom(LoadedFrom(cpu)), gpu |-> LoadedFrom(cpu)]
Transfer == [cpu |-> StoredFrom(gpu), gpu |-> LoadedFrom(StoredFrom(gpu))]

(* The forward pass computes the blocks this step filled and scribbles on    *)
(* those still being filled.                                               *)
Forward(g) == [b \in Block |->
  IF b \in touched THEN CHOOSE h \in Hash : cached[h] = b
  ELSE IF \E o \in Holders(b) : content[o] = NoHash THEN NoHash
  ELSE g[b]]

(* The end of schedule() marks the touched blocks, the workers run.          *)
ExecuteStep ==
  /\ phase = "execute"
  /\ MarkComputed
  /\ cpu' = Transfer.cpu
  /\ gpu' = Forward(Transfer.gpu)
  /\ phase' = "idle"
  /\ scheduled' = {}
  /\ swap_in' = {}
  /\ swap_out' = {}
  /\ UNCHANGED <<cpuTierVars, restoring>>

TieredNext ==
  \/ BeginSchedule
  \/ \E o \in Obj :
       \/ FreeObject(o)
       \/ AllocatesMutable(o)
       \/ \E h \in Hash : \/ Promotes(o, h)
                          \/ GpuHit(o, h)
                          \/ Miss(o, h)
                          \/ RestoreClaims(o, h)
  \/ StartPrefills
  \/ RestoreAllocates
  \/ RestoreCancels
  \/ RestoreLoads
  \/ Drains
  \/ ExecuteStep

TieredSpec == TieredInit /\ [][TieredNext]_tieredVars

-------------------------------------------------------------------------------
(* No check of the tier fails in the order of calls the scheduler makes: no   *)
(* slot is claimed twice, no transfer clashes with another, and every claim  *)
(* is staged or cancelled before the drain.                                 *)
TierNeverRaises == phase # "dead"

(* Between steps a cached GPU block really holds the content of its hash,     *)
(* however it came there: computed, promoted, or loaded from the CPU into a  *)
(* block that a victim left in the same step.                               *)
GpuHoldsItsContent ==
  phase = "idle" => \A h \in Hash : cached[h] # NoBlock => gpu[cached[h]] = h

(* A slot that may be claimed holds the content the index names, and between *)
(* steps so does one about to be published: the copy reads the victim before *)
(* the block is reused.                                                     *)
CpuHoldsItsContent ==
  /\ \A s \in ready : cpu[s] = hash_of[s]
  /\ phase = "idle" => \A s \in pending : cpu[s] = hash_of[s]

(* The restore path inserts into the hash map behind the back of              *)
(* promote_to_immutable_block; outside a restore the map stays exact.        *)
MapExactWithTier == restoring = NoRestore => CachedMapExact

===============================================================================
