--------------------- MODULE PrefixCachingBlockAllocator ---------------------
(***************************************************************************)
(* PrefixCachingBlockAllocator of vllm/core/block/prefix_caching_block.py,  *)
(* with the hashless NaiveBlockAllocator and the reference counter it       *)
(* shares and the LRU evictor it owns.                                      *)
(*                                                                         *)
(* A client holds block objects (PrefixCachingBlock): an object has a       *)
(* physical block id or none, and a content hash once it is full.  Every    *)
(* method of the allocator that changes state is one action.  A hash stands *)
(* for the whole token prefix up to its block; hash_block_tokens is taken   *)
(* to be injective.                                                         *)
(***************************************************************************)
EXTENDS LRUEvictor, FiniteSets

CONSTANTS
  Obj,        (* block objects of the pool                                  *)
  NoBlock,    (* block_id = None                                            *)
  NoHash,     (* content_hash = None: a mutable block                       *)
  Stamps      (* the clock readings mark_blocks_as_accessed is called with  *)

ASSUME NoBlockAssumption == NoBlock \notin Block
ASSUME NoHashAssumption == NoHash \notin Hash
ASSUME StampsAssumption == Stamps \subseteq Nat
ASSUME FiniteObj == IsFiniteSet(Obj)
ASSUME FiniteBlock == IsFiniteSet(Block)

VARIABLES
  free,          (* _hashless_allocator._free_block_indices                 *)
  refcount,      (* _refcounter, shared by both allocators                  *)
  cached,        (* _cached_blocks: the block id cached for a hash          *)
  touched,       (* _touched_blocks                                         *)
  active,        (* _block_tracker[b].active                                *)
  computed,      (* _block_tracker[b].computed                              *)
  last_accessed, (* _block_tracker[b].last_accessed                         *)
  block_id,      (* the block id of an object                               *)
  content        (* the content hash of an object                           *)

trackerVars == <<active, computed, last_accessed>>
objectVars == <<block_id, content>>
allocVars == <<free_table, older, free, refcount, cached, touched, active,
               computed, last_accessed, block_id, content>>

DefaultLastAccessed == -1

Holders(b) == {o \in Obj : block_id[o] = b}
Allocated(o) == block_id[o] # NoBlock

AllocInit ==
  /\ EvictorInit
  /\ free = Block
  /\ refcount = [b \in Block |-> 0]
  /\ cached = [h \in Hash |-> NoBlock]
  /\ touched = {}
  /\ active = [b \in Block |-> FALSE]
  /\ computed = [b \in Block |-> FALSE]
  /\ last_accessed = [b \in Block |-> DefaultLastAccessed]
  /\ block_id = [o \in Obj |-> NoBlock]
  /\ content = [o \in Obj |-> NoHash]

-------------------------------------------------------------------------------
(* _track_block_id and _untrack_block_id: enable and disable reset the      *)
(* stamp and the flag.                                                     *)
Track(b, flag) ==
  /\ active' = [active EXCEPT ![b] = TRUE]
  /\ computed' = [computed EXCEPT ![b] = flag]
  /\ last_accessed' = [last_accessed EXCEPT ![b] = DefaultLastAccessed]

Untrack(b) ==
  /\ active' = [active EXCEPT ![b] = FALSE]
  /\ computed' = [computed EXCEPT ![b] = FALSE]
  /\ last_accessed' = [last_accessed EXCEPT ![b] = DefaultLastAccessed]

(* _allocate_block_id: a hashless block first, an evicted one otherwise.    *)
TakesFree(b) ==
  /\ b \in free
  /\ free' = free \ {b}
  /\ UNCHANGED evictorVars

TakesEvicted(b) ==
  /\ free = {}
  /\ EvictionVictim(b)
  /\ free_table' = Removed(b)
  /\ older' = OlderRemoved(b)
  /\ UNCHANGED free

AllocateBlockId(b) == TakesFree(b) \/ TakesEvicted(b)

(* An evicted block's hash leaves _cached_blocks.  (Variant: it stays.)      *)
CachedKeepsEvicted(b) == cached
CachedWithout(b) ==
  IF b \in free THEN cached ELSE [cached EXCEPT ![free_table[b].hash] = NoBlock]

NoFreeBlocks == free = {} /\ InEvictor = {}

(* Variant: a freed object keeps its block id.                              *)
HoldsDangling(o, b, h) ==
  /\ block_id' = IF b = NoBlock THEN block_id ELSE [block_id EXCEPT ![o] = b]
  /\ content' = [content EXCEPT ![o] = h]

Holds(o, b, h) ==
  /\ block_id' = [block_id EXCEPT ![o] = b]
  /\ content' = [content EXCEPT ![o] = h]

-------------------------------------------------------------------------------
(* allocate_mutable_block                                                  *)
AllocateMutable(o) ==
  /\ ~Allocated(o)
  /\ \E b \in Block :
       /\ AllocateBlockId(b)
       /\ refcount' = [refcount EXCEPT ![b] = @ + 1]
       /\ cached' = CachedWithout(b)
       /\ Track(b, FALSE)
       /\ Holds(o, b, NoHash)
  /\ UNCHANGED touched

(* _incr_refcount_cached_block on block b, given the count it starts from:  *)
(* a block nobody referred to leaves the evictor and is tracked, computed.  *)
Revives(b) ==
  /\ free_table' = Removed(b)
  /\ older' = OlderRemoved(b)
  /\ Track(b, TRUE)

(* Variant: the revived block stays in the evictor.                         *)
IncrRefcountStaysEvictable(b) ==
  /\ refcount' = [refcount EXCEPT ![b] = @ + 1]
  /\ Track(b, TRUE)
  /\ UNCHANGED evictorVars

IncrRefcountCached(b) ==
  /\ refcount' = [refcount EXCEPT ![b] = @ + 1]
  /\ IF refcount[b] = 0
       THEN Revives(b)
       ELSE UNCHANGED <<free_table, older, active, computed, last_accessed>>

(* allocate_immutable_block, the content is cached                         *)
AllocateImmutableHit(o, h) ==
  /\ ~Allocated(o)
  /\ cached[h] # NoBlock
  /\ IncrRefcountCached(cached[h])
  /\ Holds(o, cached[h], h)
  /\ UNCHANGED <<free, cached, touched>>

(* allocate_immutable_block, the content is not cached: a mutable block is  *)
(* allocated, filled and promoted.                                         *)
AllocateImmutableMiss(o, h) ==
  /\ ~Allocated(o)
  /\ cached[h] = NoBlock
  /\ \E b \in Block :
       /\ AllocateBlockId(b)
       /\ refcount' = [refcount EXCEPT ![b] = @ + 1]
       /\ cached' = [CachedWithout(b) EXCEPT ![h] = b]
       /\ touched' = touched \cup {b}
       /\ Track(b, FALSE)
       /\ Holds(o, b, h)

(* promote_to_immutable_block of an object that just became full.           *)
(* append_token_ids has resolved copy-on-write: the block is not shared.    *)
(* (Variant: it may be.)                                                   *)
CanPromoteShared(o, h) ==
  /\ Allocated(o)
  /\ content[o] = NoHash

CanPromote(o, h) ==
  /\ Allocated(o)
  /\ content[o] = NoHash
  /\ refcount[block_id[o]] = 1

PromoteFirst(o, h) ==
  /\ CanPromote(o, h)
  /\ cached[h] = NoBlock
  /\ cached' = [cached EXCEPT ![h] = block_id[o]]
  /\ touched' = touched \cup {block_id[o]}
  /\ Holds(o, block_id[o], h)
  /\ UNCHANGED <<free_table, older, free, refcount, active, computed, last_accessed>>

(* The content is cached already: the object's own block goes back to the   *)
(* hashless allocator and the object takes over the cached one.             *)
PromoteDuplicate(o, h) ==
  LET own == block_id[o]
      dup == cached[h]
      revive == refcount[dup] = 0
  IN
  /\ CanPromote(o, h)
  /\ dup # NoBlock
  /\ free' = free \cup {own}
  /\ refcount' = [refcount EXCEPT ![own] = 0, ![dup] = @ + 1]
  /\ free_table' = IF revive THEN Removed(dup) ELSE free_table
  /\ older' = IF revive THEN OlderRemoved(dup) ELSE older
  /\ active' = [active EXCEPT ![own] = FALSE, ![dup] = TRUE]
  /\ computed' = [computed EXCEPT ![own] = FALSE, ![dup] = revive \/ @]
  /\ last_accessed' = [last_accessed EXCEPT
       ![own] = DefaultLastAccessed,
       ![dup] = IF revive THEN DefaultLastAccessed ELSE @]
  /\ Holds(o, dup, h)
  /\ UNCHANGED <<cached, touched>>

(* cow_block_if_not_appendable of a shared block: the object leaves it and  *)
(* takes a fresh one.  (Of an unshared one it does nothing.)                *)
CopyOnWrite(o) ==
  /\ Allocated(o)
  /\ content[o] = NoHash
  /\ refcount[block_id[o]] > 1
  /\ \E b \in Block :
       /\ AllocateBlockId(b)
       /\ refcount' = [refcount EXCEPT ![block_id[o]] = @ - 1, ![b] = @ + 1]
       /\ cached' = CachedWithout(b)
       /\ Track(b, FALSE)
       /\ Holds(o, b, NoHash)
  /\ UNCHANGED touched

-------------------------------------------------------------------------------
(* free of an immutable block (_decr_refcount_cached_block): with the last   *)
(* reference gone it enters the evictor with its stamp.                     *)
FreeCached(o) ==
  LET b == block_id[o] IN
  /\ Allocated(o)
  /\ content[o] # NoHash
  /\ refcount' = [refcount EXCEPT ![b] = @ - 1]
  /\ IF refcount[b] = 1
       THEN /\ free_table' = Added(b, content[o], last_accessed[b])
            /\ older' = OlderAdded(b)
            /\ Untrack(b)
       ELSE UNCHANGED <<free_table, older, active, computed, last_accessed>>
  /\ Holds(o, NoBlock, NoHash)
  /\ UNCHANGED <<free, cached, touched>>

(* free of a mutable block (_decr_refcount_hashless_block)                  *)
FreeHashless(o) ==
  LET b == block_id[o] IN
  /\ Allocated(o)
  /\ content[o] = NoHash
  /\ refcount' = [refcount EXCEPT ![b] = @ - 1]
  /\ IF refcount[b] = 1
       THEN free' = free \cup {b} /\ Untrack(b)
       ELSE UNCHANGED <<free, active, computed, last_accessed>>
  /\ Holds(o, NoBlock, NoHash)
  /\ UNCHANGED <<free_table, older, cached, touched>>

(* fork, one block of the source sequence: object p shares o's block.       *)
ForkBlock(o, p) ==
  /\ Allocated(o)
  /\ ~Allocated(p)
  /\ refcount' = [refcount EXCEPT ![block_id[o]] = @ + 1]
  /\ Holds(p, block_id[o], content[o])
  /\ UNCHANGED <<free_table, older, free, cached, touched, active, computed,
                 last_accessed>>

(* mark_blocks_as_accessed: a block in use is stamped in the tracker, an idle *)
(* one in the evictor, and any other raises ValueError.                     *)
MarkAccessed(S, now) ==
  /\ \A b \in S : active[b] \/ b \in InEvictor
  /\ last_accessed' =
       [b \in Block |-> IF b \in S /\ active[b] THEN now ELSE last_accessed[b]]
  /\ free_table' = Updated({b \in S : ~active[b]}, now)
  /\ UNCHANGED <<older, free, refcount, cached, touched, active, computed,
                 block_id, content>>

(* mark_blocks_as_computed: its argument is ignored, every touched block is *)
(* marked, whether or not it is still in use.                               *)
MarkComputed ==
  /\ computed' = [b \in Block |-> computed[b] \/ b \in touched]
  /\ touched' = {}
  /\ UNCHANGED <<free_table, older, free, refcount, cached, active,
                 last_accessed, block_id, content>>

(* block_is_computed                                                       *)
IsComputed(b) == IF active[b] THEN computed[b] ELSE b \in InEvictor

-------------------------------------------------------------------------------
(* Any client of the allocator: the methods in any order, on any objects.   *)
AllocNext ==
  \/ \E o \in Obj :
       \/ AllocateMutable(o)
       \/ CopyOnWrite(o)
       \/ FreeCached(o)
       \/ FreeHashless(o)
       \/ \E p \in Obj : ForkBlock(o, p)
       \/ \E h \in Hash : \/ AllocateImmutableHit(o, h)
                          \/ AllocateImmutableMiss(o, h)
                          \/ PromoteFirst(o, h)
                          \/ PromoteDuplicate(o, h)
  \/ \E S \in SUBSET Block, now \in Stamps : MarkAccessed(S, now)
  \/ MarkComputed

AllocSpec == AllocInit /\ [][AllocNext]_allocVars

-------------------------------------------------------------------------------
(* Type invariant: the fields hold block ids, hashes and stamps, and a       *)
(* table entry is a well-formed BlockMetaData.                              *)
AllocTypeOK ==
  /\ free_table \in [Block -> Entry \cup {NoEntry}]
  /\ older \subseteq Block \X Block
  /\ free \subseteq Block
  /\ refcount \in [Block -> Nat]
  /\ cached \in [Hash -> Block \cup {NoBlock}]
  /\ touched \subseteq Block
  /\ active \in [Block -> BOOLEAN]
  /\ computed \in [Block -> BOOLEAN]
  /\ last_accessed \in [Block -> Time]
  /\ block_id \in [Obj -> Block \cup {NoBlock}]
  /\ content \in [Obj -> Hash \cup {NoHash}]

(* The shared reference counter counts exactly the block objects that hold a *)
(* block, whichever allocator handed it out (incr, decr, the CoW and the     *)
(* promotion that replaces a block by its cached duplicate).                *)
RefcountIsHolders == \A b \in Block : refcount[b] = Cardinality(Holders(b))

(* No block is lost and none has two owners: every block is in exactly one  *)
(* of the hashless free list, the evictor, and the hands of the objects; the *)
(* tracker is active exactly for the last (get_num_free_blocks adds the      *)
(* first two).                                                             *)
BlocksPartitioned ==
  \A b \in Block :
    /\ b \in free => b \notin InEvictor /\ refcount[b] = 0
    /\ b \in InEvictor => refcount[b] = 0
    /\ refcount[b] = 0 => b \in free \/ b \in InEvictor
    /\ active[b] <=> refcount[b] # 0

(* What the hash map says is true: a cached block is idle in the evictor     *)
(* under the same hash, or held by an object of that content; conversely     *)
(* every evictor entry and every immutable object is the cached block of its *)
(* hash (the sanity checks of _maybe_allocate_evicted_block_id and the       *)
(* assertion of _decr_refcount_cached_block never fail).                    *)
CachedIsBacked ==
  \A h \in Hash : cached[h] # NoBlock =>
    \/ cached[h] \in InEvictor /\ free_table[cached[h]].hash = h
    \/ \E o \in Obj : block_id[o] = cached[h] /\ content[o] = h
EvictorIsCached == \A b \in InEvictor : cached[free_table[b].hash] = b
FullIsCached ==
  \A o \in Obj : Allocated(o) /\ content[o] # NoHash => cached[content[o]] = block_id[o]

CachedMapExact == CachedIsBacked /\ EvictorIsCached /\ FullIsCached

(* Two objects share a physical block only if they stand for the same        *)
(* content: sharing is by fork or by hash and never outlives a promotion.    *)
SharedBlocksAgree ==
  \A o, p \in Obj :
    Allocated(o) /\ block_id[o] = block_id[p] => content[o] = content[p]

(* A cached block in use stays the cached block of its hash: no eviction, no  *)
(* promotion of another block and no copy-on-write takes it away before the  *)
(* last of its holders has freed it (the step that frees it included).      *)
CachedInUseStays ==
  [][\A h \in Hash : cached[h] # NoBlock /\ Holders(cached[h]) # {} =>
       cached'[h] = cached[h]]_allocVars

===============================================================================
