------------------ MODULE PrefixCachingBlockAllocatorProofs ------------------
(***************************************************************************)
(* Theorems of PrefixCachingBlockAllocator, for every number of blocks,      *)
(* objects and hashes.                                                     *)
(***************************************************************************)
EXTENDS PrefixCachingBlockAllocator, FiniteSetTheorems, WellFoundedInduction, TLAPS

(* The inductive invariant.  None of its parts is inductive alone: a count    *)
(* stays natural because it counts holders, the promotion of a duplicate     *)
(* finds another block than its own because sharers agree, an evicted block  *)
(* has one hash to forget because the map is exact.                         *)
AllocInv ==
  /\ AllocTypeOK
  /\ RefcountIsHolders
  /\ BlocksPartitioned
  /\ CachedMapExact
  /\ SharedBlocksAgree

-------------------------------------------------------------------------------
(* Counting the objects of an assignment of block ids.                      *)
Count(ids, b) == Cardinality({o \in Obj : ids[o] = b})

Moves(ids, new, o, b) ==
  /\ ids \in [Obj -> Block \cup {NoBlock}]
  /\ o \in Obj /\ b \in Block \cup {NoBlock}
  /\ ids[o] # b /\ new[o] = b
  /\ \A p \in Obj : p # o => new[p] = ids[p]

(* One object moves to block b: its count grows by one, that of the block    *)
(* it leaves shrinks by one, no other changes.                             *)
LEMMA CountMove ==
  ASSUME NEW ids, NEW new, NEW o, NEW b, Moves(ids, new, o, b), NEW x \in Block
  PROVE  /\ Count(ids, x) \in Nat
         /\ x = b => Count(new, x) = Count(ids, x) + 1
         /\ x = ids[o] => Count(new, x) = Count(ids, x) - 1 /\ Count(ids, x) > 0
         /\ x # b /\ x # ids[o] => Count(new, x) = Count(ids, x)
<1> USE DEF Moves
<1> DEFINE S == {p \in Obj : ids[p] = x}
           T == {p \in Obj : new[p] = x}
<1>1. IsFiniteSet(S) /\ Cardinality(S) \in Nat
  <2>1. S \subseteq Obj
    OBVIOUS
  <2>2. IsFiniteSet(S)
    BY <2>1, FiniteObj, FS_Subset
  <2>. QED
    BY <2>2, FS_CardinalityType
<1>2. CASE x = b
  <2>1. T = S \cup {o} /\ o \notin S /\ x # ids[o]
    BY <1>2
  <2>2. Cardinality(T) = Cardinality(S) + 1
    BY <2>1, <1>1, FS_AddElement
  <2>. QED
    BY <1>1, <1>2, <2>1, <2>2 DEF Count
<1>3. CASE x = ids[o]
  <2>1. T = S \ {o} /\ o \in S /\ x # b
    BY <1>3
  <2>2. Cardinality(T) = Cardinality(S) - 1
    BY <2>1, <1>1, FS_RemoveElement, SMTT(30)
  <2>3. Cardinality(S) # 0
    BY <2>1, <1>1, FS_EmptySet
  <2>. QED
    BY <1>1, <1>3, <2>1, <2>2, <2>3 DEF Count
<1>4. CASE x # b /\ x # ids[o]
  <2>1. T = S
    BY <1>4
  <2>. QED
    BY <1>1, <1>4, <2>1 DEF Count
<1>. QED
  BY <1>2, <1>3, <1>4

(* What a reference count says about the holders of its block.              *)
LEMMA HoldersOfRefcount ==
  ASSUME AllocTypeOK, RefcountIsHolders, NEW b \in Block
  PROVE  /\ refcount[b] = 0 <=> \A o \in Obj : block_id[o] # b
         /\ refcount[b] = 1 =>
              \A o, p \in Obj : block_id[o] = b /\ block_id[p] = b => o = p
         /\ \A o \in Obj : block_id[o] = b /\ refcount[b] # 1 =>
              \E p \in Obj : block_id[p] = b /\ p # o
<1> DEFINE S == Holders(b)
<1>1. IsFiniteSet(S) /\ Cardinality(S) = refcount[b] /\ refcount[b] \in Nat
  <2>1. S \subseteq Obj
    BY DEF Holders
  <2>. QED
    BY <2>1, FiniteObj, FS_Subset DEF RefcountIsHolders, AllocTypeOK
<1>2. refcount[b] = 0 <=> S = {}
  BY <1>1, FS_EmptySet
<1>3. ASSUME NEW o \in Obj, block_id[o] = b
      PROVE  refcount[b] = 1 <=> S \ {o} = {}
  <2>1. o \in S
    BY <1>3 DEF Holders
  <2>2. IsFiniteSet(S \ {o}) /\ Cardinality(S \ {o}) = Cardinality(S) - 1
    BY <1>1, <2>1, FS_RemoveElement
  <2>3. Cardinality(S \ {o}) = 0 <=> S \ {o} = {}
    BY <2>2, FS_EmptySet
  <2>. QED
    BY <1>1, <2>2, <2>3
<1>. QED
  BY <1>2, <1>3 DEF Holders

-------------------------------------------------------------------------------
LEMMA InitInv == AllocInit => AllocInv
<1> SUFFICES ASSUME AllocInit PROVE AllocInv
  OBVIOUS
<1> USE DEF AllocInit, EvictorInit
<1>1. AllocTypeOK
  BY DEF AllocTypeOK, Time, DefaultLastAccessed
<1>2. RefcountIsHolders
  <2>1. ASSUME NEW b \in Block PROVE Holders(b) = {}
    BY NoBlockAssumption DEF Holders
  <2>. QED
    BY <2>1, FS_EmptySet DEF RefcountIsHolders
<1>3. BlocksPartitioned
  BY DEF BlocksPartitioned, InEvictor
<1>4. CachedMapExact
  BY DEF CachedMapExact, CachedIsBacked, EvictorIsCached, FullIsCached, InEvictor, Allocated
<1>5. SharedBlocksAgree
  BY DEF SharedBlocksAgree
<1>. QED
  BY <1>1, <1>2, <1>3, <1>4, <1>5 DEF AllocInv

(* The block _allocate_block_id returns: nobody's, and no hash's afterwards.  *)
LEMMA PickBlock ==
  ASSUME AllocInv, NEW b \in Block, AllocateBlockId(b)
  PROVE  /\ refcount[b] = 0
         /\ \A o \in Obj : block_id[o] # b
         /\ free' = free \ {b}
         /\ free_table' = [free_table EXCEPT ![b] = NoEntry]
         /\ older' \subseteq Block \X Block
         /\ CachedWithout(b) =
              [h \in Hash |-> IF cached[h] = b THEN NoBlock ELSE cached[h]]
<1> USE DEF AllocInv
<1>1. CASE TakesFree(b)
  <2>1. b \in free /\ b \notin InEvictor /\ refcount[b] = 0
    BY <1>1 DEF TakesFree, BlocksPartitioned
  <2>2. \A o \in Obj : block_id[o] # b
    BY <2>1, HoldersOfRefcount
  <2>3. \A h \in Hash : cached[h] # b
    BY <2>1, <2>2, NoBlockAssumption DEF CachedMapExact, CachedIsBacked, EvictorIsCached, FullIsCached
  <2>4. free_table' = [free_table EXCEPT ![b] = NoEntry]
    BY <1>1, <2>1 DEF TakesFree, InEvictor, evictorVars, AllocTypeOK
  <2>. QED
    BY <1>1, <2>1, <2>2, <2>3, <2>4
       DEF TakesFree, CachedWithout, evictorVars, AllocTypeOK
<1>2. CASE TakesEvicted(b)
  <2>1. b \in InEvictor
    BY <1>2 DEF TakesEvicted, EvictionVictim, Champion, Scanned
  <2>2. refcount[b] = 0 /\ b \notin free
    BY <2>1 DEF BlocksPartitioned
  <2>3. \A o \in Obj : block_id[o] # b
    BY <2>2, HoldersOfRefcount
  <2>4. \A h \in Hash : cached[h] = b <=> h = free_table[b].hash
    BY <2>1, <2>3, NoBlockAssumption DEF CachedMapExact, CachedIsBacked, EvictorIsCached, FullIsCached
  <2>5. free_table' = [free_table EXCEPT ![b] = NoEntry] /\ older' \subseteq Block \X Block
    BY <1>2 DEF TakesEvicted, Removed, OlderRemoved, AllocTypeOK
  <2>. QED
    BY <1>2, <2>2, <2>3, <2>4, <2>5, ZenonT(60) DEF TakesEvicted, CachedWithout, AllocTypeOK
<1>. QED
  BY <1>1, <1>2 DEF AllocateBlockId

(* An object that held nothing comes to hold block b.                       *)
LEMMA CountAcquire ==
  ASSUME AllocTypeOK, RefcountIsHolders,
         NEW o \in Obj, NEW b \in Block, block_id[o] = NoBlock,
         block_id' = [block_id EXCEPT ![o] = b],
         refcount' = [refcount EXCEPT ![b] = @ + 1]
  PROVE  RefcountIsHolders' /\ refcount' \in [Block -> Nat]
<1>1. ASSUME NEW x \in Block
      PROVE  refcount'[x] = Cardinality(Holders(x)') /\ refcount'[x] \in Nat
  <2>1. refcount[x] = Count(block_id, x)
    BY DEF RefcountIsHolders, Holders, Count
  <2>2. Cardinality(Holders(x)') = Count(block_id', x)
    BY DEF Holders, Count
  <2>3. /\ Count(block_id, x) \in Nat
        /\ x = b => Count(block_id', x) = Count(block_id, x) + 1
        /\ x # b => Count(block_id', x) = Count(block_id, x)
    <3>1. Moves(block_id, block_id', o, b)
      BY NoBlockAssumption DEF AllocTypeOK, Moves
    <3>2. x # block_id[o]
      BY NoBlockAssumption
    <3>3. b \in Block /\ block_id[o] # b
      BY NoBlockAssumption
    <3>. QED
      BY <3>1, <3>2, <3>3, CountMove
  <2>. QED
    BY <2>1, <2>2, <2>3 DEF AllocTypeOK
<1>. QED
  BY <1>1 DEF RefcountIsHolders, AllocTypeOK

(* An object gives up its block.                                           *)
LEMMA CountRelease ==
  ASSUME AllocTypeOK, RefcountIsHolders,
         NEW o \in Obj, block_id[o] # NoBlock,
         block_id' = [block_id EXCEPT ![o] = NoBlock],
         refcount' = [refcount EXCEPT ![block_id[o]] = @ - 1]
  PROVE  RefcountIsHolders' /\ refcount' \in [Block -> Nat]
<1>1. ASSUME NEW x \in Block
      PROVE  refcount'[x] = Cardinality(Holders(x)') /\ refcount'[x] \in Nat
  <2>1. refcount[x] = Count(block_id, x)
    BY DEF RefcountIsHolders, Holders, Count
  <2>2. Cardinality(Holders(x)') = Count(block_id', x)
    BY DEF Holders, Count
  <2>3. /\ Count(block_id, x) \in Nat
        /\ x = block_id[o] =>
             /\ Count(block_id', x) = Count(block_id, x) - 1
             /\ Count(block_id, x) > 0
        /\ x # block_id[o] =>
             Count(block_id', x) = Count(block_id, x)
    <3>1. Moves(block_id, block_id', o, NoBlock)
      BY DEF AllocTypeOK, Moves
    <3>. QED
      BY <3>1, CountMove, NoBlockAssumption
  <2>. QED
    BY <2>1, <2>2, <2>3 DEF AllocTypeOK
<1>. QED
  BY <1>1 DEF RefcountIsHolders, AllocTypeOK

(* An object leaves its block for another.                                 *)
LEMMA CountExchange ==
  ASSUME AllocTypeOK, RefcountIsHolders,
         NEW o \in Obj, NEW b \in Block, block_id[o] # NoBlock, block_id[o] # b,
         block_id' = [block_id EXCEPT ![o] = b],
         refcount' = [refcount EXCEPT ![block_id[o]] = @ - 1, ![b] = @ + 1]
  PROVE  RefcountIsHolders' /\ refcount' \in [Block -> Nat]
<1>1. ASSUME NEW x \in Block
      PROVE  refcount'[x] = Cardinality(Holders(x)') /\ refcount'[x] \in Nat
  <2>1. refcount[x] = Count(block_id, x)
    BY DEF RefcountIsHolders, Holders, Count
  <2>2. Cardinality(Holders(x)') = Count(block_id', x)
    BY DEF Holders, Count
  <2>3. /\ Count(block_id, x) \in Nat
        /\ x = b => Count(block_id', x) = Count(block_id, x) + 1
        /\ x = block_id[o] =>
             /\ Count(block_id', x) = Count(block_id, x) - 1
             /\ Count(block_id, x) > 0
        /\ x # b /\ x # block_id[o] =>
             Count(block_id', x) = Count(block_id, x)
    <3>1. Moves(block_id, block_id', o, b)
      BY DEF AllocTypeOK, Moves
    <3>. QED
      BY <3>1, CountMove, NoBlockAssumption
  <2>4. block_id[o] \in Block
    BY DEF AllocTypeOK
  <2>. QED
    BY <2>1, <2>2, <2>3, <2>4 DEF AllocTypeOK
<1>. QED
  BY <1>1 DEF RefcountIsHolders, AllocTypeOK

-------------------------------------------------------------------------------
(* Preservation, action by action.                                         *)
LEMMA AllocateMutableInv ==
  ASSUME AllocInv, NEW o \in Obj, AllocateMutable(o)
  PROVE  AllocInv'
<1> USE DEF AllocInv
<1>1. PICK b \in Block :
        /\ AllocateBlockId(b)
        /\ refcount' = [refcount EXCEPT ![b] = @ + 1]
        /\ cached' = CachedWithout(b)
        /\ Track(b, FALSE)
        /\ Holds(o, b, NoHash)
  BY DEF AllocateMutable
<1>2. /\ refcount[b] = 0 /\ \A p \in Obj : block_id[p] # b
      /\ free' = free \ {b}
      /\ free_table' = [free_table EXCEPT ![b] = NoEntry]
      /\ older' \subseteq Block \X Block
      /\ cached' = [h \in Hash |-> IF cached[h] = b THEN NoBlock ELSE cached[h]]
  BY <1>1, PickBlock
<1>3. block_id[o] = NoBlock /\ touched' = touched
  BY DEF AllocateMutable, Allocated
<1>4. /\ block_id' = [block_id EXCEPT ![o] = b]
      /\ content' = [content EXCEPT ![o] = NoHash]
  BY <1>1 DEF Holds
<1>5. RefcountIsHolders' /\ refcount' \in [Block -> Nat]
  BY <1>1, <1>3, <1>4, CountAcquire
<1>6. AllocTypeOK'
  BY <1>1, <1>2, <1>3, <1>4, <1>5 DEF AllocTypeOK, Track, DefaultLastAccessed, Time
<1>7. BlocksPartitioned'
  BY <1>1, <1>2 DEF BlocksPartitioned, InEvictor, Track, AllocTypeOK
<1>8. CachedMapExact'
  <2>1. CachedIsBacked'
    BY <1>2, <1>3, <1>4 DEF CachedMapExact, CachedIsBacked, InEvictor, AllocTypeOK
  <2>2. EvictorIsCached'
    BY <1>2 DEF CachedMapExact, EvictorIsCached, InEvictor, AllocTypeOK, Entry
  <2>3. FullIsCached'
    BY <1>2, <1>3, <1>4 DEF CachedMapExact, FullIsCached, Allocated, AllocTypeOK
  <2>. QED
    BY <2>1, <2>2, <2>3 DEF CachedMapExact
<1>9. SharedBlocksAgree'
  BY <1>2, <1>3, <1>4 DEF SharedBlocksAgree, Allocated, AllocTypeOK
<1>. QED
  BY <1>5, <1>6, <1>7, <1>8, <1>9

LEMMA AllocateImmutableMissInv ==
  ASSUME AllocInv, NEW o \in Obj, NEW h \in Hash, AllocateImmutableMiss(o, h)
  PROVE  AllocInv'
<1> USE DEF AllocInv
<1>1. PICK b \in Block :
        /\ AllocateBlockId(b)
        /\ refcount' = [refcount EXCEPT ![b] = @ + 1]
        /\ cached' = [CachedWithout(b) EXCEPT ![h] = b]
        /\ touched' = touched \cup {b}
        /\ Track(b, FALSE)
        /\ Holds(o, b, h)
  BY DEF AllocateImmutableMiss
<1>2. /\ refcount[b] = 0 /\ \A p \in Obj : block_id[p] # b
      /\ free' = free \ {b}
      /\ free_table' = [free_table EXCEPT ![b] = NoEntry]
      /\ older' \subseteq Block \X Block
      /\ CachedWithout(b) = [g \in Hash |-> IF cached[g] = b THEN NoBlock ELSE cached[g]]
  BY <1>1, PickBlock
<1>10. cached' = [g \in Hash |-> IF g = h THEN b
                                ELSE IF cached[g] = b THEN NoBlock ELSE cached[g]]
  BY <1>1, <1>2
<1>3. block_id[o] = NoBlock /\ cached[h] = NoBlock
  BY DEF AllocateImmutableMiss, Allocated
<1>4. /\ block_id' = [block_id EXCEPT ![o] = b]
      /\ content' = [content EXCEPT ![o] = h]
  BY <1>1 DEF Holds
<1>5. RefcountIsHolders' /\ refcount' \in [Block -> Nat]
  BY <1>1, <1>3, <1>4, CountAcquire
<1>6. AllocTypeOK'
  <2>1. free_table' \in [Block -> Entry \cup {NoEntry}] /\ older' \subseteq Block \X Block
    BY <1>2 DEF AllocTypeOK
  <2>2. /\ active' \in [Block -> BOOLEAN] /\ computed' \in [Block -> BOOLEAN]
        /\ last_accessed' \in [Block -> Time]
    BY <1>1 DEF AllocTypeOK, Track, DefaultLastAccessed, Time
  <2>3. /\ free' \subseteq Block /\ touched' \subseteq Block
        /\ cached' \in [Hash -> Block \cup {NoBlock}]
    BY <1>1, <1>2, <1>10 DEF AllocTypeOK
  <2>4. /\ block_id' \in [Obj -> Block \cup {NoBlock}]
        /\ content' \in [Obj -> Hash \cup {NoHash}]
    BY <1>4 DEF AllocTypeOK
  <2>. QED
    BY <2>1, <2>2, <2>3, <2>4, <1>5 DEF AllocTypeOK
<1>7. BlocksPartitioned'
  BY <1>1, <1>2 DEF BlocksPartitioned, InEvictor, Track, AllocTypeOK
<1>8. CachedMapExact'
  <2>1. CachedIsBacked'
    BY <1>2, <1>3, <1>10, <1>4 DEF CachedMapExact, CachedIsBacked, InEvictor, AllocTypeOK
  <2>2. EvictorIsCached'
    BY <1>2, <1>3, <1>10, NoBlockAssumption DEF CachedMapExact, EvictorIsCached, InEvictor, AllocTypeOK, Entry
  <2>3. FullIsCached'
    BY <1>2, <1>3, <1>10, <1>4, NoBlockAssumption DEF CachedMapExact, FullIsCached, Allocated, AllocTypeOK
  <2>. QED
    BY <2>1, <2>2, <2>3 DEF CachedMapExact
<1>9. SharedBlocksAgree'
  BY <1>2, <1>3, <1>10, <1>4 DEF SharedBlocksAgree, Allocated, AllocTypeOK
<1>. QED
  BY <1>5, <1>6, <1>7, <1>8, <1>9

LEMMA AllocateImmutableHitInv ==
  ASSUME AllocInv, NEW o \in Obj, NEW h \in Hash, AllocateImmutableHit(o, h)
  PROVE  AllocInv'
<1> USE DEF AllocInv
<1>0. PICK b \in Block : b = cached[h]
  BY DEF AllocateImmutableHit, AllocTypeOK
<1>1. /\ b = cached[h] /\ block_id[o] = NoBlock
      /\ free' = free /\ cached' = cached /\ touched' = touched
      /\ refcount' = [refcount EXCEPT ![b] = @ + 1]
      /\ block_id' = [block_id EXCEPT ![o] = b]
      /\ content' = [content EXCEPT ![o] = h]
  BY <1>0 DEF AllocateImmutableHit, Allocated, IncrRefcountCached, Holds
<1>2. \/ /\ refcount[b] = 0
         /\ free_table' = [free_table EXCEPT ![b] = NoEntry]
         /\ older' \subseteq older
         /\ Track(b, TRUE)
      \/ /\ refcount[b] # 0
         /\ UNCHANGED <<free_table, older, active, computed, last_accessed>>
  BY <1>0 DEF AllocateImmutableHit, IncrRefcountCached, Revives, Removed, OlderRemoved
<1>3. b \notin free
  BY <1>1, HoldersOfRefcount, NoBlockAssumption
     DEF CachedMapExact, CachedIsBacked, BlocksPartitioned, InEvictor
<1>4. \A p \in Obj : block_id[p] = b => content[p] = h
  BY <1>1, HoldersOfRefcount, NoBlockAssumption
     DEF CachedMapExact, CachedIsBacked, BlocksPartitioned, SharedBlocksAgree, Allocated
<1>10. \A g \in Hash : cached[g] = b => g = h
  BY <1>1, <1>4, HoldersOfRefcount, NoBlockAssumption
     DEF CachedMapExact, CachedIsBacked, BlocksPartitioned
<1>5. RefcountIsHolders' /\ refcount' \in [Block -> Nat]
  BY <1>1, CountAcquire
<1>6. AllocTypeOK'
  <2>1. free_table' \in [Block -> Entry \cup {NoEntry}] /\ older' \subseteq Block \X Block
    BY <1>1, <1>2 DEF AllocTypeOK
  <2>2. /\ active' \in [Block -> BOOLEAN] /\ computed' \in [Block -> BOOLEAN]
        /\ last_accessed' \in [Block -> Time]
    <3>1. CASE Track(b, TRUE)
      BY <3>1 DEF AllocTypeOK, Track, DefaultLastAccessed, Time
    <3>2. CASE UNCHANGED <<active, computed, last_accessed>>
      BY <3>2 DEF AllocTypeOK
    <3>. QED
      BY <1>2, <3>1, <3>2
  <2>3. /\ free' \subseteq Block /\ touched' \subseteq Block
        /\ cached' \in [Hash -> Block \cup {NoBlock}]
    BY <1>1 DEF AllocTypeOK
  <2>4. /\ block_id' \in [Obj -> Block \cup {NoBlock}]
        /\ content' \in [Obj -> Hash \cup {NoHash}]
    BY <1>1 DEF AllocTypeOK
  <2>. QED
    BY <2>1, <2>2, <2>3, <2>4, <1>5 DEF AllocTypeOK
<1>7. BlocksPartitioned'
  BY <1>1, <1>2, <1>3 DEF BlocksPartitioned, InEvictor, Track, AllocTypeOK
<1>8. CachedMapExact'
  <2>1. CachedIsBacked'
    <3> SUFFICES ASSUME NEW g \in Hash, cached[g] # NoBlock
                 PROVE  \/ cached[g] \in InEvictor' /\ free_table'[cached[g]].hash = g
                        \/ \E p \in Obj : block_id'[p] = cached[g] /\ content'[p] = g
      BY <1>1 DEF CachedIsBacked
    <3>1. CASE cached[g] = b
      <4>1. block_id'[o] = b /\ content'[o] = g
        BY <1>1, <1>10, <3>1 DEF AllocTypeOK
      <4>. QED
        BY <3>1, <4>1
    <3>2. CASE cached[g] # b /\ cached[g] \in InEvictor /\ free_table[cached[g]].hash = g
      BY <1>2, <3>2 DEF InEvictor, AllocTypeOK
    <3>3. ASSUME NEW p \in Obj, block_id[p] = cached[g], content[p] = g
          PROVE  block_id'[p] = cached[g] /\ content'[p] = g
      BY <1>1, <3>3 DEF AllocTypeOK
    <3>. QED
      BY <3>1, <3>2, <3>3 DEF CachedMapExact, CachedIsBacked
  <2>2. EvictorIsCached'
    BY <1>1, <1>2 DEF CachedMapExact, EvictorIsCached, InEvictor, AllocTypeOK, Entry
  <2>3. FullIsCached'
    BY <1>1 DEF CachedMapExact, FullIsCached, Allocated, AllocTypeOK
  <2>. QED
    BY <2>1, <2>2, <2>3 DEF CachedMapExact
<1>9. SharedBlocksAgree'
  BY <1>1, <1>4 DEF SharedBlocksAgree, Allocated, AllocTypeOK
<1>. QED
  BY <1>5, <1>6, <1>7, <1>8, <1>9

LEMMA PromoteFirstInv ==
  ASSUME AllocInv, NEW o \in Obj, NEW h \in Hash, PromoteFirst(o, h)
  PROVE  AllocInv'
<1> USE DEF AllocInv
<1> DEFINE b == block_id[o]
<1>1. /\ b \in Block /\ content[o] = NoHash /\ refcount[b] = 1
      /\ cached[h] = NoBlock /\ cached' = [cached EXCEPT ![h] = b]
      /\ touched' = touched \cup {b}
      /\ UNCHANGED <<free_table, older, free, refcount, active, computed, last_accessed>>
      /\ content' = [content EXCEPT ![o] = h]
  BY DEF PromoteFirst, CanPromote, Allocated, Holds, AllocTypeOK
<1>2. block_id' = block_id
  BY DEF PromoteFirst, Holds, AllocTypeOK
<1>3. \A p \in Obj : block_id[p] = b => p = o
  BY <1>1, HoldersOfRefcount
<1>5. RefcountIsHolders'
  BY <1>1, <1>2 DEF RefcountIsHolders, Holders
<1>6. AllocTypeOK'
  BY <1>1, <1>2 DEF AllocTypeOK
<1>7. BlocksPartitioned'
  BY <1>1 DEF BlocksPartitioned, InEvictor
<1>8. CachedMapExact'
  <2>1. CachedIsBacked'
    BY <1>1, <1>2, NoHashAssumption DEF CachedMapExact, CachedIsBacked, InEvictor, AllocTypeOK
  <2>2. EvictorIsCached'
    BY <1>1, NoBlockAssumption DEF CachedMapExact, EvictorIsCached, InEvictor, AllocTypeOK, Entry
  <2>3. FullIsCached'
    BY <1>1, <1>2, NoHashAssumption DEF CachedMapExact, FullIsCached, Allocated, AllocTypeOK
  <2>. QED
    BY <2>1, <2>2, <2>3 DEF CachedMapExact
<1>9. SharedBlocksAgree'
  BY <1>1, <1>2, <1>3 DEF SharedBlocksAgree, Allocated, AllocTypeOK
<1>. QED
  BY <1>5, <1>6, <1>7, <1>8, <1>9

LEMMA CopyOnWriteInv ==
  ASSUME AllocInv, NEW o \in Obj, CopyOnWrite(o)
  PROVE  AllocInv'
<1> USE DEF AllocInv
<1>1. PICK b \in Block :
        /\ AllocateBlockId(b)
        /\ refcount' = [refcount EXCEPT ![block_id[o]] = @ - 1, ![b] = @ + 1]
        /\ cached' = CachedWithout(b)
        /\ Track(b, FALSE)
        /\ Holds(o, b, NoHash)
  BY DEF CopyOnWrite
<1>2. /\ refcount[b] = 0 /\ \A p \in Obj : block_id[p] # b
      /\ free' = free \ {b}
      /\ free_table' = [free_table EXCEPT ![b] = NoEntry]
      /\ older' \subseteq Block \X Block
      /\ cached' = [h \in Hash |-> IF cached[h] = b THEN NoBlock ELSE cached[h]]
  BY <1>1, PickBlock
<1>0. PICK own \in Block : own = block_id[o] /\ refcount[own] > 1
  BY DEF CopyOnWrite, Allocated, AllocTypeOK
<1>3. /\ own = block_id[o] /\ own # b /\ content[o] = NoHash /\ touched' = touched
      /\ refcount' = [refcount EXCEPT ![own] = @ - 1, ![b] = @ + 1]
  BY <1>0, <1>1, <1>2 DEF CopyOnWrite
<1>4. /\ block_id' = [block_id EXCEPT ![o] = b]
      /\ content' = [content EXCEPT ![o] = NoHash]
  BY <1>1 DEF Holds
<1>5. RefcountIsHolders' /\ refcount' \in [Block -> Nat]
  BY <1>1, <1>3, <1>4, CountExchange, NoBlockAssumption
<1>6. AllocTypeOK'
  BY <1>1, <1>2, <1>3, <1>4, <1>5 DEF AllocTypeOK, Track, DefaultLastAccessed, Time
<1>7. BlocksPartitioned'
  BY <1>0, <1>1, <1>2, <1>3 DEF BlocksPartitioned, InEvictor, Track, AllocTypeOK
<1>8. CachedMapExact'
  <2>1. CachedIsBacked'
    BY <1>2, <1>3, <1>4, NoHashAssumption
       DEF CachedMapExact, CachedIsBacked, InEvictor, AllocTypeOK
  <2>2. EvictorIsCached'
    BY <1>2 DEF CachedMapExact, EvictorIsCached, InEvictor, AllocTypeOK, Entry
  <2>3. FullIsCached'
    BY <1>2, <1>3, <1>4 DEF CachedMapExact, FullIsCached, Allocated, AllocTypeOK
  <2>. QED
    BY <2>1, <2>2, <2>3 DEF CachedMapExact
<1>9. SharedBlocksAgree'
  BY <1>2, <1>3, <1>4 DEF SharedBlocksAgree, Allocated, AllocTypeOK
<1>. QED
  BY <1>5, <1>6, <1>7, <1>8, <1>9

LEMMA PromoteDuplicateInv ==
  ASSUME AllocInv, NEW o \in Obj, NEW h \in Hash, PromoteDuplicate(o, h)
  PROVE  AllocInv'
<1> USE DEF AllocInv
<1>0. PICK own \in Block, dup \in Block : own = block_id[o] /\ dup = cached[h]
  BY DEF PromoteDuplicate, CanPromote, Allocated, AllocTypeOK
<1>1. /\ own = block_id[o] /\ dup = cached[h]
      /\ content[o] = NoHash /\ refcount[own] = 1
      /\ free' = free \cup {own} /\ cached' = cached /\ touched' = touched
      /\ block_id' = [block_id EXCEPT ![o] = dup]
      /\ content' = [content EXCEPT ![o] = h]
      /\ active' = [active EXCEPT ![own] = FALSE, ![dup] = TRUE]
  BY <1>0 DEF PromoteDuplicate, CanPromote, Holds
<1>2. \/ /\ refcount[dup] = 0
         /\ free_table' = [free_table EXCEPT ![dup] = NoEntry]
         /\ older' \subseteq older
      \/ /\ refcount[dup] # 0
         /\ UNCHANGED <<free_table, older>>
  BY <1>0 DEF PromoteDuplicate, Removed, OlderRemoved
<1>3. \A p \in Obj : block_id[p] = own => p = o
  BY <1>1, HoldersOfRefcount
<1>4. \A p \in Obj : block_id[p] = dup => content[p] = h
  BY <1>1, HoldersOfRefcount, NoBlockAssumption
     DEF CachedMapExact, CachedIsBacked, BlocksPartitioned, SharedBlocksAgree, Allocated
<1>10. own # dup /\ dup \notin free
  <2>1. own # dup
    BY <1>1, <1>4, NoHashAssumption
  <2>2. dup \in InEvictor \/ \E p \in Obj : block_id[p] = dup
    BY <1>1, NoBlockAssumption DEF CachedMapExact, CachedIsBacked
  <2>. QED
    BY <2>1, <2>2, HoldersOfRefcount DEF BlocksPartitioned
<1>11. \A g \in Hash : cached[g] = dup => g = h
  BY <1>1, <1>4, HoldersOfRefcount, NoBlockAssumption
     DEF CachedMapExact, CachedIsBacked, BlocksPartitioned
<1>12. \A g \in Hash : cached[g] # own
  BY <1>1, <1>3, HoldersOfRefcount, NoBlockAssumption, NoHashAssumption
     DEF CachedMapExact, CachedIsBacked, BlocksPartitioned
<1>13. refcount' = [refcount EXCEPT ![own] = @ - 1, ![dup] = @ + 1]
  BY <1>0, <1>1, <1>10 DEF PromoteDuplicate, AllocTypeOK
<1>5. RefcountIsHolders' /\ refcount' \in [Block -> Nat]
  BY <1>1, <1>10, <1>13, CountExchange, NoBlockAssumption
<1>6. AllocTypeOK'
  <2>1. free_table' \in [Block -> Entry \cup {NoEntry}] /\ older' \subseteq Block \X Block
    BY <1>2 DEF AllocTypeOK
  <2>2. active' \in [Block -> BOOLEAN]
    BY <1>1 DEF AllocTypeOK
  <2>3. computed' \in [Block -> BOOLEAN]
    BY <1>0 DEF PromoteDuplicate, AllocTypeOK
  <2>4. last_accessed' \in [Block -> Time]
    BY <1>0 DEF PromoteDuplicate, AllocTypeOK, DefaultLastAccessed, Time
  <2>5. /\ free' \subseteq Block /\ touched' \subseteq Block
        /\ cached' \in [Hash -> Block \cup {NoBlock}]
        /\ block_id' \in [Obj -> Block \cup {NoBlock}]
        /\ content' \in [Obj -> Hash \cup {NoHash}]
    BY <1>1 DEF AllocTypeOK
  <2>. QED
    BY <2>1, <2>2, <2>3, <2>4, <2>5, <1>5 DEF AllocTypeOK
<1>7. BlocksPartitioned'
  BY <1>1, <1>2, <1>10, <1>13 DEF BlocksPartitioned, InEvictor, AllocTypeOK
<1>8. CachedMapExact'
  <2>1. CachedIsBacked'
    <3> SUFFICES ASSUME NEW g \in Hash, cached[g] # NoBlock
                 PROVE  \/ cached[g] \in InEvictor' /\ free_table'[cached[g]].hash = g
                        \/ \E p \in Obj : block_id'[p] = cached[g] /\ content'[p] = g
      BY <1>1 DEF CachedIsBacked
    <3>1. CASE cached[g] = dup
      <4>1. block_id'[o] = dup /\ content'[o] = g
        BY <1>1, <1>11, <3>1 DEF AllocTypeOK
      <4>. QED
        BY <3>1, <4>1
    <3>2. CASE cached[g] # dup /\ cached[g] \in InEvictor /\ free_table[cached[g]].hash = g
      BY <1>2, <3>2 DEF InEvictor, AllocTypeOK
    <3>3. ASSUME NEW p \in Obj, block_id[p] = cached[g], content[p] = g
          PROVE  block_id'[p] = cached[g] /\ content'[p] = g
      BY <1>1, <1>12, <3>3 DEF AllocTypeOK
    <3>. QED
      BY <3>1, <3>2, <3>3 DEF CachedMapExact, CachedIsBacked
  <2>2. EvictorIsCached'
    BY <1>1, <1>2 DEF CachedMapExact, EvictorIsCached, InEvictor, AllocTypeOK, Entry
  <2>3. FullIsCached'
    BY <1>1 DEF CachedMapExact, FullIsCached, Allocated, AllocTypeOK
  <2>. QED
    BY <2>1, <2>2, <2>3 DEF CachedMapExact
<1>9. SharedBlocksAgree'
  BY <1>1, <1>4 DEF SharedBlocksAgree, Allocated, AllocTypeOK
<1>. QED
  BY <1>5, <1>6, <1>7, <1>8, <1>9

LEMMA FreeCachedInv ==
  ASSUME AllocInv, NEW o \in Obj, FreeCached(o)
  PROVE  AllocInv'
<1> USE DEF AllocInv
<1>0. PICK b \in Block, h \in Hash : b = block_id[o] /\ h = content[o]
  BY DEF FreeCached, Allocated, AllocTypeOK
<1>1. /\ b = block_id[o] /\ h = content[o] /\ cached[h] = b
      /\ free' = free /\ cached' = cached /\ touched' = touched
      /\ refcount' = [refcount EXCEPT ![b] = @ - 1]
      /\ block_id' = [block_id EXCEPT ![o] = NoBlock]
      /\ content' = [content EXCEPT ![o] = NoHash]
  BY <1>0, NoHashAssumption, NoBlockAssumption
     DEF FreeCached, Holds, CachedMapExact, FullIsCached, Allocated
<1>2. \/ /\ refcount[b] = 1
         /\ free_table' = [free_table EXCEPT ![b] = [hash |-> h, ts |-> last_accessed[b]]]
         /\ older' = older \cup (InEvictor \X {b})
         /\ Untrack(b)
      \/ /\ refcount[b] # 1
         /\ UNCHANGED <<free_table, older, active, computed, last_accessed>>
  BY <1>0 DEF FreeCached, Added, OlderAdded
<1>3. \A g \in Hash : cached[g] = b => g = h
  BY <1>1, HoldersOfRefcount, NoBlockAssumption
     DEF CachedMapExact, CachedIsBacked, BlocksPartitioned, SharedBlocksAgree, Allocated
<1>4. refcount[b] # 1 => \E p \in Obj : block_id[p] = b /\ content[p] = h /\ p # o
  BY <1>1, HoldersOfRefcount, NoBlockAssumption DEF SharedBlocksAgree, Allocated
<1>10. refcount[b] \in Nat \ {0}
  BY <1>1, HoldersOfRefcount DEF AllocTypeOK
<1>5. RefcountIsHolders' /\ refcount' \in [Block -> Nat]
  BY <1>1, CountRelease, NoBlockAssumption
<1>6. AllocTypeOK'
  <2>1. free_table' \in [Block -> Entry \cup {NoEntry}]
    BY <1>2 DEF AllocTypeOK, Entry
  <2>2. older' \subseteq Block \X Block
    BY <1>2 DEF AllocTypeOK, InEvictor
  <2>3. /\ active' \in [Block -> BOOLEAN] /\ computed' \in [Block -> BOOLEAN]
        /\ last_accessed' \in [Block -> Time]
    <3>1. CASE Untrack(b)
      BY <3>1 DEF AllocTypeOK, Untrack, DefaultLastAccessed, Time
    <3>2. CASE UNCHANGED <<active, computed, last_accessed>>
      BY <3>2 DEF AllocTypeOK
    <3>. QED
      BY <1>2, <3>1, <3>2
  <2>4. /\ free' \subseteq Block /\ touched' \subseteq Block
        /\ cached' \in [Hash -> Block \cup {NoBlock}]
        /\ block_id' \in [Obj -> Block \cup {NoBlock}]
        /\ content' \in [Obj -> Hash \cup {NoHash}]
    BY <1>1 DEF AllocTypeOK
  <2>. QED
    BY <2>1, <2>2, <2>3, <2>4, <1>5 DEF AllocTypeOK
<1>11. [hash |-> h, ts |-> last_accessed[b]] # NoEntry
  BY NoEntryAssumption DEF AllocTypeOK, Entry
<1>7. BlocksPartitioned'
  BY <1>1, <1>2, <1>10, <1>11 DEF BlocksPartitioned, InEvictor, Untrack, AllocTypeOK
<1>8. CachedMapExact'
  <2>1. CachedIsBacked'
    <3> SUFFICES ASSUME NEW g \in Hash, cached[g] # NoBlock
                 PROVE  \/ cached[g] \in InEvictor' /\ free_table'[cached[g]].hash = g
                        \/ \E p \in Obj : block_id'[p] = cached[g] /\ content'[p] = g
      BY <1>1 DEF CachedIsBacked
    <3>1. CASE cached[g] = b /\ refcount[b] = 1
      BY <1>2, <1>3, <1>11, <3>1 DEF InEvictor, AllocTypeOK
    <3>2. CASE cached[g] = b /\ refcount[b] # 1
      BY <1>1, <1>3, <1>4, <3>2 DEF AllocTypeOK
    <3>3. CASE cached[g] # b /\ cached[g] \in InEvictor /\ free_table[cached[g]].hash = g
      BY <1>2, <3>3 DEF InEvictor, AllocTypeOK
    <3>4. ASSUME cached[g] # b, NEW p \in Obj, block_id[p] = cached[g], content[p] = g
          PROVE  block_id'[p] = cached[g] /\ content'[p] = g
      BY <1>1, <3>4 DEF AllocTypeOK
    <3>. QED
      BY <3>1, <3>2, <3>3, <3>4 DEF CachedMapExact, CachedIsBacked
  <2>2. EvictorIsCached'
    <3> SUFFICES ASSUME NEW x \in Block, free_table'[x] # NoEntry
                 PROVE  cached[free_table'[x].hash] = x
      BY <1>1 DEF EvictorIsCached, InEvictor
    <3>1. CASE free_table'[x] = free_table[x]
      BY <3>1 DEF CachedMapExact, EvictorIsCached, InEvictor
    <3>2. CASE x = b /\ free_table'[x] = [hash |-> h, ts |-> last_accessed[b]]
      BY <1>1, <3>2
    <3>. QED
      BY <1>2, <3>1, <3>2 DEF AllocTypeOK
  <2>3. FullIsCached'
    BY <1>1 DEF CachedMapExact, FullIsCached, Allocated, AllocTypeOK
  <2>. QED
    BY <2>1, <2>2, <2>3 DEF CachedMapExact
<1>9. SharedBlocksAgree'
  BY <1>1 DEF SharedBlocksAgree, Allocated, AllocTypeOK
<1>. QED
  BY <1>5, <1>6, <1>7, <1>8, <1>9

LEMMA FreeHashlessInv ==
  ASSUME AllocInv, NEW o \in Obj, FreeHashless(o)
  PROVE  AllocInv'
<1> USE DEF AllocInv
<1>0. PICK b \in Block : b = block_id[o]
  BY DEF FreeHashless, Allocated, AllocTypeOK
<1>1. /\ b = block_id[o] /\ content[o] = NoHash
      /\ UNCHANGED <<free_table, older, cached, touched>>
      /\ refcount' = [refcount EXCEPT ![b] = @ - 1]
      /\ block_id' = [block_id EXCEPT ![o] = NoBlock]
      /\ content' = [content EXCEPT ![o] = NoHash]
  BY <1>0 DEF FreeHashless, Holds
<1>2. \/ refcount[b] = 1 /\ free' = free \cup {b} /\ Untrack(b)
      \/ refcount[b] # 1 /\ UNCHANGED <<free, active, computed, last_accessed>>
  BY <1>0 DEF FreeHashless
<1>3. b \notin InEvictor /\ refcount[b] \in Nat \ {0}
  BY <1>1, HoldersOfRefcount DEF BlocksPartitioned, AllocTypeOK
<1>5. RefcountIsHolders' /\ refcount' \in [Block -> Nat]
  BY <1>1, CountRelease, NoBlockAssumption
<1>6. AllocTypeOK'
  <2>1. /\ active' \in [Block -> BOOLEAN] /\ computed' \in [Block -> BOOLEAN]
        /\ last_accessed' \in [Block -> Time]
    <3>1. CASE Untrack(b)
      BY <3>1 DEF AllocTypeOK, Untrack, DefaultLastAccessed, Time
    <3>2. CASE UNCHANGED <<active, computed, last_accessed>>
      BY <3>2 DEF AllocTypeOK
    <3>. QED
      BY <1>2, <3>1, <3>2
  <2>3. free' \subseteq Block
    BY <1>2 DEF AllocTypeOK
  <2>2. /\ block_id' \in [Obj -> Block \cup {NoBlock}]
        /\ content' \in [Obj -> Hash \cup {NoHash}]
    BY <1>1 DEF AllocTypeOK
  <2>. QED
    BY <2>1, <2>2, <2>3, <1>1, <1>5 DEF AllocTypeOK
<1>7. BlocksPartitioned'
  BY <1>1, <1>2, <1>3 DEF BlocksPartitioned, InEvictor, Untrack, AllocTypeOK
<1>8. CachedMapExact'
  <2>1. CachedIsBacked'
    BY <1>1, NoHashAssumption DEF CachedMapExact, CachedIsBacked, InEvictor, AllocTypeOK
  <2>2. EvictorIsCached'
    BY <1>1 DEF CachedMapExact, EvictorIsCached, InEvictor
  <2>3. FullIsCached'
    BY <1>1 DEF CachedMapExact, FullIsCached, Allocated, AllocTypeOK
  <2>. QED
    BY <2>1, <2>2, <2>3 DEF CachedMapExact
<1>9. SharedBlocksAgree'
  BY <1>1 DEF SharedBlocksAgree, Allocated, AllocTypeOK
<1>. QED
  BY <1>5, <1>6, <1>7, <1>8, <1>9

LEMMA ForkBlockInv ==
  ASSUME AllocInv, NEW o \in Obj, NEW p \in Obj, ForkBlock(o, p)
  PROVE  AllocInv'
<1> USE DEF AllocInv
<1>0. PICK b \in Block : b = block_id[o]
  BY DEF ForkBlock, Allocated, AllocTypeOK
<1>1. /\ b = block_id[o] /\ block_id[p] = NoBlock
      /\ UNCHANGED <<free_table, older, free, cached, touched, active, computed, last_accessed>>
      /\ refcount' = [refcount EXCEPT ![b] = @ + 1]
      /\ block_id' = [block_id EXCEPT ![p] = b]
      /\ content' = [content EXCEPT ![p] = content[o]]
  BY <1>0 DEF ForkBlock, Holds, Allocated
<1>2. refcount[b] \in Nat \ {0}
  BY <1>1, HoldersOfRefcount DEF AllocTypeOK
<1>3. \A q \in Obj : block_id[q] = b => content[q] = content[o]
  BY <1>1, NoBlockAssumption DEF SharedBlocksAgree, Allocated
<1>5. RefcountIsHolders' /\ refcount' \in [Block -> Nat]
  BY <1>1, CountAcquire
<1>6. AllocTypeOK'
  <2>1. /\ block_id' \in [Obj -> Block \cup {NoBlock}]
        /\ content' \in [Obj -> Hash \cup {NoHash}]
    BY <1>1 DEF AllocTypeOK
  <2>. QED
    BY <2>1, <1>1, <1>5 DEF AllocTypeOK
<1>7. BlocksPartitioned'
  BY <1>1, <1>2 DEF BlocksPartitioned, InEvictor, AllocTypeOK
<1>8. CachedMapExact'
  <2>1. CachedIsBacked'
    BY <1>1, NoBlockAssumption DEF CachedMapExact, CachedIsBacked, InEvictor, AllocTypeOK
  <2>2. EvictorIsCached'
    BY <1>1 DEF CachedMapExact, EvictorIsCached, InEvictor
  <2>3. FullIsCached'
    BY <1>1, NoBlockAssumption DEF CachedMapExact, FullIsCached, Allocated, AllocTypeOK
  <2>. QED
    BY <2>1, <2>2, <2>3 DEF CachedMapExact
<1>9. SharedBlocksAgree'
  BY <1>1, <1>3 DEF SharedBlocksAgree, Allocated, AllocTypeOK
<1>. QED
  BY <1>5, <1>6, <1>7, <1>8, <1>9

(* mark_blocks_as_accessed changes nothing but stamps.                        *)
LEMMA AccessedTable ==
  ASSUME AllocTypeOK, NEW S \in SUBSET Block, NEW now \in Time, MarkAccessed(S, now)
  PROVE  /\ free_table' \in [Block -> Entry \cup {NoEntry}] /\ InEvictor' = InEvictor
         /\ \A b \in InEvictor : free_table'[b].hash = free_table[b].hash
<1>1. free_table' = Updated({b \in S : ~active[b]}, now)
  BY DEF MarkAccessed
<1>2. ASSUME NEW b \in Block, b \in InEvictor
      PROVE  free_table'[b] \in Entry /\ free_table'[b].hash = free_table[b].hash
  <2>1. free_table[b] \in Entry
    BY <1>2 DEF AllocTypeOK, InEvictor
  <2>2. \/ free_table'[b] = free_table[b]
        \/ free_table'[b] = [free_table[b] EXCEPT !.ts = now]
    BY <1>1 DEF Updated
  <2>. QED
    BY <2>1, <2>2 DEF Entry
<1>3. ASSUME NEW b \in Block, b \notin InEvictor PROVE free_table'[b] = NoEntry
  <2>1. free_table[b] = NoEntry
    BY <1>3 DEF InEvictor
  <2>2. ~(b \in S /\ ~active[b])
    BY <1>3 DEF MarkAccessed
  <2>. QED
    BY <1>1, <2>1, <2>2 DEF Updated
<1>4. \A b \in Block : free_table'[b] \in Entry \cup {NoEntry}
  BY <1>2, <1>3
<1>5. free_table' \in [Block -> Entry \cup {NoEntry}]
  BY <1>1, <1>4 DEF Updated
<1>6. InEvictor' = InEvictor
  BY <1>2, <1>3, NoEntryAssumption DEF InEvictor
<1>. QED
  BY <1>2, <1>5, <1>6 DEF InEvictor

(* Of blocks in use only the tracker is stamped.                             *)
LEMMA AccessedInUse ==
  ASSUME AllocTypeOK, NEW S \in SUBSET Block, NEW now, MarkAccessed(S, now), \A b \in S : active[b]
  PROVE  /\ UNCHANGED free_table
         /\ last_accessed' = [b \in Block |-> IF b \in S THEN now ELSE last_accessed[b]]
<1>1. \A b \in Block : free_table'[b] = free_table[b]
  BY DEF MarkAccessed, Updated
<1>2. free_table' = [b \in Block |-> free_table'[b]] /\ free_table = [b \in Block |-> free_table[b]]
  BY DEF MarkAccessed, Updated, AllocTypeOK
<1>. QED
  BY <1>1, <1>2 DEF MarkAccessed

LEMMA MarksInv ==
  ASSUME AllocInv,
         MarkComputed \/ \E S \in SUBSET Block, now \in Time : MarkAccessed(S, now)
  PROVE  AllocInv'
<1> USE DEF AllocInv
<1>1. UNCHANGED <<older, free, refcount, cached, active, block_id, content>>
  BY DEF MarkComputed, MarkAccessed
<1>2. /\ free_table' \in [Block -> Entry \cup {NoEntry}] /\ InEvictor' = InEvictor
      /\ \A b \in InEvictor : free_table'[b].hash = free_table[b].hash
  <2>1. CASE MarkComputed
    BY <2>1 DEF MarkComputed, InEvictor, AllocTypeOK
  <2>2. ASSUME NEW S \in SUBSET Block, NEW now \in Time, MarkAccessed(S, now)
        PROVE  /\ free_table' \in [Block -> Entry \cup {NoEntry}] /\ InEvictor' = InEvictor
               /\ \A b \in InEvictor : free_table'[b].hash = free_table[b].hash
    BY <2>2, AccessedTable
  <2>. QED
    BY <2>1, <2>2
<1>6. AllocTypeOK'
  <2>1. CASE MarkComputed
    <3>1. computed' \in [Block -> BOOLEAN] /\ touched' \subseteq Block
      BY <2>1 DEF MarkComputed
    <3>2. UNCHANGED last_accessed
      BY <2>1 DEF MarkComputed
    <3>. QED
      BY <1>1, <1>2, <3>1, <3>2 DEF AllocTypeOK
  <2>2. ASSUME NEW S \in SUBSET Block, NEW now \in Time, MarkAccessed(S, now)
        PROVE  AllocTypeOK'
    <3>1. last_accessed' \in [Block -> Time]
      BY <2>2 DEF MarkAccessed, AllocTypeOK, Time
    <3>2. UNCHANGED <<computed, touched>>
      BY <2>2 DEF MarkAccessed
    <3>. QED
      BY <1>1, <1>2, <3>1, <3>2 DEF AllocTypeOK
  <2>. QED
    BY <2>1, <2>2
<1>7. RefcountIsHolders' /\ SharedBlocksAgree'
  BY <1>1 DEF RefcountIsHolders, Holders, SharedBlocksAgree, Allocated
<1>8. BlocksPartitioned'
  BY <1>1, <1>2 DEF BlocksPartitioned
<1>9. CachedMapExact'
  BY <1>1, <1>2 DEF CachedMapExact, CachedIsBacked, EvictorIsCached, FullIsCached, Allocated
<1>. QED
  BY <1>6, <1>7, <1>8, <1>9

LEMMA AllocStutter == ASSUME AllocInv, UNCHANGED allocVars PROVE AllocInv'
BY DEF allocVars, AllocInv, AllocTypeOK, RefcountIsHolders, Holders, BlocksPartitioned,
   InEvictor, CachedMapExact, CachedIsBacked, EvictorIsCached, FullIsCached,
   SharedBlocksAgree, Allocated

LEMMA NextInv ==
  AllocInv /\ [AllocNext]_allocVars => AllocInv'
<1> SUFFICES ASSUME AllocInv, [AllocNext]_allocVars PROVE AllocInv'
  OBVIOUS
<1>1. CASE UNCHANGED allocVars
  BY <1>1, AllocStutter
<1>2. ASSUME NEW o \in Obj, AllocateMutable(o) PROVE AllocInv'
  BY <1>2, AllocateMutableInv
<1>3. ASSUME NEW o \in Obj, CopyOnWrite(o) PROVE AllocInv'
  BY <1>3, CopyOnWriteInv
<1>4. ASSUME NEW o \in Obj, FreeCached(o) PROVE AllocInv'
  BY <1>4, FreeCachedInv
<1>5. ASSUME NEW o \in Obj, FreeHashless(o) PROVE AllocInv'
  BY <1>5, FreeHashlessInv
<1>6. ASSUME NEW o \in Obj, NEW p \in Obj, ForkBlock(o, p) PROVE AllocInv'
  BY <1>6, ForkBlockInv
<1>7. ASSUME NEW o \in Obj, NEW h \in Hash, AllocateImmutableHit(o, h) PROVE AllocInv'
  BY <1>7, AllocateImmutableHitInv
<1>8. ASSUME NEW o \in Obj, NEW h \in Hash, AllocateImmutableMiss(o, h) PROVE AllocInv'
  BY <1>8, AllocateImmutableMissInv
<1>9. ASSUME NEW o \in Obj, NEW h \in Hash, PromoteFirst(o, h) PROVE AllocInv'
  BY <1>9, PromoteFirstInv
<1>10. ASSUME NEW o \in Obj, NEW h \in Hash, PromoteDuplicate(o, h) PROVE AllocInv'
  BY <1>10, PromoteDuplicateInv
<1>11. ASSUME NEW S \in SUBSET Block, NEW now \in Stamps, MarkAccessed(S, now) PROVE AllocInv'
  BY <1>11, StampsAssumption, MarksInv DEF Time
<1>. QED
  BY <1>1, <1>2, <1>3, <1>4, <1>5, <1>6, <1>7, <1>8, <1>9, <1>10, <1>11, MarksInv DEF AllocNext

(* The inductive invariant holds in every behaviour.                        *)
LEMMA Invariance == AllocSpec => []AllocInv
<1>1. AllocInit => AllocInv
  BY InitInv
<1>2. AllocInv /\ [AllocNext]_allocVars => AllocInv'
  BY NextInv
<1>. QED
  BY <1>1, <1>2, PTL DEF AllocSpec

-------------------------------------------------------------------------------
(* Type correctness; in particular no reference count ever goes negative      *)
(* (RefCounter.decr asserts that it counts something).                      *)
THEOREM TypeCorrect == AllocSpec => []AllocTypeOK
<1>1. AllocInv => AllocTypeOK
  BY DEF AllocInv
<1>. QED
  BY <1>1, Invariance, PTL

(* The shared reference counter counts the holders of every block.          *)
THEOREM RefcountsAreExact == AllocSpec => []RefcountIsHolders
<1>1. AllocInv => RefcountIsHolders
  BY DEF AllocInv
<1>. QED
  BY <1>1, Invariance, PTL

(* No block is lost or has two owners among free list, evictor and objects.  *)
THEOREM BlocksAreNeverLost == AllocSpec => []BlocksPartitioned
<1>1. AllocInv => BlocksPartitioned
  BY DEF AllocInv
<1>. QED
  BY <1>1, Invariance, PTL

(* The content hash map and the blocks describe each other.                 *)
THEOREM MapIsExact == AllocSpec => []CachedMapExact
<1>1. AllocInv => CachedMapExact
  BY DEF AllocInv
<1>. QED
  BY <1>1, Invariance, PTL

(* Objects that share a block have the same content.                        *)
THEOREM SharersAgree == AllocSpec => []SharedBlocksAgree
<1>1. AllocInv => SharedBlocksAgree
  BY DEF AllocInv
<1>. QED
  BY <1>1, Invariance, PTL

(* The step behind CachedInUseStays: only a block nobody holds is forgotten,  *)
(* and only a hash without a block gets one.                                *)
LEMMA InUseStays ==
  ASSUME AllocInv, [AllocNext]_allocVars,
         NEW h \in Hash, cached[h] # NoBlock, Holders(cached[h]) # {}
  PROVE  cached'[h] = cached[h]
<1>1. ASSUME NEW b \in Block, AllocateBlockId(b)
      PROVE  CachedWithout(b)[h] = cached[h]
  BY <1>1, PickBlock DEF Holders
<1>2. CASE UNCHANGED cached
  BY <1>2
<1>3. ASSUME NEW o \in Obj, AllocateMutable(o) PROVE cached'[h] = cached[h]
  BY <1>1, <1>3 DEF AllocateMutable
<1>4. ASSUME NEW o \in Obj, CopyOnWrite(o) PROVE cached'[h] = cached[h]
  BY <1>1, <1>4 DEF CopyOnWrite
<1>5. ASSUME NEW o \in Obj, NEW g \in Hash, AllocateImmutableMiss(o, g)
      PROVE  cached'[h] = cached[h]
  <2>1. PICK b \in Block :
          AllocateBlockId(b) /\ cached' = [CachedWithout(b) EXCEPT ![g] = b]
    BY <1>5 DEF AllocateImmutableMiss
  <2>2. g # h
    BY <1>5 DEF AllocateImmutableMiss
  <2>3. CachedWithout(b) \in [Hash -> Block \cup {NoBlock}]
    BY <2>1, PickBlock DEF AllocInv, AllocTypeOK
  <2>. QED
    BY <1>1, <2>1, <2>2, <2>3
<1>6. ASSUME NEW o \in Obj, NEW g \in Hash, PromoteFirst(o, g)
      PROVE  cached'[h] = cached[h]
  BY <1>6 DEF PromoteFirst, AllocInv, AllocTypeOK
<1>7. ASSUME NEW o \in Obj,
             \/ FreeCached(o) \/ FreeHashless(o)
             \/ \E p \in Obj : ForkBlock(o, p)
             \/ \E g \in Hash : AllocateImmutableHit(o, g) \/ PromoteDuplicate(o, g)
      PROVE  UNCHANGED cached
  BY <1>7 DEF FreeCached, FreeHashless, ForkBlock, AllocateImmutableHit, PromoteDuplicate
<1>8. ASSUME MarkComputed \/ \E S \in SUBSET Block, now \in Stamps : MarkAccessed(S, now)
      PROVE  UNCHANGED cached
  BY <1>8 DEF MarkComputed, MarkAccessed
<1>. QED
  BY <1>2, <1>3, <1>4, <1>5, <1>6, <1>7, <1>8 DEF AllocNext, allocVars

(* No step takes a cached block that is in use away from its hash.          *)
THEOREM InUseIsNeverForgotten == AllocSpec => CachedInUseStays
<1>1. AllocInv /\ [AllocNext]_allocVars =>
        [\A h \in Hash : cached[h] # NoBlock /\ Holders(cached[h]) # {} =>
           cached'[h] = cached[h]]_allocVars
  BY InUseStays
<1>. QED
  BY <1>1, Invariance, PTL DEF AllocSpec, CachedInUseStays

-------------------------------------------------------------------------------
(* The evictor.  A relation is a strict total order of a set.                *)
StrictTotal(R, S) ==
  /\ \A x, y \in S : x # y => <<x, y>> \in R \/ <<y, x>> \in R
  /\ \A x, y, z \in S : <<x, y>> \in R /\ <<y, z>> \in R => <<x, z>> \in R

First(m, R, S) == m \in S /\ \A d \in S : d = m \/ <<m, d>> \in R

(* Induction over the natural numbers, for a set instead of a predicate: the  *)
(* least number outside the set would be 0 or a successor.                  *)
LEMMA NaturalInduction ==
  ASSUME NEW S, 0 \in S, \A n \in Nat : n \in S => n + 1 \in S
  PROVE  \A n \in Nat : n \in S
<1> DEFINE T == {n \in Nat : n \notin S}
<1>1. SUFFICES ASSUME T # {} PROVE FALSE
  OBVIOUS
<1>2. PICK x \in T : \A y \in T : <<y, x>> \notin OpToRel(<, Nat)
  BY <1>1, WFMin, NatLessThanWellFounded
<1>3. x \in Nat /\ x \notin S
  OBVIOUS
<1>4. x # 0 /\ x - 1 \in Nat /\ x - 1 < x
  BY <1>3
<1>5. <<x - 1, x>> \in OpToRel(<, Nat)
  BY <1>3, <1>4 DEF OpToRel
<1>6. x - 1 \notin T
  <2> HIDE DEF T
  <2> QED
    BY <1>2, <1>5
<1>7. x - 1 \in S
  BY <1>4, <1>6
<1> QED
  BY <1>3, <1>4, <1>7

(* A finite set that is totally ordered has a first element unless it is     *)
(* empty: take one element away, and compare it with the first of the rest.  *)
LEMMA FirstExists ==
  ASSUME NEW S, IsFiniteSet(S), S # {}, NEW R, StrictTotal(R, S)
  PROVE  \E m : First(m, R, S)
<1> DEFINE P == {n \in Nat : \A T \in SUBSET S :
                   T # {} /\ Cardinality(T) = n => \E m : First(m, R, T)}
<1>1. 0 \in P
  <2>1. ASSUME NEW T \in SUBSET S, Cardinality(T) = 0 PROVE T = {}
    <3>1. IsFiniteSet(T)
      BY FS_Subset
    <3>. QED
      BY <2>1, <3>1, FS_EmptySet
  <2>. QED
    BY <2>1
<1>2. ASSUME NEW n \in Nat, n \in P PROVE n + 1 \in P
  <2>1. ASSUME NEW T \in SUBSET S, T # {}, Cardinality(T) = n + 1
        PROVE  \E m : First(m, R, T)
    <3>1. PICK x \in T : TRUE
      BY <2>1
    <3> DEFINE U == T \ {x}
    <3>2. IsFiniteSet(T)
      BY FS_Subset
    <3>3. Cardinality(U) = n /\ U \in SUBSET S
      <4>1. Cardinality(U) = Cardinality(T) - 1
        BY <3>1, <3>2, FS_RemoveElement
      <4>. QED
        BY <2>1, <4>1
    <3>4. CASE U = {}
      <4>1. T = {x}
        BY <3>4
      <4>. QED
        BY <4>1 DEF First
    <3>5. CASE U # {}
      <4>1. PICK m : First(m, R, U)
        BY <1>2, <3>3, <3>5
      <4>2. m \in T /\ m # x
        BY <4>1 DEF First
      <4>3. CASE <<m, x>> \in R
        BY <4>1, <4>2, <4>3 DEF First
      <4>4. CASE <<x, m>> \in R
        <5>1. ASSUME NEW d \in T, d # x PROVE <<x, d>> \in R
          <6>1. d = m \/ <<m, d>> \in R
            BY <4>1, <5>1 DEF First
          <6>. QED
            BY <4>2, <4>4, <5>1, <6>1 DEF StrictTotal
        <5>. QED
          BY <5>1 DEF First
      <4>. QED
        BY <4>2, <4>3, <4>4 DEF StrictTotal
    <3>. QED
      BY <3>4, <3>5
  <2>. QED
    BY <2>1
<1>3. \A n \in Nat : n \in P
  <2> HIDE DEF P
  <2>. QED
    BY <1>1, <1>2, NaturalInduction
<1>4. Cardinality(S) \in Nat
  BY FS_CardinalityType
<1>. QED
  BY <1>3, <1>4

===============================================================================
