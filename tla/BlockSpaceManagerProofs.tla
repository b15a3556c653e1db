------------------------ MODULE BlockSpaceManagerProofs ------------------------
(***************************************************************************)
(* Proofs about the operations of BlockSpaceManager, for any client that      *)
(* asks can_allocate before allocate: any blocks, sequences and token        *)
(* sequences, any block size of at least two tokens, any watermark.          *)
(***************************************************************************)
EXTENDS BlockSpaceManager, PrefixCachingBlockAllocatorProofs, SequenceTheorems

-------------------------------------------------------------------------------
(* Rounding up: Cdiv(a, BlockSize) is the number of blocks that a tokens need. *)
LEMMA CdivBlocks ==
  ASSUME NEW a \in Nat
  PROVE  /\ Cdiv(a, BlockSize) \in Nat
         /\ a <= Cdiv(a, BlockSize) * BlockSize
         /\ Cdiv(a, BlockSize) * BlockSize < a + BlockSize
<1>0. BlockSize \in Nat \ {0}
  BY BlockSizeAssumption
<1> DEFINE q == (-a) \div BlockSize
<1>1. q \in Int
  BY <1>0, SMT
<1>2. /\ q * BlockSize <= -a
      /\ -a < q * BlockSize + BlockSize
  BY <1>0, SMT
<1>3. q <= 0
  BY <1>0, SMT
<1>4. (-q) * BlockSize = -(q * BlockSize)
  BY <1>0, <1>1, SMT
<1>5. Cdiv(a, BlockSize) = -q
  BY DEF Cdiv
<1> DEFINE x == q * BlockSize
<1>6. x \in Int
  BY <1>0, <1>1, SMT
<1> HIDE DEF q, x
<1>7. -q \in Nat /\ a <= -x /\ -x < a + BlockSize
  BY <1>0, <1>1, <1>2, <1>3, <1>6, SMT DEF x
<1>. QED
  BY <1>4, <1>5, <1>7 DEF x

LEMMA BlockMultiples ==
  ASSUME NEW a \in Nat, NEW b \in Nat
  PROVE  /\ a * BlockSize \in Nat
         /\ a < b => a * BlockSize + BlockSize <= b * BlockSize
         /\ a <= b => a * BlockSize <= b * BlockSize
<1>0. BlockSize \in Nat \ {0}
  BY BlockSizeAssumption
<1>1. a * BlockSize \in Nat /\ b * BlockSize \in Nat
  BY <1>0, SMT
<1>2. ASSUME a < b PROVE a * BlockSize + BlockSize <= b * BlockSize
  <2>1. PICK d \in Nat : b = a + 1 + d
    BY <1>2, b - a - 1 \in Nat
  <2>2. b * BlockSize = a * BlockSize + BlockSize + d * BlockSize
    BY <1>0, <2>1, SMT
  <2>3. d * BlockSize \in Nat
    BY <1>0, SMT
  <2>. QED
    BY <1>0, <2>2, <2>3, <1>1
<1> DEFINE p == a * BlockSize
           q == b * BlockSize
<1> HIDE DEF p, q
<1>3. a <= b => p <= q
  BY <1>0, <1>1, <1>2, SMT DEF p, q
<1>. QED
  BY <1>1, <1>2, <1>3 DEF p, q

(* ... and the only such number.                                            *)
LEMMA CdivIs ==
  ASSUME NEW a \in Nat, NEW n \in Nat, a <= n * BlockSize, n * BlockSize < a + BlockSize
  PROVE  Cdiv(a, BlockSize) = n
<1>0. BlockSize \in Nat \ {0}
  BY BlockSizeAssumption
<1> DEFINE c == Cdiv(a, BlockSize)
           p == c * BlockSize
           q == n * BlockSize
<1> HIDE DEF c, p, q
<1>1. c \in Nat /\ a <= p /\ p < a + BlockSize /\ a <= q /\ q < a + BlockSize
  BY CdivBlocks DEF c, p, q
<1>2. (c < n => p + BlockSize <= q) /\ (n < c => q + BlockSize <= p) /\ p \in Nat /\ q \in Nat
  BY <1>1, BlockMultiples DEF p, q
<1>. QED
  BY <1>0, <1>1, <1>2, SMT DEF c

(* A multiple of the block size, and the number after one, which is none.     *)
LEMMA WholeBlocks ==
  ASSUME NEW a \in Nat, a % BlockSize = 0
  PROVE  \E c \in Nat : a = c * BlockSize
<1>0. BlockSize \in Nat \ {0}
  BY BlockSizeAssumption
<1>1. a = ((a \div BlockSize) * BlockSize) + (a % BlockSize)
  BY <1>0, SMT
<1>2. a \div BlockSize \in Int
  BY <1>0, SMT
<1>3. (a \div BlockSize) * BlockSize \in Int
  BY <1>0, <1>2, SMT
<1>4. a = (a \div BlockSize) * BlockSize
  BY <1>1, <1>3
<1>5. a \div BlockSize \in Nat
  <2>1. \A c \in Int : c < 0 => c * BlockSize < 0
    BY <1>0, SMT
  <2>. QED
    BY <1>2, <1>4, <2>1
<1>. QED
  BY <1>4, <1>5

LEMMA PartialBlock ==
  ASSUME NEW n \in Nat
  PROVE  (n * BlockSize + 1) % BlockSize # 0
<1>0. BlockSize \in Nat \ {0} /\ BlockSize > 1
  BY BlockSizeAssumption
<1> DEFINE p == n * BlockSize
<1>1. p \in Nat
  BY BlockMultiples
<1> SUFFICES ASSUME (p + 1) % BlockSize = 0 PROVE FALSE
  OBVIOUS
<1> HIDE DEF p
<1>2. PICK c \in Nat : p + 1 = c * BlockSize
  BY <1>1, WholeBlocks
<1> DEFINE q == c * BlockSize
<1>3. q \in Nat /\ (n < c => p + BlockSize <= q) /\ (c <= n => q <= p)
  BY BlockMultiples DEF p
<1> HIDE DEF q
<1>. QED
  BY <1>0, <1>1, <1>2, <1>3 DEF q

-------------------------------------------------------------------------------
(* What an allocator call does to the objects and to the blocks it may still  *)
(* hand out.                                                               *)
LEMMA FreeCounts ==
  ASSUME AllocInv
  PROVE  /\ IsFiniteSet(free) /\ IsFiniteSet(InEvictor)
         /\ Cardinality(free) \in Nat /\ Cardinality(InEvictor) \in Nat
         /\ NumFreeBlocks \in Nat
<1>1. free \subseteq Block /\ InEvictor \subseteq Block
  BY DEF AllocInv, AllocTypeOK, InEvictor
<1>2. IsFiniteSet(free) /\ IsFiniteSet(InEvictor)
  BY <1>1, FiniteBlock, FS_Subset
<1>. QED
  BY <1>2, FS_CardinalityType DEF NumFreeBlocks

(* Without one block.                                                      *)
LEMMA CountWithout ==
  ASSUME NEW S, IsFiniteSet(S), NEW b
  PROVE  /\ Cardinality(S) \in Nat /\ Cardinality(S \ {b}) \in Nat
         /\ b \in S => Cardinality(S \ {b}) = Cardinality(S) - 1
         /\ b \notin S => Cardinality(S \ {b}) = Cardinality(S)
<1>1. IsFiniteSet(S \ {b}) /\ Cardinality(S) \in Nat
  BY FS_Subset, FS_CardinalityType
<1>2. Cardinality(S \ {b}) \in Nat
  BY <1>1, FS_CardinalityType
<1>3. b \in S => Cardinality(S \ {b}) = Cardinality(S) - 1
  BY FS_RemoveElement
<1>4. b \notin S => S \ {b} = S
  OBVIOUS
<1>. QED
  BY <1>1, <1>2, <1>3, <1>4

(* The new object holds a block, no other changes.                          *)
Acquired(o) ==
  /\ block_id[o] = NoBlock
  /\ block_id'[o] \in Block
  /\ \A p \in Obj : p # o => block_id'[p] = block_id[p]

LEMMA AcquireByPick ==
  ASSUME AllocInv, AllocInv', NEW b \in Block, AllocateBlockId(b)
  PROVE  NumFreeBlocks' \in Nat /\ NumFreeBlocks' >= NumFreeBlocks - 1
<1>1. /\ free' = free \ {b}
      /\ free_table' = [free_table EXCEPT ![b] = NoEntry]
  BY PickBlock
<1>2. ~(b \in free /\ b \in InEvictor)
  BY DEF AllocInv, BlocksPartitioned
<1>3. InEvictor' = InEvictor \ {b}
  BY <1>1 DEF InEvictor, AllocInv, AllocTypeOK
<1>4. /\ Cardinality(free) \in Nat /\ Cardinality(free \ {b}) \in Nat
      /\ b \in free => Cardinality(free \ {b}) = Cardinality(free) - 1
      /\ b \notin free => Cardinality(free \ {b}) = Cardinality(free)
  BY FreeCounts, CountWithout
<1>5. /\ Cardinality(InEvictor) \in Nat /\ Cardinality(InEvictor \ {b}) \in Nat
      /\ b \in InEvictor => Cardinality(InEvictor \ {b}) = Cardinality(InEvictor) - 1
      /\ b \notin InEvictor => Cardinality(InEvictor \ {b}) = Cardinality(InEvictor)
  BY FreeCounts, CountWithout
<1>6. NumFreeBlocks' = Cardinality(free \ {b}) + Cardinality(InEvictor \ {b})
  BY <1>1, <1>3 DEF NumFreeBlocks
<1>. QED
  BY <1>2, <1>4, <1>5, <1>6 DEF NumFreeBlocks

LEMMA MutableAcquires ==
  ASSUME AllocInv, NEW o \in Obj, AllocateMutable(o)
  PROVE  AllocInv' /\ Acquired(o) /\ NumFreeBlocks' \in Nat /\ NumFreeBlocks' >= NumFreeBlocks - 1
<1>1. AllocInv'
  BY AllocateMutableInv
<1>2. PICK b \in Block : AllocateBlockId(b) /\ Holds(o, b, NoHash)
  BY DEF AllocateMutable
<1>3. Acquired(o)
  BY <1>2 DEF AllocateMutable, Allocated, Acquired, Holds, AllocInv, AllocTypeOK
<1>. QED
  BY <1>1, <1>2, <1>3, AcquireByPick

LEMMA ImmutableAcquires ==
  ASSUME AllocInv, NEW o \in Obj, NEW h \in Hash,
         AllocateImmutableHit(o, h) \/ AllocateImmutableMiss(o, h)
  PROVE  AllocInv' /\ Acquired(o) /\ NumFreeBlocks' \in Nat /\ NumFreeBlocks' >= NumFreeBlocks - 1
<1>1. AllocInv'
  BY AllocateImmutableHitInv, AllocateImmutableMissInv
<1>2. CASE AllocateImmutableMiss(o, h)
  <2>1. PICK b \in Block : AllocateBlockId(b) /\ Holds(o, b, h)
    BY <1>2 DEF AllocateImmutableMiss
  <2>2. Acquired(o)
    BY <1>2, <2>1 DEF AllocateImmutableMiss, Allocated, Acquired, Holds, AllocInv, AllocTypeOK
  <2>. QED
    BY <1>1, <2>1, <2>2, AcquireByPick
<1>3. CASE AllocateImmutableHit(o, h)
  <2>0. PICK b : b = cached[h]
    OBVIOUS
  <2>1. b \in Block /\ Holds(o, b, h) /\ free' = free /\ block_id[o] = NoBlock
    BY <1>3, <2>0 DEF AllocateImmutableHit, AllocInv, AllocTypeOK, Allocated
  <2>2. Acquired(o)
    BY <2>1 DEF Acquired, Holds, AllocInv, AllocTypeOK
  <2>3. InEvictor' = InEvictor \/ InEvictor' = InEvictor \ {b}
    BY <1>3, <2>0, <2>1 DEF AllocateImmutableHit, IncrRefcountCached, Revives, Removed, InEvictor,
       AllocInv, AllocTypeOK
  <2>4. /\ Cardinality(InEvictor) \in Nat /\ Cardinality(InEvictor \ {b}) \in Nat
        /\ b \in InEvictor => Cardinality(InEvictor \ {b}) = Cardinality(InEvictor) - 1
        /\ b \notin InEvictor => Cardinality(InEvictor \ {b}) = Cardinality(InEvictor)
        /\ Cardinality(free) \in Nat
    BY FreeCounts, CountWithout
  <2>5. \/ NumFreeBlocks' = Cardinality(free) + Cardinality(InEvictor)
        \/ NumFreeBlocks' = Cardinality(free) + Cardinality(InEvictor \ {b})
    BY <2>1, <2>3 DEF NumFreeBlocks
  <2>. QED
    BY <1>1, <2>2, <2>4, <2>5 DEF NumFreeBlocks
<1>. QED
  BY <1>2, <1>3

(* A promoted object holds a block before and after.                        *)
LEMMA PromotionKeeps ==
  ASSUME AllocInv, NEW o \in Obj, NEW h \in Hash, PromoteFirst(o, h) \/ PromoteDuplicate(o, h)
  PROVE  /\ AllocInv'
         /\ \A p \in Obj : (block_id'[p] = NoBlock) <=> (block_id[p] = NoBlock)
<1>1. AllocInv'
  BY PromoteFirstInv, PromoteDuplicateInv
<1>2. CASE PromoteFirst(o, h)
  BY <1>1, <1>2 DEF PromoteFirst, Holds, AllocInv, AllocTypeOK
<1>3. CASE PromoteDuplicate(o, h)
  <2>1. block_id[o] # NoBlock /\ cached[h] # NoBlock
        /\ block_id' = [block_id EXCEPT ![o] = cached[h]]
    BY <1>3 DEF PromoteDuplicate, CanPromote, Allocated, Holds
  <2>. QED
    BY <1>1, <2>1 DEF AllocInv, AllocTypeOK
<1>. QED
  BY <1>2, <1>3

LEMMA FreeReleases ==
  ASSUME AllocInv, NEW o \in Obj, FreeCached(o) \/ FreeHashless(o)
  PROVE  /\ AllocInv'
         /\ block_id'[o] = NoBlock
         /\ \A p \in Obj : p # o => block_id'[p] = block_id[p]
<1>1. AllocInv'
  BY FreeCachedInv, FreeHashlessInv
<1>2. block_id' = [block_id EXCEPT ![o] = NoBlock]
  BY DEF FreeCached, FreeHashless, Holds
<1>. QED
  BY <1>1, <1>2 DEF AllocInv, AllocTypeOK

-------------------------------------------------------------------------------
(* The invariant of the manager.                                            *)
ManagerTypeOK ==
  /\ tokens \in [SeqId -> Text]
  /\ tables \subseteq SeqId
  /\ full_slots \in [SeqId -> Nat]
  /\ last_access \in [SeqId -> Int]
  /\ call \in Calls

Busy(s) == Allocating(s) \/ Freeing(s)

(* A sequence has the blocks its table fills, those that its call has reached,  *)
(* or none; allocate never runs out of blocks.                              *)
TableOK(s) ==
  s \in tables => /\ full_slots[s] > 0 /\ full_slots[s] <= Len(tokens[s])
                  /\ BlocksOf(s) = 1..Cdiv(full_slots[s], BlockSize)
NoTableOK(s) == s \notin tables /\ ~Busy(s) => BlocksOf(s) = {}
AllocatingOK(s) ==
  Allocating(s) => /\ Len(tokens[s]) > 0
                   /\ \E n \in Nat : /\ BlocksOf(s) = 1..n
                                     /\ n <= NumRequired(s)
                                     /\ NumRequired(s) <= n + NumFreeBlocks

SeqOK(s) == /\ Busy(s) => s \notin tables
            /\ TableOK(s) /\ NoTableOK(s) /\ AllocatingOK(s)

ManagerInv == AllocInv /\ ManagerTypeOK /\ \A s \in SeqId : SeqOK(s)

LEMMA TextFacts ==
  ASSUME NEW t \in Text
  PROVE  /\ t \in Seq(Nat) /\ Len(t) \in Nat
         /\ Len(t) <= MaxBlocks * BlockSize
         /\ Cdiv(Len(t), BlockSize) \in Nat /\ Cdiv(Len(t), BlockSize) <= MaxBlocks
<1>0. BlockSize \in Nat \ {0} /\ MaxBlocks \in Nat
  BY BlockSizeAssumption, MaxBlocksAssumption
<1>1. t \in Seq(Nat) /\ Len(t) \in Nat /\ Len(t) <= MaxBlocks * BlockSize
  BY TextAssumption
<1> DEFINE c == Cdiv(Len(t), BlockSize)
           p == c * BlockSize
           q == MaxBlocks * BlockSize
<1> HIDE DEF c, p, q
<1>2. c \in Nat /\ p < Len(t) + BlockSize
  BY <1>1, CdivBlocks DEF c, p
<1>3. (MaxBlocks < c => q + BlockSize <= p) /\ p \in Nat /\ q \in Nat
  BY <1>0, <1>2, BlockMultiples DEF p, q
<1>4. c <= MaxBlocks
  BY <1>0, <1>1, <1>2, <1>3, SMT DEF q
<1>. QED
  BY <1>1, <1>2, <1>4 DEF c

(* The hash of a whole block of a text.                                     *)
LEMMA HashOfPrefix ==
  ASSUME NEW s \in SeqId, tokens \in [SeqId -> Text], NEW k \in Nat \ {0},
         k * BlockSize <= Len(tokens[s])
  PROVE  HashAt(s, k) \in Hash /\ k <= MaxBlocks
<1>0. BlockSize \in Nat \ {0} /\ MaxBlocks \in Nat
  BY BlockSizeAssumption, MaxBlocksAssumption
<1> DEFINE t == tokens[s]
           n == k * BlockSize
<1>1. t \in Text /\ t \in Seq(Nat) /\ Len(t) \in Nat /\ Len(t) <= MaxBlocks * BlockSize
  BY TextFacts
<1>2. n \in Nat /\ n >= BlockSize
  <2>1. (0 < k => 0 * BlockSize + BlockSize <= k * BlockSize) /\ k * BlockSize \in Nat
    BY BlockMultiples
  <2>. QED
    BY <1>0, <2>1
<1>3. n \in 0..Len(t)
  BY <1>1, <1>2
<1>4. SubSeq(t, 1, n) \in Text
  BY <1>1, <1>3, TextAssumption DEF IsPrefixClosed
<1>5. Len(SubSeq(t, 1, n)) = n
  BY <1>1, <1>3
<1>6. n % BlockSize = 0
  BY <1>0, SMT
<1>7. SubSeq(t, 1, n) # <<>>
  BY <1>0, <1>2, <1>5
<1>8. k <= MaxBlocks
  <2>1. (MaxBlocks < k => MaxBlocks * BlockSize + BlockSize <= k * BlockSize)
        /\ MaxBlocks * BlockSize \in Nat
    BY <1>0, BlockMultiples
  <2> HIDE DEF n
  <2> DEFINE q == MaxBlocks * BlockSize
  <2>2. (MaxBlocks < k => q + BlockSize <= n) /\ q \in Nat /\ n <= Len(t) /\ Len(t) <= q
    BY <1>1, <1>3, <2>1 DEF n
  <2> HIDE DEF q
  <2>. QED
    BY <1>0, <1>1, <1>2, <2>2
<1>9. SubSeq(t, 1, n) \in Hash
  BY <1>4, <1>5, <1>6, <1>7, HashAssumption
<1>. QED
  BY <1>8, <1>9 DEF HashAt

(* The blocks of a table that is an initial segment are counted by its end.  *)
LEMMA CountBlocks ==
  ASSUME NEW s, NEW n \in Nat, BlocksOf(s) = 1..n
  PROVE  NumBlocks(s) = n
BY FS_Interval DEF NumBlocks

LEMMA ObjectOf ==
  ASSUME NEW s \in SeqId, NEW k \in 1..MaxBlocks
  PROVE  <<s, k>> \in Obj
BY ObjAssumption

LEMMA AcquiredBlocks ==
  ASSUME NEW s \in SeqId, NEW k \in 1..MaxBlocks, Acquired(<<s, k>>)
  PROVE  /\ k \notin BlocksOf(s)
         /\ BlocksOf(s)' = BlocksOf(s) \cup {k}
         /\ \A r \in SeqId : r # s => BlocksOf(r)' = BlocksOf(r)
BY ObjAssumption, NoBlockAssumption DEF Acquired, BlocksOf, Allocated

LEMMA SameBlocks ==
  ASSUME \A p \in Obj : (block_id'[p] = NoBlock) <=> (block_id[p] = NoBlock), NEW s \in SeqId
  PROVE  BlocksOf(s)' = BlocksOf(s)
BY ObjAssumption DEF BlocksOf, Allocated

LEMMA ReleasedBlocks ==
  ASSUME NEW s \in SeqId, NEW k \in 1..MaxBlocks, block_id'[<<s, k>>] = NoBlock,
         \A p \in Obj : p # <<s, k>> => block_id'[p] = block_id[p]
  PROVE  /\ BlocksOf(s)' = BlocksOf(s) \ {k}
         /\ \A r \in SeqId : r # s => BlocksOf(r)' = BlocksOf(r)
BY ObjAssumption DEF BlocksOf, Allocated

(* One operation at a time, in this state and in the next.                  *)
Calling(o, s) == [op |-> o, seq |-> s]

LEMMA CallsDiffer ==
  ASSUME NEW c
  PROVE  /\ c = Idle => \A s : c # Calling("allocate", s) /\ c # Calling("free", s)
         /\ \A s, r : c = Calling("allocate", s) =>
              c # Calling("free", r) /\ (c = Calling("allocate", r) => r = s)
         /\ \A s, r : c = Calling("free", s) =>
              c # Calling("allocate", r) /\ (c = Calling("free", r) => r = s)
<1>1. Idle.op = "idle"
  BY DEF Idle
<1>2. \A o, s : Calling(o, s).op = o /\ Calling(o, s).seq = s
  BY DEF Calling
<1>3. \A o, s, p, r : Calling(o, s) = Calling(p, r) => o = p /\ s = r
  BY <1>2
<1>4. \A o, s : Calling(o, s) = Idle => o = "idle"
  BY <1>1, <1>2
<1>. QED
  BY <1>3, <1>4

LEMMA OneCall ==
  /\ call = Idle => \A s : ~Allocating(s) /\ ~Freeing(s)
  /\ \A s, r : Allocating(s) => ~Freeing(r) /\ (Allocating(r) => r = s)
  /\ \A s, r : Freeing(s) => ~Allocating(r) /\ (Freeing(r) => r = s)
BY CallsDiffer DEF Allocating, Freeing, Calling

LEMMA OneCallNext ==
  /\ call' = Idle => \A s : ~Allocating(s)' /\ ~Freeing(s)'
  /\ \A s, r : Allocating(s)' => ~Freeing(r)' /\ (Allocating(r)' => r = s)
  /\ \A s, r : Freeing(s)' => ~Allocating(r)' /\ (Freeing(r)' => r = s)
BY CallsDiffer DEF Allocating, Freeing, Calling

(* A step that leaves the blocks alone.                                     *)
LEMMA ManagerIdle ==
  ASSUME ManagerInv, UNCHANGED <<allocVars, tables, full_slots, call>>, call = Idle,
         tokens' \in [SeqId -> Text], last_access' \in [SeqId -> Int],
         \A s \in tables : Len(tokens[s]) <= Len(tokens'[s])
  PROVE  ManagerInv'
<1>1. AllocInv'
  BY AllocStutter DEF ManagerInv
<1>2. ManagerTypeOK'
  BY DEF ManagerInv, ManagerTypeOK
<1>3. ASSUME NEW s \in SeqId PROVE SeqOK(s)'
  <2>1. ~Busy(s) /\ ~Busy(s)' /\ ~Allocating(s)'
    BY OneCall DEF Busy, Allocating, Freeing
  <2>2. BlocksOf(s)' = BlocksOf(s)
    BY DEF allocVars, BlocksOf, Allocated
  <2>3. s \in tables' <=> s \in tables
    OBVIOUS
  <2>4. TableOK(s)'
    <3>1. SUFFICES ASSUME s \in tables PROVE TableOK(s)'
      BY <2>3 DEF TableOK
    <3>2. full_slots[s] > 0 /\ full_slots[s] <= Len(tokens[s])
          /\ BlocksOf(s) = 1..Cdiv(full_slots[s], BlockSize) /\ full_slots[s] \in Nat
      BY <3>1 DEF ManagerInv, SeqOK, TableOK, ManagerTypeOK
    <3>3. Len(tokens[s]) \in Nat /\ Len(tokens'[s]) \in Nat
      BY TextFacts DEF ManagerInv, ManagerTypeOK
    <3>4. full_slots' = full_slots /\ Len(tokens[s]) <= Len(tokens'[s])
      BY <3>1
    <3>. QED
      BY <3>2, <3>3, <3>4, <2>2 DEF TableOK
  <2>5. NoTableOK(s)'
    BY <2>1, <2>2, <2>3 DEF ManagerInv, SeqOK, NoTableOK
  <2>. QED
    BY <2>1, <2>4, <2>5 DEF SeqOK, AllocatingOK
<1>. QED
  BY <1>1, <1>2, <1>3 DEF ManagerInv

(* allocate, after can_allocate has said OK                                 *)
LEMMA AllocateBeginKeeps ==
  ASSUME ManagerInv, NEW s \in SeqId, AllocStatus(s) = "OK", AllocateBegin(s), UNCHANGED tokens
  PROVE  ManagerInv'
<1>1. /\ call = Idle /\ s \notin tables /\ Len(tokens[s]) > 0
      /\ call' = [op |-> "allocate", seq |-> s]
      /\ UNCHANGED <<allocVars, tables, full_slots, last_access>>
  BY DEF AllocateBegin, managerVars
<1>2. AllocInv'
  BY <1>1, AllocStutter DEF ManagerInv
<1>3. ManagerTypeOK'
  BY <1>1 DEF ManagerInv, ManagerTypeOK, Calls
<1>4. Allocating(s)'
  BY <1>1 DEF Allocating
<1>5. ASSUME NEW r \in SeqId PROVE SeqOK(r)'
  <2>1. ~Busy(r) /\ (Busy(r)' => r = s) /\ (Allocating(r)' => r = s) /\ (r = s => Busy(r)')
    BY <1>1, <1>4, OneCall, OneCallNext DEF Busy
  <2>2. BlocksOf(r)' = BlocksOf(r) /\ NumFreeBlocks' = NumFreeBlocks
    BY <1>1 DEF allocVars, BlocksOf, Allocated, NumFreeBlocks, InEvictor
  <2>3. SeqOK(r)
    BY DEF ManagerInv
  <2>4. TableOK(r)'
    BY <1>1, <2>2, <2>3 DEF SeqOK, TableOK
  <2>5. NoTableOK(r)'
    BY <1>1, <2>1, <2>2, <2>3 DEF SeqOK, NoTableOK
  <2>6. AllocatingOK(r)'
    <3>1. SUFFICES ASSUME r = s PROVE AllocatingOK(s)'
      BY <2>1 DEF AllocatingOK
    <3>2. BlocksOf(s)' = 1..0
      BY <1>1, <2>1, <2>2, <2>3, <3>1 DEF SeqOK, NoTableOK
    <3>3. NumFreeBlocks - NumRequired(s) >= WatermarkBlocks
      BY DEF AllocStatus
    <3>4. NumRequired(s) \in Nat /\ NumFreeBlocks \in Nat
      BY TextFacts, FreeCounts DEF ManagerInv, ManagerTypeOK, NumRequired
    <3>5. NumRequired(s) <= 0 + NumFreeBlocks /\ 0 <= NumRequired(s)
      BY <3>3, <3>4, WatermarkAssumption
    <3>6. NumRequired(s)' = NumRequired(s)
      BY DEF NumRequired
    <3>. QED
      BY <1>1, <2>2, <3>1, <3>2, <3>5, <3>6 DEF AllocatingOK
  <2>. QED
    BY <1>1, <2>1, <2>4, <2>5, <2>6 DEF SeqOK
<1>. QED
  BY <1>2, <1>3, <1>5 DEF ManagerInv

LEMMA AllocateNextBlockKeeps ==
  ASSUME ManagerInv, NEW s \in SeqId, AllocateNextBlock(s), UNCHANGED tokens
  PROVE  ManagerInv'
<1>1. /\ Allocating(s) /\ UNCHANGED <<tables, full_slots, last_access, call>>
  BY DEF AllocateNextBlock, managerVars
<1>2. AllocInv /\ ManagerTypeOK /\ SeqOK(s)
  BY DEF ManagerInv
<1>3. PICK n \in Nat : BlocksOf(s) = 1..n /\ n <= NumRequired(s)
                       /\ NumRequired(s) <= n + NumFreeBlocks
  BY <1>1, <1>2 DEF SeqOK, AllocatingOK
<1> DEFINE k == n + 1
<1>4. NumBlocks(s) = n
  BY <1>3, CountBlocks
<1>5. NumRequired(s) \in Nat /\ NumRequired(s) <= MaxBlocks /\ NumFreeBlocks \in Nat
      /\ Len(tokens[s]) \in Nat
  BY <1>2, TextFacts, FreeCounts DEF ManagerTypeOK, NumRequired
<1>6. /\ k <= NumRequired(s)
      /\ IF k * BlockSize <= Len(tokens[s])
           THEN \/ AllocateImmutableHit(<<s, k>>, HashAt(s, k))
                \/ AllocateImmutableMiss(<<s, k>>, HashAt(s, k))
           ELSE AllocateMutable(<<s, k>>)
  BY <1>4 DEF AllocateNextBlock
<1>7. k \in 1..MaxBlocks /\ <<s, k>> \in Obj
  BY <1>5, <1>6, MaxBlocksAssumption, ObjectOf
<1>8. AllocInv' /\ Acquired(<<s, k>>) /\ NumFreeBlocks' \in Nat /\ NumFreeBlocks' >= NumFreeBlocks - 1
  <2>1. CASE k * BlockSize <= Len(tokens[s])
    <3>1. HashAt(s, k) \in Hash
      BY <2>1, <1>2, HashOfPrefix DEF ManagerTypeOK
    <3>. QED
      BY <1>2, <1>6, <1>7, <2>1, <3>1, ImmutableAcquires
  <2>2. CASE ~(k * BlockSize <= Len(tokens[s]))
    BY <1>2, <1>6, <1>7, <2>2, MutableAcquires
  <2>. QED
    BY <2>1, <2>2
<1>10. ManagerTypeOK'
  BY <1>1, <1>2 DEF ManagerTypeOK
<1>11. ASSUME NEW r \in SeqId, r # s PROVE SeqOK(r)'
  <2>1. BlocksOf(r)' = BlocksOf(r)
    BY <1>7, <1>8, <1>11, AcquiredBlocks
  <2>2. ~Busy(r) /\ ~Busy(r)' /\ ~Allocating(r)'
    BY <1>1, <1>11, OneCall DEF Busy, Allocating, Freeing
  <2>3. SeqOK(r)
    BY DEF ManagerInv
  <2>. QED
    BY <1>1, <2>1, <2>2, <2>3 DEF SeqOK, TableOK, NoTableOK, AllocatingOK
<1>12. SeqOK(s)'
  <2>1. BlocksOf(s)' = 1..k
    <3>1. BlocksOf(s)' = BlocksOf(s) \cup {k}
      BY <1>7, <1>8, AcquiredBlocks
    <3>. QED
      BY <1>3, <3>1
  <2>2. Busy(s) /\ Busy(s)' /\ s \notin tables /\ s \notin tables'
    BY <1>1, <1>2 DEF Busy, Allocating, SeqOK
  <2>3. NumRequired(s)' = NumRequired(s) /\ Len(tokens[s])' = Len(tokens[s])
    BY DEF NumRequired
  <2>4. k \in Nat /\ k <= NumRequired(s) /\ NumRequired(s) <= k + NumFreeBlocks'
    BY <1>3, <1>5, <1>6, <1>8
  <2>5. Len(tokens[s]) > 0
    BY <1>1, <1>2 DEF SeqOK, AllocatingOK
  <2>6. AllocatingOK(s)'
    BY <2>1, <2>3, <2>4, <2>5 DEF AllocatingOK
  <2>. QED
    BY <2>2, <2>6 DEF SeqOK, TableOK, NoTableOK
<1>. QED
  BY <1>8, <1>10, <1>11, <1>12 DEF ManagerInv

LEMMA AllocateEndKeeps ==
  ASSUME ManagerInv, NEW s \in SeqId, AllocateEnd(s), UNCHANGED tokens
  PROVE  ManagerInv'
<1>1. /\ Allocating(s) /\ NumBlocks(s) = NumRequired(s)
      /\ tables' = tables \cup {s}
      /\ full_slots' = [full_slots EXCEPT ![s] = Len(tokens[s])]
      /\ last_access' = [last_access EXCEPT ![s] = NotAccessed]
      /\ call' = Idle /\ UNCHANGED allocVars
  BY DEF AllocateEnd
<1>2. AllocInv /\ ManagerTypeOK /\ SeqOK(s)
  BY DEF ManagerInv
<1>3. PICK n \in Nat : BlocksOf(s) = 1..n
  BY <1>1, <1>2 DEF SeqOK, AllocatingOK
<1>4. BlocksOf(s) = 1..Cdiv(Len(tokens[s]), BlockSize)
  BY <1>1, <1>3, CountBlocks DEF NumRequired
<1>5. Len(tokens[s]) \in Nat /\ Len(tokens[s]) > 0
  BY <1>1, <1>2, TextFacts DEF ManagerTypeOK, SeqOK, AllocatingOK
<1>6. AllocInv'
  BY <1>1, <1>2, AllocStutter
<1>7. ManagerTypeOK'
  BY <1>1, <1>2, <1>5 DEF ManagerTypeOK, Calls, NotAccessed
<1>8. ASSUME NEW r \in SeqId PROVE SeqOK(r)'
  <2>1. BlocksOf(r)' = BlocksOf(r)
    BY <1>1 DEF allocVars, BlocksOf, Allocated
  <2>2. ~Busy(r)' /\ ~Allocating(r)' /\ (Busy(r) => r = s)
    BY <1>1, OneCall, OneCallNext DEF Busy
  <2>3. SeqOK(r)
    BY DEF ManagerInv
  <2>4. CASE r = s
    <3>1. full_slots'[r] = Len(tokens[r])
      BY <1>1, <1>2, <2>4 DEF ManagerTypeOK
    <3>2. TableOK(r)'
      BY <1>4, <1>5, <2>1, <2>4, <3>1 DEF TableOK
    <3>. QED
      BY <1>1, <2>2, <2>4, <3>2 DEF SeqOK, NoTableOK, AllocatingOK
  <2>5. CASE r # s
    <3>1. full_slots'[r] = full_slots[r] /\ (r \in tables' <=> r \in tables)
      BY <1>1, <1>2, <2>5 DEF ManagerTypeOK
    <3>. QED
      BY <2>1, <2>2, <2>3, <2>5, <3>1 DEF SeqOK, TableOK, NoTableOK, AllocatingOK
  <2>. QED
    BY <2>4, <2>5
<1>. QED
  BY <1>6, <1>7, <1>8 DEF ManagerInv

LEMMA FreeBeginKeeps ==
  ASSUME ManagerInv, NEW s \in SeqId, FreeBegin(s), tokens' \in [SeqId -> Text],
         \A r \in SeqId : r # s => tokens'[r] = tokens[r]
  PROVE  ManagerInv'
<1>1. /\ call = Idle /\ s \in tables
      /\ tables' = tables \ {s}
      /\ full_slots' = [full_slots EXCEPT ![s] = 0]
      /\ last_access' = [last_access EXCEPT ![s] = NotAccessed]
      /\ call' = [op |-> "free", seq |-> s]
  BY DEF FreeBegin
<1>2. AllocInv /\ ManagerTypeOK
  BY DEF ManagerInv
<1>3. AllocInv' /\ UNCHANGED block_id
  <2>1. CASE UNCHANGED allocVars
    BY <1>2, <2>1, AllocStutter DEF allocVars
  <2>2. CASE MarkAccessed(BlockIds(s), last_access[s])
    <3>1. ASSUME NEW k \in BlocksOf(s) PROVE block_id[<<s, k>>] \in Block
      <4>1. k \in 1..MaxBlocks /\ block_id[<<s, k>>] # NoBlock
        BY DEF BlocksOf, Allocated
      <4>. QED
        BY <1>2, <4>1, ObjectOf DEF AllocInv, AllocTypeOK
    <3>0. BlockIds(s) \in SUBSET Block
      BY <3>1 DEF BlockIds
    <3>2. last_access[s] \in Time
      BY <1>2 DEF ManagerTypeOK, Time
    <3>3. AllocInv'
      BY <1>2, <2>2, <3>0, <3>2, MarksInv
    <3>. QED
      BY <2>2, <3>3 DEF MarkAccessed
  <2>. QED
    BY <2>1, <2>2 DEF FreeBegin
<1>4. ManagerTypeOK'
  BY <1>1, <1>2 DEF ManagerTypeOK, Calls, NotAccessed
<1>5. Freeing(s)'
  BY <1>1 DEF Freeing
<1>6. ASSUME NEW r \in SeqId PROVE SeqOK(r)'
  <2>1. BlocksOf(r)' = BlocksOf(r)
    BY <1>3 DEF BlocksOf, Allocated
  <2>2. ~Busy(r) /\ ~Allocating(r)' /\ (Busy(r)' <=> r = s)
    BY <1>1, <1>5, OneCall, OneCallNext DEF Busy
  <2>3. SeqOK(r)
    BY DEF ManagerInv
  <2>4. CASE r = s
    BY <1>1, <2>2, <2>4 DEF SeqOK, TableOK, NoTableOK, AllocatingOK
  <2>5. CASE r # s
    <3>1. full_slots'[r] = full_slots[r] /\ (r \in tables' <=> r \in tables)
          /\ tokens'[r] = tokens[r]
      BY <1>1, <1>2, <2>5 DEF ManagerTypeOK
    <3>. QED
      BY <2>1, <2>2, <2>3, <2>5, <3>1 DEF SeqOK, TableOK, NoTableOK, AllocatingOK
  <2>. QED
    BY <2>4, <2>5
<1>. QED
  BY <1>3, <1>4, <1>6 DEF ManagerInv

LEMMA FreeNextBlockKeeps ==
  ASSUME ManagerInv, NEW s \in SeqId, FreeNextBlock(s), UNCHANGED tokens
  PROVE  ManagerInv'
<1>1. Freeing(s) /\ UNCHANGED <<tables, full_slots, last_access, call>>
  BY DEF FreeNextBlock, managerVars
<1>2. AllocInv /\ ManagerTypeOK
  BY DEF ManagerInv
<1>3. PICK k \in BlocksOf(s) : FreeCached(<<s, k>>) \/ FreeHashless(<<s, k>>)
  BY DEF FreeNextBlock
<1>4. k \in 1..MaxBlocks /\ <<s, k>> \in Obj
  BY ObjectOf DEF BlocksOf
<1>5. /\ AllocInv' /\ block_id'[<<s, k>>] = NoBlock
      /\ \A p \in Obj : p # <<s, k>> => block_id'[p] = block_id[p]
  BY <1>2, <1>3, <1>4, FreeReleases
<1>6. ManagerTypeOK'
  BY <1>1, <1>2 DEF ManagerTypeOK
<1>7. ASSUME NEW r \in SeqId PROVE SeqOK(r)'
  <2>1. r # s => BlocksOf(r)' = BlocksOf(r)
    BY <1>4, <1>5, ReleasedBlocks
  <2>2. /\ Busy(r) <=> r = s
        /\ Busy(r)' <=> r = s
        /\ ~Allocating(r)'
    BY <1>1, OneCall DEF Busy, Allocating, Freeing
  <2>3. SeqOK(r)
    BY DEF ManagerInv
  <2>4. CASE r = s
    BY <1>1, <2>2, <2>3, <2>4 DEF SeqOK, TableOK, NoTableOK, AllocatingOK
  <2>5. CASE r # s
    BY <1>1, <2>1, <2>2, <2>3, <2>5 DEF SeqOK, TableOK, NoTableOK, AllocatingOK
  <2>. QED
    BY <2>4, <2>5
<1>. QED
  BY <1>5, <1>6, <1>7 DEF ManagerInv

LEMMA FreeEndKeeps ==
  ASSUME ManagerInv, NEW s \in SeqId, FreeEnd(s), UNCHANGED tokens
  PROVE  ManagerInv'
<1>1. /\ Freeing(s) /\ BlocksOf(s) = {} /\ call' = Idle
      /\ UNCHANGED <<allocVars, tables, full_slots, last_access>>
  BY DEF FreeEnd, managerVars
<1>2. AllocInv' /\ ManagerTypeOK'
  BY <1>1, AllocStutter DEF ManagerInv, ManagerTypeOK, Calls
<1>3. ASSUME NEW r \in SeqId PROVE SeqOK(r)'
  <2>1. BlocksOf(r)' = BlocksOf(r)
    BY <1>1 DEF allocVars, BlocksOf, Allocated
  <2>2. (Busy(r) => r = s) /\ ~Busy(r)' /\ ~Allocating(r)'
    BY <1>1, OneCall, OneCallNext DEF Busy
  <2>3. SeqOK(r)
    BY DEF ManagerInv
  <2>4. TableOK(r)'
    BY <1>1, <2>1, <2>3 DEF SeqOK, TableOK
  <2>5. NoTableOK(r)'
    BY <1>1, <2>1, <2>2, <2>3 DEF SeqOK, NoTableOK
  <2>. QED
    BY <2>2, <2>4, <2>5 DEF SeqOK, AllocatingOK
<1>. QED
  BY <1>2, <1>3 DEF ManagerInv

(* A call in progress is taken one step further.                            *)
LEMMA CallStepKeeps ==
  ASSUME ManagerInv, CallStep, UNCHANGED tokens
  PROVE  ManagerInv'
BY AllocateNextBlockKeeps, AllocateEndKeeps, FreeNextBlockKeeps, FreeEndKeeps DEF CallStep

(* append_slots: the unseen token goes into the last block of the table or    *)
(* into one more.                                                          *)
LEMMA AppendSlotsKeeps ==
  ASSUME ManagerInv, NEW s \in SeqId, AppendSlots(s), UNCHANGED tokens
  PROVE  ManagerInv'
<1>1. /\ call = Idle /\ s \in tables /\ Unseen(s) \in {0, 1}
      /\ full_slots' = [full_slots EXCEPT ![s] = Len(tokens[s])]
      /\ UNCHANGED <<tables, last_access, call>>
  BY DEF AppendSlots
<1>2. AllocInv /\ ManagerTypeOK /\ SeqOK(s)
  BY DEF ManagerInv
<1> DEFINE f == full_slots[s]
           len == Len(tokens[s])
           n == Cdiv(f, BlockSize)
           p == n * BlockSize
<1>0. BlockSize \in Nat \ {0} /\ BlockSize > 1 /\ MaxBlocks \in Nat
  BY BlockSizeAssumption, MaxBlocksAssumption
<1>3. /\ f \in Nat /\ f > 0 /\ len \in Nat /\ (len = f \/ len = f + 1)
      /\ BlocksOf(s) = 1..n /\ len <= MaxBlocks * BlockSize
  BY <1>1, <1>2, TextFacts DEF SeqOK, TableOK, ManagerTypeOK, Unseen
<1>4. n \in Nat /\ f <= p /\ p < f + BlockSize /\ p \in Nat
  BY <1>3, CdivBlocks, BlockMultiples
<1>5. NumBlocks(s) = n
  BY <1>3, <1>4, CountBlocks
<1>6. n > 0
  <2>1. n = 0 => p = 0
    BY <1>0
  <2>. QED
    BY <1>3, <1>4, <2>1
<1>7. n * BlockSize + BlockSize = (n + 1) * BlockSize
  BY <1>0, <1>4, SMT
<1>8. ManagerTypeOK'
  BY <1>1, <1>2, <1>3 DEF ManagerTypeOK
<1>9. ASSUME NEW m \in Nat, BlocksOf(s)' = 1..m, Cdiv(len, BlockSize) = m, AllocInv',
             \A r \in SeqId : r # s => BlocksOf(r)' = BlocksOf(r)
      PROVE  ManagerInv'
  <2>1. ASSUME NEW r \in SeqId PROVE SeqOK(r)'
    <3>1. ~Busy(r) /\ ~Busy(r)' /\ ~Allocating(r)'
      BY <1>1, OneCall, OneCallNext DEF Busy
    <3>2. SeqOK(r)
      BY DEF ManagerInv
    <3>3. CASE r = s
      <4>1. full_slots'[s] = len
        BY <1>1, <1>2 DEF ManagerTypeOK
      <4>2. TableOK(s)'
        BY <1>3, <1>9, <4>1 DEF TableOK
      <4>. QED
        BY <1>1, <3>1, <3>3, <4>2 DEF SeqOK, NoTableOK, AllocatingOK
    <3>4. CASE r # s
      <4>1. full_slots'[r] = full_slots[r]
        BY <1>1, <1>2, <3>4 DEF ManagerTypeOK
      <4>. QED
        BY <1>1, <1>9, <3>1, <3>2, <3>4, <4>1 DEF SeqOK, TableOK, NoTableOK, AllocatingOK
    <3>. QED
      BY <3>3, <3>4
  <2>. QED
    BY <1>8, <1>9, <2>1 DEF ManagerInv
<1> HIDE DEF f, n, p, len
<1>10. CASE AppendsToNewBlock(s)
  <2>2. len - f > p - f
    BY <1>5, <1>10 DEF AppendsToNewBlock, Unseen, f, len, p
  <2>3. f = p /\ len = p + 1
    BY <1>3, <1>4, <2>2
  <2>10. ~FillsLastBlock(s)
    <3>1. (n * BlockSize + 1) % BlockSize # 0
      BY <1>4, PartialBlock
    <3>. QED
      BY <2>3, <3>1 DEF FillsLastBlock, f, p
  <2>1. AllocateMutable(<<s, n + 1>>)
    <3>1. AllocateMutable(<<s, NumBlocks(s) + 1>>)
      BY <1>10, <2>10 DEF AppendSlots
    <3>. QED
      BY <1>5, <3>1
  <2>4. n + 1 <= MaxBlocks
    <3>1. (MaxBlocks <= n => MaxBlocks * BlockSize <= n * BlockSize) /\ MaxBlocks * BlockSize \in Nat
      BY <1>0, <1>4, BlockMultiples
    <3> DEFINE q == MaxBlocks * BlockSize
    <3> HIDE DEF q
    <3>2. (MaxBlocks <= n => q <= p) /\ q \in Nat /\ len <= q
      BY <1>3, <3>1 DEF q, p
    <3>. QED
      BY <1>0, <1>4, <2>3, <3>2
  <2>5. n + 1 \in 1..MaxBlocks /\ <<s, n + 1>> \in Obj
    BY <1>0, <1>4, <2>4, ObjectOf
  <2>6. AllocInv' /\ Acquired(<<s, n + 1>>)
    BY <1>2, <2>1, <2>5, MutableAcquires
  <2>7. /\ BlocksOf(s)' = BlocksOf(s) \cup {n + 1}
        /\ \A r \in SeqId : r # s => BlocksOf(r)' = BlocksOf(r)
    BY <2>5, <2>6, AcquiredBlocks
  <2>8. BlocksOf(s)' = 1..(n + 1)
    BY <1>3, <1>4, <2>7
  <2>9. Cdiv(len, BlockSize) = n + 1
    <3> DEFINE q == (n + 1) * BlockSize
    <3> HIDE DEF q
    <3>1. q = p + BlockSize
      BY <1>7 DEF q, p
    <3>2. len <= q /\ q < len + BlockSize
      BY <1>0, <1>4, <2>3, <3>1
    <3>. QED
      BY <1>3, <1>4, <3>2, CdivIs DEF q
  <2>. QED
    BY <1>4, <1>9, <2>6, <2>7, <2>8, <2>9
<1>11. CASE ~AppendsToNewBlock(s)
  <2>1. len <= p
    <3>1. ~(len - f > p - f)
      BY <1>5, <1>11 DEF AppendsToNewBlock, Unseen, f, len, p
    <3>. QED
      BY <1>3, <1>4, <3>1
  <2>2. Cdiv(len, BlockSize) = n
    <3>1. n * BlockSize < len + BlockSize /\ len <= n * BlockSize
      BY <1>0, <1>3, <1>4, <2>1 DEF p
    <3>. QED
      BY <1>3, <1>4, <3>1, CdivIs
  <2>3. CASE FillsLastBlock(s)
    <3>1. PromoteFirst(<<s, n>>, HashAt(s, n)) \/ PromoteDuplicate(<<s, n>>, HashAt(s, n))
      BY <1>5, <1>11, <2>3 DEF AppendSlots
    <3>2. len = p
      <4>1. (f + 1) % BlockSize = 0 /\ len = f + 1
        BY <2>3, <1>3 DEF FillsLastBlock, Unseen, f, len
      <4>2. PICK c \in Nat : f + 1 = c * BlockSize
        BY <1>3, <4>1, WholeBlocks
      <4>4. Cdiv(len, BlockSize) = c
        <5>1. len <= c * BlockSize /\ c * BlockSize < len + BlockSize
          BY <1>0, <1>3, <4>1, <4>2
        <5>. QED
          BY <1>3, <5>1, CdivIs
      <4>. QED
        BY <2>2, <4>1, <4>2, <4>4 DEF p
    <3>3. n * BlockSize <= Len(tokens[s])
      BY <1>3, <1>4, <3>2 DEF p, len
    <3>4. HashAt(s, n) \in Hash /\ n <= MaxBlocks
      BY <1>2, <1>4, <1>6, <3>3, HashOfPrefix DEF ManagerTypeOK
    <3>5. <<s, n>> \in Obj
      BY <1>0, <1>4, <1>6, <3>4, ObjectOf
    <3>6. AllocInv' /\ \A o \in Obj : (block_id'[o] = NoBlock) <=> (block_id[o] = NoBlock)
      BY <1>2, <3>1, <3>4, <3>5, PromotionKeeps
    <3>7. \A r \in SeqId : BlocksOf(r)' = BlocksOf(r)
      BY <3>6, SameBlocks
    <3>. QED
      BY <1>3, <1>4, <1>9, <2>2, <3>6, <3>7
  <2>4. CASE ~FillsLastBlock(s)
    <3>1. UNCHANGED allocVars
      BY <1>11, <2>4 DEF AppendSlots
    <3>2. AllocInv' /\ \A r \in SeqId : BlocksOf(r)' = BlocksOf(r)
      BY <1>2, <3>1, AllocStutter DEF allocVars, BlocksOf, Allocated
    <3>. QED
      BY <1>3, <1>4, <1>9, <2>2, <3>2
  <2>. QED
    BY <2>3, <2>4
<1>. QED
  BY <1>10, <1>11

-------------------------------------------------------------------------------
(* No operation that can_allocate or can_append_slots let through meets an     *)
(* allocator without blocks.                                               *)
LEMMA AllocateHasBlocks ==
  ASSUME ManagerInv, NEW s \in SeqId, Allocating(s), NumBlocks(s) < NumRequired(s)
  PROVE  ~NoFreeBlocks
<1>1. PICK n \in Nat : BlocksOf(s) = 1..n /\ NumRequired(s) <= n + NumFreeBlocks
  BY DEF ManagerInv, SeqOK, AllocatingOK
<1>2. NumBlocks(s) = n
  BY <1>1, CountBlocks
<1>3. NumRequired(s) \in Nat
  BY TextFacts DEF ManagerInv, ManagerTypeOK, NumRequired
<1>4. NoFreeBlocks => NumFreeBlocks = 0
  BY FS_EmptySet DEF NoFreeBlocks, NumFreeBlocks
<1>. QED
  BY <1>1, <1>2, <1>3, <1>4

LEMMA AppendHasBlocks ==
  ASSUME ManagerInv, NEW s \in tables, CanAppendSlots(s), AppendsToNewBlock(s)
  PROVE  ~NoFreeBlocks
<1>0. BlockSize \in Nat \ {0}
  BY BlockSizeAssumption
<1>1. s \in SeqId /\ SeqOK(s) /\ full_slots[s] \in Nat /\ Len(tokens[s]) \in Nat
  BY TextFacts DEF ManagerInv, ManagerTypeOK
<1> DEFINE f == full_slots[s]
           u == Unseen(s)
           x == u - (BlockSize - (f % BlockSize))
           q == (-x) \div BlockSize
<1>2. u \in Int /\ u > 0
  <2> DEFINE n == Cdiv(f, BlockSize)
  <2>1. BlocksOf(s) = 1..n /\ n \in Nat /\ f <= n * BlockSize /\ n * BlockSize \in Nat
    BY <1>1, CdivBlocks, BlockMultiples DEF SeqOK, TableOK
  <2>2. NumBlocks(s) = n
    BY <2>1, CountBlocks
  <2> HIDE DEF n
  <2> DEFINE p == n * BlockSize
  <2>3. u > p - f /\ f <= p /\ p \in Nat
    BY <2>1, <2>2 DEF AppendsToNewBlock
  <2> HIDE DEF p
  <2>. QED
    BY <1>1, <2>3 DEF Unseen
<1>3. f % BlockSize \in 0..(BlockSize - 1)
  BY <1>0, <1>1, SMT
<1>4. x \in Int /\ -x < BlockSize
  BY <1>0, <1>2, <1>3
<1>5. q <= 0 /\ q \in Int
  <2> HIDE DEF x
  <2>. QED
    BY <1>0, <1>4, SMT
<1>6. Touched(s) = 1 + (-q)
  BY DEF Touched, Cdiv
<1>7. Touched(s) >= 1
  BY <1>5, <1>6
<1>8. NoFreeBlocks => NumFreeBlocks = 0
  BY FS_EmptySet DEF NoFreeBlocks, NumFreeBlocks
<1>9. Touched(s) <= NumFreeBlocks
  BY DEF CanAppendSlots
<1> HIDE DEF q, x, u, f
<1>10. Touched(s) \in Int
  BY <1>5, <1>6
<1>. QED
  BY <1>7, <1>8, <1>9, <1>10

LEMMA ManagerInitInv ==
  ASSUME ManagerInit, tokens = [s \in SeqId |-> <<>>]
  PROVE  ManagerInv
<1>1. AllocInv
  BY InitInv DEF ManagerInit
<1>2. ManagerTypeOK
  BY TextAssumption DEF ManagerInit, ManagerTypeOK, Calls, NotAccessed
<1>3. ASSUME NEW s \in SeqId PROVE SeqOK(s)
  <2>1. ~Busy(s) /\ ~Allocating(s) /\ s \notin tables
    BY OneCall DEF ManagerInit, Busy
  <2>2. BlocksOf(s) = {}
    BY ObjAssumption DEF ManagerInit, AllocInit, BlocksOf, Allocated
  <2>. QED
    BY <2>1, <2>2 DEF SeqOK, TableOK, NoTableOK, AllocatingOK
<1>. QED
  BY <1>1, <1>2, <1>3 DEF ManagerInv

-------------------------------------------------------------------------------
(* The roots of a hash are the hashes of the blocks before its block in the    *)
(* same prompt, and itself.                                                 *)
Roots(h) == {SubSeq(h, 1, k * BlockSize) : k \in 1..Depth[h]}

LEMMA PrefixOfPrefix ==
  ASSUME NEW t \in Seq(Nat), NEW n \in 1..Len(t), NEW m \in 1..n
  PROVE  /\ SubSeq(t, 1, n) \in Seq(Nat) /\ Len(SubSeq(t, 1, n)) = n
         /\ SubSeq(SubSeq(t, 1, n), 1, m) = SubSeq(t, 1, m)
<1>0. Len(t) \in Nat
  OBVIOUS
<1>1. SubSeq(t, 1, n) \in Seq(Nat) /\ Len(SubSeq(t, 1, n)) = n
  <2>1. \A i \in 1..n : t[i] \in Nat
    BY <1>0
  <2>. QED
    BY <1>0, <2>1, SubSeqProperties
<1>2. SubSeq(SubSeq(t, 1, n), 1, m) = SubSeq(t, 1 + 1 - 1, 1 + m - 1)
  <2>1. 1 \in 1..Len(t) /\ n \in 1..Len(t) /\ 1 \in 1..(n - 1 + 1) /\ m \in 1..(n - 1 + 1)
    BY <1>0
  <2>2. t \in Seq(Nat)
    OBVIOUS
  <2>. QED
    BY <2>1, <2>2, SubSeqOfSubSeq
<1>. QED
  BY <1>1, <1>2

LEMMA Multiple ==
  ASSUME NEW k \in Nat
  PROVE  (k * BlockSize) % BlockSize = 0 /\ (k * BlockSize) \div BlockSize = k
<1>0. BlockSize \in Nat \ {0}
  BY BlockSizeAssumption
<1>1. (k * BlockSize) % BlockSize = 0
  BY <1>0, SMT
<1>2. (k * BlockSize) \div BlockSize = k
  BY <1>0, SMT
<1>. QED
  BY <1>1, <1>2

(* The blocks of a hash: their number and their tokens.                        *)
LEMMA HashFacts ==
  \A h \in Hash : /\ h \in Text /\ h \in Seq(Nat) /\ Depth[h] \in Nat \ {0}
                  /\ Len(h) = Depth[h] * BlockSize /\ Len(h) \in Nat \ {0}
                  /\ SubSeq(h, 1, Depth[h] * BlockSize) = h
<1>0. BlockSize \in Nat \ {0}
  BY BlockSizeAssumption
<1> SUFFICES ASSUME NEW h \in Hash
             PROVE  /\ h \in Text /\ h \in Seq(Nat) /\ Depth[h] \in Nat \ {0}
                    /\ Len(h) = Depth[h] * BlockSize /\ Len(h) \in Nat \ {0}
                    /\ SubSeq(h, 1, Depth[h] * BlockSize) = h
  OBVIOUS
<1>1. h \in Text /\ h # <<>> /\ Len(h) % BlockSize = 0 /\ Depth[h] = Len(h) \div BlockSize
  BY HashAssumption
<1>2. h \in Seq(Nat) /\ Len(h) \in Nat
  BY <1>1, TextFacts
<1>3. Len(h) # 0
  BY <1>1, <1>2
<1>4. PICK k \in Nat : Len(h) = k * BlockSize
  BY <1>1, <1>2, WholeBlocks
<1>5. Depth[h] = k
  BY <1>1, <1>4, Multiple
<1>6. k # 0
  <2>1. 0 * BlockSize = 0
    BY <1>0
  <2>. QED
    BY <1>3, <1>4, <2>1
<1>7. SubSeq(h, 1, Len(h)) = h
  BY <1>2
<1>. QED
  BY <1>1, <1>2, <1>3, <1>4, <1>5, <1>6, <1>7

(* The whole blocks of a text are hashes.                                     *)
LEMMA CutHash ==
  ASSUME NEW t \in Text, NEW k \in Nat \ {0}, k * BlockSize <= Len(t)
  PROVE  /\ k * BlockSize \in 1..Len(t) /\ SubSeq(t, 1, k * BlockSize) \in Hash
         /\ Len(SubSeq(t, 1, k * BlockSize)) = k * BlockSize
         /\ Depth[SubSeq(t, 1, k * BlockSize)] = k
<1>0. BlockSize \in Nat \ {0}
  BY BlockSizeAssumption
<1> DEFINE n == k * BlockSize
           h == SubSeq(t, 1, n)
<1>1. t \in Seq(Nat) /\ Len(t) \in Nat
  BY TextFacts
<1>2. n \in Nat /\ n >= BlockSize
  <2>1. (0 < k => 0 * BlockSize + BlockSize <= k * BlockSize) /\ k * BlockSize \in Nat
    BY BlockMultiples
  <2>. QED
    BY <1>0, <2>1
<1>3. n % BlockSize = 0 /\ n \div BlockSize = k
  BY Multiple
<1>4. n <= Len(t)
  OBVIOUS
<1> HIDE DEF n
<1>5. n \in 1..Len(t) /\ n \in 0..Len(t)
  BY <1>0, <1>1, <1>2, <1>4
<1>6. h \in Text
  BY <1>5, TextAssumption DEF IsPrefixClosed
<1>7. Len(h) = n
  BY <1>1, <1>5
<1>8. h # <<>>
  BY <1>0, <1>2, <1>7
<1>9. h \in Hash /\ Depth[h] = k
  BY <1>3, <1>6, <1>7, <1>8, HashAssumption
<1>. QED
  BY <1>5, <1>7, <1>9 DEF n

LEMMA CutShorter ==
  ASSUME NEW t \in Text, NEW k \in Nat \ {0}, k * BlockSize <= Len(t), NEW j \in 1..k
  PROVE  /\ j \in Nat \ {0} /\ j * BlockSize <= Len(t) /\ j * BlockSize \in 1..(k * BlockSize)
         /\ SubSeq(SubSeq(t, 1, k * BlockSize), 1, j * BlockSize) = SubSeq(t, 1, j * BlockSize)
<1> DEFINE n == k * BlockSize
           m == j * BlockSize
<1>1. t \in Seq(Nat) /\ Len(t) \in Nat /\ n <= Len(t) /\ j \in Nat \ {0}
  BY TextFacts
<1>2. m \in Nat /\ n \in Nat /\ m <= n
  BY BlockMultiples
<1>3. n \in 1..Len(t)
  BY <1>1, CutHash
<1> HIDE DEF n, m
<1>4. m <= Len(t)
  BY <1>1, <1>2
<1>5. m \in 1..Len(t)
  <2>1. m <= Len(t) => m \in 1..Len(t)
    BY <1>1, CutHash DEF m
  <2>. QED
    BY <1>4, <2>1
<1>6. m \in 1..n
  BY <1>2, <1>5
<1>7. SubSeq(SubSeq(t, 1, n), 1, m) = SubSeq(t, 1, m)
  BY <1>1, <1>3, <1>6, PrefixOfPrefix
<1>. QED
  BY <1>1, <1>4, <1>6, <1>7 DEF n, m

LEMMA RootsOfText ==
  ASSUME NEW t \in Text, NEW k \in Nat \ {0}, k * BlockSize <= Len(t)
  PROVE  Roots(SubSeq(t, 1, k * BlockSize)) = {SubSeq(t, 1, j * BlockSize) : j \in 1..k}
<1> DEFINE h == SubSeq(t, 1, k * BlockSize)
<1>1. Depth[h] = k
  BY CutHash
<1>2. \A j \in 1..k : SubSeq(h, 1, j * BlockSize) = SubSeq(t, 1, j * BlockSize)
  BY CutShorter
<1> HIDE DEF h
<1>3. Roots(h) = {SubSeq(t, 1, j * BlockSize) : j \in 1..k}
  BY <1>1, <1>2 DEF Roots
<1>. QED
  BY <1>3 DEF h

LEMMA RootFacts ==
  /\ \A h \in Hash : h \in Roots(h)
  /\ \A h \in Hash : \A g \in Roots(h) :
       g \in Hash /\ Depth[g] <= Depth[h] /\ (g # h => Depth[g] < Depth[h])
  /\ \A h \in Hash : \A g \in Roots(h) : Roots(g) \subseteq Roots(h)
  /\ \A h \in Hash : Depth[h] > 1 => SubSeq(h, 1, Len(h) - BlockSize) \in Roots(h)
<1>0. BlockSize \in Nat \ {0}
  BY BlockSizeAssumption
<1>1. ASSUME NEW h \in Hash PROVE h \in Roots(h)
  <2>1. Depth[h] \in 1..Depth[h] /\ SubSeq(h, 1, Depth[h] * BlockSize) = h
    BY HashFacts
  <2>. QED
    BY <2>1 DEF Roots
<1>2. ASSUME NEW h \in Hash, NEW g \in Roots(h)
      PROVE  /\ g \in Hash /\ Depth[g] <= Depth[h] /\ (g # h => Depth[g] < Depth[h])
             /\ Roots(g) \subseteq Roots(h)
  <2>1. PICK k \in 1..Depth[h] : g = SubSeq(h, 1, k * BlockSize)
    BY DEF Roots
  <2>2. /\ h \in Text /\ Depth[h] \in Nat \ {0} /\ Len(h) = Depth[h] * BlockSize
        /\ SubSeq(h, 1, Depth[h] * BlockSize) = h /\ Len(h) \in Nat
    BY HashFacts
  <2>3. k \in Nat \ {0} /\ k <= Depth[h]
    BY <2>2
  <2>4. k * BlockSize <= Len(h)
    BY <2>2, <2>3, BlockMultiples
  <2>5. g \in Hash /\ Depth[g] = k
    BY <2>1, <2>2, <2>3, <2>4, CutHash
  <2>6. g # h => k < Depth[h]
    BY <2>1, <2>2, <2>3
  <2>7. Roots(SubSeq(h, 1, k * BlockSize)) = {SubSeq(h, 1, j * BlockSize) : j \in 1..k}
    BY ONLY <2>2, <2>3, <2>4, RootsOfText, ZenonT(90)
  <2>8. Roots(g) \subseteq Roots(h)
    <3>1. \A j \in 1..k : j \in 1..Depth[h]
      BY <2>2, <2>3
    <3>2. Roots(g) = {SubSeq(h, 1, j * BlockSize) : j \in 1..k}
      BY <2>1, <2>7
    <3>. QED
      BY <3>1, <3>2 DEF Roots
  <2>. QED
    BY <2>3, <2>5, <2>6, <2>8
<1>3. ASSUME NEW h \in Hash, Depth[h] > 1 PROVE SubSeq(h, 1, Len(h) - BlockSize) \in Roots(h)
  <2>1. Depth[h] \in Nat /\ Len(h) = Depth[h] * BlockSize
    BY HashFacts
  <2>2. Len(h) - BlockSize = (Depth[h] - 1) * BlockSize
    BY <1>0, <2>1, SMT
  <2>3. Depth[h] - 1 \in 1..Depth[h]
    BY <1>3, <2>1
  <2>. QED
    BY <2>2, <2>3 DEF Roots
<1>. QED
  BY <1>1, <1>2, <1>3

-------------------------------------------------------------------------------
(* `older` is the order of an OrderedDict: a strict total order of the blocks in *)
(* the evictor.                                                            *)
InsertionOrder ==
  /\ older \subseteq InEvictor \X InEvictor
  /\ \A b, c \in InEvictor : b # c => (<<b, c>> \in older <=> <<c, b>> \notin older)
  /\ \A b \in InEvictor : <<b, b>> \notin older
  /\ \A b, c, d \in InEvictor :
       <<b, c>> \in older /\ <<c, d>> \in older => <<b, d>> \in older

(* A step leaves the evictor alone, takes a block out of it or adds one that  *)
(* was not in it.                                                          *)
LeavesEvictor == UNCHANGED evictorVars
TakesOut(b) == free_table' = Removed(b) /\ older' = OlderRemoved(b)
PutsIn(b) ==
  /\ b \notin InEvictor
  /\ \E h \in Hash, ts \in Time : free_table' = Added(b, h, ts)
  /\ older' = OlderAdded(b)

EvictorStep == LeavesEvictor \/ \E b \in Block : TakesOut(b) \/ PutsIn(b)

(* Each kind of step keeps the order.                                       *)
LEMMA OrderStep ==
  ASSUME AllocInv, EvictorStep, InsertionOrder
  PROVE  InsertionOrder'
<1>1. CASE LeavesEvictor
  BY <1>1 DEF LeavesEvictor, evictorVars, InsertionOrder, InEvictor
<1>2. ASSUME NEW b \in Block, TakesOut(b) PROVE InsertionOrder'
  <2>1. InEvictor' = InEvictor \ {b}
    BY <1>2 DEF TakesOut, Removed, InEvictor, AllocInv, AllocTypeOK
  <2>2. \A c, d : <<c, d>> \in older' <=> <<c, d>> \in older /\ c # b /\ d # b
    BY <1>2 DEF TakesOut, OlderRemoved
  <2>3. older' \subseteq InEvictor' \X InEvictor'
    BY <1>2, <2>1 DEF TakesOut, OlderRemoved, InsertionOrder
  <2>. QED
    BY <2>1, <2>2, <2>3 DEF InsertionOrder
<1>3. ASSUME NEW b \in Block, PutsIn(b) PROVE InsertionOrder'
  <2>1. InEvictor' = InEvictor \cup {b} /\ b \notin InEvictor
    BY <1>3, NoEntryAssumption DEF PutsIn, Added, InEvictor, AllocInv, AllocTypeOK, Entry
  <2>2. \A c, d : <<c, d>> \in older' <=> <<c, d>> \in older \/ (c \in InEvictor /\ d = b)
    BY <1>3 DEF PutsIn, OlderAdded
  <2>3. older' \subseteq InEvictor' \X InEvictor'
    BY <1>3, <2>1 DEF PutsIn, OlderAdded, InsertionOrder
  <2>4. \A c, d : <<c, d>> \in older => c \in InEvictor /\ d \in InEvictor
    BY DEF InsertionOrder
  <2>. QED
    BY <2>1, <2>2, <2>3, <2>4 DEF InsertionOrder
<1>. QED
  BY <1>1, <1>2, <1>3 DEF EvictorStep

(* The prefixes of a cached prefix are cached.                               *)
PrefixesCached ==
  \A h \in Hash : cached[h] # NoBlock => \A g \in Roots(h) : cached[g] # NoBlock

(* From a block in the evictor to one that continues its prefix, all entries   *)
(* bear one stamp.                                                         *)
EvictorRuns ==
  \A b, c \in InEvictor : <<b, c>> \in older /\ free_table[b].hash \in Roots(free_table[c].hash) =>
    \A d \in InEvictor :
      (d = b \/ <<b, d>> \in older) /\ (d = c \/ <<d, c>> \in older) =>
        free_table[d].ts = free_table[c].ts

(* What stands before a block in use is in use (unless blocks are being        *)
(* freed).                                                                 *)
HeldRoots ==
  \A o \in Obj : Allocated(o) /\ content[o] # NoHash =>
    \A g \in Roots(content[o]) : \E p \in Obj : Allocated(p) /\ content[p] = g

ChainInv == InsertionOrder /\ PrefixesCached /\ EvictorRuns

(* The victim of an eviction has no cached continuation: a younger one lies in  *)
(* a run of the victim's stamp, which the loop reads to its end, and is deeper. *)
LEMMA VictimRoots ==
  ASSUME AllocInv, ChainInv, HeldRoots, NEW v, EvictionVictim(v), NEW h \in Hash,
         cached[h] # NoBlock, free_table[v].hash \in Roots(h)
  PROVE  h = free_table[v].hash
<1> DEFINE g == free_table[v].hash
<1>1. /\ v \in Scanned /\ v \in InEvictor /\ v \in Block
      /\ g \in Hash /\ cached[g] = v /\ HashedTokens(v) = Depth[g]
      /\ \A o \in Obj : block_id[o] # v
  <2>1. v \in Scanned /\ v \in InEvictor /\ v \in Block
    BY DEF EvictionVictim, Champion, Scanned, InEvictor
  <2>2. g \in Hash /\ cached[g] = v /\ refcount[v] = 0
    BY <2>1 DEF AllocInv, AllocTypeOK, InEvictor, Entry, CachedMapExact, EvictorIsCached,
       BlocksPartitioned
  <2>. QED
    BY <2>1, <2>2, HoldersOfRefcount DEF AllocInv, HashedTokens
<1>2. CASE \E o \in Obj : block_id[o] = cached[h] /\ content[o] = h
  <2>1. PICK o \in Obj : block_id[o] = cached[h] /\ content[o] = h
    BY <1>2
  <2>2. Allocated(o) /\ content[o] # NoHash
    BY <2>1, NoHashAssumption DEF Allocated
  <2>3. PICK p \in Obj : Allocated(p) /\ content[p] = g
    BY <2>1, <2>2 DEF HeldRoots
  <2>4. cached[g] = block_id[p]
    BY <1>1, <2>3, NoHashAssumption DEF AllocInv, CachedMapExact, FullIsCached
  <2>. QED
    BY <1>1, <2>4
<1>3. ASSUME NEW c \in InEvictor, free_table[c].hash = h, h # g PROVE FALSE
  <2>1. Depth[g] < Depth[h] /\ HashedTokens(c) = Depth[h] /\ Depth[g] \in Nat /\ Depth[h] \in Nat
    BY <1>1, <1>3, RootFacts, HashFacts DEF HashedTokens
  <2>2. ASSUME NEW d \in Scanned PROVE HashedTokens(d) <= HashedTokens(v)
    <3>1. HashedTokens(d) \in Nat
      BY <2>2, DepthAssumption DEF Scanned, HashedTokens, AllocInv, AllocTypeOK, InEvictor, Entry
    <3>2. \/ HashedTokens(d) < HashedTokens(v)
          \/ HashedTokens(d) = HashedTokens(v) /\ <<v, d>> \in older
          \/ d = v
      BY <2>2 DEF EvictionVictim, Champion
    <3>. QED
      BY <1>1, <2>1, <3>1, <3>2
  <2>3. c \notin Scanned /\ c # v
    BY <1>1, <1>3, <2>1, <2>2
  <2>4. /\ \A x, y, z \in InEvictor : <<x, y>> \in older /\ <<y, z>> \in older => <<x, z>> \in older
        /\ \A x, y \in InEvictor : x # y => (<<x, y>> \in older <=> <<y, x>> \notin older)
        /\ \A x \in InEvictor : <<x, x>> \notin older
    BY DEF ChainInv, InsertionOrder
  <2>5. \A d \in InEvictor : d = v \/ <<d, v>> \in older => ~Breaks(d)
    BY <1>1 DEF Scanned, UpTo
  <2>6. CASE <<c, v>> \in older
    <3>1. \A d \in UpTo(c) : ~Breaks(d)
      BY <1>1, <1>3, <2>4, <2>5, <2>6 DEF UpTo
    <3>. QED
      BY <1>3, <2>3, <3>1 DEF Scanned
  <2>7. CASE <<v, c>> \in older
    <3> DEFINE B == {d \in UpTo(c) : Breaks(d)}
    <3>1. B # {}
      BY <1>3, <2>3 DEF Scanned
    <3>2. B \subseteq InEvictor /\ IsFiniteSet(B)
      <4>1. B \subseteq InEvictor /\ B \subseteq Block
        BY DEF UpTo, InEvictor
      <4>. QED
        BY <4>1, FiniteBlock, FS_Subset
    <3>3. StrictTotal(older, B)
      BY <2>4, <3>2 DEF StrictTotal
    <3>4. PICK d : First(d, older, B)
      BY <3>1, <3>2, <3>3, FirstExists
    <3>5. /\ d \in InEvictor /\ Breaks(d) /\ (d = c \/ <<d, c>> \in older)
          /\ \A e \in InEvictor : (e = c \/ <<e, c>> \in older) /\ Breaks(e) =>
               e = d \/ <<d, e>> \in older
      BY <3>4 DEF First, UpTo
    <3> HIDE DEF B
    <3>6. <<v, d>> \in older
      BY <1>1, <2>4, <2>5, <3>5
    <3>7. Before(d) = Scanned
      <4>1. ASSUME NEW e \in Before(d) PROVE e \in Scanned
        <5>1. e \in InEvictor /\ <<e, d>> \in older
          BY DEF Before
        <5>2. \A x \in UpTo(e) : x \in InEvictor /\ <<x, d>> \in older
          BY <2>4, <3>5, <5>1 DEF UpTo
        <5>3. \A x \in UpTo(e) : ~Breaks(x)
          BY <1>3, <2>4, <3>5, <5>2
        <5>. QED
          BY <5>1, <5>3 DEF Scanned
      <4>2. ASSUME NEW e \in Scanned PROVE e \in Before(d)
        <5>1. e \in InEvictor /\ \A x \in UpTo(e) : ~Breaks(x)
          BY DEF Scanned
        <5>2. e # d /\ <<d, e>> \notin older
          BY <3>5, <5>1 DEF UpTo
        <5>. QED
          BY <2>4, <3>5, <5>1, <5>2 DEF Before
      <4>. QED
        BY <4>1, <4>2
    <3>8. PICK w \in Before(d) : Champion(w, Before(d)) /\ free_table[w].ts < free_table[d].ts
      BY <3>5 DEF Breaks
    <3>9. w = v
      <4>1. w \in Scanned /\ Champion(w, Scanned) /\ Champion(v, Scanned)
        BY <3>7, <3>8 DEF EvictionVictim
      <4>2. w \in InEvictor /\ HashedTokens(w) \in Nat
        BY <4>1, DepthAssumption DEF Scanned, HashedTokens, AllocInv, AllocTypeOK, InEvictor, Entry
      <4>3. HashedTokens(v) \in Nat
        BY <1>1, <2>1
      <4>4. \/ HashedTokens(w) < HashedTokens(v)
            \/ HashedTokens(w) = HashedTokens(v) /\ <<v, w>> \in older
            \/ w = v
        BY <4>1 DEF Champion
      <4>5. \/ HashedTokens(v) < HashedTokens(w)
            \/ HashedTokens(v) = HashedTokens(w) /\ <<w, v>> \in older
            \/ w = v
        BY <1>1, <4>1 DEF Champion
      <4>. QED
        BY <1>1, <2>4, <4>2, <4>3, <4>4, <4>5
    <3>10. free_table[v].ts = free_table[c].ts /\ free_table[d].ts = free_table[c].ts
      <4>1. free_table[v].hash \in Roots(free_table[c].hash)
        BY <1>3
      <4>2. \A e \in InEvictor :
              (e = v \/ <<v, e>> \in older) /\ (e = c \/ <<e, c>> \in older) =>
                free_table[e].ts = free_table[c].ts
        BY <1>1, <1>3, <2>7, <4>1 DEF ChainInv, EvictorRuns
      <4>. QED
        BY <1>1, <2>7, <3>5, <3>6, <4>2
    <3>11. free_table[v].ts \in Int
      BY <1>1 DEF AllocInv, AllocTypeOK, InEvictor, Entry, Time
    <3>. QED
      BY <3>8, <3>9, <3>10, <3>11
  <2>. QED
    BY <1>1, <1>3, <2>3, <2>4, <2>6, <2>7
<1>4. \/ cached[h] \in InEvictor /\ free_table[cached[h]].hash = h
      \/ \E o \in Obj : block_id[o] = cached[h] /\ content[o] = h
  BY DEF AllocInv, CachedMapExact, CachedIsBacked
<1>. QED
  BY <1>2, <1>3, <1>4

(* So _allocate_block_id leaves the cache closed ...                          *)
Closed(next) == \A h \in Hash : next[h] # NoBlock => \A g \in Roots(h) : next[g] # NoBlock

LEMMA PickPrefixes ==
  ASSUME AllocInv, ChainInv, HeldRoots, NEW b \in Block, AllocateBlockId(b)
  PROVE  Closed(CachedWithout(b))
<1>1. CASE b \in free
  BY <1>1 DEF CachedWithout, Closed, ChainInv, PrefixesCached
<1>2. CASE b \notin free
  <2>1. EvictionVictim(b)
    BY <1>2 DEF AllocateBlockId, TakesFree, TakesEvicted
  <2>2. CachedWithout(b) = [h \in Hash |-> IF cached[h] = b THEN NoBlock ELSE cached[h]]
        /\ \A o \in Obj : block_id[o] # b
    BY PickBlock
  <2>3. ASSUME NEW h \in Hash, cached[h] # b, cached[h] # NoBlock, NEW g \in Roots(h)
        PROVE  g \in Hash /\ cached[g] # NoBlock /\ cached[g] # b
    <3>1. g \in Hash /\ cached[g] # NoBlock
      BY <2>3, RootFacts DEF ChainInv, PrefixesCached
    <3>2. ASSUME cached[g] = b PROVE FALSE
      <4>1. free_table[b].hash = g
        BY <2>2, <3>1, <3>2 DEF AllocInv, CachedMapExact, CachedIsBacked
      <4>2. h = g
        BY <2>1, <2>3, <4>1, VictimRoots
      <4>. QED
        BY <2>3, <3>2, <4>2
    <3>. QED
      BY <3>1, <3>2
  <2>. QED
    BY <2>2, <2>3 DEF Closed
<1>. QED
  BY <1>1, <1>2

(* ... and the evictor in runs, like every step that takes a block out.        *)
LEMMA RunsKept ==
  ASSUME AllocInv, EvictorRuns, LeavesEvictor \/ \E b \in Block : TakesOut(b)
  PROVE  EvictorRuns'
<1>1. CASE LeavesEvictor
  BY <1>1 DEF LeavesEvictor, evictorVars, EvictorRuns, InEvictor
<1>2. ASSUME NEW b \in Block, TakesOut(b) PROVE EvictorRuns'
  <2>1. InEvictor' = InEvictor \ {b} /\ \A c \in InEvictor' : free_table'[c] = free_table[c]
    BY <1>2 DEF TakesOut, Removed, InEvictor, AllocInv, AllocTypeOK
  <2>2. \A c, d : <<c, d>> \in older' => <<c, d>> \in older
    BY <1>2 DEF TakesOut, OlderRemoved
  <2>. QED
    BY <2>1, <2>2 DEF EvictorRuns
<1>. QED
  BY <1>1, <1>2

(* A block put in extends the runs if all since its first root bear its stamp. *)
LEMMA RunsExtended ==
  ASSUME AllocInv, ChainInv, NEW b \in Block, b \notin InEvictor, NEW h \in Hash, NEW ts \in Time,
         free_table' = Added(b, h, ts), older' = OlderAdded(b),
         \A c \in InEvictor : free_table[c].hash \in Roots(h) =>
           \A d \in InEvictor : d = c \/ <<c, d>> \in older => free_table[d].ts = ts
  PROVE  EvictorRuns'
<1>1. /\ InEvictor' = InEvictor \cup {b}
      /\ \A c \in InEvictor : free_table'[c] = free_table[c] /\ c # b
      /\ free_table'[b] = [hash |-> h, ts |-> ts]
  BY NoEntryAssumption DEF Added, InEvictor, AllocInv, AllocTypeOK, Entry
<1>2. /\ \A c, d : <<c, d>> \in older' <=> <<c, d>> \in older \/ (c \in InEvictor /\ d = b)
      /\ \A c, d : <<c, d>> \in older => c \in InEvictor /\ d \in InEvictor
  BY DEF OlderAdded, ChainInv, InsertionOrder
<1>3. SUFFICES ASSUME NEW c \in InEvictor', NEW e \in InEvictor', <<c, e>> \in older',
                      free_table'[c].hash \in Roots(free_table'[e].hash),
                      NEW d \in InEvictor', d = c \/ <<c, d>> \in older', d = e \/ <<d, e>> \in older'
               PROVE  free_table'[d].ts = free_table'[e].ts
  BY DEF EvictorRuns
<1>4. c \in InEvictor
  BY <1>1, <1>2, <1>3
<1>5. CASE e = b
  BY <1>1, <1>2, <1>3, <1>4, <1>5
<1>6. CASE e # b
  <2>1. e \in InEvictor /\ d \in InEvictor /\ <<c, e>> \in older
        /\ (d = c \/ <<c, d>> \in older) /\ (d = e \/ <<d, e>> \in older)
    BY <1>1, <1>2, <1>3, <1>4, <1>6
  <2>. QED
    BY <1>1, <1>3, <1>4, <2>1 DEF ChainInv, EvictorRuns
<1>. QED
  BY <1>5, <1>6

(* What each call of the allocator does to the chains: a step that leaves the   *)
(* map and the evictor alone, ...                                           *)
LEMMA ChainSame ==
  ASSUME AllocInv, ChainInv, UNCHANGED <<free_table, older, cached>>
  PROVE  ChainInv'
<1>1. LeavesEvictor /\ EvictorStep
  BY DEF LeavesEvictor, evictorVars, EvictorStep
<1>2. InsertionOrder' /\ EvictorRuns'
  BY <1>1, OrderStep, RunsKept DEF ChainInv
<1>3. PrefixesCached'
  BY DEF ChainInv, PrefixesCached
<1>. QED
  BY <1>2, <1>3 DEF ChainInv

(* ... a block handed out, ...                                               *)
LEMMA PickChain ==
  ASSUME AllocInv, ChainInv, NEW b \in Block, AllocateBlockId(b)
  PROVE  InsertionOrder' /\ EvictorRuns'
<1>1. LeavesEvictor \/ TakesOut(b)
  BY DEF AllocateBlockId, TakesFree, TakesEvicted, LeavesEvictor, TakesOut
<1>2. EvictorStep
  BY <1>1 DEF EvictorStep
<1>. QED
  BY <1>1, <1>2, OrderStep, RunsKept DEF ChainInv

LEMMA ChainMutable ==
  ASSUME AllocInv, ChainInv, HeldRoots, NEW o \in Obj, AllocateMutable(o)
  PROVE  ChainInv'
<1>1. PICK b \in Block : AllocateBlockId(b) /\ cached' = CachedWithout(b)
  BY DEF AllocateMutable
<1>2. Closed(cached')
  BY <1>1, PickPrefixes
<1>. QED
  BY <1>1, <1>2, PickChain DEF ChainInv, PrefixesCached, Closed

(* ... a hash that enters the map after its roots, ...                         *)
RootsHeld(h) ==
  \A g \in Roots(h) : g = h \/ \E p \in Obj : Allocated(p) /\ content[p] = g

LEMMA ChainMiss ==
  ASSUME AllocInv, ChainInv, HeldRoots, NEW o \in Obj, NEW h \in Hash,
         AllocateImmutableMiss(o, h), RootsHeld(h)
  PROVE  ChainInv'
<1>1. PICK b \in Block : AllocateBlockId(b) /\ cached' = [CachedWithout(b) EXCEPT ![h] = b]
  BY DEF AllocateImmutableMiss
<1>2. Closed(CachedWithout(b))
  BY <1>1, PickPrefixes
<1>3. CachedWithout(b) = [f \in Hash |-> IF cached[f] = b THEN NoBlock ELSE cached[f]]
      /\ \A p \in Obj : block_id[p] # b
  BY <1>1, PickBlock
<1>4. cached' = [f \in Hash |-> IF f = h THEN b ELSE CachedWithout(b)[f]] /\ b # NoBlock
  BY <1>1, <1>3, NoBlockAssumption
<1>5. ASSUME NEW g \in Roots(h) PROVE cached'[g] # NoBlock
  <2>1. g \in Hash
    BY RootFacts
  <2>2. CASE g = h
    BY <1>4, <2>2
  <2>3. CASE g # h
    <3>1. PICK p \in Obj : Allocated(p) /\ content[p] = g
      BY <2>3 DEF RootsHeld
    <3>2. cached[g] = block_id[p] /\ block_id[p] # NoBlock
      BY <2>1, <3>1, NoHashAssumption DEF AllocInv, CachedMapExact, FullIsCached, Allocated
    <3>. QED
      BY <1>3, <1>4, <2>1, <2>3, <3>2
  <2>. QED
    BY <2>2, <2>3
<1>6. ASSUME NEW f \in Hash, f # h, cached'[f] # NoBlock, NEW g \in Roots(f)
      PROVE  cached'[g] # NoBlock
  <2>1. CachedWithout(b)[f] # NoBlock
    BY <1>4, <1>6
  <2>2. g \in Hash /\ CachedWithout(b)[g] # NoBlock
    BY <1>2, <1>6, <2>1, RootFacts DEF Closed
  <2>. QED
    BY <1>4, <2>2
<1>. QED
  BY <1>1, <1>5, <1>6, PickChain DEF ChainInv, PrefixesCached

LEMMA ChainPromoteFirst ==
  ASSUME AllocInv, ChainInv, NEW o \in Obj, NEW h \in Hash, PromoteFirst(o, h), RootsHeld(h)
  PROVE  ChainInv'
<1>1. /\ UNCHANGED <<free_table, older>> /\ block_id[o] # NoBlock
      /\ cached' = [f \in Hash |-> IF f = h THEN block_id[o] ELSE cached[f]]
  BY DEF PromoteFirst, CanPromote, Allocated, AllocInv, AllocTypeOK
<1>2. ASSUME NEW g \in Roots(h) PROVE cached'[g] # NoBlock
  <2>1. g \in Hash
    BY RootFacts
  <2>2. g = h \/ cached[g] # NoBlock
    BY <2>1, NoHashAssumption DEF RootsHeld, AllocInv, CachedMapExact, FullIsCached, Allocated
  <2>. QED
    BY <1>1, <2>1, <2>2
<1>3. ASSUME NEW f \in Hash, f # h, cached'[f] # NoBlock, NEW g \in Roots(f)
      PROVE  cached'[g] # NoBlock
  <2>1. g \in Hash /\ cached[g] # NoBlock
    BY <1>1, <1>3, RootFacts DEF ChainInv, PrefixesCached
  <2>. QED
    BY <1>1, <2>1
<1>4. LeavesEvictor /\ EvictorStep
  BY <1>1 DEF LeavesEvictor, evictorVars, EvictorStep
<1>5. InsertionOrder' /\ EvictorRuns'
  BY <1>4, OrderStep, RunsKept DEF ChainInv
<1>. QED
  BY <1>2, <1>3, <1>5 DEF ChainInv, PrefixesCached

(* ... a block that an object finds in the cache, ...                          *)
LEMMA ChainFound ==
  ASSUME AllocInv, ChainInv, NEW o \in Obj, NEW h \in Hash,
         AllocateImmutableHit(o, h) \/ PromoteDuplicate(o, h)
  PROVE  ChainInv'
<1>1. cached[h] \in Block /\ UNCHANGED cached
  BY DEF AllocateImmutableHit, PromoteDuplicate, AllocInv, AllocTypeOK
<1>2. LeavesEvictor \/ TakesOut(cached[h])
  BY DEF AllocateImmutableHit, PromoteDuplicate, IncrRefcountCached, Revives, LeavesEvictor,
     TakesOut, evictorVars
<1>3. EvictorStep
  BY <1>1, <1>2 DEF EvictorStep
<1>4. InsertionOrder' /\ EvictorRuns'
  BY <1>1, <1>2, <1>3, OrderStep, RunsKept DEF ChainInv
<1>. QED
  BY <1>1, <1>4 DEF ChainInv, PrefixesCached

(* ... and a block that its last holder gives back.                            *)
LEMMA ChainFree ==
  ASSUME AllocInv, ChainInv, NEW o \in Obj, FreeCached(o),
         \A c \in InEvictor : free_table[c].hash \in Roots(content[o]) =>
           \A d \in InEvictor : d = c \/ <<c, d>> \in older =>
             free_table[d].ts = last_accessed[block_id[o]]
  PROVE  ChainInv'
<1>1. PICK b : b = block_id[o]
  OBVIOUS
<1>2. b \in Block /\ content[o] \in Hash /\ last_accessed[b] \in Time /\ UNCHANGED cached
  BY <1>1 DEF FreeCached, Allocated, AllocInv, AllocTypeOK
<1>3. CASE refcount[b] = 1
  <2>1. b \notin InEvictor
    BY <1>2, <1>3 DEF AllocInv, BlocksPartitioned
  <2>2. free_table' = Added(b, content[o], last_accessed[b]) /\ older' = OlderAdded(b)
    BY <1>1, <1>3 DEF FreeCached
  <2>3. EvictorStep
    BY <1>2, <2>1, <2>2 DEF PutsIn, EvictorStep
  <2>4. EvictorRuns'
    BY <1>1, <1>2, <2>1, <2>2, RunsExtended
  <2>. QED
    BY <1>2, <2>3, <2>4, OrderStep DEF ChainInv, PrefixesCached
<1>4. CASE refcount[b] # 1
  BY <1>1, <1>2, <1>4, ChainSame DEF FreeCached
<1>. QED
  BY <1>3, <1>4

-------------------------------------------------------------------------------
(* The invariant that makes the cache closed.  The blocks of a table hold the   *)
(* prefixes of its sequence, full as far as append_slots has come, ...        *)
Filled(s) == IF s \in tables THEN full_slots[s] ELSE Len(tokens[s])

FilledOK(s) ==
  ~Freeing(s) => \A k \in BlocksOf(s) :
    content[<<s, k>>] = IF k * BlockSize <= Filled(s) THEN HashAt(s, k) ELSE NoHash

(* ... and those still to be freed bear one stamp, that of every block freed    *)
(* since the first of their roots that is in the evictor.                    *)
StampOf(s, k) == last_accessed[block_id[<<s, k>>]]

LastOfTable(s, k) == \A j \in BlocksOf(s) : j <= k
ContinuesTable(s, k) ==
  /\ Depth[content[<<s, k>>]] = k
  /\ \A j \in BlocksOf(s) : j <= k => content[<<s, j>>] \in Roots(content[<<s, k>>])
ExtendsRuns(s, k) ==
  \A b \in InEvictor : free_table[b].hash \in Roots(content[<<s, k>>]) =>
    \A d \in InEvictor : d = b \/ <<b, d>> \in older => free_table[d].ts = StampOf(s, k)

FreeingOK(s) ==
  Freeing(s) => \A k \in BlocksOf(s) :
    /\ content[<<s, k>>] = NoHash => LastOfTable(s, k)
    /\ content[<<s, k>>] # NoHash => ContinuesTable(s, k) /\ ExtendsRuns(s, k)
    /\ \A j \in BlocksOf(s) : StampOf(s, j) = StampOf(s, k)

CacheInv == ChainInv /\ \A s \in SeqId : FilledOK(s) /\ FreeingOK(s)

(* Between the blocks of a sequence there is no hole.                          *)
LEMMA BlocksInRow ==
  ASSUME ManagerInv, NEW s \in SeqId, ~Freeing(s)
  PROVE  \E n \in Nat : BlocksOf(s) = 1..n
<1>1. SeqOK(s) /\ ManagerTypeOK
  BY DEF ManagerInv
<1>2. CASE s \in tables
  BY <1>1, <1>2, CdivBlocks DEF SeqOK, TableOK, ManagerTypeOK
<1>3. CASE s \notin tables /\ ~Busy(s)
  <2>1. BlocksOf(s) = 1..0
    BY <1>1, <1>3 DEF SeqOK, NoTableOK
  <2>. QED
    BY <2>1
<1>4. CASE Allocating(s)
  BY <1>1, <1>4 DEF SeqOK, AllocatingOK
<1>. QED
  BY <1>2, <1>3, <1>4 DEF Busy

(* A full block holds a whole prefix of the tokens of its sequence.             *)
LEMMA FilledFacts ==
  ASSUME ManagerInv, NEW s \in SeqId
  PROVE  /\ tokens[s] \in Text /\ Filled(s) \in Nat /\ Len(tokens[s]) \in Nat
         /\ Filled(s) <= Len(tokens[s])
         /\ \A k \in BlocksOf(s) : k \in Nat \ {0} /\ <<s, k>> \in Obj /\ Allocated(<<s, k>>)
<1>1. SeqOK(s) /\ ManagerTypeOK /\ tokens[s] \in Text /\ Len(tokens[s]) \in Nat
  BY TextFacts DEF ManagerInv, ManagerTypeOK
<1>2. Filled(s) \in Nat /\ Filled(s) <= Len(tokens[s])
  BY <1>1 DEF SeqOK, TableOK, ManagerTypeOK, Filled
<1>3. \A k \in BlocksOf(s) : k \in Nat \ {0} /\ <<s, k>> \in Obj /\ Allocated(<<s, k>>)
  BY MaxBlocksAssumption, ObjectOf DEF BlocksOf
<1>. QED
  BY <1>1, <1>2, <1>3

(* While nothing is being freed, the prefixes of a block in use are in use.     *)
LEMMA NoFreeingHeld ==
  ASSUME ManagerInv, CacheInv, \A s \in SeqId : ~Freeing(s)
  PROVE  HeldRoots
<1>1. SUFFICES ASSUME NEW o \in Obj, Allocated(o), content[o] # NoHash, NEW g \in Roots(content[o])
               PROVE  \E p \in Obj : Allocated(p) /\ content[p] = g
  BY DEF HeldRoots
<1>2. PICK s \in SeqId, k \in 1..MaxBlocks : o = <<s, k>>
  BY ObjAssumption
<1>3. k \in BlocksOf(s)
  BY <1>1, <1>2 DEF BlocksOf
<1> DEFINE t == tokens[s]
<1>4. /\ t \in Text /\ Filled(s) \in Nat /\ Len(t) \in Nat /\ Filled(s) <= Len(t)
      /\ \A j \in BlocksOf(s) : j \in Nat \ {0} /\ <<s, j>> \in Obj /\ Allocated(<<s, j>>)
  BY FilledFacts
<1>5. k \in Nat \ {0} /\ k * BlockSize <= Filled(s) /\ content[o] = SubSeq(t, 1, k * BlockSize)
  BY <1>1, <1>2, <1>3, <1>4 DEF CacheInv, FilledOK, HashAt
<1>6. k * BlockSize \in Nat
  BY <1>5, BlockMultiples
<1>7. k * BlockSize <= Len(t)
  <2> DEFINE n == k * BlockSize
  <2> HIDE DEF n
  <2>1. n \in Nat /\ n <= Filled(s)
    BY <1>5, <1>6 DEF n
  <2>2. n <= Len(t)
    BY <1>4, <2>1
  <2>. QED
    BY <2>2 DEF n
<1>8. Roots(SubSeq(t, 1, k * BlockSize)) = {SubSeq(t, 1, j * BlockSize) : j \in 1..k}
  BY ONLY <1>4, <1>5, <1>7, RootsOfText, ZenonT(90)
<1>9. PICK j \in 1..k : g = SubSeq(t, 1, j * BlockSize)
  BY <1>1, <1>5, <1>8
<1>10. j \in BlocksOf(s)
  <2>1. PICK n \in Nat : BlocksOf(s) = 1..n
    BY BlocksInRow
  <2>. QED
    BY <1>3, <1>5, <2>1
<1>11. j * BlockSize <= Filled(s)
  <2>1. j \in Nat /\ j <= k
    BY <1>5
  <2>2. j * BlockSize \in Nat /\ j * BlockSize <= k * BlockSize
    BY <1>5, <2>1, BlockMultiples
  <2>. QED
    BY <1>4, <1>5, <1>6, <2>2
<1>12. content[<<s, j>>] = g
  BY <1>9, <1>10, <1>11 DEF CacheInv, FilledOK, HashAt
<1>. QED
  BY <1>4, <1>10, <1>12

(* A sequence whose blocks and tokens a step leaves alone.                      *)
LEMMA FilledSame ==
  ASSUME NEW s \in SeqId, FilledOK(s), Freeing(s) => Freeing(s)',
         BlocksOf(s)' = BlocksOf(s), \A k \in BlocksOf(s) : content'[<<s, k>>] = content[<<s, k>>],
         Filled(s)' = Filled(s), tokens'[s] = tokens[s]
  PROVE  FilledOK(s)'
BY DEF FilledOK, HashAt

LEMMA NotFreeing ==
  ASSUME NEW s \in SeqId, ~Freeing(s)'
  PROVE  FreeingOK(s)'
BY DEF FreeingOK

(* A step that leaves the blocks alone.                                     *)
LEMMA CacheIdle ==
  ASSUME ManagerInv, CacheInv, call = Idle, UNCHANGED <<tables, full_slots, call>>,
         UNCHANGED <<free_table, older, cached, block_id, content>>,
         tokens' \in [SeqId -> Text],
         \A s \in tables : /\ Len(tokens[s]) <= Len(tokens'[s])
                           /\ SubSeq(tokens'[s], 1, Len(tokens[s])) = tokens[s],
         \A s \in SeqId \ tables : BlocksOf(s) = {}
  PROVE  CacheInv'
<1>1. ChainInv'
  BY ChainSame DEF ManagerInv, CacheInv
<1>2. ASSUME NEW s \in SeqId PROVE FilledOK(s)' /\ FreeingOK(s)'
  <2>1. ~Freeing(s) /\ ~Freeing(s)' /\ BlocksOf(s)' = BlocksOf(s) /\ FilledOK(s)
    BY OneCall, OneCallNext DEF BlocksOf, Allocated, CacheInv
  <2>2. CASE s \in tables
    <3> DEFINE t == tokens[s]
               u == tokens'[s]
               f == full_slots[s]
    <3>1. /\ t \in Text /\ u \in Text /\ t \in Seq(Nat) /\ u \in Seq(Nat)
          /\ Len(t) \in Nat /\ Len(u) \in Nat
          /\ f \in Nat /\ f <= Len(t) /\ Filled(s) = f /\ Filled(s)' = f
          /\ Len(t) <= Len(u) /\ SubSeq(u, 1, Len(t)) = t
      BY <2>2, TextFacts DEF ManagerInv, ManagerTypeOK, SeqOK, TableOK, Filled
    <3> HIDE DEF t, u
    <3>2. ASSUME NEW k \in BlocksOf(s), k * BlockSize <= f
          PROVE  SubSeq(u, 1, k * BlockSize) = SubSeq(t, 1, k * BlockSize)
      <4> DEFINE m == k * BlockSize
      <4>1. k \in Nat \ {0}
        BY DEF BlocksOf
      <4>2. m \in Nat /\ m <= f
        BY <3>2, <4>1, BlockMultiples
      <4>3. m \in 1..Len(t)
        <5> HIDE DEF m
        <5>1. m <= Len(t)
          BY <3>1, <4>2
        <5>. QED
          BY <3>1, <4>1, <5>1, CutHash DEF m
      <4> HIDE DEF m
      <4>4. Len(t) \in 1..Len(u)
        BY <3>1, <4>3
      <4>5. SubSeq(SubSeq(u, 1, Len(t)), 1, m) = SubSeq(u, 1, m)
        BY <3>1, <4>3, <4>4, PrefixOfPrefix
      <4>. QED
        BY <3>1, <4>5 DEF m
    <3>3. ASSUME NEW k \in BlocksOf(s)
          PROVE  content'[<<s, k>>] = IF k * BlockSize <= Filled(s)' THEN HashAt(s, k)' ELSE NoHash
      <4>1. content[<<s, k>>] = IF k * BlockSize <= f THEN HashAt(s, k) ELSE NoHash
        BY <2>1, <3>1 DEF FilledOK
      <4>2. HashAt(s, k) = SubSeq(t, 1, k * BlockSize) /\ HashAt(s, k)' = SubSeq(u, 1, k * BlockSize)
        BY DEF HashAt, t, u
      <4>. QED
        BY <3>1, <3>2, <4>1, <4>2
    <3>. QED
      BY <2>1, <3>3 DEF FilledOK, FreeingOK
  <2>3. CASE s \notin tables
    BY <2>1, <2>3 DEF FilledOK, FreeingOK
  <2>. QED
    BY <2>2, <2>3
<1>. QED
  BY <1>1, <1>2 DEF CacheInv

(* Only s takes part in the call of the allocator: the others are as they were. *)
LEMMA OthersFilled ==
  ASSUME CacheInv, NEW s \in SeqId, NEW k \in 1..MaxBlocks, NEW h,
         NEW b, Holds(<<s, k>>, b, h), ManagerTypeOK, AllocTypeOK,
         tables' \ {s} = tables \ {s}, \A r \in SeqId : r # s => full_slots'[r] = full_slots[r],
         \A r \in SeqId : r # s => tokens'[r] = tokens[r],
         NEW r \in SeqId, r # s, Freeing(r) => Freeing(r)'
  PROVE  FilledOK(r)'
<1>1. /\ block_id' = [block_id EXCEPT ![<<s, k>>] = b]
      /\ content' = [content EXCEPT ![<<s, k>>] = h]
  BY DEF Holds
<1>2. \A j \in 1..MaxBlocks : <<r, j>> \in Obj /\ <<r, j>> # <<s, k>>
  BY ObjectOf
<1>3. \A j \in 1..MaxBlocks : block_id'[<<r, j>>] = block_id[<<r, j>>]
                              /\ content'[<<r, j>>] = content[<<r, j>>]
  BY <1>1, <1>2 DEF AllocTypeOK
<1>4. BlocksOf(r)' = BlocksOf(r) /\ \A j \in BlocksOf(r) : content'[<<r, j>>] = content[<<r, j>>]
  BY <1>3 DEF BlocksOf, Allocated
<1>5. Filled(r)' = Filled(r)
  BY DEF Filled
<1>. QED
  BY <1>4, <1>5, FilledSame DEF CacheInv

(* allocate begins: nothing has happened to the blocks yet.                     *)
LEMMA AllocateBeginCache ==
  ASSUME ManagerInv, CacheInv, NEW s \in SeqId, AllocateBegin(s), UNCHANGED tokens
  PROVE  CacheInv'
<1>1. /\ call = Idle /\ call' = Calling("allocate", s)
      /\ UNCHANGED <<free_table, older, cached, block_id, content, tables, full_slots>>
  BY DEF AllocateBegin, Calling, allocVars, managerVars
<1>2. ChainInv'
  BY <1>1, ChainSame DEF ManagerInv, CacheInv
<1>3. ASSUME NEW r \in SeqId PROVE FilledOK(r)' /\ FreeingOK(r)'
  <2>1. ~Freeing(r) /\ ~Freeing(r)'
    BY <1>1, OneCall, CallsDiffer DEF Freeing, Calling
  <2>2. BlocksOf(r)' = BlocksOf(r) /\ Filled(r)' = Filled(r)
    BY <1>1 DEF BlocksOf, Allocated, Filled
  <2>. QED
    BY <1>1, <2>1, <2>2, FilledSame, NotFreeing DEF CacheInv
<1>. QED
  BY <1>2, <1>3 DEF CacheInv

(* The blocks before the n-th of a table hold the roots of its hash.            *)
LEMMA TableRoots ==
  ASSUME ManagerInv, CacheInv, NEW s \in SeqId, ~Freeing(s), NEW n \in Nat \ {0},
         n * BlockSize <= Len(tokens[s]),
         \A j \in 1..n : j # n => j \in BlocksOf(s) /\ j * BlockSize <= Filled(s)
  PROVE  RootsHeld(HashAt(s, n))
<1> DEFINE t == tokens[s]
<1>1. /\ t \in Text /\ n \in Nat \ {0} /\ n * BlockSize <= Len(t)
      /\ \A j \in BlocksOf(s) : <<s, j>> \in Obj /\ Allocated(<<s, j>>)
  BY FilledFacts
<1>2. HashAt(s, n) = SubSeq(t, 1, n * BlockSize)
  BY DEF HashAt
<1> HIDE DEF t
<1>3. Roots(SubSeq(t, 1, n * BlockSize)) = {SubSeq(t, 1, j * BlockSize) : j \in 1..n}
  BY ONLY <1>1, RootsOfText, ZenonT(90)
<1>4. ASSUME NEW g \in Roots(HashAt(s, n)), g # HashAt(s, n)
      PROVE  \E p \in Obj : Allocated(p) /\ content[p] = g
  <2>1. PICK j \in 1..n : g = SubSeq(t, 1, j * BlockSize)
    BY <1>2, <1>3, <1>4
  <2>2. j # n
    BY <1>2, <1>4, <2>1
  <2>3. content[<<s, j>>] = HashAt(s, j) /\ j \in BlocksOf(s)
    BY <2>2 DEF CacheInv, FilledOK
  <2>4. content[<<s, j>>] = g
    BY <2>1, <2>3 DEF HashAt, t
  <2>. QED
    BY <1>1, <2>3, <2>4
<1>. QED
  BY <1>4 DEF RootsHeld

(* allocate takes the next block of the prompt, after those of its roots.       *)
LEMMA AllocateNextBlockCache ==
  ASSUME ManagerInv, CacheInv, NEW s \in SeqId, AllocateNextBlock(s), UNCHANGED tokens
  PROVE  CacheInv'
<1>1. Allocating(s) /\ UNCHANGED <<tables, full_slots, call>>
  BY DEF AllocateNextBlock, managerVars
<1>2. AllocInv /\ AllocTypeOK /\ ManagerTypeOK /\ SeqOK(s)
  BY DEF ManagerInv, AllocInv
<1>3. \A r \in SeqId : ~Freeing(r) /\ ~Freeing(r)'
  BY <1>1, OneCall, OneCallNext DEF Allocating, Freeing
<1>4. HeldRoots
  BY <1>3, NoFreeingHeld
<1>5. s \notin tables /\ Filled(s) = Len(tokens[s]) /\ Filled(s)' = Filled(s)
  BY <1>1, <1>2 DEF SeqOK, Busy, Filled
<1>6. PICK n \in Nat : BlocksOf(s) = 1..n
  BY <1>3, BlocksInRow
<1> DEFINE k == n + 1
<1>7. NumBlocks(s) = n
  BY <1>6, CountBlocks
<1>8. /\ k <= NumRequired(s)
      /\ IF k * BlockSize <= Len(tokens[s])
           THEN \/ AllocateImmutableHit(<<s, k>>, HashAt(s, k))
                \/ AllocateImmutableMiss(<<s, k>>, HashAt(s, k))
           ELSE AllocateMutable(<<s, k>>)
  BY <1>7 DEF AllocateNextBlock
<1>9. k \in Nat \ {0} /\ k \in 1..MaxBlocks /\ <<s, k>> \in Obj
  <2>1. NumRequired(s) \in Nat /\ NumRequired(s) <= MaxBlocks
    BY <1>2, TextFacts DEF ManagerTypeOK, NumRequired
  <2>2. k \in 1..MaxBlocks
    BY <1>8, <2>1, MaxBlocksAssumption
  <2>. QED
    BY <2>2, ObjectOf
<1> HIDE DEF k
<1>10. ASSUME NEW h, NEW b \in Block, Holds(<<s, k>>, b, h), ChainInv',
              h = IF k * BlockSize <= Len(tokens[s]) THEN HashAt(s, k) ELSE NoHash
       PROVE  CacheInv'
  <2>1. ASSUME NEW r \in SeqId, r # s PROVE FilledOK(r)'
    BY <1>1, <1>2, <1>3, <1>9, <1>10, <2>1, OthersFilled
  <2>2. ASSUME NEW j \in BlocksOf(s)'
        PROVE  content'[<<s, j>>] = IF j * BlockSize <= Filled(s)' THEN HashAt(s, j)' ELSE NoHash
    <3>1. j \in 1..MaxBlocks /\ <<s, j>> \in Obj /\ HashAt(s, j)' = HashAt(s, j)
      BY ObjectOf DEF BlocksOf, HashAt
    <3>2. CASE j = k
      BY <1>2, <1>5, <1>9, <1>10, <3>1, <3>2 DEF Holds, AllocTypeOK
    <3>3. CASE j # k
      <4>1. <<s, j>> # <<s, k>>
        BY <3>3
      <4>2. content'[<<s, j>>] = content[<<s, j>>] /\ block_id'[<<s, j>>] = block_id[<<s, j>>]
        BY <1>2, <1>9, <1>10, <3>1, <4>1 DEF Holds, AllocTypeOK
      <4>3. j \in BlocksOf(s)
        BY <3>1, <4>2 DEF BlocksOf, Allocated
      <4>. QED
        BY <1>3, <1>5, <3>1, <4>2, <4>3 DEF CacheInv, FilledOK
    <3>. QED
      BY <3>2, <3>3
  <2>3. FilledOK(s)'
    BY <2>2 DEF FilledOK
  <2>. QED
    BY <1>3, <1>10, <2>1, <2>3, NotFreeing DEF CacheInv
<1>11. CASE k * BlockSize <= Len(tokens[s])
  <2>1. HashAt(s, k) \in Hash
    BY <1>2, <1>9, <1>11, HashOfPrefix DEF ManagerTypeOK
  <2>2. \A j \in 1..k : j # k => j \in BlocksOf(s) /\ j * BlockSize <= Filled(s)
    <3>1. SUFFICES ASSUME NEW j \in 1..k, j # k
                   PROVE  j \in BlocksOf(s) /\ j * BlockSize <= Filled(s)
      OBVIOUS
    <3>2. j \in 1..n /\ j \in Nat /\ j <= k
      BY <1>9, <3>1 DEF k
    <3>3. j * BlockSize \in Nat /\ j * BlockSize <= k * BlockSize /\ k * BlockSize \in Nat
      BY <1>9, <3>2, BlockMultiples
    <3>4. Len(tokens[s]) \in Nat
      BY FilledFacts
    <3>. QED
      BY <1>5, <1>6, <1>11, <3>2, <3>3, <3>4
  <2>3. RootsHeld(HashAt(s, k))
    BY <1>3, <1>9, <1>11, <2>2, TableRoots
  <2>4. AllocateImmutableHit(<<s, k>>, HashAt(s, k)) \/ AllocateImmutableMiss(<<s, k>>, HashAt(s, k))
    BY <1>8, <1>11 DEF k
  <2>5. ChainInv'
    BY <1>2, <1>4, <1>9, <2>1, <2>3, <2>4, ChainMiss, ChainFound DEF CacheInv
  <2>6. PICK b \in Block : Holds(<<s, k>>, b, HashAt(s, k))
    <3>1. CASE AllocateImmutableHit(<<s, k>>, HashAt(s, k))
      BY <1>2, <2>1, <3>1 DEF AllocateImmutableHit, AllocTypeOK
    <3>2. CASE AllocateImmutableMiss(<<s, k>>, HashAt(s, k))
      BY <3>2 DEF AllocateImmutableMiss
    <3>. QED
      BY <2>4, <3>1, <3>2
  <2>. QED
    BY <1>10, <1>11, <2>5, <2>6
<1>12. CASE ~(k * BlockSize <= Len(tokens[s]))
  <2>1. AllocateMutable(<<s, k>>)
    BY <1>8, <1>12 DEF k
  <2>2. ChainInv'
    BY <1>2, <1>4, <1>9, <2>1, ChainMutable DEF CacheInv
  <2>3. PICK b \in Block : Holds(<<s, k>>, b, NoHash)
    BY <2>1 DEF AllocateMutable
  <2>. QED
    BY <1>10, <1>12, <2>2, <2>3
<1>. QED
  BY <1>11, <1>12

LEMMA AllocateEndCache ==
  ASSUME ManagerInv, CacheInv, NEW s \in SeqId, AllocateEnd(s), UNCHANGED tokens
  PROVE  CacheInv'
<1>1. /\ Allocating(s) /\ call' = Idle /\ tables' = tables \cup {s}
      /\ full_slots' = [full_slots EXCEPT ![s] = Len(tokens[s])]
      /\ UNCHANGED <<free_table, older, cached, block_id, content>>
  BY DEF AllocateEnd, allocVars
<1>2. ChainInv'
  BY <1>1, ChainSame DEF ManagerInv, CacheInv
<1>3. ManagerTypeOK /\ s \notin tables
  BY <1>1 DEF ManagerInv, SeqOK, Busy
<1>4. ASSUME NEW r \in SeqId PROVE FilledOK(r)' /\ FreeingOK(r)'
  <2>1. ~Freeing(r) /\ ~Freeing(r)'
    BY <1>1, OneCall, OneCallNext
  <2>2. BlocksOf(r)' = BlocksOf(r)
    BY <1>1 DEF BlocksOf, Allocated
  <2>3. Filled(r)' = Filled(r)
    BY <1>1, <1>3 DEF Filled, ManagerTypeOK
  <2>. QED
    BY <1>1, <2>1, <2>2, <2>3, FilledSame, NotFreeing DEF CacheInv
<1>. QED
  BY <1>2, <1>4 DEF CacheInv

LEMMA FreeEndCache ==
  ASSUME ManagerInv, CacheInv, NEW s \in SeqId, FreeEnd(s), UNCHANGED tokens
  PROVE  CacheInv'
<1>1. /\ Freeing(s) /\ call' = Idle /\ BlocksOf(s) = {}
      /\ UNCHANGED <<free_table, older, cached, block_id, content, tables, full_slots>>
  BY DEF FreeEnd, allocVars, managerVars
<1>2. ChainInv'
  BY <1>1, ChainSame DEF ManagerInv, CacheInv
<1>3. ASSUME NEW r \in SeqId PROVE FilledOK(r)' /\ FreeingOK(r)'
  <2>1. ~Freeing(r)' /\ (Freeing(r) => r = s)
    BY <1>1, OneCall, OneCallNext
  <2>2. BlocksOf(r)' = BlocksOf(r) /\ Filled(r)' = Filled(r)
    BY <1>1 DEF BlocksOf, Allocated, Filled
  <2>3. CASE r = s
    BY <1>1, <2>2, <2>3, NotFreeing, <2>1 DEF FilledOK
  <2>4. CASE r # s
    BY <1>1, <2>1, <2>2, <2>4, FilledSame, NotFreeing DEF CacheInv
  <2>. QED
    BY <2>3, <2>4
<1>. QED
  BY <1>2, <1>3 DEF CacheInv

(* free begins: the blocks of the table hold the roots of each other, none of   *)
(* them is in the evictor, and all get the stamp of the sequence.             *)
LEMMA FreeBeginCache ==
  ASSUME ManagerInv, CacheInv, NEW s \in SeqId, FreeBegin(s), last_access[s] # NotAccessed,
         \A r \in SeqId : r # s => tokens'[r] = tokens[r]
  PROVE  CacheInv'
<1>0. BlockSize \in Nat \ {0}
  BY BlockSizeAssumption
<1>1. /\ call = Idle /\ s \in tables /\ tables' = tables \ {s}
      /\ full_slots' = [full_slots EXCEPT ![s] = 0] /\ call' = Calling("free", s)
      /\ MarkAccessed(BlockIds(s), last_access[s])
  BY DEF FreeBegin, Calling
<1>3. AllocInv /\ AllocTypeOK /\ ManagerTypeOK /\ SeqOK(s)
  BY DEF ManagerInv, AllocInv
<1>2. /\ UNCHANGED <<free_table, older, cached, block_id, content>>
      /\ last_accessed' = [b \in Block |-> IF b \in BlockIds(s) THEN last_access[s]
                                                                ELSE last_accessed[b]]
  <2>1. ASSUME NEW b \in BlockIds(s) PROVE b \in Block /\ active[b]
    <3>1. PICK k \in BlocksOf(s) : block_id[<<s, k>>] = b
      BY <2>1 DEF BlockIds
    <3>2. <<s, k>> \in Obj /\ b \in Block
      BY <1>3, <3>1, ObjectOf DEF BlocksOf, Allocated, AllocTypeOK
    <3>3. refcount[b] # 0
      BY <1>3, <3>1, <3>2, HoldersOfRefcount DEF AllocInv
    <3>. QED
      BY <1>3, <3>2, <3>3 DEF AllocInv, BlocksPartitioned
  <2>. QED
    BY <1>1, <1>3, <2>1, AccessedInUse DEF MarkAccessed
<1>4. ChainInv'
  BY <1>2, <1>3, ChainSame DEF CacheInv
<1>5. Freeing(s)' /\ \A r \in SeqId : ~Freeing(r) /\ (Freeing(r)' => r = s)
  BY <1>1, OneCall, OneCallNext DEF Freeing, Calling
<1>6. HeldRoots
  BY <1>5, NoFreeingHeld
<1>7. \A r : BlocksOf(r)' = BlocksOf(r)
  BY <1>2 DEF BlocksOf, Allocated
<1>8. ASSUME NEW r \in SeqId, r # s PROVE FilledOK(r)' /\ FreeingOK(r)'
  <2>1. Filled(r)' = Filled(r)
    BY <1>1, <1>3, <1>8 DEF Filled, ManagerTypeOK
  <2>. QED
    BY <1>2, <1>5, <1>7, <1>8, <2>1, FilledSame, NotFreeing DEF CacheInv
<1> DEFINE t == tokens[s]
           f == full_slots[s]
           n == Cdiv(f, BlockSize)
<1>9. /\ t \in Text /\ Filled(s) = f /\ f \in Nat /\ Len(t) \in Nat /\ f <= Len(t)
      /\ \A j \in BlocksOf(s) : j \in Nat \ {0} /\ <<s, j>> \in Obj /\ Allocated(<<s, j>>)
  BY <1>1, FilledFacts DEF Filled
<1>10. BlocksOf(s) = 1..n /\ n \in Nat /\ n * BlockSize < f + BlockSize /\ n * BlockSize \in Nat
  BY <1>1, <1>3, <1>9, CdivBlocks, BlockMultiples DEF SeqOK, TableOK
<1> HIDE DEF t, f, n
<1>11. \A j \in BlocksOf(s) : content[<<s, j>>] = IF j * BlockSize <= f THEN HashAt(s, j) ELSE NoHash
  BY <1>5, <1>9 DEF CacheInv, FilledOK
<1>12. \A j \in BlocksOf(s) : StampOf(s, j)' = last_access[s]
  <2>1. ASSUME NEW j \in BlocksOf(s) PROVE StampOf(s, j)' = last_access[s]
    <3>1. block_id[<<s, j>>] \in Block /\ block_id[<<s, j>>] \in BlockIds(s)
      BY <1>3, <1>9 DEF AllocTypeOK, Allocated, BlockIds
    <3>. QED
      BY <1>2, <3>1 DEF StampOf
  <2>. QED
    BY <2>1
<1>13. ASSUME NEW k \in BlocksOf(s)
       PROVE  /\ content'[<<s, k>>] = NoHash => LastOfTable(s, k)'
              /\ content'[<<s, k>>] # NoHash => ContinuesTable(s, k)' /\ ExtendsRuns(s, k)'
  <2>1. ASSUME content[<<s, k>>] = NoHash, NEW j \in BlocksOf(s), ~(j <= k) PROVE FALSE
    <3> DEFINE p == k * BlockSize
               q == n * BlockSize
    <3>1. p > f
      <4>1. k * BlockSize <= f => HashAt(s, k) \in Hash
        <5>1. k * BlockSize \in Nat
          BY <1>9, BlockMultiples
        <5>2. k * BlockSize <= f => k * BlockSize <= Len(t)
          BY <1>9, <5>1
        <5>. QED
          BY <1>3, <1>9, <5>2, HashOfPrefix DEF ManagerTypeOK, t
      <4>2. ~(k * BlockSize <= f)
        BY <1>11, <2>1, <4>1, NoHashAssumption
      <4>3. k * BlockSize \in Nat
        BY <1>9, BlockMultiples
      <4>. QED
        BY <1>9, <4>2, <4>3
    <3>2. p + BlockSize <= q /\ p \in Nat /\ q \in Nat /\ q < f + BlockSize
      BY <1>9, <1>10, <2>1, BlockMultiples
    <3> HIDE DEF p, q
    <3>. QED
      BY <1>0, <1>9, <3>1, <3>2
  <2>2. ASSUME content[<<s, k>>] # NoHash
        PROVE  /\ Depth[content[<<s, k>>]] = k /\ content[<<s, k>>] \in Hash
               /\ \A j \in BlocksOf(s) : j <= k => content[<<s, j>>] \in Roots(content[<<s, k>>])
    <3>1. k * BlockSize <= f /\ content[<<s, k>>] = HashAt(s, k)
      BY <1>11, <2>2
    <3>2. k \in Nat \ {0} /\ k * BlockSize \in Nat
      BY <1>9, BlockMultiples
    <3>3. k * BlockSize <= Len(t)
      BY <1>9, <3>1, <3>2
    <3>4. content[<<s, k>>] = SubSeq(t, 1, k * BlockSize)
      BY <3>1 DEF HashAt, t
    <3>5. Depth[content[<<s, k>>]] = k /\ content[<<s, k>>] \in Hash
      BY <1>9, <3>2, <3>3, <3>4, CutHash
    <3>6. Roots(SubSeq(t, 1, k * BlockSize)) = {SubSeq(t, 1, j * BlockSize) : j \in 1..k}
      BY ONLY <1>9, <3>2, <3>3, RootsOfText, ZenonT(90)
    <3>7. ASSUME NEW j \in BlocksOf(s), j <= k PROVE content[<<s, j>>] \in Roots(content[<<s, k>>])
      <4>0. j \in Nat \ {0} /\ k \in Nat \ {0}
        BY <1>9
      <4>1. j \in Nat \ {0} /\ j \in 1..k
        BY <3>7, <4>0
      <4>2. j * BlockSize \in Nat /\ j * BlockSize <= k * BlockSize
        BY <3>2, <3>7, <4>1, BlockMultiples
      <4> DEFINE m == j * BlockSize
                 p == k * BlockSize
      <4>5. m \in Nat /\ m <= p /\ p \in Nat /\ p <= f
        BY <3>1, <3>2, <4>2
      <4> HIDE DEF m, p
      <4>6. m <= f
        BY <1>9, <4>5
      <4>7. content[<<s, j>>] = HashAt(s, j)
        BY <1>11, <4>6 DEF m
      <4>3. content[<<s, j>>] = SubSeq(t, 1, j * BlockSize)
        BY <4>7 DEF HashAt, t
      <4>. QED
        BY <3>4, <3>6, <4>1, <4>3
    <3>. QED
      BY <3>5, <3>7
  <2>3. ASSUME content[<<s, k>>] # NoHash, NEW b \in InEvictor,
               free_table[b].hash \in Roots(content[<<s, k>>])
        PROVE  FALSE
    <3>1. PICK p \in Obj : Allocated(p) /\ content[p] = free_table[b].hash
      BY <1>6, <1>9, <2>3 DEF HeldRoots
    <3>2. free_table[b].hash \in Hash /\ cached[free_table[b].hash] = b
          /\ b \in Block /\ refcount[b] = 0
      BY <1>3 DEF AllocInv, AllocTypeOK, InEvictor, Entry, CachedMapExact, EvictorIsCached,
         BlocksPartitioned
    <3>3. block_id[p] = b
      BY <1>3, <3>1, <3>2, NoHashAssumption DEF AllocInv, CachedMapExact, FullIsCached
    <3>. QED
      BY <1>3, <3>2, <3>3, HoldersOfRefcount DEF AllocInv
  <2>4. InEvictor' = InEvictor
    BY <1>2 DEF InEvictor
  <2>5. content[<<s, k>>] = NoHash => LastOfTable(s, k)'
    BY <1>7, <2>1 DEF LastOfTable
  <2>6. content[<<s, k>>] # NoHash => ContinuesTable(s, k)'
    BY <1>2, <1>7, <2>2 DEF ContinuesTable
  <2>7. content[<<s, k>>] # NoHash => ExtendsRuns(s, k)'
    BY <1>2, <2>3, <2>4 DEF ExtendsRuns
  <2>. QED
    BY <1>2, <2>5, <2>6, <2>7
<1>14. FilledOK(s)' /\ FreeingOK(s)'
  BY <1>5, <1>7, <1>12, <1>13 DEF FilledOK, FreeingOK
<1>. QED
  BY <1>4, <1>8, <1>14 DEF CacheInv

(* free gives back the first of the blocks that are left: the others continue   *)
(* it, and it bears their stamp.                                            *)
LEMMA FreeNextBlockCache ==
  ASSUME ManagerInv, CacheInv, NEW s \in SeqId, FreeNextBlock(s), UNCHANGED tokens
  PROVE  CacheInv'
<1>1. Freeing(s) /\ UNCHANGED <<tables, full_slots, call>>
  BY DEF FreeNextBlock, managerVars
<1>2. AllocInv /\ AllocTypeOK /\ ManagerTypeOK
  BY DEF ManagerInv, AllocInv
<1>3. Freeing(s)' /\ \A r \in SeqId : r # s => ~Freeing(r) /\ ~Freeing(r)'
  BY <1>1, OneCall, OneCallNext DEF Freeing
<1>4. PICK k \in BlocksOf(s) : /\ \A j \in BlocksOf(s) : k <= j
                               /\ FreeCached(<<s, k>>) \/ FreeHashless(<<s, k>>)
  BY DEF FreeNextBlock
<1>5. PICK b : b = block_id[<<s, k>>]
  OBVIOUS
<1>6. k \in 1..MaxBlocks /\ \A j \in BlocksOf(s) : j \in Nat \ {0} /\ <<s, j>> \in Obj
                                                   /\ Allocated(<<s, j>>)
  BY FilledFacts DEF BlocksOf
<1>7. Holds(<<s, k>>, NoBlock, NoHash) /\ b \in Block
  BY <1>2, <1>4, <1>5, <1>6 DEF FreeCached, FreeHashless, AllocTypeOK, Allocated
<1>8. ASSUME NEW r \in SeqId, r # s PROVE FilledOK(r)' /\ FreeingOK(r)'
  <2>1. FilledOK(r)'
    BY <1>1, <1>2, <1>3, <1>6, <1>7, <1>8, OthersFilled
  <2>. QED
    BY <1>3, <1>8, <2>1, NotFreeing
<1>9. /\ BlocksOf(s)' = BlocksOf(s) \ {k}
      /\ \A j \in BlocksOf(s)' : /\ block_id'[<<s, j>>] = block_id[<<s, j>>]
                                 /\ content'[<<s, j>>] = content[<<s, j>>]
  <2>1. \A j \in 1..MaxBlocks :
          /\ j = k => block_id'[<<s, j>>] = NoBlock
          /\ j # k => block_id'[<<s, j>>] = block_id[<<s, j>>] /\ content'[<<s, j>>] = content[<<s, j>>]
    <3>1. ASSUME NEW j \in 1..MaxBlocks
          PROVE  /\ j = k => block_id'[<<s, j>>] = NoBlock
                 /\ j # k => block_id'[<<s, j>>] = block_id[<<s, j>>] /\ content'[<<s, j>>] = content[<<s, j>>]
      <4>1. <<s, j>> \in Obj /\ <<s, k>> \in Obj /\ (j # k => <<s, j>> # <<s, k>>)
        BY <1>6, ObjectOf
      <4>. QED
        BY <1>2, <1>7, <4>1 DEF Holds, AllocTypeOK
    <3>. QED
      BY <3>1
  <2>. QED
    BY <2>1 DEF BlocksOf, Allocated
<1>10. FilledOK(s)'
  BY <1>3 DEF FilledOK
<1>11. FreeingOK(s)
  BY DEF CacheInv
<1>12. CASE FreeHashless(<<s, k>>)
  <2>1. content[<<s, k>>] = NoHash /\ UNCHANGED <<free_table, older, cached>>
    BY <1>12 DEF FreeHashless
  <2>2. ChainInv'
    BY <1>2, <2>1, ChainSame DEF CacheInv
  <2>3. BlocksOf(s)' = {}
    <3>1. \A j \in BlocksOf(s) : j <= k
      BY <1>1, <1>11, <2>1 DEF FreeingOK, LastOfTable
    <3>. QED
      <4>1. k \in Nat /\ \A j \in BlocksOf(s) : j \in Nat /\ k <= j /\ j <= k
        BY <1>4, <1>6, <3>1
      <4>2. \A j \in BlocksOf(s) : j = k
        BY <4>1
      <4>. QED
        BY <1>9, <4>2
  <2>4. FreeingOK(s)'
    BY <2>3 DEF FreeingOK
  <2>. QED
    BY <1>8, <1>10, <2>2, <2>4 DEF CacheInv
<1>13. CASE FreeCached(<<s, k>>)
  <2>1. content[<<s, k>>] # NoHash /\ <<s, k>> \in Obj
    BY <1>6, <1>13 DEF FreeCached
  <2>2. ContinuesTable(s, k) /\ ExtendsRuns(s, k)
    BY <1>1, <1>11, <2>1 DEF FreeingOK
  <2>3. ChainInv'
    BY <1>2, <1>13, <2>1, <2>2, ChainFree DEF CacheInv, ExtendsRuns, StampOf
  <2>4. ASSUME NEW j \in BlocksOf(s)' PROVE block_id[<<s, j>>] # b /\ StampOf(s, j)' = StampOf(s, j)
    <3>1. j \in BlocksOf(s) /\ j # k /\ <<s, j>> \in Obj /\ Allocated(<<s, j>>)
      BY <1>6, <1>9
    <3>2. block_id[<<s, j>>] # b
      <4>1. SUFFICES ASSUME block_id[<<s, j>>] = b PROVE FALSE
        OBVIOUS
      <4>2. content[<<s, j>>] = content[<<s, k>>]
        BY <1>2, <1>5, <2>1, <3>1, <4>1 DEF AllocInv, SharedBlocksAgree
      <4>3. ContinuesTable(s, j)
        BY <1>1, <1>11, <2>1, <3>1, <4>2 DEF FreeingOK
      <4>. QED
        BY <2>2, <3>1, <4>2, <4>3 DEF ContinuesTable
    <3>3. block_id[<<s, j>>] \in Block
      BY <1>2, <3>1 DEF AllocTypeOK, Allocated
    <3>4. last_accessed'[block_id[<<s, j>>]] = last_accessed[block_id[<<s, j>>]]
      BY <1>2, <1>5, <1>13, <3>2, <3>3 DEF FreeCached, Untrack, AllocTypeOK
    <3>. QED
      BY <1>9, <3>2, <3>4 DEF StampOf
  <2>5. \A i, j \in BlocksOf(s) : StampOf(s, i) = StampOf(s, j)
    BY <1>1, <1>11 DEF FreeingOK
  <2>6. ASSUME NEW j \in BlocksOf(s)', ExtendsRuns(s, j) PROVE ExtendsRuns(s, j)'
    <3>1. /\ content'[<<s, j>>] = content[<<s, j>>] /\ StampOf(s, j)' = StampOf(s, j)
          /\ StampOf(s, j) = last_accessed[b]
      BY <1>5, <1>9, <2>4, <2>5 DEF StampOf
    <3>2. CASE refcount[b] = 1
      <4>1. b \notin InEvictor
        BY <1>2, <1>7, <3>2 DEF AllocInv, BlocksPartitioned
      <4>2. /\ free_table' = Added(b, content[<<s, k>>], last_accessed[b])
            /\ older' = OlderAdded(b)
        BY <1>5, <1>13, <3>2 DEF FreeCached
      <4>3. /\ InEvictor' = InEvictor \cup {b}
            /\ \A c \in InEvictor : free_table'[c] = free_table[c] /\ c # b
            /\ free_table'[b].ts = last_accessed[b]
        <5>1. content[<<s, k>>] \in Hash /\ last_accessed[b] \in Time
          BY <1>2, <1>7, <2>1 DEF AllocTypeOK
        <5>2. [hash |-> content[<<s, k>>], ts |-> last_accessed[b]] \in Entry
          BY <5>1 DEF Entry
        <5>. QED
          BY <1>2, <1>7, <4>1, <4>2, <5>2, NoEntryAssumption DEF Added, InEvictor, AllocTypeOK
      <4>4. /\ \A c, d : <<c, d>> \in older' <=> <<c, d>> \in older \/ (c \in InEvictor /\ d = b)
            /\ \A c, d : <<c, d>> \in older => c \in InEvictor /\ d \in InEvictor
        BY <4>2 DEF OlderAdded, CacheInv, ChainInv, InsertionOrder
      <4>5. SUFFICES ASSUME NEW c \in InEvictor', free_table'[c].hash \in Roots(content[<<s, j>>]),
                            NEW d \in InEvictor', d = c \/ <<c, d>> \in older'
                     PROVE  free_table'[d].ts = last_accessed[b]
        BY <3>1 DEF ExtendsRuns
      <4>6. CASE d = b
        BY <4>3, <4>6
      <4>7. CASE d # b
        <5>1. c \in InEvictor /\ d \in InEvictor /\ (d = c \/ <<c, d>> \in older)
          BY <4>1, <4>3, <4>4, <4>5, <4>7
        <5>. QED
          BY <2>6, <3>1, <4>3, <4>5, <5>1 DEF ExtendsRuns
      <4>. QED
        BY <4>6, <4>7
    <3>3. CASE refcount[b] # 1
      <4>1. UNCHANGED <<free_table, older>>
        BY <1>5, <1>13, <3>3 DEF FreeCached
      <4>2. InEvictor' = InEvictor
        BY <4>1 DEF InEvictor
      <4>. QED
        BY <2>6, <3>1, <4>1, <4>2 DEF ExtendsRuns
    <3>. QED
      BY <3>2, <3>3
  <2>7. FreeingOK(s)'
    <3>1. ASSUME NEW j \in BlocksOf(s)'
          PROVE  /\ content'[<<s, j>>] = NoHash => LastOfTable(s, j)'
                 /\ content'[<<s, j>>] # NoHash => ContinuesTable(s, j)' /\ ExtendsRuns(s, j)'
                 /\ \A i \in BlocksOf(s)' : StampOf(s, i)' = StampOf(s, j)'
      <4>1. j \in BlocksOf(s) /\ BlocksOf(s)' \subseteq BlocksOf(s)
            /\ content'[<<s, j>>] = content[<<s, j>>]
        BY <1>9
      <4>2. content[<<s, j>>] = NoHash => LastOfTable(s, j)
        BY <1>1, <1>11, <4>1 DEF FreeingOK
      <4>3. content[<<s, j>>] # NoHash => ContinuesTable(s, j) /\ ExtendsRuns(s, j)
        BY <1>1, <1>11, <4>1 DEF FreeingOK
      <4>4. content[<<s, j>>] = NoHash => LastOfTable(s, j)'
        BY <4>1, <4>2 DEF LastOfTable
      <4>5. content[<<s, j>>] # NoHash => ContinuesTable(s, j)'
        BY <1>9, <4>1, <4>3 DEF ContinuesTable
      <4>6. content[<<s, j>>] # NoHash => ExtendsRuns(s, j)'
        BY <2>6, <4>3
      <4>7. \A i \in BlocksOf(s)' : StampOf(s, i)' = StampOf(s, j)'
        BY <2>4, <2>5, <4>1
      <4>. QED
        BY <4>1, <4>4, <4>5, <4>6, <4>7
    <3>. QED
      BY <3>1 DEF FreeingOK
  <2>. QED
    BY <1>8, <1>10, <2>3, <2>7 DEF CacheInv
<1>. QED
  BY <1>4, <1>12, <1>13

LEMMA CallStepCache ==
  ASSUME ManagerInv, CacheInv, CallStep, UNCHANGED tokens
  PROVE  CacheInv'
BY AllocateNextBlockCache, AllocateEndCache, FreeNextBlockCache, FreeEndCache DEF CallStep

(* append_slots fills the last block of the table, or adds one that is not full. *)
LEMMA AppendSlotsCache ==
  ASSUME ManagerInv, CacheInv, NEW s \in SeqId, AppendSlots(s), UNCHANGED tokens
  PROVE  CacheInv'
<1>0. BlockSize \in Nat \ {0} /\ BlockSize > 1 /\ MaxBlocks \in Nat
  BY BlockSizeAssumption, MaxBlocksAssumption
<1>1. /\ call = Idle /\ s \in tables /\ Unseen(s) \in {0, 1}
      /\ full_slots' = [full_slots EXCEPT ![s] = Len(tokens[s])]
      /\ UNCHANGED <<tables, last_access, call>>
  BY DEF AppendSlots
<1>2. AllocInv /\ AllocTypeOK /\ ManagerTypeOK /\ SeqOK(s) /\ tokens[s] \in Text
  BY DEF ManagerInv, AllocInv, ManagerTypeOK
<1>3. \A r \in SeqId : ~Freeing(r) /\ ~Freeing(r)'
  BY <1>1, OneCall, OneCallNext
<1> DEFINE f == full_slots[s]
           len == Len(tokens[s])
           n == Cdiv(f, BlockSize)
           p == n * BlockSize
<1>4. /\ f \in Nat /\ f > 0 /\ len \in Nat /\ (len = f \/ len = f + 1)
      /\ BlocksOf(s) = 1..n /\ len <= MaxBlocks * BlockSize
  BY <1>1, <1>2, TextFacts DEF SeqOK, TableOK, ManagerTypeOK, Unseen
<1>5. n \in Nat /\ f <= p /\ p < f + BlockSize /\ p \in Nat
  BY <1>4, CdivBlocks, BlockMultiples
<1>6. NumBlocks(s) = n /\ n > 0
  <2>1. n = 0 => p = 0
    BY <1>0
  <2>. QED
    BY <1>4, <1>5, <2>1, CountBlocks
<1>7. HeldRoots
  BY <1>3, NoFreeingHeld
<1>8. Filled(s) = f /\ Filled(s)' = len
  BY <1>1, <1>2 DEF Filled, ManagerTypeOK
<1> HIDE DEF f, len, n, p
<1>9. \A j \in 1..n : content[<<s, j>>] = IF j * BlockSize <= f THEN HashAt(s, j) ELSE NoHash
  BY <1>3, <1>4, <1>8 DEF CacheInv, FilledOK
<1>10. ASSUME NEW j \in Nat, j < n PROVE j * BlockSize <= f /\ j * BlockSize <= len
  <2> DEFINE q == j * BlockSize
  <2>1. q \in Nat /\ q + BlockSize <= p
    BY <1>5, <1>10, BlockMultiples DEF p
  <2> HIDE DEF q
  <2>2. q <= f /\ q <= len
    BY <1>0, <1>4, <1>5, <2>1
  <2>. QED
    BY <2>2 DEF q
(* One object changes; the others of the table keep the content they need.     *)
<1>11. ASSUME NEW k \in 1..MaxBlocks, NEW h, NEW b \in Block, Holds(<<s, k>>, b, h), ChainInv',
              h = IF k * BlockSize <= len THEN HashAt(s, k) ELSE NoHash,
              \A j \in 1..n : j # k => (j * BlockSize <= f <=> j * BlockSize <= len)
       PROVE  CacheInv'
  <2>1. ASSUME NEW r \in SeqId, r # s PROVE FilledOK(r)'
    <3>1. \A q \in SeqId : q # s => full_slots'[q] = full_slots[q]
      BY <1>1, <1>2 DEF ManagerTypeOK
    <3>. QED
      BY <1>1, <1>2, <1>3, <1>11, <2>1, <3>1, OthersFilled
  <2>2. FilledOK(s)'
    <3>1. ASSUME NEW j \in BlocksOf(s)'
          PROVE  content'[<<s, j>>] = IF j * BlockSize <= len THEN HashAt(s, j)' ELSE NoHash
      <4>1. j \in 1..MaxBlocks /\ <<s, j>> \in Obj /\ <<s, k>> \in Obj /\ HashAt(s, j)' = HashAt(s, j)
        BY ObjectOf DEF BlocksOf, HashAt
      <4>2. CASE j = k
        BY <1>2, <1>11, <4>1, <4>2 DEF Holds, AllocTypeOK
      <4>3. CASE j # k
        <5>1. <<s, j>> # <<s, k>>
          BY <4>3
        <5>2. content'[<<s, j>>] = content[<<s, j>>] /\ block_id'[<<s, j>>] = block_id[<<s, j>>]
          BY <1>2, <1>11, <4>1, <5>1 DEF Holds, AllocTypeOK
        <5>3. j \in 1..n
          BY <1>4, <4>1, <5>2 DEF BlocksOf, Allocated
        <5>. QED
          BY <1>9, <1>11, <4>1, <4>3, <5>2, <5>3
      <4>. QED
        BY <4>2, <4>3
    <3>. QED
      BY <1>8, <3>1 DEF FilledOK
  <2>. QED
    BY <1>3, <1>11, <2>1, <2>2, NotFreeing DEF CacheInv
<1>12. CASE AppendsToNewBlock(s)
  <2>1. len - f > p - f
    BY <1>6, <1>12 DEF AppendsToNewBlock, Unseen, f, len, p
  <2>2. f = p /\ len = p + 1
    BY <1>4, <1>5, <2>1
  <2>3. AllocateMutable(<<s, n + 1>>)
    <3>1. (n * BlockSize + 1) % BlockSize # 0
      BY <1>5, PartialBlock
    <3>2. ~FillsLastBlock(s)
      BY <2>2, <3>1 DEF FillsLastBlock, f, p
    <3>3. AllocateMutable(<<s, NumBlocks(s) + 1>>)
      BY <1>12, <3>2 DEF AppendSlots
    <3>. QED
      BY <1>6, <3>3
  <2>4. n + 1 \in 1..MaxBlocks /\ <<s, n + 1>> \in Obj
    <3> DEFINE q == MaxBlocks * BlockSize
    <3>1. (MaxBlocks <= n => q <= p) /\ q \in Nat /\ len <= q
      BY <1>0, <1>4, <1>5, BlockMultiples DEF p
    <3> HIDE DEF q
    <3>2. n + 1 <= MaxBlocks
      BY <1>0, <1>5, <2>2, <3>1
    <3>3. n + 1 \in 1..MaxBlocks
      BY <1>0, <1>5, <3>2
    <3>. QED
      BY <3>3, ObjectOf
  <2>5. PICK b \in Block : Holds(<<s, n + 1>>, b, NoHash)
    BY <2>3 DEF AllocateMutable
  <2>6. ChainInv'
    BY <1>2, <1>7, <2>3, <2>4, ChainMutable DEF CacheInv
  <2>7. ~((n + 1) * BlockSize <= len)
    <3>1. (n + 1) * BlockSize = p + BlockSize
      BY <1>0, <1>5, SMT DEF p
    <3>. QED
      BY <1>0, <1>5, <2>2, <3>1
  <2>8. ASSUME NEW j \in 1..n PROVE j * BlockSize <= f <=> j * BlockSize <= len
    <3> DEFINE q == j * BlockSize
    <3>1. j \in Nat /\ q \in Nat /\ q <= p
      BY <1>5, BlockMultiples DEF p
    <3> HIDE DEF q
    <3>2. q <= f <=> q <= len
      BY <1>5, <2>2, <3>1
    <3>. QED
      BY <3>2 DEF q
  <2>. QED
    BY <1>11, <2>4, <2>5, <2>6, <2>7, <2>8
<1>13. CASE ~AppendsToNewBlock(s)
  <2>1. len <= p
    <3>1. ~(len - f > p - f)
      BY <1>6, <1>13 DEF AppendsToNewBlock, Unseen, f, len, p
    <3>. QED
      BY <1>4, <1>5, <3>1
  <2>2. CASE FillsLastBlock(s)
    <3>1. PromoteFirst(<<s, n>>, HashAt(s, n)) \/ PromoteDuplicate(<<s, n>>, HashAt(s, n))
      BY <1>6, <1>13, <2>2 DEF AppendSlots
    <3>2. len = f + 1 /\ len = p
      <4>1. (f + 1) % BlockSize = 0 /\ len = f + 1
        BY <1>4, <2>2 DEF FillsLastBlock, Unseen, f, len
      <4>2. PICK c \in Nat : f + 1 = c * BlockSize
        BY <1>4, <4>1, WholeBlocks
      <4>3. Cdiv(f, BlockSize) = c
        <5>1. f <= c * BlockSize /\ c * BlockSize < f + BlockSize
          BY <1>0, <1>4, <4>2
        <5>. QED
          BY <1>4, <5>1, CdivIs
      <4>. QED
        BY <4>1, <4>2, <4>3 DEF n, p
    <3>3. n \in Nat \ {0} /\ n * BlockSize <= Len(tokens[s]) /\ n * BlockSize <= len
      BY <1>4, <1>5, <1>6, <3>2 DEF p, len
    <3>4. HashAt(s, n) \in Hash /\ n <= MaxBlocks
      BY <1>2, <3>3, HashOfPrefix DEF ManagerTypeOK
    <3>5. n \in 1..MaxBlocks /\ <<s, n>> \in Obj
      BY <1>0, <3>3, <3>4, ObjectOf
    <3>6. \A j \in 1..n : j # n => j \in BlocksOf(s) /\ j * BlockSize <= Filled(s)
      BY <1>4, <1>5, <1>8, <1>10
    <3>7. RootsHeld(HashAt(s, n))
      BY <1>3, <3>3, <3>6, TableRoots
    <3>8. ChainInv'
      BY <1>2, <3>1, <3>4, <3>5, <3>7, ChainPromoteFirst, ChainFound DEF CacheInv
    <3>9. PICK b \in Block : Holds(<<s, n>>, b, HashAt(s, n))
      <4>1. CASE PromoteFirst(<<s, n>>, HashAt(s, n))
        BY <1>2, <3>5, <4>1 DEF PromoteFirst, CanPromote, Allocated, AllocTypeOK
      <4>2. CASE PromoteDuplicate(<<s, n>>, HashAt(s, n))
        BY <1>2, <3>4, <4>2 DEF PromoteDuplicate, AllocTypeOK
      <4>. QED
        BY <3>1, <4>1, <4>2
    <3>10. \A j \in 1..n : j # n => (j * BlockSize <= f <=> j * BlockSize <= len)
      BY <1>5, <1>10
    <3>. QED
      BY <1>11, <3>3, <3>5, <3>8, <3>9, <3>10
  <2>3. CASE ~FillsLastBlock(s)
    <3>1. UNCHANGED allocVars
      BY <1>13, <2>3 DEF AppendSlots
    <3>2. ChainInv'
      BY <1>2, <3>1, ChainSame DEF allocVars, CacheInv
    <3>3. ASSUME NEW j \in Nat PROVE j * BlockSize <= f <=> j * BlockSize <= len
      <4> DEFINE q == j * BlockSize
      <4>1. q \in Nat /\ q % BlockSize = 0
        BY BlockMultiples, Multiple
      <4> HIDE DEF q
      <4>2. len = f \/ (len = f + 1 /\ (f + 1) % BlockSize # 0)
        BY <1>4, <2>3 DEF FillsLastBlock, Unseen, f, len
      <4>3. q # f + 1 \/ len = f
        BY <4>1, <4>2
      <4>4. q <= f <=> q <= len
        BY <1>4, <4>1, <4>3
      <4>. QED
        BY <4>4 DEF q
    <3>4. ASSUME NEW r \in SeqId PROVE FilledOK(r)'
      <4>1. BlocksOf(r)' = BlocksOf(r) /\ UNCHANGED content
        BY <3>1 DEF BlocksOf, Allocated, allocVars
      <4>2. CASE r = s
        <5>1. \A j \in 1..n : content'[<<s, j>>] = IF j * BlockSize <= len THEN HashAt(s, j)' ELSE NoHash
          BY <1>9, <3>3, <4>1 DEF HashAt
        <5>. QED
          BY <1>4, <1>8, <4>1, <4>2, <5>1 DEF FilledOK
      <4>3. CASE r # s
        <5>1. Filled(r)' = Filled(r)
          BY <1>1, <1>2, <4>3 DEF Filled, ManagerTypeOK
        <5>. QED
          BY <1>3, <4>1, <5>1, FilledSame DEF CacheInv
      <4>. QED
        BY <4>2, <4>3
    <3>. QED
      BY <1>3, <3>2, <3>4, NotFreeing DEF CacheInv
  <2>. QED
    BY <2>2, <2>3
<1>. QED
  BY <1>12, <1>13

LEMMA CacheInit ==
  ASSUME ManagerInit
  PROVE  CacheInv
<1>1. ChainInv
  BY DEF ManagerInit, AllocInit, EvictorInit, ChainInv, InsertionOrder, PrefixesCached, EvictorRuns,
     InEvictor
<1>2. \A s \in SeqId : BlocksOf(s) = {} /\ ~Freeing(s)
  BY OneCall, ObjAssumption DEF ManagerInit, AllocInit, BlocksOf, Allocated
<1>. QED
  BY <1>1, <1>2 DEF CacheInv, FilledOK, FreeingOK

(* Each whole prefix of a cached prefix is cached: the one a block shorter, too. *)
LEMMA ParentCached ==
  ASSUME CacheInv, NEW h \in Hash, cached[h] # NoBlock, Depth[h] > 1
  PROVE  cached[SubSeq(h, 1, Len(h) - BlockSize)] # NoBlock
BY RootFacts DEF CacheInv, ChainInv, PrefixesCached

-------------------------------------------------------------------------------
(* The blocks whose computation is still to come.  They are full blocks in use; *)
(* every other full block in use counts as computed, and nothing that follows   *)
(* one of them in a cached prefix does.                                      *)
TouchedHeld == \A b \in touched : \E o \in Obj : block_id[o] = b /\ content[o] # NoHash

MarksOK ==
  \A o \in Obj : Allocated(o) =>
    (computed[block_id[o]] <=> content[o] # NoHash /\ block_id[o] \notin touched)

TouchedGoOn ==
  \A h \in Hash : cached[h] # NoBlock =>
    \A g \in Roots(h) : cached[g] \in touched => cached[h] \in touched

TouchedInv == TouchedHeld /\ MarksOK /\ TouchedGoOn

LEMMA TouchedSame ==
  ASSUME TouchedInv, UNCHANGED <<computed, cached, touched, block_id, content>>
  PROVE  TouchedInv'
BY DEF TouchedInv, TouchedHeld, MarksOK, TouchedGoOn, Allocated

(* A block handed out has not been touched.                                  *)
LEMMA PickUntouched ==
  ASSUME AllocInv, TouchedInv, NEW b \in Block, AllocateBlockId(b)
  PROVE  b \notin touched
BY PickBlock DEF TouchedInv, TouchedHeld

LEMMA MutableTouched ==
  ASSUME AllocInv, TouchedInv, NEW o \in Obj, AllocateMutable(o)
  PROVE  TouchedInv'
<1>1. PICK b \in Block : /\ AllocateBlockId(b) /\ cached' = CachedWithout(b)
                         /\ Track(b, FALSE) /\ Holds(o, b, NoHash)
  BY DEF AllocateMutable
<1>2. /\ b \notin touched /\ touched' = touched /\ block_id[o] = NoBlock
      /\ \A p \in Obj : block_id[p] # b
  BY <1>1, PickUntouched, PickBlock DEF AllocateMutable, Allocated
<1>3. cached' = [h \in Hash |-> IF cached[h] = b THEN NoBlock ELSE cached[h]]
  BY <1>1, PickBlock
<1>4. \A p \in Obj : IF p = o THEN block_id'[p] = b /\ content'[p] = NoHash
                     ELSE block_id'[p] = block_id[p] /\ content'[p] = content[p]
  BY <1>1 DEF Holds, AllocInv, AllocTypeOK
<1>5. \A x \in Block : computed'[x] = (IF x = b THEN FALSE ELSE computed[x])
  BY <1>1 DEF Track, AllocInv, AllocTypeOK
<1>6. /\ touched \subseteq Block /\ NoBlock \notin Block
      /\ \A p \in Obj : block_id[p] # NoBlock => block_id[p] \in Block
  BY NoBlockAssumption DEF AllocInv, AllocTypeOK
<1>7. TouchedHeld'
  BY <1>2, <1>4, <1>6 DEF TouchedInv, TouchedHeld
<1>8. MarksOK'
  BY <1>2, <1>4, <1>5, <1>6 DEF TouchedInv, MarksOK, Allocated
<1>9. TouchedGoOn'
  BY <1>2, <1>3, <1>6, RootFacts DEF TouchedInv, TouchedGoOn
<1>. QED
  BY <1>7, <1>8, <1>9 DEF TouchedInv

(* A hash that enters the map is no root of one that is there.                  *)
LEMMA MissTouched ==
  ASSUME AllocInv, TouchedInv, PrefixesCached, NEW o \in Obj, NEW h \in Hash,
         AllocateImmutableMiss(o, h)
  PROVE  TouchedInv'
<1>1. PICK b \in Block : /\ AllocateBlockId(b) /\ cached' = [CachedWithout(b) EXCEPT ![h] = b]
                         /\ touched' = touched \cup {b}
                         /\ Track(b, FALSE) /\ Holds(o, b, h)
  BY DEF AllocateImmutableMiss
<1>2. /\ b \notin touched /\ block_id[o] = NoBlock /\ cached[h] = NoBlock
      /\ \A p \in Obj : block_id[p] # b
  BY <1>1, PickUntouched, PickBlock DEF AllocateImmutableMiss, Allocated
<1>3. \A f \in Hash : cached'[f] = IF f = h THEN b ELSE IF cached[f] = b THEN NoBlock ELSE cached[f]
  <2>1. CachedWithout(b) = [f \in Hash |-> IF cached[f] = b THEN NoBlock ELSE cached[f]]
    BY <1>1, PickBlock
  <2>. QED
    BY <1>1, <2>1
<1>4. \A p \in Obj : IF p = o THEN block_id'[p] = b /\ content'[p] = h
                     ELSE block_id'[p] = block_id[p] /\ content'[p] = content[p]
  BY <1>1 DEF Holds, AllocInv, AllocTypeOK
<1>5. \A x \in Block : computed'[x] = (IF x = b THEN FALSE ELSE computed[x])
  BY <1>1 DEF Track, AllocInv, AllocTypeOK
<1>6. /\ touched \subseteq Block /\ NoBlock \notin Block
      /\ \A p \in Obj : block_id[p] # NoBlock => block_id[p] \in Block
  BY NoBlockAssumption DEF AllocInv, AllocTypeOK
<1>7. TouchedHeld'
  BY <1>1, <1>2, <1>4, <1>6, NoHashAssumption DEF TouchedInv, TouchedHeld
<1>8. MarksOK'
  BY <1>1, <1>2, <1>4, <1>5, <1>6 DEF TouchedInv, MarksOK, Allocated
<1>9. ASSUME NEW f \in Hash, cached'[f] # NoBlock, NEW g \in Roots(f), cached'[g] \in touched'
      PROVE  cached'[f] \in touched'
  <2>1. g \in Hash
    BY RootFacts
  <2>2. CASE f = h
    BY <1>1, <1>3, <2>2
  <2>3. CASE f # h
    <3>1. cached'[f] = cached[f] /\ cached[f] # NoBlock
      BY <1>3, <1>9, <2>3
    <3>2. g # h
      BY <1>2, <3>1 DEF PrefixesCached
    <3>3. cached[g] \in touched
      BY <1>1, <1>3, <1>6, <1>9, <2>1, <3>2
    <3>. QED
      BY <1>1, <3>1, <3>3 DEF TouchedInv, TouchedGoOn
  <2>. QED
    BY <2>2, <2>3
<1>. QED
  BY <1>7, <1>8, <1>9 DEF TouchedInv, TouchedGoOn

LEMMA PromoteFirstTouched ==
  ASSUME AllocInv, TouchedInv, PrefixesCached, NEW o \in Obj, NEW h \in Hash,
         PromoteFirst(o, h)
  PROVE  TouchedInv'
<1>1. PICK b : b = block_id[o]
  OBVIOUS
<1>2. /\ b \in Block /\ content[o] = NoHash /\ refcount[b] = 1 /\ cached[h] = NoBlock
      /\ cached' = [cached EXCEPT ![h] = b] /\ touched' = touched \cup {b}
      /\ Holds(o, b, h) /\ computed' = computed
  BY <1>1 DEF PromoteFirst, CanPromote, Allocated, AllocInv, AllocTypeOK
<1>3. \A p \in Obj : block_id[p] = b => p = o
  BY <1>1, <1>2, HoldersOfRefcount DEF AllocInv
<1>4. \A p \in Obj : IF p = o THEN block_id'[p] = b /\ content'[p] = h
                     ELSE block_id'[p] = block_id[p] /\ content'[p] = content[p]
  BY <1>2 DEF Holds, AllocInv, AllocTypeOK
<1>5. \A f \in Hash : cached'[f] = IF f = h THEN b ELSE cached[f]
  BY <1>2 DEF AllocInv, AllocTypeOK
<1>6. /\ b \notin touched /\ ~computed[b] /\ h # NoHash /\ NoBlock \notin Block
  BY <1>1, <1>2, <1>3, NoBlockAssumption, NoHashAssumption
     DEF TouchedInv, TouchedHeld, MarksOK, Allocated
<1>7. TouchedHeld'
  BY <1>2, <1>4, <1>6 DEF TouchedInv, TouchedHeld
<1>8. MarksOK'
  BY <1>1, <1>2, <1>3, <1>4, <1>6 DEF TouchedInv, MarksOK, Allocated
<1>9. ASSUME NEW f \in Hash, cached'[f] # NoBlock, NEW g \in Roots(f), cached'[g] \in touched'
      PROVE  cached'[f] \in touched'
  <2>1. g \in Hash
    BY RootFacts
  <2>2. CASE f = h
    BY <1>2, <1>5, <2>2
  <2>3. CASE f # h
    <3>1. cached'[f] = cached[f] /\ cached[f] # NoBlock
      BY <1>5, <1>9, <2>3
    <3>2. g # h
      BY <1>2, <3>1 DEF PrefixesCached
    <3>3. cached[g] # b
      BY <1>1, <1>2, <1>3, <2>1, HoldersOfRefcount, NoBlockAssumption, NoHashAssumption
         DEF AllocInv, CachedMapExact, CachedIsBacked, BlocksPartitioned
    <3>4. cached[g] \in touched
      BY <1>2, <1>5, <1>9, <2>1, <3>2, <3>3
    <3>. QED
      BY <1>2, <3>1, <3>4 DEF TouchedInv, TouchedGoOn
  <2>. QED
    BY <2>2, <2>3
<1>. QED
  BY <1>7, <1>8, <1>9 DEF TouchedInv, TouchedGoOn

(* A block found in the cache bears the mark of the content: of its holders, or *)
(* of the evictor, which has only computed blocks.                            *)
LEMMA FoundMarked ==
  ASSUME AllocInv, TouchedInv, NEW h \in Hash, cached[h] # NoBlock
  PROVE  /\ cached[h] \in Block
         /\ \A p \in Obj : block_id[p] = cached[h] => content[p] = h
         /\ refcount[cached[h]] = 0 => cached[h] \notin touched
         /\ refcount[cached[h]] # 0 => (computed[cached[h]] <=> cached[h] \notin touched)
<1>1. PICK b \in Block : b = cached[h]
  BY DEF AllocInv, AllocTypeOK
<1>2. \A p \in Obj : block_id[p] = b => content[p] = h
  BY <1>1, HoldersOfRefcount, NoBlockAssumption
     DEF AllocInv, CachedMapExact, CachedIsBacked, BlocksPartitioned, SharedBlocksAgree, Allocated
<1>3. refcount[b] = 0 => b \notin touched
  BY HoldersOfRefcount DEF AllocInv, TouchedInv, TouchedHeld
<1>4. ASSUME refcount[b] # 0 PROVE computed[b] <=> b \notin touched
  <2>1. PICK p \in Obj : block_id[p] = b
    BY <1>4, HoldersOfRefcount DEF AllocInv
  <2>. QED
    BY <1>2, <2>1, NoBlockAssumption, NoHashAssumption DEF TouchedInv, MarksOK, Allocated
<1>. QED
  BY <1>1, <1>2, <1>3, <1>4

LEMMA HitTouched ==
  ASSUME AllocInv, TouchedInv, NEW o \in Obj, NEW h \in Hash, AllocateImmutableHit(o, h)
  PROVE  TouchedInv'
<1>1. PICK b : b = cached[h]
  OBVIOUS
<1>2. /\ b \in Block /\ block_id[o] = NoBlock /\ Holds(o, b, h) /\ UNCHANGED <<cached, touched>>
      /\ refcount[b] = 0 => b \notin touched /\ computed' = [computed EXCEPT ![b] = TRUE]
      /\ refcount[b] # 0 => (computed[b] <=> b \notin touched) /\ computed' = computed
  BY <1>1, FoundMarked DEF AllocateImmutableHit, IncrRefcountCached, Revives, Track, Allocated
<1>3. refcount[b] = 0 => \A p \in Obj : block_id[p] # b
  BY <1>2, HoldersOfRefcount DEF AllocInv
<1>4. \A p \in Obj : IF p = o THEN block_id'[p] = b /\ content'[p] = h
                     ELSE block_id'[p] = block_id[p] /\ content'[p] = content[p]
  BY <1>2 DEF Holds, AllocInv, AllocTypeOK
<1>5. \A x \in Block : x # b => computed'[x] = computed[x]
  BY <1>2 DEF AllocInv, AllocTypeOK
<1>6. /\ touched \subseteq Block /\ NoBlock \notin Block /\ h # NoHash
      /\ \A p \in Obj : block_id[p] # NoBlock => block_id[p] \in Block
  BY NoBlockAssumption, NoHashAssumption DEF AllocInv, AllocTypeOK
<1>7. TouchedHeld'
  BY <1>2, <1>4, <1>6 DEF TouchedInv, TouchedHeld
<1>10. computed'[b] <=> b \notin touched
  BY <1>2 DEF AllocInv, AllocTypeOK
<1>11. refcount[b] # 0 => computed' = computed
  BY <1>2
<1>8. MarksOK'
  <2> SUFFICES ASSUME NEW p \in Obj, block_id'[p] # NoBlock
               PROVE  computed'[block_id'[p]] <=> content'[p] # NoHash /\ block_id'[p] \notin touched'
    BY DEF MarksOK, Allocated
  <2>1. CASE p = o
    BY <1>2, <1>4, <1>6, <1>10, <2>1
  <2>2. CASE p # o
    <3>1. block_id'[p] = block_id[p] /\ content'[p] = content[p] /\ block_id[p] \in Block
      BY <1>4, <1>6, <2>2
    <3>2. computed'[block_id[p]] = computed[block_id[p]]
      BY <1>3, <1>5, <1>11, <3>1
    <3>. QED
      BY <1>2, <3>1, <3>2 DEF TouchedInv, MarksOK, Allocated
  <2>. QED
    BY <2>1, <2>2
<1>9. TouchedGoOn'
  BY <1>2 DEF TouchedInv, TouchedGoOn
<1>. QED
  BY <1>7, <1>8, <1>9 DEF TouchedInv

LEMMA DuplicateTouched ==
  ASSUME AllocInv, TouchedInv, NEW o \in Obj, NEW h \in Hash, PromoteDuplicate(o, h)
  PROVE  TouchedInv'
<1>1. PICK own, b : own = block_id[o] /\ b = cached[h]
  OBVIOUS
<1>2. /\ own \in Block /\ content[o] = NoHash /\ refcount[own] = 1 /\ b # NoBlock
      /\ Holds(o, b, h) /\ UNCHANGED <<cached, touched>>
      /\ computed' = [computed EXCEPT ![own] = FALSE, ![b] = (refcount[b] = 0) \/ @]
  BY <1>1 DEF PromoteDuplicate, CanPromote, Allocated, AllocInv, AllocTypeOK
<1>3. /\ b \in Block
      /\ \A p \in Obj : block_id[p] = b => content[p] = h
      /\ refcount[b] = 0 => b \notin touched
      /\ refcount[b] # 0 => (computed[b] <=> b \notin touched)
  BY <1>1, <1>2, FoundMarked
<1>4. /\ touched \subseteq Block /\ NoBlock \notin Block /\ h # NoHash
      /\ \A p \in Obj : block_id[p] # NoBlock => block_id[p] \in Block
  BY NoBlockAssumption, NoHashAssumption DEF AllocInv, AllocTypeOK
<1>5. own # b /\ \A p \in Obj : block_id[p] = own => p = o
  BY <1>1, <1>2, <1>3, <1>4, HoldersOfRefcount DEF AllocInv
<1>6. refcount[b] = 0 => \A p \in Obj : block_id[p] # b
  BY <1>3, HoldersOfRefcount DEF AllocInv
<1>7. \A p \in Obj : IF p = o THEN block_id'[p] = b /\ content'[p] = h
                     ELSE block_id'[p] = block_id[p] /\ content'[p] = content[p]
  BY <1>2 DEF Holds, AllocInv, AllocTypeOK
<1>8. /\ \A x \in Block : x # b /\ x # own => computed'[x] = computed[x]
      /\ computed'[b] <=> refcount[b] = 0 \/ computed[b]
  BY <1>2, <1>3, <1>5 DEF AllocInv, AllocTypeOK
<1>9. TouchedHeld'
  BY <1>2, <1>4, <1>7 DEF TouchedInv, TouchedHeld
<1>10. MarksOK'
  <2> SUFFICES ASSUME NEW p \in Obj, block_id'[p] # NoBlock
               PROVE  computed'[block_id'[p]] <=> content'[p] # NoHash /\ block_id'[p] \notin touched'
    BY DEF MarksOK, Allocated
  <2>1. CASE p = o
    BY <1>2, <1>3, <1>4, <1>7, <1>8, <2>1
  <2>2. CASE p # o
    <3>1. block_id'[p] = block_id[p] /\ content'[p] = content[p] /\ block_id[p] \in Block
      BY <1>4, <1>7, <2>2
    <3>2. computed'[block_id[p]] <=> computed[block_id[p]]
      BY <1>5, <1>6, <1>8, <2>2, <3>1
    <3>. QED
      BY <1>2, <3>1, <3>2 DEF TouchedInv, MarksOK, Allocated
  <2>. QED
    BY <2>1, <2>2
<1>11. TouchedGoOn'
  BY <1>2 DEF TouchedInv, TouchedGoOn
<1>. QED
  BY <1>9, <1>10, <1>11 DEF TouchedInv

(* A block that is given back had been computed.                              *)
LEMMA FreeTouched ==
  ASSUME AllocInv, TouchedInv, NEW o \in Obj, FreeCached(o) \/ FreeHashless(o),
         block_id[o] \notin touched
  PROVE  TouchedInv'
<1>1. PICK b : b = block_id[o]
  OBVIOUS
<1>2. /\ b \in Block /\ Holds(o, NoBlock, NoHash) /\ UNCHANGED <<cached, touched>>
      /\ \/ refcount[b] = 1 /\ computed' = [computed EXCEPT ![b] = FALSE]
         \/ refcount[b] # 1 /\ computed' = computed
  BY <1>1 DEF FreeCached, FreeHashless, Untrack, Allocated, AllocInv, AllocTypeOK
<1>3. \A p \in Obj : IF p = o THEN block_id'[p] = NoBlock /\ content'[p] = NoHash
                     ELSE block_id'[p] = block_id[p] /\ content'[p] = content[p]
  BY <1>2 DEF Holds, AllocInv, AllocTypeOK
<1>4. refcount[b] = 1 => \A p \in Obj : block_id[p] = b => p = o
  BY <1>1, <1>2, HoldersOfRefcount DEF AllocInv
<1>5. \A p \in Obj : block_id[p] # NoBlock => block_id[p] \in Block
  BY DEF AllocInv, AllocTypeOK
<1>6. \A p \in Obj : p # o /\ block_id[p] # NoBlock => computed'[block_id[p]] = computed[block_id[p]]
  BY <1>2, <1>4, <1>5 DEF AllocInv, AllocTypeOK
<1>7. TouchedHeld'
  BY <1>2, <1>3 DEF TouchedInv, TouchedHeld
<1>8. MarksOK'
  BY <1>2, <1>3, <1>6 DEF TouchedInv, MarksOK, Allocated
<1>9. TouchedGoOn'
  BY <1>2 DEF TouchedInv, TouchedGoOn
<1>. QED
  BY <1>7, <1>8, <1>9 DEF TouchedInv

(* Marking leaves nothing touched.                                           *)
LEMMA MarkTouched ==
  ASSUME AllocInv, TouchedInv, MarkComputed
  PROVE  TouchedInv' /\ touched' = {}
<1>1. /\ computed' = [b \in Block |-> computed[b] \/ b \in touched] /\ touched' = {}
      /\ UNCHANGED <<cached, block_id, content>>
  BY DEF MarkComputed
<1>2. TouchedHeld' /\ TouchedGoOn'
  BY <1>1 DEF TouchedHeld, TouchedGoOn
<1>3. ASSUME NEW p \in Obj, block_id[p] # NoBlock
      PROVE  computed'[block_id[p]] <=> content[p] # NoHash
  <2>1. block_id[p] \in Block
    BY <1>3 DEF AllocInv, AllocTypeOK
  <2>2. block_id[p] \in touched => content[p] # NoHash
    BY <1>3, <2>1, NoBlockAssumption
       DEF TouchedInv, TouchedHeld, AllocInv, SharedBlocksAgree, Allocated
  <2>3. computed[block_id[p]] <=> content[p] # NoHash /\ block_id[p] \notin touched
    BY <1>3 DEF TouchedInv, MarksOK, Allocated
  <2>. QED
    BY <1>1, <2>1, <2>2, <2>3
<1>. QED
  BY <1>1, <1>2, <1>3 DEF TouchedInv, MarksOK, Allocated

-------------------------------------------------------------------------------
(* The three things append_slots may do to the blocks of a table.               *)
LEMMA AppendCases ==
  ASSUME ManagerInv, NEW s \in SeqId, AppendSlots(s)
  PROVE  \E n \in Nat \ {0} :
           /\ BlocksOf(s) = 1..n
           /\ \/ n + 1 \in 1..MaxBlocks /\ AllocateMutable(<<s, n + 1>>)
              \/ /\ n \in 1..MaxBlocks /\ HashAt(s, n) \in Hash
                 /\ PromoteFirst(<<s, n>>, HashAt(s, n)) \/ PromoteDuplicate(<<s, n>>, HashAt(s, n))
                 /\ ~AppendsToNewBlock(s) /\ FillsLastBlock(s) /\ NumBlocks(s) = n
                 /\ n * BlockSize = Len(tokens[s]) /\ full_slots[s] + 1 = Len(tokens[s])
              \/ UNCHANGED allocVars
<1>0. BlockSize \in Nat \ {0} /\ BlockSize > 1 /\ MaxBlocks \in Nat
  BY BlockSizeAssumption, MaxBlocksAssumption
<1>1. s \in tables /\ Unseen(s) \in {0, 1} /\ tokens \in [SeqId -> Text] /\ tokens[s] \in Text
  BY DEF AppendSlots, ManagerInv, ManagerTypeOK
<1> DEFINE f == full_slots[s]
           len == Len(tokens[s])
           n == Cdiv(f, BlockSize)
           p == n * BlockSize
<1>2. /\ f \in Nat /\ f > 0 /\ len \in Nat /\ (len = f \/ len = f + 1)
      /\ BlocksOf(s) = 1..n /\ len <= MaxBlocks * BlockSize
  BY <1>1, TextFacts DEF ManagerInv, ManagerTypeOK, SeqOK, TableOK, Unseen
<1>3. n \in Nat /\ f <= p /\ p < f + BlockSize /\ p \in Nat
  BY <1>2, CdivBlocks, BlockMultiples
<1>4. NumBlocks(s) = n /\ n > 0
  <2>1. n = 0 => p = 0
    BY <1>0
  <2>. QED
    BY <1>2, <1>3, <2>1, CountBlocks
<1> HIDE DEF f, len, n, p
<1>5. CASE AppendsToNewBlock(s)
  <2>1. len - f > p - f
    BY <1>4, <1>5 DEF AppendsToNewBlock, Unseen, f, len, p
  <2>2. f = p /\ len = p + 1
    BY <1>2, <1>3, <2>1
  <2>3. AllocateMutable(<<s, NumBlocks(s) + 1>>)
    <3>1. (n * BlockSize + 1) % BlockSize # 0
      BY <1>3, PartialBlock
    <3>2. ~FillsLastBlock(s)
      BY <2>2, <3>1 DEF FillsLastBlock, f, p
    <3>. QED
      BY <1>5, <3>2 DEF AppendSlots
  <2>4. n + 1 \in 1..MaxBlocks
    <3> DEFINE q == MaxBlocks * BlockSize
    <3>1. (MaxBlocks <= n => q <= p) /\ q \in Nat /\ len <= q
      BY <1>0, <1>2, <1>3, BlockMultiples DEF p
    <3> HIDE DEF q
    <3>2. n + 1 <= MaxBlocks
      BY <1>0, <1>3, <2>2, <3>1
    <3>. QED
      BY <1>0, <1>3, <3>2
  <2>5. AllocateMutable(<<s, n + 1>>)
    BY <1>4, <2>3
  <2>6. n \in Nat \ {0}
    BY <1>3, <1>4
  <2>. QED
    BY <1>2, <2>4, <2>5, <2>6
<1>6. CASE ~AppendsToNewBlock(s) /\ FillsLastBlock(s)
  <2>1. PromoteFirst(<<s, n>>, HashAt(s, n)) \/ PromoteDuplicate(<<s, n>>, HashAt(s, n))
    BY <1>4, <1>6 DEF AppendSlots
  <2>2. len = p
    <3>1. (f + 1) % BlockSize = 0 /\ len = f + 1
      BY <1>2, <1>6 DEF FillsLastBlock, Unseen, f, len
    <3>2. PICK c \in Nat : f + 1 = c * BlockSize
      BY <1>2, <3>1, WholeBlocks
    <3>3. Cdiv(f, BlockSize) = c
      <4>1. f <= c * BlockSize /\ c * BlockSize < f + BlockSize
        BY <1>0, <1>2, <3>2
      <4>. QED
        BY <1>2, <4>1, CdivIs
    <3>. QED
      BY <3>1, <3>2, <3>3 DEF n, p
  <2>3. n \in Nat \ {0} /\ n * BlockSize <= Len(tokens[s])
    BY <1>2, <1>3, <1>4, <2>2 DEF p, len
  <2>4. HashAt(s, n) \in Hash /\ n <= MaxBlocks
    BY <1>1, <2>3, HashOfPrefix
  <2>5. n \in 1..MaxBlocks
    BY <1>0, <2>3, <2>4
  <2>6. n * BlockSize = Len(tokens[s]) /\ full_slots[s] + 1 = Len(tokens[s])
    BY <1>2, <1>6, <2>2 DEF FillsLastBlock, Unseen, f, len, p
  <2>. QED
    BY <1>2, <1>4, <1>6, <2>1, <2>3, <2>4, <2>5, <2>6
<1>7. CASE ~AppendsToNewBlock(s) /\ ~FillsLastBlock(s)
  <2>1. UNCHANGED allocVars
    BY <1>7 DEF AppendSlots
  <2>. QED
    BY <1>2, <1>3, <1>4, <2>1
<1>. QED
  BY <1>5, <1>6, <1>7

(* None of the blocks of a sequence waits for its computation.                  *)
Untouched(s) == \A k \in BlocksOf(s) : block_id[<<s, k>>] \notin touched

LEMMA UntouchedSame ==
  ASSUME NEW s \in SeqId, Untouched(s), UNCHANGED <<touched, block_id>>
  PROVE  Untouched(s)'
BY DEF Untouched, BlocksOf, Allocated

(* Another sequence touches a block of its own only.                            *)
LEMMA OthersUntouched ==
  ASSUME NEW s \in SeqId, NEW k \in 1..MaxBlocks, NEW h, NEW b, Holds(<<s, k>>, b, h),
         AllocTypeOK, NEW r \in SeqId, r # s, Untouched(r),
         \/ touched' = touched
         \/ touched' = touched \cup {b} /\ \A p \in Obj : block_id[p] = b => p = <<s, k>>
  PROVE  Untouched(r)'
<1>1. \A j \in 1..MaxBlocks : /\ <<r, j>> \in Obj /\ <<r, j>> # <<s, k>>
                              /\ block_id'[<<r, j>>] = block_id[<<r, j>>]
  BY ObjectOf DEF Holds, AllocTypeOK
<1>. QED
  BY <1>1 DEF Untouched, BlocksOf, Allocated

LEMMA AppendSlotsTouched ==
  ASSUME ManagerInv, CacheInv, TouchedInv, NEW s \in SeqId, AppendSlots(s)
  PROVE  /\ TouchedInv'
         /\ \A r \in SeqId : r # s /\ Untouched(r) => Untouched(r)'
<1>1. PICK n \in Nat \ {0} :
        /\ BlocksOf(s) = 1..n
        /\ \/ n + 1 \in 1..MaxBlocks /\ AllocateMutable(<<s, n + 1>>)
           \/ /\ n \in 1..MaxBlocks /\ HashAt(s, n) \in Hash
              /\ PromoteFirst(<<s, n>>, HashAt(s, n)) \/ PromoteDuplicate(<<s, n>>, HashAt(s, n))
           \/ UNCHANGED allocVars
  BY AppendCases
<1>2. AllocInv /\ AllocTypeOK /\ PrefixesCached
  BY DEF ManagerInv, AllocInv, CacheInv, ChainInv
<1>3. CASE n + 1 \in 1..MaxBlocks /\ AllocateMutable(<<s, n + 1>>)
  <2>1. TouchedInv'
    BY <1>2, <1>3, ObjectOf, MutableTouched
  <2>2. PICK b : Holds(<<s, n + 1>>, b, NoHash) /\ touched' = touched
    BY <1>3 DEF AllocateMutable
  <2>. QED
    BY <1>2, <1>3, <2>1, <2>2, OthersUntouched
<1>4. CASE n \in 1..MaxBlocks /\ HashAt(s, n) \in Hash /\ PromoteFirst(<<s, n>>, HashAt(s, n))
  <2>1. <<s, n>> \in Obj
    BY <1>4, ObjectOf
  <2>2. TouchedInv'
    BY <1>2, <1>4, <2>1, PromoteFirstTouched
  <2>3. PICK b : b = block_id[<<s, n>>]
    OBVIOUS
  <2>4. b \in Block /\ Holds(<<s, n>>, b, HashAt(s, n)) /\ touched' = touched \cup {b} /\ refcount[b] = 1
    BY <1>2, <1>4, <2>1, <2>3 DEF PromoteFirst, CanPromote, Allocated, AllocTypeOK
  <2>5. \A p \in Obj : block_id[p] = b => p = <<s, n>>
    BY <1>2, <2>1, <2>3, <2>4, HoldersOfRefcount DEF AllocInv
  <2>. QED
    BY <1>2, <1>4, <2>2, <2>4, <2>5, OthersUntouched
<1>5. CASE n \in 1..MaxBlocks /\ HashAt(s, n) \in Hash /\ PromoteDuplicate(<<s, n>>, HashAt(s, n))
  <2>1. TouchedInv'
    BY <1>2, <1>5, ObjectOf, DuplicateTouched
  <2>2. PICK b : Holds(<<s, n>>, b, HashAt(s, n)) /\ touched' = touched
    BY <1>5 DEF PromoteDuplicate
  <2>. QED
    BY <1>2, <1>5, <2>1, <2>2, OthersUntouched
<1>6. CASE UNCHANGED allocVars
  BY <1>6, TouchedSame, UntouchedSame DEF allocVars
<1>. QED
  BY <1>1, <1>3, <1>4, <1>5, <1>6

LEMMA AllocateNextBlockTouched ==
  ASSUME ManagerInv, CacheInv, TouchedInv, NEW s \in SeqId, AllocateNextBlock(s)
  PROVE  TouchedInv'
<1>1. AllocInv /\ PrefixesCached /\ ManagerTypeOK /\ ~Freeing(s)
  BY OneCall DEF ManagerInv, CacheInv, ChainInv, AllocateNextBlock
<1>2. PICK n \in Nat : BlocksOf(s) = 1..n
  BY <1>1, BlocksInRow
<1> DEFINE k == n + 1
<1>3. NumBlocks(s) = n
  BY <1>2, CountBlocks
<1>4. /\ k <= NumRequired(s)
      /\ IF k * BlockSize <= Len(tokens[s])
           THEN \/ AllocateImmutableHit(<<s, k>>, HashAt(s, k))
                \/ AllocateImmutableMiss(<<s, k>>, HashAt(s, k))
           ELSE AllocateMutable(<<s, k>>)
  BY <1>3 DEF AllocateNextBlock
<1>5. k \in Nat \ {0} /\ <<s, k>> \in Obj
  <2>1. NumRequired(s) \in Nat /\ NumRequired(s) <= MaxBlocks
    BY <1>1, TextFacts DEF ManagerTypeOK, NumRequired
  <2>2. k \in 1..MaxBlocks
    BY <1>4, <2>1, MaxBlocksAssumption
  <2>. QED
    BY <2>2, ObjectOf
<1> HIDE DEF k
<1>6. k * BlockSize <= Len(tokens[s]) => HashAt(s, k) \in Hash
  BY <1>1, <1>5, HashOfPrefix DEF ManagerTypeOK
<1>. QED
  BY <1>1, <1>4, <1>5, <1>6, HitTouched, MissTouched, MutableTouched

LEMMA FreeNextBlockTouched ==
  ASSUME ManagerInv, TouchedInv, NEW s \in SeqId, FreeNextBlock(s), Untouched(s)
  PROVE  TouchedInv' /\ Untouched(s)'
<1>1. PICK k \in BlocksOf(s) : FreeCached(<<s, k>>) \/ FreeHashless(<<s, k>>)
  BY DEF FreeNextBlock
<1>2. k \in 1..MaxBlocks /\ <<s, k>> \in Obj /\ block_id[<<s, k>>] \notin touched
  BY ObjectOf DEF BlocksOf, Untouched
<1>3. TouchedInv'
  BY <1>1, <1>2, FreeTouched DEF ManagerInv
<1>4. block_id' = [block_id EXCEPT ![<<s, k>>] = NoBlock] /\ touched' = touched
  BY <1>1 DEF FreeCached, FreeHashless, Holds
<1>5. \A j \in 1..MaxBlocks : <<s, j>> \in Obj
  BY ObjectOf
<1>6. \A j \in 1..MaxBlocks : block_id'[<<s, j>>] # NoBlock => block_id'[<<s, j>>] = block_id[<<s, j>>]
  BY <1>4, <1>5 DEF ManagerInv, AllocInv, AllocTypeOK
<1>. QED
  BY <1>3, <1>4, <1>6 DEF Untouched, BlocksOf, Allocated

-------------------------------------------------------------------------------
(* The computed prefix that is known of a table is that: its first blocks, short *)
(* of the last one.                                                         *)
KnownOK(s) ==
  computed_ids[s] # <<>> =>
    /\ s \in tables
    /\ computed_ids[s] \in Seq(Block)
    /\ Len(computed_ids[s]) + 1 \in BlocksOf(s)
    /\ \A i \in 1..Len(computed_ids[s]) : computed_ids[s][i] = block_id[<<s, i>>]

LEMMA KnownSame ==
  ASSUME NEW s \in SeqId, KnownOK(s), computed_ids'[s] = computed_ids[s],
         s \in tables => s \in tables',
         \A k \in BlocksOf(s) : k \in BlocksOf(s)',
         \A k \in BlocksOf(s) : k + 1 \in BlocksOf(s) => block_id'[<<s, k>>] = block_id[<<s, k>>],
         \E n \in Nat : BlocksOf(s) = 1..n
  PROVE  KnownOK(s)'
<1> SUFFICES ASSUME computed_ids[s] # <<>>
             PROVE  KnownOK(s)'
  BY DEF KnownOK
<1>1. PICK n \in Nat : BlocksOf(s) = 1..n
  OBVIOUS
<1>2. Len(computed_ids[s]) \in Nat /\ Len(computed_ids[s]) + 1 \in 1..n
  BY <1>1 DEF KnownOK
<1>3. \A i \in 1..Len(computed_ids[s]) : i \in BlocksOf(s) /\ i + 1 \in BlocksOf(s)
  BY <1>1, <1>2
<1>. QED
  BY <1>3 DEF KnownOK

LEMMA KnownQuiet ==
  ASSUME NEW s \in SeqId, KnownOK(s), computed_ids'[s] = computed_ids[s], UNCHANGED block_id,
         s \in tables => s \in tables'
  PROVE  KnownOK(s)'
BY DEF KnownOK, BlocksOf, Allocated

LEMMA NothingKnown ==
  ASSUME NEW s \in SeqId, computed_ids'[s] = <<>>
  PROVE  KnownOK(s)'
BY DEF KnownOK

LEMMA OthersKnown ==
  ASSUME NEW s \in SeqId, NEW k \in 1..MaxBlocks, NEW h, NEW b, Holds(<<s, k>>, b, h),
         AllocTypeOK, NEW r \in SeqId, r # s, KnownOK(r),
         UNCHANGED <<computed_ids, tables>>
  PROVE  KnownOK(r)'
<1>1. \A j \in 1..MaxBlocks : /\ <<r, j>> \in Obj /\ <<r, j>> # <<s, k>>
                              /\ block_id'[<<r, j>>] = block_id[<<r, j>>]
  BY ObjectOf DEF Holds, AllocTypeOK
<1>2. BlocksOf(r)' = BlocksOf(r)
  BY <1>1 DEF BlocksOf, Allocated
<1>3. computed_ids[r] # <<>> => \A i \in 1..Len(computed_ids[r]) : i \in 1..MaxBlocks
  <2>1. computed_ids[r] # <<>> =>
          Len(computed_ids[r]) \in Nat /\ Len(computed_ids[r]) + 1 \in 1..MaxBlocks
    BY DEF KnownOK, BlocksOf
  <2>. QED
    BY <2>1, MaxBlocksAssumption
<1>. QED
  BY <1>1, <1>2, <1>3 DEF KnownOK

LEMMA CallStepKnown ==
  ASSUME ManagerInv, \A r \in SeqId : KnownOK(r), CallStep, NEW r \in SeqId,
         computed_ids \in [SeqId -> Seq(Block)]
  PROVE  KnownOK(r)'
<1>0. AllocInv /\ AllocTypeOK /\ ManagerTypeOK
  BY DEF ManagerInv, AllocInv
<1>1. ASSUME NEW s \in SeqId, AllocateEnd(s) PROVE KnownOK(r)'
  <2>1. /\ computed_ids' = [computed_ids EXCEPT ![s] = <<>>]
        /\ UNCHANGED block_id /\ tables' = tables \cup {s}
    BY <1>1 DEF AllocateEnd, allocVars
  <2>. QED
    BY <2>1, KnownQuiet, NothingKnown
<1>2. ASSUME NEW s \in SeqId, FreeEnd(s) PROVE KnownOK(r)'
  BY <1>2, KnownQuiet DEF FreeEnd, allocVars, managerVars
<1>3. ASSUME NEW s \in SeqId, NEW k \in 1..MaxBlocks, NEW h, NEW b, Holds(<<s, k>>, b, h),
             UNCHANGED <<computed_ids, tables>>, Busy(s)
      PROVE  KnownOK(r)'
  <2>1. CASE r = s
    <3>1. computed_ids[r] = <<>>
      BY <1>3, <2>1 DEF KnownOK, ManagerInv, SeqOK
    <3>. QED
      BY <1>3, <3>1, NothingKnown
  <2>2. CASE r # s
    BY <1>0, <1>3, <2>2, OthersKnown
  <2>. QED
    BY <2>1, <2>2
<1>4. ASSUME NEW s \in SeqId, AllocateNextBlock(s) PROVE KnownOK(r)'
  <2>1. /\ NumBlocks(s) + 1 <= NumRequired(s) /\ Busy(s)
        /\ UNCHANGED <<computed_ids, tables>>
    BY <1>4 DEF AllocateNextBlock, managerVars, Busy
  <2>2. PICK h, b : Holds(<<s, NumBlocks(s) + 1>>, b, h)
    BY <1>4 DEF AllocateNextBlock, AllocateImmutableHit, AllocateImmutableMiss, AllocateMutable
  <2>3. NumBlocks(s) + 1 \in 1..MaxBlocks
    <3>1. ~Freeing(s)
      BY <1>4, OneCall DEF AllocateNextBlock
    <3>2. PICK n \in Nat : BlocksOf(s) = 1..n
      BY <3>1, BlocksInRow
    <3>3. NumBlocks(s) = n
      BY <3>2, CountBlocks
    <3>4. NumRequired(s) \in Nat /\ NumRequired(s) <= MaxBlocks
      BY <1>0, TextFacts DEF ManagerTypeOK, NumRequired
    <3>. QED
      BY <2>1, <3>3, <3>4, MaxBlocksAssumption
  <2>. QED
    BY <1>3, <2>1, <2>2, <2>3
<1>5. ASSUME NEW s \in SeqId, FreeNextBlock(s) PROVE KnownOK(r)'
  <2>1. PICK k \in 1..MaxBlocks : FreeCached(<<s, k>>) \/ FreeHashless(<<s, k>>)
    BY <1>5 DEF FreeNextBlock, BlocksOf
  <2>2. Holds(<<s, k>>, NoBlock, NoHash)
    BY <2>1 DEF FreeCached, FreeHashless
  <2>3. Busy(s) /\ UNCHANGED <<computed_ids, tables>>
    BY <1>5 DEF FreeNextBlock, managerVars, Busy
  <2>. QED
    BY <1>3, <2>2, <2>3
<1>. QED
  BY <1>1, <1>2, <1>4, <1>5 DEF CallStep

LEMMA FreeBeginKnown ==
  ASSUME \A r \in SeqId : KnownOK(r), computed_ids \in [SeqId -> Seq(Block)],
         NEW s \in SeqId, FreeBegin(s), NEW r \in SeqId
  PROVE  KnownOK(r)'
<1>1. /\ computed_ids' = [computed_ids EXCEPT ![s] = <<>>]
      /\ UNCHANGED block_id /\ tables' = tables \ {s}
  BY DEF FreeBegin, MarkAccessed, allocVars
<1>. QED
  BY <1>1, KnownQuiet, NothingKnown

LEMMA AppendSlotsKnown ==
  ASSUME ManagerInv, \A r \in SeqId : KnownOK(r), NEW s \in SeqId, AppendSlots(s), NEW r \in SeqId
  PROVE  KnownOK(r)'
<1>0. AllocInv /\ AllocTypeOK
  BY DEF ManagerInv, AllocInv
<1>1. PICK n \in Nat \ {0} :
        /\ BlocksOf(s) = 1..n
        /\ \/ n + 1 \in 1..MaxBlocks /\ AllocateMutable(<<s, n + 1>>)
           \/ /\ n \in 1..MaxBlocks /\ HashAt(s, n) \in Hash
              /\ PromoteFirst(<<s, n>>, HashAt(s, n)) \/ PromoteDuplicate(<<s, n>>, HashAt(s, n))
           \/ UNCHANGED allocVars
  BY AppendCases
<1>2. UNCHANGED <<computed_ids, tables>>
  BY DEF AppendSlots
<1>3. ASSUME NEW k \in 1..MaxBlocks, k >= n, NEW h, NEW b \in Block, Holds(<<s, k>>, b, h)
      PROVE  KnownOK(r)'
  <2>1. CASE r = s
    <3>1. \A j \in 1..MaxBlocks : <<s, j>> \in Obj /\ (j # k => <<s, j>> # <<s, k>>)
      BY ObjectOf
    <3>2. \A j \in 1..MaxBlocks : block_id'[<<s, j>>] = IF j = k THEN b ELSE block_id[<<s, j>>]
      BY <1>0, <1>3, <3>1 DEF Holds, AllocTypeOK
    <3>3. \A j \in 1..n : j \in 1..MaxBlocks
      BY <1>1 DEF BlocksOf
    <3>4. \A j \in BlocksOf(s) : j \in BlocksOf(s)'
      BY <3>2, NoBlockAssumption DEF BlocksOf, Allocated
    <3>5. \A j \in BlocksOf(s) : j + 1 \in BlocksOf(s) => block_id'[<<s, j>>] = block_id[<<s, j>>]
      BY <1>1, <1>3, <3>2, <3>3
    <3>. QED
      BY <1>1, <1>2, <2>1, <3>4, <3>5, KnownSame
  <2>2. CASE r # s
    BY <1>0, <1>2, <1>3, <2>2, OthersKnown
  <2>. QED
    BY <2>1, <2>2
<1>4. CASE n + 1 \in 1..MaxBlocks /\ AllocateMutable(<<s, n + 1>>)
  <2>1. PICK b \in Block : Holds(<<s, n + 1>>, b, NoHash)
    BY <1>4 DEF AllocateMutable
  <2>. QED
    BY <1>3, <1>4, <2>1
<1>5. CASE n \in 1..MaxBlocks /\ HashAt(s, n) \in Hash
           /\ (PromoteFirst(<<s, n>>, HashAt(s, n)) \/ PromoteDuplicate(<<s, n>>, HashAt(s, n)))
  <2>1. <<s, n>> \in Obj
    BY <1>5, ObjectOf
  <2>2. PICK b \in Block : Holds(<<s, n>>, b, HashAt(s, n))
    <3>1. CASE PromoteFirst(<<s, n>>, HashAt(s, n))
      BY <1>0, <2>1, <3>1 DEF PromoteFirst, CanPromote, Allocated, AllocTypeOK
    <3>2. CASE PromoteDuplicate(<<s, n>>, HashAt(s, n))
      BY <1>0, <1>5, <3>2 DEF PromoteDuplicate, AllocTypeOK
    <3>. QED
      BY <1>5, <3>1, <3>2
  <2>. QED
    BY <1>3, <1>5, <2>2
<1>6. CASE UNCHANGED allocVars
  BY <1>2, <1>6, KnownQuiet DEF allocVars
<1>. QED
  BY <1>1, <1>4, <1>5, <1>6

-------------------------------------------------------------------------------
(* A set of numbers between two bounds that has with each the smaller ones is an *)
(* interval.                                                               *)
LEMMA IsInterval ==
  ASSUME NEW a \in Nat, NEW c \in Nat, NEW S, S \subseteq (a + 1)..c,
         \A k \in S : \A j \in (a + 1)..c : j <= k => j \in S
  PROVE  \E m \in Nat : m >= a /\ S = (a + 1)..m
<1> DEFINE T == {n \in Nat : \E m \in Nat : m >= a /\ S \cap (a + 1)..(a + n) = (a + 1)..m}
<1>1. 0 \in T
  <2>1. S \cap (a + 1)..(a + 0) = (a + 1)..a
    OBVIOUS
  <2>. QED
    BY <2>1
<1>2. ASSUME NEW n \in Nat, n \in T PROVE n + 1 \in T
  <2>1. PICK m \in Nat : m >= a /\ S \cap (a + 1)..(a + n) = (a + 1)..m
    BY <1>2
  <2>2. CASE a + n + 1 \in S
    <3>1. S \cap (a + 1)..(a + (n + 1)) = (a + 1)..(a + (n + 1))
      <4>1. a + n + 1 <= c
        BY <2>2
      <4>2. \A j \in (a + 1)..(a + (n + 1)) : j \in (a + 1)..c /\ j <= a + n + 1
        BY <4>1
      <4>. QED
        BY <2>2, <4>2
    <3>. QED
      BY <3>1
  <2>3. CASE a + n + 1 \notin S
    <3>1. S \cap (a + 1)..(a + (n + 1)) = S \cap (a + 1)..(a + n)
      BY <2>3
    <3>. QED
      BY <2>1, <3>1
  <2>. QED
    BY <2>2, <2>3
<1> HIDE DEF T
<1>3. \A n \in Nat : n \in T
  BY <1>1, <1>2, NaturalInduction
<1>4. c \in T
  BY <1>3
<1>5. S \cap (a + 1)..(a + c) = S
  <2>1. \A x \in S : x \in (a + 1)..(a + c)
    OBVIOUS
  <2>. QED
    BY <2>1
<1>. QED
  BY <1>4, <1>5 DEF T

(* Of the full blocks of a table the computed ones are the first: a prompt has   *)
(* touched what follows a block that it has touched.                          *)
LEMMA ComputedFirst ==
  ASSUME ManagerInv, CacheInv, TouchedInv, NEW s \in tables, ~Freeing(s),
         NEW k \in BlocksOf(s), k + 1 \in BlocksOf(s), IsComputed(block_id[<<s, k>>]),
         NEW j \in BlocksOf(s), j <= k
  PROVE  IsComputed(block_id[<<s, j>>])
<1>0. BlockSize \in Nat \ {0} /\ BlockSize > 1 /\ MaxBlocks \in Nat
  BY BlockSizeAssumption, MaxBlocksAssumption
<1>1. /\ s \in SeqId /\ AllocInv /\ AllocTypeOK /\ SeqOK(s) /\ FilledOK(s)
      /\ tokens \in [SeqId -> Text] /\ tables \subseteq SeqId
  BY DEF ManagerInv, ManagerTypeOK, AllocInv, CacheInv
<1> DEFINE t == tokens[s]
           f == full_slots[s]
           n == Cdiv(f, BlockSize)
           p == n * BlockSize
<1>2. f \in Nat /\ f > 0 /\ Len(t) \in Nat /\ f <= Len(t) /\ BlocksOf(s) = 1..n /\ Filled(s) = f
      /\ t \in Text
  BY <1>1, TextFacts DEF ManagerInv, ManagerTypeOK, SeqOK, TableOK, Filled
<1>3. n \in Nat /\ p < f + BlockSize /\ p \in Nat
  BY <1>2, CdivBlocks, BlockMultiples
<1> HIDE DEF f, n, p
<1>4. /\ k \in Nat \ {0} /\ k < n /\ j \in Nat \ {0} /\ j \in 1..k /\ k \in 1..n
      /\ <<s, k>> \in Obj /\ <<s, j>> \in Obj
  <2>1. k \in 1..n /\ j \in 1..n /\ k + 1 \in 1..n
    BY <1>2
  <2>2. k \in 1..MaxBlocks /\ j \in 1..MaxBlocks
    BY DEF BlocksOf
  <2>. QED
    BY <1>1, <1>3, <2>1, <2>2, ObjectOf
<1>5. ASSUME NEW i \in 1..k PROVE i * BlockSize <= f /\ i * BlockSize <= Len(t)
  <2> DEFINE q == i * BlockSize
  <2>1. q \in Nat /\ q + BlockSize <= p
    <3>1. i \in Nat /\ i < n
      BY <1>3, <1>4
    <3>. QED
      BY <1>3, <3>1, BlockMultiples DEF p
  <2> HIDE DEF q
  <2>2. q <= f /\ q <= Len(t)
    BY <1>0, <1>2, <1>3, <2>1
  <2>. QED
    BY <2>2 DEF q
<1>6. content[<<s, k>>] = SubSeq(t, 1, k * BlockSize) /\ content[<<s, j>>] = SubSeq(t, 1, j * BlockSize)
  <2>1. k \in 1..k /\ j \in BlocksOf(s) /\ k \in BlocksOf(s)
    BY <1>4
  <2>2. k * BlockSize <= Filled(s) /\ j * BlockSize <= Filled(s)
    BY <1>2, <1>4, <1>5, <2>1
  <2>3. content[<<s, k>>] = HashAt(s, k) /\ content[<<s, j>>] = HashAt(s, j)
    BY <1>1, <2>1, <2>2 DEF FilledOK
  <2>. QED
    BY <2>3 DEF HashAt
<1> DEFINE h == SubSeq(t, 1, k * BlockSize)
           g == SubSeq(t, 1, j * BlockSize)
           b == block_id[<<s, k>>]
           d == block_id[<<s, j>>]
<1>7. k * BlockSize <= Len(t)
  BY <1>4, <1>5
<1>8. Roots(SubSeq(t, 1, k * BlockSize)) = {SubSeq(t, 1, i * BlockSize) : i \in 1..k}
  BY ONLY <1>2, <1>4, <1>7, RootsOfText, ZenonT(90)
<1>9. g \in Roots(h) /\ h \in Hash /\ g \in Hash
  <2>1. g \in Roots(h)
    BY <1>4, <1>8
  <2>2. h \in Hash
    BY ONLY <1>2, <1>4, <1>7, CutHash, ZenonT(60)
  <2>. QED
    BY <2>1, <2>2, RootFacts
<1>10. b \in Block /\ d \in Block /\ b # NoBlock /\ d # NoBlock
  BY <1>1, <1>4 DEF BlocksOf, Allocated, AllocTypeOK
<1>11. cached[h] = b /\ cached[g] = d /\ content[<<s, k>>] = h /\ content[<<s, j>>] = g
       /\ h # NoHash /\ g # NoHash
  BY <1>1, <1>4, <1>6, <1>9, <1>10, NoHashAssumption DEF AllocInv, CachedMapExact, FullIsCached, Allocated
<1> HIDE DEF h, g
<1>12. ASSUME NEW o \in Obj, Allocated(o), content[o] # NoHash
       PROVE  IsComputed(block_id[o]) <=> block_id[o] \notin touched
  <2>1. block_id[o] \in Block
    BY <1>1, <1>12 DEF Allocated, AllocTypeOK
  <2>2. active[block_id[o]]
    BY <1>1, <2>1, HoldersOfRefcount DEF AllocInv, BlocksPartitioned
  <2>. QED
    BY <1>12, <2>2 DEF IsComputed, TouchedInv, MarksOK
<1>13. b \notin touched
  BY <1>4, <1>10, <1>11, <1>12 DEF Allocated
<1>14. d \notin touched
  BY <1>9, <1>10, <1>11, <1>13 DEF TouchedInv, TouchedGoOn
<1>. QED
  BY <1>4, <1>10, <1>11, <1>12, <1>14 DEF Allocated

(* The loop of get_computed_block_ids does not stop at a gap, and meets none.    *)
LEMMA ComputedIdsKnown ==
  ASSUME ManagerInv, CacheInv, TouchedInv, NEW s \in tables, ~Freeing(s),
         computed_ids \in [SeqId -> Seq(Block)], KnownOK(s)
  PROVE  /\ ComputedBlockIds(s) \in Seq(Block)
         /\ Len(ComputedBlockIds(s)) + 1 \in BlocksOf(s)
         /\ \A i \in 1..Len(ComputedBlockIds(s)) : ComputedBlockIds(s)[i] = block_id[<<s, i>>]
         /\ \A i \in 1..Len(ComputedBlockIds(s)) :
              i > Len(computed_ids[s]) => IsComputed(block_id[<<s, i>>])
<1>1. s \in SeqId /\ AllocTypeOK /\ SeqOK(s) /\ full_slots[s] \in Nat /\ BlockSize \in Nat \ {0}
  BY BlockSizeAssumption DEF ManagerInv, ManagerTypeOK, AllocInv
<1>2. PICK n \in Nat : BlocksOf(s) = 1..n /\ n > 0
  <2>1. PICK n : n = Cdiv(full_slots[s], BlockSize)
    OBVIOUS
  <2>2. BlocksOf(s) = 1..n /\ full_slots[s] > 0
    BY <1>1, <2>1 DEF SeqOK, TableOK
  <2>3. n \in Nat /\ full_slots[s] <= n * BlockSize
    BY <1>1, <2>1, CdivBlocks
  <2>4. n # 0
    <3>1. ASSUME n = 0 PROVE n * BlockSize = 0
      BY <1>1, <3>1
    <3>. QED
      BY <1>1, <2>2, <2>3, <3>1
  <2>. QED
    BY <2>2, <2>3, <2>4
<1>3. NumBlocks(s) = n
  BY <1>2, CountBlocks
<1> DEFINE ids == computed_ids[s]
           known == Len(ids)
           later == {k \in (known + 1)..(n - 1) : IsComputed(block_id[<<s, k>>])}
           rank(k) == Cardinality({j \in later : j <= k})
           rest == [i \in 1..Cardinality(later) |-> Table(s)[CHOOSE k \in later : rank(k) = i]]
<1>4. ids \in Seq(Block) /\ known \in Nat /\ known <= n - 1
      /\ \A i \in 1..known : ids[i] = block_id[<<s, i>>]
  <2>1. ids \in Seq(Block) /\ known \in Nat
    BY <1>1
  <2>2. CASE ids = <<>>
    BY <1>2, <2>1, <2>2
  <2>3. CASE ids # <<>>
    BY <1>2, <2>1, <2>3 DEF KnownOK
  <2>. QED
    BY <2>1, <2>2, <2>3
<1>5. ComputedBlockIds(s) = ids \o rest
  BY <1>3 DEF ComputedBlockIds
<1> HIDE DEF ids, known
<1>6. PICK m \in Nat : m >= known /\ later = (known + 1)..m
  <2>1. ASSUME NEW k \in later, NEW j \in (known + 1)..(n - 1), j <= k PROVE j \in later
    <3>1. k \in 1..n /\ k + 1 \in 1..n /\ j \in 1..n
      BY <1>2, <1>4
    <3>2. IsComputed(block_id[<<s, k>>])
      OBVIOUS
    <3>. QED
      BY <1>2, <2>1, <3>1, <3>2, ComputedFirst
  <2>2. later \subseteq (known + 1)..(n - 1) /\ n - 1 \in Nat
    BY <1>2
  <2> HIDE DEF later
  <2>. QED
    BY <1>4, <2>1, <2>2, IsInterval
<1>7. later \subseteq (known + 1)..(n - 1) /\ \A k \in later : IsComputed(block_id[<<s, k>>])
  OBVIOUS
<1> HIDE DEF later
<1>8. Cardinality(later) = m - known /\ m <= n - 1
  <2>1. Cardinality((known + 1)..m) = m - known
    BY <1>4, <1>6, FS_Interval
  <2>2. m <= n - 1
    BY <1>2, <1>4, <1>6, <1>7
  <2>. QED
    BY <1>6, <2>1, <2>2
<1>9. ASSUME NEW k \in later PROVE rank(k) = k - known
  <2>1. {j \in later : j <= k} = (known + 1)..k
    BY <1>4, <1>6
  <2>2. Cardinality((known + 1)..k) = k - known
    BY <1>4, <1>6, FS_Interval
  <2>. QED
    BY <2>1, <2>2
<1> HIDE DEF rank
<1>10. ASSUME NEW i \in 1..(m - known)
       PROVE  (CHOOSE k \in later : rank(k) = i) = known + i
  <2>1. known + i \in later /\ rank(known + i) = i
    BY <1>4, <1>6, <1>9
  <2>2. \A k \in later : rank(k) = i => k = known + i
    BY <1>4, <1>6, <1>9
  <2>. QED
    BY <2>1, <2>2
<1>11. PICK q \in Nat : q = m - known
  BY <1>4, <1>6
<1>12. rest = [i \in 1..q |-> block_id[<<s, known + i>>]]
  <2>1. \A i \in 1..q : Table(s)[known + i] = block_id[<<s, known + i>>]
    <3>1. \A i \in 1..q : known + i \in 1..n
      BY <1>2, <1>4, <1>6, <1>8, <1>11
    <3>. QED
      BY <1>3, <3>1 DEF Table
  <2>2. \A i \in 1..q : Table(s)[CHOOSE k \in later : rank(k) = i] = Table(s)[known + i]
    BY <1>10, <1>11
  <2>3. rest = [i \in 1..q |-> Table(s)[CHOOSE k \in later : rank(k) = i]]
    BY <1>8, <1>11
  <2> HIDE DEF rest
  <2>. QED
    BY <2>1, <2>2, <2>3
<1> HIDE DEF rest
<1>13. rest \in Seq(Block) /\ Len(rest) = q
  <2>1. \A i \in 1..q : block_id[<<s, known + i>>] \in Block
    <3>1. \A k \in 1..n : block_id[<<s, k>>] \in Block
      <4>1. \A k \in 1..n : k \in 1..MaxBlocks /\ block_id[<<s, k>>] # NoBlock /\ <<s, k>> \in Obj
        BY <1>1, <1>2, ObjectOf DEF BlocksOf, Allocated
      <4>. QED
        BY <1>1, <4>1 DEF AllocTypeOK
    <3>2. \A i \in 1..q : known + i \in 1..n
      BY <1>2, <1>4, <1>6, <1>8, <1>11
    <3>. QED
      BY <3>1, <3>2
  <2>. QED
    BY <1>12, <2>1
<1> HIDE DEF rest
<1>14. ids \o rest \in Seq(Block) /\ Len(ids \o rest) = m
  BY <1>4, <1>6, <1>11, <1>13 DEF known
<1>15. ASSUME NEW i \in 1..m PROVE (ids \o rest)[i] = block_id[<<s, i>>]
  <2>1. CASE i <= known
    <3>1. i \in 1..Len(ids)
      BY <1>4, <2>1 DEF known
    <3>2. (ids \o rest)[i] = ids[i]
      BY <1>4, <1>13, <3>1
    <3>. QED
      BY <1>4, <3>1, <3>2 DEF known
  <2>2. CASE i > known
    <3>1. i - known \in 1..q /\ known + (i - known) = i
      BY <1>4, <1>11, <2>2
    <3>2. (ids \o rest)[i] = rest[i - known]
      BY <1>4, <1>11, <1>13, <2>2, <3>1 DEF known
    <3>3. rest[i - known] = block_id[<<s, known + (i - known)>>]
      BY <1>12, <3>1
    <3>4. <<s, known + (i - known)>> = <<s, i>>
      BY <3>1
    <3>. QED
      BY <3>2, <3>3, <3>4
  <2>3. i <= known \/ i > known
    BY <1>4
  <2>. QED
    BY <2>1, <2>2, <2>3, Zenon
<1>16. ASSUME NEW i \in 1..m, i > known PROVE IsComputed(block_id[<<s, i>>])
  <2>1. i \in later
    BY <1>4, <1>6, <1>16
  <2>. QED
    BY <1>7, <2>1
<1>. QED
  BY <1>2, <1>5, <1>8, <1>14, <1>15, <1>16 DEF known, ids

LEMMA UpdateKnown ==
  ASSUME ManagerInv, CacheInv, TouchedInv, NEW s \in tables, ~Freeing(s),
         computed_ids \in [SeqId -> Seq(Block)], \A r \in SeqId : KnownOK(r),
         UpdateComputedPrefix(s), UNCHANGED <<block_id, tables>>
  PROVE  computed_ids' \in [SeqId -> Seq(Block)] /\ \A r \in SeqId : KnownOK(r)'
<1>1. s \in SeqId
  BY DEF ManagerInv, ManagerTypeOK
<1> DEFINE c == ComputedPrefix(s)
<1>2. computed_ids' = [computed_ids EXCEPT ![s] = c]
  BY DEF UpdateComputedPrefix
<1>3. /\ c \in Seq(Block)
      /\ c # <<>> => /\ Len(c) + 1 \in BlocksOf(s)
                     /\ \A i \in 1..Len(c) : c[i] = block_id[<<s, i>>]
  BY <1>1, ComputedIdsKnown DEF ComputedPrefix, KnownOK
<1> HIDE DEF c
<1>4. ASSUME NEW r \in SeqId PROVE KnownOK(r)'
  <2>1. CASE r = s
    BY <1>1, <1>2, <1>3, <2>1 DEF KnownOK, BlocksOf, Allocated
  <2>2. CASE r # s
    BY <1>2, <2>2, KnownQuiet
  <2>. QED
    BY <2>1, <2>2
<1>. QED
  BY <1>1, <1>2, <1>3, <1>4

LEMMA KnownIsPrefix ==
  ASSUME ManagerInv, NEW s \in tables, ~Freeing(s), computed_ids \in [SeqId -> Seq(Block)], KnownOK(s)
  PROVE  computed_ids[s] = SubSeq(Table(s), 1, Len(computed_ids[s]))
<1>1. s \in SeqId
  BY DEF ManagerInv, ManagerTypeOK
<1>2. PICK n \in Nat : BlocksOf(s) = 1..n
  BY <1>1, BlocksInRow
<1>3. Table(s) = [k \in 1..n |-> block_id[<<s, k>>]]
  BY <1>2, CountBlocks DEF Table
<1> DEFINE c == computed_ids[s]
           m == Len(c)
<1>4. c \in Seq(Block) /\ m \in Nat /\ m <= n /\ \A i \in 1..m : c[i] = block_id[<<s, i>>]
  <2>1. c \in Seq(Block)
    BY <1>1
  <2>. QED
    BY <1>2, <2>1 DEF KnownOK
<1>5. c = [i \in 1..m |-> c[i]]
  BY <1>4
<1> HIDE DEF c, m
<1>6. SubSeq(Table(s), 1, m) = [i \in 1..m |-> Table(s)[i]]
  BY <1>4 DEF SubSeq
<1>7. \A i \in 1..m : Table(s)[i] = block_id[<<s, i>>]
  BY <1>3, <1>4
<1>8. c = SubSeq(Table(s), 1, m)
  BY <1>4, <1>5, <1>6, <1>7
<1>. QED
  BY <1>8 DEF c, m

-------------------------------------------------------------------------------
(* A block that is not full has one holder: a fresh block is given to one        *)
(* object, and what is found by its hash is full.                             *)
AloneOK ==
  \A o, p \in Obj : Allocated(o) /\ content[o] = NoHash /\ block_id[p] = block_id[o] => p = o

LEMMA HoldsAlone ==
  ASSUME AllocTypeOK, AloneOK, NEW o \in Obj, NEW b, NEW h, Holds(o, b, h),
         \/ b = NoBlock
         \/ \A p \in Obj : block_id[p] = b => p = o
         \/ h # NoHash /\ \A p \in Obj : block_id[p] = b => content[p] # NoHash
  PROVE  AloneOK'
<1>1. \A p \in Obj : IF p = o THEN block_id'[p] = b /\ content'[p] = h
                     ELSE block_id'[p] = block_id[p] /\ content'[p] = content[p]
  BY DEF Holds, AllocTypeOK
<1>2. SUFFICES ASSUME NEW q \in Obj, NEW p \in Obj, block_id'[q] # NoBlock, content'[q] = NoHash,
                      block_id'[p] = block_id'[q]
               PROVE  p = q
  BY DEF AloneOK, Allocated
<1>3. CASE q = o /\ p # o
  <2>1. block_id[p] = b /\ h = NoHash /\ b # NoBlock
    BY <1>1, <1>2, <1>3
  <2>. QED
    BY <1>3, <2>1
<1>4. CASE q # o
  <2>1. block_id[q] # NoBlock /\ content[q] = NoHash /\ block_id'[q] = block_id[q]
    BY <1>1, <1>2, <1>4
  <2>2. CASE p = o
    <3>1. block_id[q] = b
      BY <1>1, <1>2, <2>1, <2>2
    <3>. QED
      BY <1>4, <2>1, <3>1
  <2>3. CASE p # o
    <3>1. block_id[p] = block_id[q]
      BY <1>1, <1>2, <2>1, <2>3
    <3>. QED
      BY <2>1, <3>1 DEF AloneOK, Allocated
  <2>. QED
    BY <2>2, <2>3
<1>. QED
  BY <1>3, <1>4

LEMMA MutableAlone ==
  ASSUME AllocInv, AloneOK, NEW o \in Obj, AllocateMutable(o)
  PROVE  AloneOK'
<1>1. PICK b \in Block : AllocateBlockId(b) /\ Holds(o, b, NoHash)
  BY DEF AllocateMutable
<1>2. \A p \in Obj : block_id[p] # b
  BY <1>1, PickBlock
<1>. QED
  BY <1>1, <1>2, HoldsAlone DEF AllocInv

LEMMA MissAlone ==
  ASSUME AllocInv, AloneOK, NEW o \in Obj, NEW h \in Hash, AllocateImmutableMiss(o, h)
  PROVE  AloneOK'
<1>1. PICK b \in Block : AllocateBlockId(b) /\ Holds(o, b, h)
  BY DEF AllocateImmutableMiss
<1>2. \A p \in Obj : block_id[p] # b
  BY <1>1, PickBlock
<1>. QED
  BY <1>1, <1>2, HoldsAlone DEF AllocInv

(* Who holds the cached block of a hash holds that content.                      *)
LEMMA HoldersOfCached ==
  ASSUME AllocInv, NEW h \in Hash, cached[h] # NoBlock
  PROVE  /\ cached[h] \in Block /\ h # NoHash
         /\ \A p \in Obj : block_id[p] = cached[h] => content[p] = h
<1>1. PICK b \in Block : b = cached[h]
  BY DEF AllocInv, AllocTypeOK
<1>2. \A p \in Obj : block_id[p] = b => content[p] = h
  BY <1>1, HoldersOfRefcount, NoBlockAssumption
     DEF AllocInv, CachedMapExact, CachedIsBacked, BlocksPartitioned, SharedBlocksAgree, Allocated
<1>. QED
  BY <1>1, <1>2, NoHashAssumption

LEMMA FoundAlone ==
  ASSUME AllocInv, AloneOK, NEW o \in Obj, NEW h \in Hash,
         AllocateImmutableHit(o, h) \/ PromoteDuplicate(o, h)
  PROVE  AloneOK'
<1>1. PICK b : b = cached[h]
  OBVIOUS
<1>2. b # NoBlock /\ Holds(o, b, h)
  BY <1>1 DEF AllocateImmutableHit, PromoteDuplicate
<1>3. h # NoHash /\ \A p \in Obj : block_id[p] = b => content[p] # NoHash
  BY <1>1, <1>2, HoldersOfCached
<1>. QED
  BY <1>2, <1>3, HoldsAlone DEF AllocInv

LEMMA PromoteFirstAlone ==
  ASSUME AllocInv, AloneOK, NEW o \in Obj, NEW h \in Hash, PromoteFirst(o, h)
  PROVE  AloneOK'
<1>1. PICK b : b = block_id[o]
  OBVIOUS
<1>2. Allocated(o) /\ content[o] = NoHash /\ Holds(o, b, h)
  BY <1>1 DEF PromoteFirst, CanPromote
<1>3. \A p \in Obj : block_id[p] = b => p = o
  BY <1>1, <1>2 DEF AloneOK
<1>. QED
  BY <1>2, <1>3, HoldsAlone DEF AllocInv

LEMMA FreeAlone ==
  ASSUME AllocInv, AloneOK, NEW o \in Obj, FreeCached(o) \/ FreeHashless(o)
  PROVE  AloneOK'
<1>1. Holds(o, NoBlock, NoHash)
  BY DEF FreeCached, FreeHashless
<1>. QED
  BY <1>1, HoldsAlone DEF AllocInv

LEMMA AloneSame ==
  ASSUME AloneOK, UNCHANGED <<block_id, content>>
  PROVE  AloneOK'
BY DEF AloneOK, Allocated

LEMMA AppendSlotsAlone ==
  ASSUME ManagerInv, AloneOK, NEW s \in SeqId, AppendSlots(s)
  PROVE  AloneOK'
<1>1. PICK n \in Nat \ {0} :
        /\ BlocksOf(s) = 1..n
        /\ \/ n + 1 \in 1..MaxBlocks /\ AllocateMutable(<<s, n + 1>>)
           \/ /\ n \in 1..MaxBlocks /\ HashAt(s, n) \in Hash
              /\ PromoteFirst(<<s, n>>, HashAt(s, n)) \/ PromoteDuplicate(<<s, n>>, HashAt(s, n))
           \/ UNCHANGED allocVars
  BY AppendCases
<1>2. AllocInv
  BY DEF ManagerInv
<1>3. CASE n + 1 \in 1..MaxBlocks /\ AllocateMutable(<<s, n + 1>>)
  BY <1>2, <1>3, ObjectOf, MutableAlone
<1>4. CASE /\ n \in 1..MaxBlocks /\ HashAt(s, n) \in Hash
           /\ PromoteFirst(<<s, n>>, HashAt(s, n)) \/ PromoteDuplicate(<<s, n>>, HashAt(s, n))
  BY <1>2, <1>4, ObjectOf, PromoteFirstAlone, FoundAlone
<1>5. CASE UNCHANGED allocVars
  BY <1>5, AloneSame DEF allocVars
<1>. QED
  BY <1>1, <1>3, <1>4, <1>5

(* The object that allocate fills next, and how.                                 *)
LEMMA AllocateCases ==
  ASSUME ManagerInv, NEW s \in SeqId, AllocateNextBlock(s)
  PROVE  \E k \in 1..MaxBlocks :
           /\ <<s, k>> \in Obj /\ block_id[<<s, k>>] = NoBlock
           /\ \/ AllocateMutable(<<s, k>>)
              \/ /\ HashAt(s, k) \in Hash /\ k * BlockSize <= Len(tokens[s])
                 /\ \/ AllocateImmutableHit(<<s, k>>, HashAt(s, k))
                    \/ AllocateImmutableMiss(<<s, k>>, HashAt(s, k))
<1>1. ManagerTypeOK /\ ~Freeing(s)
  BY OneCall DEF ManagerInv, AllocateNextBlock
<1>2. PICK n \in Nat : BlocksOf(s) = 1..n
  BY <1>1, BlocksInRow
<1> DEFINE k == n + 1
<1>3. NumBlocks(s) = n
  BY <1>2, CountBlocks
<1>4. /\ k <= NumRequired(s)
      /\ IF k * BlockSize <= Len(tokens[s])
           THEN \/ AllocateImmutableHit(<<s, k>>, HashAt(s, k))
                \/ AllocateImmutableMiss(<<s, k>>, HashAt(s, k))
           ELSE AllocateMutable(<<s, k>>)
  BY <1>3 DEF AllocateNextBlock
<1>5. k \in Nat \ {0} /\ k \in 1..MaxBlocks /\ <<s, k>> \in Obj
  <2>1. NumRequired(s) \in Nat /\ NumRequired(s) <= MaxBlocks
    BY <1>1, TextFacts DEF ManagerTypeOK, NumRequired
  <2>2. k \in 1..MaxBlocks
    BY <1>4, <2>1, MaxBlocksAssumption
  <2>. QED
    BY <2>2, ObjectOf
<1>6. block_id[<<s, k>>] = NoBlock
  BY <1>4 DEF AllocateImmutableHit, AllocateImmutableMiss, AllocateMutable, Allocated
<1> HIDE DEF k
<1>7. k * BlockSize <= Len(tokens[s]) => HashAt(s, k) \in Hash
  BY <1>1, <1>5, HashOfPrefix DEF ManagerTypeOK
<1>. QED
  BY <1>4, <1>5, <1>6, <1>7

LEMMA CallStepAlone ==
  ASSUME ManagerInv, AloneOK, CallStep
  PROVE  AloneOK'
<1>0. AllocInv
  BY DEF ManagerInv
<1>1. ASSUME NEW s \in SeqId, AllocateNextBlock(s) PROVE AloneOK'
  <2>1. PICK k \in 1..MaxBlocks :
          /\ <<s, k>> \in Obj /\ block_id[<<s, k>>] = NoBlock
          /\ \/ AllocateMutable(<<s, k>>)
             \/ /\ HashAt(s, k) \in Hash /\ k * BlockSize <= Len(tokens[s])
                /\ \/ AllocateImmutableHit(<<s, k>>, HashAt(s, k))
                   \/ AllocateImmutableMiss(<<s, k>>, HashAt(s, k))
    BY <1>1, AllocateCases
  <2>. QED
    BY <1>0, <2>1, MutableAlone, FoundAlone, MissAlone
<1>2. ASSUME NEW s \in SeqId, FreeNextBlock(s) PROVE AloneOK'
  <2>1. PICK k \in BlocksOf(s) : FreeCached(<<s, k>>) \/ FreeHashless(<<s, k>>)
    BY <1>2 DEF FreeNextBlock
  <2>. QED
    BY <1>0, <2>1, ObjectOf, FreeAlone DEF BlocksOf
<1>3. ASSUME NEW s \in SeqId, AllocateEnd(s) \/ FreeEnd(s) PROVE AloneOK'
  BY <1>3, AloneSame DEF AllocateEnd, FreeEnd, allocVars
<1>. QED
  BY <1>1, <1>2, <1>3 DEF CallStep

-------------------------------------------------------------------------------
(* Where a token lies: the block of its position and the slot in it.             *)
LEMMA PositionOf ==
  ASSUME NEW p \in Nat
  PROVE  /\ p \div BlockSize \in Nat /\ p % BlockSize \in 0..(BlockSize - 1)
         /\ p = ((p \div BlockSize) * BlockSize) + (p % BlockSize)
<1>0. BlockSize \in Nat \ {0}
  BY BlockSizeAssumption
<1>1. p = ((p \div BlockSize) * BlockSize) + (p % BlockSize)
  BY <1>0, SMT
<1>2. p \div BlockSize \in Int /\ p % BlockSize \in 0..(BlockSize - 1)
  BY <1>0, SMT
<1>3. p \div BlockSize \in Nat
  <2>1. \A c \in Int : c < 0 => c * BlockSize <= -BlockSize
    BY <1>0, SMT
  <2>2. \A c \in Int : c * BlockSize \in Int
    BY <1>0, SMT
  <2> DEFINE d == p \div BlockSize
             m == d * BlockSize
             i == p % BlockSize
  <2>3. d \in Int /\ m \in Int /\ i \in 0..(BlockSize - 1) /\ p = m + i /\ (d < 0 => m <= -BlockSize)
    BY <1>1, <1>2, <2>1, <2>2
  <2> HIDE DEF d, m, i
  <2>4. d \in Nat
    BY <1>0, <2>3
  <2>. QED
    BY <2>4 DEF d
<1>. QED
  BY <1>1, <1>2, <1>3

LEMMA SlotNumber ==
  ASSUME NEW k \in Nat, NEW i \in 0..(BlockSize - 1)
  PROVE  /\ k * BlockSize + i \in Nat
         /\ (k * BlockSize + i) \div BlockSize = k /\ (k * BlockSize + i) % BlockSize = i
<1>0. BlockSize \in Nat \ {0}
  BY BlockSizeAssumption
<1>1. k * BlockSize \in Nat
  BY BlockMultiples
<1> DEFINE p == k * BlockSize + i
           d == p \div BlockSize
           m == d * BlockSize
           j == p % BlockSize
           n == k * BlockSize
<1>2. p \in Nat /\ p = n + i /\ n \in Nat
  BY <1>0, <1>1
<1>3. d \in Nat /\ j \in 0..(BlockSize - 1) /\ p = m + j
  BY <1>2, PositionOf
<1>4. m \in Nat /\ (d < k => m + BlockSize <= n) /\ (k < d => n + BlockSize <= m)
  <2> HIDE DEF p, j, d
  <2>. QED
    BY <1>3, BlockMultiples
<1> HIDE DEF p, d, m, j, n
<1>5. d = k /\ (d = k => m = n)
  <2>1. ~(d < k) /\ ~(k < d)
    BY <1>0, <1>2, <1>3, <1>4
  <2>. QED
    BY <1>3, <2>1 DEF m, n
<1>6. j = i
  BY <1>0, <1>2, <1>3, <1>4, <1>5
<1>. QED
  BY <1>2, <1>5, <1>6 DEF p, d, j, n

(* The block of a position is one of a table that fills beyond it.               *)
LEMMA BlockOfPosition ==
  ASSUME NEW p \in Nat, NEW n \in Nat, p < n, NEW c \in Nat, n <= c * BlockSize
  PROVE  (p \div BlockSize) + 1 \in 1..c
<1>0. BlockSize \in Nat \ {0}
  BY BlockSizeAssumption
<1> DEFINE d == p \div BlockSize
           m == d * BlockSize
           e == c * BlockSize
<1>1. d \in Nat /\ m <= p
  <2>1. d \in Nat /\ p % BlockSize \in 0..(BlockSize - 1) /\ p = m + (p % BlockSize)
    BY PositionOf
  <2>2. m \in Nat
    BY <2>1, BlockMultiples
  <2> HIDE DEF m, d
  <2>. QED
    BY <1>0, <2>1, <2>2
<1>2. m \in Nat /\ e \in Nat /\ (c <= d => e <= m) /\ n <= e
  <2> HIDE DEF d
  <2>. QED
    BY <1>1, BlockMultiples
<1> HIDE DEF d, m, e
<1>3. d < c
  BY <1>1, <1>2
<1>4. d + 1 \in 1..c
  BY <1>1, <1>3
<1>. QED
  BY <1>4 DEF d

LEMMA TokenBlock ==
  ASSUME NEW t \in Text, NEW p \in Nat, p < Len(t)
  PROVE  (p \div BlockSize) + 1 \in 1..MaxBlocks
<1>1. Len(t) \in Nat /\ Len(t) <= MaxBlocks * BlockSize /\ MaxBlocks \in Nat
  BY TextFacts, MaxBlocksAssumption
<1>. QED
  BY <1>1, BlockOfPosition

LEMMA TableBlock ==
  ASSUME ManagerInv, NEW s \in tables, NEW p \in Nat, p < full_slots[s]
  PROVE  (p \div BlockSize) + 1 \in BlocksOf(s)
<1>1. s \in SeqId /\ full_slots[s] \in Nat
  BY DEF ManagerInv, ManagerTypeOK
<1>2. BlocksOf(s) = 1..Cdiv(full_slots[s], BlockSize)
  BY <1>1 DEF ManagerInv, SeqOK, TableOK
<1>3. Cdiv(full_slots[s], BlockSize) \in Nat /\ full_slots[s] <= Cdiv(full_slots[s], BlockSize) * BlockSize
  BY <1>1, CdivBlocks
<1> DEFINE c == Cdiv(full_slots[s], BlockSize)
           n == full_slots[s]
<1> HIDE DEF c, n
<1>4. n \in Nat /\ p < n /\ c \in Nat /\ n <= c * BlockSize
  BY <1>1, <1>3 DEF c, n
<1>5. (p \div BlockSize) + 1 \in 1..c
  BY <1>4, BlockOfPosition
<1>. QED
  BY <1>2, <1>5 DEF c, n

(* The full blocks of a table are the cached blocks of its prefixes.             *)
LEMMA FullBlock ==
  ASSUME ManagerInv, CacheInv, NEW s \in SeqId, ~Freeing(s), NEW k \in BlocksOf(s),
         content[<<s, k>>] # NoHash
  PROVE  /\ k \in Nat \ {0} /\ k * BlockSize <= Filled(s) /\ k * BlockSize <= Len(tokens[s])
         /\ content[<<s, k>>] = HashAt(s, k) /\ HashAt(s, k) \in Hash
         /\ cached[HashAt(s, k)] = block_id[<<s, k>>]
<1>1. /\ tokens[s] \in Text /\ Filled(s) \in Nat /\ Len(tokens[s]) \in Nat
      /\ Filled(s) <= Len(tokens[s]) /\ k \in Nat \ {0} /\ <<s, k>> \in Obj /\ Allocated(<<s, k>>)
  BY FilledFacts
<1>2. k * BlockSize <= Filled(s) /\ content[<<s, k>>] = HashAt(s, k)
  BY DEF CacheInv, FilledOK
<1>3. k * BlockSize \in Nat
  BY <1>1, BlockMultiples
<1> DEFINE n == k * BlockSize
<1> HIDE DEF n
<1>4. n <= Len(tokens[s])
  BY <1>1, <1>2, <1>3 DEF n
<1>5. HashAt(s, k) \in Hash
  BY <1>1, <1>4, HashOfPrefix DEF ManagerInv, ManagerTypeOK, n
<1>6. cached[content[<<s, k>>]] = block_id[<<s, k>>]
  BY <1>1 DEF ManagerInv, AllocInv, CachedMapExact, FullIsCached
<1>. QED
  BY <1>1, <1>2, <1>4, <1>5, <1>6 DEF n

(* Two sequences with one hash have one prefix.                                  *)
LEMMA SamePrefix ==
  ASSUME NEW t \in Text, NEW u \in Text, NEW k \in Nat \ {0}, NEW j \in Nat \ {0},
         k * BlockSize <= Len(t), j * BlockSize <= Len(u),
         SubSeq(t, 1, k * BlockSize) = SubSeq(u, 1, j * BlockSize)
  PROVE  /\ j = k
         /\ \A n \in 1..(k * BlockSize) : /\ SubSeq(t, 1, n) = SubSeq(u, 1, n)
                                          /\ SubSeq(t, 1, n) = SubSeq(SubSeq(t, 1, k * BlockSize), 1, n)
<1>1. Depth[SubSeq(t, 1, k * BlockSize)] = k /\ k * BlockSize \in 1..Len(t)
  BY CutHash, ZenonT(60)
<1>2. Depth[SubSeq(u, 1, j * BlockSize)] = j /\ j * BlockSize \in 1..Len(u)
  BY CutHash, ZenonT(60)
<1>3. j = k
  BY <1>1, <1>2
<1>4. t \in Seq(Nat) /\ u \in Seq(Nat)
  BY TextFacts
<1> DEFINE m == k * BlockSize
<1>5. m \in 1..Len(t) /\ m \in 1..Len(u) /\ SubSeq(t, 1, m) = SubSeq(u, 1, m)
  BY <1>1, <1>2, <1>3
<1> HIDE DEF m
<1>6. ASSUME NEW n \in 1..m
      PROVE  SubSeq(t, 1, n) = SubSeq(u, 1, n) /\ SubSeq(t, 1, n) = SubSeq(SubSeq(t, 1, m), 1, n)
  <2>1. SubSeq(SubSeq(t, 1, m), 1, n) = SubSeq(t, 1, n)
    BY <1>4, <1>5, PrefixOfPrefix
  <2>2. SubSeq(SubSeq(u, 1, m), 1, n) = SubSeq(u, 1, n)
    BY <1>4, <1>5, PrefixOfPrefix
  <2>. QED
    BY <1>5, <2>1, <2>2
<1>. QED
  BY <1>3, <1>6 DEF m

(* Where two tables share a slot, they share the prefix that it stands for.      *)
LEMMA SharedSlot ==
  ASSUME ManagerInv, CacheInv, AloneOK,
         NEW r \in SeqId, NEW s \in SeqId, ~Freeing(r), ~Freeing(s),
         NEW q \in Nat, NEW p \in Nat, q < Len(tokens[r]), p < Len(tokens[s]),
         (q \div BlockSize) + 1 \in BlocksOf(r), (p \div BlockSize) + 1 \in BlocksOf(s),
         block_id[<<r, (q \div BlockSize) + 1>>] = block_id[<<s, (p \div BlockSize) + 1>>],
         q % BlockSize = p % BlockSize
  PROVE  p = q /\ SubSeq(tokens[r], 1, q + 1) = SubSeq(tokens[s], 1, p + 1)
<1>0. BlockSize \in Nat \ {0}
  BY BlockSizeAssumption
<1> DEFINE j == (q \div BlockSize) + 1
           k == (p \div BlockSize) + 1
<1>1. /\ <<r, j>> \in Obj /\ <<s, k>> \in Obj /\ Allocated(<<r, j>>) /\ Allocated(<<s, k>>)
      /\ j \in Nat \ {0} /\ k \in Nat \ {0} /\ tokens[r] \in Text /\ tokens[s] \in Text
  BY FilledFacts
<1>2. block_id[<<r, j>>] = block_id[<<s, k>>]
  OBVIOUS
<1>3. j = k => q = p
  <2> DEFINE d == q \div BlockSize
             e == p \div BlockSize
  <2>1. d \in Nat /\ e \in Nat /\ q = (d * BlockSize) + (q % BlockSize)
        /\ p = (e * BlockSize) + (p % BlockSize)
    BY PositionOf
  <2>2. j = k => d = e
    <3> HIDE DEF d, e
    <3>. QED
      BY <2>1 DEF j, k, d, e
  <2> HIDE DEF d, e
  <2>. QED
    BY <2>1, <2>2
<1>4. CASE content[<<s, k>>] = NoHash
  <2>1. <<r, j>> = <<s, k>>
    BY <1>1, <1>2, <1>4 DEF AloneOK
  <2>2. r = s /\ j = k
    BY <2>1
  <2>. QED
    BY <1>3, <2>2
<1>5. CASE content[<<s, k>>] # NoHash
  <2>1. content[<<r, j>>] = content[<<s, k>>]
    BY <1>1, <1>2 DEF ManagerInv, AllocInv, SharedBlocksAgree
  <2>2. k \in BlocksOf(s) /\ j \in BlocksOf(r)
    OBVIOUS
  <2> HIDE DEF j, k
  <2>3. /\ k * BlockSize <= Len(tokens[s]) /\ j * BlockSize <= Len(tokens[r])
        /\ HashAt(r, j) = HashAt(s, k)
    BY <1>5, <2>1, <2>2, FullBlock
  <2>4. /\ j = k
        /\ \A n \in 1..(k * BlockSize) : SubSeq(tokens[s], 1, n) = SubSeq(tokens[r], 1, n)
    <3>1. SubSeq(tokens[s], 1, k * BlockSize) = SubSeq(tokens[r], 1, j * BlockSize)
      BY <2>3 DEF HashAt
    <3>. QED
      BY ONLY <1>1, <2>3, <3>1, SamePrefix, ZenonT(60)
  <2>5. p + 1 \in 1..(k * BlockSize)
    <3> DEFINE e == p \div BlockSize
               m == e * BlockSize
               n == k * BlockSize
    <3>1. e \in Nat /\ p % BlockSize \in 0..(BlockSize - 1) /\ p = m + (p % BlockSize)
      BY PositionOf
    <3>2. m + BlockSize <= n /\ n \in Nat /\ m \in Nat
      <4>1. k = e + 1
        BY DEF k
      <4> HIDE DEF e
      <4>2. e < k
        BY <3>1, <4>1
      <4>. QED
        BY <1>1, <3>1, <4>2, BlockMultiples
    <3> HIDE DEF e, m, n
    <3>3. p + 1 \in 1..n
      BY <1>0, <3>1, <3>2
    <3>. QED
      BY <3>3 DEF n
  <2>. QED
    BY <1>3, <2>4, <2>5
<1>. QED
  BY <1>4, <1>5

===============================================================================
