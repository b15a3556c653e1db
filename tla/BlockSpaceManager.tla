--------------------------- MODULE BlockSpaceManager ---------------------------
(***************************************************************************)
(* BlockSpaceManagerV2 (vllm/core/block_manager_v2.py) with its block        *)
(* tables and its two trackers, over the GPU PrefixCachingBlockAllocator.   *)
(*                                                                         *)
(* `allocate` and `free` call the allocator once per block.  The manager is  *)
(* single-threaded: `call` is the operation in progress, each of its        *)
(* allocator calls is a step, and nothing else runs in between.             *)
(*                                                                         *)
(* Sequence groups have one sequence.  Hash = Text cut at block boundaries:  *)
(* the hash of a block is the token prefix up to its end.                   *)
(***************************************************************************)
EXTENDS PrefixCachingBlockAllocator, Sequences

CONSTANTS
  SeqId,            (* sequences                                            *)
  Text,             (* the token sequences requests may reach               *)
  BlockSize,        (* tokens in a block                                    *)
  MaxBlocks,        (* blocks in the longest table                          *)
  WatermarkBlocks   (* watermark_blocks                                     *)

IsPrefixClosed(T) ==
  \A t \in T : \A n \in 0..Len(t) : SubSeq(t, 1, n) \in T

ASSUME BlockSizeAssumption == BlockSize \in Nat /\ BlockSize > 1
ASSUME WatermarkAssumption == WatermarkBlocks \in Nat
ASSUME MaxBlocksAssumption == MaxBlocks \in Nat
ASSUME TextAssumption ==
  /\ Text \subseteq Seq(Nat) /\ <<>> \in Text
  /\ IsPrefixClosed(Text)
  /\ \A t \in Text : Len(t) <= MaxBlocks * BlockSize
ASSUME ObjAssumption == Obj = SeqId \X (1..MaxBlocks)
ASSUME HashAssumption ==
  /\ Hash = {t \in Text : t # <<>> /\ Len(t) % BlockSize = 0}
  /\ Depth = [h \in Hash |-> Len(h) \div BlockSize]

VARIABLES
  tokens,           (* seq.get_token_ids()                                  *)
  tables,           (* the keys of block_tables                             *)
  full_slots,       (* block_tables[s]._num_full_slots                      *)
  last_access,      (* LastAccessBlocksTracker._seq_last_access             *)
  computed_ids,     (* ComputedBlocksTracker: the computed prefix           *)
  has_gap,          (* ... and whether it ended before the table did        *)
  call              (* the operation in progress                            *)

managerVars == <<tables, full_slots, last_access, computed_ids, has_gap>>

NotAccessed == -1   (* _seq_last_access[s] = None                           *)
Idle == [op |-> "idle"]
Calls == {Idle} \cup [op : {"allocate", "free"}, seq : SeqId]

Cdiv(a, b) == -((-a) \div b)

(* The blocks of a table are the objects <<s, 1>>, <<s, 2>>, ...             *)
BlocksOf(s) == {k \in 1..MaxBlocks : Allocated(<<s, k>>)}
NumBlocks(s) == Cardinality(BlocksOf(s))
BlockIds(s) == {block_id[<<s, k>>] : k \in BlocksOf(s)}
Table(s) == [k \in 1..NumBlocks(s) |-> block_id[<<s, k>>]]
HashAt(s, k) == SubSeq(tokens[s], 1, k * BlockSize)

NumFreeBlocks == Cardinality(free) + Cardinality(InEvictor)

-------------------------------------------------------------------------------
(* can_allocate: the worst case, no block of the prompt is cached.          *)
NumRequired(s) == Cdiv(Len(tokens[s]), BlockSize)

(* Variant: the blocks in use are not subtracted.                           *)
AllocStatusIgnoresUse(s) ==
  IF Cardinality(Block) - NumRequired(s) < WatermarkBlocks THEN "NEVER" ELSE "OK"

AllocStatus(s) ==
  CASE Cardinality(Block) - NumRequired(s) < WatermarkBlocks -> "NEVER"
    [] NumFreeBlocks - NumRequired(s) >= WatermarkBlocks -> "OK"
    [] OTHER -> "LATER"

(* can_append_slots and get_num_blocks_touched_by_append_slots.             *)
Unseen(s) == Len(tokens[s]) - full_slots[s]

Touched(s) ==
  1 + Cdiv(Unseen(s) - (BlockSize - (full_slots[s] % BlockSize)), BlockSize)

CanAppendSlots(s) == Touched(s) <= NumFreeBlocks

-------------------------------------------------------------------------------
(* allocate(s): full blocks through allocate_immutable_block, the tail in a  *)
(* mutable block, in order; then the trackers start.                        *)
AllocateBegin(s) ==
  /\ call = Idle
  /\ s \notin tables
  /\ Len(tokens[s]) > 0
  /\ call' = [op |-> "allocate", seq |-> s]
  /\ UNCHANGED <<allocVars, managerVars>>

Allocating(s) == call = [op |-> "allocate", seq |-> s]

AllocateNextBlock(s) ==
  LET k == NumBlocks(s) + 1 IN
  /\ Allocating(s)
  /\ k <= NumRequired(s)
  /\ IF k * BlockSize <= Len(tokens[s])
       THEN \/ AllocateImmutableHit(<<s, k>>, HashAt(s, k))
            \/ AllocateImmutableMiss(<<s, k>>, HashAt(s, k))
       ELSE AllocateMutable(<<s, k>>)
  /\ UNCHANGED <<managerVars, call>>

AllocateEnd(s) ==
  /\ Allocating(s)
  /\ NumBlocks(s) = NumRequired(s)
  /\ tables' = tables \cup {s}
  /\ full_slots' = [full_slots EXCEPT ![s] = Len(tokens[s])]
  /\ last_access' = [last_access EXCEPT ![s] = NotAccessed]
  /\ computed_ids' = [computed_ids EXCEPT ![s] = <<>>]
  /\ has_gap' = [has_gap EXCEPT ![s] = FALSE]
  /\ call' = Idle
  /\ UNCHANGED allocVars

(* append_slots(s) with at most one unseen token and no lookahead: either a  *)
(* block is added for it, or it goes into the last block, which is promoted  *)
(* when that fills it.                                                     *)
AppendsToNewBlockEarly(s) ==   \* variant: off by one
  Unseen(s) >= NumBlocks(s) * BlockSize - full_slots[s]
AppendsToNewBlock(s) == Unseen(s) > NumBlocks(s) * BlockSize - full_slots[s]
FillsLastBlock(s) == Unseen(s) = 1 /\ (full_slots[s] + 1) % BlockSize = 0

AppendSlots(s) ==
  LET n == NumBlocks(s) IN
  /\ call = Idle
  /\ s \in tables
  /\ Unseen(s) \in {0, 1}
  /\ CASE AppendsToNewBlock(s) -> AllocateMutable(<<s, n + 1>>)
       [] FillsLastBlock(s) -> \/ PromoteFirst(<<s, n>>, HashAt(s, n))
                               \/ PromoteDuplicate(<<s, n>>, HashAt(s, n))
       [] OTHER -> UNCHANGED allocVars
  /\ full_slots' = [full_slots EXCEPT ![s] = Len(tokens[s])]
  /\ UNCHANGED <<tables, last_access, computed_ids, has_gap, call>>

(* free(s): the table's blocks get the sequence's stamp, the trackers stop,  *)
(* and the blocks are freed in order.                                      *)
FreeBegin(s) ==
  /\ call = Idle
  /\ s \in tables
  /\ IF last_access[s] = NotAccessed
       THEN UNCHANGED allocVars
       ELSE MarkAccessed(BlockIds(s), last_access[s])
  /\ tables' = tables \ {s}
  /\ full_slots' = [full_slots EXCEPT ![s] = 0]
  /\ last_access' = [last_access EXCEPT ![s] = NotAccessed]
  /\ computed_ids' = [computed_ids EXCEPT ![s] = <<>>]
  /\ has_gap' = [has_gap EXCEPT ![s] = FALSE]
  /\ call' = [op |-> "free", seq |-> s]

Freeing(s) == call = [op |-> "free", seq |-> s]

FreeNextBlock(s) ==
  /\ Freeing(s)
  /\ \E k \in BlocksOf(s) :
       /\ \A j \in BlocksOf(s) : k <= j
       /\ FreeCached(<<s, k>>) \/ FreeHashless(<<s, k>>)
  /\ UNCHANGED <<managerVars, call>>

FreeEnd(s) ==
  /\ Freeing(s)
  /\ BlocksOf(s) = {}
  /\ call' = Idle
  /\ UNCHANGED <<allocVars, managerVars>>

CallStep == \E s \in SeqId : \/ AllocateNextBlock(s)
                             \/ AllocateEnd(s)
                             \/ FreeNextBlock(s)
                             \/ FreeEnd(s)

-------------------------------------------------------------------------------
(* access_all_blocks_in_seq                                                *)
AccessAllBlocks(s, now) == last_access' = [last_access EXCEPT ![s] = now]

(* get_computed_block_ids: every computed block after the known prefix but   *)
(* the last block of the table; the loop does not stop at the first one      *)
(* that is not computed.                                                   *)
ComputedBlockIds(s) ==
  LET known == Len(computed_ids[s])
      later == {k \in (known + 1)..(NumBlocks(s) - 1) : IsComputed(block_id[<<s, k>>])}
      rank(k) == Cardinality({j \in later : j <= k})
  IN computed_ids[s]
       \o [i \in 1..Cardinality(later) |-> Table(s)[CHOOSE k \in later : rank(k) = i]]

(* get_cached_computed_blocks_and_update                                   *)
ComputedPrefix(s) == IF has_gap[s] THEN computed_ids[s] ELSE ComputedBlockIds(s)

UpdateComputedPrefix(s) ==
  /\ computed_ids' = [computed_ids EXCEPT ![s] = ComputedPrefix(s)]
  /\ has_gap' = [has_gap EXCEPT ![s] = Len(ComputedPrefix(s)) < NumBlocks(s) - 1]

ManagerInit ==
  /\ AllocInit
  /\ tables = {}
  /\ full_slots = [s \in SeqId |-> 0]
  /\ last_access = [s \in SeqId |-> NotAccessed]
  /\ computed_ids = [s \in SeqId |-> <<>>]
  /\ has_gap = [s \in SeqId |-> FALSE]
  /\ call = Idle

===============================================================================
