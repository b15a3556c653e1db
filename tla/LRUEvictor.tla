------------------------------ MODULE LRUEvictor ------------------------------
(***************************************************************************)
(* The LRU evictor of vllm/core/evictor_v2.py: the cached blocks that no    *)
(* block object refers to, in the order in which they were added.           *)
(*                                                                         *)
(* The OrderedDict `free_table` is a function from block ids to entries     *)
(* together with the relation `older` that records its insertion order, so  *)
(* that the module needs no counter and no sequence.                        *)
(***************************************************************************)
EXTENDS Integers

CONSTANTS
  Block,      (* physical block ids of one device                           *)
  Hash,       (* content hashes: one per full block of a token prefix       *)
  Depth,      (* Depth[h]: the number of full blocks in the prefix of h     *)
  NoEntry     (* a block that is not in the evictor                         *)

Time == Int                       (* last_accessed stamps, -1 by default    *)
Entry == [hash : Hash, ts : Time]

ASSUME DepthAssumption == Depth \in [Hash -> Nat]
ASSUME NoEntryAssumption == NoEntry \notin Entry

VARIABLES
  free_table, (* free_table[b]: the entry of block b, or NoEntry            *)
  older       (* <<c, b>> \in older: c was added before b, both are in      *)

evictorVars == <<free_table, older>>

InEvictor == {b \in Block : free_table[b] # NoEntry}

(* num_hashed_tokens of an entry, counted in blocks.                       *)
HashedTokens(b) == Depth[free_table[b].hash]

EvictorInit ==
  /\ free_table = [b \in Block |-> NoEntry]
  /\ older = {}

(* The bodies of add, remove and update as functions of the two fields;     *)
(* update, here of all the blocks of S, leaves the order alone.             *)
Added(b, h, ts) == [free_table EXCEPT ![b] = [hash |-> h, ts |-> ts]]
OlderAdded(b) == older \cup (InEvictor \X {b})
Removed(b) == [free_table EXCEPT ![b] = NoEntry]
OlderRemoved(b) == {p \in older : p[1] # b /\ p[2] # b}

Updated(S, now) ==
  [b \in Block |-> IF b \in S THEN [free_table[b] EXCEPT !.ts = now] ELSE free_table[b]]

UpTo(e) == {d \in InEvictor : d = e \/ <<d, e>> \in older}
Before(e) == {d \in InEvictor : <<d, e>> \in older}

(* Variant: the block with the fewest hashed tokens goes first.             *)
ChampionShallowest(c, S) ==
  /\ c \in S
  /\ \A d \in S : \/ HashedTokens(d) > HashedTokens(c)
                  \/ HashedTokens(d) = HashedTokens(c) /\ <<c, d>> \in older
                  \/ d = c

(* c is the block the loop of `evict` holds after it has looked at S: the   *)
(* one with the most hashed tokens, and the oldest of those.               *)
Champion(c, S) ==
  /\ c \in S
  /\ \A d \in S : \/ HashedTokens(d) < HashedTokens(c)
                  \/ HashedTokens(d) = HashedTokens(c) /\ <<c, d>> \in older
                  \/ d = c

(* The loop breaks at the first entry with a stamp above its candidate's.  *)
Breaks(e) == \E c \in Before(e) :
               Champion(c, Before(e)) /\ free_table[c].ts < free_table[e].ts

Scanned == {e \in InEvictor : \A d \in UpTo(e) : ~Breaks(d)}

(* v is the block `evict` returns.                                         *)
EvictionVictim(v) == Champion(v, Scanned)

===============================================================================
