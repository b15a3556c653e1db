-------------------------- MODULE MCTieredPrefixCache --------------------------
(***************************************************************************)
(* TieredPrefixCache for TLC: prompts of one block, so that every content   *)
(* may follow every other; fewer GPU blocks and CPU slots than contents.     *)
(***************************************************************************)
EXTENDS TieredPrefixCache, TLC

CONSTANTS b1, b2, b3, o1, o2, o3, o4, h1, h2, h3, h4

MCBlock == {b1, b2, b3}
MCObj == {o1, o2, o3, o4}
MCHash == {h1, h2, h3, h4}
MCDepth == [h \in MCHash |-> 1]
MCSymmetry == Permutations(MCBlock) \cup Permutations(MCObj) \cup Permutations(MCHash)
===============================================================================
