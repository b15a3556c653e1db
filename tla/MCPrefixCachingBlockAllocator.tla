-------------------- MODULE MCPrefixCachingBlockAllocator --------------------
(***************************************************************************)
(* PrefixCachingBlockAllocator for TLC: three blocks, prefixes of one and   *)
(* of two blocks, objects enough for a block to be shared three ways.       *)
(***************************************************************************)
EXTENDS PrefixCachingBlockAllocator, TLC

CONSTANTS b1, b2, b3, o1, o2, o3, h1, h2

MCBlock == {b1, b2, b3}
MCObj == {o1, o2, o3}
MCHash == {h1, h2}
MCDepth == (h1 :> 1) @@ (h2 :> 2)
MCSymmetry == Permutations(MCBlock) \cup Permutations(MCObj)
===============================================================================
