-------------------------- MODULE MCCpuKvContentCache --------------------------
(***************************************************************************)
(* CpuKvContentCache for TLC: more contents than slots, and GPU blocks       *)
(* enough for a load and two stores in one step.                            *)
(***************************************************************************)
EXTENDS CpuKvContentCache, TLC

CONSTANTS g1, g2, g3, c1, c2, c3, c4

MCGpuBlock == {g1, g2, g3}
MCContentHash == {c1, c2, c3, c4}
MCSymmetry == Permutations(MCGpuBlock) \cup Permutations(MCContentHash)
===============================================================================
