------------------------------ MODULE MCGdnPrefill ------------------------------
(***************************************************************************)
(* GdnPrefill for TLC: blocks of two tokens, kernel chunks of two blocks and *)
(* scheduler chunks of four, as 16, 64 and 4096 tokens are in production.   *)
(***************************************************************************)
EXTENDS GdnPrefill

MCHash == 1..MaxBlocks
MCDepth == [h \in MCHash |-> h]
===============================================================================
