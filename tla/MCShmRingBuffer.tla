----------------------------- MODULE MCShmRingBuffer ----------------------------
(***************************************************************************)
(* ShmRingBuffer for TLC: the three readers of four tensor-parallel ranks,   *)
(* a ring of two chunks that four messages go round twice, and every mix of  *)
(* messages that fit a chunk and that overflow it.                          *)
(***************************************************************************)
EXTENDS ShmRingBuffer
===============================================================================
