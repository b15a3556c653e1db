----------------------- MODULE MCChunkedPrefillScheduler -----------------------
(***************************************************************************)
(* ChunkedPrefillScheduler for TLC: blocks of two tokens, tables of at most  *)
(* three, two prompts that share a block and one that shares none.          *)
(***************************************************************************)
EXTENDS ChunkedPrefillScheduler, TLC

CONSTANTS MaxText, b1, b2, b3, b4, s1, s2

Cut(t) == SubSeq(t, 1, IF Len(t) < MaxText THEN Len(t) ELSE MaxText)
Longest == {Cut(<<1, 1, 1, 1, 1, 1>>), Cut(<<1, 1, 2, 2, 2>>), Cut(<<2, 2, 2, 2, 2, 2>>)}
           \cup (IF MaxText > 6 THEN {<<3, 3, 3, 3, 3, 3, 3>>} ELSE {})
AllTexts == UNION {{SubSeq(t, 1, n) : n \in 0..Len(t)} : t \in Longest}
MCText == AllTexts          (* TLC computes a definition behind an override only once *)
MCPrompts == {<<1, 1>>, <<1, 1, 2, 2>>, <<2, 2, 2>>}
HybridPrompts ==
  {<<1, 1, 1, 1, 1, 1>>, <<1, 1, 2, 2>>, <<2, 2, 2, 2, 2>>, <<2, 2, 2, 2, 2, 2>>,
   <<3, 3, 3, 3, 3, 3, 3>>}                 (* the last one never fits *)
LongPrompts == {<<1, 1, 1, 1, 1, 1>>, <<2, 2, 2, 2>>}
ShortPrompts == {<<1>>, <<2>>}
FullTexts == {t \in AllTexts : t # <<>> /\ Len(t) % BlockSize = 0}
MCHash == FullTexts
Depths == [h \in FullTexts |-> Len(h) \div BlockSize]
MCDepth == Depths
Objects == SeqId \X (1..MaxBlocks)
MCObj == Objects
MCSymmetry == Permutations(Block) \cup Permutations(SeqId)
===============================================================================
