---------------------------- MODULE MCAsyncLLMEngine ----------------------------
(***************************************************************************)
(* AsyncLLMEngine for TLC: two requests, one of which has a single output,    *)
(* two workers besides the driver, and one fault.                           *)
(***************************************************************************)
EXTENDS AsyncLLMEngine

CONSTANTS r1, r2, w1, w2

MCMaxOutputs == [r \in Req |-> IF r = r1 THEN 2 ELSE 1]
MCMessage == {"step", "stop"}
===============================================================================
