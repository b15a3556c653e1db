----------------------------- MODULE RequestStreams -----------------------------
(***************************************************************************)
(* What generate() promises its caller: the outputs of the request in order, *)
(* each once; the stream ends normally only after the output marked as      *)
(* finished, and nothing follows the end.                                  *)
(***************************************************************************)
EXTENDS Naturals

CONSTANTS Req

VARIABLES
  outputs,          (* outputs[r]: the number of the last output of r received*)
  final,            (* final[r]: the last of them was marked as finished    *)
  ended             (* ended[r]: "open", "normal" or "error"                *)

streamVars == <<outputs, final, ended>>

StreamsInit ==
  /\ outputs = [r \in Req |-> 0]
  /\ final = [r \in Req |-> FALSE]
  /\ ended = [r \in Req |-> "open"]

Output(r, finished) ==
  /\ ended[r] = "open" /\ ~final[r]
  /\ outputs' = [outputs EXCEPT ![r] = @ + 1]
  /\ final' = [final EXCEPT ![r] = finished]
  /\ UNCHANGED ended

End(r) ==
  /\ ended[r] = "open"
  /\ ended' = [ended EXCEPT ![r] = IF final[r] THEN "normal" ELSE "error"]
  /\ UNCHANGED <<outputs, final>>

StreamsNext == \E r \in Req : End(r) \/ \E finished \in BOOLEAN : Output(r, finished)

StreamsSpec == StreamsInit /\ [][StreamsNext]_streamVars

===============================================================================
