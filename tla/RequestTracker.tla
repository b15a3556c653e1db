----------------------------- MODULE RequestTracker -----------------------------
(***************************************************************************)
(* RequestTracker and AsyncStream of the asynchronous engine, as operators   *)
(* on a tracker t, a record of                                             *)
(*   new          _new_requests, in order                                  *)
(*   aborted      _aborted_requests (only ever drained into a set)          *)
(*   registered   the keys of _request_streams                             *)
(*   event        new_requests_event                                       *)
(*   stream       the AsyncStream of each request: its queue, and whether it *)
(*                is finished.                                             *)
(* They run between two awaits of the event loop, so each is one step.      *)
(***************************************************************************)
EXTENDS Sequences, SequencesExt

CONSTANTS Req               (* the request ids, each used once              *)

(* what a stream's queue holds besides outputs                             *)
STOP == [end |-> "STOP_ITERATION"]
CANCELLED == [end |-> "CancelledError"]
FAILED == [end |-> "exception of the loop"]
INVALID == [end |-> "ValueError"]
IsEnd(item) == item \in {STOP, CANCELLED, FAILED, INVALID}

NewTracker(stream) ==
  [new |-> <<>>, aborted |-> {}, registered |-> {}, event |-> FALSE, stream |-> stream]

EmptyStream == [queue |-> <<>>, finished |-> FALSE]

(* AsyncStream.put, AsyncStream.finish                                     *)
Put(s, item) == IF s.finished THEN s ELSE [s EXCEPT !.queue = Append(@, item)]
Finish(s, end) == [Put(s, end) EXCEPT !.finished = TRUE]

(* add_request                                                             *)
AddRequest(t, r) ==
  [t EXCEPT !.new = Append(@, r), !.event = TRUE, !.stream[r] = EmptyStream]

(* Variant: the engine is not told of the abort.                            *)
AbortRequestQuietly(t, r, end) ==
  [t EXCEPT !.registered = @ \ {r},
            !.stream[r] = IF r \in t.registered THEN Finish(@, end) ELSE @]

(* abort_request                                                           *)
AbortRequest(t, r, end) ==
  [t EXCEPT !.aborted = @ \cup {r},
            !.registered = @ \ {r},
            !.stream[r] = IF r \in t.registered THEN Finish(@, end) ELSE @]

(* Variant: the streams are dropped before they are finished.               *)
PropagateToNobody(t, end) == [t EXCEPT !.aborted = @ \cup t.registered, !.registered = {}]

(* propagate_exception with no request id                                  *)
PropagateException(t, end) ==
  [t EXCEPT !.aborted = @ \cup t.registered,
            !.registered = {},
            !.stream = [r \in Req |-> IF r \in t.registered THEN Finish(@[r], end) ELSE @[r]]]

(* Variant: the stream is finished before the last output is put.           *)
ProcessRequestOutputLate(t, r, output) ==
  IF r \notin t.registered THEN t
  ELSE IF output.finished
       THEN [t EXCEPT !.registered = @ \ {r}, !.stream[r] = Put(Finish(@, STOP), output)]
       ELSE [t EXCEPT !.stream[r] = Put(@, output)]

(* process_request_output                                                  *)
ProcessRequestOutput(t, r, output) ==
  IF r \notin t.registered THEN t
  ELSE IF output.finished
       THEN [t EXCEPT !.registered = @ \ {r}, !.stream[r] = Finish(Put(@, output), STOP)]
       ELSE [t EXCEPT !.stream[r] = Put(@, output)]

(* process_request_outputs, for the output of each request of a batch: an     *)
(* output touches its own request only, so their order does not matter.     *)
ProcessRequestOutputs(t, batch, output) ==
  [t EXCEPT
     !.registered = {r \in @ : r \in batch => r \in ProcessRequestOutput(t, r, output[r]).registered},
     !.stream = [r \in Req |-> IF r \in batch THEN ProcessRequestOutput(t, r, output[r]).stream[r]
                               ELSE @[r]]]

(* get_new_and_aborted_requests: a request aborted before it was taken is     *)
(* never given to the engine.                                              *)
TakenRequests(t) ==
  LET taken[i \in 0..Len(t.new)] ==
        IF i = 0 THEN <<>>
        ELSE IF t.new[i] \in t.aborted THEN taken[i - 1] ELSE Append(taken[i - 1], t.new[i])
  IN  taken[Len(t.new)]
TakenAborts(t) == t.aborted \ ToSet(t.new)
Drained(t) ==
  [t EXCEPT !.new = <<>>, !.aborted = {},
            !.registered = @ \cup ToSet(TakenRequests(t)),
            !.stream = [r \in Req |-> IF r \in ToSet(t.new) \cap t.aborted
                                      THEN Finish(@[r], CANCELLED) ELSE @[r]]]

===============================================================================
