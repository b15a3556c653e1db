------------------------------- MODULE MambaCache -------------------------------
(***************************************************************************)
(* MambaCacheManager (constant_size_cache.py, mamba_cache.py): a slot of      *)
(* recurrent state for each request the workers have computed for, as        *)
(* operators on a record c of                                              *)
(*   slot      slot[s]: whether the request has one, how many of its tokens   *)
(*             the state in it stands for, and whether it is their state     *)
(*   finished  slots of requests in the scheduler's _finished_requests_ids,   *)
(*             which the next batch releases                               *)
(*   lost      slots of requests that are gone and never were in that list    *)
(* Free slots are all alike: a released one is zeroed.                      *)
(***************************************************************************)
EXTENDS Integers, FiniteSets

CONSTANTS Request, MaxBatchSize

Zeros == [held |-> FALSE, upto |-> 0, right |-> TRUE]
EmptyCache == [slot |-> [s \in Request |-> Zeros], finished |-> 0, lost |-> 0]

Taken(c, s) == IF c.slot[s].held THEN 1 ELSE 0

(* _finished_requests_ids.append(request_id)                               *)
Retire(c, s) == [c EXCEPT !.slot[s] = Zeros, !.finished = @ + Taken(c, s)]

(* the request is gone, its id was not reported                            *)
Forget(c, s) == [c EXCEPT !.slot[s] = Zeros, !.lost = @ + Taken(c, s)]

(* _release_finished_requests, before anything is assigned                  *)
Released(c) == [c EXCEPT !.finished = 0]

Free(c) ==
  MaxBatchSize - Cardinality({s \in Request : c.slot[s].held}) - c.finished - c.lost

(* _prepare_current_run_cache pops a slot for each request without one; an    *)
(* empty list raises.                                                      *)
SlotsSuffice(c, batch) ==
  Cardinality({s \in batch : ~c.slot[s].held}) <= Free(Released(c))

(* The state of s after its tokens from..to: what was in the slot goes in,     *)
(* whatever it is.                                                         *)
Advance(before, from, to) ==
  [held |-> TRUE, upto |-> to, right |-> before.right /\ before.upto = from]

===============================================================================
