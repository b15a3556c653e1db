------------------------------- MODULE GdnPrefill -------------------------------
(***************************************************************************)
(* The prefill of one request under the GDN checkpoint policy, step by step: *)
(* what _schedule_prefills plans, what _cap_gdn_capture_boundary cuts, which *)
(* checkpoints the steps capture and where they cut the recurrence.         *)
(*                                                                         *)
(* The keys of the prompt are the block counts 1..MaxBlocks.  The index and  *)
(* the computed prefix the request meets are whatever earlier requests left; *)
(* the other groups of a step leave it any share of the token budget, or the *)
(* request is alone and has the whole budget in every step.                 *)
(***************************************************************************)
EXTENDS GdnPrefix

CONSTANTS
  MaxBlocks,        (* bound: full blocks of the longest prompt             *)
  Chunk,            (* max_num_batched_tokens                               *)
  Shares            (* the budgets a step may find: subset of 1..Chunk      *)

ASSUME PrefillAssumption ==
  /\ BlockSize \in Nat /\ BlockSize > 1
  /\ MaxBlocks \in Nat /\ Chunk \in Nat \ {0} /\ Chunk % BlockSize = 0
  /\ Shares \subseteq BlockSize..Chunk
  /\ Hash = 1..MaxBlocks /\ Depth = [h \in Hash |-> h]

VARIABLES
  alone,            (* no other group shares the request's steps            *)
  length,           (* tokens of the prompt                                 *)
  index,            (* the index, as planning found and left it             *)
  targets,          (* _gdn_request_capture_targets                         *)
  restored,         (* the key the first step restores                      *)
  planned,          (* the first chunk is planned                           *)
  end,              (* where the planned chunk ends                         *)
  done,             (* tokens prefilled                                     *)
  captured,         (* keys captured so far                                 *)
  cuts              (* boundaries at which the recurrence was cut           *)

vars == <<alone, length, index, targets, restored, planned, end, done, captured, cuts>>

PromptHashes == [k \in 1..(length \div BlockSize) |-> k]
Restored == IF restored = NoKey THEN 0 ELSE Boundary(restored)

Init ==
  /\ alone \in BOOLEAN
  /\ length \in 1..(MaxBlocks * BlockSize + BlockSize - 1)
  /\ index \in {s \in SeqOf(Hash, Capacity) : IsInjective(s)}
  /\ targets = {} /\ restored = NoKey
  /\ planned = FALSE /\ end = 0 /\ done = 0
  /\ captured = {} /\ cuts = {}

(* _get_num_new_tokens with `share` tokens left                            *)
NumNewTokens(share) ==
  IF share < length - done THEN (share \div BlockSize) * BlockSize ELSE length - done

Plan(share, computedBlocks) ==
  LET live == LiveKeys(PromptHashes, length, computedBlocks)
      key == RestoreKey(index, live)
      after == AfterRestore(index, key)
      wanted == CaptureTargets(PromptHashes, length, live, after)
      chunk == FirstChunk(key, wanted, length, NumNewTokens(share), share, Chunk)
  IN
  /\ ~planned /\ done = 0
  /\ NumNewTokens(share) > 0
  /\ index' = after
  /\ restored' = key
  /\ targets' = wanted
  /\ end' = chunk.end
  /\ planned' = TRUE
  /\ UNCHANGED <<alone, length, done, captured, cuts>>

PlanNext(share) ==
  /\ ~planned /\ 0 < done /\ done < length
  /\ NumNewTokens(share) > 0
  /\ end' = CappedEnd(done, done + NumNewTokens(share), targets)
  /\ planned' = TRUE
  /\ UNCHANGED <<alone, length, index, targets, restored, done, captured, cuts>>

Step ==
  LET start == IF done = 0 THEN Restored ELSE done
      captures == StepCaptures(PromptHashes, start, end, targets)
  IN
  /\ planned
  /\ captured' = captured \cup captures
  /\ cuts' = cuts \cup {end} \cup StepSegments(PromptHashes, start, end, Chunk)
                  \cup {Boundary(k) : k \in captures}
  /\ index' = Admit(index, ByDepth(captures)).index
  /\ done' = end
  /\ planned' = FALSE
  /\ UNCHANGED <<alone, length, targets, restored, end>>

Next ==
  \/ \E share \in IF alone THEN {Chunk} ELSE Shares :
       \/ \E computedBlocks \in 0..MaxBlocks : Plan(share, computedBlocks)
       \/ PlanNext(share)
  \/ Step

Spec == Init /\ [][Next]_vars /\ WF_vars(Next)

-------------------------------------------------------------------------------
Finished == done = length

(* Where a cold run of the prompt under fine32/direct cuts the recurrence.   *)
ColdEnds == {e \in 1..length : e % Chunk = 0 \/ e = length}
ColdCuts ==
  ColdEnds \cup {Boundary(k) : k \in
    {FinalCaptureKey(PromptHashes, e, "direct") : e \in ColdEnds} \ {NoKey}}

(* Every step makes progress: no plan and no cap leaves a step without        *)
(* tokens, nor ends it inside the restored prefix or before its start.      *)
StepsAdvance ==
  planned => /\ end > done /\ end > Restored /\ end <= length
             /\ CappedEnd(IF done = 0 THEN Restored ELSE done, end, targets) = end

(* A prefill leaves behind every checkpoint it was asked for: restoring a     *)
(* checkpoint never jumps over a boundary to be captured.                   *)
TargetsAreCaptured == Finished /\ Policy = "admission64" => targets \subseteq captured

(* A fast-forwarded run cuts where the cold run cut, beyond its checkpoint,   *)
(* when nothing shares its steps: a decode that takes a token of the budget  *)
(* of _schedule_chunked_prefill moves every later end.                      *)
ColdCutsAreKept == alone /\ Finished => \A c \in ColdCuts : c > Restored => c \in cuts

(* Every prefill finishes: no chunk is cut down to nothing for ever.        *)
PrefillFinishes == <>Finished

===============================================================================
