------------------------------- MODULE GdnPrefix -------------------------------
(***************************************************************************)
(* vllm/gdn_prefix.py: the arithmetic of the recurrent-state checkpoints     *)
(* (GDN prefix states) and the scheduler's LRU index of those the workers   *)
(* hold.  A key (block_count, digest) is the prefix it checkpoints, a member *)
(* of Hash; Depth is its block_count.  The index, an OrderedDict without    *)
(* values, is the sequence of its keys, the least recently used one first.  *)
(***************************************************************************)
EXTENDS Integers, Sequences, SequencesExt

CONSTANTS
  Hash,             (* prefixes of whole blocks                             *)
  Depth,            (* Depth[h]: the number of blocks of h                  *)
  BlockSize,        (* tokens in a block                                    *)
  NoKey,            (* no key (None)                                        *)
  Policy,           (* BI100_GDN_CACHE_POLICY                               *)
  RestoreMode,      (* BI100_GDN_RESTORE_MODE                               *)
  ReplayAlignment,  (* gdn_restore_alignment, in tokens                     *)
  Capacity          (* checkpoints the index holds: 32, 64, or 0 when off   *)

MinReplayTokens == 2

ASSUME GdnModeAssumption ==
  /\ Policy \in {"fine32", "admission64", "off"}
  /\ RestoreMode \in {"direct", "hybrid64", "chunk64", "aligned"}
  /\ Capacity \in Nat /\ (Policy = "off" <=> Capacity = 0)
ASSUME GdnAlignmentAssumption ==
  ReplayAlignment \in Nat \ {0} /\ ReplayAlignment % BlockSize = 0
ASSUME NoKeyAssumption == NoKey \notin Hash

Least(m, n) == IF m < n THEN m ELSE n

Boundary(key) == Depth[key] * BlockSize

(* strict_prefix_block_count: whole blocks that leave a token to compute.    *)
StrictPrefixBlockCount(n) == IF n <= 1 THEN 0 ELSE (n - 1) \div BlockSize

(* final_capture_key of a sequence with block hashes `hashes`: the deepest   *)
(* checkpoint its prefill of n tokens leaves behind.                        *)
FinalCaptureKey(hashes, n, mode) ==
  LET strict == Least(Len(hashes), StrictPrefixBlockCount(n))
      replayed == n - strict * BlockSize
      direct == IF strict > 0 /\ replayed < MinReplayTokens THEN strict - 1 ELSE strict
      aligned == Least(Len(hashes),
                       ((n - 1) \div ReplayAlignment) * (ReplayAlignment \div BlockSize))
      count == IF mode \in {"direct", "hybrid64"} THEN direct
               ELSE IF n <= 1 THEN 0 ELSE aligned
  IN IF count = 0 THEN NoKey ELSE hashes[count]

(* restore_key_is_eligible                                                 *)
RestoreKeyIsEligible(key, n, directFinal) ==
  LET remaining == n - Boundary(key)
      onBoundary == Boundary(key) % ReplayAlignment = 0
  IN /\ remaining > 0
     /\ CASE RestoreMode = "direct" -> remaining >= MinReplayTokens
          [] RestoreMode = "hybrid64" ->
               remaining >= MinReplayTokens /\ (onBoundary \/ key = directFinal)
          [] OTHER -> onBoundary

(* Variant of the next one: a boundary already reached is pending.          *)
CapAtReached(start, end, targets) ==
  LET ends == {end} \cup {Boundary(k) : k \in {t \in targets :
                                  start <= Boundary(t) /\ Boundary(t) < end}}
  IN CHOOSE e \in ends : \A f \in ends : e <= f

(* cap_prefill_end_at_capture_boundary: the first pending boundary inside    *)
(* the step, or its end.                                                   *)
CapPrefillEnd(start, end, targets) ==
  LET ends == {end} \cup {Boundary(k) : k \in {t \in targets :
                                  start < Boundary(t) /\ Boundary(t) < end}}
  IN CHOOSE e \in ends : \A f \in ends : e <= f

(* capture_points_for_step: the keys a step from `start` to `end` passes.   *)
CapturedBeforeEnd(targets, start, end) ==   \* variant: not the one it ends on
  {k \in targets : start < Boundary(k) /\ Boundary(k) < end}
CapturedKeys(targets, start, end) ==
  {k \in targets : start < Boundary(k) /\ Boundary(k) <= end}

(* canonical_direct_segment_offsets: the boundaries strictly inside a step   *)
(* at which a cold run of the same prompt would have ended a segment.       *)
SegmentEndsOfChunks(hashes, start, end, chunk) ==   \* variant: chunk ends only
  {e \in (start + 1)..(end - 1) : e % chunk = 0}
SegmentEnds(hashes, start, end, chunk) ==
  LET chunkEnds == {e \in 1..(end - 1) : e % chunk = 0}
      directEnds == {Boundary(k) : k \in
        {FinalCaptureKey(hashes, e, "direct") : e \in chunkEnds \cup {end}} \ {NoKey}}
  IN {e \in chunkEnds \cup directEnds : start < e /\ e < end}

ByDepth(keys) ==
  CHOOSE q \in SetToSeqs(keys) : \A i, j \in DOMAIN q : i < j => Depth[q[i]] <= Depth[q[j]]

(* _plan_gdn_prefix_fast_forward: how far the first step of a request goes   *)
(* and how many tokens it computes, when it restores `key`.                 *)
FastForwardNot(key, n, nominal, budget, chunk) ==   \* variant: it does not
  <<nominal, nominal>>
FastForward(key, n, nominal, budget, chunk) ==
  LET checkpoint == Boundary(key)
      nextChunk == (checkpoint \div chunk + 1) * chunk
      limit == IF RestoreMode = "hybrid64"
                 THEN Least(checkpoint + budget, nextChunk)
                 ELSE checkpoint + budget
      logical == Least(n, limit)
      physical == logical - checkpoint
      fallsBack == \/ physical <= 0
                   \/ physical > budget
                   \/ /\ logical <= nominal
                      /\ RestoreMode # "hybrid64" \/ physical >= nominal
  IN IF fallsBack THEN <<nominal, nominal>> ELSE <<logical, physical>>

-------------------------------------------------------------------------------
(* GdnPrefixStatePolicy, as functions of the index.                        *)
Resident(index) == {index[i] : i \in DOMAIN index}

MovedToEnd(index, key) == Append(RemoveFirst(index, key), key)

(* The last of the given prefixes of one prompt.                            *)
Deepest(keys) ==
  IF keys = {} THEN NoKey ELSE CHOOSE k \in keys : \A l \in keys : Depth[l] <= Depth[k]

(* select_restore: the deepest resident key of `live`, now the most recent.  *)
(* (Variant: resident or not.)                                             *)
DeepestLive(index, live) == Deepest(live)
RestoreKey(index, live) ==
  IF Capacity = 0 THEN NoKey ELSE Deepest(live \cap Resident(index))

AfterRestore(index, key) == IF key = NoKey THEN index ELSE MovedToEnd(index, key)

(* repeated_branch_candidate                                               *)
RepeatedBranch(index, live) ==
  LET last == Deepest(live)
  IN IF Policy # "admission64" \/ last \in Resident(index) THEN NoKey ELSE last

(* should_capture_final                                                    *)
ShouldCaptureFinal(index, key) ==
  CASE Policy = "off" -> FALSE
    [] Policy = "admission64" -> key \notin Resident(index)
    [] OTHER -> TRUE

(* admit: each key becomes the most recent, the least recent one makes room. *)
(* (Variant: nobody is told.)                                              *)
AdmitOneSilently(acc, key) ==
  LET grown == MovedToEnd(acc.index, key)
  IN [index |-> IF Len(grown) > Capacity THEN Tail(grown) ELSE grown,
      evicted |-> acc.evicted]
AdmitOne(acc, key) ==
  LET grown == MovedToEnd(acc.index, key) IN
  IF Len(grown) > Capacity
    THEN [index |-> Tail(grown), evicted |-> Append(acc.evicted, Head(grown))]
    ELSE [index |-> grown, evicted |-> acc.evicted]

Admit(index, keys) ==
  LET before == [index |-> index, evicted |-> <<>>]
      after[n \in 0..Len(keys)] ==
        IF n = 0 THEN before ELSE AdmitOne(after[n - 1], keys[n])
  IN IF Capacity = 0 THEN before ELSE after[Len(keys)]

-------------------------------------------------------------------------------
(* What vllm/core/scheduler.py makes of them for a prompt of n tokens with    *)
(* block hashes `hashes`.  _schedule_prefills: the keys of the computed      *)
(* prefix that the request may restore, ...                                 *)
LiveKeys(hashes, n, computedBlocks) ==
  LET depth == Least(computedBlocks, Least(Len(hashes), StrictPrefixBlockCount(n)))
      directFinal == FinalCaptureKey(hashes, n, "direct")
  IN {k \in {hashes[i] : i \in 1..depth} : RestoreKeyIsEligible(k, n, directFinal)}

(* ... and the checkpoints its prefill shall leave behind.                  *)
CaptureTargets(hashes, n, live, index) ==
  LET final == FinalCaptureKey(hashes, n, RestoreMode)
      wanted == IF final # NoKey /\ ShouldCaptureFinal(index, final)
                  THEN {final} ELSE {}
  IN ({RepeatedBranch(index, live)} \ {NoKey}) \cup wanted

(* _cap_gdn_capture_boundary                                               *)
CappedEnd(start, end, targets) ==
  IF Policy = "admission64" THEN CapPrefillEnd(start, end, targets) ELSE end

(* The first chunk: its logical end and the tokens it computes.             *)
FirstChunk(key, targets, n, nominal, budget, chunk) ==
  LET plan == IF key = NoKey THEN <<nominal, nominal>>
              ELSE FastForward(key, n, nominal, budget, chunk)
      start == plan[1] - plan[2]
      end == CappedEnd(start, plan[1], targets)
  IN [end |-> end, physical |-> end - start]

(* schedule(): the checkpoints a step from `start` to `end` captures and the  *)
(* boundaries at which it cuts the recurrence.                              *)
StepCaptures(hashes, start, end, targets) ==
  LET candidates == IF Policy = "fine32"
                      THEN {FinalCaptureKey(hashes, end, RestoreMode)} \ {NoKey}
                      ELSE targets
  IN IF Policy = "off" THEN {} ELSE CapturedKeys(candidates, start, end)

StepSegments(hashes, start, end, chunk) ==
  IF RestoreMode = "hybrid64" /\ Policy = "admission64"
    THEN SegmentEnds(hashes, start, end, chunk) ELSE {}

===============================================================================
