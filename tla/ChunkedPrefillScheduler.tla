------------------------ MODULE ChunkedPrefillScheduler ------------------------
(***************************************************************************)
(* One engine step of vLLM as this repository deploys it: the chunked       *)
(* prefill scheduler (vllm/core/scheduler.py, _schedule_chunked_prefill and  *)
(* schedule) over the BlockSpaceManager and the GDN checkpoint index, the   *)
(* worker that executes the batch, and the processing of its output         *)
(* (LLMEngine.step, synchronous output processing).                        *)
(*                                                                         *)
(* A step is a sequence of phases.  Requests arrive and are aborted between  *)
(* steps.  Sequence groups have one sequence, preemption is by              *)
(* recomputation and there is no request-level swap space in use.           *)
(***************************************************************************)
EXTENDS BlockSpaceManager, SequencesExt

CONSTANTS
  Prompts,          (* the prompts requests arrive with                     *)
  Budget,           (* max_num_batched_tokens                               *)
  MaxSeqs,          (* max_num_seqs                                         *)
  MaxSteps,         (* bound: scheduler steps in a behaviour                *)
  HybridModel,      (* the model has GDN layers (Qwen3_5ForCausalLM)        *)
  NoKey, Policy, RestoreMode, ReplayAlignment, Capacity  (* of GdnPrefix    *)

ASSUME PromptsAssumption == Prompts \subseteq Text \ {<<>>}
ASSUME BudgetAssumption == Budget \in Nat \ {0} /\ Budget % BlockSize = 0
ASSUME MaxSeqsAssumption == MaxSeqs \in Nat \ {0}
ASSUME KeysAssumption == NoKey \notin Hash /\ ReplayAlignment \in Nat \ {0}
ASSUME IndexAssumption ==   \* one prompt captures up to two keys in a step
  Capacity \in Nat \ {1} /\ (Policy = "off" <=> Capacity = 0)

Gdn == INSTANCE GdnPrefix
Mamba == INSTANCE MambaCache WITH Request <- SeqId, MaxBatchSize <- MaxSeqs

VARIABLES
  status,           (* absent, waiting, prefill (running), decode (running) *)
  waiting, running, (* the queues                                           *)
  preempted,        (* victims of this step                                 *)
  done,             (* num_computed_tokens                                  *)
  scheduled,        (* the lists of scheduled groups of this step           *)
  batch,            (* scheduled_seq_groups not yet in `sent`               *)
  sent,             (* seq_group_metadata_list, then outputs to process     *)
  spent,            (* budget.num_batched_tokens                            *)
  phase,
  now,              (* scheduler steps so far: the clock                    *)
  index,            (* _gdn_prefix_policy._resident                         *)
  restore_key,      (* _gdn_request_restore_keys                            *)
  targets,          (* _gdn_request_capture_targets                         *)
  states,           (* workers: the keys of _gdn_prefix_cache               *)
  kv,               (* workers: kv[b][i], the prefix slot i of b was         *)
                    (* computed from, <<>> before it is written             *)
  mamba,            (* workers: the MambaCache, if there are GDN layers     *)
  spoilt,           (* the checkpoints that were captured from a wrong state *)
  torn              (* history: what has left blocks that count as computed *)
                    (* though nobody wrote them: "abandoned", "taken over"  *)

queueVars == <<status, waiting, running, preempted>>
gdnVars == <<index, restore_key, targets>>
storeVars == <<states, kv, spoilt>>
workerVars == <<storeVars, mamba>>
engineVars == <<queueVars, done, scheduled, batch, sent, spent, phase, now, gdnVars,
                workerVars, torn>>
blockVars == <<allocVars, managerVars, call>>
vars == <<blockVars, tokens, engineVars>>

SeqLen(s) == Len(tokens[s])
BlockHashes(s) == [k \in 1..(SeqLen(s) \div BlockSize) |-> HashAt(s, k)]

NothingScheduled == [decode |-> <<>>, prefill |-> <<>>, new |-> <<>>]

Init ==
  /\ ManagerInit
  /\ tokens = [s \in SeqId |-> <<>>]
  /\ status = [s \in SeqId |-> "absent"]
  /\ waiting = <<>> /\ running = <<>> /\ preempted = <<>>
  /\ done = [s \in SeqId |-> 0]
  /\ scheduled = NothingScheduled /\ batch = <<>> /\ sent = <<>> /\ spent = 0
  /\ phase = "idle" /\ now = 0
  /\ index = <<>>
  /\ restore_key = [s \in SeqId |-> NoKey]
  /\ targets = [s \in SeqId |-> {}]
  /\ states = {} /\ spoilt = {} /\ mamba = Mamba!EmptyCache
  /\ kv = [b \in Block |-> [i \in 0..(BlockSize - 1) |-> <<>>]]
  /\ torn = {}

-------------------------------------------------------------------------------
(* Between steps: add_request and abort_seq_group.                          *)
AddRequest(s) ==
  /\ phase = "idle" /\ call = Idle
  /\ status[s] = "absent"
  /\ \E t \in Prompts : tokens' = [tokens EXCEPT ![s] = t]
  /\ status' = [status EXCEPT ![s] = "waiting"]
  /\ waiting' = Append(waiting, s)
  /\ restore_key' = [restore_key EXCEPT ![s] = NoKey]
  /\ targets' = [targets EXCEPT ![s] = {}]
  /\ UNCHANGED <<blockVars, running, preempted, done, scheduled, batch, sent, spent, phase,
                 now, index, workerVars, torn>>

(* block_manager.free of a sequence, which may have no table                *)
FreeSeq(s) == IF s \in tables THEN FreeBegin(s) ELSE UNCHANGED blockVars

(* Variant: the next request starts with the progress of this one.          *)
LeavesProgress(s) ==
  /\ status' = [status EXCEPT ![s] = "absent"]
  /\ waiting' = RemoveFirst(waiting, s)
  /\ running' = RemoveFirst(running, s)
  /\ UNCHANGED done

Leaves(s) ==
  /\ status' = [status EXCEPT ![s] = "absent"]
  /\ done' = [done EXCEPT ![s] = 0]
  /\ waiting' = RemoveFirst(waiting, s)
  /\ running' = RemoveFirst(running, s)

GivesUp(s) ==
  torn' = IF status[s] = "prefill" /\ done[s] < SeqLen(s) THEN torn \cup {"abandoned"} ELSE torn

Abort(s) ==
  /\ phase = "idle" /\ call = Idle
  /\ status[s] # "absent"
  /\ Leaves(s)
  /\ FreeSeq(s)
  /\ tokens' = [tokens EXCEPT ![s] = <<>>]
  /\ GivesUp(s)
  /\ mamba' = Mamba!Retire(mamba, s)
  /\ UNCHANGED <<preempted, scheduled, batch, sent, spent, phase, now, gdnVars, storeVars>>

-------------------------------------------------------------------------------
(* schedule(): _schedule_running                                           *)
StartStep ==
  /\ phase = "idle" /\ call = Idle
  /\ waiting # <<>> \/ running # <<>>
  /\ now < MaxSteps
  /\ phase' = "running"
  /\ now' = now + 1
  /\ spent' = 0
  /\ UNCHANGED <<blockVars, tokens, queueVars, done, scheduled, batch, sent, gdnVars,
                 workerVars, torn>>

Remaining == Budget - spent

(* _get_num_new_tokens: a chunk is cut at a block boundary.                 *)
NumWantedTokens(s) ==   \* variant: the budget already spent is ignored
  IF status[s] = "decode" THEN 1 ELSE SeqLen(s) - done[s]
NumNewTokens(s) ==
  LET wanted == IF status[s] = "decode" THEN 1 ELSE SeqLen(s) - done[s]
  IN IF Remaining < wanted THEN (Remaining \div BlockSize) * BlockSize ELSE wanted

RunningChunk(s) ==
  IF status[s] = "decode" THEN 1
  ELSE Gdn!CappedEnd(done[s], done[s] + NumNewTokens(s), targets[s]) - done[s]

Scheduled(s, list, chunk) ==
  [scheduled EXCEPT ![list] = Append(@, [seq |-> s, chunk |-> chunk])]

(* The last block of s is about to be filled and replaced by the cached one   *)
(* of a prompt whose computation has not got that far.                      *)
TakesUnwritten(s) ==
  LET n == NumBlocks(s)
      dup == cached[HashAt(s, n)]
  IN
  /\ ~AppendsToNewBlock(s) /\ FillsLastBlock(s)
  /\ dup # NoBlock
  /\ \E r \in SeqId :
       status[r] = "prefill" /\ done[r] < n * BlockSize /\ block_id[<<r, n>>] = dup

ScheduleRunning ==
  LET s == Head(running) IN
  /\ phase = "running" /\ running # <<>>
  /\ NumNewTokens(s) > 0
  /\ CanAppendSlots(s)
  /\ AppendSlots(s)
  /\ running' = Tail(running)
  /\ scheduled' = Scheduled(s, status[s], RunningChunk(s))
  /\ spent' = spent + RunningChunk(s)
  /\ torn' = IF TakesUnwritten(s) THEN torn \cup {"taken over"} ELSE torn
  /\ UNCHANGED <<tokens, status, waiting, preempted, done, batch, sent, phase, now, gdnVars,
                 workerVars>>

(* No slot for the first group: the last one, or itself, gives up its blocks *)
(* (_preempt_by_recompute).                                                *)
Preempt ==
  LET s == Head(running)
      v == Last(running)
  IN
  /\ phase = "running" /\ call = Idle /\ running # <<>>
  /\ NumNewTokens(s) > 0
  /\ ~CanAppendSlots(s)
  /\ FreeBegin(v)
  /\ status' = [status EXCEPT ![v] = "waiting"]
  /\ done' = [done EXCEPT ![v] = 0]
  /\ running' = Front(running)
  /\ preempted' = Append(preempted, v)
  /\ GivesUp(v)
  /\ UNCHANGED <<tokens, waiting, scheduled, batch, sent, spent, phase, now, gdnVars,
                 workerVars>>

EndRunning ==
  /\ phase = "running" /\ call = Idle
  /\ running # <<>> => NumNewTokens(Head(running)) = 0
  /\ phase' = "prefill"
  /\ UNCHANGED <<blockVars, tokens, queueVars, done, scheduled, batch, sent, spent, now,
                 gdnVars, workerVars, torn>>

-------------------------------------------------------------------------------
(* _schedule_prefills                                                      *)
NumScheduled == Len(scheduled.decode) + Len(scheduled.prefill) + Len(scheduled.new)

BudgetAllows(s) ==
  /\ NumNewTokens(s) > 0
  /\ NumScheduled < MaxSeqs

CanStart(s) == AllocStatus(s) = "NEVER" \/ (AllocStatus(s) = "OK" /\ BudgetAllows(s))

(* The prompt is ignored; its id does not go to _finished_requests_ids,      *)
(* though a preempted request may have a recurrent state.                   *)
IgnorePrompt ==
  LET s == Head(waiting) IN
  /\ phase = "prefill" /\ call = Idle /\ waiting # <<>>
  /\ AllocStatus(s) = "NEVER"
  /\ Leaves(s)
  /\ tokens' = [tokens EXCEPT ![s] = <<>>]
  /\ mamba' = Mamba!Forget(mamba, s)
  /\ UNCHANGED <<blockVars, preempted, scheduled, batch, sent, spent, phase, now, gdnVars,
                 storeVars, torn>>

StartPrefill ==
  LET s == Head(waiting) IN
  /\ phase = "prefill" /\ waiting # <<>>
  /\ AllocStatus(s) = "OK"
  /\ BudgetAllows(s)
  /\ AllocateBegin(s)
  /\ status' = [status EXCEPT ![s] = "prefill"]
  /\ phase' = "plan"
  /\ UNCHANGED <<tokens, waiting, running, preempted, done, scheduled, batch, sent, spent,
                 now, gdnVars, workerVars, torn>>

(* After allocate: the group leaves the queue with the checkpoint to restore *)
(* and those to capture.                                                   *)
PlanPrefill ==
  LET s == Head(waiting)
      hashes == BlockHashes(s)
      live == Gdn!LiveKeys(hashes, SeqLen(s), Len(ComputedPrefix(s)))
      key == Gdn!RestoreKey(index, live)
      after == Gdn!AfterRestore(index, key)
      captures == Gdn!CaptureTargets(hashes, SeqLen(s), live, after)
      chunk == Gdn!FirstChunk(key, captures, SeqLen(s), NumNewTokens(s), Remaining, Budget)
  IN
  /\ phase = "plan" /\ call = Idle
  /\ UpdateComputedPrefix(s)
  /\ restore_key' = [restore_key EXCEPT ![s] = key]
  /\ targets' = [targets EXCEPT ![s] = captures]
  /\ index' = after
  /\ scheduled' = Scheduled(s, "new", chunk.end)
  /\ spent' = spent + chunk.physical
  /\ waiting' = Tail(waiting)
  /\ phase' = "prefill"
  /\ UNCHANGED <<allocVars, tables, full_slots, last_access, call, tokens, status, running,
                 preempted, done, batch, sent, now, workerVars, torn>>

(* End of _schedule_chunked_prefill: the queues and the batch are put        *)
(* together, prefills first in the batch and last in the running queue.      *)
Seqs(groups) == [i \in DOMAIN groups |-> groups[i].seq]

EndPrefill ==
  /\ phase = "prefill" /\ call = Idle
  /\ waiting # <<>> => ~CanStart(Head(waiting))
  /\ waiting' = Reverse(preempted) \o waiting
  /\ running' = running \o Seqs(scheduled.decode) \o Seqs(scheduled.prefill)
                        \o Seqs(scheduled.new)
  /\ batch' = scheduled.new \o scheduled.prefill \o scheduled.decode
  /\ scheduled' = NothingScheduled
  /\ preempted' = <<>>
  /\ phase' = "metadata"
  /\ UNCHANGED <<blockVars, tokens, status, done, sent, spent, now, gdnVars, workerVars, torn>>

-------------------------------------------------------------------------------
(* schedule(), the loop over the scheduled groups: stamp the sequence, read   *)
(* its computed prefix, decide what its worker skips, captures and drops.    *)
RestoredKey(s) == IF done[s] = 0 THEN restore_key[s] ELSE NoKey
RestoredTokens(s) == IF RestoredKey(s) = NoKey THEN 0 ELSE Gdn!Boundary(RestoredKey(s))
StepStart(s) == IF done[s] = 0 THEN RestoredTokens(s) ELSE done[s]
StepEnd(g) == Gdn!Least(SeqLen(g.seq), done[g.seq] + g.chunk)
Captures(g) ==
  Gdn!StepCaptures(BlockHashes(g.seq), StepStart(g.seq), StepEnd(g), targets[g.seq])
Admission(g) == Gdn!Admit(index, Gdn!ByDepth(Captures(g)))

(* A prefill's part of the metadata.  A raise is recorded in `raises`.       *)
PrefillActions(g) ==
  LET s == g.seq IN
  [seq |-> s, prompt |-> TRUE, start |-> StepStart(s), end |-> StepEnd(g),
   restore |-> RestoredKey(s), capture |-> Captures(g), evict |-> ToSet(Admission(g).evicted),
   segments |-> Gdn!StepSegments(BlockHashes(s), StepStart(s), StepEnd(g), Budget) # {},
   raises |-> Len(ComputedPrefix(s)) * BlockSize < RestoredTokens(s)]

DecodeActions(g) ==
  [seq |-> g.seq, prompt |-> FALSE, start |-> done[g.seq], end |-> done[g.seq] + 1,
   restore |-> NoKey, capture |-> {}, evict |-> {}, segments |-> FALSE, raises |-> FALSE]

Metadata ==
  LET g == Head(batch)
      s == g.seq
      prompt == status[s] = "prefill"
      actions == IF prompt THEN PrefillActions(g) ELSE DecodeActions(g)
      last == prompt /\ actions.end >= SeqLen(s)
  IN
  /\ phase = "metadata" /\ call = Idle /\ batch # <<>>
  /\ AccessAllBlocks(s, now)
  /\ UpdateComputedPrefix(s)
  /\ index' = IF prompt THEN Admission(g).index ELSE index
  /\ sent' = Append(sent, actions)
  /\ batch' = Tail(batch)
  /\ restore_key' = [restore_key EXCEPT ![s] = IF last THEN NoKey ELSE @]
  /\ targets' = [targets EXCEPT ![s] = IF last THEN {} ELSE @]
  /\ phase' = IF actions.raises THEN "dead" ELSE phase
  /\ UNCHANGED <<allocVars, tables, full_slots, call, tokens, queueVars, done, scheduled, spent,
                 now, workerVars, torn>>

(* Variant: only a batch that holds a prompt is marked.                      *)
EndMetadataOfPrompts ==
  /\ phase = "metadata" /\ call = Idle /\ batch = <<>>
  /\ IF \E i \in DOMAIN sent : sent[i].prompt THEN MarkComputed ELSE UNCHANGED allocVars
  /\ phase' = "execute"
  /\ UNCHANGED <<managerVars, call, tokens, queueVars, done, scheduled, batch, sent, spent, now,
                 gdnVars, workerVars, torn>>

(* ... and the loop that marks the batch's blocks as computed before they    *)
(* are.                                                                    *)
EndMetadata ==
  /\ phase = "metadata" /\ call = Idle /\ batch = <<>>
  /\ IF sent = <<>> THEN UNCHANGED allocVars ELSE MarkComputed
  /\ phase' = "execute"
  /\ UNCHANGED <<managerVars, call, tokens, queueVars, done, scheduled, batch, sent, spent, now,
                 gdnVars, workerVars, torn>>

-------------------------------------------------------------------------------
(* The worker: ModelInputForGPUBuilder.add_seq_group takes one group with GDN *)
(* actions, and every prefill has them; Qwen3_5ForCausalLM.forward takes     *)
(* them in a batch of one sequence and needs the state it shall restore.    *)
HasActions(g) == g.restore # NoKey \/ g.capture # {} \/ g.evict # {} \/ g.segments

WorkerRaises ==
  \/ \E i, j \in DOMAIN sent : i # j /\ sent[i].prompt /\ sent[j].prompt
  \/ HybridModel /\ \E i \in DOMAIN sent :
       \/ HasActions(sent[i]) /\ Len(sent) > 1
       \/ sent[i].restore # NoKey /\ sent[i].restore \notin states \ sent[i].evict
  \/ HybridModel /\ ~Mamba!SlotsSuffice(mamba, {sent[i].seq : i \in DOMAIN sent})

Slot(s, p) == <<block_id[<<s, (p \div BlockSize) + 1>>], p % BlockSize>>
Written(g) == {<<Slot(g.seq, p), SubSeq(tokens[g.seq], 1, p + 1)>> : p \in g.start..(g.end - 1)}

(* Variant: the restored state is not copied into the slot.                  *)
StateInSlot(g) == mamba.slot[g.seq]

(* The recurrent state a group starts from: the checkpoint it restores, or    *)
(* what its slot holds.  Nothing else resets the slot of a request.          *)
StateBefore(g) ==
  IF g.restore = NoKey THEN mamba.slot[g.seq]
  ELSE [held |-> TRUE, upto |-> Gdn!Boundary(g.restore), right |-> g.restore \notin spoilt]
StateAfter(g) == Mamba!Advance(StateBefore(g), g.start, g.end)

RunRecurrentLayers ==
  IF ~HybridModel THEN UNCHANGED <<mamba, spoilt>> ELSE
  LET wrong == {i \in DOMAIN sent : ~StateAfter(sent[i]).right}
      right == DOMAIN sent \ wrong
      captured(groups) == UNION {sent[i].capture : i \in groups}
  IN
  /\ spoilt' = (spoilt \ (captured(right) \cup UNION {sent[i].evict : i \in DOMAIN sent}))
                \cup captured(wrong)
  /\ mamba' = [Mamba!Released(mamba) EXCEPT !.slot = [s \in SeqId |->
       IF \E i \in DOMAIN sent : sent[i].seq = s
         THEN StateAfter(sent[CHOOSE i \in DOMAIN sent : sent[i].seq = s])
         ELSE mamba.slot[s]]]

(* The forward pass writes the KV of the tokens it is given and no others.   *)
Execute ==
  /\ phase = "execute" /\ call = Idle
  /\ IF WorkerRaises
       THEN phase' = "dead" /\ UNCHANGED workerVars
       ELSE /\ phase' = "output"
            /\ LET writes == UNION {Written(sent[i]) : i \in DOMAIN sent} IN
               kv' = [b \in Block |-> [i \in DOMAIN kv[b] |->
                        IF \E w \in writes : w[1] = <<b, i>>
                          THEN (CHOOSE w \in writes : w[1] = <<b, i>>)[2]
                          ELSE kv[b][i]]]
            /\ states' = (states \ UNION {sent[i].evict : i \in DOMAIN sent})
                           \cup UNION {sent[i].capture : i \in DOMAIN sent}
            /\ IF sent = <<>> THEN UNCHANGED <<mamba, spoilt>> ELSE RunRecurrentLayers
  /\ UNCHANGED <<blockVars, tokens, queueVars, done, scheduled, batch, sent, spent, now, gdnVars,
                 torn>>

-------------------------------------------------------------------------------
(* _process_model_outputs of the first group left: the computed tokens are    *)
(* counted; a group whose prompt is complete gets a token or is finished     *)
(* and freed.                                                              *)
Progress(g) ==
  /\ phase = "output" /\ call = Idle
  /\ sent # <<>> /\ g = Head(sent)
  /\ sent' = Tail(sent)
  /\ UNCHANGED <<preempted, scheduled, batch, spent, phase, now, gdnVars, storeVars, torn>>

ChunkDone ==
  LET g == Head(sent) IN
  /\ Progress(g)
  /\ g.end < SeqLen(g.seq)
  /\ done' = [done EXCEPT ![g.seq] = g.end]
  /\ UNCHANGED <<blockVars, tokens, status, waiting, running, mamba>>

Sample ==
  LET g == Head(sent) IN
  /\ Progress(g)
  /\ g.end = SeqLen(g.seq)
  /\ done' = [done EXCEPT ![g.seq] = g.end]
  /\ \E t \in Text : /\ Len(t) = SeqLen(g.seq) + 1
                     /\ SubSeq(t, 1, SeqLen(g.seq)) = tokens[g.seq]
                     /\ tokens' = [tokens EXCEPT ![g.seq] = t]
  /\ status' = [status EXCEPT ![g.seq] = "decode"]
  /\ UNCHANGED <<blockVars, waiting, running, mamba>>

Finish ==
  LET g == Head(sent) IN
  /\ Progress(g)
  /\ g.end = SeqLen(g.seq)
  /\ Leaves(g.seq)
  /\ FreeBegin(g.seq)
  /\ tokens' = [tokens EXCEPT ![g.seq] = <<>>]
  /\ mamba' = Mamba!Retire(mamba, g.seq)

EndStep ==
  /\ phase = "output" /\ call = Idle /\ sent = <<>>
  /\ phase' = "idle"
  /\ UNCHANGED <<blockVars, tokens, queueVars, done, scheduled, batch, sent, spent, now, gdnVars,
                 workerVars, torn>>

-------------------------------------------------------------------------------
ManagerStep == CallStep /\ UNCHANGED <<tokens, engineVars>>

Next ==
  \/ ManagerStep
  \/ \E s \in SeqId : AddRequest(s) \/ Abort(s)
  \/ StartStep
  \/ ScheduleRunning \/ Preempt \/ EndRunning
  \/ IgnorePrompt \/ StartPrefill \/ PlanPrefill \/ EndPrefill
  \/ Metadata \/ EndMetadata
  \/ Execute
  \/ ChunkDone \/ Sample \/ Finish \/ EndStep

Spec == Init /\ [][Next]_vars

-------------------------------------------------------------------------------
Live == {s \in SeqId : status[s] \in {"prefill", "decode"}}

(* Type invariant of the scheduler, the manager and the worker.             *)
TypeOK ==
  /\ AllocTypeOK
  /\ tokens \in [SeqId -> Text]
  /\ status \in [SeqId -> {"absent", "waiting", "prefill", "decode"}]
  /\ {waiting, running, preempted} \subseteq Seq(SeqId)
  /\ tables \subseteq SeqId
  /\ call \in Calls
  /\ \A s \in SeqId : done[s] \in 0..SeqLen(s) /\ computed_ids[s] \in Seq(Block)
  /\ \A s \in SeqId : restore_key[s] \in Hash \cup {NoKey} /\ targets[s] \subseteq Hash
  /\ index \in Seq(Hash) /\ states \subseteq Hash /\ spoilt \subseteq Hash
  /\ \A s \in SeqId : mamba.slot[s] \in [held : BOOLEAN, upto : Nat, right : BOOLEAN]
  /\ \A b \in Block : kv[b] \in [0..(BlockSize - 1) -> Text]

(* schedule(): "we can assume all blocks in the batch will have been computed *)
(* before the next scheduling invocation".  If so, the KV a request attends  *)
(* to is its own: every token that it counts as computed, or that the        *)
(* forward pass just went up to, lies in a slot that was written from         *)
(* exactly its prefix, though the block may have been found in the cache,    *)
(* taken over from a duplicate, evicted from another request or skipped      *)
(* because of a restored checkpoint.                                        *)
HasKV(s, n) ==
  \A p \in 0..(n - 1) :
    LET slot == Slot(s, p) IN kv[slot[1]][slot[2]] = SubSeq(tokens[s], 1, p + 1)

KVAlwaysIntact ==
  /\ \A s \in Live : HasKV(s, done[s])
  /\ phase = "output" => \A i \in DOMAIN sent : HasKV(sent[i].seq, sent[i].end)

(* The same, as long as no request has given up its blocks in mid-prefill and *)
(* no decode has taken over a block that a prompt has not yet computed:      *)
(* allocate, the batch's computed marks and the checkpoints together never   *)
(* let a forward pass skip a token whose KV was not written.                *)
KVIntact == torn = {} => KVAlwaysIntact

(* can_allocate and can_append_slots suffice: no operation they let through  *)
(* meets an allocator without blocks (NoFreeBlocksError) before its last one. *)
AllocationNeverRaises ==
  /\ \A s \in SeqId : Allocating(s) /\ NumBlocks(s) < NumRequired(s) => ~NoFreeBlocks
  /\ call = Idle => \A s \in tables :
       CanAppendSlots(s) /\ AppendsToNewBlock(s) => ~NoFreeBlocks

(* "Currently, the attention implementation only supports skipping cached    *)
(* blocks if they are a contiguous prefix of cached blocks": the blocks       *)
(* get_common_computed_block_ids returns are the first ones of the table,    *)
(* though its loop does not stop at a gap.                                  *)
ComputedPrefixContiguous ==
  call = Idle => \A s \in tables :
    computed_ids[s] = SubSeq(Table(s), 1, Len(computed_ids[s]))

(* A mark never outlives the prompt it was made for.  mark_blocks_as_computed *)
(* marks every block touched since its last call, whoever holds it by then:  *)
(* between a promotion and the mark no touched block may be given up or      *)
(* handed out again, or a block that is being filled would count as computed *)
(* and the skipping of prefixes would trust it.  So a touched block is held  *)
(* by an object with a content, and a block in use is computed exactly if    *)
(* its content is complete and it has not been touched in this pass.         *)
MarksBelongToContent ==
  /\ \A b \in touched : \E o \in Obj : block_id[o] = b /\ content[o] # NoHash
  /\ \A o \in Obj : Allocated(o) =>
       (computed[block_id[o]] <=> content[o] # NoHash /\ block_id[o] \notin touched)

(* Eviction never leaves a hole: a cached prefix has all its own prefixes    *)
(* cached (blocks of one table are freed with one stamp, and among equal     *)
(* stamps the evictor gives up the block with the most hashed tokens).       *)
CachePrefixClosed ==
  call = Idle => \A h \in Hash : cached[h] # NoBlock /\ Depth[h] > 1 =>
    cached[SubSeq(h, 1, Len(h) - BlockSize)] # NoBlock

(* Between steps every request is in one queue, once, and exactly the        *)
(* running ones have a table, which holds exactly the tokens the workers     *)
(* know and no more blocks than they fill.                                  *)
QueuesAndTablesAgree ==
  phase = "idle" /\ call = Idle =>
    /\ IsInjective(waiting \o running)
    /\ ToSet(waiting) = {s \in SeqId : status[s] = "waiting"}
    /\ ToSet(running) = Live
    /\ tables = Live
    /\ \A s \in Live : NumBlocks(s) = Cdiv(full_slots[s], BlockSize)

(* The worker accepts every batch the scheduler makes, and finds every        *)
(* checkpoint it is told to restore ("only one GDN prefix-cache action group *)
(* is supported", "scheduler requested a missing GDN prefix state").        *)
EngineNeverDies == phase # "dead"

(* The scheduler's index mirrors the checkpoints the workers hold.           *)
IndexMirrorsWorkers == phase \notin {"metadata", "execute", "dead"} => Gdn!Resident(index) = states

(* The recurrent state is the one after exactly the tokens that count as       *)
(* computed, in the slot of every running request and under every key of the *)
(* checkpoint dictionary: chunks, fast-forwards, restores of other requests'  *)
(* checkpoints and slots that changed hands all leave the right state.       *)
RecurrentStateIntact ==
  HybridModel =>
    /\ spoilt = {}
    /\ phase = "idle" => \A s \in Live :
         done[s] > 0 => mamba.slot[s].right /\ mamba.slot[s].upto = done[s]

(* "For first prefill of a request: mamba_cache is zeros" (qwen3_5.py), or a   *)
(* checkpoint replaces it: a group that starts at its first token finds      *)
(* nothing in its slot, in any batch that the worker accepts.               *)
FirstPrefillFromZeros ==
  HybridModel /\ phase = "execute" /\ ~WorkerRaises => \A i \in DOMAIN sent :
    sent[i].prompt /\ sent[i].start = 0 => mamba.slot[sent[i].seq].upto = 0

(* The asserts at the end of _schedule_chunked_prefill: a step computes at    *)
(* most max_num_batched_tokens tokens of at most max_num_seqs groups.       *)
BudgetRespected ==
  /\ spent <= Budget
  /\ NumScheduled + Len(batch) + Len(sent) <= MaxSeqs

===============================================================================
