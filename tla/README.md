# A TLA+ model of the serving engine: KV cache, scheduler, recurrent state, asynchronous engine and workers

This directory specifies, model-checks and partly proves the control logic of the
serving engine in this repository: a fork of vLLM that serves Qwen3.5/3.6 (attention
layers plus gated-delta-net, GDN, recurrent layers) on BI-V100 accelerators. Paths
below are relative to the repository; `vllm/` is what the Dockerfile deploys,
`vllm_overrides/` a more complete variant of some of its files.

Correctness of the step is mostly one sentence: **a forward pass may skip a token only if
its KV (and the recurrent state after it) is really there.** Five mechanisms decide what
is skipped, and each can be wrong alone or in combination: the content-hash cache of full
blocks, its evictor, the "computed" marks, chunked prefill, and the checkpoints of the
recurrent state. Correctness around the step is another: **every caller gets the outputs
of its request in order and is told how it ended**, whatever is cancelled, raises, dies or
takes too long among the coroutines, threads and processes that run the step.

## 1. Inventory

| Component | Source | State | Operations | Modelled in |
|---|---|---|---|---|
| LRU evictor | `vllm/core/evictor_v2.py` | `free_table`, an insertion-ordered dict of block entries | add, remove, update, evict | `LRUEvictor` |
| Prefix-caching allocator, with the hashless allocator and reference counter | `vllm/core/block/prefix_caching_block.py`, `naive_block.py`, `common.py` | free list, reference counts, hash map, touched set, block tracker; block objects | allocate (mutable, immutable hit and miss), promote, copy-on-write, free, fork, mark accessed / computed | `PrefixCachingBlockAllocator` |
| Block manager, tables, trackers | `vllm/core/block_manager_v2.py`, `block/block_table.py` | tables, filled slots, last access, computed prefix per sequence | can_allocate, allocate, can_append_slots, append_slots, free, access, computed ids | `BlockSpaceManager` |
| GDN prefix policy | `vllm/gdn_prefix.py` | LRU index of checkpoint keys | key arithmetic; restore, admit | `GdnPrefix` |
| Chunked-prefill scheduler | `vllm/core/scheduler.py` | waiting and running queues, budget, restore key and capture targets per request | add, abort, schedule | `ChunkedPrefillScheduler`, `GdnPrefill` |
| Engine step | `vllm/engine/llm_engine.py`, `output_processor/single_step.py` | progress and tokens per sequence | step: schedule, execute, process outputs | `ChunkedPrefillScheduler` |
| Workers | `vllm/worker/model_runner.py`, `model_executor/models/qwen3_5.py` | KV slots, dictionary of checkpoints | execute a batch: evict, restore, write KV, capture | `ChunkedPrefillScheduler` (`Execute`) |
| CPU KV content tier | `vllm_overrides/core/block/cpu_kv_content_cache.py` and the override allocator | hash/slot maps, LRU, ready and pending slots, step claims | begin, claim, cancel, stage load / store, drain | `CpuKvContentCache`, `TieredPrefixCache` |
| Mamba cache manager | `vllm/model_executor/models/constant_size_cache.py`, `mamba_cache.py` | slot of recurrent state per request, free slots, finished ids | release and zero, assign, advance | `MambaCache`, used by `ChunkedPrefillScheduler` |
| Asynchronous engine | `vllm/engine/async_llm_engine.py` | request tracker, streams, loop task, step task, error | generate, abort, cancel, background loop, engine step, timeout, error callback | `RequestTracker`, `AsyncLLMEngine` |
| Multiprocessing executor | `vllm/executor/executor_base.py`, `mp_distributed_executor.py`, `multiproc_worker_utils.py`, `worker/worker_base.py` | driver thread, model-loop tasks and futures, task queues, worker processes | execute, stop, broadcast, receive, result handler, monitor; crash, exception | `MultiprocExecutor` |
| Shared-memory broadcast | `vllm/distributed/device_communicators/shm_broadcast.py` | ring of chunks with flags, overflow socket, subscriptions | handshake, enqueue, dequeue | `ShmRingBuffer`, `BroadcastQueue` |
| Frequency-aware evictor, request-level swap, multiprocess front end, staging of block-major KV, layerwise-split layout (C++), kernels, SDK, front end, speculative decoding, KV transfer | see `PROJECT.json` | | | not modelled (section 6) |

**How they interact.** The deployment (`computility-run.yaml`) is one process with the
HTTP server, the asynchronous engine and the driver rank (`--disable-frontend-multiprocessing`),
and one process per further rank (`-tp 4`), with `--max-num-seqs 2`. Callers of
`generate` and the background loop are coroutines of one event loop that share a
request tracker; the loop creates a task per engine step, which drains the tracker, runs
the scheduler and awaits the driver thread. The driver sends the inputs of the step to the
worker processes through a ring in shared memory; while requests are in progress the
workers sit in a model loop, which an empty input ends. A thread takes the results of the
workers' tasks, another one watches their processes.

Within a step everything in the scheduler is single-threaded and
synchronous (the deployment runs with `--enforce-eager`, hence no asynchronous output
processing). `LLMEngine.step` calls `Scheduler.schedule`, which calls the block manager,
which calls the allocator once per block; it sends the workers a batch with block tables,
the number of computed blocks and the GDN actions; the workers write KV and checkpoints;
the engine counts the computed tokens, appends the sampled ones and frees what finished.
The state shared between components is what makes it hard: the reference counter
belongs to two allocators, the computed marks are set by the scheduler before the workers
compute, and the checkpoint index in the scheduler mirrors a dictionary in the workers.
With `BI100_CPU_KV_OFFLOAD=1` the allocator also calls the CPU tier: it offers every
victim of an eviction, asks for every hash that the GPU misses, and `schedule` drains the
staged transfers into the batch.

**What is hard.** Aborts, outputs and errors that reach a stream in any order; a loop
that decides to sleep while a request arrives; steps that outlive the iteration that gave
up on them; a worker that dies inside a collective operation or a stop; a lock-free ring.
Interleavings of requests over shared blocks; a block stored and
reloaded in the same step; aborts and preemptions
between the chunks of a prefill; eviction between the moment a block is counted on and
the moment it is used; the order of stamps in the evictor; boundaries of blocks, kernel
chunks and scheduler chunks meeting the token budget. `PROJECT.json` lists each hazard
at its line with the property that watches it.

**What makes each component correct.** Evictor: it gives up the end of
a prefix before its beginning. Allocator: exact counts, no lost block, a truthful hash map. CPU tier: a slot
has one role per step and holds the content that its index names. Manager: admission
suffices for allocation, and the computed blocks are a contiguous prefix. Policy and
planner: steps advance, targets are captured, cuts are those of a cold run. Scheduler:
queues and tables agree, the budget holds. Whole engine: KV read is KV written, the
workers never refuse a batch, the index mirrors the dictionary, the recurrent state in a
slot or checkpoint is that of the tokens it stands for. Asynchronous engine: streams keep
their contract, nothing is computed for nobody, everyone taken is told. Executor: model
loops start and stop in step with the broadcasts. Ring: it is a broadcast queue.

## 2. Modules

```
LRUEvictor <- PrefixCachingBlockAllocator <- BlockSpaceManager <- ChunkedPrefillScheduler
                  ^           ^                   ^                  ^ |  INSTANCE   |
                  |           |                   |                  | v             v
                  |   PrefixCachingBlock-  <- BlockSpace-            | GdnPrefix   MambaCache
        TieredPrefixCache  AllocatorProofs    ManagerProofs          |    ^
         |        ^              ^                 ^                 | GdnPrefill
         |        |              |                 |                 |    ^
         |     TieredPrefixCacheProofs      ChunkedPrefill- ---------+ GdnPrefillProofs
         |        |  INSTANCE               SchedulerProofs
         v        v
        CpuKvContentCache <- CpuKvContentCacheProofs

RequestTracker  <-----------------------------+
BroadcastQueue <- MultiprocExecutor <- AsyncLLMEngine -- implements --> RequestStreams
      ^                                       ^
      |                             AsyncLLMEngineProofs
      +------ implements ------ ShmRingBuffer <- ShmRingBufferProofs
```

`<-` is read "is extended by". The `MC...` modules only give the constants values.

* **`LRUEvictor`** - `free_table` is a function from blocks to entries plus the relation
  `older` of its insertion order. `evict` is the predicate `EvictionVictim(v)`: the loop
  keeps a champion (most hashed tokens, then oldest) and stops at the first entry with a
  larger stamp. It is written without recursion, so that it can be proved about; it
  does not assume that the table is sorted by stamp, exactly as the code does not check
  it.
* **`PrefixCachingBlockAllocator`** - one action per public method of the allocator that
  changes state, on block objects in `Obj`; `block_id` and `content` are the fields
  of an object. A hash is the token prefix it stands for: `hash_block_tokens` is taken to
  be injective. `AllocSpec` lets any client call any method in any order. `MarkAccessed`
  stamps a block in use in the tracker and an idle one in the evictor; its guard is the
  `ValueError` for a block that is neither (the block manager passes blocks in use only).
  The guard `refcount = 1` of `CanPromote` is what `append_token_ids` ensures by resolving
  copy-on-write first.
* **`BlockSpaceManager`** - allocation and freeing of a table take one step per block,
  with `call` as the program counter, because each block may evict another.
  The trackers are `last_access`, `computed_ids` and `has_gap`. `ComputedBlockIds` filters
  the table, as the deployed loop does; it does not stop at the first gap.
* **`GdnPrefix`** - pure operators for `gdn_prefix.py` and the planning code of the
  scheduler. A key is the prefix it checkpoints. The index is the sequence of its keys,
  least recent first.
* **`ChunkedPrefillScheduler`** - one engine step in phases: `running` (decodes and
  unfinished prefills, with preemption; what is taken goes to the three lists of `scheduled`), `prefill`/`plan` (new prompts, their restore key
  and capture targets), `metadata` (per group: stamp, computed prefix, GDN actions, index;
  then every touched block is marked computed), `execute` (the workers), `output` (per
  group: count, sample or finish). Requests arrive and are aborted between steps. An
  exception in scheduler or worker is the phase `dead`. `kv[b][i]` is ghost data: the
  token prefix from which slot `i` of block `b` was computed, so that "the right KV" can
  be stated. `torn` remembers what may leave unwritten blocks that count as computed:
  `"abandoned"`, a request gave up its blocks in mid-prefill; `"taken over"`, a decode that
  filled its block was moved to the equal block of a prompt whose chunks have not got that
  far (section 5). For a hybrid model `Execute` also runs the recurrent layers: each group starts from the
  checkpoint it restores or from what its slot holds (`StateBefore`), and `spoilt` is the
  ghost set of checkpoints captured from a wrong state.
* **`MambaCache`** - operators on the slots: a request keeps its slot until its id has
  been in `_finished_requests_ids` and the next non-empty batch has released it; a slot
  records how many tokens its state stands for and whether it is their state.
* **`GdnPrefill`** - one prefill under the policy, step by step, against every index and
  computed prefix that earlier requests could leave and any share of the budget.
* **`RequestTracker`** - the tracker and the streams as operators on a record; each runs
  between two awaits.
* **`AsyncLLMEngine`** - an action is what one coroutine does between two awaits:
  callers (`Generate`, `Receive`, `CancelWaiting`, `CloseYielded` and the later collection
  of its generator), the background loop, the step task and the done-callback. Request ids
  are used once, as the front end makes them. Of the `LLMEngine` only the unfinished
  requests are kept: a step takes any non-empty part of them, which covers every choice of
  the scheduler. A restart of the loop replaces the tracker; `orphaned` holds the requests
  that the old one still knew.
* **`MultiprocExecutor`** - driver thread, worker processes and their queues and futures.
  A forward pass ends when all ranks take part (`Collective`). Faults: a process dies, a
  worker's or the driver's part of a step raises; a driver whose peer is gone raises or
  hangs, because the transport promises neither. The broadcast is the abstract queue.
* **`BroadcastQueue`**, **`RequestStreams`** - abstract specifications: every reader gets
  every message once, in order and eventually; a stream delivers its outputs in order,
  ends normally only after the finished one, and nothing follows its end.
* **`ShmRingBuffer`** - every load and store of a flag, a header byte and a body is a step.
  Stores of one process and loads of one process keep their order (x86-64 is
  assumed); on a weaker memory the code has no fence. Readers are local
  and no call has a timeout, as in the deployment.
* **`CpuKvContentCache`** - one action per method of the class, with its indexes, LRU
  and the claims and transfers of one step as state. A method first checks its arguments
  and raises before it changes anything: the checks are the predicates named `...Ok`, and
  a call that fails them is no step here. `get_and_reset_prefix_swaps` takes a step per
  deferred store, because each commit may evict. `TierSpec` lets any client call in any
  order, provided that it stages or cancels only what it has claimed.
* **`TieredPrefixCache`** - the allocator with the tier behind it (INSTANCE, with GPU
  blocks for `GpuBlock` and hashes for `ContentHash`). It adds the restore path of the
  override allocator (claim, reserve a GPU block, load; cancel without a block), the
  store of each victim before its hash is forgotten, and the order of `schedule`: begin,
  running requests (blocks freed by preemption, blocks for decodes, promotions), prefills,
  drain, marks; then the workers, D2H before H2D before the forward pass. Here a failing
  check of the tier is the phase `dead`. `gpu` and `cpu` are ghost data: the content a
  block or slot really holds. A prompt is prefilled in one step, so the blocks left
  unwritten by an aborted chunked prefill (section 5, item 2) are not in this module; in
  the code such a block can also be stored in the tier. `RestoreCancels` is reached only
  by a client that does not ask `can_allocate` first.

## 3. Runs

| Run | Question | Properties |
|---|---|---|
| `allocator` | Are counts, partition and map exact whatever the client calls? | `AllocTypeOK`, `RefcountIsHolders`, `BlocksPartitioned`, `CachedMapExact`, `SharedBlocksAgree`, `CachedInUseStays` |
| `engine_step` | Do two requests sharing prefixes ever read KV that is not theirs, or meet an allocator without blocks? | `TypeOK`, `KVIntact`, `AllocationNeverRaises`, `ComputedPrefixContiguous`, `CachePrefixClosed`, `MarksBelongToContent`, `QueuesAndTablesAgree`, `BudgetRespected` |
| `hybrid_chunks` | Do chunks, slots and checkpoints of successive requests fit together between scheduler and workers? | `RecurrentStateIntact`, `EngineNeverDies`, `IndexMirrorsWorkers` |
| `gdn_prefill` | Does the chunk arithmetic advance, capture and finish, and does a fast-forwarded prefill that is alone cut wherever a cold one does? | `StepsAdvance`, `TargetsAreCaptured`, `ColdCutsAreKept`, `PrefillFinishes` |
| `cpu_tier` | Are slots, indexes and roles exact whatever order the tier is called in? | `TierTypeOK`, `SlotsExact`, `OneRolePerSlot`, `ResidentsSurviveLookups` |
| `tiered_cache` | With the scheduler's order of calls, does no check of the tier fail and does every block and slot hold what its index says? | `TierNeverRaises`, `GpuHoldsItsContent`, `CpuHoldsItsContent`, `MapExactWithTier` |
| `shm_broadcast` | Does the lock-free ring with its overflow socket implement a broadcast queue, and does an enqueue return? | `RingTypeOK`, `NoTornRead`, `ImplementsBroadcast`, `EnqueueReturns` |
| `async_engine` | With cancellations, invalid requests, exceptions, dead workers and timeouts: do streams keep their contract, is everyone told, do the model loops stop? | `TypeOK`, `NoOrphan`, `IdleOwesNothing`, `BroadcastsMeetALoop`, `ImplementsStreams`, `TakenAreTold`, `WorkersLeaveLoop` |
| `two_prompts` (violated) | Does the worker accept every batch with `max_num_seqs` 2? | `EngineNeverDies` |
| `aborted_prefill` (violated) | Does `KVIntact` need its exception? | `KVAlwaysIntact` |
| `dead_worker` (violated) | Does stopping the model loops return or raise in any case? | `StopReturns` |
| `stale_state` (violated) | Does a first prefill always start from zeros or a checkpoint? | `FirstPrefillFromZeros` |

**Bounds and why they are enough.** `allocator`: three blocks, three objects, two nested
prefixes, two stamps; enough for a block shared three ways, for copy-on-write and
promotion onto a duplicate with the evictor non-empty, and for eviction of either of two
candidates with equal or different stamps. The proofs of section 4 remove the bounds of
this run altogether, and those of `cpu_tier`, `tiered_cache`, `gdn_prefill`,
`shm_broadcast` and `async_engine` for everything but liveness; of `engine_step` they
remove the bounds too, and of `hybrid_chunks` for the index, and for the other two
properties under hypotheses that section 4 names. `engine_step`: four blocks of two tokens,
tables of three, a budget of two blocks and prompts of two, four and three tokens, two of
them sharing a block: two requests do not fit at their full length, so admission, eviction,
preemption and self-preemption all happen; six steps let a request finish and others reuse
its blocks. With two requests and `MaxSeqs` 2 only the token half of `BudgetRespected` can
fail in this run; its other half, the number of groups, is left to `BudgetAssertsHold`
(section 4). `hybrid_chunks`: three blocks, a budget of two
blocks, kernel alignment of two blocks and one prompt that never fits; nine steps reach
restores of checkpoints captured two requests earlier. It has one request at a time, as
the deployment with `max_num_seqs` 1 does, so of the hazards about a batch of several
groups and about slots kept by others it meets only the part between successive
requests; `two_prompts` and `stale_state` show what several do. `gdn_prefill` keeps the
production proportions of block, kernel chunk and scheduler chunk (16 : 64 : 4096 become
2 : 4 : 8) and goes to two scheduler chunks and a remainder. `cpu_tier`: three slots, four contents and three
GPU blocks, so that the cache overflows while one slot is claimed, one is the target of a
store and one may be evicted, and so that stores are deferred behind loads.
`tiered_cache`: three GPU blocks, four objects, four contents, two slots; a victim is
stored and its block loaded in one step, a restore evicts another victim, stores are
deferred and resolved or dropped, and a restore fails for want of a block. Eviction
there is by insertion order (`Stamps` is empty).
`stale_state`: two requests of one token each that grow until three blocks do not hold
both, so that one is preempted and runs again.
`shm_broadcast`: the three readers of four ranks, two chunks and four messages of
every mix of sizes, so that the ring wraps twice, the fastest reader is a whole ring ahead
of the slowest, and large messages queue up in the socket. `async_engine`: two requests
(two outputs and one), two workers and one fault; two requests suffice for one to arrive,
be aborted or finish at every point of the other's step, of the stop and of the failure.
The one fault is of any kind and at any point. `MaxSteps` bounds the clock
and `Text` the tokens a sequence may reach; blocks and sequences are symmetric.

**Deadlock** is checked in `allocator`, `hybrid_chunks`, `cpu_tier` and `tiered_cache`. It is off in `engine_step`
and the runs that end in `dead` or at the step bound with nothing left to do, in
`gdn_prefill`, which stops when the prefill is finished, in `shm_broadcast`, which stops
when everything is delivered, and in `async_engine`, which stops when every caller has
gone; there the liveness properties say what must not be left waiting.

**Fairness.** `AsyncLLMEngine` has weak fairness for the background loop, the timer, the
done-callback, the step task, the executor's task, each thread and each worker process
separately, and for the collection of an abandoned generator: the event loop runs every
callback that is ready and the operating system every thread. There is none for callers
(nobody need ask, read or cancel) and none for faults, `DriverLosesPeer` included: a driver
may hang for ever, and then the iteration timeout (3600 s in the deployment) is what ends
the wait. `ShmRingBuffer` has weak fairness for the writer inside an enqueue and for each
reader; a reader is always about to dequeue again, as in the model loop, and nobody has to
enqueue. `GdnPrefill` has `WF_vars(Next)`: while
the request is unfinished the engine loop calls `schedule` again, and each step gives the
prefill some share of at least a block. The second half is an assumption about the
other groups of the batch (`max_num_seqs` decodes cost one token each, far less than the
budget minus a block).

## 4. Proofs

All proofs are for every value of the constants that satisfies the named assumptions. In
each module an inductive invariant comes first; TLC checked it on the run's instance
before it was proved. There is one lemma per action.

**`PrefixCachingBlockAllocatorProofs`**: `AllocTypeOK` (`TypeCorrect`),
`RefcountIsHolders` (`RefcountsAreExact`), `BlocksPartitioned` (`BlocksAreNeverLost`),
`CachedMapExact` (`MapIsExact`), `SharedBlocksAgree` (`SharersAgree`) and the action
property `CachedInUseStays` (`InUseIsNeverForgotten`), for finite sets of objects and blocks and any hashes.

The inductive invariant `AllocInv` is the conjunction of the first five, and none of them
is inductive alone. That a count stays a natural number needs it to count holders; that
the block which a promotion gives back is not the duplicate it moves to needs
`SharedBlocksAgree`; that dropping one entry of the map on eviction is enough needs
`CachedMapExact`; that a revived block leaves the evictor and nothing else needs the
partition. The lemma `CountMove` (an object that moves from one block to another
changes two counts by one) carries all the arithmetic.

**`CpuKvContentCacheProofs`**: `TierTypeOK` (`TierTypeCorrect`), `SlotsExact`
(`SlotsStayExact`), `OneRolePerSlot` (`RolesStayApart`) and the action property
`ResidentsSurviveLookups` (`LookupsLoseNothing`), for any positive capacity. The inductive
invariant `TierInv` adds three facts: `TransfersResident` (the slots of transfers are
resident, so a commit to a free or evictable slot cannot hit one), `DeferredFresh` (a
deferred content is neither indexed nor deferred twice, so its commit duplicates nothing)
and `ResolvesWithoutLoads` (a drain that resolves stores has no loads; without it
`LookupsLoseNothing` fails, since a commit displaces a resident content). The lemma
`CommitKeeps` carries the argument: the same commit serves a store made at once and one
made in the drain.

**`TieredPrefixCacheProofs`** extends the allocator's proofs and instantiates the tier's,
so that `AllocInv` and `TierInv` are reused as they stand. It proves `TierNeverRaises`
(`TierIsNeverMisused`), `GpuHoldsItsContent` (`GpuContentIsTrue`), `CpuHoldsItsContent`
(`CpuContentIsTrue`) and `MapExactWithTier` (`MapStaysExact`). To the two invariants
`TieredInv` adds `PhaseInv` and `RestoreInv` (what the program counters promise; a block
reserved for a restore is held by the restoring object alone), `StepInv` and `DataInv`.
`StepInv` is the heart of it: a block that this step fills, loads or stores is held by a
scheduled object, so that nothing evicts it before the workers have run; that is why
storing a victim never meets a block with a load on it. `DataInv` says what `gpu` and
`cpu` hold while transfers are pending: a content that is indexed is there, or its
transfer is, and the sources of the transfers hold what they shall carry. Actions are
summed up in `AllocEffect` and `TierEffect`, and `EffectsKeep` shows once that such a step
keeps both. The assumptions added are `SlotsAssumption` (a tier has slots) and
`NoRestoreAssumption`.
The last part is a refinement, `TieredImplementsTier`: the tier as the scheduler, the
allocator's callbacks and the workers' drain drive it behaves as the tier's own
specification `Tier!TierSpec`, which lets any client call in any order. Every step maps to
a call of the tier or to a stutter, and what `TierSpec` asks of a client (stage or cancel
only what is claimed, begin a step only when nothing is staged) follows from `TieredInv`.
So what is proved of the tier alone holds in the engine: `ContentSurvivesLookups` and
`SlotsOfTheEngine` are its theorems, carried over.

**`ShmRingBufferProofs`**: for any number of readers, chunks and messages, `RingTypeOK`
(`RingTypeCorrect`), `NoTornRead` (`RingNoTornRead`), and that the ring implements
`BroadcastQueue` as far as safety goes (`RingImplementsQueue`: `Spec => Queue!QueueSafety`).
Message `n` goes to chunk `n % MaxChunks`. `RingInv` describes every flag, header, body
and socket by two numbers: how many messages were written and how many a reader has
released (`Taken`). `PositionInv` bounds their difference by the size of the ring;
`HeldInv` says that each message still in the ring is published whole with the read flags
that its readers' positions imply; `FillingInv` and `ReadingInv` cover the chunk that is
being filled or read; `SocketInv` says that the overflow socket of a reader holds exactly
the large messages it has yet to receive, in order. `NoTornRead` alone says nothing of the
flags from which a reader concludes that it may read. The arithmetic of `%` (two messages
share a chunk only if they are a multiple of the ring apart) is in lemmas of its own.

**`GdnPrefillProofs`**: for any block size of at least two tokens, any scheduler chunk and
restore alignment of whole blocks, any prompt, index and budgets: `StepsAdvance`
(`EveryStepAdvances`) and `TargetsAreCaptured` (`TargetsCaptured`) in every policy and
restore mode, and `ColdCutsAreKept` (`ColdCutsKept`) for hybrid64 restores under
admission64, the only mode that computes segment offsets. Three facts carry the argument.
Every key that may be restored is at most as deep as the final checkpoint of the same mode
(`LiveBelowFinal`), so a target that is not resident lies strictly beyond the restored key
and fast-forwarding jumps over none (`PlanningOK`). A fast-forward falls back only when the
nominal chunk reaches at least as far (`FirstChunkOK`). And a cold cut strictly inside a
step belongs to a chunk that ends in the step, or to the last chunk, one token longer than
the step and with the same checkpoint (`SegmentsCover`); this needs steps that end at block
boundaries (`BlockInv`), hence a request that is alone, and blocks of two tokens: with
blocks of one token a cold cut can be lost. The assumptions are those of `GdnPrefix` and
`PrefillAssumption`.

**`AsyncLLMEngineProofs`**: for any set of requests and workers and any number of faults,
`TypeOK` (`EngineTypeCorrect`), `NoOrphan` (`NothingOrphaned`), `IdleOwesNothing`
(`IdleLoopOwesNothing`), `BroadcastsMeetALoop` (`BroadcastsAreMet`) and that `generate`
implements `RequestStreams` (`GenerateImplementsStreams`). `EngineInv` follows a request
through the hands it passes (caller, queue of new requests, step task, engine): `OnceInv`
says that it is in one of them, `CoverInv` that whoever is computed for is registered or
has an abort on the way, `EventInv` that a new request is never waited for in vain,
`StreamInv` that the queue of a stream continues where its caller stands. `NoOrphan` needs
all but the last; the refinement needs `StreamInv`. `RunningInv` is for the executor: who
runs the driver and where each worker stands relative to the last stop message, as long
as the engine is not errored. What `TakenRequests` computes is shown by induction over
the queue; for that it is a recursive function, since the prover knows nothing about
`SelectSeq`. The assumptions are `OutputsAssumption` and `MessageAssumption`.

**`BlockSpaceManagerProofs`** extends the allocator's proofs. `ManagerInv` adds to
`AllocInv` that tables are whole: the blocks of a table are `1..n` without a hole, with `n`
the `Cdiv` of the full slots, and a sequence without a table has blocks only while
`allocate` or `free` runs for it. Its part `AllocatingOK` is what `can_allocate` buys: the
blocks that an allocation still needs are free. The lemmas `AllocateHasBlocks` and
`AppendHasBlocks` draw the conclusions about `NoFreeBlocksError`. The arithmetic of
rounding is in `CdivIs` and the lemmas around it; `SameBlocks` says that an allocator
call on one object leaves the tables of other sequences alone.

**`ChunkedPrefillSchedulerProofs`** extends it, for any requests, prompts, budget, number
of groups and policy, all properties of `engine_step` and `IndexMirrorsWorkers`:
`QueuesAndTablesAgree` (`QueuesAgreeWithTables`), `AllocationNeverRaises`
(`NoFreeBlocksErrorIsDead`), `BudgetRespected` (`BudgetAssertsHold`),
`IndexMirrorsWorkers` (`IndexIsExact`), `TypeOK` (`SchedulerTyped`), `CachePrefixClosed`
(`CacheStaysClosed`), `ComputedPrefixContiguous` (`ComputedPrefixIsContiguous`),
`MarksBelongToContent` (`MarksStayTrue`) and `KVIntact` (`KVStaysIntact`). The inductive invariant is `SchedulerInv`, that is `ManagerInv`,
`QueueInv` and `BudgetInv` (theorem `SchedulerInvariant`). `QueueInv` follows a request
through a step: it is in exactly one of `waiting`, `preempted`, `running` and the three
scheduled lists, at most once in `batch` or `sent` beside `running` (`Place`), and has a
table just where its place says so (`TablePlace`). Without the lists of the step in progress the queues
between steps could not be shown to be complete; and because a request is in the batch
once, a decode never appends two slots in one pass, so `can_append_slots` is still true
when `append_slots` runs. `BudgetInv` is the arithmetic of `spent`.

`BudgetAssertsHold` needs more, `PromptInv`, and a hypothesis. The token half of the
assert is `BudgetInv`. The other half, `num_curr_seqs <= max_num_seqs`, is not a
consequence of the check `NumScheduled < MaxSeqs` made when a new prompt starts: running
groups are scheduled without it, and those that got no chunk stay in `running` uncounted.
The argument is that the running groups and the scheduled ones together are never more
than `MaxSeqs` (`CountOK`). A batch that the worker accepts has at most one prompt, so
between steps at most one request is in mid-prefill (`OneAtATime`), and it always gets a
chunk; a running group left without one is a decode that met a spent budget (`LeftOver`).
Then no new prompt starts beside it, because a new prompt needs a chunk too
(`PlannedAlone`). The hypothesis is `SeqsFit`, `MaxSeqs + BlockSize <= Budget + 1`:
after one token for every other group a whole block of the budget is left. The code checks
only `max_num_batched_tokens >= max_num_seqs`; the deployment (two groups, thousands of
tokens) and all runs satisfy `SeqsFit`. Section 5 says what happens without it.
The assumptions of the two modules are those of the modules they extend: prompts are
non-empty texts, texts are closed under prefixes and fit in `MaxBlocks` blocks, the budget
is a multiple of the block size, `NoKey` is no key.
`IndexIsExact` proves `IndexMirrorsWorkers` from `IndexInv`: the index is a list without
repetition within its capacity (`IndexOK`), and a request has at most two keys to capture
(`FewKeys`: the final one and a repeated branch). While a step is on its way to the
workers, index and states differ by exactly what the step drops and captures (`MirrorOK`),
and only a prompt drops or captures; a batch with two prompts makes the worker raise and
never reaches the next phase. The point of the argument is `AdmittedKeys`: admitting the
keys of one step leaves (what was there, less what is reported evicted) plus all the keys
captured. That needs room for two: with a capacity of one the second key would evict the
first, and the worker, which drops before it captures, would keep both. So the scheduler
module assumes `IndexAssumption`, `Capacity # 1`; the code uses 32, 64 and 0
(`gdn_prefix.py:224`).

`SchedulerTyped` proves `TypeOK`. Its part about the requests is `ProgressInv`: a decode has
computed all but its last token (`DoneOK`), a table is full but for the last token of a
decode not yet scheduled (`SlotsOK`), every group of a batch advances and ends within the
tokens there are (`GroupsOK`, `SentOK`), and a block that is not full has one holder
(`AloneOK`), so that a decode writes into a block of its own.

`CacheStaysClosed` proves `CachePrefixClosed`. That no eviction leaves a hole is a matter
of the evictor's order, not of a check: nothing in `evict` looks at prefixes. A table is freed from
its first block, so a prefix may enter the evictor before what continues it; but a request
stamps all its blocks alike, and then everything that stands between the two bears that
one stamp (`EvictorRuns`), and among equal stamps `evict` takes the entry with the most
hashed tokens (`VictimRoots`; `FirstExists`, that a finite totally ordered set has a first
element, says where the scan stops). Hence a victim has no cached continuation. While a table is being freed the argument is about blocks still held
(`FreeingOK`); `FilledOK` says that the hashes of a table are those of its tokens; and
`StampedOK` that only the new prompts of the step under way are without a stamp. These are
`CacheInv` and `ClosedInv`.

`ComputedPrefixIsContiguous` proves `ComputedPrefixContiguous`. `get_common_computed_block_ids`
filters the table by the marks and does not stop at a gap. There is none because marks
come from one place: a full block in use counts as computed unless it is `touched`
(`MarksOK`), that is, allocated in this pass; and what continues a touched block in the
cache is touched (`TouchedGoOn`). For this nobody who still may give up its blocks holds a
touched one (`TouchedPhases`): preemption comes before the new prompts of a pass, and
never hits a group that has had its slots in it.
`MarksStayTrue` states the first two for their own sake, as `MarksBelongToContent`:
`mark_blocks_as_computed` marks all that was touched since its last call, whoever holds it
by then, and it is only the order of the scheduler's calls that keeps a mark from falling
on a block given up or handed out again. `KnownOK`
says that the prefix handed to the workers is one of the table it was taken from.

`KVStaysIntact` proves `KVIntact`, under `SeqsFit`. A request *owns* the first `n` tokens
when each of them lies in a slot written from exactly its prefix (`Owned`). Three parts
go around in a circle: every live request owns what it counts as computed (`HeldOK`); a
cached block holds what its hash says, or a live request that holds it has not got that
far (`ContentOK`, `Pending`); and where prompts are planned the second case is a prompt
whose first chunk is over, or the block is still touched (`FreshOK`). So a new prompt that
skips marked blocks skips written ones, or shares the batch with the prompt it counts on,
and such a batch the worker refuses (`RestoredOK`, `StepOK`). This needs
`ComputedPrefixContiguous`, and that the one prompt in mid-prefill (`OneAtATime`) always
gets a chunk, hence `SeqsFit`. All of it is under `torn = {}`: an abandoned or taken-over
block is exactly what breaks the second part.

`LoneEngineNeverDies` and `LoneStateStaysIntact` prove `EngineNeverDies` and
`RecurrentStateIntact` under `SoleRequest`, the hypotheses without which they do not hold
or were not proved:

* `MaxSeqs = 1`, as `run_on_real_machine.sh:155` and the recipe in `patch_ops.sh` start the
  server. With two, `two_prompts` and `stale_state` violate them.
* One block more than the longest table. `can_append_slots` asks for a free block even
  when the token fits into the last one, so a lone request whose table is all of the cache
  would preempt itself, which keeps its slot of recurrent state (section 5, item 4).
* An index with room for more than two keys, or for none (`Capacity # 2`, besides
  `IndexAssumption`): a prompt captures up to two keys, and a smaller index could drop the
  key it restores.

The invariant is `LoneInv`. At most one request is running, in whichever list (`OneLive`),
and its table leaves a block free (`NeverPreempts`). A prompt that has computed nothing is
on its way to the worker (`StartedOK`) and the checkpoint it restores is the most recent one
of the index and inside the computed prefix (`KeyReady`), so the worker has it and does not
drop it first (`RestoresOK`). The slot of the running request is its state after the tokens
it counts as computed, every other slot is zeros (`SlotOK`), no slot leaks and no capture
is spoilt (`MambaOK`). Run `hybrid_chunks` checks the two properties on an instance outside
the second hypothesis (tables of up to four blocks, three blocks in all), where one prompt
never fits.

**Only model-checked**: `EngineNeverDies` and `RecurrentStateIntact` outside `SoleRequest`,
and liveness (`PrefillFinishes`, `EnqueueReturns`, `TakenAreTold`,
`WorkersLeaveLoop` and the fairness half of `ImplementsBroadcast`): liveness under
fairness and `ENABLED` are out of the prover's reach. So is induction over data in
general (what a fold computes for every sequence); where it was needed above
it is done on a set, by a least counterexample.

## 5. Disagreements with what the repository says

1. `two_prompts` - two prompts, or a prompt with GDN actions and a decode, in one batch
   make the worker raise (`model_runner.py:769`, `qwen3_5.py:2876`); `schedule` does
   nothing to avoid it and the deployment sets `--max-num-seqs 2`.
2. `aborted_prefill` - after the first chunk of a prompt all its blocks count as
   computed; if it is aborted or preempted then, later requests skip blocks that were
   never written, against the comment at `scheduler.py:1691`.
3. `dead_worker` - a worker process that dies while the loop awaits the workers' tasks
   leaves it waiting for ever: `WorkerMonitor._on_worker_exit` kills the other workers and
   resolves no future, and the await (`async_llm_engine.py:834`) is not under the iteration
   timeout. The comment at `executor_base.py:378` says that it raises. `WorkersLeaveLoop`
   in `async_engine` is the part that holds: without a death the stop always ends.
4. `stale_state` - a request preempted by recomputation keeps its slot of recurrent
   state, is not reported as finished, and starts again from its first token on top of the
   state after its last one, against the comment at `qwen3_5.py:1418`. What it captures is
   then wrong for other requests too. `RecurrentStateIntact` in `hybrid_chunks` is the part
   that holds, with one request at a time. A request there can still preempt itself, when
   the next chunk asks for a free block and there is none; its second start then restores
   the checkpoint that its first chunk captured, which replaces the old state.

Found with the models, without a run of their own:

* A fast-forwarded prefill that is capped at a capture boundary has a cut that the cold
  run does not have ("Reproduce cold fine32/direct segment boundaries", `gdn_prefix.py:185`);
  `ColdCutsAreKept` is the half that holds: no cold cut is lost.
* A decode that fills its block is moved to the block cached for the same content
  (`promote_to_immutable_block`, `prefix_caching_block.py:426`), although the prompt that
  allocated that block may still be computing its chunks: the docstring and
  `scheduler.py:1691` take a cached block for a computed one. The decode then reads slots
  that nobody has written. `KVIntact` excludes it with `torn`.
* A fast-forwarded chunk may end inside a block when a decode took part of the budget
  (against the comment at `scheduler.py:1990`).
* `propagate_exception` goes through `_request_streams`: a request still in
  `_new_requests` when the loop dies is told nothing. `TakenAreTold` speaks of requests
  that were taken.
* A request that arrives between the end of the loop task and its done-callback finds
  the engine neither running nor errored and starts a second loop with a new tracker; the
  callback then fails the streams of the new tracker and leaves those of the old one
  unanswered. The model takes this path, and the properties except `orphaned` requests.
* The assert `num_curr_seqs <= max_num_seqs` (`scheduler.py:1364`) is not protected by the
  validation of the configuration, only by the sizes in use: with `Budget` 3, `BlockSize` 3
  and `MaxSeqs` 2, which `max_num_batched_tokens >= max_num_seqs` allows, a decode leaves two
  tokens, the running prefill gets no chunk and is not counted, and a prompt of two
  tokens starts; later all three are scheduled. `SeqsFit` in section 4 excludes it.

## 6. Not modelled, and why

* Request-level swapping and the swapped queue: groups of one sequence are preempted by
  recomputation unless `preemption_mode` says otherwise, which the deployment does not.
  Beam and best-of groups, lookahead slots, sliding windows, cross-attention, LoRA, the
  non-chunked scheduler, several virtual engines: not used.
* The multiprocess front end (`engine/multiprocessing/`): off in the deployment.
* The frequency-aware evictor: the deployed allocator constructs the LRU evictor.
* The staging of block-major KV copies: its order is that of CUDA streams and events,
  which only the device gives; the models take a transfer as one copy per block.
* The layerwise-split layout (C++), speculative decoding and disaggregated KV transfer: not
  part of the deployed service.
* Statistics, tracing, logging, the text processing of the front end and its parsers,
  the arithmetic of kernels, weight loading and the vendored SDK: most of the repository's
  lines, with no control state for a model to keep.

`reset_prefix_cache` of the allocator is not called by anything in the deployed scheduler.
Hash collisions are excluded by assumption. Start-up and shutdown of the executor are left
out: the models start with loaded workers.

## 7. Plan

1. (done) Evictor and allocator, with proofs.
2. (done) Manager, scheduler, worker, checkpoints; planning arithmetic.
3. (done) CPU content tier alone, with proofs, and under the allocator.
4. (done) Recurrent-state slots; broadcast ring and its abstract queue; executor,
   request tracker and asynchronous engine with their faults, and the contract of streams.
5. (done) Proofs: the ring and its refinement; tracker, streams and executor;
   allocator and tier together with the data they move; the chunk arithmetic.
   Also (done): queues, tables, budget and free blocks of manager and scheduler.
   Also (done): the index of checkpoints against the states of the workers; the closed
   cache, the contiguous computed prefix, the computed marks and the KV of the scheduler; the refinement from
   allocator and tier to the tier alone; recurrent state and worker for one request.
   Left to prove: the recurrent state of two requests that are never in one batch.
6. Left to model: prefills in chunks above the CPU tier; request-level swap, should the
   deployment ever set `preemption_mode`.
