# TLA+ models of PaceServe

PaceServe serves a language model on several instances. Each instance runs an
engine (scheduler, paged KV cache, workers); a controller sends requests to
high-priority or low-priority instances and moves requests that are about to
miss their time-to-first-token objective from the second kind to the first.
The modules here model the PACE configuration of the system - the block manager,
the instances with their workers, what an instance promises its caller, and the
controller with its threads around several instances - and two of the
configurations it is compared with: DistServe, where one instance computes prompts
and another generates, and Sarathi's chunked prefill.

## 1. The system

Paths are relative to `src/paceserve/`.

| Part | State | Operations | Interacts with |
|---|---|---|---|
| Sequence (`core/datatypes/sequence*.py`) | lengths, logical blocks, status, `_is_scheduled`, prompt progress | `set_status`, `append_token_id`, `update_prompt_tokens_processed`, `reset_for_recompute`, `check_stop` | owned by the engine; each worker owns a deep copy |
| Block space manager (`core/block_space_manager/`) | free list, `block_tables`, one lock | `can_allocate`, `allocate`, `can_append_slot`, `append_slot`, `free`, `is_allocated` | scheduler (run thread), KV transfer RPCs, a clone in each worker |
| Scheduler base and policy (`core/scheduler/base_scheduler.py`, `core/policy.py`) | `waiting`, `running`, `num_running_batches` | `add_seq`, `schedule`, `_preempt`, `free_finished_seqs`, `abort_long_waiting_seq` | engine |
| Low-priority scheduler (`core/scheduler/low_priority_scheduler.py`) | the same, and the solver's items | decodes first, then the prompts `NonPreemptiveSolver` picks, then `_seq_offloading` | low-priority engine |
| High-priority scheduler (`core/scheduler/high_priority_scheduler.py`) | the same | prompts first in deadline order; decodes only when no prompt was taken | engine |
| Engine (`engine/base_llm_engine.py`, `low_priority_llm_engine.py`) | `seq_manager.seq_map`, `new_seqs`, sockets to the workers, `hp_req_queue` | `add_request`, `step` | run thread of the instance, workers |
| Sequence managers (`core/sequence_manager/`) | `seq_map` (engine and workers), block manager clone (workers) | `on_schedule`, `on_step_completed` | engine, workers |
| Worker (`worker/base_worker.py`) | its sequence manager, the KV cache | `_execution_loop` | engine, over a publish socket and a pull socket |
| Instance (`disutil/instance.py`, `lp_instance.py`, `hp_instance.py`) | `requests`, `_pending_sequences`, `output_list`, `_new_finished_ids` | `_run` on its own thread; RPCs `_add_request`, `_add_sequence`, `_get_hp_request`, `_seq_polling_ticket`, `_sequence_finished_and_aborted` | controller |
| Pace controller (`core/controller/`) | `generated_requests`, `_request_to_schedule`, `high_priority_queue`, `in_window_request_ids` | three threads: schedule, poll the low-priority instances, collect completions | instances, over fire-and-forget and awaited RPCs |
| DistServe (`disutil/prefill_instance.py`, `decode_instance.py`, their schedulers and engines) | two schedulers with their block tables, four queues on the decode side, caches copied out of the workers | prefill, `add_kvc_metadata`, `transfer_kv_cache`, insert, preempt with swap-out, swap-in | controller, each other over RPCs; five kinds of threads |
| Sarathi scheduler (`core/scheduler/sarathi_scheduler.py`) | `waiting` (first come, first served), `running` | decodes, then prompts under way, then new prompts, in chunks that share a budget | engine |
| Async engine and server (`engine/async_llm_engine.py`, `entrypoints/`) | `RequestTracker`, `AsyncStream` | asyncio loop around `step` | HTTP clients |
| Others | the other baseline schedulers, mix instance, replica, pipeline-parallel engine, value functions and regression models, metrics, model executor, configuration | | |

What makes this code hard:

* **Two copies of the allocation.** The scheduler never sends a block table. It
  sends which sequences to ignore, preempt and execute, and every worker replays
  that on a clone of the block manager, in another order (frees first, then
  prompts, then decodes). Everything breaks silently if the copies diverge.
* **Threads.** RPC threads return blocks, pop `hp_req_queue` and read queues while
  the run thread is in the middle of a schedule. `can_allocate` and `allocate`
  take the allocator's lock separately, `allocate` once per block.
* **Recompute preemption.** An executed sequence goes back to `waiting`, its tokens
  become its prompt, and it must still be neither lost, nor offloaded, nor
  streamed twice; at the same time new requests may be aborted or offloaded.
* **Two halves of a step.** The scheduler changes its lists and tables first; the
  engine's objects and the workers follow only if the step scheduled something.
* **Progress.** A preempted sequence must finish although others are preferred.
* **A cache that travels.** Under DistServe a request passes from a run thread to an
  RPC, four queues, transfer threads and another run thread, and its KV cache passes
  from one set of workers to another through a copy; two block counts per side, the
  scheduler's and the workers', change at different moments.

PROJECT.json lists each hazard at its line with the properties that cover it.

## 2. The modules

| Module | Models | Correspondence |
|---|---|---|
| `BlockSpaceManager` | `base_block_space_manager.py` and the allocator, with one allocating thread and any set of freeing threads | one action per critical section of the lock: a check (`can_allocate`, `can_append_slot`), each block popped (`TakeBlock`), the table written (`EndTake`); `free` is one block a time |
| `BlockLedger` | what the manager promises: a check, then blocks move between "free" and one owner, whatever the interleaving | abstract specification, refined by `BlockSpaceManager` |
| `SequenceObject` | `sequence.py`, `sequence_state.py`, `sequence_status.py` as pure operators | `SetStatus`, `ResetForRecompute`, `CheckStop`, `CompleteStep`; `Legal` is the table of `set_status` |
| `InstanceEngine` | engine step, scheduler base, engine sequence manager, workers | `phase` is where the run thread is; one action per loop iteration or call; `WorkerSkip` and `WorkerExecute` handle one `StepInputs` |
| `LowPriorityEngine` | `LowPriorityScheduler._schedule`, the solver's possible selections, offloading, `hp_req_queue` and its RPC | extends `InstanceEngine` |
| `HighPriorityEngine` | `HighPriorityScheduler._schedule` | extends `InstanceEngine` |
| `RequestStream` | what an instance promises: a stream of tokens that grows by at most one a step, is final once closed, and leaves for another instance only before its first token | abstract specification, refined by both engines |
| `PaceCluster` | the controller's schedule, polling, completion and stop threads, the remote calls, and per instance the run thread and the RPC handlers | composes instances reduced to their promise; `sched`, `poll`, `collect`, `run` are the places of the threads; `calls` the calls nobody awaits, `ask`, `report` and the phases of `ReadTicket` the awaited ones |
| `DistServe` | the prefill and the decode instance, the RPCs between them, the decode instance's queues, transfer and swap-in threads, and both workers' block tables | `pphase` and `dphase` are where the run threads are, `pc` where the transfer and swap threads are, `rpc` the state of each `transfer_kv_cache` call; a table is a count of blocks per request |
| `SarathiEngine` | `SarathiScheduler._schedule`, the step around it and the worker that replays it | one action per turn of each of its three loops |
| `CommonLemmas`, `BlockSpaceManagerProofs`, `InstanceEngineProofs`, `LowPriorityProofs`, `HighPriorityProofs`, `SarathiProofs`, `PaceClusterProofs`, `DistServeProofs` | theorems and proofs | section 5 |
| `MC*` | sets and shapes for TLC | section 4 |

An action is a piece of the run thread that other threads can observe on either
side: the loop over `running`, the solver, each admission and the offloading are
steps of their own because RPC threads may run between them.

### Decisions

* A request is named by its rank in `arrival_time`. `policy.sort_by_priority` sorts
  `running` at every schedule, so the list is determined by its members: `Min` is
  its head and `Max` its tail. `waiting` is a set too: on the low-priority side its
  order only breaks ties in a floating-point value function; on the high-priority
  side it is recomputed at every step from predicted prefill times, so any member
  may be the head. `add_request` stamps `arrival_time` in the run thread, so a
  low-priority instance adds requests in rank order; a high-priority instance also
  receives offloaded sequences, older than what it has, so it adds in any order.
* Time and predictions are nondeterministic: any waiting sequence may be late
  (abort, offload), and the solver may return any set its three budgets allow
  (`Selections`). The set of sequences that meet an end-of-sequence token is drawn
  when the batch is sent, so that all ranks sample the same token. The set whose text
  ends with a stop string is drawn when the engine completes the step (`Complete`):
  workers do not detokenize. `StopStrings` says whether clients give any; the requests
  the instances build themselves (`Instance._get_input_params`) have none, and the
  passing runs set it to FALSE.
* An assertion of the code is a guard of the action (a failed assertion kills the
  thread, the model stops there) and a conjunct of `EngineAssertions`,
  `WorkerAssertions` (both parts of `InstanceSafe`) or `ChosenAreAdmissible`, which
  say it never fails. Branches
  that need pipeline parallelism or a chunked prefill (sequences not paused,
  partial prefills, `num_running_batches` above one, the ignored prompt of the
  low-priority loop) cannot be taken by the PACE instances: they are guards, and
  the same invariants show that the guards never block. The solver always takes
  the whole prompt.
* A sequence the engine and the worker both drop is reset to a fresh object in the
  worker, whose entry is deleted there.
* In `BlockSpaceManager` a sequence is passed to one call at a time (`Unused`): the
  run thread allocates for sequences of its lists, and a transfer thread frees
  sequences that have left them. An `append_slot` that adds nothing is a stutter.
* `SchedulerOutputs.is_empty` looks at the scheduled list only. `DispatchNothing`,
  `DispatchAborts` and `DispatchBatch` are its cases. A step with neither batch nor
  aborts returns no output, even for sequences it ignored or preempted.
* `PaceCluster` does not extend the engine modules: three engines in one state space
  are out of reach. An engine there is the set of its requests and those never
  executed. A step closes any of them and a low-priority step may first hand over
  some of the latter: this is what `RequestStream`, `OnePlace` and
  `OffloadedUntouched` establish for the engines. That a request of the window leaves
  its engine is the fairness `WindowLeaves`, established by `EveryRequestLeaves` and
  `HPEveryRequestEnds` for requests within the limits. A request that a
  high-priority instance drops silently (section 6) would keep the controller from
  ending; the module assumes there is none.
* Calls that are not awaited (`_add_request`, `_add_sequence`) are delivered in any
  order: instances are actors with 18 threads. An RPC handler that reads a set the
  run thread changes is split where the two can interleave. The set operations
  `|=`, `-=` and the copy are atomic: they are single calls of the interpreter on the
  same object.
* `_request_to_schedule` is filled in the order of `arrived_at` and popped from its
  head, so it is the set of its members and its head is the minimum. Counters used
  modulo the number of instances are kept modulo.
* `DistServe` has one prefill and one decode instance, as the controller pairs them;
  the round robin over several decode instances would only split the requests. The
  ranks of an instance act together, so one stands for them. `reset_butnot_recompute`
  lowers `max_tokens` by what was generated, so only the sum counts (`Ends`). The
  transfer threads are split where the code tests and then acts: `qsize()` and `get()`,
  the room for a cache and its allocation. The swap-in thread stops at an assertion
  that adds `KVStatus` objects, which raises: the model keeps that.
* `SarathiEngine` takes the fixed chunk size, which is the default. Its worker replays a
  step in one action, because the engine waits for it and `InstanceEngine` already
  has the workers apart. A prompt over the limit has no step: the code ignores it
  without removing it, meets it again and raises.
* `allow_drop_requests` is FALSE in these two modules; the PACE modules have it as a
  constant.

## 3. Properties

* Block manager: `NoDoubleOwner` (a block is in one place), `NoBlockLost` (it is in
  some place), `NeverDry` (what a check saw is still there when the blocks are
  popped), `TablesCoverTokens` (a table has a block for every logical block), and
  `ImplementsLedger`.
* Every PACE instance: `InstanceSafe`, whose parts are `EngineAssertions` and
  `WorkerAssertions` (no assertion of either side fails, in particular `assert
  can_allocate` in a worker that replays the allocations in another order),
  `WorkersInSync` (an idle worker holds the scheduler's tables and objects) and
  `BlocksMatchWork` (blocks are held by running sequences only, enough of them).
* Low priority: `OnePlace` (a request is in exactly one list, or left once),
  `OffloadedUntouched` (an offloaded request has no token, no block, no schedule),
  `ChosenAreAdmissible`, `LPBounds`, `ImplementsStream`, `EveryRequestLeaves`.
* High priority: `HPOnePlace`, `PromptsAlone` (no preemption in a step whose
  metadata would not mention it), `HPBounds`, `OldestNotPreempted`,
  `HPImplementsStream`, `HPEveryRequestEnds`.
* Cluster: `OneCopy` (a request is in exactly one place of the whole system),
  `NoIdLost` (a completion reaches the controller), `WindowFinished` (the controller
  stops the instances only after the window has finished), `PopSafe`, `RunEnds`.
* DistServe: `PrefillAssertions` (the prefill workers can allocate although blocks are
  freed by RPC threads in the middle of a step), `HandedOverOnce` (a request is in one
  queue, list or pair of hands), `CacheOnOneSide` (its cache exists once, and no worker
  keeps blocks of what has ended), `InsertsFitIfReplayed` (blocks that were promised are
  there, as long as every preemption reached the workers), `EveryRequestEnds` (unless one
  of the failures named in `Stuck` happens).
* Sarathi: `OneHolder`, `ReplayInSync` (the worker can replay every step and then agrees
  with the scheduler), `BatchWithinChunk`, `PrefillsProgress`, `SarathiImplementsStream`,
  `SarathiEveryRequestEnds`.

## 4. The runs

| Run | Shows | Bounds |
|---|---|---|
| `block_manager` | safety and refinement with an allocating thread and two freeing threads | 4 blocks, watermark 1, 3 sequences of up to 2 blocks |
| `low_priority` | safety, the refinement of `RequestStream`, and that every request leaves, under fairness | 3 requests of two shapes, 5 blocks of 2 tokens, watermark 1, batches of 2 sequences and 6 tokens, aborts and early stops, one worker |
| `high_priority` | safety, the refinement, and that every request ends, under fairness | 3 requests of two shapes, 5 blocks, watermark 1, `enforce_max_num_seqs`, prompt limit 5, so a preempted sequence may have become too long |
| `cluster` | the cluster's safety properties | 2 requests, both in the window, two low-priority instances and a high-priority one, no stop from outside |
| `cluster_live` | the run ends, under fairness, also when it is stopped from outside at any moment | 2 requests, one instance of each kind |
| `distserve` | safety, and that every request ends unless a named failure happens, under fairness | 2 requests of three shapes, one over the prompt limit; 2 and 4 blocks; 2 transfer threads and a swap-in thread |
| `sarathi` | safety, the refinement of `RequestStream`, and that every request ends, under fairness | 4 requests of two shapes, 5 blocks of 2 tokens, chunks of 2, up to 3 sequences |
| `low_priority_full`, `low_priority_stop_string`, `low_priority_tokens`, `high_priority_ignored`, `distserve_preempted` | disagreements, section 6 | one request that fills the cache; one with stop strings; two that are preempted; two, one over the limit; two that overflow the decode instance |

The shapes of the PACE runs are a request that fits one block and ends soon, and one
that grows from two blocks to three. Three of the second kind need nine blocks and
there are five, so the runs contain preemptions, several in one step, re-admissions
with a longer prompt, decodes next to prompts in one batch, and steps that only abort.
Three requests give a victim that is neither the oldest nor the newest of the
instance. In the passing runs no single sequence can fill the cache: a sequence that
does is what `low_priority_full` shows. The runs have one worker: that several ranks, which
handle messages at their own pace, stay in sync is not checked by a run, while the
theorems of section 5 hold for any set of workers.

In the cluster, two requests are enough for one to be served directly while the other is
offloaded, on its way, or behind it in a queue, and the controller asserts that the window
has at least two. With more high-priority instances than that no request would ever go to
a low-priority one, as an idle instance always gives a ticket. The theorems hold for any
numbers of requests and instances, with or without a stop from outside. Deadlock is not checked in these runs: the system
stops when the run has ended. Nor is it in the `distserve` runs, where threads end and a
worker out of blocks stops the run thread.

Under DistServe two requests that both grow overflow four blocks, so that one is swapped
out while the cache of the other is being inserted; two transfer threads race for one
queue element. Under Sarathi a prompt of five tokens takes three chunks, decodes and
chunks share a budget of two, and four requests overflow the cache while prompts are
partly processed.

**Fairness.** `LPFairness` and `HPFairness` are weak fairness of the run thread
(`Instance._run` is a loop that never blocks except for the answer of rank zero),
of each worker's `_execution_loop`, and of the `_get_hp_request` RPC for each queued
request (the controller's thread polls in a loop). Arrivals have no fairness. The
runs use limits at which a preempted sequence still fits one batch: with a
smaller `max_num_batched_tokens` a grown prompt is never chosen again, and such a
request is outside of the limits for which the engine is configured.
`ClusterFairness` is weak fairness of each controller thread (loops with bounded
waits), of each kind of remote call (Ray delivers calls to a live actor) and of each
run thread; strong fairness of `TakeArrival` (arrival times come), of `PollReady`
(`ray.wait` does not time out for ever on a call that was answered), of `EndRun` (the
loop tests `terminate` at every turn) and of `WindowLeaves`, each on some instance: both
happen finitely often, so every instance gets its turn.
`DSFairness` is weak fairness of both run threads, of every remote call and of each
transfer and swap thread, whose `get()` may block: then the action is not enabled and
nothing is assumed. Sarathi's `FairSpec` is weak fairness of the run thread.

## 5. The proofs

* `BlockSpaceManagerProofs`: `TypeCorrect`, `BlocksNeverShared`, `BlocksNeverLost`,
  `NeverOutOfMemory`, `TablesAlwaysCover` and `ManagerImplementsLedger`, for any sets of
  blocks, sequences and freeing threads.
  `NoDoubleOwner` is not inductive alone: the invariant `IInv` also describes the
  thread in the middle of a call (which blocks it has popped, what its check
  guaranteed about the free list) and says that a freeing thread and the allocating
  thread never hold the same sequence. `NeverDry` follows because other threads only
  add to the free list: the number of blocks still to pop never exceeds it.
  `TablesCoverTokens` says nothing of a sequence in a call, so `CallCovers` follows the
  call: blocks to pop, blocks in hand and blocks of the table make up the logical ones.
  In the refinement of `BlockLedger`, `EndTake`, which writes the table, is one grant or
  one extension and `BeginFree` a release; pops and returns are stutters. The ledger counts
  as available at least the blocks that are free or in the call's hand
  (`AvailableBlocks`, a sum of cardinalities of disjoint tables), and `CallTakes` says that
  a call hands over a whole prompt to a sequence without a table, one block to another.
* `CommonLemmas`: the lemmas the other modules share. What a change of status, a reset
  and a completed step do to the type, status, flag, progress and length of a sequence,
  and that a token opens at most one block (`CeilDiv`); minima, maxima, cardinalities and
  sums over finite sets; sequences used as queues. The sum is a fold of the community
  modules; what it does to a set with one more element is proved from the definition of
  the fold, and the rest by taking a smallest counterexample, a minimal set in a finite
  family (`MinimalSubset`).
* `InstanceEngineProofs`: lemmas about each shared action, in three layers.
  - `Sane` describes the engine between any two steps of the run thread: the lists are
    disjoint (`Apart`), the schedule under construction has the shape of its phase
    (`Building`), a sequence has a table exactly while it runs, with all of its blocks
    but perhaps the last (`HoldersOK`), its object is in one of three states (`Ready`:
    queued, held between two steps, executing) and the maps know it (`Known`). It is
    inductive with no hypothesis about the requests. It admits the finding
    `low_priority_full`: a waiting sequence may still be held, if its preemption was not
    replayed.
  - `Replayed` excludes that: a step that preempts also schedules. It needs
    `RequestsFit`: `PromptLimit + maxTokens - 1` tokens fit into all blocks but one. Then
    a sequence that holds blocks alone finds a free one (`LoneHolder`), so the loop never
    preempts its last sequence. `Sane` and `Replayed` give `EngineAssertions`.
  - `InStep` is about the workers. A worker may be any number of messages behind, so no
    relation between its tables and the scheduler's holds at all times. What holds is a
    statement about its future: there is a history `h` (`Follows`) that starts with what
    the worker has, applies to it each message still in its inbox, passes the worker's
    assertions (`Check`) at each, and ends as a replica of the engine (`Replica`): the
    tables of the last schedule sent, the engine's objects as the step will leave them,
    the map without what has left. A step of a worker drops the first element of `h`; a
    dispatch appends one, and there all the work is: `BatchBlocks` shows that frees
    first, then prompts, then decodes, in the worker's order, end in the scheduler's
    table, and that blocks suffice at every allocation (`BatchCheck`).
    `InStep` needs requests without stop strings, because of the finding
    `low_priority_stop_string`. It gives `WorkerAssertions` and `WorkersInSync`.
* `LowPriorityProofs`: `LPTypeCorrect`, `LPExactlyOnePlace`, `LPOffloadUntouched`,
  `LPImplementsStream`, `LPBatchBounds`, `LPBlocks`, `LPChosenAdmissible` and `LPInstanceSafe`, for any requests, limits, numbers of blocks and workers that meet
  `EngineAssumption`. `LPInvariant` (types, `StepOK`, `OnePlace`) is inductive and
  proved first. `OffloadedUntouched` needs more: that a request without the scheduled
  flag is a fresh object, has no blocks, is in no batch under way and on no worker
  (`FreshObjects`, `FreshBlocks`, `FreshOnWorkers`), that what left has no flag
  (`FreshLeave`), and that whatever a step has put into a batch stays out of the
  offloaded ones until the flag is set (`ServedScheduled`).
  `LPImplementsStream` is the refinement of `RequestStream`. The lemmas about
  `ResetForRecompute`, `SetStatus` and `CompleteStep` say how each changes a length: only
  `Complete` adds a token, to a sequence of the batch, which `OnePlace` keeps apart from
  those that were reported or offloaded.
  `LPBatchBounds` needs `Budget`: while the solver's choice is being admitted, the
  decodes, the prompts admitted and what is left of the choice respect the limits
  together. That the solver charges only the tokens left while the batch counts whole
  prompts is harmless because a chosen sequence has no token processed. The decodes of
  the next step are within the token limit because each was a prompt, of one token at
  least, in a batch that was.
  `LPChosenAdmissible` (under `RequestsFit`) and `LPInstanceSafe` (under `RequestsFit` and
  `~StopStrings`) follow from `Replayed` and `InStep`, which LowPriority's own steps
  preserve.
* `HighPriorityProofs`: `HPTypeCorrect`, `HPExactlyOnePlace`, `HPRefinesStream`,
  `HPOldestStays`, `HPBatchBounds`, `HPBlocks`, `HPPromptsAlone` and `HPInstanceSafe`, from
  the same lemmas. `HPOnePlace` needs `HPStepOK`: what a step preempted is waiting, its
  batch is running or kept, and what it ignored has that status; otherwise the reset of
  a preempted sequence could bring an ignored one back. `HPOldestStays` is the action
  property `OldestNotPreempted`: the decode loop keeps a prefix of the sorted list
  (`KeptOldest`), so that when the victim is the head itself, nothing else, or something
  older, holds blocks.
  `HPBatchBounds` is inductive with `HPInvariant`, once a sum over a smaller set of
  prompts is known to be smaller. `HPPromptsAlone` (under `RequestsFit`) needs `Unmixed`:
  no decode is scheduled in the prefill loop, because a waiting sequence has its prompt
  still to process. `HPBlocks` and `HPInstanceSafe` are as on the low-priority side.
* `SarathiProofs`: `SarathiOneHolder` and `SarathiRefinesStream`. The invariant
  `SarathiInv` adds to `OneHolder` what the schedule promises before it is sent
  (`Promised`): a scheduled sequence has blocks for all of its tokens, a prompt under way
  does too, and a sequence that a step both preempted and keeps was admitted again.
  Neither theorem depends on how long a chunk is. That is the subject of `BatchInv`, which
  gives `SarathiBatchFits` (`BatchWithinChunk`) and `SarathiPrefillsGoOn`
  (`PrefillsProgress`). Its core is a fact about successive batches: a prompt that is cut
  short takes the rest of the budget (`OneShort`), so at most one prompt is partly
  processed when a step begins (`OnePartial`), and as each sequence of a batch has a token
  in it, the next step has a token for each (`Budget`). The delicate case is a partly
  processed prompt that one step preempts and admits again: its chunk is cut to what was
  left before the reset, so it may stay short in a batch with room; but whatever waits
  behind it was preempted before it and is done with its prompt (`NoneBehind`), so no
  second prompt is cut in that batch. `SarathiTypes` adds `CacheBounds`, that free blocks
  never go below zero. `SarathiReplays` is `ReplayInSync`: `SyncInv` says at every point of
  the schedule which blocks the worker will have for each sequence once it replays what is
  in the step so far (`Expected`), and that these are the scheduler's. It needs
  `SarathiRequestsFit`, the counterpart of `RequestsFit`, so that a step that preempts also
  schedules (`Lengths`): the preemption of a sequence that alone fills the cache would be
  in an empty batch, which is never sent, and its blocks would stay on the worker.
* `PaceClusterProofs`: for any requests, any window and any numbers of instances.
  `ThreadsTypeCorrect` is the type of the threads. `QueueNeverPoppedEmpty` follows from
  an invariant about every place of the schedule thread between its loop test and its
  pop: the polling thread only adds to the queue. `CompletionsReachController` is
  `NoIdLost`; it needs `IdsTracked`: what a report has copied, and what an instance still
  has to report, are of its outputs, and a report is empty unless the completion thread
  is waiting for it. `NothingLostOrServedTwice` is `OneCopy`. Each step that moves requests is
  described once, as `Moves(M, Src, d)` - the requests M leave the sites Src for the site
  d, and nothing else changes - and one lemma concludes that they are still in one
  place. What `OneCopy` does not say itself is `HandsFree`: that a thread's hands are empty
  when it reaches for more (`putting`, the answer of a call, the outputs of a step), that
  sequences are only sent to high-priority instances, and that what may be offloaded is in
  the engine. `StopsAfterWindow` is `WindowFinished`, by `CountsSound`: a report counts
  outputs that exist, so the total of one round is at most the number of finished
  requests, and the completion thread decides on that total or on the identifiers.
  `ClusterTypeCorrect` adds the bound on that total to the type.
* `DistServeProofs`: `DSTypeCorrect`, `DSHandedOverOnce`, `DSCacheOnOneSide`,
  `DSPrefillAssertions` and `DSInsertsFit`, for any requests, sizes of the two caches,
  limits and numbers of transfer and swap threads, with no hypothesis.
  `HandedOverOnce` and `CacheOnOneSide` are one invariant, `DSInv`, because a thread takes
  a request out of a queue only if the state of its cache is what the next place needs.
  For each place a request can be in, `At` says that it is there and nowhere else, and
  `CacheAt` what follows for its tokens, its blocks on both instances and its call: on the
  prefill side and on its way it has at most one token, and its blocks are the prefill
  scheduler's and workers'; once its call has read the cache, neither has them for long
  (`Answering`); on the decode side only the decode instance does. `Placed` says that a
  request has one such place. The rest is shape: what the run threads keep between the
  actions of one step (`PrefillShape`, `DecodeShape`), and that a thread holds one request
  exactly in the middle of an insertion or after its failure (`HandsShape`). Every action
  moves a request from one place to another, and the others keep theirs (`Untouched`,
  `FreshKept`, `CacheKept`).
  `DSTypeCorrect` adds `Tokens`: a request that goes on has fewer tokens than `maxTokens`.
  `DSPrefillAssertions` adds `PrefillRoom`: while a batch is under way the scheduler's
  tables leave the watermark free. The workers hold at most as many blocks for each
  request as the scheduler (`WorkersHoldLess`), which is where the order in
  `transfer_kv_cache` matters: it frees the workers' blocks before the scheduler's.
  `DSInsertsFit` adds `DecodeRoom`. The workers lag behind the scheduler's tables by what
  the step under way has preempted and scheduled, so the room that counts is that of
  `Promised`: for those sequences what the workers have, for all others what the scheduler
  has, an admitted cache that is not inserted yet included. `Agrees` relates the two tables
  in each place. It is claimed, as in the property, only while no preemption was lost
  (`Unreplayed` is empty); `UnreplayedGrows` shows that a lost preemption stays lost, since
  the swap-in thread never brings a request back, so that if there is none now there was
  none before. The run `distserve_preempted` shows that the premise is not idle.

The proofs assume only the named assumptions of the modules (`BlockSizeAssumption` of
`InstanceEngine` and `SarathiEngine`, `SarathiAssumption`, `EngineAssumption`,
`ClusterAssumption`, `DistServeAssumption`, those of `BlockSpaceManager`), which TLC evaluates in the runs. `EngineAssumption` contains
`BatchFitsLimit`, which `get_max_num_batched_tokens` of each PACE configuration ensures
(`config.py:223-226,255-258,283-286,306-309`). `DistServeAssumption` bounds
`MaxBatchedTokens` by the tokens of either cache, as the engine refuses to start with a
cache smaller than `max_model_len` (`base_llm_engine.py:247-256`, `config.py:341-344,358-361`);
its proofs do not use that. Four theorems have a hypothesis in their
statement, `RequestsFit` or `RequestsFit` and `~StopStrings`: section 6 shows a run where
each fails without it, and the passing runs satisfy both, as do any requests that fit into
the cache beside a free block. `SarathiReplays` has `SarathiRequestsFit`. The run `sarathi`
does not satisfy it, because its prompt limit is the whole cache, though none of its steps
preempts without scheduling. The hypothesis is not idle: with a single prompt of three
tokens and a cache of two blocks of two, TLC finds `ReplayInSync` violated.

Every safety invariant, action property and refinement of the passing runs is stated by a
theorem. Only model-checked are the liveness properties, because ENABLED and fairness are
out of the prover's reach: `EveryRequestLeaves`, `HPEveryRequestEnds`,
`SarathiEveryRequestEnds`, `EveryRequestEnds` and `RunEnds`.

## 6. Where the code and its words disagree

* `low_priority_full`: a sequence that fills the cache alone is preempted by a step
  that then schedules nothing. `step` returns early (`base_llm_engine.py:422`), and
  neither the engine's sequence manager nor the workers hear of the preemption: the
  workers keep its blocks and its status stays PAUSED. It is then chosen by the solver
  with no token left to prefill and `assert next_num_prefill_tokens != 0` fails.
* `low_priority_stop_string`: the engine ends a sequence whose text ends with a stop
  string; the workers, whose `output_text` is never filled, do not, and keep its
  blocks. The clone of the block manager is no longer in sync.
* `low_priority_tokens`: `reset_for_recompute` moves the generated tokens into the
  prompt and restarts the output, so `max_tokens`, "maximum number of tokens to
  generate per output sequence", is counted anew after each preemption.
* `high_priority_ignored`: a prompt over the limit that is ignored by a step which
  schedules nothing is removed from every list and never reported.
* `distserve_preempted`: a decode step whose only sequence preempts itself has an empty
  batch and returns early, as in `low_priority_full`. The workers never free its blocks;
  the next step that schedules something clears `preemption_this_step`, the flag that is
  to keep new caches from being inserted before the workers have freed theirs.

Three more defects are part of the `DistServe` model and are named in `Stuck`: the swap-in
thread always ends with an exception, so a swapped request never returns; two transfer
threads that test `qsize()` for one element leave one of them blocked in `get()`, with
the calls it has started; `transfer_kv_cache` raises for a request that ended with its
first token.

## 7. Not modelled, and the plan

Not modelled, because it cannot run at this commit:

* `OrcaScheduler`, `FasterTransformerScheduler` and `SimpleChunkingScheduler` return a
  `SchedulerOutputs` where `BaseScheduler.schedule` unpacks a pair;
  `DistserveScheduler.__init__` raises; `NiyamaScheduler` computes with
  `_last_token_generated_at` of every running sequence, which is None for a prompt that
  is partly processed.
* The async engine calls `engine.step(False)`, an argument no engine takes: its loop
  raises at the first step. `RequestTracker` and `AsyncStream` would have nothing to
  stream.
* The pipeline-parallel engine and worker: their calls do not match the signatures of
  the classes they extend.

Not modelled, because there is no state to get wrong beyond what is modelled: the mix
instance and the round-robin controller (an instance without offloading, a pop and a
call), replica start-up, metrics, configuration, warm-up and profiling. Not modelled,
because it is arithmetic TLC and TLAPS have no use for: value functions and regression
models (floating point; the models leave the orders they induce open), model executor,
layers and kernels, which are most of the source lines. `NonPreemptiveSolver.solve` is
modelled by the selections its three budgets allow, as its values are floating point.

What would add most next:

1. Sarathi's dynamic chunk schedule, and pipeline stages if that engine is repaired.
