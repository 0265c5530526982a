----------------------------- MODULE DistServe ------------------------------
(***************************************************************************)
(* The disaggregated configuration: a prefill instance computes the prompt *)
(* and one token, a decode instance fetches the KV cache and generates the *)
(* rest (disutil/prefill_instance.py, decode_instance.py, their schedulers *)
(* and engines, and the KV calls of worker/base_worker.py).  On the decode *)
(* instance the run thread schedules on the engine's block tables while    *)
(* transfer and swap threads fill the worker's clone of them.              *)
(*                                                                         *)
(* A request is named by its rank in the order of arrival_time.  Only      *)
(* block counts and token counts are kept; the tensor-parallel ranks of an *)
(* instance do the same and answer together, so one stands for them.       *)
(***************************************************************************)
EXTENDS SequenceObject, Sequences, FiniteSetsExt, Functions

CONSTANTS
  BlockSize,        \* tokens per KV-cache block
  Requests,         \* the requests, ranked by arrival time
  Shapes,           \* the request parameters [prompt, maxTokens] clients send
  PrefillBlocks,    \* num_gpu_blocks of the prefill instance
  DecodeBlocks,     \* num_gpu_blocks of the decode instance
  WatermarkBlocks,  \* int(0.01 * num_gpu_blocks)
  MaxNumSeqs,       \* scheduler_config.max_num_seqs
  MaxBatchedTokens, \* max_num_batched_tokens, which is also prompt_limit
  TransferThreads,  \* the threads of _kv_cache_insertion (4)
  SwapThreads,      \* the threads of _preempted_kv_insertion (4)
  MayStop           \* whether a sampled token may be the end of sequence

ASSUME DistServeAssumption ==
  /\ BlockSize \in Nat \ {0}
  /\ Requests \subseteq Nat /\ IsFiniteSet(Requests)
  /\ Shapes \subseteq [prompt : Nat \ {0}, maxTokens : Nat \ {0}]
  /\ PrefillBlocks \in Nat \ {0} /\ DecodeBlocks \in Nat \ {0}
  /\ WatermarkBlocks \in Nat
  /\ MaxNumSeqs \in Nat \ {0}
  /\ MaxBatchedTokens \in 1..(BlockSize * Min({PrefillBlocks, DecodeBlocks}))
  /\ TransferThreads \cap SwapThreads = {}
  /\ MayStop \in BOOLEAN

VARIABLES
  shape,        \* the parameters of each request, fixed
  arrived,      \* the requests given to the prefill instance
  gen,          \* tokens generated for each request
  ended,        \* the requests whose last token was generated
  pwaiting,     \* the prefill scheduler's waiting
  pmap,         \* the keys of the prefill engine's seq_map
  ptable,       \* the prefill scheduler's block_tables: blocks per request
  pworker,      \* the prefill workers' block_tables
  pphase,       \* where the prefill run thread is
  pstep,        \* the locals of its schedule
  metas,        \* add_kvc_metadata calls under way
  rpc,          \* the transfer_kv_cache call for each request
  kvmetaQueue,  \* kvmeta_queue
  transferQueue, \* pending_kv_transfer
  insertQueue,  \* pending_kv_insert
  pendingDecode, \* pending_decode
  running,      \* the decode scheduler's running
  preemptedSeqs, \* decode_prempted_seqs
  preemption,   \* preemption_this_step
  dmap,         \* the keys of the decode engine's seq_map
  dtable,       \* the decode scheduler's block_tables
  dphase,       \* where the decode run thread is
  dstep,        \* the locals of its schedule
  dworker,      \* the decode workers' block_tables, which have the keys of their seq_map
  pc,           \* where each transfer or swap thread is
  refs,         \* pending_refs of each transfer thread
  cur           \* the request a thread is inserting, as a set of at most one

prefillVars == <<arrived, pwaiting, pphase, pstep, metas>>
prefillCache == <<pmap, ptable, pworker>>
queueVars == <<kvmetaQueue, transferQueue, insertQueue, pendingDecode>>
decodeVars == <<running, preemptedSeqs, preemption, dtable, dphase, dstep>>
threadVars == <<pc, refs, cur>>
tokenVars == <<shape, gen, ended>>
vars == <<tokenVars, prefillVars, prefillCache, rpc, queueVars, decodeVars,
          dmap, dworker, threadVars>>

Threads == TransferThreads \cup SwapThreads

(* The ways a thread ends: transfer_kv_cache raised KeyError; the worker   *)
(* had too few blocks, or ran out of them; the swap-in assertion, which    *)
(* adds KVStatus objects, raised.                                          *)
Dead == {"keyerror", "refused", "dry", "typeerror"}

NoPrefill == [batch |-> {}, ignored |-> {}]
NoDecode == [kept |-> {}, decodes |-> {}, preempted |-> {}, stop |-> {}]

Length(s) == shape[s].prompt + gen[s]
Blocks(s) == CeilDiv(Length(s), BlockSize)
Used(t) == SumFunctionOnSet(t, Requests)

(* Mutant: a token too many.                                               *)
EndsLate(s, stop) == gen[s] = shape[s].maxTokens \/ s \in stop

(* check_stop: the count restarts at a preemption, but max_tokens is       *)
(* lowered by the tokens generated before, so their sum decides.           *)
Ends(s, stop) == gen[s] + 1 = shape[s].maxTokens \/ s \in stop

Stops(S) == IF MayStop THEN SUBSET S ELSE {{}}

Init ==
  /\ shape \in [Requests -> Shapes]
  /\ gen = [s \in Requests |-> 0]
  /\ arrived = {} /\ ended = {} /\ pwaiting = {} /\ metas = {}
  /\ pmap = {} /\ dmap = {} /\ running = {} /\ pendingDecode = {}
  /\ ptable = [s \in Requests |-> 0] /\ pworker = ptable
  /\ dtable = ptable /\ dworker = ptable
  /\ pphase = "idle" /\ pstep = NoPrefill
  /\ dphase = "idle" /\ dstep = NoDecode
  /\ rpc = [s \in Requests |-> "none"]
  /\ kvmetaQueue = <<>> /\ transferQueue = <<>> /\ insertQueue = <<>>
  /\ preemptedSeqs = <<>> /\ preemption = FALSE
  /\ pc = [t \in Threads |-> "test"]
  /\ refs = [t \in TransferThreads |-> {}]
  /\ cur = [t \in Threads |-> {}]

-----------------------------------------------------------------------------
(* The prefill instance: its run thread, and the transfer_kv_cache RPC.    *)

PrefillFrame == UNCHANGED <<rpc, queueVars, decodeVars, dmap, dworker, threadVars>>

(* Requests are added between steps, and stamped with their arrival time.  *)
AddRequest(s) ==
  /\ pphase = "idle"
  /\ arrived = {r \in Requests : r < s}
  /\ arrived' = arrived \cup {s}
  /\ pwaiting' = pwaiting \cup {s}
  /\ pmap' = pmap \cup {s}
  /\ UNCHANGED <<tokenVars, pphase, pstep, metas, ptable, pworker>> /\ PrefillFrame

TooLong(s) == shape[s].prompt > MaxBatchedTokens

PrefillFits(s) ==
  /\ PrefillBlocks - Used(ptable) - Blocks(s) >= WatermarkBlocks
  /\ SumFunctionOnSet([r \in Requests |-> Length(r)], pstep.batch \cup {s}) <= MaxBatchedTokens

(* One turn of the loop over waiting: a prompt that is too long is ignored, *)
(* else allocated.  A prefilled sequence never enters running, so the test *)
(* of max_num_seqs, on running, never fails.                               *)
PrefillTake ==
  /\ pphase \in {"idle", "schedule"} /\ pwaiting # {}
  /\ LET s == Min(pwaiting)
     IN  \/ /\ TooLong(s)
            /\ pstep' = [pstep EXCEPT !.ignored = @ \cup {s}]
            /\ UNCHANGED ptable
         \/ /\ ~TooLong(s) /\ PrefillFits(s)
            /\ pstep' = [pstep EXCEPT !.batch = @ \cup {s}]
            /\ ptable' = [ptable EXCEPT ![s] = Blocks(s)]
  /\ pwaiting' = pwaiting \ {Min(pwaiting)}
  /\ pphase' = "schedule"
  /\ UNCHANGED <<tokenVars, arrived, metas, pmap, pworker>> /\ PrefillFrame

(* A step that only ignored prompts returns before they leave seq_map.     *)
PrefillSchedule ==
  /\ pphase = "schedule"
  /\ \A s \in pwaiting : s = Min(pwaiting) => ~TooLong(s) /\ ~PrefillFits(s)
  /\ pphase' = IF pstep.batch = {} THEN "idle" ELSE "execute"
  /\ pstep' = IF pstep.batch = {} THEN NoPrefill ELSE pstep
  /\ UNCHANGED <<tokenVars, arrived, pwaiting, metas, prefillCache>> /\ PrefillFrame

(* `assert can_allocate' of the workers, which may still hold the blocks   *)
(* of sequences whose transfer is under way.                               *)
WorkersFit ==
  LET needed == SumFunctionOnSet([s \in Requests |-> Blocks(s)], pstep.batch)
  IN  PrefillBlocks - Used(pworker) - needed >= WatermarkBlocks

(* The workers allocate, compute the prompts, and free what has ended.     *)
PrefillExecute(stop) ==
  LET over == {s \in pstep.batch : Ends(s, stop)}
  IN  /\ pphase = "execute"
      /\ WorkersFit
      /\ pworker' = [s \in Requests |-> IF s \in pstep.batch \ over THEN Blocks(s) ELSE pworker[s]]
      /\ gen' = [s \in Requests |-> IF s \in pstep.batch THEN 1 ELSE gen[s]]
      /\ ended' = ended \cup over
      /\ pphase' = "complete"
      /\ UNCHANGED <<shape, arrived, pwaiting, pstep, metas, pmap, ptable>> /\ PrefillFrame

(* _on_step_completed and _on_step_complete.  The metadata of a sequence   *)
(* that ended with its first token is sent too, although it has left       *)
(* seq_map; as it is in no running list its blocks are never freed.        *)
PrefillComplete ==
  /\ pphase = "complete"
  /\ pmap' = pmap \ (pstep.ignored \cup (pstep.batch \cap ended))
  /\ metas' = metas \cup pstep.batch
  /\ pphase' = "idle"
  /\ pstep' = NoPrefill
  /\ UNCHANGED <<tokenVars, arrived, pwaiting, ptable, pworker>> /\ PrefillFrame

RpcFrame == UNCHANGED <<tokenVars, prefillVars, queueVars, decodeVars, dmap, dworker, threadVars>>

(* Mutant: the cache is read with _get_kv_cache_nofree.                    *)
ReadNoFree(s) ==
  /\ rpc[s] = "called" /\ s \in pmap
  /\ rpc' = [rpc EXCEPT ![s] = "read"]
  /\ UNCHANGED prefillCache /\ RpcFrame

(* Mutant: the engine's blocks are freed before the workers'.              *)
ReadAfterFree(s) ==
  /\ rpc[s] = "called" /\ s \in pmap
  /\ IF ptable[s] > 0 THEN /\ ptable' = [ptable EXCEPT ![s] = 0]
                           /\ UNCHANGED <<pworker, rpc>>
                      ELSE /\ pworker' = [pworker EXCEPT ![s] = 0]
                           /\ rpc' = [rpc EXCEPT ![s] = "read"]
                           /\ UNCHANGED ptable
  /\ UNCHANGED pmap /\ RpcFrame

(* transfer_kv_cache: the workers read the cache and free it, then the     *)
(* engine frees its blocks.  An unknown sequence raises KeyError.          *)
ReadKVCache(s) ==
  /\ rpc[s] = "called"
  /\ IF s \in pmap
     THEN /\ rpc' = [rpc EXCEPT ![s] = "read"]
          /\ pworker' = [pworker EXCEPT ![s] = 0]
     ELSE /\ rpc' = [rpc EXCEPT ![s] = "error"]
          /\ UNCHANGED pworker
  /\ UNCHANGED <<pmap, ptable>> /\ RpcFrame

FreeKVCache(s) ==
  /\ rpc[s] = "read"
  /\ rpc' = [rpc EXCEPT ![s] = "answered"]
  /\ ptable' = [ptable EXCEPT ![s] = 0]
  /\ pmap' = pmap \ {s}
  /\ UNCHANGED pworker /\ RpcFrame

PrefillNext ==
  \/ PrefillTake \/ PrefillSchedule \/ PrefillComplete
  \/ \E stop \in Stops(pstep.batch) : PrefillExecute(stop)

-----------------------------------------------------------------------------
(* The run thread of the decode instance.                                  *)

DecodeFrame ==
  UNCHANGED <<shape, prefillVars, prefillCache, rpc, threadVars>>

(* add_kvc_metadata is called without waiting, so in any order.            *)
AddMetadata(s) ==
  /\ s \in metas
  /\ metas' = metas \ {s}
  /\ kvmetaQueue' = Append(kvmetaQueue, s)
  /\ UNCHANGED <<tokenVars, arrived, pwaiting, pphase, pstep, prefillCache, rpc,
                 transferQueue, insertQueue, pendingDecode, decodeVars, dmap,
                 dworker, threadVars>>

BeginStep ==
  /\ dphase = "idle"
  /\ running' = running \cup pendingDecode
  /\ pendingDecode' = {}
  /\ dphase' = "decode"
  /\ UNCHANGED <<gen, ended, kvmetaQueue, transferQueue, insertQueue, preemptedSeqs,
                 preemption, dtable, dstep, dmap, dworker>> /\ DecodeFrame

MoreDecodes == running # {} /\ Cardinality(dstep.decodes) < MaxNumSeqs

DecodeFree == DecodeBlocks - Used(dtable)

AppendSlot(held, s) == IF held < Blocks(s) THEN held + 1 ELSE held

ScheduleDecode ==
  /\ dphase = "decode" /\ MoreDecodes /\ DecodeFree > 0
  /\ LET s == Min(running)
     IN  /\ dtable' = [dtable EXCEPT ![s] = AppendSlot(@, s)]
         /\ running' = running \ {s}
         /\ dstep' = [dstep EXCEPT !.kept = @ \cup {s}, !.decodes = @ \cup {s}]
  /\ UNCHANGED <<gen, ended, queueVars, preemptedSeqs, preemption, dphase, dmap, dworker>>
  /\ DecodeFrame

(* Mutant: the victim is not noted for its return.                         *)
PreemptForgets ==
  /\ dphase = "decode" /\ MoreDecodes /\ DecodeFree <= 0
  /\ dtable' = [dtable EXCEPT ![Max(running)] = 0]
  /\ running' = running \ {Max(running)}
  /\ dstep' = [dstep EXCEPT !.preempted = @ \cup {Max(running)}]
  /\ preemption' = TRUE
  /\ UNCHANGED <<gen, ended, queueVars, preemptedSeqs, dphase, dmap, dworker>> /\ DecodeFrame

(* The newest of the list, the head itself when it is alone.               *)
Preempt ==
  /\ dphase = "decode" /\ MoreDecodes /\ DecodeFree <= 0
  /\ LET v == Max(running)
     IN  /\ dtable' = [dtable EXCEPT ![v] = 0]
         /\ running' = running \ {v}
         /\ dstep' = [dstep EXCEPT !.preempted = @ \cup {v}]
         /\ preemptedSeqs' = Append(preemptedSeqs, v)
  /\ preemption' = TRUE
  /\ UNCHANGED <<gen, ended, queueVars, dphase, dmap, dworker>> /\ DecodeFrame

DecodeFits(s) == DecodeFree - Blocks(s) >= WatermarkBlocks

(* The loop is over; what it did not reach stays in running, and the head  *)
(* of the preempted sequences gets blocks again if there are enough.       *)
EndDecodes ==
  /\ dphase = "decode" /\ ~MoreDecodes
  /\ running' = dstep.kept \cup running
  /\ dstep' = [dstep EXCEPT !.kept = {}]
  /\ dphase' = "admit"
  /\ IF preemptedSeqs # <<>> /\ ~preemption /\ DecodeFits(Head(preemptedSeqs))
     THEN LET s == Head(preemptedSeqs)
          IN  /\ dtable' = [dtable EXCEPT ![s] = Blocks(s)]
              /\ preemptedSeqs' = Tail(preemptedSeqs)
              /\ insertQueue' = Append(insertQueue, s)
     ELSE UNCHANGED <<dtable, preemptedSeqs, insertQueue>>
  /\ UNCHANGED <<gen, ended, kvmetaQueue, transferQueue, pendingDecode, preemption,
                 dmap, dworker>> /\ DecodeFrame

Admits == /\ ~preemption
          /\ kvmetaQueue # <<>> /\ DecodeFits(Head(kvmetaQueue))

AdmitMetadata ==
  /\ dphase = "admit" /\ Admits
  /\ LET s == Head(kvmetaQueue)
     IN  /\ dtable' = [dtable EXCEPT ![s] = Blocks(s)]
         /\ transferQueue' = Append(transferQueue, s)
  /\ kvmetaQueue' = Tail(kvmetaQueue)
  /\ UNCHANGED <<gen, ended, insertQueue, pendingDecode, running, preemptedSeqs, preemption,
                 dphase, dstep, dmap, dworker>> /\ DecodeFrame

(* With an empty batch step() returns at once: neither the sequence map    *)
(* nor the workers hear of the preemptions, and the flag stays set.        *)
EndEmptyStep ==
  /\ dphase = "admit" /\ ~Admits /\ dstep.decodes = {}
  /\ dphase' = "idle"
  /\ dstep' = NoDecode
  /\ UNCHANGED <<gen, ended, queueVars, running, preemptedSeqs, preemption, dtable,
                 dmap, dworker>> /\ DecodeFrame

(* on_schedule of the engine, then the step is sent.                       *)
SendStep(stop) ==
  /\ dphase = "admit" /\ ~Admits /\ dstep.decodes # {}
  /\ dmap' = dmap \ dstep.preempted
  /\ dstep' = [dstep EXCEPT !.stop = stop]
  /\ dphase' = "execute"
  /\ UNCHANGED <<gen, ended, queueVars, running, preemptedSeqs, preemption, dtable, dworker>>
  /\ DecodeFrame

(* Mutant: the workers keep the blocks of a preempted sequence.            *)
WorkerTableKeeps ==
  [s \in Requests |-> IF s \in dstep.decodes THEN AppendSlot(dworker[s], s) ELSE dworker[s]]

(* The worker's tables once the preempted sequences are freed and the      *)
(* decodes have their slots.                                               *)
WorkerTable ==
  [s \in Requests |-> IF s \in dstep.preempted THEN 0
                      ELSE IF s \in dstep.decodes THEN AppendSlot(dworker[s], s)
                      ELSE dworker[s]]

(* The allocator of the workers never runs dry.                            *)
SlotsFit == Used(WorkerTable) <= DecodeBlocks

Over == {s \in dstep.decodes : Ends(s, dstep.stop)}

ExecuteDecodes ==
  /\ dphase = "execute"
  /\ SlotsFit
  /\ dworker' = [s \in Requests |-> IF s \in Over THEN 0 ELSE WorkerTable[s]]
  /\ dphase' = "complete"
  /\ UNCHANGED <<gen, ended, queueVars, running, preemptedSeqs, preemption, dtable, dstep, dmap>>
  /\ DecodeFrame

(* The answer has come: the flag is cleared and the step completed.        *)
CompleteDecodes ==
  /\ dphase = "complete"
  /\ gen' = [s \in Requests |-> IF s \in dstep.decodes THEN gen[s] + 1 ELSE gen[s]]
  /\ ended' = ended \cup Over
  /\ dmap' = dmap \ Over
  /\ running' = running \ Over
  /\ dtable' = [s \in Requests |-> IF s \in Over THEN 0 ELSE dtable[s]]
  /\ preemption' = FALSE
  /\ dphase' = "idle"
  /\ dstep' = NoDecode
  /\ UNCHANGED <<queueVars, preemptedSeqs, dworker>> /\ DecodeFrame

DecodeNext ==
  \/ BeginStep \/ ScheduleDecode \/ Preempt \/ EndDecodes \/ AdmitMetadata
  \/ EndEmptyStep \/ \E stop \in Stops(dstep.decodes) : SendStep(stop)
  \/ ExecuteDecodes \/ CompleteDecodes

-----------------------------------------------------------------------------
(* The threads that fill the worker's cache.                               *)

ThreadFrame == UNCHANGED <<tokenVars, prefillVars, prefillCache, decodeVars>>

(* qsize() > 0 leads to a blocking get(), whoever takes the element first; *)
(* with an empty queue the thread waits for one of its calls.              *)
TestQueue(t) ==
  /\ pc[t] = "test"
  /\ \/ transferQueue # <<>> /\ pc' = [pc EXCEPT ![t] = "get"]
     \/ transferQueue = <<>> /\ refs[t] # {} /\ pc' = [pc EXCEPT ![t] = "wait"]
  /\ UNCHANGED <<rpc, queueVars, dmap, dworker, refs, cur>> /\ ThreadFrame

GetMetadata(t) ==
  /\ pc[t] = "get" /\ transferQueue # <<>>
  /\ LET s == Head(transferQueue)
     IN  /\ s \notin dmap
         /\ dmap' = dmap \cup {s}
         /\ rpc' = [rpc EXCEPT ![s] = "called"]
         /\ refs' = [refs EXCEPT ![t] = @ \cup {s}]
  /\ transferQueue' = Tail(transferQueue)
  /\ pc' = [pc EXCEPT ![t] = "test"]
  /\ UNCHANGED <<kvmetaQueue, insertQueue, pendingDecode, dworker, cur>> /\ ThreadFrame

WaitReady(t, s) ==
  /\ pc[t] = "wait" /\ s \in refs[t]
  /\ \/ rpc[s] = "answered" /\ pc' = [pc EXCEPT ![t] = "insert"]
     \/ rpc[s] = "error" /\ pc' = [pc EXCEPT ![t] = "keyerror"]
  /\ refs' = [refs EXCEPT ![t] = @ \ {s}]
  /\ cur' = [cur EXCEPT ![t] = {s}]
  /\ UNCHANGED <<rpc, queueVars, dmap, dworker>> /\ ThreadFrame

GetPreempted(t) ==
  /\ pc[t] = "test" /\ insertQueue # <<>>
  /\ cur' = [cur EXCEPT ![t] = {Head(insertQueue)}]
  /\ insertQueue' = Tail(insertQueue)
  /\ pc' = [pc EXCEPT ![t] = "insert"]
  /\ UNCHANGED <<rpc, kvmetaQueue, transferQueue, pendingDecode, dmap, dworker, refs>>
  /\ ThreadFrame

HasRoom(s) == DecodeBlocks - Used(dworker) >= Blocks(s)

(* _insert_kv_cache on the workers: the blocks are checked, without a      *)
(* watermark, and allocated by another call; the sequence must be new to   *)
(* the workers.                                                            *)
CheckRoom(t) ==
  /\ pc[t] = "insert"
  /\ \E s \in cur[t] :
       pc' = [pc EXCEPT ![t] = IF HasRoom(s) /\ dworker[s] = 0 THEN "allocate" ELSE "refused"]
  /\ UNCHANGED <<rpc, queueVars, dmap, dworker, refs, cur>> /\ ThreadFrame

(* The blocks a call pops until the free list is empty.                    *)
Popped(s) == Min({Blocks(s), DecodeBlocks - Used(dworker)})

(* Mutant: the inserted sequence is not queued.                            *)
QueueNothing(s) == UNCHANGED pendingDecode

QueueDecode(s) == pendingDecode' = pendingDecode \cup {s}

InsertKVCache(t) ==
  /\ t \in TransferThreads /\ pc[t] = "allocate"
  /\ \E s \in cur[t] :
       /\ dworker' = [dworker EXCEPT ![s] = Popped(s)]
       /\ rpc' = [rpc EXCEPT ![s] = "inserted"]
       /\ IF HasRoom(s)
          THEN /\ QueueDecode(s)
               /\ pc' = [pc EXCEPT ![t] = "test"]
               /\ cur' = [cur EXCEPT ![t] = {}]
          ELSE /\ pc' = [pc EXCEPT ![t] = "dry"]
               /\ UNCHANGED <<pendingDecode, cur>>
  /\ UNCHANGED <<kvmetaQueue, transferQueue, insertQueue, dmap, refs>> /\ ThreadFrame

(* The swapped sequence is on the workers again, but the assertion on the  *)
(* results raises before it is added to seq_map and to pending_decode.     *)
SwapIn(t) ==
  /\ t \in SwapThreads /\ pc[t] = "allocate"
  /\ \E s \in cur[t] : dworker' = [dworker EXCEPT ![s] = Popped(s)]
  /\ pc' = [pc EXCEPT ![t] = "typeerror"]
  /\ UNCHANGED <<rpc, queueVars, dmap, refs, cur>> /\ ThreadFrame

ThreadNext(t) ==
  \/ t \in TransferThreads /\ (TestQueue(t) \/ GetMetadata(t) \/ \E s \in refs[t] : WaitReady(t, s))
  \/ t \in SwapThreads /\ GetPreempted(t)
  \/ CheckRoom(t) \/ InsertKVCache(t) \/ SwapIn(t)

Next ==
  \/ \E s \in Requests : AddRequest(s) \/ ReadKVCache(s) \/ FreeKVCache(s) \/ AddMetadata(s)
  \/ PrefillNext \/ DecodeNext
  \/ \E t \in Threads : ThreadNext(t)

Spec == Init /\ [][Next]_vars

-----------------------------------------------------------------------------
(* Properties.                                                             *)

DSTypeOK ==
  /\ shape \in [Requests -> Shapes]
  /\ gen \in [Requests -> Nat] /\ \A s \in Requests : gen[s] <= shape[s].maxTokens
  /\ arrived \subseteq Requests /\ ended \subseteq arrived
  /\ pwaiting \subseteq arrived /\ metas \subseteq arrived
  /\ pmap \subseteq arrived /\ dmap \subseteq arrived
  /\ running \subseteq dmap /\ pendingDecode \subseteq dmap
  /\ {ptable, pworker, dtable, dworker} \subseteq [Requests -> Nat]
  /\ pphase \in {"idle", "schedule", "execute", "complete"}
  /\ pstep \in [batch : SUBSET arrived, ignored : SUBSET arrived]
  /\ dphase \in {"idle", "decode", "admit", "execute", "complete"}
  /\ dstep \in [kept : SUBSET dmap, decodes : SUBSET dmap,
                preempted : SUBSET arrived, stop : SUBSET dmap]
  /\ rpc \in [Requests -> {"none", "called", "read", "answered", "error", "inserted"}]
  /\ {kvmetaQueue, transferQueue, insertQueue, preemptedSeqs} \subseteq Seq(arrived)
  /\ preemption \in BOOLEAN
  /\ pc \in [Threads -> {"test", "get", "wait", "insert", "allocate"} \cup Dead]
  /\ refs \in [TransferThreads -> SUBSET arrived]
  /\ cur \in [Threads -> SUBSET arrived]

(* The cache of s is in preempt_seq_kv, and of no use to the scheduler.     *)
SwappedOut(s) ==
  \/ s \in Range(preemptedSeqs) \cup Range(insertQueue)
  \/ \E t \in SwapThreads : s \in cur[t]

(* `assert can_allocate' holds on the prefill workers although            *)
(* transfer_kv_cache frees blocks from other threads in the middle of a    *)
(* step: the workers' blocks are returned before the scheduler's           *)
(* (prefill_instance.py:96-107, worker_sequence_manager.py:55-58).         *)
PrefillAssertions == pphase = "execute" => WorkersFit

(* Where a request can be: in a list or a queue of an instance, in a call  *)
(* under way, or in the hands of a thread.                                 *)
Sites ==
  ({"waiting", "batch", "metas"} \X {"prefill"})
    \cup ({"kvmeta", "transfer", "insert", "preempted", "pending", "running", "kept"} \X {"decode"})
    \cup ({"refs"} \X TransferThreads) \cup ({"cur"} \X Threads)

(* The request is in place p of o.                                         *)
Holds(s, p, o) ==
  \/ p = "waiting" /\ s \in pwaiting
  \/ p = "batch" /\ s \in pstep.batch
  \/ p = "metas" /\ s \in metas
  \/ p = "kvmeta" /\ s \in Range(kvmetaQueue)
  \/ p = "transfer" /\ s \in Range(transferQueue)
  \/ p = "insert" /\ s \in Range(insertQueue)
  \/ p = "preempted" /\ s \in Range(preemptedSeqs)
  \/ p = "pending" /\ s \in pendingDecode
  \/ p = "running" /\ s \in running
  \/ p = "kept" /\ s \in dstep.kept
  \/ p = "refs" /\ s \in refs[o]
  \/ p = "cur" /\ s \in cur[o]

Whereabouts(s) == {x \in Sites : Holds(s, x[1], x[2])}

(* A request leaves when it is refused, or with its last token; one that   *)
(* ends with its first token is handed over all the same.                  *)
HasLeft(s) == (TooLong(s) /\ s \notin pwaiting) \/ (s \in ended /\ gen[s] > 1)

NothingTwice ==
  /\ IsInjective(kvmetaQueue) /\ IsInjective(transferQueue)
  /\ IsInjective(insertQueue) /\ IsInjective(preemptedSeqs)

(* A request is in exactly one queue, list or pair of hands between its    *)
(* arrival at the prefill instance and its last token: the four queues of  *)
(* the decode instance and the threads between them neither lose nor       *)
(* duplicate it, whatever their order (decode_scheduler.py:76-158,         *)
(* decode_instance.py:156-192).                                            *)
HandedOverOnce ==
  /\ NothingTwice
  /\ \A s \in arrived :
       IF HasLeft(s) THEN Whereabouts(s) = {}
                     ELSE \E x \in Whereabouts(s) : Whereabouts(s) = {x}

(* The places where the cache of s is: on the prefill workers, in the      *)
(* answer of transfer_kv_cache, on the decode instance (its workers, or    *)
(* the copy in preempt_seq_kv).                                            *)
Sides(s) ==
  {x \in {"prefill", "answer", "decode"} :
     \/ x = "prefill" /\ pworker[s] > 0
     \/ x = "answer" /\ rpc[s] \in {"read", "answered"}
     \/ x = "decode" /\ (dworker[s] > 0 \/ SwappedOut(s))}

(* The cache of a request that has tokens to come exists on exactly one    *)
(* side; and once the request has ended no worker holds blocks for it, and *)
(* no scheduler either unless it ended with its first token                *)
(* (prefill_instance.py:96-107, base_worker.py:236-281).                   *)
CacheOnOneSide ==
  \A s \in Requests :
    /\ gen[s] > 0 /\ s \notin ended /\ ~(dphase = "complete" /\ s \in Over)
       /\ (\A t \in Threads : pc[t] = "dry" => s \notin cur[t]) =>
         \E x \in Sides(s) : Sides(s) = {x}
    /\ s \in ended =>
         /\ pworker[s] = 0 /\ dworker[s] = 0
         /\ gen[s] > 1 => ptable[s] = 0 /\ dtable[s] = 0

(* A preemption the workers have not heard of, and are not about to.       *)
Unreplayed == {s \in dmap \ dstep.preempted : SwappedOut(s)}

(* Blocks the scheduler promised are there when a transfer thread inserts  *)
(* a cache or the workers append a slot, although the threads, the run     *)
(* thread and the workers each work on their own count: what               *)
(* preemption_this_step is for (decode_scheduler.py:51-54,147).            *)
InsertsFit ==
  /\ \A t \in TransferThreads : pc[t] \notin {"refused", "dry"}
  /\ dphase = "execute" => SlotsFit

(* The same, as long as every preemption reached the workers; and they     *)
(* agree with the scheduler about every sequence it may execute.           *)
InsertsFitIfReplayed ==
  Unreplayed = {} =>
    /\ InsertsFit
    /\ dphase = "idle" => \A s \in running \cup pendingDecode : dworker[s] = dtable[s]

DSFairness ==
  /\ WF_vars(PrefillNext) /\ WF_vars(DecodeNext)
  /\ \A s \in Requests : WF_vars(ReadKVCache(s) \/ FreeKVCache(s) \/ AddMetadata(s))
  /\ \A t \in Threads : WF_vars(ThreadNext(t))

DSFairSpec == Spec /\ DSFairness

(* What keeps a request from ending: it was swapped out; its thread ended; *)
(* its thread blocks in get() on a queue that another thread has emptied   *)
(* meanwhile, and does not wait for the calls it has made.                 *)
Stuck(s) ==
  \/ SwappedOut(s)
  \/ \E t \in TransferThreads :
       /\ s \in refs[t] \cup cur[t]
       /\ pc[t] \in Dead \/ (pc[t] = "get" /\ transferQueue = <<>>)

(* Every request ends, unless one of these happens to some request         *)
(* (decode_instance.py:156-192).                                           *)
EveryRequestEnds ==
  \A s \in Requests :
    s \in arrived ~> s \in ended \/ TooLong(s) \/ \E r \in Requests : Stuck(r)
=============================================================================
