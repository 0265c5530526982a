--------------------------- MODULE InstanceEngine ---------------------------
(***************************************************************************)
(* One serving instance: the engine's step (engine/base_llm_engine.py),    *)
(* the part of the scheduler every PACE instance shares                    *)
(* (core/scheduler/base_scheduler.py), the engine's sequence manager, and  *)
(* the workers that replay the scheduler's decisions on their own clone of *)
(* the block manager (core/sequence_manager/worker_sequence_manager.py,    *)
(* worker/base_worker.py).  LowPriorityEngine and HighPriorityEngine       *)
(* extend this module with the scheduling policy of their instance.        *)
(*                                                                         *)
(* A request is named by a natural number that is also its rank in the     *)
(* order of arrival_time, the FCFS priority of core/policy.py; so the      *)
(* running list, sorted by every schedule, is the set of its members.      *)
(***************************************************************************)
EXTENDS SequenceObject, Sequences, FiniteSetsExt, Functions

CONSTANTS
  BlockSize,        \* tokens per KV-cache block
  Seqs,             \* the requests, ranked by arrival time
  Shapes,           \* the request parameters [prompt, maxTokens] clients send
  NumBlocks,        \* cache_config.num_gpu_blocks
  WatermarkBlocks,  \* int(0.01 * num_gpu_blocks)
  MaxNumSeqs,       \* scheduler_config.max_num_seqs
  MaxBatchedTokens, \* scheduler.max_num_batched_tokens
  PromptLimit,      \* scheduler.prompt_limit
  DropRequests,     \* scheduler_config.allow_drop_requests
  MayStop,          \* whether a sampled token may be the end of sequence
  StopStrings,      \* whether clients give stop strings
  Workers,          \* the tensor-parallel ranks
  RankZero          \* the rank that answers the engine

(* What _init_cache insists on before the instance starts: the cache holds *)
(* one request of the maximum length; and get_max_num_batched_tokens of    *)
(* the three PACE configurations is at most max_model_len.                 *)
CacheFitsLimit == PromptLimit \in 1..(NumBlocks * BlockSize)
BatchFitsLimit == MaxBatchedTokens <= PromptLimit

ASSUME BlockSizeAssumption == BlockSize \in Nat \ {0}

ASSUME EngineAssumption ==
  /\ Seqs \subseteq Nat /\ IsFiniteSet(Seqs)
  /\ Shapes \subseteq [prompt : Nat \ {0}, maxTokens : Nat \ {0}]
  /\ NumBlocks \in Nat \ {0}
  /\ WatermarkBlocks \in Nat
  /\ MaxNumSeqs \in Nat \ {0}
  /\ MaxBatchedTokens \in Nat \ {0}
  /\ CacheFitsLimit /\ BatchFitsLimit
  /\ DropRequests \in BOOLEAN
  /\ MayStop \in BOOLEAN
  /\ StopStrings \in BOOLEAN
  /\ RankZero \in Workers

LogicalBlocks(o) == CeilDiv(GetLen(o), BlockSize)

VARIABLES
  shape,     \* the parameters of each request, fixed
  arrived,   \* the requests given to this instance so far
  seq,       \* the engine's Sequence objects
  seqMap,    \* the keys of the engine's seq_manager.seq_map
  newSeqs,   \* engine.new_seqs: deep copies not yet sent to the workers
  waiting,   \* scheduler.waiting
  running,   \* scheduler.running
  table,     \* the scheduler's block_tables: number of blocks per sequence
  phase,     \* where the engine's run thread is
  step,      \* the locals of the schedule under construction
  inbox,     \* per worker, the StepInputs sent and not yet handled
  reply,     \* whether rank zero's sampler output is waiting for the engine
  wmap,      \* per worker, the keys of its seq_map
  wseq,      \* per worker, its Sequence objects
  wtable,    \* per worker, its block_tables
  reported   \* the requests whose final RequestOutput the engine returned

engineVars == <<shape, arrived, seq, seqMap, newSeqs, waiting, running, table,
                phase, step, reported>>
workerVars == <<wmap, wseq, wtable>>
channelVars == <<inbox, reply>>
vars == <<engineVars, workerVars, channelVars>>

Phases == {"idle", "decode", "select", "admit", "prefill", "dispatch", "wait"}

(* kept: the local list `running' of _schedule; prompts and decodes: the   *)
(* scheduled metadata; picked: the solver's choice still to be admitted;   *)
(* stop: the members of the batch whose next token is the end of sequence, *)
(* drawn when the batch is sent so that all ranks sample the same.         *)
NoStep == [kept |-> {}, prompts |-> {}, decodes |-> {}, preempted |-> {},
           ignored |-> {}, aborted |-> {}, picked |-> {}, stop |-> {}]

Steps == [kept : SUBSET Seqs, prompts : SUBSET Seqs, decodes : SUBSET Seqs,
          preempted : SUBSET Seqs, ignored : SUBSET Seqs, aborted : SUBSET Seqs,
          picked : SUBSET Seqs, stop : SUBSET Seqs]

Messages == [new : SUBSET Seqs, aborted : SUBSET Seqs, prompts : SUBSET Seqs,
             decodes : SUBSET Seqs, preempted : SUBSET Seqs,
             ignored : SUBSET Seqs, stop : SUBSET Seqs]

Batch(r) == r.prompts \cup r.decodes

Free(t) == NumBlocks - SumFunctionOnSet(t, Seqs)

CanAllocate(s) == Free(table) - LogicalBlocks(seq[s]) >= WatermarkBlocks

CanAppendSlot == Free(table) > 0

(* Mutant: a block too many when the table is exactly full.                *)
AppendSlotEarly(held, o) == IF held <= LogicalBlocks(o) THEN held + 1 ELSE held

(* append_slot takes at most one block, and only for a new logical block.  *)
AppendSlot(held, o) == IF held < LogicalBlocks(o) THEN held + 1 ELSE held

PromptTokens(S) == SumFunctionOnSet([s \in S |-> GetLen(seq[s])], S)

TypeOK ==
  /\ shape \in [Seqs -> Shapes]
  /\ arrived \subseteq Seqs
  /\ seq \in [Seqs -> SequenceObjects]
  /\ seqMap \subseteq Seqs
  /\ newSeqs \subseteq Seqs
  /\ waiting \subseteq Seqs
  /\ running \subseteq Seqs
  /\ table \in [Seqs -> Nat]
  /\ phase \in Phases
  /\ step \in Steps
  /\ inbox \in [Workers -> Seq(Messages)]
  /\ reply \in BOOLEAN
  /\ wmap \in [Workers -> SUBSET Seqs]
  /\ wseq \in [Workers -> [Seqs -> SequenceObjects]]
  /\ wtable \in [Workers -> [Seqs -> Nat]]
  /\ reported \subseteq Seqs

Init ==
  /\ shape \in [Seqs -> Shapes]
  /\ arrived = {}
  /\ seq = [s \in Seqs |-> NewObject(shape[s].prompt)]
  /\ seqMap = {} /\ newSeqs = {}
  /\ waiting = {} /\ running = {}
  /\ table = [s \in Seqs |-> 0]
  /\ phase = "idle"
  /\ step = NoStep
  /\ inbox = [w \in Workers |-> <<>>]
  /\ reply = FALSE
  /\ wmap = [w \in Workers |-> {}]
  /\ wseq = [w \in Workers |-> [s \in Seqs |-> NewObject(shape[s].prompt)]]
  /\ wtable = [w \in Workers |-> [s \in Seqs |-> 0]]
  /\ reported = {}

-----------------------------------------------------------------------------
(* The run thread adds requests between steps.                             *)

AddRequest(s) ==
  /\ phase = "idle"
  /\ s \notin arrived
  /\ arrived' = arrived \cup {s}
  /\ seqMap' = seqMap \cup {s}
  /\ newSeqs' = newSeqs \cup {s}
  /\ waiting' = waiting \cup {s}
  /\ UNCHANGED <<shape, seq, running, table, phase, step, reported>>
  /\ UNCHANGED <<workerVars, channelVars>>

(* A step begins with abort_long_waiting_seq.  Which sequences have waited *)
(* past request_drop_threshold depends on the clock: any subset may have.  *)
BeginStep(late, next) ==
  /\ phase = "idle"
  /\ late \subseteq waiting
  /\ DropRequests \/ late = {}
  /\ \A s \in late : Legal(seq[s].status, "FINISHED_ABORTED")
  /\ seq' = [s \in Seqs |-> IF s \in late THEN SetStatus(seq[s], "FINISHED_ABORTED")
                                          ELSE seq[s]]
  /\ waiting' = waiting \ late
  /\ step' = [NoStep EXCEPT !.aborted = late]
  /\ phase' = next
  /\ UNCHANGED <<shape, arrived, seqMap, newSeqs, running, table, reported>>
  /\ UNCHANGED <<workerVars, channelVars>>

-----------------------------------------------------------------------------
(* The decode loop of _schedule: the head of the sorted running list gets  *)
(* a slot, and the tail is preempted as long as there is none.             *)

(* The head was executed by an earlier step and completed by it.           *)
DecodeReady(s) == seq[s].status = "PAUSED" /\ PromptProcessed(seq[s])

ScheduleDecode ==
  /\ phase = "decode" /\ running # {}
  /\ LET s == Min(running)
     IN  /\ DecodeReady(s)
         /\ CanAppendSlot
         /\ table' = [table EXCEPT ![s] = AppendSlot(@, seq[s])]
         /\ running' = running \ {s}
         /\ step' = [step EXCEPT !.kept = @ \cup {s}, !.decodes = @ \cup {s}]
  /\ UNCHANGED <<shape, arrived, seq, seqMap, newSeqs, waiting, phase, reported>>
  /\ UNCHANGED <<workerVars, channelVars>>

(* Mutant: the list is popped from its head.                               *)
OldestVictim == Min(running)

(* The newest; the head itself when nothing else is left in the list.      *)
Victim == Max(running)

(* Mutant: the victim is not put back into the waiting list.               *)
PreemptForgets ==
  /\ phase = "decode" /\ running # {}
  /\ DecodeReady(Min(running))
  /\ ~CanAppendSlot
  /\ table' = [table EXCEPT ![Victim] = 0]
  /\ running' = running \ {Victim}
  /\ step' = [step EXCEPT !.preempted = @ \cup {Victim}]
  /\ UNCHANGED <<shape, arrived, seq, seqMap, newSeqs, waiting, phase, reported>>
  /\ UNCHANGED <<workerVars, channelVars>>

PreemptNewest ==
  /\ phase = "decode" /\ running # {}
  /\ DecodeReady(Min(running))
  /\ ~CanAppendSlot
  /\ LET v == Victim
     IN  /\ seq[v].status \in Executing
         /\ table' = [table EXCEPT ![v] = 0]
         /\ running' = running \ {v}
         /\ waiting' = waiting \cup {v}
         /\ step' = [step EXCEPT !.preempted = @ \cup {v}]
  /\ UNCHANGED <<shape, arrived, seq, seqMap, newSeqs, phase, reported>>
  /\ UNCHANGED <<workerVars, channelVars>>

EndDecode(next) ==
  /\ phase = "decode" /\ running = {}
  /\ running' = step.kept
  /\ step' = [step EXCEPT !.kept = {}]
  /\ phase' = next
  /\ UNCHANGED <<shape, arrived, seq, seqMap, newSeqs, waiting, table, reported>>
  /\ UNCHANGED <<workerVars, channelVars>>

-----------------------------------------------------------------------------
(* The second half of step(): hand the schedule to the workers.            *)

Message(stop) ==
  [new |-> newSeqs, aborted |-> step.aborted, prompts |-> step.prompts,
   decodes |-> step.decodes, preempted |-> step.preempted,
   ignored |-> step.ignored, stop |-> stop]

(* Mutant: new_seqs is not reset, so the next step sends them again.       *)
SendAgain(stop) == /\ inbox' = [w \in Workers |-> Append(inbox[w], Message(stop))]
                   /\ UNCHANGED newSeqs

Send(stop) == /\ inbox' = [w \in Workers |-> Append(inbox[w], Message(stop))]
              /\ newSeqs' = {}

(* is_empty() looks at the scheduled list only: with nothing scheduled and *)
(* nothing aborted the step returns at once.                               *)
DispatchNothing ==
  /\ phase = "dispatch"
  /\ Batch(step) = {} /\ step.aborted = {}
  /\ phase' = "idle"
  /\ step' = NoStep
  /\ UNCHANGED <<shape, arrived, seq, seqMap, newSeqs, waiting, running, table, reported>>
  /\ UNCHANGED <<workerVars, channelVars>>

(* With aborts only, the workers are told and no output is awaited.        *)
DispatchAborts ==
  /\ phase = "dispatch"
  /\ Batch(step) = {} /\ step.aborted # {}
  /\ step.aborted \subseteq seqMap
  /\ step' = NoStep
  /\ Send({})
  /\ seqMap' = seqMap \ step.aborted
  /\ reported' = reported \cup step.aborted
  /\ phase' = "idle"
  /\ UNCHANGED <<shape, arrived, seq, waiting, running, table>>
  /\ UNCHANGED <<workerVars, reply>>

(* seq_manager.on_schedule, then send.                                     *)
DispatchBatch(stop) ==
  /\ phase = "dispatch"
  /\ Batch(step) # {}
  /\ stop \subseteq (IF MayStop THEN Batch(step) ELSE {})
  /\ Batch(step) \cup step.ignored \cup step.preempted \cup step.aborted \subseteq seqMap
  /\ \A s \in step.preempted : seq[s].status \in Executing
  /\ \A s \in Batch(step) : seq[s].status \in {"WAITING", "PAUSED"}
  /\ seq' = [s \in Seqs |-> IF s \in step.preempted THEN ResetForRecompute(seq[s])
                            ELSE IF s \in Batch(step) THEN SetStatus(seq[s], "RUNNING")
                            ELSE seq[s]]
  /\ step' = [step EXCEPT !.stop = stop]
  /\ Send(stop)
  /\ seqMap' = seqMap \ (step.ignored \cup step.aborted)
  /\ phase' = "wait"
  /\ UNCHANGED <<shape, arrived, waiting, running, table, reported>>
  /\ UNCHANGED <<workerVars, reply>>

(* Mutant: the operands swapped.                                           *)
ChunkSwapped(o) == o.processed - o.prompt

(* A prompt is scheduled whole (frac is 1); a decode has chunk length 0.   *)
Chunk(o) == o.prompt - o.processed

(* on_step_completed of the sequence manager and of the scheduler, and the *)
(* outputs returned by step().  text: the sequences whose output, which    *)
(* the engine alone detokenizes, now ends with a stop string.              *)
Complete(text) ==
  /\ phase = "wait" /\ reply
  /\ text \subseteq (IF StopStrings THEN Batch(step) ELSE {})
  /\ LET after(s) == CompleteStep(seq[s], Chunk(seq[s]), shape[s].maxTokens,
                                  s \in text, s \in step.stop)
         done == {s \in Batch(step) : after(s).status \in Finished}
     IN  /\ seq' = [s \in Seqs |-> IF s \in Batch(step) THEN after(s) ELSE seq[s]]
         /\ seqMap' = seqMap \ done
         /\ table' = [s \in Seqs |-> IF s \in running \cap done THEN 0 ELSE table[s]]
         /\ running' = running \ done
         /\ reported' = reported \cup done \cup step.ignored \cup step.aborted
  /\ reply' = FALSE
  /\ step' = NoStep
  /\ phase' = "idle"
  /\ UNCHANGED <<shape, arrived, newSeqs, waiting, inbox, workerVars>>

-----------------------------------------------------------------------------
(* A worker's execution loop, one StepInputs at a time.                    *)

WorkerIntake(w, m) == (wmap[w] \cup m.new) \ m.aborted

WorkerMapOK(w, m) ==
  /\ m.new \cap wmap[w] = {}
  /\ m.aborted \subseteq wmap[w] \cup m.new

(* Nothing is scheduled: only the sequence map changes (and the blocks of  *)
(* an aborted sequence that had some).                                     *)
WorkerSkip(w) ==
  /\ inbox[w] # <<>>
  /\ LET m == Head(inbox[w])
     IN  /\ Batch(m) = {}
         /\ WorkerMapOK(w, m)
         /\ wmap' = [wmap EXCEPT ![w] = WorkerIntake(w, m)]
         /\ wseq' = [wseq EXCEPT ![w] = [s \in Seqs |->
                       IF s \in m.aborted THEN NewObject(shape[s].prompt) ELSE @[s]]]
         /\ wtable' = [wtable EXCEPT ![w] = [s \in Seqs |->
                         IF s \in m.aborted THEN 0 ELSE @[s]]]
  /\ inbox' = [inbox EXCEPT ![w] = Tail(@)]
  /\ UNCHANGED <<engineVars, reply>>

(* Mutant: _preempt_seq without the free of the worker's own manager.      *)
WorkerKeepsPreempted(w, m) ==
  [s \in Seqs |-> IF s \in m.aborted \cup m.ignored THEN 0 ELSE wtable[w][s]]

(* The clone's tables once ignored, aborted and preempted sequences are    *)
(* freed, and once the batch got its blocks (prompts come first).          *)
WorkerFreed(w, m) ==
  [s \in Seqs |-> IF s \in m.aborted \cup m.ignored \cup m.preempted THEN 0 ELSE wtable[w][s]]

WorkerAllocated(w, m) ==
  LET t == WorkerFreed(w, m)
  IN  [s \in Seqs |-> IF s \notin Batch(m) THEN t[s]
                      ELSE IF t[s] = 0 THEN LogicalBlocks(wseq[w][s])
                      ELSE AppendSlot(t[s], wseq[w][s])]

(* The assertions of on_schedule: every sequence is known and in a status  *)
(* that allows the move, `assert can_allocate' holds for each sequence     *)
(* that has no table, and the allocator never runs dry.                    *)
WorkerBatchOK(w, m) ==
  LET t == WorkerFreed(w, m)
      u == WorkerAllocated(w, m)
      fresh == {s \in Batch(m) : t[s] = 0}
  IN  /\ m.ignored \cup m.preempted \cup Batch(m) \subseteq WorkerIntake(w, m)
      /\ \A s \in m.preempted : wseq[w][s].status \in Executing
      /\ \A s \in Batch(m) : wseq[w][s].status \in {"WAITING", "PAUSED"}
      /\ \A s \in fresh :
           Free([r \in Seqs |-> IF r \in fresh THEN u[r] ELSE t[r]]) >= WatermarkBlocks
      /\ Free(u) >= 0

(* The model runs and on_step_completed is replayed; rank zero answers.    *)
(* The worker's output_text stays empty, so no stop string ever matches.   *)
WorkerExecute(w) ==
  /\ inbox[w] # <<>>
  /\ LET m == Head(inbox[w])
         u == WorkerAllocated(w, m)
         after(s) == LET o == SetStatus(wseq[w][s], "RUNNING")
                     IN  CompleteStep(o, Chunk(o), shape[s].maxTokens, FALSE, s \in m.stop)
         gone == {s \in Batch(m) : after(s).status \in Finished} \cup m.ignored \cup m.aborted
     IN  /\ Batch(m) # {}
         /\ WorkerMapOK(w, m)
         /\ WorkerBatchOK(w, m)
         /\ wmap' = [wmap EXCEPT ![w] = WorkerIntake(w, m) \ gone]
         /\ wseq' = [wseq EXCEPT ![w] = [s \in Seqs |->
                       IF s \in gone THEN NewObject(shape[s].prompt)
                       ELSE IF s \in m.preempted THEN ResetForRecompute(@[s])
                       ELSE IF s \in Batch(m) THEN after(s)
                       ELSE @[s]]]
         /\ wtable' = [wtable EXCEPT ![w] = [s \in Seqs |-> IF s \in gone THEN 0 ELSE u[s]]]
  /\ inbox' = [inbox EXCEPT ![w] = Tail(@)]
  /\ reply' = (reply \/ w = RankZero)
  /\ UNCHANGED engineVars

WorkerNext == \E w \in Workers : WorkerSkip(w) \/ WorkerExecute(w)

-----------------------------------------------------------------------------
(* Properties of every instance.                                           *)

(* Each assertion the engine's thread evaluates, and each set_status it    *)
(* performs, succeeds: an abort, a decode slot, a preemption and the       *)
(* engine-side replay of the schedule find the sequence in a status and in *)
(* a map that allow them (base_scheduler.py:103,166,173;                   *)
(* base_sequence_manager.py:34-64).                                        *)
EngineAssertions ==
  /\ phase = "idle" => \A s \in waiting : Legal(seq[s].status, "FINISHED_ABORTED")
  /\ phase = "decode" /\ running # {} =>
       /\ DecodeReady(Min(running))
       /\ ~CanAppendSlot => seq[Victim].status \in Executing
  /\ phase = "dispatch" =>
       /\ Batch(step) \cup step.ignored \cup step.preempted \cup step.aborted \subseteq seqMap
       /\ \A s \in step.preempted : seq[s].status \in Executing
       /\ \A s \in Batch(step) : seq[s].status \in {"WAITING", "PAUSED"}

(* No assertion of a worker fails on the message it is about to handle: in *)
(* particular `assert self.block_manager.can_allocate(seq)' holds although *)
(* the worker allocates in another order than the scheduler did            *)
(* (worker_sequence_manager.py:47-58, base_worker.py:292-299).             *)
WorkerAssertions ==
  \A w \in Workers : inbox[w] # <<>> =>
    LET m == Head(inbox[w])
    IN  WorkerMapOK(w, m) /\ (Batch(m) # {} => WorkerBatchOK(w, m))

(* Between steps, a worker with nothing left to handle holds for every     *)
(* sequence exactly the blocks the scheduler holds for it, and the same    *)
(* object for every sequence the scheduler may still schedule: the clone   *)
(* of the block manager, which is never sent a block table, stays in sync  *)
(* (worker_sequence_manager.py:18-20).                                     *)
WorkersInSync ==
  \A w \in Workers : phase = "idle" /\ inbox[w] = <<>> =>
    /\ wtable[w] = table
    /\ \A s \in (waiting \cup running) \ newSeqs : s \in wmap[w] /\ wseq[w][s] = seq[s]

(* Blocks are held by the running sequences only, never more than exist;   *)
(* a sequence that is executed has blocks for all of its tokens, and no    *)
(* sequence lags by more than the block its last token opened              *)
(* (base_block_space_manager.py:103-113 adds at most one block).           *)
BlocksMatchWork ==
  /\ Free(table) >= 0
  /\ \A s \in Seqs : table[s] > 0 <=> s \in running \cup step.kept
  /\ \A s \in running \cup step.kept : LogicalBlocks(seq[s]) - table[s] \in {0, 1}
  /\ phase = "wait" => \A s \in Batch(step) : table[s] = LogicalBlocks(seq[s])

(* The four together: the run thread and the workers of an instance keep   *)
(* replaying the same schedule without an assertion failing.               *)
InstanceSafe ==
  EngineAssertions /\ WorkerAssertions /\ WorkersInSync /\ BlocksMatchWork

(* A request that was preempted at its longest and is executed again needs *)
(* all of its max_tokens on top of a prompt of at most max_model_len; it   *)
(* runs alone in the end, and can_append_slot wants a free block even then. *)
RequestsFit ==
  \A sh \in Shapes : PromptLimit + sh.maxTokens - 1 <= (NumBlocks - 1) * BlockSize

(* The oldest sequence that holds blocks is never preempted while another  *)
(* one could be: the rule that lets every sequence finish in turn          *)
(* (low_priority_scheduler.py:151-175, high_priority_scheduler.py:147-160).*)
OldestNotPreempted ==
  [][\A s \in (step'.preempted \ step.preempted) :
       \/ running \cup step.kept = {s}
       \/ \E r \in running \cup step.kept : r < s]_vars

(* sampling_params.max_tokens bounds the number of tokens generated for a  *)
(* request, over all of its executions (sampling_params.py: `Maximum       *)
(* number of tokens to generate per output sequence').                     *)
MaxTokensRespected ==
  \A s \in Seqs : GetLen(seq[s]) - shape[s].prompt <= shape[s].maxTokens
=============================================================================
