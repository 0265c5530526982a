--------------------------- MODULE SarathiEngine ----------------------------
(***************************************************************************)
(* An instance under SarathiScheduler: decodes first, then the prompts     *)
(* that are partly processed, then new prompts, each in chunks that fill a *)
(* budget of chunk_size tokens.  The waiting list is served first come,    *)
(* first served, and a preempted sequence goes to its end.                 *)
(*                                                                         *)
(* A request is named by its rank in the order of arrival_time, so the     *)
(* sorted running list is a set.  One worker stands for the tensor-        *)
(* parallel ranks, which InstanceEngine tells apart; as the engine waits   *)
(* for its answer, the worker handles a step in one action.                *)
(***************************************************************************)
EXTENDS SequenceObject, Sequences, FiniteSets, FiniteSetsExt, SequencesExt

CONSTANTS
  BlockSize,        \* tokens per KV-cache block
  Seqs,             \* the requests, ranked by arrival time
  Shapes,           \* the request parameters [prompt, maxTokens] clients send
  NumBlocks,        \* cache_config.num_gpu_blocks
  WatermarkBlocks,  \* int(0.01 * num_gpu_blocks)
  MaxNumSeqs,       \* scheduler_config.max_num_seqs
  ChunkSize,        \* scheduler_config.chunk_size
  PromptLimit,      \* scheduler.prompt_limit, which is max_model_len
  MayStop           \* whether a sampled token may be the end of sequence

ASSUME BlockSizeAssumption == BlockSize \in Nat \ {0}

ASSUME SarathiAssumption ==
  /\ Seqs \subseteq Nat /\ IsFiniteSet(Seqs)
  /\ Shapes \subseteq [prompt : Nat \ {0}, maxTokens : Nat \ {0}]
  /\ NumBlocks \in Nat \ {0}
  /\ WatermarkBlocks \in Nat
  /\ MaxNumSeqs \in Nat \ {0}
  /\ ChunkSize \in Nat \ {0}
  /\ PromptLimit \in 1..(NumBlocks * BlockSize)
  /\ MayStop \in BOOLEAN

LogicalBlocks(o) == CeilDiv(GetLen(o), BlockSize)

VARIABLES
  shape,     \* the parameters of each request, fixed
  arrived,   \* the requests given to this instance so far
  ended,     \* the requests whose final output the engine returned
  seq,       \* the engine's Sequence objects
  waiting,   \* scheduler.waiting
  running,   \* scheduler.running
  table,     \* the scheduler's block_tables: number of blocks per sequence
  phase,     \* where the run thread is
  step,      \* the locals of _schedule
  wseq,      \* the worker's Sequence objects
  wtable     \* the worker's block_tables

schedVars == <<waiting, running, table, phase, step>>
vars == <<shape, arrived, ended, seq, schedVars, wseq, wtable>>

(* kept: the local list `running'; prefills: running_prefills; chunk: the  *)
(* prompt_chunk_len of each scheduled prompt.                              *)
NoStep == [kept |-> {}, prefills |-> {}, decodes |-> {}, preempted |-> {},
           chunk |-> [s \in Seqs |-> 0]]

Scheduled == step.decodes \cup {s \in Seqs : step.chunk[s] # 0}

Batched == Cardinality(step.decodes) + SumFunctionOnSet(step.chunk, Seqs)

Free(t) == NumBlocks - SumFunctionOnSet(t, Seqs)

AppendSlot(held, o) == IF held < LogicalBlocks(o) THEN held + 1 ELSE held

(* Mutants: the budget is not reduced by what is already in the batch; the *)
(* prompt is not cut.                                                      *)
NextTokensAlone(s) == Min({seq[s].prompt - seq[s].processed, ChunkSize})
NextTokensWhole(s) == seq[s].prompt - seq[s].processed

(* _get_seq_next_num_prefill_tokens with a fixed chunk size.               *)
NextTokens(s) == Min({seq[s].prompt - seq[s].processed, ChunkSize - Batched})

Init ==
  /\ shape \in [Seqs -> Shapes]
  /\ arrived = {} /\ ended = {}
  /\ seq = [s \in Seqs |-> NewObject(shape[s].prompt)]
  /\ wseq = seq
  /\ waiting = <<>> /\ running = {}
  /\ table = [s \in Seqs |-> 0] /\ wtable = table
  /\ phase = "idle" /\ step = NoStep

-----------------------------------------------------------------------------
(* Requests are stamped with their arrival time and added between steps.   *)

AddRequest(s) ==
  /\ phase = "idle"
  /\ arrived = {r \in Seqs : r < s}
  /\ arrived' = arrived \cup {s}
  /\ waiting' = Append(waiting, s)
  /\ UNCHANGED <<shape, ended, seq, running, table, phase, step, wseq, wtable>>

Frame == UNCHANGED <<shape, arrived, ended, seq, wseq, wtable>>

BeginStep ==
  /\ phase = "idle"
  /\ phase' = "decode"
  /\ UNCHANGED <<waiting, running, table, step>> /\ Frame

(* The loop over running: a prompt that is not done is put aside ...       *)
DeferPrefill ==
  /\ phase = "decode" /\ running # {}
  /\ LET s == Min(running)
     IN  /\ ~PromptProcessed(seq[s])
         /\ running' = running \ {s}
         /\ step' = [step EXCEPT !.prefills = @ \cup {s}]
  /\ UNCHANGED <<waiting, table, phase>> /\ Frame

DecodeHead == phase = "decode" /\ running # {} /\ PromptProcessed(seq[Min(running)])

(* ... and a decode gets a slot,                                           *)
ScheduleDecode ==
  /\ DecodeHead /\ Free(table) > 0
  /\ LET s == Min(running)
     IN  /\ table' = [table EXCEPT ![s] = AppendSlot(@, seq[s])]
         /\ running' = running \ {s}
         /\ step' = [step EXCEPT !.kept = @ \cup {s}, !.decodes = @ \cup {s}]
  /\ UNCHANGED <<waiting, phase>> /\ Frame

(* Mutant: the victim is not put back into the waiting list.               *)
PreemptForgets ==
  /\ DecodeHead /\ Free(table) <= 0
  /\ LET v == Max(running)
     IN  /\ table' = [table EXCEPT ![v] = 0]
         /\ running' = running \ {v}
         /\ step' = [step EXCEPT !.preempted = @ \cup {v}]
  /\ UNCHANGED <<waiting, phase>> /\ Frame

(* for which the newest of the list, done with its prompt or not, is       *)
(* preempted, and at last the head itself.                                 *)
Preempt ==
  /\ DecodeHead /\ Free(table) <= 0
  /\ LET v == Max(running)
     IN  /\ table' = [table EXCEPT ![v] = 0]
         /\ running' = running \ {v}
         /\ waiting' = Append(waiting, v)
         /\ step' = [step EXCEPT !.preempted = @ \cup {v}]
  /\ UNCHANGED phase /\ Frame

EndDecodes ==
  /\ phase = "decode" /\ running = {}
  /\ phase' = "prefill"
  /\ UNCHANGED <<waiting, running, table, step>> /\ Frame

(* The prompts put aside, whose blocks they hold already.                  *)
ContinuePrefill ==
  /\ phase = "prefill" /\ step.prefills # {}
  /\ LET s == Min(step.prefills)
     IN  step' = [step EXCEPT !.prefills = @ \ {s}, !.kept = @ \cup {s},
                              !.chunk[s] = NextTokens(s)]
  /\ UNCHANGED <<waiting, running, table, phase>> /\ Frame

EndPrefills ==
  /\ phase = "prefill" /\ step.prefills = {}
  /\ phase' = "admit"
  /\ UNCHANGED <<waiting, running, table, step>> /\ Frame

(* A prompt over the limit is ignored but stays the head, so the next turn *)
(* of the loop ignores it again, which set_status refuses: no step.        *)
TooLong(s) == GetLen(seq[s]) > PromptLimit

(* Mutant: a prompt is admitted into a batch that is already full.         *)
AdmitsIntoFull(s) ==
  /\ Free(table) - LogicalBlocks(seq[s]) >= WatermarkBlocks
  /\ Cardinality(step.kept) < MaxNumSeqs

Admits(s) ==
  /\ Free(table) - LogicalBlocks(seq[s]) >= WatermarkBlocks
  /\ Cardinality(step.kept) < MaxNumSeqs
  /\ NextTokens(s) # 0

(* A sequence preempted by this very step may be admitted again; one that  *)
(* was done with its prompt has no token to process and stops the loop.    *)
AdmitPrefill ==
  /\ phase = "admit" /\ waiting # <<>>
  /\ LET s == Head(waiting)
     IN  /\ ~TooLong(s) /\ Admits(s)
         /\ table' = [table EXCEPT ![s] = LogicalBlocks(seq[s])]
         /\ step' = [step EXCEPT !.kept = @ \cup {s}, !.chunk[s] = NextTokens(s)]
  /\ waiting' = Tail(waiting)
  /\ UNCHANGED <<running, phase>> /\ Frame

NoAdmission ==
  /\ phase = "admit"
  /\ waiting # <<>> => ~TooLong(Head(waiting)) /\ ~Admits(Head(waiting))

(* With an empty batch step() returns before on_schedule.                  *)
EndEmptyStep ==
  /\ NoAdmission /\ Scheduled = {}
  /\ running' = step.kept
  /\ step' = NoStep
  /\ phase' = "idle"
  /\ UNCHANGED <<waiting, table>> /\ Frame

(* Mutant: the object is not reset.                                        *)
PausedAgain(o) == SetStatus(o, "WAITING")

Preempted(o) == ResetForRecompute(o)

(* on_schedule of a sequence manager, the engine's or the worker's.        *)
OnSchedule(objects) ==
  [s \in Seqs |-> LET o == IF s \in step.preempted THEN Preempted(objects[s]) ELSE objects[s]
                  IN  IF s \in Scheduled THEN SetStatus(o, "RUNNING") ELSE o]

SendStep ==
  /\ NoAdmission /\ Scheduled # {}
  /\ seq' = OnSchedule(seq)
  /\ running' = step.kept
  /\ phase' = "execute"
  /\ UNCHANGED <<shape, arrived, ended, waiting, table, step, wseq, wtable>>

-----------------------------------------------------------------------------
(* The worker replays the step on its clone, and the engine completes it.  *)

(* Mutant: the worker keeps the blocks of a preempted sequence.            *)
WorkerFreedNothing == wtable

WorkerFreed == [s \in Seqs |-> IF s \in step.preempted THEN 0 ELSE wtable[s]]

WorkerTable ==
  [s \in Seqs |-> IF s \notin Scheduled THEN WorkerFreed[s]
                  ELSE IF WorkerFreed[s] = 0 THEN LogicalBlocks(OnSchedule(wseq)[s])
                  ELSE AppendSlot(WorkerFreed[s], wseq[s])]

(* Its assertions: statuses that allow the moves, `assert can_allocate'    *)
(* for the sequences without a table, an allocator that never runs dry,    *)
(* and a chunk that is not longer than what the prompt has left.           *)
WorkerCan ==
  LET objects == OnSchedule(wseq)
  IN  /\ \A s \in step.preempted : wseq[s].status \in Executing
      /\ \A s \in Scheduled : s \in step.preempted \/ wseq[s].status \in {"WAITING", "PAUSED"}
      /\ Free(WorkerTable) >= 0
      /\ (\E s \in Scheduled : WorkerFreed[s] = 0) => Free(WorkerTable) >= WatermarkBlocks
      /\ \A s \in Scheduled : step.chunk[s] \in 0..(objects[s].prompt - objects[s].processed)

Step(objects, stop) ==
  [s \in Seqs |-> IF s \in Scheduled
                  THEN CompleteStep(objects[s], step.chunk[s], shape[s].maxTokens, FALSE, s \in stop)
                  ELSE objects[s]]

(* stop: the sequences whose next token is the end of sequence.            *)
ExecuteStep(stop) ==
  /\ phase = "execute" /\ WorkerCan
  /\ stop \subseteq (IF MayStop THEN Scheduled ELSE {})
  /\ LET worker == Step(OnSchedule(wseq), stop)
         engine == Step(seq, stop)
         done == {s \in Scheduled : engine[s].status \in Finished}
         gone == {s \in Scheduled : worker[s].status \in Finished}
     IN  /\ wseq' = worker
         /\ wtable' = [s \in Seqs |-> IF s \in gone THEN 0 ELSE WorkerTable[s]]
         /\ seq' = engine
         /\ table' = [s \in Seqs |-> IF s \in running \cap done THEN 0 ELSE table[s]]
         /\ running' = running \ done
         /\ ended' = ended \cup done
  /\ step' = NoStep
  /\ phase' = "idle"
  /\ UNCHANGED <<shape, arrived, waiting>>

RunStep ==
  \/ BeginStep \/ DeferPrefill \/ ScheduleDecode \/ Preempt \/ EndDecodes
  \/ ContinuePrefill \/ EndPrefills \/ AdmitPrefill \/ EndEmptyStep \/ SendStep
  \/ \E stop \in SUBSET Seqs : ExecuteStep(stop)

Next == RunStep \/ \E s \in Seqs : AddRequest(s)

Spec == Init /\ [][Next]_vars

-----------------------------------------------------------------------------
(* Properties.                                                             *)

SarathiTypeOK ==
  /\ shape \in [Seqs -> Shapes]
  /\ arrived \subseteq Seqs /\ ended \subseteq arrived
  /\ {seq, wseq} \subseteq [Seqs -> SequenceObjects]
  /\ waiting \in Seq(arrived) /\ running \subseteq arrived
  /\ {table, wtable} \subseteq [Seqs -> 0..NumBlocks]
  /\ phase \in {"idle", "decode", "prefill", "admit", "execute"}
  /\ step \in [kept : SUBSET arrived, prefills : SUBSET arrived, decodes : SUBSET arrived,
               preempted : SUBSET arrived, chunk : [Seqs -> (-MaxNumSeqs)..ChunkSize]]

Held == running \cup step.kept \cup step.prefills

(* Each request that has not ended is in one list of the scheduler, once.  *)
(* While the workers execute, running is the list the step has kept.       *)
InOneList ==
  /\ IsInjective(waiting)
  /\ ToSet(waiting) \cap Held = {}
  /\ ToSet(waiting) \cup Held = arrived \ ended
  /\ step.prefills \cap (running \cup step.kept) = {}
  /\ phase # "execute" => running \cap step.kept = {}

BlocksCover ==
  \A s \in Seqs : IF s \in Held THEN LogicalBlocks(seq[s]) - table[s] \in {0, 1}
                                ELSE table[s] = 0

(* ... with blocks for its whole prompt from its first chunk on, and none  *)
(* while it waits, even when a step preempts and admits it again           *)
(* (sarathi_scheduler.py:138-246).                                         *)
OneHolder == InOneList /\ BlocksCover

(* The worker can replay every step - the sequences are where it expects   *)
(* them, its blocks suffice, the chunk fits the prompt - and then has the  *)
(* scheduler's blocks and objects again, although a chunk was measured     *)
(* before the preemption that resets its sequence                          *)
(* (worker_sequence_manager.py:18-58, base_sequence_manager.py:74-105).    *)
ReplayInSync ==
  /\ phase = "execute" => WorkerCan
  /\ phase = "idle" =>
       wtable = table /\ \A s \in arrived \ ended : wseq[s] = seq[s]

(* A sequence that runs alone and needs no further block is still          *)
(* preempted when no block is free, in a step that is sent to no worker:   *)
(* requests that fit leave one.                                            *)
SarathiRequestsFit ==
  \A sh \in Shapes : PromptLimit + sh.maxTokens - 1 <= (NumBlocks - 1) * BlockSize

(* `Sarathi never schedules more than chunk_size tokens in one iteration'  *)
(* (config.py:428), although max_num_seqs may exceed chunk_size: a batch   *)
(* of at most chunk_size tokens leaves at most that many decodes for the   *)
(* next one, so no chunk is ever negative (sarathi_scheduler.py:97-100).   *)
BatchWithinChunk == Batched <= ChunkSize /\ \A s \in Seqs : step.chunk[s] >= 0

(* A prompt that is partly processed goes on in every step: `in            *)
(* non-pipeline case this condition should always be false', the condition *)
(* being that the batch has no token left for it                           *)
(* (sarathi_scheduler.py:182-189).                                         *)
PrefillsProgress ==
  phase = "prefill" /\ step.prefills # {} => NextTokens(Min(step.prefills)) > 0

(* The instance implements the promise of RequestStream.                   *)
Stage(s) == IF s \in ended THEN "closed" ELSE IF s \in arrived THEN "accepted" ELSE "unknown"

Stream == INSTANCE RequestStream
            WITH Requests <- Seqs,
                 stage <- [s \in Seqs |-> Stage(s)],
                 emitted <- [s \in Seqs |-> GetLen(seq[s]) - shape[s].prompt]

SarathiImplementsStream == Stream!StreamSpec

FairSpec == Spec /\ WF_vars(RunStep)

(* Every request ends, though a preempted one queues up behind the newer   *)
(* ones and the head of the waiting list blocks all others                 *)
(* (sarathi_scheduler.py:215-232, base_scheduler.py:169-175).              *)
SarathiEveryRequestEnds == \A s \in Seqs : s \in arrived ~> s \in ended
=============================================================================
