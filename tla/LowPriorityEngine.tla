------------------------- MODULE LowPriorityEngine --------------------------
(***************************************************************************)
(* The low-priority instance: LowPriorityScheduler._schedule with the      *)
(* NonPreemptiveSolver, the offloading of requests about to miss their     *)
(* time-to-first-token objective (_seq_offloading), and the queue the      *)
(* controller empties through the _get_hp_request RPC.  Decodes are        *)
(* scheduled before prefills.                                              *)
(***************************************************************************)
EXTENDS InstanceEngine

VARIABLES
  hpQueue,   \* engine.hp_req_queue
  handed     \* the requests returned by _get_hp_request

lpVars == <<hpQueue, handed>>
allVars == <<vars, lpVars>>

LPTypeOK == TypeOK /\ hpQueue \subseteq Seqs /\ handed \subseteq Seqs

LPInit == Init /\ hpQueue = {} /\ handed = {}

(* arrival_time is the time the run thread takes the request.              *)
LPAddRequest(s) ==
  /\ \A r \in Seqs : r < s => r \in arrived
  /\ AddRequest(s)
  /\ UNCHANGED lpVars

LPBeginStep(late) == BeginStep(late, "decode") /\ UNCHANGED lpVars

(* At most max_num_seqs sequences are ever kept, so the branch that defers *)
(* the rest of the list is a guard here; LPBounds shows it never blocks.   *)
LPScheduleDecode ==
  /\ Cardinality(step.kept) < MaxNumSeqs
  /\ ScheduleDecode
  /\ UNCHANGED lpVars

LPPreempt == PreemptNewest /\ UNCHANGED lpVars

LPEndDecode == EndDecode("select") /\ UNCHANGED lpVars

(* Mutant: the tokens already processed are charged.                       *)
ProcessedTokens(s) == seq[s].processed

(* BaseItem.remaining_tokens and the blocks solve() subtracts for it.      *)
RemainingTokens(s) == seq[s].prompt - seq[s].processed
SolverTokens(S) == SumFunctionOnSet([s \in S |-> RemainingTokens(s)], S)
SolverBlocks(S) == SumFunctionOnSet([s \in S |-> CeilDiv(RemainingTokens(s), BlockSize)], S)

(* What solve() can return.  Items are taken by decreasing value, a        *)
(* floating-point function of age and predicted prefill time, until the    *)
(* compute budget, the free blocks or the batch size is used up; both      *)
(* orders are left open.  The first item always finds compute left.        *)
Selections ==
  LET room == MaxBatchedTokens - Cardinality(running)
      fits(s) == RemainingTokens(s) <= room
  IN  {T \in SUBSET waiting :
        /\ Cardinality(T) <= MaxNumSeqs - Cardinality(running)
        /\ SolverTokens(T) <= room
        /\ T # {} => \E last \in T : SolverBlocks(T \ {last}) < Free(table)
        /\ T = {} => \A s \in waiting : ~fits(s)}

NoPrefill ==
  \/ waiting = {}
  \/ ~CanAppendSlot
  \/ step.preempted # {}
  \/ Cardinality(running) >= MaxNumSeqs
  \/ Cardinality(running) >= MaxBatchedTokens

LPSelect ==
  /\ phase = "select"
  /\ \/ /\ NoPrefill
        /\ UNCHANGED step
     \/ /\ ~NoPrefill
        /\ \E T \in Selections : step' = [step EXCEPT !.picked = T]
  /\ phase' = "admit"
  /\ UNCHANGED <<shape, arrived, seq, seqMap, newSeqs, waiting, running, table, reported>>
  /\ UNCHANGED <<workerVars, channelVars, lpVars>>

(* The asserted part of the admission loop: the prompt respects            *)
(* prompt_limit (else set_status ignores it, impossible from PAUSED) and   *)
(* the chunk is not empty.                                                 *)
Admissible(s) == GetLen(seq[s]) <= PromptLimit /\ Chunk(seq[s]) # 0

LPAdmit(s) ==
  /\ phase = "admit"
  /\ s \in step.picked
  /\ Admissible(s)
  /\ CanAllocate(s)
  /\ table' = [table EXCEPT ![s] = LogicalBlocks(seq[s])]
  /\ waiting' = waiting \ {s}
  /\ running' = running \cup {s}
  /\ step' = [step EXCEPT !.picked = @ \ {s}, !.prompts = @ \cup {s}]
  /\ UNCHANGED <<shape, arrived, seq, seqMap, newSeqs, phase, reported>>
  /\ UNCHANGED <<workerVars, channelVars, lpVars>>

(* The solver charged the remaining tokens only and ignores the watermark, *)
(* so a chosen sequence may not be allocatable: it stays in waiting.       *)
LPSkip(s) ==
  /\ phase = "admit"
  /\ s \in step.picked
  /\ Admissible(s)
  /\ ~CanAllocate(s)
  /\ step' = [step EXCEPT !.picked = @ \ {s}]
  /\ UNCHANGED <<shape, arrived, seq, seqMap, newSeqs, waiting, running, table,
                 phase, reported>>
  /\ UNCHANGED <<workerVars, channelVars, lpVars>>

(* on_schedule and process_scheduler_metadata: waiting sequences that were *)
(* never scheduled and are late leave for the high-priority instances.     *)
LPOffload(late) ==
  /\ phase = "admit" /\ step.picked = {}
  /\ late \subseteq {s \in waiting : ~seq[s].scheduled}
  /\ late \subseteq seqMap
  /\ waiting' = waiting \ late
  /\ hpQueue' = hpQueue \cup late
  /\ seqMap' = seqMap \ late
  /\ phase' = "dispatch"
  /\ UNCHANGED <<shape, arrived, seq, newSeqs, running, table, step, reported, handed>>
  /\ UNCHANGED <<workerVars, channelVars>>

LPDispatch ==
  /\ \/ DispatchNothing
     \/ DispatchAborts
     \/ \E stop \in SUBSET Seqs : DispatchBatch(stop)
  /\ UNCHANGED lpVars

LPComplete == (\E text \in SUBSET Seqs : Complete(text)) /\ UNCHANGED lpVars

(* Mutant: the head of the queue is returned and left there.               *)
PeekHpRequest(s) ==
  /\ s \in hpQueue
  /\ handed' = handed \cup {s}
  /\ UNCHANGED <<vars, hpQueue>>

(* The RPC thread pops the queue while the run thread may append to it.    *)
GetHpRequest(s) ==
  /\ s \in hpQueue
  /\ hpQueue' = hpQueue \ {s}
  /\ handed' = handed \cup {s}
  /\ UNCHANGED vars

LPStep ==
  \/ \E late \in SUBSET waiting : LPBeginStep(late)
  \/ LPScheduleDecode
  \/ LPPreempt
  \/ LPEndDecode
  \/ LPSelect
  \/ \E s \in Seqs : LPAdmit(s) \/ LPSkip(s)
  \/ \E late \in SUBSET waiting : LPOffload(late)
  \/ LPDispatch
  \/ LPComplete

LPWorker == WorkerNext /\ UNCHANGED lpVars

LPNext ==
  \/ \E s \in Seqs : LPAddRequest(s) \/ GetHpRequest(s)
  \/ LPStep
  \/ LPWorker

LPSpec == LPInit /\ [][LPNext]_allVars

-----------------------------------------------------------------------------
(* Properties.                                                             *)

(* Every request the instance was given is in exactly one place: waiting,  *)
(* running (or in the local list of the schedule), aborted by the current  *)
(* step, queued for or handed to the controller, or reported.  So a        *)
(* request can be neither lost nor served twice by preemption, abort and   *)
(* offloading (low_priority_scheduler.py:75-91,134-182,230-249).           *)
OnePlace ==
  /\ waiting \cap running = {}
  /\ (waiting \cup running) \cap step.kept = {}
  /\ (waiting \cup running \cup step.kept) \cap step.aborted = {}
  /\ (waiting \cup running \cup step.kept \cup step.aborted) \cap hpQueue = {}
  /\ (waiting \cup running \cup step.kept \cup step.aborted \cup hpQueue) \cap handed = {}
  /\ (waiting \cup running \cup step.kept \cup step.aborted \cup hpQueue \cup handed)
       \cap reported = {}
  /\ waiting \cup running \cup step.kept \cup step.aborted \cup hpQueue \cup handed
       \cup reported = arrived

(* The assertion of the admission loop, `assert next_num_prefill_tokens != *)
(* 0', and the prompt check before it never fail for a sequence the solver *)
(* chose (low_priority_scheduler.py:235,245).                              *)
ChosenAreAdmissible ==
  phase = "admit" =>
    \A s \in step.picked : Admissible(s) /\ seq[s].status = "WAITING"

(* A batch respects max_num_seqs and max_num_batched_tokens, although the  *)
(* decodes are taken before and independently of the prefills              *)
(* (low_priority_scheduler.py:146,208-215).                                *)
LPBounds ==
  /\ Cardinality(running \cup step.kept) <= MaxNumSeqs
  /\ phase = "dispatch" =>
       Cardinality(step.decodes) + PromptTokens(step.prompts) <= MaxBatchedTokens

(* `Only offload the requests that have not been scheduled yet': a request *)
(* that leaves has no token, no block on the engine or on a worker, and is *)
(* in no schedule sent to one (low_priority_scheduler.py:83-85).           *)
OffloadedUntouched ==
  \A s \in hpQueue \cup handed :
    /\ seq[s] = NewObject(shape[s].prompt)
    /\ table[s] = 0
    /\ \A w \in Workers :
         /\ wtable[w][s] = 0
         /\ \A i \in DOMAIN inbox[w] : s \notin Batch(inbox[w][i])

(* The client's view of the instance, and the promise it keeps.            *)
Stage(s) == IF s \in reported THEN "closed"
            ELSE IF s \in hpQueue \cup handed THEN "handed"
            ELSE IF s \in arrived THEN "accepted" ELSE "unknown"

Stream == INSTANCE RequestStream
            WITH Requests <- Seqs,
                 stage <- [s \in Seqs |-> Stage(s)],
                 emitted <- [s \in Seqs |-> GetLen(seq[s]) - shape[s].prompt]

(* The low-priority instance implements RequestStream: recompute           *)
(* preemption (sequence.py:204-212) loses no token, and an offloaded or    *)
(* closed request gets none.                                               *)
ImplementsStream == Stream!StreamSpec

(* The run thread, each worker and the controller's polling keep running.  *)
LPFairness ==
  /\ WF_allVars(LPStep)
  /\ \A w \in Workers : WF_allVars((WorkerSkip(w) \/ WorkerExecute(w)) /\ UNCHANGED lpVars)
  /\ \A s \in Seqs : WF_allVars(GetHpRequest(s))

LPFairSpec == LPSpec /\ LPFairness

(* No request waits forever: it is eventually reported, or given to the    *)
(* controller, whatever the solver prefers and however often it is         *)
(* preempted (for requests that fit the instance's limits).                *)
EveryRequestLeaves ==
  \A s \in Seqs : s \in arrived ~> s \in reported \cup handed
=============================================================================
