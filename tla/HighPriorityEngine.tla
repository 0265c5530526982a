------------------------- MODULE HighPriorityEngine -------------------------
(***************************************************************************)
(* The high-priority instance: HighPriorityScheduler._schedule.  Waiting   *)
(* prompts are admitted before any decode, in earliest-deadline order, and *)
(* a step that admits or ignores a prompt schedules no decode.  Requests   *)
(* come from the controller, directly or offloaded by a low-priority       *)
(* instance, so they may be added in any order of arrival_time.            *)
(***************************************************************************)
EXTENDS InstanceEngine

CONSTANT EnforceMaxNumSeqs   \* scheduler_config.enforce_max_num_seqs

ASSUME EnforceAssumption == EnforceMaxNumSeqs \in BOOLEAN

HPBeginStep(late) == BeginStep(late, "prefill")

(* Less than 5% of the blocks are free.                                    *)
NearlyFull == 20 * Free(table) < NumBlocks

(* Mutant: the candidate itself is not counted.                            *)
BelowSeqLimitOffByOne ==
  \/ Cardinality(running) <= MaxNumSeqs
  \/ ~EnforceMaxNumSeqs /\ ~NearlyFull

BelowSeqLimit ==
  \/ Cardinality(running) + 1 <= MaxNumSeqs
  \/ ~EnforceMaxNumSeqs /\ ~NearlyFull

Admits(s) ==
  /\ CanAllocate(s)
  /\ PromptTokens(Batch(step) \cup {s}) <= MaxBatchedTokens
  /\ BelowSeqLimit

TooLong(s) == GetLen(seq[s]) > PromptLimit

(* The head of the deadline order is any waiting sequence: the order       *)
(* depends on predicted prefill times, and sequences past their deadline   *)
(* move to the end.                                                        *)
HPIgnore(s) ==
  /\ phase = "prefill"
  /\ s \in waiting
  /\ TooLong(s)
  /\ Legal(seq[s].status, "FINISHED_IGNORED")
  /\ seq' = [seq EXCEPT ![s] = SetStatus(@, "FINISHED_IGNORED")]
  /\ waiting' = waiting \ {s}
  /\ step' = [step EXCEPT !.ignored = @ \cup {s}]
  /\ UNCHANGED <<shape, arrived, seqMap, newSeqs, running, table, phase, reported>>
  /\ UNCHANGED <<workerVars, channelVars>>

(* A sequence whose preemption was never replayed still counts as having   *)
(* its prompt processed: from_sequence makes it a decode.                  *)
HPAdmit(s) ==
  /\ phase = "prefill"
  /\ s \in waiting
  /\ ~TooLong(s)
  /\ Admits(s)
  /\ waiting' = waiting \ {s}
  /\ running' = running \cup {s}
  /\ table' = [table EXCEPT ![s] = LogicalBlocks(seq[s])]
  /\ step' = IF PromptProcessed(seq[s])
             THEN [step EXCEPT !.decodes = @ \cup {s}]
             ELSE [step EXCEPT !.prompts = @ \cup {s}]
  /\ UNCHANGED <<shape, arrived, seq, seqMap, newSeqs, phase, reported>>
  /\ UNCHANGED <<workerVars, channelVars>>

(* Mutant: a step that only ignored prompts goes on to the decodes.         *)
EndPrefillForgetsIgnored ==
  /\ phase = "prefill"
  /\ waiting = {} \/ \E s \in waiting : ~TooLong(s) /\ ~Admits(s)
  /\ phase' = IF Batch(step) # {} THEN "dispatch" ELSE "decode"
  /\ UNCHANGED <<shape, arrived, seq, seqMap, newSeqs, waiting, running, table,
                 step, reported>>
  /\ UNCHANGED <<workerVars, channelVars>>

(* The loop ends with the queue, or at a head that cannot be admitted.     *)
HPEndPrefill ==
  /\ phase = "prefill"
  /\ waiting = {} \/ \E s \in waiting : ~TooLong(s) /\ ~Admits(s)
  /\ phase' = IF Batch(step) \cup step.ignored # {} THEN "dispatch" ELSE "decode"
  /\ UNCHANGED <<shape, arrived, seq, seqMap, newSeqs, waiting, running, table,
                 step, reported>>
  /\ UNCHANGED <<workerVars, channelVars>>

(* Mutant: self.running is not set to the sequences kept.                  *)
EndDecodeDropsKept ==
  /\ phase = "decode" /\ running = {}
  /\ step' = [step EXCEPT !.kept = {}]
  /\ phase' = "dispatch"
  /\ UNCHANGED <<shape, arrived, seq, seqMap, newSeqs, waiting, running, table, reported>>
  /\ UNCHANGED <<workerVars, channelVars>>

HPEndDecode == EndDecode("dispatch")

HPStep ==
  \/ \E late \in SUBSET waiting : HPBeginStep(late)
  \/ \E s \in Seqs : HPIgnore(s) \/ HPAdmit(s)
  \/ HPEndPrefill
  \/ ScheduleDecode
  \/ PreemptNewest
  \/ HPEndDecode
  \/ DispatchNothing
  \/ DispatchAborts
  \/ \E stop \in SUBSET Seqs : DispatchBatch(stop)
  \/ \E text \in SUBSET Seqs : Complete(text)

HPNext ==
  \/ \E s \in Seqs : AddRequest(s)
  \/ HPStep
  \/ WorkerNext

HPSpec == Init /\ [][HPNext]_vars

-----------------------------------------------------------------------------
(* Properties.                                                             *)

(* Every request is in exactly one place, unless it was ignored by a step  *)
(* that scheduled nothing (see IgnoredAreReported): preemption, deadline   *)
(* order and aborts neither lose nor duplicate one                         *)
(* (high_priority_scheduler.py:79-112,137-169).                            *)
Ignored == {s \in Seqs : seq[s].status = "FINISHED_IGNORED"}

HPOnePlace ==
  /\ waiting \cap running = {}
  /\ (waiting \cup running) \cap step.kept = {}
  /\ (waiting \cup running \cup step.kept) \cap (step.aborted \cup step.ignored) = {}
  /\ step.aborted \cap step.ignored = {}
  /\ (waiting \cup running \cup step.kept \cup step.aborted \cup step.ignored)
       \cap reported = {}
  /\ waiting \cup running \cup step.kept \cup step.aborted \cup step.ignored
       \cup reported \cup Ignored = arrived
  /\ Ignored \cap (waiting \cup running \cup step.kept \cup step.aborted) = {}

(* A request refused for its length is reported like every other end: the  *)
(* step that ignores it returns its RequestOutput                          *)
(* (base_llm_engine.py:300-304; FINISHED_IGNORED has a finish reason,      *)
(* sequence_status.py:50-51).                                              *)
IgnoredAreReported ==
  phase = "idle" => Ignored \subseteq reported

(* The bounds of one batch; max_num_seqs bounds the running list only when *)
(* it is enforced or the memory is nearly full                             *)
(* (high_priority_scheduler.py:97-103).                                    *)
HPBounds ==
  /\ EnforceMaxNumSeqs => Cardinality(running \cup step.kept) <= MaxNumSeqs
  /\ PromptTokens(step.prompts) <= MaxBatchedTokens

(* A step never mixes prompts and decodes, and preempts nothing when it    *)
(* schedules a prompt: the metadata returned with prompts lists no         *)
(* preemption (high_priority_scheduler.py:114-126), so a preemption made   *)
(* in the same step would never reach the engine's sequence manager.       *)
PromptsAlone ==
  step.prompts \cup step.ignored # {} => step.decodes = {} /\ step.preempted = {}

(* The instance implements the promise of RequestStream.                   *)
HPStage(s) == IF s \in reported THEN "closed"
              ELSE IF s \in arrived THEN "accepted" ELSE "unknown"

HPStream == INSTANCE RequestStream
              WITH Requests <- Seqs,
                   stage <- [s \in Seqs |-> HPStage(s)],
                   emitted <- [s \in Seqs |-> GetLen(seq[s]) - shape[s].prompt]

HPImplementsStream == HPStream!StreamSpec

HPFairness ==
  /\ WF_vars(HPStep)
  /\ \A w \in Workers : WF_vars(WorkerSkip(w) \/ WorkerExecute(w))

HPFairSpec == HPSpec /\ HPFairness

(* No request waits forever behind the head of the deadline order: it is   *)
(* reported, or was ignored by a step that scheduled nothing               *)
(* (high_priority_scheduler.py:92-103).                                    *)
HPEveryRequestEnds ==
  \A s \in Seqs : s \in arrived ~> s \in reported \/ s \in Ignored
=============================================================================
