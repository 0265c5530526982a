------------------------- MODULE LowPriorityProofs --------------------------
(***************************************************************************)
(* Proofs about the low-priority instance, for any requests, limits, cache *)
(* size and number of workers: the type invariant; every request is in     *)
(* exactly one place; an offloaded request was never touched; the instance *)
(* implements RequestStream; its batches keep to their bounds; its run     *)
(* thread and its workers replay the same schedule.                        *)
(***************************************************************************)
EXTENDS LowPriorityEngine, InstanceEngineProofs

LEMMA LPInitType == LPInit => LPTypeOK
  BY InitType DEF LPInit, LPTypeOK

(* The step that admits a chosen sequence gives it blocks for all tokens.  *)
LEMMA LPAdmitType ==
  ASSUME TypeOK, NEW s \in Seqs, LPAdmit(s)
  PROVE  TypeOK'
<1>1. GetLen(seq[s]) \in Nat
  BY DEF TypeOK, SequenceObjects, GetLen
<1>2. LogicalBlocks(seq[s]) \in Nat
  BY <1>1, CeilDivType, BlockSizeAssumption DEF LogicalBlocks
<1>3. table' \in [Seqs -> Nat]
  BY <1>2 DEF LPAdmit, TypeOK
<1>4. step' \in Steps
  BY DEF LPAdmit, TypeOK, Steps
<1> QED
  BY <1>3, <1>4 DEF TypeOK, LPAdmit, workerVars, channelVars

LEMMA LPSelectType ==
  ASSUME TypeOK, LPSelect
  PROVE  TypeOK'
<1>1. step' \in Steps
  <2>1. CASE UNCHANGED step
    BY <2>1 DEF TypeOK
  <2>2. ASSUME NEW T \in Selections, step' = [step EXCEPT !.picked = T]
        PROVE  step' \in Steps
    <3>1. T \subseteq Seqs
      BY <2>2 DEF Selections, TypeOK
    <3> QED
      BY <2>2, <3>1 DEF TypeOK, Steps
  <2> QED
    BY <2>1, <2>2 DEF LPSelect
<1> QED
  BY <1>1 DEF TypeOK, LPSelect, workerVars, channelVars, Phases

LEMMA LPTypeInductive == LPTypeOK /\ [LPNext]_allVars => LPTypeOK'
<1> SUFFICES ASSUME LPTypeOK, [LPNext]_allVars PROVE LPTypeOK'
  OBVIOUS
<1>0. TypeOK
  BY DEF LPTypeOK
<1>1. ASSUME NEW s \in Seqs, LPAddRequest(s) PROVE LPTypeOK'
  BY <1>0, <1>1, AddRequestType DEF LPAddRequest, LPTypeOK, lpVars
<1>2. ASSUME NEW s \in Seqs, GetHpRequest(s) PROVE LPTypeOK'
  BY <1>0, <1>2 DEF GetHpRequest, LPTypeOK, TypeOK, vars, engineVars, workerVars, channelVars
<1>3. ASSUME NEW late \in SUBSET waiting, LPBeginStep(late) PROVE LPTypeOK'
  BY <1>0, <1>3, BeginStepType DEF LPBeginStep, LPTypeOK, lpVars, Phases
<1>4. CASE LPScheduleDecode
  BY <1>0, <1>4, ScheduleDecodeType DEF LPScheduleDecode, LPTypeOK, lpVars
<1>5. CASE LPPreempt
  BY <1>0, <1>5, PreemptNewestType DEF LPPreempt, LPTypeOK, lpVars
<1>6. CASE LPEndDecode
  BY <1>0, <1>6, EndDecodeType DEF LPEndDecode, LPTypeOK, lpVars, Phases
<1>7. CASE LPSelect
  BY <1>0, <1>7, LPSelectType DEF LPSelect, LPTypeOK, lpVars
<1>8. ASSUME NEW s \in Seqs, LPAdmit(s) PROVE LPTypeOK'
  BY <1>0, <1>8, LPAdmitType DEF LPAdmit, LPTypeOK, lpVars
<1>9. ASSUME NEW s \in Seqs, LPSkip(s) PROVE LPTypeOK'
  BY <1>0, <1>9 DEF LPSkip, LPTypeOK, TypeOK, lpVars, workerVars, channelVars, Steps
<1>10. ASSUME NEW late \in SUBSET waiting, LPOffload(late) PROVE LPTypeOK'
  BY <1>0, <1>10 DEF LPOffload, LPTypeOK, TypeOK, workerVars, channelVars, Phases
<1>11. CASE LPDispatch
  BY <1>0, <1>11, DispatchNothingType, DispatchAbortsType, DispatchBatchType
     DEF LPDispatch, LPTypeOK, lpVars
<1>12. CASE LPComplete
  BY <1>0, <1>12, CompleteType DEF LPComplete, LPTypeOK, lpVars
<1>13. CASE LPWorker
  BY <1>0, <1>13, WorkerSkipType, WorkerExecuteType DEF LPWorker, WorkerNext, LPTypeOK, lpVars
<1>14. CASE UNCHANGED allVars
  BY <1>0, <1>14 DEF allVars, lpVars, vars, engineVars, workerVars, channelVars, LPTypeOK, TypeOK
<1> QED
  BY <1>1, <1>2, <1>3, <1>4, <1>5, <1>6, <1>7, <1>8, <1>9, <1>10, <1>11, <1>12,
     <1>13, <1>14 DEF LPNext, LPStep

(* The state of the low-priority instance always has its type: no chunk,   *)
(* table or counter leaves the naturals, however sequences are preempted   *)
(* and resumed.                                                            *)
THEOREM LPTypeCorrect == LPSpec => []LPTypeOK
  BY LPInitType, LPTypeInductive, PTL DEF LPSpec

-----------------------------------------------------------------------------
(* Every request is in exactly one place.                                  *)

(* The schedule under construction: kept sequences exist only while the    *)
(* running list is being walked, the batch is made of sequences that hold  *)
(* their slot, the solver's choice is waiting, nothing is ignored.  OnePlace *)
(* is not inductive without it: a preemption would put a sequence into     *)
(* waiting that the step still counts as kept.                             *)
StepOK ==
  /\ phase = "idle" => step = NoStep
  /\ step.ignored = {}
  /\ phase = "decode" => step.prompts = {} /\ step.decodes \subseteq step.kept
  /\ phase # "decode" => step.kept = {} /\ Batch(step) \subseteq running
  /\ step.picked \subseteq waiting
  /\ phase # "admit" => step.picked = {}

LPInvariant == LPTypeOK /\ StepOK /\ OnePlace

(* The member of the running list a decode or a preemption picks.          *)
LEMMA RunningMember ==
  ASSUME TypeOK, running # {}
  PROVE  Min(running) \in running /\ Max(running) \in running
  BY SeqsSubset, MinMember, MaxMember DEF TypeOK

LEMMA PlacesInit == LPInit => StepOK /\ OnePlace
  BY DEF LPInit, Init, StepOK, OnePlace, NoStep, Batch

LEMMA PlacesInductive == LPInvariant /\ [LPNext]_allVars => StepOK' /\ OnePlace'
<1> SUFFICES ASSUME LPInvariant, [LPNext]_allVars PROVE StepOK' /\ OnePlace'
  OBVIOUS
<1>0. TypeOK /\ step \in Steps /\ StepOK /\ OnePlace
  BY DEF LPInvariant, LPTypeOK, TypeOK
<1> USE <1>0 DEF StepOK, OnePlace, Batch
<1>1. ASSUME NEW s \in Seqs, LPAddRequest(s) PROVE StepOK' /\ OnePlace'
  BY <1>1 DEF LPAddRequest, AddRequest, lpVars
<1>2. ASSUME NEW s \in Seqs, GetHpRequest(s) PROVE StepOK' /\ OnePlace'
  BY <1>2 DEF GetHpRequest, vars, engineVars
<1>3. ASSUME NEW late \in SUBSET waiting, LPBeginStep(late) PROVE StepOK' /\ OnePlace'
  <2>1. /\ phase = "idle" /\ phase' = "decode"
        /\ step = NoStep /\ waiting' = waiting \ late
        /\ step' = [NoStep EXCEPT !.aborted = late]
        /\ UNCHANGED <<running, arrived, reported, hpQueue, handed>>
    BY <1>3 DEF LPBeginStep, BeginStep, lpVars
  <2>2. /\ step.kept = {} /\ step.aborted = {} /\ step'.aborted = late
        /\ step'.kept = {} /\ step'.prompts = {} /\ step'.decodes = {}
        /\ step'.ignored = {} /\ step'.picked = {}
    BY <2>1 DEF NoStep
  <2> QED
    BY <2>1, <2>2
<1>4. CASE LPScheduleDecode
  <2> DEFINE s == Min(running)
  <2>1. s \in running
    BY <1>4, RunningMember DEF LPScheduleDecode, ScheduleDecode
  <2>2. /\ phase = "decode" /\ phase' = phase
        /\ running' = running \ {s}
        /\ step' = [step EXCEPT !.kept = @ \cup {s}, !.decodes = @ \cup {s}]
        /\ UNCHANGED <<waiting, arrived, reported, hpQueue, handed>>
    BY <1>4 DEF LPScheduleDecode, ScheduleDecode, lpVars
  <2> HIDE DEF s
  <2>3. /\ step'.kept = step.kept \cup {s} /\ step'.decodes = step.decodes \cup {s}
        /\ step'.prompts = step.prompts /\ step'.ignored = step.ignored
        /\ step'.aborted = step.aborted /\ step'.picked = step.picked
    BY <2>2 DEF Steps
  <2> QED
    BY <2>1, <2>2, <2>3
<1>5. CASE LPPreempt
  <2> DEFINE v == Max(running)
  <2>1. v \in running
    BY <1>5, RunningMember DEF LPPreempt, PreemptNewest, Victim
  <2>2. /\ phase = "decode" /\ phase' = phase
        /\ running' = running \ {v} /\ waiting' = waiting \cup {v}
        /\ step' = [step EXCEPT !.preempted = @ \cup {v}]
        /\ UNCHANGED <<arrived, reported, hpQueue, handed>>
    BY <1>5 DEF LPPreempt, PreemptNewest, Victim, lpVars
  <2> HIDE DEF v
  <2>3. /\ step'.kept = step.kept /\ step'.decodes = step.decodes
        /\ step'.prompts = step.prompts /\ step'.ignored = step.ignored
        /\ step'.aborted = step.aborted /\ step'.picked = step.picked
    BY <2>2 DEF Steps
  <2> QED
    BY <2>1, <2>2, <2>3
<1>6. CASE LPEndDecode
  <2>1. /\ phase = "decode" /\ phase' = "select"
        /\ running = {} /\ running' = step.kept
        /\ step' = [step EXCEPT !.kept = {}]
        /\ UNCHANGED <<waiting, arrived, reported, hpQueue, handed>>
    BY <1>6 DEF LPEndDecode, EndDecode, lpVars
  <2>2. /\ step'.kept = {} /\ step'.decodes = step.decodes
        /\ step'.prompts = step.prompts /\ step'.ignored = step.ignored
        /\ step'.aborted = step.aborted /\ step'.picked = step.picked
    BY <2>1 DEF Steps
  <2> QED
    BY <2>1, <2>2
<1>7. CASE LPSelect
  <2>1. /\ phase = "select" /\ phase' = "admit"
        /\ UNCHANGED <<waiting, running, arrived, reported, hpQueue, handed>>
    BY <1>7 DEF LPSelect, lpVars
  <2>2. /\ step'.kept = step.kept /\ step'.decodes = step.decodes
        /\ step'.prompts = step.prompts /\ step'.ignored = step.ignored
        /\ step'.aborted = step.aborted /\ step'.picked \subseteq waiting
    <3>1. CASE UNCHANGED step
      BY <3>1
    <3>2. ASSUME NEW T \in Selections, step' = [step EXCEPT !.picked = T]
          PROVE  step'.picked \subseteq waiting /\ step' = [step EXCEPT !.picked = T]
      BY <3>2 DEF Selections, Steps
    <3> QED
      BY <1>7, <3>1, <3>2 DEF LPSelect, Steps
  <2> QED
    BY <2>1, <2>2
<1>8. ASSUME NEW s \in Seqs, LPAdmit(s) PROVE StepOK' /\ OnePlace'
  <2>1. /\ phase = "admit" /\ phase' = phase /\ s \in step.picked
        /\ waiting' = waiting \ {s} /\ running' = running \cup {s}
        /\ step' = [step EXCEPT !.picked = @ \ {s}, !.prompts = @ \cup {s}]
        /\ UNCHANGED <<arrived, reported, hpQueue, handed>>
    BY <1>8 DEF LPAdmit, lpVars
  <2>2. /\ step'.kept = step.kept /\ step'.decodes = step.decodes
        /\ step'.prompts = step.prompts \cup {s} /\ step'.ignored = step.ignored
        /\ step'.aborted = step.aborted /\ step'.picked = step.picked \ {s}
    BY <2>1 DEF Steps
  <2> QED
    BY <2>1, <2>2
<1>9. ASSUME NEW s \in Seqs, LPSkip(s) PROVE StepOK' /\ OnePlace'
  <2>1. /\ phase = "admit" /\ phase' = phase
        /\ step' = [step EXCEPT !.picked = @ \ {s}]
        /\ UNCHANGED <<waiting, running, arrived, reported, hpQueue, handed>>
    BY <1>9 DEF LPSkip, lpVars
  <2>2. /\ step'.kept = step.kept /\ step'.decodes = step.decodes
        /\ step'.prompts = step.prompts /\ step'.ignored = step.ignored
        /\ step'.aborted = step.aborted /\ step'.picked = step.picked \ {s}
    BY <2>1 DEF Steps
  <2> QED
    BY <2>1, <2>2
<1>10. ASSUME NEW late \in SUBSET waiting, LPOffload(late) PROVE StepOK' /\ OnePlace'
  BY <1>10 DEF LPOffload
<1>11. CASE LPDispatch
  <2>1. CASE DispatchNothing
    BY <1>11, <2>1 DEF LPDispatch, DispatchNothing, lpVars, NoStep
  <2>2. CASE DispatchAborts
    BY <1>11, <2>2 DEF LPDispatch, DispatchAborts, lpVars, NoStep
  <2>3. ASSUME NEW stop \in SUBSET Seqs, DispatchBatch(stop) PROVE StepOK' /\ OnePlace'
    <3>1. /\ phase = "dispatch" /\ phase' = "wait"
          /\ step' = [step EXCEPT !.stop = stop]
          /\ UNCHANGED <<waiting, running, arrived, reported, hpQueue, handed>>
      BY <1>11, <2>3 DEF LPDispatch, DispatchBatch, lpVars
    <3>2. /\ step'.kept = step.kept /\ step'.decodes = step.decodes
          /\ step'.prompts = step.prompts /\ step'.ignored = step.ignored
          /\ step'.aborted = step.aborted /\ step'.picked = step.picked
      BY <3>1 DEF Steps
    <3> QED
      BY <3>1, <3>2
  <2> QED
    BY <1>11, <2>1, <2>2, <2>3 DEF LPDispatch
<1>12. CASE LPComplete
  <2>1. PICK done \in SUBSET Batch(step) :
          /\ running' = running \ done
          /\ reported' = reported \cup done \cup step.ignored \cup step.aborted
    BY <1>12 DEF LPComplete, Complete
  <2>2. /\ phase = "wait" /\ phase' = "idle" /\ step' = NoStep
        /\ UNCHANGED <<waiting, arrived, hpQueue, handed>>
    BY <1>12 DEF LPComplete, Complete, lpVars
  <2>3. /\ step'.kept = {} /\ step'.decodes = {} /\ step'.prompts = {}
        /\ step'.ignored = {} /\ step'.aborted = {} /\ step'.picked = {}
    BY <2>2 DEF NoStep
  <2> QED
    BY <2>1, <2>2, <2>3
<1>13. CASE LPWorker
  <2>1. UNCHANGED <<engineVars, lpVars>>
    BY <1>13 DEF LPWorker, WorkerNext, WorkerSkip, WorkerExecute
  <2> QED
    BY <2>1 DEF engineVars, lpVars
<1>14. CASE UNCHANGED allVars
  BY <1>14 DEF allVars, lpVars, vars, engineVars
<1> QED
  BY <1>1, <1>2, <1>3, <1>4, <1>5, <1>6, <1>7, <1>8, <1>9, <1>10, <1>11, <1>12,
     <1>13, <1>14 DEF LPNext, LPStep

LEMMA LPInductive == LPSpec => []LPInvariant
<1>1. LPInit => LPInvariant
  BY LPInitType, PlacesInit DEF LPInvariant
<1>2. LPInvariant /\ [LPNext]_allVars => LPInvariant'
  BY LPTypeInductive, PlacesInductive DEF LPInvariant
<1> QED
  BY <1>1, <1>2, PTL DEF LPSpec

(* No request is lost or duplicated: whatever is preempted, aborted or     *)
(* offloaded, each request given to the instance is in exactly one of its  *)
(* lists, or has left it once.                                             *)
THEOREM LPExactlyOnePlace == LPSpec => []OnePlace
<1>1. LPInvariant => OnePlace
  BY DEF LPInvariant
<1> QED
  BY <1>1, LPInductive, PTL

-----------------------------------------------------------------------------
(* An offloaded request was never touched.                                 *)

(* A request that was never scheduled has the object it arrived with, no   *)
(* block, and is in no message to a worker; and the converse facts that    *)
(* tie the flag SequenceState._is_scheduled to the places of a request.    *)
FreshObjects ==
  \A s \in Seqs : ~seq[s].scheduled /\ s \notin reported \cup step.aborted
                => seq[s] = NewObject(shape[s].prompt)

FreshBlocks ==
  \A s \in Seqs : ~seq[s].scheduled /\ s \notin step.prompts
                => table[s] = 0 /\ s \notin running \cup step.kept

FreshOnWorkers ==
  \A s \in Seqs : ~seq[s].scheduled =>
    \A w \in Workers : /\ wtable[w][s] = 0
                      /\ \A i \in DOMAIN inbox[w] : s \notin Batch(inbox[w][i])

FreshLeave == \A s \in hpQueue \cup handed : ~seq[s].scheduled

ServedScheduled ==
  /\ \A s \in step.preempted : seq[s].scheduled
  /\ phase = "wait" => \A s \in Batch(step) : seq[s].scheduled

Fresh == FreshObjects /\ FreshBlocks /\ FreshOnWorkers /\ FreshLeave /\ ServedScheduled

(* The batch of a schedule: each member is marked when it is dispatched.   *)
LEMMA BatchGetsScheduled ==
  ASSUME LPInvariant, Fresh, NEW stop, DispatchBatch(stop), NEW s \in Batch(step)
  PROVE  seq'[s].scheduled
<1>0. /\ phase = "dispatch" /\ s \in running /\ s \in Seqs
      /\ seq[s] \in SequenceObjects
  BY DEF DispatchBatch, LPInvariant, LPTypeOK, TypeOK, StepOK
<1>1. seq'[s] = IF s \in step.preempted THEN ResetForRecompute(seq[s])
                ELSE SetStatus(seq[s], "RUNNING")
  BY <1>0 DEF DispatchBatch
<1>2. CASE s \in step.preempted
  <2>1. seq[s].scheduled
    BY <1>2 DEF Fresh, ServedScheduled
  <2>2. ResetForRecompute(seq[s]).scheduled = seq[s].scheduled
    BY <1>0, ResetScheduled
  <2> QED
    BY <1>1, <1>2, <2>1, <2>2
<1>3. CASE s \notin step.preempted
  <2>1. seq[s].status = "WAITING" \/ seq[s].scheduled
    <3>1. SUFFICES ASSUME ~seq[s].scheduled PROVE seq[s].status = "WAITING"
      OBVIOUS
    <3>2. s \notin reported \cup step.aborted
      BY <1>0 DEF LPInvariant, OnePlace
    <3>3. seq[s] = NewObject(shape[s].prompt)
      BY <1>0, <3>1, <3>2 DEF Fresh, FreshObjects
    <3> QED
      BY <3>3 DEF NewObject
  <2>2. SetStatus(seq[s], "RUNNING").scheduled
    BY <1>0, <2>1, SetStatusScheduled DEF Status, Executing, SequenceObjects
  <2> QED
    BY <1>1, <1>3, <2>2
<1> QED
  BY <1>2, <1>3

(* What a step does to the flag and to the object of a request.            *)
LEMMA ScheduledStep ==
  ASSUME LPInvariant, Fresh, LPNext, NEW s \in Seqs
  PROVE  /\ seq[s].scheduled => seq'[s].scheduled
         /\ ~seq'[s].scheduled => seq'[s] = seq[s] \/ s \in step'.aborted
         /\ s \notin Batch(step) => seq'[s].scheduled = seq[s].scheduled
<1> DEFINE Good == /\ seq[s].scheduled => seq'[s].scheduled
                   /\ ~seq'[s].scheduled => seq'[s] = seq[s] \/ s \in step'.aborted
                   /\ s \notin Batch(step) => seq'[s].scheduled = seq[s].scheduled
<1>0. TypeOK /\ seq[s] \in SequenceObjects
  BY DEF LPInvariant, LPTypeOK, TypeOK
<1>1. CASE seq' = seq
  BY <1>1
<1>2. ASSUME NEW late \in SUBSET waiting, LPBeginStep(late) PROVE Good
  <2>1. step'.aborted = late
    BY <1>2 DEF LPBeginStep, BeginStep, NoStep
  <2>2. seq'[s] = IF s \in late THEN SetStatus(seq[s], "FINISHED_ABORTED") ELSE seq[s]
    BY <1>2 DEF LPBeginStep, BeginStep
  <2>3. SetStatus(seq[s], "FINISHED_ABORTED").scheduled = seq[s].scheduled
    BY <1>0, SetStatusScheduled DEF Status, Finished, SequenceObjects
  <2> QED
    BY <2>1, <2>2, <2>3
<1>3. ASSUME NEW stop \in SUBSET Seqs, DispatchBatch(stop) PROVE Good
  <2>1. seq'[s] = IF s \in step.preempted THEN ResetForRecompute(seq[s])
                  ELSE IF s \in Batch(step) THEN SetStatus(seq[s], "RUNNING")
                  ELSE seq[s]
    BY <1>3 DEF DispatchBatch
  <2>2. ResetForRecompute(seq[s]).scheduled = seq[s].scheduled
    BY <1>0, ResetScheduled
  <2>3. CASE s \in step.preempted
    <3>1. seq[s].scheduled
      BY <2>3 DEF Fresh, ServedScheduled
    <3>2. seq'[s] = ResetForRecompute(seq[s])
      BY <2>1, <2>3
    <3>3. seq'[s].scheduled = seq[s].scheduled
      BY <2>2, <3>2
    <3> QED
      BY <3>1, <3>3
  <2>4. CASE s \notin step.preempted /\ s \in Batch(step)
    BY <1>3, <2>4, BatchGetsScheduled
  <2>5. CASE s \notin step.preempted /\ s \notin Batch(step)
    BY <2>1, <2>5
  <2> QED
    BY <2>3, <2>4, <2>5
<1>4. ASSUME NEW text \in SUBSET Seqs, Complete(text) PROVE Good
  <2> DEFINE ends == s \in step.stop
             found == s \in text
             next == CompleteStep(seq[s], Chunk(seq[s]), shape[s].maxTokens, found, ends)
  <2>1. seq'[s] = IF s \in Batch(step) THEN next ELSE seq[s]
    BY <1>4 DEF Complete
  <2>2. ends \in BOOLEAN /\ found \in BOOLEAN
    OBVIOUS
  <2>3. s \in Batch(step) => seq[s].scheduled
    BY <1>4 DEF Complete, Fresh, ServedScheduled
  <2> HIDE DEF ends, found
  <2>4. next.scheduled = seq[s].scheduled
    BY <1>0, <2>2, CompleteScheduled
  <2> HIDE DEF next
  <2> QED
    BY <2>1, <2>3, <2>4
<1>5. \/ seq' = seq
      \/ \E text \in SUBSET Seqs : Complete(text)
      \/ \E late \in SUBSET waiting : LPBeginStep(late)
      \/ \E stop \in SUBSET Seqs : DispatchBatch(stop)
  BY DEF LPNext, LPStep, LPAddRequest, AddRequest, GetHpRequest, vars, engineVars,
         LPScheduleDecode, ScheduleDecode, LPPreempt, PreemptNewest, LPEndDecode, EndDecode,
         LPSelect, LPAdmit, LPSkip, LPOffload, LPDispatch, DispatchNothing, DispatchAborts,
         LPComplete, LPWorker, WorkerNext, WorkerSkip, WorkerExecute
<1> QED
  BY <1>1, <1>2, <1>3, <1>4, <1>5

(* Requests that ended stay ended, and their parameters never change.      *)
LEMMA EndedStep ==
  ASSUME LPInvariant, LPNext
  PROVE  /\ reported \cup step.aborted \subseteq reported' \cup step'.aborted
         /\ shape' = shape
<1>0. step \in Steps /\ (phase = "idle" => step.aborted = {})
  BY DEF LPInvariant, LPTypeOK, TypeOK, StepOK, NoStep
<1>1. shape' = shape
  BY DEF LPNext, LPStep, LPAddRequest, AddRequest, GetHpRequest, vars, engineVars,
         LPBeginStep, BeginStep, LPScheduleDecode, ScheduleDecode, LPPreempt, PreemptNewest,
         LPEndDecode, EndDecode, LPSelect, LPAdmit, LPSkip, LPOffload, LPDispatch,
         DispatchNothing, DispatchAborts, DispatchBatch, LPComplete, Complete,
         LPWorker, WorkerNext, WorkerSkip, WorkerExecute
<1>2. CASE step' = step /\ reported' = reported
  BY <1>1, <1>2
<1>3. ASSUME NEW late \in SUBSET waiting, LPBeginStep(late)
      PROVE  step.aborted = {} /\ reported' = reported
  BY <1>0, <1>3 DEF LPBeginStep, BeginStep
<1>4. CASE DispatchNothing
  BY <1>4 DEF DispatchNothing
<1>5. CASE DispatchAborts
  BY <1>5 DEF DispatchAborts
<1>6. CASE \E text \in SUBSET Seqs : Complete(text)
  BY <1>6 DEF Complete
<1>7. CASE step'.aborted = step.aborted /\ reported' = reported
  BY <1>1, <1>7
<1>8. \/ step' = step /\ reported' = reported
      \/ \E late \in SUBSET waiting : LPBeginStep(late)
      \/ DispatchNothing \/ DispatchAborts
      \/ \E text \in SUBSET Seqs : Complete(text)
      \/ step'.aborted = step.aborted /\ reported' = reported
  <2>1. CASE LPScheduleDecode \/ LPPreempt \/ LPEndDecode
    BY <1>0, <2>1 DEF LPScheduleDecode, ScheduleDecode, LPPreempt, PreemptNewest,
                      LPEndDecode, EndDecode, Steps
  <2>2. CASE LPSelect \/ \E s \in Seqs : LPAdmit(s) \/ LPSkip(s)
    BY <1>0, <2>2 DEF LPSelect, LPAdmit, LPSkip, Steps
  <2>3. CASE LPDispatch
    BY <1>0, <2>3 DEF LPDispatch, DispatchBatch, Steps
  <2>4. CASE \/ \E s \in Seqs : LPAddRequest(s) \/ GetHpRequest(s)
             \/ \E late \in SUBSET waiting : LPOffload(late)
             \/ LPWorker
    BY <2>4 DEF LPAddRequest, AddRequest, GetHpRequest, vars, engineVars, LPOffload,
                LPWorker, WorkerNext, WorkerSkip, WorkerExecute
  <2> QED
    BY <2>1, <2>2, <2>3, <2>4 DEF LPNext, LPStep, LPComplete
<1> QED
  BY <1>1, <1>2, <1>3, <1>4, <1>5, <1>6, <1>7, <1>8

LEMMA FreshObjectsStep ==
  ASSUME LPInvariant, Fresh, LPNext
  PROVE  FreshObjects'
<1> SUFFICES ASSUME NEW s \in Seqs, ~seq'[s].scheduled, s \notin reported' \cup step'.aborted
             PROVE  seq'[s] = NewObject(shape'[s].prompt)
  BY DEF FreshObjects
<1>1. ~seq[s].scheduled /\ seq'[s] = seq[s]
  BY ScheduledStep
<1>2. s \notin reported \cup step.aborted /\ shape' = shape
  BY EndedStep
<1> QED
  BY <1>1, <1>2 DEF Fresh, FreshObjects

LEMMA FreshLeaveStep ==
  ASSUME LPInvariant, Fresh, LPNext
  PROVE  FreshLeave'
<1> SUFFICES ASSUME NEW s \in hpQueue' \cup handed' PROVE ~seq'[s].scheduled
  BY DEF FreshLeave
<1>0. waiting \subseteq Seqs /\ hpQueue \subseteq Seqs /\ handed \subseteq Seqs
  BY DEF LPInvariant, LPTypeOK, TypeOK
<1>1. CASE s \in hpQueue \cup handed
  <2>1. s \in Seqs /\ ~seq[s].scheduled
    BY <1>0, <1>1 DEF Fresh, FreshLeave
  <2>2. Batch(step) \subseteq running \cup step.kept
    BY DEF LPInvariant, StepOK, Batch
  <2>3. s \notin Batch(step)
    BY <1>1, <2>2 DEF LPInvariant, OnePlace
  <2> QED
    BY <2>1, <2>3, ScheduledStep
<1>2. CASE s \notin hpQueue \cup handed
  <2>1. PICK late \in SUBSET waiting : LPOffload(late)
    <3>1. CASE hpQueue' \cup handed' \subseteq hpQueue \cup handed
      BY <1>2, <3>1
    <3>2. CASE UNCHANGED lpVars
      BY <1>2, <3>2 DEF lpVars
    <3>3. ASSUME NEW r \in Seqs, GetHpRequest(r)
          PROVE  hpQueue' \cup handed' \subseteq hpQueue \cup handed
      BY <3>3 DEF GetHpRequest
    <3>4. \/ UNCHANGED lpVars
          \/ \E r \in Seqs : GetHpRequest(r)
          \/ \E late \in SUBSET waiting : LPOffload(late)
      BY DEF LPNext, LPStep, LPAddRequest, LPBeginStep, LPScheduleDecode, LPPreempt,
             LPEndDecode, LPSelect, LPAdmit, LPSkip, LPDispatch, LPComplete, LPWorker
    <3> QED
      BY <3>1, <3>2, <3>3, <3>4
  <2>2. s \in late /\ seq' = seq /\ ~seq[s].scheduled
    BY <1>2, <2>1 DEF LPOffload
  <2> QED
    BY <2>2
<1> QED
  BY <1>1, <1>2

LEMMA FreshOnWorkersStep ==
  ASSUME LPInvariant, Fresh, LPNext
  PROVE  FreshOnWorkers'
<1> SUFFICES ASSUME NEW s \in Seqs, ~seq'[s].scheduled, NEW w \in Workers
             PROVE  /\ wtable'[w][s] = 0
                    /\ \A i \in DOMAIN inbox'[w] : s \notin Batch(inbox'[w][i])
  BY DEF FreshOnWorkers
<1>0. TypeOK
  BY DEF LPInvariant, LPTypeOK
<1>1. ~seq[s].scheduled
  BY ScheduledStep
<1>2. wtable[w][s] = 0 /\ \A i \in DOMAIN inbox[w] : s \notin Batch(inbox[w][i])
  BY <1>1 DEF Fresh, FreshOnWorkers
<1>3. CASE UNCHANGED <<wtable, inbox>>
  BY <1>2, <1>3
<1>4. CASE DispatchAborts \/ \E stop \in SUBSET Seqs : DispatchBatch(stop)
  <2>1. wtable' = wtable
    BY <1>4 DEF DispatchAborts, DispatchBatch, workerVars
  <2>2. PICK stop : inbox'[w] = Append(inbox[w], Message(stop))
    BY <1>4 DEF DispatchAborts, DispatchBatch, Send
  <2>3. s \notin Batch(step)
    <3>1. CASE DispatchAborts
      BY <3>1 DEF DispatchAborts
    <3>2. ASSUME NEW st \in SUBSET Seqs, DispatchBatch(st) PROVE s \notin Batch(step)
      BY <3>2, ScheduledStep, BatchGetsScheduled
    <3> QED
      BY <1>4, <3>1, <3>2
  <2>4. Batch(Message(stop)) = Batch(step)
    BY DEF Batch, Message
  <2>5. inbox[w] \in Seq(Messages)
    BY <1>0 DEF TypeOK
  <2> QED
    BY <1>2, <2>1, <2>2, <2>3, <2>4, <2>5
<1>5. ASSUME NEW v \in Workers, WorkerSkip(v) \/ WorkerExecute(v)
      PROVE  /\ wtable'[w][s] = 0
             /\ \A i \in DOMAIN inbox'[w] : s \notin Batch(inbox'[w][i])
  <2>1. CASE v # w
    <3>1. wtable'[w] = wtable[w] /\ inbox'[w] = inbox[w]
      BY <1>0, <1>5, <2>1 DEF WorkerSkip, WorkerExecute, TypeOK
    <3> QED
      BY <1>2, <3>1
  <2>2. CASE v = w
    <3> DEFINE m == Head(inbox[w])
    <3>1. inbox[w] # <<>> /\ inbox'[w] = Tail(inbox[w]) /\ inbox[w] \in Seq(Messages)
      BY <1>0, <1>5, <2>2 DEF WorkerSkip, WorkerExecute, TypeOK
    <3>2. \A i \in DOMAIN inbox'[w] : s \notin Batch(inbox'[w][i])
      BY <1>2, <3>1
    <3>3. s \notin Batch(m)
      BY <1>2, <3>1
    <3>4. wtable'[w][s] = 0
      <4>1. CASE WorkerSkip(w)
        BY <1>0, <1>2, <4>1 DEF WorkerSkip, TypeOK
      <4>2. CASE WorkerExecute(w)
        <5>1. WorkerAllocated(w, m)[s] = 0
          BY <1>2, <3>3 DEF WorkerAllocated, WorkerFreed
        <5>2. wtable'[w][s] \in {0, WorkerAllocated(w, m)[s]}
          BY <1>0, <4>2 DEF WorkerExecute, TypeOK
        <5> QED
          BY <5>1, <5>2
      <4> QED
        BY <1>5, <2>2, <4>1, <4>2
    <3> QED
      BY <3>2, <3>4
  <2> QED
    BY <2>1, <2>2
<1>6. \/ UNCHANGED <<wtable, inbox>>
      \/ DispatchAborts \/ \E stop \in SUBSET Seqs : DispatchBatch(stop)
      \/ \E v \in Workers : WorkerSkip(v) \/ WorkerExecute(v)
  BY DEF LPNext, LPStep, LPAddRequest, AddRequest, GetHpRequest, vars, workerVars, channelVars,
         LPBeginStep, BeginStep, LPScheduleDecode, ScheduleDecode, LPPreempt, PreemptNewest,
         LPEndDecode, EndDecode, LPSelect, LPAdmit, LPSkip, LPOffload, LPDispatch,
         DispatchNothing, LPComplete, Complete, LPWorker, WorkerNext
<1> QED
  BY <1>3, <1>4, <1>5, <1>6

(* The prompts of a schedule stay in it until they are dispatched.         *)
LEMMA PromptsStay ==
  ASSUME LPInvariant, Fresh, LPNext, NEW s \in step.prompts, s \notin step'.prompts
  PROVE  seq'[s].scheduled
<1>0. /\ TypeOK /\ step \in Steps /\ s \in Batch(step) /\ s \in Seqs
      /\ phase = "idle" => step.prompts = {}
  BY DEF LPInvariant, LPTypeOK, TypeOK, StepOK, NoStep, Batch, Steps
<1>1. CASE \E text \in SUBSET Seqs : Complete(text)
  BY <1>0, <1>1, ScheduledStep DEF Complete, Fresh, ServedScheduled
<1>2. CASE step' = step
  BY <1>2
<1>3. CASE phase = "idle" \/ Batch(step) = {}
  BY <1>0, <1>3
<1>4. CASE LPScheduleDecode \/ LPPreempt \/ LPEndDecode
  BY <1>0, <1>4 DEF LPScheduleDecode, ScheduleDecode, LPPreempt, PreemptNewest,
                    LPEndDecode, EndDecode, Steps
<1>5. CASE LPSelect \/ \E r \in Seqs : LPAdmit(r) \/ LPSkip(r)
  BY <1>0, <1>5 DEF LPSelect, LPAdmit, LPSkip, Steps
<1>6. ASSUME NEW stop \in SUBSET Seqs, DispatchBatch(stop) PROVE seq'[s].scheduled
  BY <1>0, <1>6, BatchGetsScheduled
<1>7. \/ \E text \in SUBSET Seqs : Complete(text)
      \/ step' = step \/ phase = "idle" \/ Batch(step) = {}
      \/ LPScheduleDecode \/ LPPreempt \/ LPEndDecode
      \/ LPSelect \/ \E r \in Seqs : LPAdmit(r) \/ LPSkip(r)
      \/ \E stop \in SUBSET Seqs : DispatchBatch(stop)
  BY DEF LPNext, LPStep, LPAddRequest, AddRequest, GetHpRequest, vars, engineVars,
         LPBeginStep, BeginStep, LPOffload, LPDispatch, DispatchNothing, DispatchAborts,
         LPComplete, LPWorker, WorkerNext, WorkerSkip, WorkerExecute
<1> QED
  BY <1>1, <1>2, <1>3, <1>4, <1>5, <1>6, <1>7

LEMMA FreshBlocksStep ==
  ASSUME LPInvariant, Fresh, LPNext
  PROVE  FreshBlocks'
<1> DEFINE Good(s) == table'[s] = 0 /\ s \notin running' \cup step'.kept
<1> SUFFICES ASSUME NEW s \in Seqs, ~seq'[s].scheduled, s \notin step'.prompts
             PROVE  Good(s)
  BY DEF FreshBlocks
<1>0. TypeOK /\ step \in Steps
  BY DEF LPInvariant, LPTypeOK, TypeOK
<1>1. ~seq[s].scheduled /\ s \notin step.prompts
  BY ScheduledStep, PromptsStay
<1>2. table[s] = 0 /\ s \notin running \cup step.kept
  BY <1>1 DEF Fresh, FreshBlocks
<1>3. CASE UNCHANGED <<table, running, step>>
  BY <1>2, <1>3
<1>4. ASSUME NEW late \in SUBSET waiting, LPBeginStep(late) PROVE Good(s)
  BY <1>2, <1>4 DEF LPBeginStep, BeginStep, NoStep
<1>5. CASE LPScheduleDecode
  <2>1. Min(running) \in running
    BY <1>0, <1>5, RunningMember DEF LPScheduleDecode, ScheduleDecode
  <2> DEFINE head == Min(running)
             held == AppendSlot(table[head], seq[head])
  <2>2. /\ table' = [table EXCEPT ![head] = held]
        /\ running' = running \ {head}
        /\ step'.kept = step.kept \cup {head}
    BY <1>0, <1>5 DEF LPScheduleDecode, ScheduleDecode, Steps
  <2> HIDE DEF held, head
  <2>3. head # s
    BY <1>2, <2>1 DEF head
  <2> QED
    BY <1>0, <1>2, <2>2, <2>3 DEF TypeOK
<1>6. CASE LPPreempt
  <2>1. Max(running) \in running
    BY <1>0, <1>6, RunningMember DEF LPPreempt, PreemptNewest, Victim
  <2> DEFINE v == Max(running)
  <2>2. /\ table' = [table EXCEPT ![v] = 0]
        /\ running' = running \ {v}
        /\ step'.kept = step.kept
    BY <1>0, <1>6 DEF LPPreempt, PreemptNewest, Victim, Steps
  <2> HIDE DEF v
  <2> QED
    BY <1>0, <1>2, <2>2 DEF TypeOK
<1>7. CASE LPEndDecode
  BY <1>0, <1>2, <1>7 DEF LPEndDecode, EndDecode, Steps
<1>8. CASE LPSelect \/ \E r \in Seqs : LPSkip(r)
  BY <1>0, <1>2, <1>8 DEF LPSelect, LPSkip, Steps
<1>9. ASSUME NEW r \in Seqs, LPAdmit(r) PROVE Good(s)
  <2> DEFINE held == LogicalBlocks(seq[r])
  <2>1. /\ table' = [table EXCEPT ![r] = held]
        /\ running' = running \cup {r}
        /\ step'.kept = step.kept
        /\ step'.prompts = step.prompts \cup {r}
    BY <1>0, <1>9 DEF LPAdmit, Steps
  <2> HIDE DEF held
  <2>2. r # s
    BY <2>1
  <2> QED
    BY <1>0, <1>2, <2>1, <2>2 DEF TypeOK
<1>10. CASE DispatchNothing \/ DispatchAborts
  BY <1>2, <1>10 DEF DispatchNothing, DispatchAborts, NoStep
<1>11. ASSUME NEW stop \in SUBSET Seqs, DispatchBatch(stop) PROVE Good(s)
  BY <1>0, <1>2, <1>11 DEF DispatchBatch, Steps
<1>12. CASE \E text \in SUBSET Seqs : Complete(text)
  <2>1. table'[s] \in {0, table[s]} /\ running' \subseteq running /\ step'.kept = {}
    BY <1>12 DEF Complete, NoStep
  <2> QED
    BY <1>2, <2>1
<1> HIDE DEF Good
<1>13. \/ UNCHANGED <<table, running, step>>
       \/ \E late \in SUBSET waiting : LPBeginStep(late)
       \/ LPScheduleDecode \/ LPPreempt \/ LPEndDecode
       \/ LPSelect \/ \E r \in Seqs : LPSkip(r)
       \/ \E r \in Seqs : LPAdmit(r)
       \/ DispatchNothing \/ DispatchAborts
       \/ \E stop \in SUBSET Seqs : DispatchBatch(stop)
       \/ \E text \in SUBSET Seqs : Complete(text)
  BY DEF LPNext, LPStep, LPAddRequest, AddRequest, GetHpRequest, vars, engineVars,
         LPOffload, LPDispatch, LPComplete, LPWorker, WorkerNext, WorkerSkip, WorkerExecute
<1> QED
  BY <1>3, <1>4, <1>5, <1>6, <1>7, <1>8, <1>9, <1>10, <1>11, <1>12, <1>13

LEMMA ServedScheduledStep ==
  ASSUME LPInvariant, Fresh, LPNext
  PROVE  ServedScheduled'
<1>0. /\ TypeOK /\ step \in Steps
      /\ phase = "decode" => step.prompts = {}
  BY DEF LPInvariant, LPTypeOK, TypeOK, StepOK
<1>1. ASSUME NEW s \in step'.preempted PROVE seq'[s].scheduled
  <2>1. CASE s \in step.preempted
    <3>1. s \in Seqs /\ seq[s].scheduled
      BY <1>0, <2>1 DEF Steps, Fresh, ServedScheduled
    <3> QED
      BY <3>1, ScheduledStep
  <2>2. CASE s \notin step.preempted
    <3>1. LPPreempt
      <4>1. CASE UNCHANGED step
        BY <1>1, <2>2, <4>1
      <4>2. CASE LPScheduleDecode \/ LPEndDecode
        BY <1>0, <1>1, <2>2, <4>2 DEF LPScheduleDecode, ScheduleDecode, LPEndDecode, EndDecode, Steps
      <4>3. CASE LPSelect \/ \E r \in Seqs : LPAdmit(r) \/ LPSkip(r)
        BY <1>0, <1>1, <2>2, <4>3 DEF LPSelect, LPAdmit, LPSkip, Steps
      <4>4. CASE LPDispatch
        BY <1>0, <1>1, <2>2, <4>4 DEF LPDispatch, DispatchNothing, DispatchAborts, DispatchBatch,
                                      NoStep, Steps
      <4>5. CASE LPComplete \/ \E late \in SUBSET waiting : LPBeginStep(late)
        BY <1>1, <4>5 DEF LPComplete, Complete, LPBeginStep, BeginStep, NoStep
      <4>6. UNCHANGED step \/ LPPreempt \/ LPScheduleDecode \/ LPEndDecode \/ LPSelect
            \/ (\E r \in Seqs : LPAdmit(r) \/ LPSkip(r)) \/ LPDispatch \/ LPComplete
            \/ \E late \in SUBSET waiting : LPBeginStep(late)
        BY DEF LPNext, LPStep, LPAddRequest, AddRequest, GetHpRequest, vars, engineVars,
               LPOffload, LPWorker, WorkerNext, WorkerSkip, WorkerExecute
      <4> QED
        BY <4>1, <4>2, <4>3, <4>4, <4>5, <4>6
    <3>2. /\ s = Max(running) /\ Max(running) \in running /\ seq' = seq /\ phase = "decode"
      BY <1>0, <1>1, <2>2, <3>1, RunningMember DEF LPPreempt, PreemptNewest, Victim, Steps
    <3>3. s \in Seqs /\ s \in running
      BY <1>0, <3>2 DEF TypeOK
    <3> QED
      BY <1>0, <3>2, <3>3 DEF Fresh, FreshBlocks
  <2> QED
    BY <2>1, <2>2
<1>2. ASSUME phase' = "wait", NEW s \in Batch(step') PROVE seq'[s].scheduled
  <2>1. CASE phase = "wait" /\ step' = step
    <3>1. s \in Seqs /\ seq[s].scheduled
      BY <1>0, <1>2, <2>1 DEF Steps, Batch, Fresh, ServedScheduled
    <3> QED
      BY <3>1, ScheduledStep
  <2>2. ASSUME NEW stop \in SUBSET Seqs, DispatchBatch(stop) PROVE seq'[s].scheduled
    <3>1. Batch(step') = Batch(step)
      BY <1>0, <2>2 DEF DispatchBatch, Batch, Steps
    <3> QED
      BY <1>2, <2>2, <3>1, BatchGetsScheduled
  <2>3. (phase = "wait" /\ step' = step) \/ \E stop \in SUBSET Seqs : DispatchBatch(stop)
    BY <1>2 DEF LPNext, LPStep, LPAddRequest, AddRequest, GetHpRequest, vars, engineVars,
           LPBeginStep, BeginStep, LPScheduleDecode, ScheduleDecode, LPPreempt, PreemptNewest,
           LPEndDecode, EndDecode, LPSelect, LPAdmit, LPSkip, LPOffload, LPDispatch,
           DispatchNothing, DispatchAborts, LPComplete, Complete,
           LPWorker, WorkerNext, WorkerSkip, WorkerExecute
  <2> QED
    BY <2>1, <2>2, <2>3
<1> QED
  BY <1>1, <1>2 DEF ServedScheduled

LEMMA FreshInit == LPInit => Fresh
<1> SUFFICES ASSUME LPInit PROVE Fresh
  OBVIOUS
<1>1. \A s \in Seqs : seq[s] = NewObject(shape[s].prompt)
  BY DEF LPInit, Init
<1>2. FreshObjects
  BY <1>1 DEF FreshObjects
<1>3. FreshBlocks
  BY DEF LPInit, Init, FreshBlocks, NoStep
<1>4. FreshOnWorkers
  BY DEF LPInit, Init, FreshOnWorkers
<1>5. FreshLeave /\ ServedScheduled
  BY DEF LPInit, Init, FreshLeave, ServedScheduled, NoStep
<1> QED
  BY <1>2, <1>3, <1>4, <1>5 DEF Fresh

LEMMA FreshStutter == LPInvariant /\ Fresh /\ UNCHANGED allVars => Fresh'
<1> SUFFICES ASSUME LPInvariant, Fresh, UNCHANGED allVars PROVE Fresh'
  OBVIOUS
<1>1. UNCHANGED <<shape, seq, running, table, phase, step, inbox, wtable, reported, hpQueue, handed>>
  BY DEF allVars, lpVars, vars, engineVars, workerVars, channelVars
<1> QED
  BY <1>1 DEF Fresh, FreshObjects, FreshBlocks, FreshOnWorkers, FreshLeave, ServedScheduled, Batch

LEMMA FreshStep == LPInvariant /\ Fresh /\ [LPNext]_allVars => Fresh'
<1>1. LPInvariant /\ Fresh /\ LPNext => Fresh'
  BY FreshObjectsStep, FreshBlocksStep, FreshOnWorkersStep, FreshLeaveStep,
     ServedScheduledStep DEF Fresh
<1> QED
  BY <1>1, FreshStutter

(* A request handed to the high-priority instances was never scheduled:    *)
(* it is as the client sent it, it holds no block on the engine or on any  *)
(* worker, and no schedule still under way to a worker names it.           *)
THEOREM LPOffloadUntouched == LPSpec => []OffloadedUntouched
<1>1. LPInit => LPInvariant /\ Fresh
  BY LPInitType, PlacesInit, FreshInit DEF LPInvariant
<1>2. LPInvariant /\ Fresh /\ [LPNext]_allVars => (LPInvariant /\ Fresh)'
  BY LPTypeInductive, PlacesInductive, FreshStep DEF LPInvariant
<1>3. LPInvariant /\ Fresh => OffloadedUntouched
  <2> SUFFICES ASSUME LPInvariant, Fresh, NEW s \in hpQueue \cup handed
               PROVE  /\ seq[s] = NewObject(shape[s].prompt)
                      /\ table[s] = 0
                      /\ \A w \in Workers :
                           /\ wtable[w][s] = 0
                           /\ \A i \in DOMAIN inbox[w] : s \notin Batch(inbox[w][i])
    BY DEF OffloadedUntouched
  <2>1. s \in Seqs /\ ~seq[s].scheduled
    BY DEF LPInvariant, LPTypeOK, Fresh, FreshLeave
  <2>2. s \notin reported \cup step.aborted
    BY DEF LPInvariant, OnePlace
  <2>3. s \notin step.prompts
    BY DEF LPInvariant, OnePlace, StepOK, Batch
  <2> QED
    BY <2>1, <2>2, <2>3 DEF Fresh, FreshObjects, FreshBlocks, FreshOnWorkers
<1> QED
  BY <1>1, <1>2, <1>3, PTL DEF LPSpec
-----------------------------------------------------------------------------
(* The instance implements RequestStream.                                  *)

StagesMove(R, st) == \A s \in Seqs : Stage(s)' = IF s \in R THEN st ELSE Stage(s)

LEMMA AcceptMaps ==
  ASSUME NEW s \in Seqs, Stage(s) = "unknown", StagesMove({s}, "accepted"), TokensAdded({})
  PROVE  Stream!StreamNext
<1>1. Stream!Accept(s)
  BY DEF Stream!Accept, Stream!Move, StagesMove, TokensAdded, Emitted
<1> QED
  BY <1>1 DEF Stream!StreamNext

LEMMA ServeMaps ==
  ASSUME NEW G \in SUBSET Seqs, NEW E \in SUBSET Seqs,
         \A s \in G \cup E : Stage(s) = "accepted",
         StagesMove(E, "closed"), TokensAdded(G)
  PROVE  Stream!StreamNext
<1>1. Stream!Serve(G, E)
  BY DEF Stream!Serve, Stream!Move, StagesMove, TokensAdded, Emitted
<1> QED
  BY <1>1 DEF Stream!StreamNext

LEMMA HandMaps ==
  ASSUME NEW R \in SUBSET Seqs, \A s \in R : Stage(s) = "accepted" /\ Emitted(s) = 0,
         StagesMove(R, "handed"), TokensAdded({})
  PROVE  Stream!StreamNext
<1>1. Stream!Hand(R)
  BY DEF Stream!Hand, Stream!Move, StagesMove, TokensAdded, Emitted
<1> QED
  BY <1>1 DEF Stream!StreamNext

LEMMA StutterMaps ==
  ASSUME StagesMove({}, "closed"), TokensAdded({})
  PROVE  UNCHANGED Stream!streamVars
  BY DEF Stream!streamVars, StagesMove, TokensAdded, Emitted

(* A step the client does not see.                                         *)
StreamStays ==
  /\ UNCHANGED <<reported, hpQueue \cup handed, arrived>>
  /\ \A s \in Seqs : GetLen(seq'[s]) = GetLen(seq[s])

LEMMA StreamInitially == LPInit => Stream!StreamInit
<1> SUFFICES ASSUME LPInit PROVE Stream!StreamInit
  OBVIOUS
<1>1. \A s \in Seqs : Stage(s) = "unknown"
  BY DEF LPInit, Init, Stage
<1>2. \A s \in Seqs : Emitted(s) = 0
  BY NothingEmitted DEF LPInit
<1> QED
  BY <1>1, <1>2 DEF Stream!StreamInit, Emitted

LEMMA StreamStep ==
  ASSUME LPInvariant, Fresh, LPNext
  PROVE  Stream!StreamNext \/ UNCHANGED Stream!streamVars
<1>0. TypeOK /\ step \in Steps /\ OnePlace /\ StepOK
  BY DEF LPInvariant, LPTypeOK, TypeOK
<1>1. shape' = shape
  BY EndedStep
<1>2. CASE StreamStays
  BY <1>1, <1>2, NothingAdded, StutterMaps DEF StreamStays, StagesMove, Stage
<1>3. ASSUME NEW s \in Seqs, LPAddRequest(s) PROVE Stream!StreamNext
  <2>1. /\ s \notin arrived /\ arrived' = arrived \cup {s}
        /\ UNCHANGED <<seq, reported, hpQueue, handed>>
    BY <1>3 DEF LPAddRequest, AddRequest, lpVars
  <2>2. s \notin reported \cup hpQueue \cup handed
    BY <1>0, <2>1 DEF OnePlace
  <2>3. Stage(s) = "unknown" /\ StagesMove({s}, "accepted")
    BY <2>1, <2>2 DEF Stage, StagesMove
  <2> QED
    BY <1>1, <2>1, <2>3, NothingAdded, AcceptMaps
<1>4. ASSUME NEW late \in SUBSET waiting, LPOffload(late) PROVE Stream!StreamNext
  <2>1. /\ hpQueue' = hpQueue \cup late
        /\ late \subseteq {s \in waiting : ~seq[s].scheduled}
        /\ UNCHANGED <<seq, reported, arrived, handed>>
    BY <1>4 DEF LPOffload
  <2>2. late \in SUBSET Seqs /\ late \subseteq arrived \ (reported \cup hpQueue \cup handed)
    BY <1>0, <2>1 DEF OnePlace, TypeOK
  <2>3. \A s \in late : Emitted(s) = 0
    <3> SUFFICES ASSUME NEW s \in late PROVE Emitted(s) = 0
      OBVIOUS
    <3>1. s \in Seqs /\ ~seq[s].scheduled /\ s \notin reported \cup step.aborted
      BY <1>0, <2>1, <2>2 DEF OnePlace
    <3>2. seq[s] = NewObject(shape[s].prompt) /\ shape[s].prompt \in Nat
      BY <1>0, <3>1, EngineAssumption DEF Fresh, FreshObjects, TypeOK, EngineAssumption
    <3> QED
      BY <3>2 DEF Emitted, GetLen, NewObject
  <2>4. (\A s \in late : Stage(s) = "accepted") /\ StagesMove(late, "handed")
    BY <2>1, <2>2 DEF Stage, StagesMove
  <2> QED
    BY <1>1, <2>1, <2>2, <2>3, <2>4, NothingAdded, HandMaps
<1>5. ASSUME DispatchAborts, UNCHANGED lpVars PROVE Stream!StreamNext
  <2>1. /\ reported' = reported \cup step.aborted
        /\ UNCHANGED <<seq, arrived, hpQueue, handed>>
    BY <1>5 DEF DispatchAborts, lpVars
  <2>2. step.aborted \in SUBSET Seqs
        /\ step.aborted \subseteq arrived \ (reported \cup hpQueue \cup handed)
    BY <1>0 DEF OnePlace, Steps
  <2>3. (\A s \in step.aborted : Stage(s) = "accepted") /\ StagesMove(step.aborted, "closed")
    BY <2>1, <2>2 DEF Stage, StagesMove
  <2>4. TokensAdded({})
    BY <1>1, <2>1, NothingAdded
  <2> QED
    BY <2>2, <2>3, <2>4, ServeMaps
<1>6. ASSUME NEW text \in SUBSET Seqs, Complete(text), UNCHANGED lpVars PROVE Stream!StreamNext
  <2>1. PICK done \in SUBSET Batch(step) :
          reported' = reported \cup done \cup step.ignored \cup step.aborted
    BY <1>6 DEF Complete
  <2>2. UNCHANGED <<arrived, hpQueue, handed>> /\ phase = "wait"
    BY <1>6 DEF Complete, lpVars
  <2> DEFINE E == done \cup step.ignored \cup step.aborted
             G == Grown
  <2>3. /\ Grown \subseteq Batch(step) /\ Batch(step) \subseteq running
        /\ running \subseteq Seqs /\ step.ignored = {}
    BY <1>0, <2>2 DEF StepOK, TypeOK, Grown
  <2>4. /\ E \in SUBSET Seqs /\ G \in SUBSET Seqs
        /\ G \cup E \subseteq arrived \ (reported \cup hpQueue \cup handed)
    BY <1>0, <2>1, <2>3 DEF OnePlace, Steps
  <2>5. TokensAdded(G)
    BY <1>0, <1>6, CompleteTokens
  <2>6. StagesMove(E, "closed") /\ \A s \in G \cup E : Stage(s) = "accepted"
    BY <2>1, <2>2, <2>4 DEF Stage, StagesMove
  <2> HIDE DEF E, G
  <2> QED
    BY <2>4, <2>5, <2>6, ServeMaps
<1>7. \/ StreamStays
      \/ \E s \in Seqs : LPAddRequest(s)
      \/ \E late \in SUBSET waiting : LPOffload(late)
      \/ DispatchAborts /\ UNCHANGED lpVars
      \/ \E text \in SUBSET Seqs : Complete(text) /\ UNCHANGED lpVars
  <2>1. CASE UNCHANGED <<seq, reported, arrived>> /\ hpQueue' \cup handed' = hpQueue \cup handed
    BY <2>1 DEF StreamStays
  <2>2. ASSUME NEW late \in SUBSET waiting, LPBeginStep(late)
        PROVE  StreamStays
    BY <1>0, <2>2, BeginStepLen DEF StreamStays, LPBeginStep, BeginStep, lpVars
  <2>3. ASSUME NEW stop \in SUBSET Seqs, DispatchBatch(stop), UNCHANGED lpVars
        PROVE  StreamStays
    BY <1>0, <2>3, DispatchBatchLen DEF StreamStays, DispatchBatch, lpVars
  <2>4. ASSUME NEW s \in Seqs, GetHpRequest(s)
        PROVE  UNCHANGED <<seq, reported, arrived>> /\ hpQueue' \cup handed' = hpQueue \cup handed
    BY <2>4 DEF GetHpRequest, vars, engineVars
  <2>5. CASE LPScheduleDecode \/ LPPreempt \/ LPEndDecode
    <3>1. UNCHANGED <<seq, reported, arrived, hpQueue, handed>>
      BY <2>5 DEF LPScheduleDecode, ScheduleDecode, LPPreempt, PreemptNewest,
                  LPEndDecode, EndDecode, lpVars
    <3> QED
      BY <2>1, <3>1
  <2>6. CASE LPSelect \/ \E s \in Seqs : LPAdmit(s) \/ LPSkip(s)
    <3>1. LPSelect => UNCHANGED <<seq, reported, arrived, hpQueue, handed>>
      BY DEF LPSelect, lpVars
    <3>2. ASSUME NEW s \in Seqs, LPAdmit(s) \/ LPSkip(s)
          PROVE  UNCHANGED <<seq, reported, arrived, hpQueue, handed>>
      BY <3>2 DEF LPAdmit, LPSkip, lpVars
    <3> QED
      BY <2>1, <2>6, <3>1, <3>2
  <2>7. CASE (DispatchNothing /\ UNCHANGED lpVars) \/ LPWorker
    BY <2>1, <2>7 DEF DispatchNothing, LPWorker, WorkerNext, WorkerSkip, WorkerExecute,
                      lpVars, engineVars
  <2> QED
    BY <2>1, <2>2, <2>3, <2>4, <2>5, <2>6, <2>7 DEF LPNext, LPStep, LPDispatch, LPComplete
<1> QED
  BY <1>2, <1>3, <1>4, <1>5, <1>6, <1>7

(* The low-priority instance keeps the promise of RequestStream: across    *)
(* preemption by recompute, aborts and offloading no token is lost, no     *)
(* token follows the end of a request, and none precedes its departure for *)
(* another instance.                                                       *)
THEOREM LPImplementsStream == LPSpec => ImplementsStream
<1>1. LPInit => LPInvariant /\ Fresh /\ Stream!StreamInit
  BY LPInitType, PlacesInit, FreshInit, StreamInitially DEF LPInvariant
<1>2. LPInvariant /\ Fresh /\ [LPNext]_allVars => (LPInvariant /\ Fresh)'
  BY LPTypeInductive, PlacesInductive, FreshStep DEF LPInvariant
<1>3. LPInvariant /\ Fresh /\ [LPNext]_allVars => [Stream!StreamNext]_(Stream!streamVars)
  <2>1. CASE UNCHANGED allVars
    <3>1. UNCHANGED <<seq, shape, reported, arrived, hpQueue, handed>>
      BY <2>1 DEF allVars, lpVars, vars, engineVars
    <3>2. UNCHANGED Stream!streamVars
      BY <3>1, NothingAdded, StutterMaps DEF StagesMove, Stage
    <3> QED
      BY <3>2
  <2> QED
    BY <2>1, StreamStep
<1> QED
  BY <1>1, <1>2, <1>3, PTL DEF LPSpec, ImplementsStream, Stream!StreamSpec
-----------------------------------------------------------------------------
(* The shared invariant holds here.                                        *)

(* What a batch may still grow to.  While sequences are admitted, the      *)
(* decodes, the prompts already admitted and the solver's choice that is   *)
(* left fit the budgets together; a sequence kept between two steps was    *)
(* within them when it was admitted, because a prompt has a token.         *)
Budget ==
  /\ step.picked # {} => step.preempted = {}
  /\ phase = "select" => step.prompts = {}
  /\ phase \in {"select", "admit", "dispatch"} => running = Batch(step)
  /\ Cardinality(running \cup step.kept) <= MaxNumSeqs
  /\ Cardinality(running \cup step.kept) <= MaxBatchedTokens
  /\ phase = "admit" => Cardinality(running) + Cardinality(step.picked) <= MaxNumSeqs
  /\ phase \in {"admit", "dispatch"} =>
       Cardinality(step.decodes) + PromptTokens(step.prompts) + SolverTokens(step.picked)
         <= MaxBatchedTokens

(* A chosen sequence whose admission is not asserted away is to be         *)
(* prefilled.                                                              *)
LEMMA AdmissibleQueued ==
  ASSUME Sane, NEW s \in waiting, Admissible(s)
  PROVE  Queued(seq[s]) /\ ~PromptProcessed(seq[s])
<1>1. s \in Seqs /\ seq[s] \in SequenceObjects /\ seq[s].prompt > 0
  BY DEF Sane, TypeOK, Ready
<1>2. Queued(seq[s]) \/ Held(seq[s], shape[s].maxTokens)
  BY DEF Sane, Ready
<1>3. ~PromptProcessed(seq[s])
  BY <1>1 DEF Admissible, Chunk, PromptProcessed, SequenceObjects
<1> QED
  BY <1>2, <1>3 DEF Held

LEMMA LPApart == LPInvariant => Apart
  BY DEF LPInvariant, StepOK, OnePlace, Apart

LEMMA LPSaneStep == LPInvariant /\ Fresh /\ Budget /\ Sane /\ [LPNext]_allVars => Sane'
<1> SUFFICES ASSUME LPInvariant, Fresh, Budget, Sane, [LPNext]_allVars PROVE Sane'
  OBVIOUS
<1>0. TypeOK' /\ Apart' /\ TypeOK
  <2>1. LPInvariant'
    BY LPTypeInductive, PlacesInductive DEF LPInvariant
  <2> QED
    BY <2>1, LPApart DEF LPInvariant, LPTypeOK, StepOK, OnePlace, Apart
<1>1. ASSUME NEW s \in Seqs, LPAddRequest(s) PROVE Sane'
  BY <1>0, <1>1, AddRequestSane DEF LPAddRequest
<1>2. ASSUME NEW s \in Seqs, GetHpRequest(s) PROVE Sane'
  BY <1>0, <1>2, EngineStays DEF GetHpRequest, vars
<1>3. ASSUME NEW late \in SUBSET waiting, LPBeginStep(late) PROVE Sane'
  BY <1>0, <1>3, BeginStepSane DEF LPBeginStep
<1>4. CASE LPScheduleDecode
  BY <1>0, <1>4, ScheduleDecodeSane DEF LPScheduleDecode
<1>5. CASE LPPreempt
  BY <1>0, <1>5, PreemptNewestSane DEF LPPreempt
<1>6. CASE LPEndDecode
  BY <1>0, <1>6, EndDecodeSane DEF LPEndDecode
<1>7. CASE LPSelect
  <2>1. /\ phase = "select" /\ phase' = "admit"
        /\ UNCHANGED <<shape, arrived, seq, seqMap, newSeqs, waiting, running, table>>
    BY <1>7 DEF LPSelect
  <2>2. step' = step \/ \E T \in Selections : step' = [step EXCEPT !.picked = T]
    BY <1>7 DEF LPSelect
  <2>3. /\ step'.kept = step.kept /\ step'.decodes = step.decodes
        /\ step'.prompts = step.prompts /\ step'.preempted = step.preempted
        /\ step'.aborted = step.aborted /\ step'.ignored = step.ignored
    BY <1>0, <2>2 DEF TypeOK, Steps
  <2>4. /\ {} \in SUBSET waiting /\ {} \cap step.preempted = {}
        /\ waiting' = waiting \ {} /\ seqMap' = seqMap \ {}
    BY <2>1
  <2> QED
    BY <1>0, <2>1, <2>3, <2>4, SidestepSane
<1>8. ASSUME NEW s \in Seqs, LPAdmit(s) PROVE Sane'
  <2>1. /\ phase = "admit" /\ phase' = phase /\ s \in step.picked /\ Admissible(s) /\ CanAllocate(s)
        /\ table' = [table EXCEPT ![s] = LogicalBlocks(seq[s])]
        /\ waiting' = waiting \ {s} /\ running' = running \cup {s}
        /\ step' = [step EXCEPT !.picked = @ \ {s}, !.prompts = @ \cup {s}]
        /\ UNCHANGED <<shape, arrived, seq, seqMap, newSeqs>>
    BY <1>8 DEF LPAdmit
  <2>2. s \in waiting /\ step.preempted = {}
    BY <2>1 DEF LPInvariant, StepOK, Budget
  <2>3. /\ step'.kept = step.kept /\ step'.decodes = step.decodes \cup {}
        /\ step'.prompts = step.prompts \cup {s} /\ step'.preempted = step.preempted
        /\ step'.aborted = step.aborted /\ step'.ignored = step.ignored
    BY <1>0, <2>1 DEF TypeOK, Steps
  <2>4. ~PromptProcessed(seq[s]) /\ GetLen(seq[s]) <= PromptLimit
    BY <2>1, <2>2, AdmissibleQueued DEF Admissible
  <2>5. /\ {s} \in SUBSET {s} /\ {} \in SUBSET {s}
        /\ {s} \cup {} = {s} /\ {s} \cap {} = {} /\ (s \in {s} <=> ~PromptProcessed(seq[s]))
    BY <2>4
  <2> QED
    BY <1>0, <2>1, <2>2, <2>3, <2>4, <2>5, AdmitSane
<1>9. ASSUME NEW s \in Seqs, LPSkip(s) PROVE Sane'
  <2>1. /\ phase = "admit" /\ phase' = phase /\ step' = [step EXCEPT !.picked = @ \ {s}]
        /\ UNCHANGED <<shape, arrived, seq, seqMap, newSeqs, waiting, running, table>>
    BY <1>9 DEF LPSkip
  <2>2. /\ step'.kept = step.kept /\ step'.decodes = step.decodes
        /\ step'.prompts = step.prompts /\ step'.preempted = step.preempted
        /\ step'.aborted = step.aborted /\ step'.ignored = step.ignored
    BY <1>0, <2>1 DEF TypeOK, Steps
  <2>3. /\ {} \in SUBSET waiting /\ {} \cap step.preempted = {}
        /\ waiting' = waiting \ {} /\ seqMap' = seqMap \ {}
    BY <2>1
  <2> QED
    BY <1>0, <2>1, <2>2, <2>3, SidestepSane
<1>10. ASSUME NEW late \in SUBSET waiting, LPOffload(late) PROVE Sane'
  <2>1. /\ phase = "admit" /\ phase' = "dispatch"
        /\ late \subseteq {s \in waiting : ~seq[s].scheduled}
        /\ waiting' = waiting \ late /\ seqMap' = seqMap \ late
        /\ UNCHANGED <<shape, arrived, seq, newSeqs, running, table, step>>
    BY <1>10 DEF LPOffload
  <2>2. late \cap step.preempted = {}
    BY <2>1 DEF Fresh, ServedScheduled
  <2> QED
    BY <1>0, <2>1, <2>2, SidestepSane
<1>11. CASE LPDispatch
  BY <1>0, <1>11, DispatchNothingSane, DispatchBatchSane DEF LPDispatch
<1>12. CASE LPComplete
  BY <1>0, <1>12, CompleteSane DEF LPComplete
<1>13. CASE LPWorker
  <2>1. UNCHANGED engineVars
    BY <1>13 DEF LPWorker, WorkerNext, WorkerSkip, WorkerExecute
  <2> QED
    BY <1>0, <2>1, EngineStays
<1>14. CASE UNCHANGED allVars
  BY <1>0, <1>14, EngineStays DEF allVars, vars
<1> QED
  BY <1>1, <1>2, <1>3, <1>4, <1>5, <1>6, <1>7, <1>8, <1>9, <1>10, <1>11, <1>12,
     <1>13, <1>14 DEF LPNext, LPStep

-----------------------------------------------------------------------------
(* The batch stays within its bounds.                                      *)

(* The tokens the solver charges for a set of waiting sequences.           *)
LEMMA SolverWeigh ==
  ASSUME Sane, NEW S \in SUBSET waiting
  PROVE  /\ SolverTokens(S) \in Nat /\ SolverTokens({}) = 0
         /\ \A s \in S : /\ RemainingTokens(s) \in Nat
                        /\ RemainingTokens(s) <= SolverTokens(S)
                        /\ SolverTokens(S) = RemainingTokens(s) + SolverTokens(S \ {s})
<1> DEFINE f == [s \in S |-> RemainingTokens(s)]
<1>1. S \in SUBSET Seqs /\ IsFiniteSet(S)
  BY SeqsSubset DEF Sane, TypeOK
<1>2. ASSUME NEW s \in S PROVE RemainingTokens(s) \in Nat
  <2>1. seq[s] \in SequenceObjects
    BY <1>1, <1>2 DEF Sane, TypeOK
  <2>2. Queued(seq[s]) \/ PromptProcessed(seq[s])
    BY <1>2 DEF Sane, Ready, Held
  <2> QED
    BY <2>1, <2>2 DEF RemainingTokens, Queued, PromptProcessed, SequenceObjects
<1>3. \A s \in S : f[s] = RemainingTokens(s) /\ f[s] \in Nat
  BY <1>2
<1> HIDE DEF f
<1>4. SumFunctionOnSet(f, S) \in Nat
  BY ONLY <1>1, <1>3, SumNat
<1>5. SolverTokens({}) = 0
  BY SumEmpty DEF SolverTokens
<1>6. ASSUME NEW s \in S
      PROVE  /\ f[s] <= SumFunctionOnSet(f, S)
             /\ SumFunctionOnSet(f, S) = f[s] + SolverTokens(S \ {s})
  <2> DEFINE g == [r \in S \ {s} |-> RemainingTokens(r)]
  <2>1. IsFiniteSet(S \ {s}) /\ \A r \in S : f[r] \in Int
    BY <1>1, <1>3, FS_Subset
  <2>2. \A r \in S \ {s} : g[r] \in Int /\ g[r] = f[r]
    BY <1>3
  <2> HIDE DEF g
  <2>3. SumFunctionOnSet(g, S \ {s}) = SumFunctionOnSet(f, S \ {s})
    BY ONLY <2>1, <2>2, SumAgree
  <2>4. SumFunctionOnSet(f, S) = f[s] + SumFunctionOnSet(f, S \ {s})
    BY ONLY <1>1, <1>6, <2>1, SumRemove
  <2>5. f[s] <= SumFunctionOnSet(f, S)
    BY ONLY <1>1, <1>3, <1>6, SumMember
  <2> QED
    BY <2>3, <2>4, <2>5 DEF SolverTokens, g
<1> QED
  BY <1>3, <1>4, <1>5, <1>6 DEF SolverTokens, f

(* A schedule that keeps no more sequences than before stays within the    *)
(* bounds of the running list.                                             *)
LEMMA FewerHolders ==
  ASSUME TypeOK, Budget, running' \cup step'.kept \subseteq running \cup step.kept
  PROVE  /\ Cardinality(running' \cup step'.kept) <= MaxNumSeqs
         /\ Cardinality(running' \cup step'.kept) <= MaxBatchedTokens
<1>1. running \cup step.kept \in SUBSET Seqs
  BY DEF TypeOK, Steps
<1>2. /\ Cardinality(running \cup step.kept) \in Nat
      /\ Cardinality(running' \cup step'.kept) <= Cardinality(running \cup step.kept)
      /\ Cardinality(running' \cup step'.kept) \in Nat
  BY <1>1, HoldersCount
<1> QED
  BY <1>2, Limits DEF Budget

LEMMA SelectBudget ==
  ASSUME TypeOK', Sane, LPInvariant, Budget, LPSelect
  PROVE  Budget'
<1>1. /\ phase = "select" /\ phase' = "admit" /\ TypeOK
      /\ UNCHANGED <<seq, waiting, running>>
  BY DEF LPSelect, Sane
<1>2. /\ step.kept = {} /\ step.prompts = {} /\ step.picked = {} /\ running = Batch(step)
      /\ running = step.decodes /\ running \in SUBSET Seqs
  BY <1>1 DEF LPInvariant, StepOK, Budget, Batch, TypeOK
<1>3. \E T \in SUBSET waiting :
        /\ step' = [step EXCEPT !.picked = T]
        /\ T # {} => step.preempted = {}
        /\ Cardinality(running) + Cardinality(T) <= MaxNumSeqs
        /\ Cardinality(running) + SolverTokens(T) <= MaxBatchedTokens
  <2>1. Cardinality(running) \in Nat /\ Cardinality(running) <= MaxNumSeqs
        /\ Cardinality(running) <= MaxBatchedTokens
    <3>1. running \cup step.kept = running
      BY <1>2
    <3> QED
      BY <1>1, <1>2, <3>1, HoldersCount DEF Budget
  <2>2. CASE UNCHANGED step
    <3>1. step' = [step EXCEPT !.picked = {}]
      BY <1>1, <1>2, <2>2 DEF TypeOK, Steps
    <3>2. Cardinality({}) = 0 /\ SolverTokens({}) = 0 /\ {} \in SUBSET waiting
      BY FS_EmptySet, SolverWeigh
    <3>3. /\ Cardinality(running) + Cardinality({}) <= MaxNumSeqs
          /\ Cardinality(running) + SolverTokens({}) <= MaxBatchedTokens
      BY <2>1, <3>2, Limits
    <3> QED
      BY <3>1, <3>2, <3>3
  <2>3. CASE ~NoPrefill /\ \E T \in Selections : step' = [step EXCEPT !.picked = T]
    <3>1. PICK T \in Selections : step' = [step EXCEPT !.picked = T]
      BY <2>3
    <3>2. /\ T \in SUBSET waiting /\ step.preempted = {}
          /\ Cardinality(T) <= MaxNumSeqs - Cardinality(running)
          /\ SolverTokens(T) <= MaxBatchedTokens - Cardinality(running)
      BY <2>3 DEF Selections, NoPrefill
    <3>3. T \in SUBSET Seqs
      BY <1>1, <3>2 DEF TypeOK
    <3>4. SolverTokens(T) \in Nat /\ Cardinality(T) \in Nat
      BY <1>1, <3>2, <3>3, SolverWeigh, HoldersCount
    <3>5. /\ Cardinality(running) + Cardinality(T) <= MaxNumSeqs
          /\ Cardinality(running) + SolverTokens(T) <= MaxBatchedTokens
      BY <2>1, <3>2, <3>4, Limits
    <3> QED
      BY <3>1, <3>2, <3>5
  <2> QED
    BY <2>2, <2>3 DEF LPSelect
<1>4. PICK T \in SUBSET waiting :
        /\ step' = [step EXCEPT !.picked = T]
        /\ T # {} => step.preempted = {}
        /\ Cardinality(running) + Cardinality(T) <= MaxNumSeqs
        /\ Cardinality(running) + SolverTokens(T) <= MaxBatchedTokens
  BY <1>3
<1>5. /\ step'.kept = step.kept /\ step'.decodes = step.decodes
      /\ step'.prompts = step.prompts /\ step'.preempted = step.preempted
      /\ step'.picked = T /\ Batch(step') = Batch(step)
  BY <1>1, <1>4 DEF TypeOK, Steps, Batch
<1>6. SolverTokens(step.picked)' = SolverTokens(T)
  BY <1>1, <1>5 DEF SolverTokens, RemainingTokens
<1>7. PromptTokens(step.prompts)' = 0
  <2>1. PromptTokens(step.prompts)' = PromptTokens({})
    BY <1>1, <1>2, <1>5 DEF PromptTokens
  <2> QED
    BY <2>1, <1>1, TokensWeigh
<1>8. Cardinality(running) \in Nat /\ SolverTokens(T) \in Nat
  BY <1>1, <1>2, <1>4, HoldersCount, SolverWeigh
<1>9. Cardinality(step'.decodes) + PromptTokens(step.prompts)' + SolverTokens(step.picked)'
        <= MaxBatchedTokens
  BY <1>2, <1>4, <1>5, <1>6, <1>7, <1>8
<1>10. /\ Cardinality(running' \cup step'.kept) <= MaxNumSeqs
       /\ Cardinality(running' \cup step'.kept) <= MaxBatchedTokens
  BY <1>1, <1>5, FewerHolders
<1> QED
  BY <1>1, <1>2, <1>4, <1>5, <1>9, <1>10 DEF Budget

LEMMA AdmitBudget ==
  ASSUME TypeOK', Sane, LPInvariant, Budget, NEW s \in Seqs, LPAdmit(s)
  PROVE  Budget'
<1>1. /\ phase = "admit" /\ phase' = "admit" /\ TypeOK /\ Admissible(s)
      /\ s \in step.picked /\ s \in waiting /\ step.preempted = {} /\ step.kept = {}
      /\ running' = running \cup {s} /\ UNCHANGED seq
      /\ step' = [step EXCEPT !.picked = @ \ {s}, !.prompts = @ \cup {s}]
  BY DEF LPAdmit, Sane, LPInvariant, StepOK, Budget
<1>2. /\ step'.kept = {} /\ step'.decodes = step.decodes /\ step'.preempted = {}
      /\ step'.prompts = step.prompts \cup {s} /\ step'.picked = step.picked \ {s}
      /\ Batch(step') = Batch(step) \cup {s}
  BY <1>1 DEF TypeOK, Steps, Batch
<1>3. /\ running = Batch(step) /\ running \in SUBSET Seqs /\ s \in Seqs \ running
      /\ step.picked \in SUBSET waiting /\ step.picked \in SUBSET Seqs
      /\ step.prompts \in SUBSET Seqs /\ step.decodes \in SUBSET Seqs
      /\ step.prompts \cap step.decodes = {} /\ s \in Seqs \ step.prompts
      /\ step'.picked \in SUBSET Seqs
  BY <1>1, <1>2 DEF Sane, LPInvariant, StepOK, Budget, Apart, TypeOK, Steps, Batch, Building
<1>4. /\ Cardinality(running') = Cardinality(running) + 1
      /\ Cardinality(running) \in Nat /\ Cardinality(step.picked) \in Nat
      /\ Cardinality(step.picked) = Cardinality(step'.picked) + 1
      /\ Cardinality(step'.picked) \in Nat
  <2>1. (step.picked \ {s}) \cup {s} = step.picked /\ s \in Seqs \ (step.picked \ {s})
    BY <1>1, <1>3
  <2> QED
    BY <1>1, <1>2, <1>3, <2>1, HoldersCount
<1>5. Cardinality(running') + Cardinality(step'.picked) <= MaxNumSeqs
  BY <1>1, <1>4, Limits DEF Budget
<1>6. /\ SolverTokens(step.picked)' = SolverTokens(step'.picked)
      /\ PromptTokens(step.prompts)' = PromptTokens(step'.prompts)
  BY <1>1 DEF SolverTokens, RemainingTokens, PromptTokens
<1>7. /\ SolverTokens(step.picked) = RemainingTokens(s) + SolverTokens(step'.picked)
      /\ RemainingTokens(s) \in Nat /\ SolverTokens(step'.picked) \in Nat
  <2>1. step'.picked \in SUBSET waiting
    BY <1>2, <1>3
  <2> QED
    BY <1>1, <1>2, <1>3, <2>1, SolverWeigh
<1>8. /\ PromptTokens(step'.prompts) = GetLen(seq[s]) + PromptTokens(step.prompts)
      /\ PromptTokens(step.prompts) \in Nat
  BY <1>1, <1>2, <1>3, TokensInsert, TokensWeigh
<1>9. RemainingTokens(s) = GetLen(seq[s])
  <2>1. Queued(seq[s]) /\ seq[s] \in SequenceObjects
    BY <1>1, <1>3, AdmissibleQueued DEF TypeOK
  <2> QED
    BY <2>1 DEF Queued, SequenceObjects, GetLen, RemainingTokens
<1>10. Cardinality(step.decodes) \in Nat
  BY <1>1, <1>3, HoldersCount
<1>11. Cardinality(step'.decodes) + PromptTokens(step.prompts)' + SolverTokens(step.picked)'
         <= MaxBatchedTokens
  <2>1. Cardinality(step.decodes) + PromptTokens(step.prompts) + SolverTokens(step.picked)
          <= MaxBatchedTokens
    BY <1>1 DEF Budget
  <2> QED
    BY <1>2, <1>6, <1>7, <1>8, <1>9, <1>10, <2>1
<1>12. Cardinality(running') <= MaxBatchedTokens
  <2>1. running' = step.decodes \cup step'.prompts /\ step'.prompts \in SUBSET Seqs
        /\ step.decodes \cap step'.prompts = {}
    BY <1>1, <1>2, <1>3 DEF Batch
  <2>2. Cardinality(running') = Cardinality(step.decodes) + Cardinality(step'.prompts)
    <3>1. IsFiniteSet(step.decodes) /\ IsFiniteSet(step'.prompts)
      BY <1>1, <1>3, <2>1, HoldersCount
    <3> QED
      BY <2>1, <3>1, CardinalityDisjoint
  <2>3. /\ Cardinality(step'.prompts) <= PromptTokens(step'.prompts)
        /\ Cardinality(step'.prompts) \in Nat /\ PromptTokens(step'.prompts) \in Nat
    <3>1. \A r \in step'.prompts : seq[r].prompt > 0
      BY <2>1 DEF Sane, Ready
    <3> QED
      BY <1>1, <2>1, <3>1, TokensWeigh, HoldersCount
  <2> QED
    BY <1>2, <1>6, <1>7, <1>10, <1>11, <2>2, <2>3, Limits
<1>13. Cardinality(running') <= MaxNumSeqs
  BY <1>4, <1>5, Limits
<1>14. running' \cup step'.kept = running' /\ running' = Batch(step')
  BY <1>1, <1>2, <1>3
<1> QED
  BY <1>1, <1>2, <1>5, <1>11, <1>12, <1>13, <1>14 DEF Budget

LEMMA SkipBudget ==
  ASSUME TypeOK', Sane, LPInvariant, Budget, NEW s \in Seqs, LPSkip(s)
  PROVE  Budget'
<1>1. /\ phase = "admit" /\ phase' = "admit" /\ TypeOK
      /\ s \in step.picked /\ step.preempted = {}
      /\ UNCHANGED <<running, seq>>
      /\ step' = [step EXCEPT !.picked = @ \ {s}]
  BY DEF LPSkip, Sane, Budget
<1>2. /\ step'.kept = step.kept /\ step'.decodes = step.decodes /\ step'.preempted = {}
      /\ step'.prompts = step.prompts /\ step'.picked = step.picked \ {s}
      /\ Batch(step') = Batch(step)
  BY <1>1 DEF TypeOK, Steps, Batch
<1>3. /\ step.picked \in SUBSET waiting /\ step.picked \in SUBSET Seqs
      /\ step'.picked \in SUBSET step.picked /\ step'.picked \in SUBSET waiting
      /\ running \in SUBSET Seqs /\ step.decodes \in SUBSET Seqs /\ step.prompts \in SUBSET Seqs
  BY <1>1, <1>2 DEF LPInvariant, StepOK, TypeOK, Steps
<1>4. /\ Cardinality(step'.picked) <= Cardinality(step.picked)
      /\ Cardinality(step'.picked) \in Nat /\ Cardinality(step.picked) \in Nat
      /\ Cardinality(running) \in Nat /\ Cardinality(step.decodes) \in Nat
  BY <1>1, <1>3, HoldersCount
<1>5. Cardinality(running') + Cardinality(step'.picked) <= MaxNumSeqs
  BY <1>1, <1>4, Limits DEF Budget
<1>6. /\ SolverTokens(step.picked)' = SolverTokens(step'.picked)
      /\ PromptTokens(step.prompts)' = PromptTokens(step.prompts)
  BY <1>1, <1>2 DEF SolverTokens, RemainingTokens, PromptTokens
<1>7. /\ SolverTokens(step.picked) = RemainingTokens(s) + SolverTokens(step'.picked)
      /\ RemainingTokens(s) \in Nat /\ SolverTokens(step'.picked) \in Nat
  BY <1>1, <1>2, <1>3, SolverWeigh
<1>8. PromptTokens(step.prompts) \in Nat
  BY <1>1, <1>3, TokensWeigh
<1>9. Cardinality(step'.decodes) + PromptTokens(step.prompts)' + SolverTokens(step.picked)'
        <= MaxBatchedTokens
  <2>1. Cardinality(step.decodes) + PromptTokens(step.prompts) + SolverTokens(step.picked)
          <= MaxBatchedTokens
    BY <1>1 DEF Budget
  <2> QED
    BY <1>2, <1>4, <1>6, <1>7, <1>8, <2>1, Limits
<1>10. /\ Cardinality(running' \cup step'.kept) <= MaxNumSeqs
       /\ Cardinality(running' \cup step'.kept) <= MaxBatchedTokens
  BY <1>1, <1>2, FewerHolders
<1> QED
  BY <1>1, <1>2, <1>5, <1>9, <1>10 DEF Budget

LEMMA BudgetStep == LPInvariant /\ Budget /\ Sane /\ [LPNext]_allVars => Budget'
<1> SUFFICES ASSUME LPInvariant, Budget, Sane, [LPNext]_allVars PROVE Budget'
  OBVIOUS
<1>0. TypeOK' /\ TypeOK /\ step.kept \subseteq Seqs /\ running \subseteq Seqs
  BY LPTypeInductive DEF LPInvariant, LPTypeOK, TypeOK, Steps
<1>a. ASSUME running' \cup step'.kept \subseteq running \cup step.kept,
             phase' \notin {"admit", "dispatch"}, step'.picked = {},
             phase' = "select" => running' = Batch(step') /\ step'.prompts = {}
      PROVE  Budget'
  BY <1>0, <1>a, FewerHolders DEF Budget
<1>b. ASSUME UNCHANGED <<seq, running, phase, step>>
      PROVE  Budget'
  BY <1>b DEF Budget, PromptTokens, SolverTokens, RemainingTokens, Batch
<1>1. ASSUME NEW s \in Seqs, LPAddRequest(s) PROVE Budget'
  BY <1>b, <1>1 DEF LPAddRequest, AddRequest
<1>2. ASSUME NEW s \in Seqs, GetHpRequest(s) PROVE Budget'
  BY <1>b, <1>2 DEF GetHpRequest, vars, engineVars
<1>3. ASSUME NEW late \in SUBSET waiting, LPBeginStep(late) PROVE Budget'
  <2>1. /\ step' = [NoStep EXCEPT !.aborted = late] /\ phase' = "decode"
        /\ running' = running
    BY <1>3 DEF LPBeginStep, BeginStep
  <2>2. step'.kept = {} /\ step'.picked = {}
    BY <2>1 DEF NoStep
  <2> QED
    BY <1>a, <2>1, <2>2
<1>4. CASE LPScheduleDecode
  <2> DEFINE s == Min(running)
  <2>1. s \in running
    BY <1>0, <1>4, RunningMember DEF LPScheduleDecode, ScheduleDecode
  <2>2. /\ running' = running \ {s} /\ phase = "decode" /\ phase' = "decode"
        /\ step' = [step EXCEPT !.kept = @ \cup {s}, !.decodes = @ \cup {s}]
    BY <1>4 DEF LPScheduleDecode, ScheduleDecode
  <2> HIDE DEF s
  <2>3. step'.kept = step.kept \cup {s} /\ step'.picked = {}
    BY <1>0, <2>2 DEF LPInvariant, StepOK, TypeOK, Steps
  <2> QED
    BY <1>a, <2>1, <2>2, <2>3
<1>5. CASE LPPreempt
  <2>1. /\ running' \subseteq running /\ phase = "decode" /\ phase' = "decode"
        /\ \E v : step' = [step EXCEPT !.preempted = @ \cup {v}]
    BY <1>5 DEF LPPreempt, PreemptNewest
  <2>2. step'.kept = step.kept /\ step'.picked = {}
    BY <1>0, <2>1 DEF LPInvariant, StepOK, TypeOK, Steps
  <2> QED
    BY <1>a, <2>1, <2>2
<1>6. CASE LPEndDecode
  <2>1. /\ phase = "decode" /\ phase' = "select" /\ running' = step.kept
        /\ step' = [step EXCEPT !.kept = {}]
    BY <1>6 DEF LPEndDecode, EndDecode
  <2>2. /\ step.prompts = {} /\ step.decodes = step.kept /\ step.picked = {}
    BY <2>1 DEF LPInvariant, StepOK, Sane, Building
  <2>3. step'.kept = {} /\ step'.picked = {} /\ step'.prompts = {} /\ step'.decodes = step.kept
    BY <1>0, <2>1, <2>2 DEF TypeOK, Steps
  <2> QED
    BY <1>a, <2>1, <2>2, <2>3 DEF Batch
<1>7. CASE LPSelect
  BY <1>0, <1>7, SelectBudget
<1>8. ASSUME NEW s \in Seqs, LPAdmit(s) PROVE Budget'
  BY <1>0, <1>8, AdmitBudget
<1>9. ASSUME NEW s \in Seqs, LPSkip(s) PROVE Budget'
  BY <1>0, <1>9, SkipBudget
<1>10. ASSUME NEW late \in SUBSET waiting, LPOffload(late) PROVE Budget'
  <2>1. /\ phase = "admit" /\ phase' = "dispatch" /\ step.picked = {}
        /\ UNCHANGED <<seq, running, step>>
    BY <1>10 DEF LPOffload
  <2> QED
    BY <2>1 DEF Budget, PromptTokens, SolverTokens, RemainingTokens, Batch
<1>11. CASE LPDispatch
  <2>1. /\ running' = running /\ phase' \in {"idle", "wait"} /\ phase = "dispatch"
        /\ step' = NoStep \/ \E stop \in SUBSET Seqs : step' = [step EXCEPT !.stop = stop]
    BY <1>11 DEF LPDispatch, DispatchNothing, DispatchAborts, DispatchBatch
  <2>2. step.picked = {} /\ step.kept = {}
    BY <2>1 DEF LPInvariant, StepOK
  <2>3. step'.picked = {} /\ step'.kept = {}
    <3>1. CASE step' = NoStep
      BY <3>1 DEF NoStep
    <3>2. ASSUME NEW stop \in SUBSET Seqs, step' = [step EXCEPT !.stop = stop]
          PROVE  step'.picked = {} /\ step'.kept = {}
      BY <1>0, <2>2, <3>2 DEF TypeOK, Steps
    <3> QED
      BY <2>1, <3>1, <3>2
  <2> QED
    BY <1>a, <2>1, <2>3
<1>12. CASE LPComplete
  <2>1. running' \subseteq running /\ phase' = "idle" /\ step' = NoStep
    BY <1>12 DEF LPComplete, Complete
  <2>2. step'.picked = {} /\ step'.kept = {}
    BY <2>1 DEF NoStep
  <2> QED
    BY <1>a, <2>1, <2>2
<1>13. CASE LPWorker
  <2>1. UNCHANGED engineVars
    BY <1>13 DEF LPWorker, WorkerNext, WorkerSkip, WorkerExecute
  <2> QED
    BY <1>b, <2>1 DEF engineVars
<1>14. CASE UNCHANGED allVars
  BY <1>b, <1>14 DEF allVars, vars, engineVars
<1> QED
  BY <1>1, <1>2, <1>3, <1>4, <1>5, <1>6, <1>7, <1>8, <1>9, <1>10, <1>11, <1>12,
     <1>13, <1>14 DEF LPNext, LPStep

LEMMA BudgetInit == LPInit => Budget
<1> SUFFICES ASSUME LPInit PROVE Budget
  OBVIOUS
<1>1. running \cup step.kept = {} /\ step.picked = {} /\ phase = "idle"
  BY DEF LPInit, Init, NoStep
<1>2. Cardinality({}) = 0
  BY FS_EmptySet
<1> QED
  BY <1>1, <1>2, Limits DEF Budget
LEMMA LPSaneInductive == LPSpec => [](LPInvariant /\ Fresh /\ Budget /\ Sane)
<1> DEFINE I == LPInvariant /\ Fresh /\ Budget /\ Sane
<1>1. LPInit => I
  BY LPInitType, PlacesInit, FreshInit, BudgetInit, SaneInit DEF LPInvariant, LPInit
<1>2. I /\ [LPNext]_allVars => I'
  BY LPTypeInductive, PlacesInductive, FreshStep, LPSaneStep, BudgetStep DEF LPInvariant
<1> QED
  BY <1>1, <1>2, PTL DEF LPSpec

LEMMA BudgetBounds == LPInvariant /\ Budget /\ Sane => LPBounds
<1> SUFFICES ASSUME LPInvariant, Budget, Sane PROVE LPBounds
  OBVIOUS
<1>1. ASSUME phase = "dispatch"
      PROVE  Cardinality(step.decodes) + PromptTokens(step.prompts) <= MaxBatchedTokens
  <2>1. step.picked = {} /\ TypeOK /\ step.decodes \in SUBSET Seqs /\ step.prompts \in SUBSET Seqs
    BY <1>1 DEF LPInvariant, StepOK, Sane, TypeOK, Steps
  <2>2. SolverTokens({}) = 0 /\ {} \in SUBSET waiting
    BY SolverWeigh
  <2>3. Cardinality(step.decodes) \in Nat /\ PromptTokens(step.prompts) \in Nat
    BY <2>1, HoldersCount, TokensWeigh
  <2>4. Cardinality(step.decodes) + PromptTokens(step.prompts) + SolverTokens({})
          <= MaxBatchedTokens
    BY <1>1, <2>1 DEF Budget
  <2> QED
    BY <2>2, <2>3, <2>4
<1> QED
  BY <1>1 DEF LPBounds, Budget

(* The batch of the low-priority instance respects max_num_seqs and        *)
(* max_num_batched_tokens in every step, although the decodes are taken    *)
(* first and the solver counts only the prompt tokens left                 *)
(* (low_priority_scheduler.py:146,208-215).                                *)
THEOREM LPBatchBounds == LPSpec => []LPBounds
<1>1. LPInvariant /\ Fresh /\ Budget /\ Sane => LPBounds
  BY BudgetBounds
<1> QED
  BY <1>1, LPSaneInductive, PTL

(* The scheduler's table never promises a block that does not exist, gives *)
(* blocks to running sequences only, and never lags behind the tokens of a *)
(* sequence by more than the block its last token opened: whatever is      *)
(* preempted, aborted, offloaded or stopped, for any size of the cache     *)
(* (base_block_space_manager.py:54-113).                                   *)
THEOREM LPBlocks == LPSpec => []BlocksMatchWork
<1>1. LPInvariant /\ Fresh /\ Budget /\ Sane => BlocksMatchWork
  BY SaneBlocks
<1> QED
  BY <1>1, LPSaneInductive, PTL

-----------------------------------------------------------------------------
(* When every request fits, the engine's and the workers' assertions hold. *)

LEMMA LPReplayedStep ==
  ASSUME RequestsFit, LPInvariant, Sane, Replayed, [LPNext]_allVars
  PROVE  Replayed'
<1>0. TypeOK /\ step \in Steps
  BY DEF Sane, TypeOK
<1>a. ASSUME UNCHANGED engineVars PROVE Replayed'
  BY <1>a, BuildReplayed
<1>b. ASSUME waiting' \subseteq waiting, UNCHANGED seq, phase \in {"select", "admit"},
             phase' \in {"admit", "dispatch"}, step'.preempted = step.preempted,
             Batch(step) \subseteq Batch(step')
      PROVE  Replayed'
  BY <1>b, ReplayedKept
<1>1. ASSUME NEW s \in Seqs, LPAddRequest(s) PROVE Replayed'
  BY <1>1, AddReplayed DEF LPAddRequest
<1>2. ASSUME NEW s \in Seqs, GetHpRequest(s) PROVE Replayed'
  BY <1>a, <1>2 DEF GetHpRequest, vars
<1>3. ASSUME NEW late \in SUBSET waiting, LPBeginStep(late) PROVE Replayed'
  BY <1>3, BuildReplayed DEF LPBeginStep
<1>4. CASE LPScheduleDecode
  BY <1>4, BuildReplayed DEF LPScheduleDecode
<1>5. CASE LPPreempt
  BY <1>5, PreemptReplayed DEF LPPreempt
<1>6. CASE LPEndDecode
  BY <1>6, BuildReplayed DEF LPEndDecode
<1>7. CASE LPSelect
  <2>1. /\ phase = "select" /\ phase' = "admit" /\ UNCHANGED <<seq, waiting>>
        /\ step' = step \/ \E T : step' = [step EXCEPT !.picked = T]
    BY <1>7 DEF LPSelect
  <2>2. step'.preempted = step.preempted /\ Batch(step') = Batch(step)
    BY <1>0, <2>1 DEF Steps, Batch
  <2> QED
    BY <1>b, <2>1, <2>2
<1>8. ASSUME NEW s \in Seqs, LPAdmit(s) PROVE Replayed'
  <2>1. /\ phase = "admit" /\ phase' = "admit" /\ UNCHANGED seq /\ waiting' \subseteq waiting
        /\ step' = [step EXCEPT !.picked = @ \ {s}, !.prompts = @ \cup {s}]
    BY <1>8 DEF LPAdmit
  <2>2. step'.preempted = step.preempted /\ Batch(step) \subseteq Batch(step')
    BY <1>0, <2>1 DEF Steps, Batch
  <2> QED
    BY <1>b, <2>1, <2>2
<1>9. ASSUME NEW s \in Seqs, LPSkip(s) PROVE Replayed'
  <2>1. /\ phase = "admit" /\ phase' = "admit" /\ UNCHANGED <<seq, waiting>>
        /\ step' = [step EXCEPT !.picked = @ \ {s}]
    BY <1>9 DEF LPSkip
  <2>2. step'.preempted = step.preempted /\ Batch(step) = Batch(step')
    BY <1>0, <2>1 DEF Steps, Batch
  <2> QED
    BY <1>b, <2>1, <2>2
<1>10. ASSUME NEW late \in SUBSET waiting, LPOffload(late) PROVE Replayed'
  BY <1>b, <1>10 DEF LPOffload
<1>11. CASE LPDispatch
  BY <1>11, DispatchReplayed DEF LPDispatch
<1>12. CASE LPComplete
  BY <1>12, CompleteReplayed DEF LPComplete
<1>13. CASE LPWorker
  <2>1. UNCHANGED engineVars
    BY <1>13 DEF LPWorker, WorkerNext, WorkerSkip, WorkerExecute
  <2> QED
    BY <1>a, <2>1
<1>14. CASE UNCHANGED allVars
  BY <1>a, <1>14 DEF allVars, vars
<1> QED
  BY <1>1, <1>2, <1>3, <1>4, <1>5, <1>6, <1>7, <1>8, <1>9, <1>10, <1>11, <1>12,
     <1>13, <1>14 DEF LPNext, LPStep

(* A chosen sequence was not preempted by this step, and its prompt is     *)
(* within the budget the solver was given.                                 *)
LEMMA ReplayedChosen == LPInvariant /\ Budget /\ Sane /\ Replayed => ChosenAreAdmissible
<1> SUFFICES ASSUME LPInvariant, Budget, Sane, Replayed, phase = "admit",
                    NEW s \in step.picked
             PROVE  Admissible(s) /\ seq[s].status = "WAITING"
  BY DEF ChosenAreAdmissible
<1>1. /\ step.picked \in SUBSET waiting /\ step.preempted = {} /\ TypeOK
      /\ step.decodes \in SUBSET Seqs /\ step.prompts \in SUBSET Seqs
      /\ s \in waiting /\ s \in Seqs /\ seq[s] \in SequenceObjects
  BY DEF LPInvariant, StepOK, Budget, Sane, TypeOK, Steps
<1>2. Queued(seq[s]) /\ seq[s].prompt > 0
  BY <1>1 DEF Replayed, Sane, Ready
<1>3. /\ RemainingTokens(s) \in Nat /\ RemainingTokens(s) <= SolverTokens(step.picked)
      /\ SolverTokens(step.picked) \in Nat
  BY <1>1, SolverWeigh
<1>4. Cardinality(step.decodes) \in Nat /\ PromptTokens(step.prompts) \in Nat
  BY <1>1, HoldersCount, TokensWeigh
<1>5. Cardinality(step.decodes) + PromptTokens(step.prompts) + SolverTokens(step.picked)
        <= MaxBatchedTokens
  BY DEF Budget
<1>6. RemainingTokens(s) <= PromptLimit
  BY <1>3, <1>4, <1>5, Limits
<1>7. /\ GetLen(seq[s]) = RemainingTokens(s) /\ Chunk(seq[s]) = seq[s].prompt
      /\ seq[s].prompt \in Nat /\ seq[s].status = "WAITING"
  BY <1>1, <1>2 DEF Queued, GetLen, RemainingTokens, Chunk, SequenceObjects
<1> QED
  BY <1>2, <1>6, <1>7 DEF Admissible

LEMMA LPReplayed ==
  ASSUME RequestsFit
  PROVE  LPSpec => [](LPInvariant /\ Budget /\ Sane /\ Replayed)
<1>1. LPInit => Replayed
  BY ReplayedInit DEF LPInit
<1>2. LPInvariant /\ Sane /\ Replayed /\ [LPNext]_allVars => Replayed'
  BY LPReplayedStep
<1> QED
  BY <1>1, <1>2, LPSaneInductive, PTL DEF LPSpec

(* If every request fits the cache beside a free block, each sequence the  *)
(* solver chooses passes the assertions of the admission loop: its prompt  *)
(* is within the limit and its chunk is not empty                          *)
(* (low_priority_scheduler.py:235,245).                                    *)
THEOREM LPChosenAdmissible ==
  ASSUME RequestsFit
  PROVE  LPSpec => []ChosenAreAdmissible
<1>1. LPInvariant /\ Budget /\ Sane /\ Replayed => ChosenAreAdmissible
  BY ReplayedChosen
<1> QED
  BY <1>1, LPReplayed, PTL

LEMMA LPInStep ==
  ASSUME ~StopStrings, LPInvariant, Budget, Sane, Replayed, InStep, [LPNext]_allVars
  PROVE  InStep'
<1>0. TypeOK /\ step \in Steps
  BY DEF Sane, TypeOK
<1>a. ASSUME \A x \in Replicas : Replica(x) => Replica(x)',
             UNCHANGED <<shape, inbox, workerVars>>
      PROVE  InStep'
  BY <1>a, InStepKept
<1>b. ASSUME UNCHANGED vars PROVE InStep'
  BY <1>b, InStepShared
<1>c. ASSUME phase \in {"select", "admit"}, phase' \in {"admit", "dispatch"},
             waiting' \subseteq waiting, seqMap' \subseteq seqMap,
             step'.kept = step.kept, step'.preempted = step.preempted,
             step'.prompts = step.prompts, step'.decodes = step.decodes,
             UNCHANGED <<shape, arrived, newSeqs, table, seq, running, inbox, workerVars>>
      PROVE  InStep'
  <2>1. ASSUME NEW x \in Replicas, Replica(x) PROVE Replica(x)'
    BY <1>c, <2>1, ReplicaStays
  <2> QED
    BY <1>a, <1>c, <2>1
<1>1. ASSUME NEW s \in Seqs, LPAddRequest(s) PROVE InStep'
  BY <1>1, InStepShared DEF LPAddRequest
<1>2. ASSUME NEW s \in Seqs, GetHpRequest(s) PROVE InStep'
  BY <1>b, <1>2 DEF GetHpRequest
<1>3. ASSUME NEW late \in SUBSET waiting, LPBeginStep(late) PROVE InStep'
  BY <1>3, InStepShared DEF LPBeginStep
<1>4. CASE LPScheduleDecode
  BY <1>4, InStepShared DEF LPScheduleDecode
<1>5. CASE LPPreempt
  BY <1>5, InStepShared DEF LPPreempt
<1>6. CASE LPEndDecode
  BY <1>6, InStepShared DEF LPEndDecode
<1>7. CASE LPSelect
  <2>1. /\ phase = "select" /\ phase' = "admit"
        /\ UNCHANGED <<shape, arrived, newSeqs, table, seq, running, inbox, workerVars,
                       waiting, seqMap>>
        /\ step' = step \/ \E T : step' = [step EXCEPT !.picked = T]
    BY <1>7 DEF LPSelect, channelVars
  <2>2. /\ step'.kept = step.kept /\ step'.preempted = step.preempted
        /\ step'.prompts = step.prompts /\ step'.decodes = step.decodes
    BY <1>0, <2>1 DEF Steps
  <2> QED
    BY <1>c, <2>1, <2>2
<1>8. ASSUME NEW s \in Seqs, LPAdmit(s) PROVE InStep'
  <2>1. /\ phase = "admit" /\ phase' = phase /\ s \in step.picked
        /\ waiting' = waiting \ {s} /\ running' = running \cup {s}
        /\ table' = [table EXCEPT ![s] = LogicalBlocks(seq[s])]
        /\ step' = [step EXCEPT !.picked = @ \ {s}, !.prompts = @ \cup {s}]
        /\ Admissible(s)
        /\ UNCHANGED <<shape, arrived, seq, seqMap, newSeqs, inbox, workerVars>>
    BY <1>8 DEF LPAdmit, channelVars
  <2>2. /\ step'.kept = step.kept /\ step'.preempted = step.preempted
        /\ step'.prompts = step.prompts \cup {s} /\ step'.decodes = step.decodes
    BY <1>0, <2>1 DEF Steps
  <2>3. s \in waiting /\ step.preempted = {} /\ seq[s] \in SequenceObjects
    BY <1>0, <2>1 DEF LPInvariant, StepOK, Budget, TypeOK
  <2>4. Queued(seq[s]) /\ LogicalBlocks(seq[s]) \in Nat
    BY <2>1, <2>3, AdmissibleQueued, NeedsBlocks
  <2>5. ASSUME NEW x \in Replicas, Replica(x) PROVE Replica(x)'
    BY <2>1, <2>2, <2>3, <2>4, <2>5, AdmitReplica
  <2> QED
    BY <1>a, <2>1, <2>5
<1>9. ASSUME NEW s \in Seqs, LPSkip(s) PROVE InStep'
  <2>1. /\ phase = "admit" /\ phase' = "admit"
        /\ UNCHANGED <<shape, arrived, newSeqs, table, seq, running, inbox, workerVars,
                       waiting, seqMap>>
        /\ step' = [step EXCEPT !.picked = @ \ {s}]
    BY <1>9 DEF LPSkip, channelVars
  <2>2. /\ step'.kept = step.kept /\ step'.preempted = step.preempted
        /\ step'.prompts = step.prompts /\ step'.decodes = step.decodes
    BY <1>0, <2>1 DEF Steps
  <2> QED
    BY <1>c, <2>1, <2>2
<1>10. ASSUME NEW late \in SUBSET waiting, LPOffload(late) PROVE InStep'
  <2>1. /\ phase = "admit" /\ phase' = "dispatch"
        /\ waiting' \subseteq waiting /\ seqMap' \subseteq seqMap
        /\ UNCHANGED <<shape, arrived, newSeqs, table, seq, running, inbox, workerVars, step>>
    BY <1>10 DEF LPOffload, channelVars
  <2> QED
    BY <1>c, <2>1
<1>11. CASE LPDispatch
  BY <1>11, InStepShared DEF LPDispatch
<1>12. CASE LPComplete
  BY <1>12, InStepShared DEF LPComplete
<1>13. CASE LPWorker
  BY <1>13, InStepShared DEF LPWorker
<1>14. CASE UNCHANGED allVars
  BY <1>b, <1>14 DEF allVars
<1> QED
  BY <1>1, <1>2, <1>3, <1>4, <1>5, <1>6, <1>7, <1>8, <1>9, <1>10, <1>11, <1>12,
     <1>13, <1>14 DEF LPNext, LPStep

(* For any requests, limits, cache size and number of workers, if every    *)
(* request fits the cache beside a free block and no request has stop      *)
(* strings: the run thread and the workers of a low-priority instance keep *)
(* replaying the same schedule, although the workers are never sent a      *)
(* block table, allocate in another order and lag behind by any number of  *)
(* messages; no assertion of either side fails, and a worker that has      *)
(* caught up holds the scheduler's blocks and objects                      *)
(* (worker_sequence_manager.py:18-58, base_sequence_manager.py:34-64).     *)
THEOREM LPInstanceSafe ==
  ASSUME RequestsFit, ~StopStrings
  PROVE  LPSpec => []InstanceSafe
<1>1. LPInit => InStep
  BY InStepInit DEF LPInit
<1>2. LPInvariant /\ Budget /\ Sane /\ Replayed /\ InStep /\ [LPNext]_allVars => InStep'
  BY LPInStep
<1>3. LPInvariant /\ Budget /\ Sane /\ Replayed /\ InStep => InstanceSafe
  <2>1. Sane => TypeOK
    BY DEF Sane
  <2> QED
    BY <2>1, ReplayedAssertions, InStepAssertions, InStepSync, SaneBlocks DEF InstanceSafe
<1> QED
  BY <1>1, <1>2, <1>3, LPReplayed, PTL DEF LPSpec
=============================================================================
