------------------------- MODULE HighPriorityProofs -------------------------
(***************************************************************************)
(* Proofs about the high-priority instance, for any requests, limits,      *)
(* cache size and number of workers: the type invariant; every request is  *)
(* in exactly one place unless it was ignored; the instance implements     *)
(* RequestStream; its batches keep to their bounds; its run thread and its *)
(* workers replay the same schedule.                                       *)
(***************************************************************************)
EXTENDS HighPriorityEngine, InstanceEngineProofs

LEMMA HPAdmitType ==
  ASSUME TypeOK, NEW s \in Seqs, HPAdmit(s)
  PROVE  TypeOK'
<1>1. GetLen(seq[s]) \in Nat
  BY DEF TypeOK, SequenceObjects, GetLen
<1>2. LogicalBlocks(seq[s]) \in Nat
  BY <1>1, CeilDivType, BlockSizeAssumption DEF LogicalBlocks
<1>3. table' \in [Seqs -> Nat]
  BY <1>2 DEF HPAdmit, TypeOK
<1>4. step' \in Steps
  BY DEF HPAdmit, TypeOK, Steps
<1> QED
  BY <1>3, <1>4 DEF TypeOK, HPAdmit, workerVars, channelVars

LEMMA HPIgnoreType ==
  ASSUME TypeOK, NEW s \in Seqs, HPIgnore(s)
  PROVE  TypeOK'
<1>1. SetStatus(seq[s], "FINISHED_IGNORED") \in SequenceObjects
  BY SetStatusType DEF TypeOK, Status, Finished
<1>2. seq' \in [Seqs -> SequenceObjects]
  BY <1>1 DEF HPIgnore, TypeOK
<1>3. step' \in Steps
  BY DEF HPIgnore, TypeOK, Steps
<1> QED
  BY <1>2, <1>3 DEF TypeOK, HPIgnore, workerVars, channelVars

LEMMA HPTypeInductive == TypeOK /\ [HPNext]_vars => TypeOK'
<1> SUFFICES ASSUME TypeOK, [HPNext]_vars PROVE TypeOK'
  OBVIOUS
<1>1. ASSUME NEW s \in Seqs, AddRequest(s) PROVE TypeOK'
  BY <1>1, AddRequestType
<1>2. ASSUME NEW late \in SUBSET waiting, HPBeginStep(late) PROVE TypeOK'
  BY <1>2, BeginStepType DEF HPBeginStep, Phases
<1>3. ASSUME NEW s \in Seqs, HPIgnore(s) \/ HPAdmit(s) PROVE TypeOK'
  BY <1>3, HPIgnoreType, HPAdmitType
<1>4. CASE HPEndPrefill
  BY <1>4 DEF HPEndPrefill, TypeOK, Phases, workerVars, channelVars
<1>5. CASE ScheduleDecode \/ PreemptNewest \/ HPEndDecode
  BY <1>5, ScheduleDecodeType, PreemptNewestType, EndDecodeType DEF HPEndDecode, Phases
<1>6. CASE DispatchNothing \/ DispatchAborts
  BY <1>6, DispatchNothingType, DispatchAbortsType
<1>7. ASSUME NEW stop \in SUBSET Seqs, DispatchBatch(stop) PROVE TypeOK'
  BY <1>7, DispatchBatchType
<1>8. ASSUME NEW text \in SUBSET Seqs, Complete(text) PROVE TypeOK'
  BY <1>8, CompleteType
<1>9. CASE WorkerNext
  BY <1>9, WorkerSkipType, WorkerExecuteType DEF WorkerNext
<1>10. CASE UNCHANGED vars
  BY <1>10 DEF vars, engineVars, workerVars, channelVars, TypeOK
<1> QED
  BY <1>1, <1>2, <1>3, <1>4, <1>5, <1>6, <1>7, <1>8, <1>9, <1>10 DEF HPNext, HPStep

(* The state of the high-priority instance always has its type: no chunk,  *)
(* table or counter leaves the naturals, whatever the order in which the   *)
(* deadline queue is served.                                               *)
THEOREM HPTypeCorrect == HPSpec => []TypeOK
  BY InitType, HPTypeInductive, PTL DEF HPSpec

-----------------------------------------------------------------------------
(* Every request is in exactly one place.                                  *)

(* The schedule under construction.  HPOnePlace is not inductive without   *)
(* it: the reset of a preempted sequence could revive an ignored one, and  *)
(* a completed one could be ignored as well.                               *)
HPStepOK ==
  /\ phase = "idle" => step = NoStep
  /\ phase = "prefill" => step.preempted = {}
  /\ phase \in {"decode", "dispatch"} => step.preempted \subseteq waiting
  /\ phase = "decode" => step.decodes \subseteq step.kept /\ step.prompts = {}
  /\ phase # "decode" => step.kept = {} /\ Batch(step) \subseteq running
  /\ step.ignored \subseteq Ignored

HPInvariant == TypeOK /\ HPStepOK /\ HPOnePlace

LEMMA HPRunningMember ==
  ASSUME TypeOK, running # {}
  PROVE  Min(running) \in running /\ Max(running) \in running
  BY SeqsSubset, MinMember, MaxMember DEF TypeOK

LEMMA HPPlacesInit == Init => HPStepOK /\ HPOnePlace
<1> SUFFICES ASSUME Init PROVE HPStepOK /\ HPOnePlace
  OBVIOUS
<1>1. \A s \in Seqs : seq[s].status = "WAITING"
  BY DEF Init, NewObject
<1>2. Ignored = {}
  BY <1>1 DEF Ignored
<1> QED
  BY <1>2 DEF Init, HPStepOK, HPOnePlace, NoStep, Batch

(* Only the action that ignores a request changes who is ignored.          *)
LEMMA IgnoredStep ==
  ASSUME HPInvariant, HPNext
  PROVE  /\ Ignored \subseteq Ignored'
         /\ Ignored' \subseteq Ignored \cup step'.ignored
<1>0. TypeOK /\ HPStepOK /\ HPOnePlace
  BY DEF HPInvariant
<1>1. CASE seq' = seq
  BY <1>1 DEF Ignored
<1>2. ASSUME NEW late \in SUBSET waiting, HPBeginStep(late) PROVE Ignored' = Ignored
  <2>1. late \cap Ignored = {}
    BY <1>0 DEF HPOnePlace
  <2>2. \A s \in Seqs : s \in late => seq'[s].status = "FINISHED_ABORTED"
    <3> SUFFICES ASSUME NEW s \in Seqs, s \in late PROVE seq'[s].status = "FINISHED_ABORTED"
      OBVIOUS
    <3>1. seq'[s] = SetStatus(seq[s], "FINISHED_ABORTED")
      BY <1>2 DEF HPBeginStep, BeginStep
    <3> QED
      BY <1>0, <3>1, SetStatusScheduled DEF TypeOK, Status, Finished
  <2>3. \A s \in Seqs \ late : seq'[s] = seq[s]
    BY <1>2 DEF HPBeginStep, BeginStep
  <2> QED
    BY <2>1, <2>2, <2>3 DEF Ignored
<1>3. ASSUME NEW s \in Seqs, HPIgnore(s)
      PROVE  Ignored \subseteq Ignored' /\ Ignored' \subseteq Ignored \cup step'.ignored
  <2>1. /\ seq' = [seq EXCEPT ![s] = SetStatus(@, "FINISHED_IGNORED")]
        /\ step' = [step EXCEPT !.ignored = @ \cup {s}]
    BY <1>3 DEF HPIgnore
  <2>2. s \in step'.ignored
    BY <1>0, <2>1 DEF TypeOK, Steps
  <2>3. seq'[s].status = "FINISHED_IGNORED"
    BY <1>0, <2>1, SetStatusScheduled DEF TypeOK, Status, Finished
  <2>4. \A r \in Seqs \ {s} : seq'[r] = seq[r]
    BY <1>0, <2>1 DEF TypeOK
  <2> QED
    BY <2>2, <2>3, <2>4 DEF Ignored
<1>4. ASSUME NEW stop \in SUBSET Seqs, DispatchBatch(stop) PROVE Ignored' = Ignored
  <2>1. (step.preempted \cup Batch(step)) \cap Ignored = {}
    BY <1>0, <1>4 DEF HPStepOK, HPOnePlace, DispatchBatch
  <2>2. \A s \in Seqs : s \in step.preempted \cup Batch(step) => seq'[s].status # "FINISHED_IGNORED"
    <3> SUFFICES ASSUME NEW s \in Seqs, s \in step.preempted \cup Batch(step)
                 PROVE  seq'[s].status # "FINISHED_IGNORED"
      OBVIOUS
    <3>1. seq'[s] = IF s \in step.preempted THEN ResetForRecompute(seq[s])
                                            ELSE SetStatus(seq[s], "RUNNING")
      BY <1>4 DEF DispatchBatch
    <3>2. SetStatus(seq[s], "RUNNING").status = "RUNNING"
      BY <1>0, SetStatusScheduled DEF TypeOK, Status, Executing
    <3>3. ResetForRecompute(seq[s]).status = "WAITING"
      BY <1>0, ResetStatus DEF TypeOK
    <3> QED
      BY <3>1, <3>2, <3>3
  <2>3. \A s \in Seqs \ (step.preempted \cup Batch(step)) : seq'[s] = seq[s]
    BY <1>4 DEF DispatchBatch
  <2> QED
    BY <2>1, <2>2, <2>3 DEF Ignored
<1>5. ASSUME NEW text \in SUBSET Seqs, Complete(text) PROVE Ignored' = Ignored
  <2>1. Batch(step) \cap Ignored = {}
    BY <1>0, <1>5 DEF HPStepOK, HPOnePlace, Complete
  <2>2. \A s \in Seqs : s \in Batch(step) => seq'[s].status # "FINISHED_IGNORED"
    <3> SUFFICES ASSUME NEW s \in Seqs, s \in Batch(step)
                 PROVE  seq'[s].status # "FINISHED_IGNORED"
      OBVIOUS
    <3> DEFINE ends == s \in step.stop
               found == s \in text
    <3>1. seq'[s] = CompleteStep(seq[s], Chunk(seq[s]), shape[s].maxTokens, found, ends)
      BY <1>5 DEF Complete
    <3>2. ends \in BOOLEAN /\ found \in BOOLEAN /\ seq[s] \in SequenceObjects
      BY <1>0 DEF TypeOK
    <3> HIDE DEF ends, found
    <3> QED
      BY <3>1, <3>2, CompleteStatus
  <2>3. \A s \in Seqs \ Batch(step) : seq'[s] = seq[s]
    BY <1>5 DEF Complete
  <2> QED
    BY <2>1, <2>2, <2>3 DEF Ignored
<1>6. \/ seq' = seq
      \/ \E late \in SUBSET waiting : HPBeginStep(late)
      \/ \E s \in Seqs : HPIgnore(s)
      \/ \E stop \in SUBSET Seqs : DispatchBatch(stop)
      \/ \E text \in SUBSET Seqs : Complete(text)
  BY DEF HPNext, HPStep, AddRequest, HPAdmit, HPEndPrefill, ScheduleDecode, PreemptNewest,
         HPEndDecode, EndDecode, DispatchNothing, DispatchAborts, WorkerNext, WorkerSkip,
         WorkerExecute, engineVars
<1> QED
  BY <1>1, <1>2, <1>3, <1>4, <1>5, <1>6

LEMMA HPPlacesInductive == HPInvariant /\ [HPNext]_vars => HPStepOK' /\ HPOnePlace'
<1> SUFFICES ASSUME HPInvariant, [HPNext]_vars PROVE HPStepOK' /\ HPOnePlace'
  OBVIOUS
<1>0. TypeOK /\ step \in Steps /\ HPStepOK /\ HPOnePlace /\ TypeOK'
  BY HPTypeInductive DEF HPInvariant, TypeOK
<1> USE <1>0 DEF HPStepOK, HPOnePlace, Batch
<1>a. CASE UNCHANGED <<phase, step, waiting, running, reported, arrived, seq>>
  BY <1>a DEF Ignored
<1>b. ASSUME HPNext
      PROVE  Ignored \subseteq Ignored' /\ Ignored' \subseteq Ignored \cup step'.ignored
  BY <1>b, IgnoredStep DEF HPInvariant
<1>1. ASSUME NEW s \in Seqs, AddRequest(s) PROVE HPStepOK' /\ HPOnePlace'
  <2>1. /\ phase = "idle" /\ s \notin arrived /\ arrived' = arrived \cup {s}
        /\ waiting' = waiting \cup {s}
        /\ UNCHANGED <<phase, step, running, reported, seq>>
    BY <1>1 DEF AddRequest
  <2>2. Ignored' = Ignored
    BY <2>1 DEF Ignored
  <2> QED
    BY <2>1, <2>2 DEF NoStep
<1>2. ASSUME NEW late \in SUBSET waiting, HPBeginStep(late) PROVE HPStepOK' /\ HPOnePlace'
  <2>1. /\ phase = "idle" /\ phase' = "prefill"
        /\ step = NoStep /\ waiting' = waiting \ late
        /\ step' = [NoStep EXCEPT !.aborted = late]
        /\ UNCHANGED <<running, arrived, reported>>
    BY <1>2 DEF HPBeginStep, BeginStep
  <2>2. /\ step.kept = {} /\ step.aborted = {} /\ step.ignored = {}
        /\ step'.aborted = late
        /\ step'.kept = {} /\ step'.prompts = {} /\ step'.decodes = {}
        /\ step'.ignored = {} /\ step'.preempted = {}
    BY <2>1 DEF NoStep
  <2>3. Ignored' = Ignored
    BY <1>2, <1>b, <2>2 DEF HPNext, HPStep
  <2> QED
    BY <2>1, <2>2, <2>3
<1>3. ASSUME NEW s \in Seqs, HPIgnore(s) PROVE HPStepOK' /\ HPOnePlace'
  <2>1. /\ phase = "prefill" /\ phase' = phase /\ s \in waiting
        /\ waiting' = waiting \ {s}
        /\ step' = [step EXCEPT !.ignored = @ \cup {s}]
        /\ seq' = [seq EXCEPT ![s] = SetStatus(@, "FINISHED_IGNORED")]
        /\ UNCHANGED <<running, arrived, reported>>
    BY <1>3 DEF HPIgnore
  <2>2. /\ step'.kept = step.kept /\ step'.decodes = step.decodes
        /\ step'.prompts = step.prompts /\ step'.ignored = step.ignored \cup {s}
        /\ step'.aborted = step.aborted /\ step'.preempted = step.preempted
    BY <2>1 DEF Steps
  <2>3. Ignored' = Ignored \cup {s}
    <3>1. seq'[s].status = "FINISHED_IGNORED"
      BY <2>1, SetStatusScheduled DEF TypeOK, Status, Finished
    <3>2. \A r \in Seqs \ {s} : seq'[r] = seq[r]
      BY <2>1 DEF TypeOK
    <3> QED
      BY <3>1, <3>2 DEF Ignored
  <2> QED
    BY <2>1, <2>2, <2>3
<1>4. ASSUME NEW s \in Seqs, HPAdmit(s) PROVE HPStepOK' /\ HPOnePlace'
  <2>1. /\ phase = "prefill" /\ phase' = phase /\ s \in waiting
        /\ waiting' = waiting \ {s} /\ running' = running \cup {s}
        /\ UNCHANGED <<arrived, reported, seq>>
    BY <1>4 DEF HPAdmit
  <2>2. /\ step'.kept = step.kept
        /\ step'.decodes \cup step'.prompts = Batch(step) \cup {s}
        /\ step'.ignored = step.ignored
        /\ step'.aborted = step.aborted /\ step'.preempted = step.preempted
    BY <1>4 DEF HPAdmit, Steps
  <2>3. Ignored' = Ignored
    BY <2>1 DEF Ignored
  <2> QED
    BY <2>1, <2>2, <2>3
<1>5. CASE HPEndPrefill
  <2>1. /\ phase = "prefill" /\ phase' \in {"dispatch", "decode"}
        /\ phase' = "decode" => Batch(step) = {}
        /\ UNCHANGED <<step, waiting, running, arrived, reported, seq>>
    BY <1>5 DEF HPEndPrefill
  <2>2. Ignored' = Ignored
    BY <2>1 DEF Ignored
  <2> QED
    BY <2>1, <2>2
<1>6. CASE ScheduleDecode
  <2> DEFINE s == Min(running)
  <2>1. s \in running
    BY <1>6, HPRunningMember DEF ScheduleDecode
  <2>2. /\ phase = "decode" /\ phase' = phase
        /\ running' = running \ {s}
        /\ step' = [step EXCEPT !.kept = @ \cup {s}, !.decodes = @ \cup {s}]
        /\ UNCHANGED <<waiting, arrived, reported, seq>>
    BY <1>6 DEF ScheduleDecode
  <2> HIDE DEF s
  <2>3. /\ step'.kept = step.kept \cup {s} /\ step'.decodes = step.decodes \cup {s}
        /\ step'.prompts = step.prompts /\ step'.ignored = step.ignored
        /\ step'.aborted = step.aborted /\ step'.preempted = step.preempted
    BY <2>2 DEF Steps
  <2>4. Ignored' = Ignored
    BY <2>2 DEF Ignored
  <2> QED
    BY <2>1, <2>2, <2>3, <2>4
<1>7. CASE PreemptNewest
  <2> DEFINE v == Max(running)
  <2>1. v \in running
    BY <1>7, HPRunningMember DEF PreemptNewest, Victim
  <2>2. /\ phase = "decode" /\ phase' = phase
        /\ running' = running \ {v} /\ waiting' = waiting \cup {v}
        /\ step' = [step EXCEPT !.preempted = @ \cup {v}]
        /\ UNCHANGED <<arrived, reported, seq>>
    BY <1>7 DEF PreemptNewest, Victim
  <2> HIDE DEF v
  <2>3. /\ step'.kept = step.kept /\ step'.decodes = step.decodes
        /\ step'.prompts = step.prompts /\ step'.ignored = step.ignored
        /\ step'.aborted = step.aborted /\ step'.preempted = step.preempted \cup {v}
    BY <2>2 DEF Steps
  <2>4. Ignored' = Ignored
    BY <2>2 DEF Ignored
  <2> QED
    BY <2>1, <2>2, <2>3, <2>4
<1>8. CASE HPEndDecode
  <2>1. /\ phase = "decode" /\ phase' = "dispatch"
        /\ running = {} /\ running' = step.kept
        /\ step' = [step EXCEPT !.kept = {}]
        /\ UNCHANGED <<waiting, arrived, reported, seq>>
    BY <1>8 DEF HPEndDecode, EndDecode
  <2>2. /\ step'.kept = {} /\ step'.decodes = step.decodes
        /\ step'.prompts = step.prompts /\ step'.ignored = step.ignored
        /\ step'.aborted = step.aborted /\ step'.preempted = step.preempted
    BY <2>1 DEF Steps
  <2>3. Ignored' = Ignored
    BY <2>1 DEF Ignored
  <2> QED
    BY <2>1, <2>2, <2>3
<1>9. CASE DispatchNothing \/ DispatchAborts
  <2>1. /\ phase = "dispatch" /\ phase' = "idle" /\ step' = NoStep
        /\ reported' = reported \cup step.aborted
        /\ UNCHANGED <<waiting, running, arrived, seq>>
    BY <1>9 DEF DispatchNothing, DispatchAborts
  <2>2. /\ step'.kept = {} /\ step'.decodes = {} /\ step'.prompts = {}
        /\ step'.ignored = {} /\ step'.aborted = {} /\ step'.preempted = {}
    BY <2>1 DEF NoStep
  <2>3. Ignored' = Ignored
    BY <2>1 DEF Ignored
  <2> QED
    BY <2>1, <2>2, <2>3
<1>10. ASSUME NEW stop \in SUBSET Seqs, DispatchBatch(stop) PROVE HPStepOK' /\ HPOnePlace'
  <2>1. /\ phase = "dispatch" /\ phase' = "wait"
        /\ step' = [step EXCEPT !.stop = stop]
        /\ UNCHANGED <<waiting, running, arrived, reported>>
    BY <1>10 DEF DispatchBatch
  <2>2. /\ step'.kept = step.kept /\ step'.decodes = step.decodes
        /\ step'.prompts = step.prompts /\ step'.ignored = step.ignored
        /\ step'.aborted = step.aborted /\ step'.preempted = step.preempted
    BY <2>1 DEF Steps
  <2>3. Ignored' = Ignored
    BY <1>10, <1>b, <2>2 DEF HPNext, HPStep
  <2> QED
    BY <2>1, <2>2, <2>3
<1>11. ASSUME NEW text \in SUBSET Seqs, Complete(text) PROVE HPStepOK' /\ HPOnePlace'
  <2>1. PICK done \in SUBSET Batch(step) :
          /\ running' = running \ done
          /\ reported' = reported \cup done \cup step.ignored \cup step.aborted
    BY <1>11 DEF Complete
  <2>2. /\ phase = "wait" /\ phase' = "idle" /\ step' = NoStep
        /\ UNCHANGED <<waiting, arrived>>
    BY <1>11 DEF Complete
  <2>3. /\ step'.kept = {} /\ step'.decodes = {} /\ step'.prompts = {}
        /\ step'.ignored = {} /\ step'.aborted = {} /\ step'.preempted = {}
    BY <2>2 DEF NoStep
  <2>4. Ignored' = Ignored
    BY <1>11, <1>b, <2>3 DEF HPNext, HPStep
  <2> QED
    BY <2>1, <2>2, <2>3, <2>4
<1>12. CASE WorkerNext
  BY <1>12, <1>a DEF WorkerNext, WorkerSkip, WorkerExecute, engineVars
<1>13. CASE UNCHANGED vars
  BY <1>13, <1>a DEF vars, engineVars
<1> QED
  BY <1>1, <1>2, <1>3, <1>4, <1>5, <1>6, <1>7, <1>8, <1>9, <1>10, <1>11, <1>12,
     <1>13 DEF HPNext, HPStep

LEMMA HPInductive == HPSpec => []HPInvariant
<1>1. Init => HPInvariant
  BY InitType, HPPlacesInit DEF HPInvariant
<1>2. HPInvariant /\ [HPNext]_vars => HPInvariant'
  BY HPTypeInductive, HPPlacesInductive DEF HPInvariant
<1> QED
  BY <1>1, <1>2, PTL DEF HPSpec

(* No request is lost or duplicated: whatever is preempted, aborted or     *)
(* refused for its length, each request given to the instance is in        *)
(* exactly one of its lists, was reported, or was ignored.                 *)
THEOREM HPExactlyOnePlace == HPSpec => []HPOnePlace
<1>1. HPInvariant => HPOnePlace
  BY DEF HPInvariant
<1> QED
  BY <1>1, HPInductive, PTL

-----------------------------------------------------------------------------
(* The instance implements RequestStream.                                  *)

HPStagesMove(R, st) == \A s \in Seqs : HPStage(s)' = IF s \in R THEN st ELSE HPStage(s)

LEMMA HPAcceptMaps ==
  ASSUME NEW s \in Seqs, HPStage(s) = "unknown", HPStagesMove({s}, "accepted"), TokensAdded({})
  PROVE  HPStream!StreamNext
<1>1. HPStream!Accept(s)
  BY DEF HPStream!Accept, HPStream!Move, HPStagesMove, TokensAdded, Emitted
<1> QED
  BY <1>1 DEF HPStream!StreamNext

LEMMA HPServeMaps ==
  ASSUME NEW G \in SUBSET Seqs, NEW E \in SUBSET Seqs,
         \A s \in G \cup E : HPStage(s) = "accepted",
         HPStagesMove(E, "closed"), TokensAdded(G)
  PROVE  HPStream!StreamNext
<1>1. HPStream!Serve(G, E)
  BY DEF HPStream!Serve, HPStream!Move, HPStagesMove, TokensAdded, Emitted
<1> QED
  BY <1>1 DEF HPStream!StreamNext

LEMMA HPStutterMaps ==
  ASSUME HPStagesMove({}, "closed"), TokensAdded({})
  PROVE  UNCHANGED HPStream!streamVars
  BY DEF HPStream!streamVars, HPStagesMove, TokensAdded, Emitted

LEMMA HPStreamInitially == Init => HPStream!StreamInit
<1> SUFFICES ASSUME Init PROVE HPStream!StreamInit
  OBVIOUS
<1>1. \A s \in Seqs : HPStage(s) = "unknown"
  BY DEF Init, HPStage
<1>2. \A s \in Seqs : Emitted(s) = 0
  BY NothingEmitted
<1> QED
  BY <1>1, <1>2 DEF HPStream!StreamInit, Emitted

(* A step the client does not see.                                         *)
HPStreamStays ==
  /\ UNCHANGED <<shape, reported, arrived>>
  /\ \A s \in Seqs : GetLen(seq'[s]) = GetLen(seq[s])

LEMMA HPStreamStep ==
  ASSUME HPInvariant, HPNext
  PROVE  HPStream!StreamNext \/ UNCHANGED HPStream!streamVars
<1>0. TypeOK /\ step \in Steps /\ HPOnePlace /\ HPStepOK
  BY DEF HPInvariant, TypeOK
<1>1. CASE HPStreamStays
  BY <1>1, NothingAdded, HPStutterMaps DEF HPStreamStays, HPStagesMove, HPStage
<1>2. ASSUME NEW s \in Seqs, AddRequest(s) PROVE HPStream!StreamNext
  <2>1. /\ s \notin arrived /\ arrived' = arrived \cup {s}
        /\ UNCHANGED <<shape, seq, reported>>
    BY <1>2 DEF AddRequest
  <2>2. s \notin reported
    BY <1>0, <2>1 DEF HPOnePlace
  <2>3. HPStage(s) = "unknown" /\ HPStagesMove({s}, "accepted")
    BY <2>1, <2>2 DEF HPStage, HPStagesMove
  <2> QED
    BY <2>1, <2>3, NothingAdded, HPAcceptMaps
<1>3. CASE DispatchAborts
  <2>1. /\ reported' = reported \cup step.aborted
        /\ UNCHANGED <<shape, seq, arrived>>
    BY <1>3 DEF DispatchAborts
  <2>2. step.aborted \in SUBSET Seqs /\ step.aborted \subseteq arrived \ reported
    BY <1>0 DEF HPOnePlace, Steps
  <2>3. /\ \A s \in step.aborted : HPStage(s) = "accepted"
        /\ HPStagesMove(step.aborted, "closed")
    BY <2>1, <2>2 DEF HPStage, HPStagesMove
  <2>4. TokensAdded({})
    BY <2>1, NothingAdded
  <2> QED
    BY <2>2, <2>3, <2>4, HPServeMaps
<1>4. ASSUME NEW text \in SUBSET Seqs, Complete(text) PROVE HPStream!StreamNext
  <2>1. PICK done \in SUBSET Batch(step) :
          reported' = reported \cup done \cup step.ignored \cup step.aborted
    BY <1>4 DEF Complete
  <2>2. UNCHANGED arrived /\ phase = "wait"
    BY <1>4 DEF Complete
  <2> DEFINE E == done \cup step.ignored \cup step.aborted
  <2>3. Grown \subseteq Batch(step) /\ Batch(step) \subseteq running /\ running \subseteq Seqs
    BY <1>0, <2>2 DEF HPStepOK, TypeOK, Grown
  <2>4. /\ E \in SUBSET Seqs /\ Grown \in SUBSET Seqs
        /\ Grown \cup E \subseteq arrived \ reported
    BY <1>0, <2>1, <2>3 DEF HPOnePlace, Steps
  <2>5. TokensAdded(Grown)
    BY <1>0, <1>4, CompleteTokens
  <2>6. HPStagesMove(E, "closed") /\ \A s \in Grown \cup E : HPStage(s) = "accepted"
    BY <2>1, <2>2, <2>4 DEF HPStage, HPStagesMove
  <2> HIDE DEF E
  <2> QED
    BY <2>4, <2>5, <2>6, HPServeMaps
<1>5. \/ HPStreamStays
      \/ \E s \in Seqs : AddRequest(s)
      \/ DispatchAborts
      \/ \E text \in SUBSET Seqs : Complete(text)
  <2>1. CASE UNCHANGED <<shape, seq, reported, arrived>>
    BY <2>1 DEF HPStreamStays
  <2>2. ASSUME NEW late \in SUBSET waiting, HPBeginStep(late) PROVE HPStreamStays
    BY <1>0, <2>2, BeginStepLen DEF HPStreamStays, HPBeginStep, BeginStep
  <2>3. ASSUME NEW s \in Seqs, HPIgnore(s) PROVE HPStreamStays
    <3>1. /\ seq' = [seq EXCEPT ![s] = SetStatus(@, "FINISHED_IGNORED")]
          /\ UNCHANGED <<shape, reported, arrived>>
      BY <2>3 DEF HPIgnore
    <3>2. \A r \in Seqs : GetLen(seq'[r]) = GetLen(seq[r])
      BY <1>0, <3>1, SetStatusLen DEF TypeOK
    <3> QED
      BY <3>1, <3>2 DEF HPStreamStays
  <2>4. ASSUME NEW stop \in SUBSET Seqs, DispatchBatch(stop) PROVE HPStreamStays
    BY <1>0, <2>4, DispatchBatchLen DEF HPStreamStays, DispatchBatch
  <2>5. CASE ScheduleDecode \/ PreemptNewest \/ HPEndDecode
    BY <2>1, <2>5 DEF ScheduleDecode, PreemptNewest, HPEndDecode, EndDecode
  <2>6. CASE HPEndPrefill \/ DispatchNothing \/ WorkerNext \/ \E s \in Seqs : HPAdmit(s)
    BY <2>1, <2>6 DEF HPEndPrefill, DispatchNothing, WorkerNext, WorkerSkip, WorkerExecute,
                      HPAdmit, engineVars
  <2> QED
    BY <2>1, <2>2, <2>3, <2>4, <2>5, <2>6 DEF HPNext, HPStep
<1> QED
  BY <1>1, <1>2, <1>3, <1>4, <1>5

(* The high-priority instance keeps the promise of RequestStream: across   *)
(* preemption by recompute, aborts and refusals no token is lost and none  *)
(* follows the end of a request.                                           *)
THEOREM HPRefinesStream == HPSpec => HPImplementsStream
<1>1. Init => HPInvariant /\ HPStream!StreamInit
  BY InitType, HPPlacesInit, HPStreamInitially DEF HPInvariant
<1>2. HPInvariant /\ [HPNext]_vars => HPInvariant'
  BY HPTypeInductive, HPPlacesInductive DEF HPInvariant
<1>3. HPInvariant /\ [HPNext]_vars => [HPStream!StreamNext]_(HPStream!streamVars)
  <2>1. CASE UNCHANGED vars
    <3>1. UNCHANGED <<seq, shape, reported, arrived>>
      BY <2>1 DEF vars, engineVars
    <3>2. UNCHANGED HPStream!streamVars
      BY <3>1, NothingAdded, HPStutterMaps DEF HPStagesMove, HPStage
    <3> QED
      BY <3>2
  <2> QED
    BY <2>1, HPStreamStep
<1> QED
  BY <1>1, <1>2, <1>3, PTL DEF HPSpec, HPImplementsStream, HPStream!StreamSpec

-----------------------------------------------------------------------------
(* The oldest sequence is never preempted.                                 *)

(* The decode loop has kept a prefix of the sorted running list.           *)
KeptOldest == \A k \in step.kept, r \in running : k < r

LEMMA KeptOldestInductive ==
  ASSUME HPInvariant, HPInvariant', KeptOldest, [HPNext]_vars
  PROVE  KeptOldest'
<1>0. TypeOK /\ step \in Steps /\ HPStepOK /\ HPStepOK'
  BY DEF HPInvariant, TypeOK
<1>1. CASE phase' # "decode"
  BY <1>0, <1>1 DEF HPStepOK, KeptOldest
<1>2. CASE UNCHANGED <<phase, step, running>>
  BY <1>2 DEF KeptOldest
<1>3. CASE HPEndPrefill
  BY <1>3, <1>0 DEF HPEndPrefill, HPStepOK, KeptOldest
<1>4. CASE ScheduleDecode
  <2> DEFINE s == Min(running)
  <2>1. s \in running /\ \A r \in running : s <= r
    BY <1>0, <1>4, SeqsSubset, MinMember DEF ScheduleDecode, TypeOK
  <2>2. running' = running \ {s} /\ step' = [step EXCEPT !.kept = @ \cup {s},
                                                         !.decodes = @ \cup {s}]
    BY <1>4 DEF ScheduleDecode
  <2>3. running \subseteq Nat
    BY <1>0, SeqsSubset DEF TypeOK
  <2> HIDE DEF s
  <2>4. step'.kept = step.kept \cup {s}
    BY <1>0, <2>2 DEF Steps
  <2>5. \A r \in running' : s < r
    BY <2>1, <2>2, <2>3
  <2> QED
    BY <2>2, <2>4, <2>5 DEF KeptOldest
<1>5. CASE PreemptNewest
  <2>1. running' \subseteq running /\ step'.kept = step.kept
    BY <1>0, <1>5 DEF PreemptNewest, Steps
  <2> QED
    BY <2>1 DEF KeptOldest
<1>6. \/ phase' # "decode" \/ UNCHANGED <<phase, step, running>>
      \/ HPEndPrefill \/ ScheduleDecode \/ PreemptNewest
  <2>1. ASSUME NEW late \in SUBSET waiting, HPBeginStep(late) PROVE phase' # "decode"
    BY <2>1 DEF HPBeginStep, BeginStep
  <2>2. ASSUME NEW s \in Seqs, HPIgnore(s) \/ HPAdmit(s) PROVE phase' # "decode"
    BY <2>2 DEF HPIgnore, HPAdmit
  <2>3. ASSUME NEW stop \in SUBSET Seqs, DispatchBatch(stop) PROVE phase' # "decode"
    BY <2>3 DEF DispatchBatch
  <2>4. ASSUME NEW text \in SUBSET Seqs, Complete(text) PROVE phase' # "decode"
    BY <2>4 DEF Complete
  <2>5. CASE HPEndDecode \/ DispatchNothing \/ DispatchAborts
    BY <2>5 DEF HPEndDecode, EndDecode, DispatchNothing, DispatchAborts
  <2>6. CASE WorkerNext \/ UNCHANGED vars
    BY <2>6 DEF WorkerNext, WorkerSkip, WorkerExecute, vars, engineVars
  <2>7. ASSUME NEW s \in Seqs, AddRequest(s) PROVE UNCHANGED <<phase, step, running>>
    BY <2>7 DEF AddRequest
  <2> QED
    BY <2>1, <2>2, <2>3, <2>4, <2>5, <2>6, <2>7 DEF HPNext, HPStep
<1> QED
  BY <1>1, <1>2, <1>3, <1>4, <1>5, <1>6

(* Who a step adds to the preempted ones: the tail of the running list.    *)
LEMMA PreemptsNewest ==
  ASSUME HPInvariant, [HPNext]_vars
  PROVE  step'.preempted \subseteq step.preempted \/ PreemptNewest
<1>0. step \in Steps
  BY DEF HPInvariant, TypeOK
<1>1. ASSUME NEW late \in SUBSET waiting, HPBeginStep(late)
      PROVE  step'.preempted \subseteq step.preempted
  BY <1>1 DEF HPBeginStep, BeginStep, NoStep
<1>2. ASSUME NEW s \in Seqs, HPIgnore(s) \/ HPAdmit(s)
      PROVE  step'.preempted \subseteq step.preempted
  <2>1. CASE HPIgnore(s)
    BY <1>0, <2>1 DEF HPIgnore, Steps
  <2>2. CASE HPAdmit(s)
    BY <1>0, <2>2 DEF HPAdmit, Steps
  <2> QED
    BY <1>2, <2>1, <2>2
<1>3. ASSUME NEW stop \in SUBSET Seqs, DispatchBatch(stop)
      PROVE  step'.preempted \subseteq step.preempted
  BY <1>0, <1>3 DEF DispatchBatch, Steps
<1>4. ASSUME NEW text \in SUBSET Seqs, Complete(text)
      PROVE  step'.preempted \subseteq step.preempted
  BY <1>4 DEF Complete, NoStep
<1>5. CASE HPEndDecode \/ ScheduleDecode
  BY <1>0, <1>5 DEF HPEndDecode, EndDecode, ScheduleDecode, Steps
<1>6. CASE DispatchNothing \/ DispatchAborts
  BY <1>6 DEF DispatchNothing, DispatchAborts, NoStep
<1>7. CASE HPEndPrefill \/ WorkerNext \/ UNCHANGED vars
  BY <1>7 DEF HPEndPrefill, WorkerNext, WorkerSkip, WorkerExecute, vars, engineVars
<1>8. ASSUME NEW s \in Seqs, AddRequest(s) PROVE step' = step
  BY <1>8 DEF AddRequest
<1> QED
  BY <1>1, <1>2, <1>3, <1>4, <1>5, <1>6, <1>7, <1>8 DEF HPNext, HPStep

LEMMA NewestIsNotOldest ==
  ASSUME TypeOK, KeptOldest, PreemptNewest,
         NEW s \in step'.preempted \ step.preempted
  PROVE  running \cup step.kept = {s} \/ \E r \in running \cup step.kept : r < s
<1>1. running # {} /\ s = Max(running)
  BY DEF PreemptNewest, Victim, TypeOK, Steps
<1>2. s \in running /\ (\A r \in running : r <= s) /\ running \subseteq Nat
  BY <1>1, SeqsSubset, MaxMember DEF TypeOK
<1>3. CASE running = {s}
  <2>1. CASE step.kept = {}
    BY <1>3, <2>1
  <2>2. CASE step.kept # {}
    BY <1>2, <2>2 DEF KeptOldest
  <2> QED
    BY <2>1, <2>2
<1>4. CASE running # {s}
  <2>1. PICK r \in running : r # s
    BY <1>2, <1>4
  <2>2. r < s
    BY <1>2, <2>1
  <2> QED
    BY <2>2
<1> QED
  BY <1>3, <1>4

(* Among the sequences that hold blocks the oldest is never preempted      *)
(* while there is another: with the tail of the sorted list as victim, the *)
(* prefix the loop has kept is always older.                               *)
THEOREM HPOldestStays == HPSpec => OldestNotPreempted
<1>1. Init => KeptOldest
  BY DEF Init, KeptOldest
<1>2. HPInvariant /\ HPInvariant' /\ KeptOldest /\ [HPNext]_vars => KeptOldest'
  BY KeptOldestInductive
<1>3. HPInvariant /\ KeptOldest /\ [HPNext]_vars
        => [\A s \in (step'.preempted \ step.preempted) :
              \/ running \cup step.kept = {s}
              \/ \E r \in running \cup step.kept : r < s]_vars
  BY PreemptsNewest, NewestIsNotOldest DEF HPInvariant
<1> QED
  BY <1>1, <1>2, <1>3, HPInductive, PTL DEF HPSpec, OldestNotPreempted

-----------------------------------------------------------------------------
(* The shared invariant holds here.                                        *)

LEMMA HPApart == HPInvariant => Apart
  BY DEF HPInvariant, HPOnePlace, Apart

(* A refused sequence leaves the waiting list, and only its own object     *)
(* changes: it holds no block and is in no batch.                          *)
LEMMA IgnoreSane ==
  ASSUME Sane, TypeOK', Apart', step.preempted = {}, NEW s \in Seqs, HPIgnore(s)
  PROVE  Sane'
<1>1. /\ phase = "prefill" /\ phase' = "prefill" /\ TypeOK /\ s \in waiting
      /\ seq' = [seq EXCEPT ![s] = SetStatus(@, "FINISHED_IGNORED")]
      /\ waiting' = waiting \ {s}
      /\ step' = [step EXCEPT !.ignored = @ \cup {s}]
      /\ UNCHANGED <<shape, arrived, seqMap, newSeqs, running, table>>
  BY DEF HPIgnore, Sane
<1>2. /\ step'.kept = step.kept /\ step'.decodes = step.decodes
      /\ step'.prompts = step.prompts /\ step'.ignored = step.ignored \cup {s}
      /\ step'.aborted = step.aborted /\ step'.preempted = {}
      /\ Batch(step') = Batch(step)
  BY <1>1 DEF TypeOK, Steps, Batch
<1>3. /\ step.kept = {} /\ Batch(step) \subseteq running /\ s \notin running
      /\ s \in seqMap /\ s \in arrived
  BY <1>1 DEF Sane, Building, Apart, Known
<1>4. /\ \A r \in Seqs \ {s} : seq'[r] = seq[r]
      /\ seq'[s].prompt = seq[s].prompt
  BY <1>1, SetStatusFields DEF TypeOK, Status, Finished
<1>5. Building'
  BY <1>1, <1>2 DEF Sane, Building
<1>6. HoldersOK'
  <2>1. \A r \in running : r \in Seqs \ {s} /\ LogicalBlocks(seq'[r]) = LogicalBlocks(seq[r])
    BY <1>1, <1>3, <1>4 DEF TypeOK
  <2> QED
    BY <1>1, <1>2, <1>3, <2>1 DEF Sane, HoldersOK
<1>7. Ready'
  <2>1. \A r \in Seqs : seq'[r].prompt > 0
    BY <1>4 DEF Sane, Ready
  <2>2. \A r \in Seqs \ arrived : seq'[r] = NewObject(shape'[r].prompt)
    BY <1>1, <1>3, <1>4 DEF Sane, Ready
  <2>3. waiting' \subseteq Seqs \ {s} /\ running' \cup step'.kept \subseteq Seqs \ {s}
        /\ step'.prompts \cup step'.decodes \subseteq Seqs \ {s}
    BY <1>1, <1>2, <1>3 DEF TypeOK, Batch
  <2> QED
    BY <1>1, <1>2, <1>4, <2>1, <2>2, <2>3 DEF Sane, Ready
<1>8. Known'
  BY <1>1, <1>2, <1>3 DEF Sane, Known
<1> QED
  BY <1>5, <1>6, <1>7, <1>8 DEF Sane

LEMMA HPSaneStep == HPInvariant /\ Sane /\ [HPNext]_vars => Sane'
<1> SUFFICES ASSUME HPInvariant, Sane, [HPNext]_vars PROVE Sane'
  OBVIOUS
<1>0. TypeOK' /\ Apart' /\ TypeOK
  <2>1. HPInvariant'
    BY HPTypeInductive, HPPlacesInductive DEF HPInvariant
  <2> QED
    BY <2>1 DEF HPInvariant, HPOnePlace, Apart
<1>1. ASSUME NEW s \in Seqs, AddRequest(s) PROVE Sane'
  BY <1>0, <1>1, AddRequestSane
<1>2. ASSUME NEW late \in SUBSET waiting, HPBeginStep(late) PROVE Sane'
  BY <1>0, <1>2, BeginStepSane DEF HPBeginStep
<1>3. ASSUME NEW s \in Seqs, HPIgnore(s) PROVE Sane'
  <2>1. step.preempted = {}
    BY <1>3 DEF HPIgnore, HPInvariant, HPStepOK
  <2> QED
    BY <1>0, <1>3, <2>1, IgnoreSane
<1>4. ASSUME NEW s \in Seqs, HPAdmit(s) PROVE Sane'
  <2> DEFINE P == IF PromptProcessed(seq[s]) THEN {} ELSE {s}
             D == IF PromptProcessed(seq[s]) THEN {s} ELSE {}
  <2>1. /\ phase = "prefill" /\ phase' = phase /\ s \in waiting /\ ~TooLong(s)
        /\ CanAllocate(s)
        /\ table' = [table EXCEPT ![s] = LogicalBlocks(seq[s])]
        /\ waiting' = waiting \ {s} /\ running' = running \cup {s}
        /\ UNCHANGED <<shape, arrived, seq, seqMap, newSeqs>>
    BY <1>4 DEF HPAdmit, Admits
  <2>2. step.preempted = {}
    BY <2>1 DEF HPInvariant, HPStepOK
  <2>3. /\ step'.kept = step.kept /\ step'.decodes = step.decodes \cup D
        /\ step'.prompts = step.prompts \cup P /\ step'.preempted = step.preempted
        /\ step'.aborted = step.aborted /\ step'.ignored = step.ignored
    <3>1. step \in Steps /\ step' = IF PromptProcessed(seq[s])
                                    THEN [step EXCEPT !.decodes = @ \cup {s}]
                                    ELSE [step EXCEPT !.prompts = @ \cup {s}]
      BY <1>0, <1>4 DEF HPAdmit, TypeOK
    <3>2. CASE PromptProcessed(seq[s])
      BY <3>1, <3>2 DEF Steps
    <3>3. CASE ~PromptProcessed(seq[s])
      BY <3>1, <3>3 DEF Steps
    <3> QED
      BY <3>2, <3>3
  <2>4. GetLen(seq[s]) <= PromptLimit
    <3>1. GetLen(seq[s]) \in Nat
      BY <1>0, <2>1, NeedsBlocks DEF TypeOK
    <3> QED
      BY <2>1, <3>1, Limits DEF TooLong
  <2>5. /\ P \in SUBSET {s} /\ D \in SUBSET {s} /\ P \cup D = {s} /\ P \cap D = {}
        /\ (s \in P <=> ~PromptProcessed(seq[s]))
    OBVIOUS
  <2> HIDE DEF P, D
  <2> QED
    BY <1>0, <2>1, <2>2, <2>3, <2>4, <2>5, AdmitSane
<1>5. CASE HPEndPrefill
  <2>1. /\ phase = "prefill" /\ phase' \in {"dispatch", "decode"}
        /\ phase' = "decode" => Batch(step) = {}
        /\ UNCHANGED <<shape, arrived, seq, seqMap, newSeqs, waiting, running, table, step>>
    BY <1>5 DEF HPEndPrefill
  <2>2. /\ {} \in SUBSET waiting /\ {} \cap step.preempted = {}
        /\ waiting' = waiting \ {} /\ seqMap' = seqMap \ {}
    BY <2>1
  <2> QED
    BY <1>0, <2>1, <2>2, SidestepSane
<1>6. CASE ScheduleDecode \/ PreemptNewest
  BY <1>0, <1>6, ScheduleDecodeSane, PreemptNewestSane
<1>7. CASE HPEndDecode
  BY <1>0, <1>7, EndDecodeSane DEF HPEndDecode
<1>8. CASE DispatchNothing \/ DispatchAborts
  BY <1>0, <1>8, DispatchNothingSane
<1>9. ASSUME NEW stop \in SUBSET Seqs, DispatchBatch(stop) PROVE Sane'
  BY <1>0, <1>9, DispatchBatchSane
<1>10. ASSUME NEW text \in SUBSET Seqs, Complete(text) PROVE Sane'
  BY <1>0, <1>10, CompleteSane
<1>11. CASE WorkerNext \/ UNCHANGED vars
  <2>1. UNCHANGED engineVars
    BY <1>11 DEF WorkerNext, WorkerSkip, WorkerExecute, vars
  <2> QED
    BY <1>0, <2>1, EngineStays
<1> QED
  BY <1>1, <1>2, <1>3, <1>4, <1>5, <1>6, <1>7, <1>8, <1>9, <1>10, <1>11
     DEF HPNext, HPStep

LEMMA HPSaneInductive == HPSpec => [](HPInvariant /\ Sane)
<1>1. Init => HPInvariant /\ Sane
  BY InitType, HPPlacesInit, SaneInit DEF HPInvariant
<1>2. HPInvariant /\ Sane /\ [HPNext]_vars => HPInvariant' /\ Sane'
  BY HPTypeInductive, HPPlacesInductive, HPSaneStep DEF HPInvariant
<1> QED
  BY <1>1, <1>2, PTL DEF HPSpec

(* The scheduler's table never promises a block that does not exist, gives *)
(* blocks to running sequences only, and never lags behind the tokens of a *)
(* sequence by more than the block its last token opened, whatever the     *)
(* deadline order admits, ignores or preempts                              *)
(* (base_block_space_manager.py:54-113).                                   *)
THEOREM HPBlocks == HPSpec => []BlocksMatchWork
<1>1. HPInvariant /\ Sane => BlocksMatchWork
  BY SaneBlocks
<1> QED
  BY <1>1, HPSaneInductive, PTL

-----------------------------------------------------------------------------
(* The batch stays within its bounds.                                      *)

(* A step that keeps no further sequence and no further prompt.            *)
LEMMA HPBoundsKept ==
  ASSUME TypeOK, HPBounds, running' \cup step'.kept \subseteq running \cup step.kept,
         \/ step'.prompts = {}
         \/ step'.prompts = step.prompts /\ \A s \in Seqs : GetLen(seq'[s]) = GetLen(seq[s])
  PROVE  HPBounds'
<1>1. running \cup step.kept \in SUBSET Seqs /\ step.prompts \in SUBSET Seqs
  BY DEF TypeOK, Steps
<1>2. /\ Cardinality(running \cup step.kept) \in Nat
      /\ Cardinality(running' \cup step'.kept) <= Cardinality(running \cup step.kept)
      /\ Cardinality(running' \cup step'.kept) \in Nat
  BY <1>1, HoldersCount
<1>3. EnforceMaxNumSeqs => Cardinality(running' \cup step'.kept) <= MaxNumSeqs
  BY <1>2, Limits DEF HPBounds
<1>4. PromptTokens(step.prompts)' <= MaxBatchedTokens
  <2>1. CASE step'.prompts = {}
    <3>1. PromptTokens(step.prompts)' = 0
      BY <2>1, SumEmpty DEF PromptTokens
    <3> QED
      BY <3>1, Limits
  <2>2. CASE step'.prompts = step.prompts /\ \A s \in Seqs : GetLen(seq'[s]) = GetLen(seq[s])
    <3>1. [s \in step.prompts |-> GetLen(seq'[s])] = [s \in step.prompts |-> GetLen(seq[s])]
      BY <1>1, <2>2
    <3>2. PromptTokens(step.prompts)' = PromptTokens(step.prompts)
      BY <2>2, <3>1 DEF PromptTokens
    <3> QED
      BY <3>2 DEF HPBounds
  <2> QED
    BY <2>1, <2>2
<1> QED
  BY <1>3, <1>4 DEF HPBounds

LEMMA HPBoundsInit == Init => HPBounds
<1> SUFFICES ASSUME Init PROVE HPBounds
  OBVIOUS
<1>1. running \cup step.kept = {} /\ step.prompts = {}
  BY DEF Init, NoStep
<1>2. Cardinality({}) = 0 /\ PromptTokens({}) = 0
  BY FS_EmptySet, SumEmpty DEF PromptTokens
<1> QED
  BY <1>1, <1>2, Limits DEF HPBounds

LEMMA AdmitBounds ==
  ASSUME HPInvariant, HPBounds, NEW s \in Seqs, HPAdmit(s)
  PROVE  HPBounds'
<1>1. /\ TypeOK /\ step.kept = {} /\ running \in SUBSET Seqs /\ s \notin running
      /\ Batch(step) \subseteq running /\ Batch(step) \cup {s} \in SUBSET Seqs
      /\ UNCHANGED seq /\ running' = running \cup {s}
  BY DEF HPAdmit, HPInvariant, HPStepOK, HPOnePlace, TypeOK
<1>2. /\ PromptTokens(Batch(step) \cup {s}) <= MaxBatchedTokens
      /\ EnforceMaxNumSeqs => Cardinality(running) + 1 <= MaxNumSeqs
  BY DEF HPAdmit, Admits, BelowSeqLimit
<1>3. step'.kept = {} /\ step'.prompts \in SUBSET (Batch(step) \cup {s})
  <2>1. step \in Steps /\ step' = IF PromptProcessed(seq[s])
                                  THEN [step EXCEPT !.decodes = @ \cup {s}]
                                  ELSE [step EXCEPT !.prompts = @ \cup {s}]
    BY <1>1 DEF HPAdmit, TypeOK
  <2>2. CASE PromptProcessed(seq[s])
    BY <1>1, <2>1, <2>2 DEF Steps, Batch
  <2>3. CASE ~PromptProcessed(seq[s])
    BY <1>1, <2>1, <2>3 DEF Steps, Batch
  <2> QED
    BY <2>2, <2>3
<1>4. Cardinality(running') = Cardinality(running) + 1
  BY <1>1, HoldersCount
<1>5. running' \cup step'.kept = running'
  BY <1>3
<1>6. PromptTokens(step'.prompts) <= MaxBatchedTokens
  <2>1. PromptTokens(step'.prompts) <= PromptTokens(Batch(step) \cup {s})
    BY <1>1, <1>3, TokensSubset
  <2>2. /\ PromptTokens(step'.prompts) \in Nat
        /\ PromptTokens(Batch(step) \cup {s}) \in Nat
    BY <1>1, <1>3, TokensWeigh
  <2> QED
    BY <1>2, <2>1, <2>2, Limits
<1>7. PromptTokens(step.prompts)' = PromptTokens(step'.prompts)
  BY <1>1 DEF PromptTokens
<1> QED
  BY <1>2, <1>4, <1>5, <1>6, <1>7 DEF HPBounds

LEMMA HPBoundsStep == HPInvariant /\ HPBounds /\ [HPNext]_vars => HPBounds'
<1> SUFFICES ASSUME HPInvariant, HPBounds, [HPNext]_vars PROVE HPBounds'
  OBVIOUS
<1>0. TypeOK /\ step \in Steps /\ HPStepOK
  BY DEF HPInvariant, TypeOK
<1>a. ASSUME running' \cup step'.kept \subseteq running \cup step.kept, step'.prompts = {}
      PROVE  HPBounds'
  BY <1>0, <1>a, HPBoundsKept
<1>b. ASSUME running' \cup step'.kept \subseteq running \cup step.kept,
             step'.prompts = step.prompts, \A s \in Seqs : GetLen(seq'[s]) = GetLen(seq[s])
      PROVE  HPBounds'
  BY <1>0, <1>b, HPBoundsKept
<1>1. ASSUME NEW s \in Seqs, AddRequest(s) PROVE HPBounds'
  BY <1>b, <1>1 DEF AddRequest
<1>2. ASSUME NEW late \in SUBSET waiting, HPBeginStep(late) PROVE HPBounds'
  <2>1. step' = [NoStep EXCEPT !.aborted = late] /\ running' = running
    BY <1>2 DEF HPBeginStep, BeginStep
  <2>2. step'.kept = {} /\ step'.prompts = {}
    BY <2>1 DEF NoStep
  <2> QED
    BY <1>a, <2>1, <2>2
<1>3. ASSUME NEW s \in Seqs, HPIgnore(s) PROVE HPBounds'
  <2>1. /\ seq' = [seq EXCEPT ![s] = SetStatus(@, "FINISHED_IGNORED")]
        /\ step' = [step EXCEPT !.ignored = @ \cup {s}] /\ running' = running
    BY <1>3 DEF HPIgnore
  <2>2. step'.kept = step.kept /\ step'.prompts = step.prompts
    BY <1>0, <2>1 DEF Steps
  <2>3. \A r \in Seqs : GetLen(seq'[r]) = GetLen(seq[r])
    BY <1>0, <2>1, SetStatusLen DEF TypeOK
  <2> QED
    BY <1>b, <2>1, <2>2, <2>3
<1>4. ASSUME NEW s \in Seqs, HPAdmit(s) PROVE HPBounds'
  BY <1>4, AdmitBounds
<1>5. CASE HPEndPrefill
  BY <1>b, <1>5 DEF HPEndPrefill
<1>6. CASE ScheduleDecode
  <2>1. Min(running) \in running
    BY <1>0, <1>6, HPRunningMember DEF ScheduleDecode
  <2>2. /\ running' = running \ {Min(running)} /\ UNCHANGED seq
        /\ step' = [step EXCEPT !.kept = @ \cup {Min(running)},
                                !.decodes = @ \cup {Min(running)}]
    BY <1>6 DEF ScheduleDecode
  <2>3. step'.kept = step.kept \cup {Min(running)} /\ step'.prompts = step.prompts
    BY <1>0, <2>2 DEF Steps
  <2> QED
    BY <1>b, <2>1, <2>2, <2>3
<1>7. CASE PreemptNewest
  <2>1. running' \subseteq running /\ UNCHANGED seq
        /\ \E v : step' = [step EXCEPT !.preempted = @ \cup {v}]
    BY <1>7 DEF PreemptNewest
  <2>2. step'.kept = step.kept /\ step'.prompts = step.prompts
    BY <1>0, <2>1 DEF Steps
  <2> QED
    BY <1>b, <2>1, <2>2
<1>8. CASE HPEndDecode
  <2>1. running' = step.kept /\ UNCHANGED seq /\ step' = [step EXCEPT !.kept = {}]
    BY <1>8 DEF HPEndDecode, EndDecode
  <2>2. step'.kept = {} /\ step'.prompts = step.prompts
    BY <1>0, <2>1 DEF Steps
  <2> QED
    BY <1>b, <2>1, <2>2
<1>9. ASSUME step' = NoStep, running' \subseteq running PROVE HPBounds'
  <2>1. step'.kept = {} /\ step'.prompts = {}
    BY <1>9 DEF NoStep
  <2> QED
    BY <1>a, <1>9, <2>1
<1>10. CASE DispatchNothing \/ DispatchAborts
  BY <1>9, <1>10 DEF DispatchNothing, DispatchAborts
<1>11. ASSUME NEW stop \in SUBSET Seqs, DispatchBatch(stop) PROVE HPBounds'
  <2>1. step' = [step EXCEPT !.stop = stop] /\ running' = running
    BY <1>11 DEF DispatchBatch
  <2>2. step'.kept = step.kept /\ step'.prompts = step.prompts
    BY <1>0, <2>1 DEF Steps
  <2> QED
    BY <1>0, <1>b, <1>11, <2>1, <2>2, DispatchBatchLen
<1>12. ASSUME NEW text \in SUBSET Seqs, Complete(text) PROVE HPBounds'
  <2>1. step' = NoStep /\ running' \subseteq running
    BY <1>12 DEF Complete
  <2> QED
    BY <1>9, <2>1
<1>13. CASE WorkerNext \/ UNCHANGED vars
  <2>1. UNCHANGED <<running, step, seq>>
    BY <1>13 DEF WorkerNext, WorkerSkip, WorkerExecute, vars, engineVars
  <2> QED
    BY <1>b, <2>1
<1> QED
  BY <1>1, <1>2, <1>3, <1>4, <1>5, <1>6, <1>7, <1>8, <1>10, <1>11, <1>12, <1>13
     DEF HPNext, HPStep

(* The prompts of one schedule of the high-priority instance stay within   *)
(* max_num_batched_tokens, and with enforce_max_num_seqs its running list  *)
(* within max_num_seqs, in whatever order the deadlines put the waiting    *)
(* requests (high_priority_scheduler.py:88-112).                           *)
THEOREM HPBatchBounds == HPSpec => []HPBounds
<1>1. Init => HPBounds
  BY HPBoundsInit
<1>2. HPInvariant /\ HPBounds /\ [HPNext]_vars => HPBounds'
  BY HPBoundsStep
<1> QED
  BY <1>1, <1>2, HPInductive, PTL DEF HPSpec

-----------------------------------------------------------------------------
(* When every request fits, the engine's and the workers' assertions hold. *)

LEMMA HPReplayedStep ==
  ASSUME RequestsFit, HPInvariant, Sane, Replayed, [HPNext]_vars
  PROVE  Replayed'
<1>0. TypeOK /\ step \in Steps
  BY DEF Sane, TypeOK
<1>a. ASSUME waiting' \subseteq waiting, \A s \in waiting' : seq'[s] = seq[s],
             phase = "prefill", phase' # "wait", step'.preempted = step.preempted,
             Batch(step) \subseteq Batch(step')
      PROVE  Replayed'
  BY <1>a, ReplayedKept
<1>1. ASSUME NEW s \in Seqs, AddRequest(s) PROVE Replayed'
  BY <1>1, AddReplayed
<1>2. ASSUME NEW late \in SUBSET waiting, HPBeginStep(late) PROVE Replayed'
  BY <1>2, BuildReplayed DEF HPBeginStep
<1>3. ASSUME NEW s \in Seqs, HPIgnore(s) PROVE Replayed'
  <2>1. /\ phase = "prefill" /\ phase' = "prefill" /\ waiting' = waiting \ {s}
        /\ seq' = [seq EXCEPT ![s] = SetStatus(@, "FINISHED_IGNORED")]
        /\ step' = [step EXCEPT !.ignored = @ \cup {s}]
    BY <1>3 DEF HPIgnore
  <2>2. step'.preempted = step.preempted /\ Batch(step') = Batch(step)
    BY <1>0, <2>1 DEF Steps, Batch
  <2>3. \A r \in waiting' : seq'[r] = seq[r]
    BY <1>0, <2>1 DEF TypeOK
  <2> QED
    BY <1>a, <2>1, <2>2, <2>3
<1>4. ASSUME NEW s \in Seqs, HPAdmit(s) PROVE Replayed'
  <2>1. /\ phase = "prefill" /\ phase' = "prefill" /\ waiting' = waiting \ {s}
        /\ UNCHANGED seq
    BY <1>4 DEF HPAdmit
  <2>2. step'.preempted = step.preempted /\ Batch(step) \subseteq Batch(step')
    BY <1>0, <1>4 DEF HPAdmit, Steps, Batch
  <2> QED
    BY <1>a, <2>1, <2>2
<1>5. CASE HPEndPrefill
  BY <1>a, <1>5 DEF HPEndPrefill
<1>6. CASE PreemptNewest
  BY <1>6, PreemptReplayed
<1>7. CASE ScheduleDecode \/ HPEndDecode
  BY <1>7, BuildReplayed DEF HPEndDecode
<1>8. CASE DispatchNothing \/ DispatchAborts
  BY <1>8, DispatchReplayed
<1>9. ASSUME NEW stop \in SUBSET Seqs, DispatchBatch(stop) PROVE Replayed'
  BY <1>9, DispatchReplayed
<1>10. ASSUME NEW text \in SUBSET Seqs, Complete(text) PROVE Replayed'
  BY <1>10, CompleteReplayed
<1>11. CASE WorkerNext \/ UNCHANGED vars
  <2>1. UNCHANGED engineVars
    BY <1>11 DEF WorkerNext, WorkerSkip, WorkerExecute, vars
  <2> QED
    BY <2>1, BuildReplayed
<1> QED
  BY <1>1, <1>2, <1>3, <1>4, <1>5, <1>6, <1>7, <1>8, <1>9, <1>10, <1>11
     DEF HPNext, HPStep

LEMMA HPReplayed ==
  ASSUME RequestsFit
  PROVE  HPSpec => [](HPInvariant /\ Sane /\ Replayed)
<1>1. Init => Replayed
  BY ReplayedInit
<1>2. HPInvariant /\ Sane /\ Replayed /\ [HPNext]_vars => Replayed'
  BY HPReplayedStep
<1> QED
  BY <1>1, <1>2, HPSaneInductive, PTL DEF HPSpec

(* A waiting sequence is admitted as a prompt.                             *)
LEMMA AdmitsPrompt ==
  ASSUME HPInvariant, Sane, Replayed, NEW s \in Seqs, HPAdmit(s)
  PROVE  /\ s \in waiting /\ step.preempted = {} /\ Queued(seq[s])
         /\ step'.prompts = step.prompts \cup {s} /\ step'.decodes = step.decodes
         /\ step'.kept = step.kept /\ step'.preempted = step.preempted
         /\ step'.ignored = step.ignored
<1>1. /\ s \in waiting /\ step.preempted = {} /\ step \in Steps
      /\ seq[s] \in SequenceObjects
  BY DEF HPAdmit, HPInvariant, HPStepOK, TypeOK
<1>2. Queued(seq[s]) /\ seq[s].prompt > 0
  BY <1>1 DEF Replayed, Sane, Ready
<1>3. ~PromptProcessed(seq[s])
  BY <1>1, <1>2 DEF Queued, PromptProcessed, SequenceObjects
<1>4. step' = [step EXCEPT !.prompts = @ \cup {s}]
  BY <1>3 DEF HPAdmit
<1> QED
  BY <1>1, <1>2, <1>4 DEF Steps

(* PromptsAlone with what it needs before the schedule is complete: no     *)
(* decode is scheduled while prompts are admitted, and none is once a      *)
(* prompt was refused.                                                     *)
Unmixed ==
  /\ PromptsAlone
  /\ phase = "prefill" => step.decodes = {}
  /\ phase = "decode" => step.ignored = {}

LEMMA UnmixedStep ==
  HPInvariant /\ Sane /\ Replayed /\ Unmixed /\ [HPNext]_vars => Unmixed'
<1> SUFFICES ASSUME HPInvariant, Sane, Replayed, Unmixed, [HPNext]_vars PROVE Unmixed'
  OBVIOUS
<1> USE DEF Unmixed, PromptsAlone
<1>0. TypeOK /\ step \in Steps /\ HPStepOK
  BY DEF HPInvariant, TypeOK
<1>1. ASSUME UNCHANGED <<phase, step>> PROVE Unmixed'
  BY <1>1
<1>2. ASSUME NEW late \in SUBSET waiting, HPBeginStep(late) PROVE Unmixed'
  <2>1. step' = [NoStep EXCEPT !.aborted = late] /\ phase' = "prefill"
    BY <1>2 DEF HPBeginStep, BeginStep
  <2> QED
    BY <2>1 DEF NoStep
<1>3. ASSUME NEW s \in Seqs, HPIgnore(s) PROVE Unmixed'
  <2>1. /\ step' = [step EXCEPT !.ignored = @ \cup {s}]
        /\ phase = "prefill" /\ phase' = "prefill"
    BY <1>3 DEF HPIgnore
  <2>2. /\ step'.decodes = step.decodes /\ step'.preempted = step.preempted
        /\ step.preempted = {}
    BY <1>0, <2>1 DEF Steps, HPStepOK
  <2> QED
    BY <2>1, <2>2
<1>4. ASSUME NEW s \in Seqs, HPAdmit(s) PROVE Unmixed'
  <2>1. phase = "prefill" /\ phase' = "prefill"
    BY <1>4 DEF HPAdmit
  <2> QED
    BY <1>4, <2>1, AdmitsPrompt
<1>5. CASE HPEndPrefill
  BY <1>5 DEF HPEndPrefill
<1>6. CASE ScheduleDecode
  <2>1. /\ phase = "decode" /\ phase' = "decode"
        /\ step' = [step EXCEPT !.kept = @ \cup {Min(running)},
                                !.decodes = @ \cup {Min(running)}]
    BY <1>6 DEF ScheduleDecode
  <2>2. step'.prompts = step.prompts /\ step'.ignored = step.ignored
    BY <1>0, <2>1 DEF Steps
  <2> QED
    BY <1>0, <2>1, <2>2 DEF HPStepOK
<1>7. CASE PreemptNewest
  <2>1. /\ phase = "decode" /\ phase' = "decode"
        /\ \E v : step' = [step EXCEPT !.preempted = @ \cup {v}]
    BY <1>7 DEF PreemptNewest
  <2>2. step'.prompts = step.prompts /\ step'.ignored = step.ignored
    BY <1>0, <2>1 DEF Steps
  <2> QED
    BY <1>0, <2>1, <2>2 DEF HPStepOK
<1>8. CASE HPEndDecode
  <2>1. phase' = "dispatch" /\ step' = [step EXCEPT !.kept = {}]
    BY <1>8 DEF HPEndDecode, EndDecode
  <2>2. /\ step'.prompts = step.prompts /\ step'.ignored = step.ignored
        /\ step'.decodes = step.decodes /\ step'.preempted = step.preempted
    BY <1>0, <2>1 DEF Steps
  <2> QED
    BY <2>1, <2>2
<1>9. ASSUME step' = NoStep, phase' = "idle" PROVE Unmixed'
  BY <1>9 DEF NoStep
<1>10. CASE DispatchNothing \/ DispatchAborts
  BY <1>9, <1>10 DEF DispatchNothing, DispatchAborts
<1>11. ASSUME NEW stop \in SUBSET Seqs, DispatchBatch(stop) PROVE Unmixed'
  <2>1. step' = [step EXCEPT !.stop = stop] /\ phase' = "wait"
    BY <1>11 DEF DispatchBatch
  <2>2. /\ step'.prompts = step.prompts /\ step'.ignored = step.ignored
        /\ step'.decodes = step.decodes /\ step'.preempted = step.preempted
    BY <1>0, <2>1 DEF Steps
  <2> QED
    BY <2>1, <2>2
<1>12. ASSUME NEW text \in SUBSET Seqs, Complete(text) PROVE Unmixed'
  BY <1>9, <1>12 DEF Complete
<1>13. CASE WorkerNext \/ UNCHANGED vars \/ \E s \in Seqs : AddRequest(s)
  BY <1>1, <1>13 DEF WorkerNext, WorkerSkip, WorkerExecute, AddRequest, vars, engineVars
<1> QED
  BY <1>2, <1>3, <1>4, <1>5, <1>6, <1>7, <1>8, <1>10, <1>11, <1>12, <1>13
     DEF HPNext, HPStep

(* If every request fits the cache beside a free block, a schedule with    *)
(* prompts, or one that refuses some, holds no decode and makes no         *)
(* preemption: the metadata returned early for them loses nothing          *)
(* (high_priority_scheduler.py:114-126).                                   *)
THEOREM HPPromptsAlone ==
  ASSUME RequestsFit
  PROVE  HPSpec => []PromptsAlone
<1>1. Init => Unmixed
  BY DEF Init, NoStep, Unmixed, PromptsAlone
<1>2. HPInvariant /\ Sane /\ Replayed /\ Unmixed /\ [HPNext]_vars => Unmixed'
  BY UnmixedStep
<1>3. Unmixed => PromptsAlone
  BY DEF Unmixed
<1> QED
  BY <1>1, <1>2, <1>3, HPReplayed, PTL DEF HPSpec

LEMMA HPInStep ==
  ASSUME ~StopStrings, HPInvariant, Sane, Replayed, InStep, [HPNext]_vars
  PROVE  InStep'
<1>0. TypeOK /\ step \in Steps
  BY DEF Sane, TypeOK
<1>a. ASSUME \A x \in Replicas : Replica(x) => Replica(x)',
             UNCHANGED <<shape, inbox, workerVars>>
      PROVE  InStep'
  BY <1>a, InStepKept
<1>1. ASSUME NEW s \in Seqs, HPIgnore(s) PROVE InStep'
  <2>1. /\ phase = "prefill" /\ phase' = "prefill" /\ s \in waiting /\ waiting' = waiting \ {s}
        /\ seq' = [seq EXCEPT ![s] = SetStatus(@, "FINISHED_IGNORED")]
        /\ step' = [step EXCEPT !.ignored = @ \cup {s}]
        /\ UNCHANGED <<shape, arrived, seqMap, newSeqs, running, table, inbox, workerVars>>
    BY <1>1 DEF HPIgnore, channelVars
  <2>2. /\ step'.kept = step.kept /\ step'.preempted = step.preempted
        /\ step'.prompts = step.prompts /\ step'.decodes = step.decodes
    BY <1>0, <2>1 DEF Steps
  <2>3. step.kept = {} /\ step.decodes \subseteq running /\ s \notin running
    BY <2>1 DEF Sane, Building, Apart, Batch
  <2>4. \A r \in waiting' \cup running' \cup step'.kept \cup step'.decodes : seq'[r] = seq[r]
    BY <1>0, <2>1, <2>2, <2>3 DEF TypeOK
  <2>5. ASSUME NEW x \in Replicas, Replica(x) PROVE Replica(x)'
    BY <2>1, <2>2, <2>4, <2>5, ReplicaStays
  <2> QED
    BY <1>a, <2>1, <2>5
<1>2. ASSUME NEW s \in Seqs, HPAdmit(s) PROVE InStep'
  <2>1. /\ phase = "prefill" /\ phase' = phase
        /\ waiting' = waiting \ {s} /\ running' = running \cup {s}
        /\ table' = [table EXCEPT ![s] = LogicalBlocks(seq[s])]
        /\ UNCHANGED <<shape, arrived, seq, seqMap, newSeqs, inbox, workerVars>>
    BY <1>2 DEF HPAdmit, channelVars
  <2>2. /\ s \in waiting /\ step.preempted = {} /\ Queued(seq[s])
        /\ step'.prompts = step.prompts \cup {s} /\ step'.decodes = step.decodes
        /\ step'.kept = step.kept /\ step'.preempted = step.preempted
    BY <1>2, AdmitsPrompt
  <2>3. LogicalBlocks(seq[s]) \in Nat
    BY <1>0, NeedsBlocks DEF TypeOK
  <2>4. ASSUME NEW x \in Replicas, Replica(x) PROVE Replica(x)'
    BY <2>1, <2>2, <2>3, <2>4, AdmitReplica
  <2> QED
    BY <1>a, <2>1, <2>4
<1>3. CASE HPEndPrefill
  <2>1. /\ phase = "prefill" /\ phase' \in {"dispatch", "decode"}
        /\ UNCHANGED <<shape, arrived, seq, seqMap, newSeqs, waiting, running, table, step,
                       inbox, workerVars>>
    BY <1>3 DEF HPEndPrefill, channelVars
  <2>2. ASSUME NEW x \in Replicas, Replica(x) PROVE Replica(x)'
    BY <2>1, <2>2, ReplicaStays
  <2> QED
    BY <1>a, <2>1, <2>2
<1>4. CASE \/ \E s \in Seqs : AddRequest(s)
           \/ \E late \in SUBSET waiting : HPBeginStep(late)
           \/ ScheduleDecode \/ PreemptNewest \/ HPEndDecode
           \/ DispatchNothing \/ DispatchAborts
           \/ \E stop \in SUBSET Seqs : DispatchBatch(stop)
           \/ \E text \in SUBSET Seqs : Complete(text)
           \/ WorkerNext \/ UNCHANGED vars
  BY <1>4, InStepShared DEF HPBeginStep, HPEndDecode
<1> QED
  BY <1>1, <1>2, <1>3, <1>4 DEF HPNext, HPStep

(* For any requests, limits, cache size and number of workers, if every    *)
(* request fits the cache beside a free block and no request has stop      *)
(* strings: the run thread and the workers of a high-priority instance     *)
(* keep replaying the same schedule; no assertion of either side fails,    *)
(* whatever the deadline order admits, refuses or preempts, and a worker   *)
(* that has caught up holds the scheduler's blocks and objects             *)
(* (worker_sequence_manager.py:18-58, base_sequence_manager.py:34-64).     *)
THEOREM HPInstanceSafe ==
  ASSUME RequestsFit, ~StopStrings
  PROVE  HPSpec => []InstanceSafe
<1>1. Init => InStep
  BY InStepInit
<1>2. HPInvariant /\ Sane /\ Replayed /\ InStep /\ [HPNext]_vars => InStep'
  BY HPInStep
<1>3. HPInvariant /\ Sane /\ Replayed /\ InStep => InstanceSafe
  <2>1. Sane => TypeOK
    BY DEF Sane
  <2> QED
    BY <2>1, ReplayedAssertions, InStepAssertions, InStepSync, SaneBlocks DEF InstanceSafe
<1> QED
  BY <1>1, <1>2, <1>3, HPReplayed, PTL DEF HPSpec
=============================================================================
