------------------------ MODULE InstanceEngineProofs ------------------------
(***************************************************************************)
(* Lemmas about the operators and the actions every instance shares, used  *)
(* by the proofs about the low- and the high-priority instance: types and  *)
(* lengths; the invariant Sane of the engine; the replay of a schedule by  *)
(* workers that lag behind, as the invariant InStep.                       *)
(***************************************************************************)
EXTENDS InstanceEngine, CommonLemmas

-----------------------------------------------------------------------------
(* Any subset of the requests is a finite set of naturals.                 *)
LEMMA SeqsSubset ==
  ASSUME NEW S \in SUBSET Seqs
  PROVE  S \subseteq Nat /\ IsFiniteSet(S)
  BY EngineAssumption, FS_Subset DEF EngineAssumption

-----------------------------------------------------------------------------
(* What a completed step does to a sequence here: the chunk is all that is *)
(* left of the prompt.                                                     *)

LEMMA ChunkFits ==
  ASSUME NEW o \in SequenceObjects
  PROVE  o.processed + Chunk(o) \in Nat
  BY DEF SequenceObjects, Chunk

LEMMA CompleteStepType ==
  ASSUME NEW o \in SequenceObjects, NEW m, NEW text \in BOOLEAN, NEW eos \in BOOLEAN
  PROVE  CompleteStep(o, Chunk(o), m, text, eos) \in SequenceObjects
  BY ChunkFits, StepType

LEMMA CompleteScheduled ==
  ASSUME NEW o \in SequenceObjects, NEW m, NEW text \in BOOLEAN, NEW eos \in BOOLEAN
  PROVE  CompleteStep(o, Chunk(o), m, text, eos).scheduled = o.scheduled
  BY ChunkFits, StepScheduled

LEMMA CompleteStatus ==
  ASSUME NEW o \in SequenceObjects, NEW m, NEW text \in BOOLEAN, NEW eos \in BOOLEAN
  PROVE  CompleteStep(o, Chunk(o), m, text, eos).status
           \in {"PAUSED", "FINISHED_STOPPED", "FINISHED_LENGTH_CAPPED"}
  BY ChunkFits, StepStatus

LEMMA CompleteLen ==
  ASSUME NEW o \in SequenceObjects, NEW m, NEW text \in BOOLEAN, NEW eos \in BOOLEAN
  PROVE  GetLen(CompleteStep(o, Chunk(o), m, text, eos)) \in {GetLen(o), GetLen(o) + 1}
  BY ChunkFits, StepLen

-----------------------------------------------------------------------------
(* The shared actions keep the state well typed.                           *)

LEMMA InitType == Init => TypeOK
<1> SUFFICES ASSUME Init PROVE TypeOK
  OBVIOUS
<1>1. \A s \in Seqs : NewObject(shape[s].prompt) \in SequenceObjects
  BY EngineAssumption, NewObjectType DEF Init, EngineAssumption
<1>2. seq \in [Seqs -> SequenceObjects] /\ wseq \in [Workers -> [Seqs -> SequenceObjects]]
  BY <1>1 DEF Init
<1>3. step \in Steps
  BY DEF Init, NoStep, Steps
<1>4. inbox \in [Workers -> Seq(Messages)]
  BY DEF Init
<1> QED
  BY <1>2, <1>3, <1>4 DEF Init, TypeOK, Phases

LEMMA AddRequestType ==
  ASSUME TypeOK, NEW s \in Seqs, AddRequest(s)
  PROVE  TypeOK'
  BY DEF TypeOK, AddRequest, workerVars, channelVars

LEMMA BeginStepType ==
  ASSUME TypeOK, NEW late \in SUBSET waiting, NEW next \in Phases, BeginStep(late, next)
  PROVE  TypeOK'
<1>1. late \subseteq Seqs
  BY DEF TypeOK
<1>2. seq' \in [Seqs -> SequenceObjects]
  BY SetStatusType DEF BeginStep, TypeOK, Status, Finished
<1>3. step' \in Steps
  BY <1>1 DEF BeginStep, NoStep, Steps
<1> QED
  BY <1>1, <1>2, <1>3 DEF TypeOK, BeginStep, workerVars, channelVars

LEMMA AppendSlotType ==
  ASSUME NEW held \in Nat, NEW o
  PROVE  AppendSlot(held, o) \in Nat
  BY DEF AppendSlot

LEMMA ScheduleDecodeType ==
  ASSUME TypeOK, ScheduleDecode
  PROVE  TypeOK'
<1> DEFINE s == Min(running)
<1>1. s \in Seqs
  BY SeqsSubset, MinMember DEF ScheduleDecode, TypeOK
<1>2. /\ table' = [table EXCEPT ![s] = AppendSlot(table[s], seq[s])]
      /\ running' = running \ {s}
      /\ step' = [step EXCEPT !.kept = @ \cup {s}, !.decodes = @ \cup {s}]
  BY DEF ScheduleDecode
<1> HIDE DEF s
<1>3. table' \in [Seqs -> Nat]
  BY <1>1, <1>2, AppendSlotType DEF TypeOK
<1>4. step' \in Steps
  BY <1>1, <1>2 DEF TypeOK, Steps
<1> QED
  BY <1>2, <1>3, <1>4 DEF TypeOK, ScheduleDecode, workerVars, channelVars

LEMMA PreemptNewestType ==
  ASSUME TypeOK, PreemptNewest
  PROVE  TypeOK'
<1> DEFINE v == Max(running)
<1>1. v \in Seqs
  BY SeqsSubset, MaxMember DEF PreemptNewest, Victim, TypeOK
<1>2. /\ table' = [table EXCEPT ![v] = 0]
      /\ running' = running \ {v}
      /\ waiting' = waiting \cup {v}
      /\ step' = [step EXCEPT !.preempted = @ \cup {v}]
  BY DEF PreemptNewest, Victim
<1> HIDE DEF v
<1>3. table' \in [Seqs -> Nat]
  BY <1>1, <1>2 DEF TypeOK
<1>4. step' \in Steps
  BY <1>1, <1>2 DEF TypeOK, Steps
<1> QED
  BY <1>1, <1>2, <1>3, <1>4 DEF TypeOK, PreemptNewest, workerVars, channelVars

LEMMA EndDecodeType ==
  ASSUME TypeOK, NEW next \in Phases, EndDecode(next)
  PROVE  TypeOK'
<1>1. step' \in Steps /\ running' \subseteq Seqs
  BY DEF EndDecode, TypeOK, Steps
<1> QED
  BY <1>1 DEF TypeOK, EndDecode, workerVars, channelVars

LEMMA SendType ==
  ASSUME TypeOK, NEW stop \in SUBSET Seqs, Send(stop)
  PROVE  inbox' \in [Workers -> Seq(Messages)] /\ newSeqs' \subseteq Seqs
<1>1. Message(stop) \in Messages
  BY DEF Message, Messages, TypeOK, Steps
<1> QED
  BY <1>1 DEF Send, TypeOK

LEMMA DispatchNothingType ==
  ASSUME TypeOK, DispatchNothing
  PROVE  TypeOK'
  BY DEF TypeOK, DispatchNothing, workerVars, channelVars, Phases, NoStep, Steps

LEMMA DispatchAbortsType ==
  ASSUME TypeOK, DispatchAborts
  PROVE  TypeOK'
<1>1. inbox' \in [Workers -> Seq(Messages)] /\ newSeqs' \subseteq Seqs
  BY SendType DEF DispatchAborts
<1>2. step' \in Steps /\ step.aborted \subseteq Seqs
  BY DEF DispatchAborts, NoStep, Steps, TypeOK
<1> QED
  BY <1>1, <1>2 DEF TypeOK, DispatchAborts, workerVars, Phases

LEMMA DispatchBatchType ==
  ASSUME TypeOK, NEW stop \in SUBSET Seqs, DispatchBatch(stop)
  PROVE  TypeOK'
<1>1. inbox' \in [Workers -> Seq(Messages)] /\ newSeqs' \subseteq Seqs
  BY SendType DEF DispatchBatch
<1>2. step' \in Steps
  BY DEF DispatchBatch, Steps, TypeOK
<1>3. \A s \in Seqs : /\ ResetForRecompute(seq[s]) \in SequenceObjects
                     /\ SetStatus(seq[s], "RUNNING") \in SequenceObjects
  BY ResetType, SetStatusType DEF TypeOK, Status, Executing
<1>4. seq' \in [Seqs -> SequenceObjects]
  BY <1>3 DEF DispatchBatch, TypeOK
<1> QED
  BY <1>1, <1>2, <1>4 DEF TypeOK, DispatchBatch, workerVars, Phases

LEMMA CompleteType ==
  ASSUME TypeOK, NEW text, Complete(text)
  PROVE  TypeOK'
<1> DEFINE after(s) == CompleteStep(seq[s], Chunk(seq[s]), shape[s].maxTokens,
                                    s \in text, s \in step.stop)
           done == {s \in Batch(step) : after(s).status \in Finished}
<1>1. \A s \in Seqs : after(s) \in SequenceObjects
  <2> SUFFICES ASSUME NEW s \in Seqs PROVE after(s) \in SequenceObjects
    OBVIOUS
  <2> DEFINE ends == s \in step.stop
             found == s \in text
  <2>1. seq[s] \in SequenceObjects /\ ends \in BOOLEAN /\ found \in BOOLEAN
    BY DEF TypeOK
  <2> HIDE DEF ends, found
  <2>2. CompleteStep(seq[s], Chunk(seq[s]), shape[s].maxTokens, found, ends) \in SequenceObjects
    BY <2>1, CompleteStepType
  <2> QED
    BY <2>2 DEF ends, found
<1>2. done \subseteq Seqs /\ step.ignored \subseteq Seqs /\ step.aborted \subseteq Seqs
  BY DEF TypeOK, Steps, Batch
<1>3. /\ seq' = [s \in Seqs |-> IF s \in Batch(step) THEN after(s) ELSE seq[s]]
      /\ table' = [s \in Seqs |-> IF s \in running \cap done THEN 0 ELSE table[s]]
      /\ seqMap' = seqMap \ done /\ running' = running \ done
      /\ reported' = reported \cup done \cup step.ignored \cup step.aborted
  BY DEF Complete
<1> HIDE DEF after, done
<1>4. seq' \in [Seqs -> SequenceObjects] /\ table' \in [Seqs -> Nat]
  BY <1>1, <1>3 DEF TypeOK
<1>5. step' \in Steps
  BY DEF Complete, NoStep, Steps
<1> QED
  BY <1>2, <1>3, <1>4, <1>5 DEF TypeOK, Complete, workerVars, Phases

(* The message a worker handles, and what handling it makes of its tables. *)
LEMMA HeadType ==
  ASSUME TypeOK, NEW w \in Workers, inbox[w] # <<>>
  PROVE  /\ Head(inbox[w]) \in Messages
         /\ Tail(inbox[w]) \in Seq(Messages)
         /\ inbox' = [inbox EXCEPT ![w] = Tail(@)]
              => inbox' \in [Workers -> Seq(Messages)]
<1>1. inbox[w] \in Seq(Messages)
  BY DEF TypeOK
<1>2. Head(inbox[w]) \in Messages /\ Tail(inbox[w]) \in Seq(Messages)
  BY <1>1
<1> QED
  BY <1>2 DEF TypeOK

LEMMA WorkerSkipType ==
  ASSUME TypeOK, NEW w \in Workers, WorkerSkip(w)
  PROVE  TypeOK'
<1> DEFINE m == Head(inbox[w])
<1>1. /\ inbox[w] # <<>>
      /\ inbox' = [inbox EXCEPT ![w] = Tail(@)]
      /\ wmap' = [wmap EXCEPT ![w] = WorkerIntake(w, m)]
      /\ wseq' = [wseq EXCEPT ![w] = [s \in Seqs |->
                    IF s \in m.aborted THEN NewObject(shape[s].prompt) ELSE wseq[w][s]]]
      /\ wtable' = [wtable EXCEPT ![w] = [s \in Seqs |->
                      IF s \in m.aborted THEN 0 ELSE wtable[w][s]]]
      /\ UNCHANGED <<engineVars, reply>>
  BY DEF WorkerSkip
<1>2. m \in Messages /\ inbox' \in [Workers -> Seq(Messages)]
  BY <1>1, HeadType
<1> HIDE DEF m
<1>3. wmap' \in [Workers -> SUBSET Seqs]
  BY <1>1, <1>2 DEF TypeOK, WorkerIntake, Messages
<1>4. \A s \in Seqs : NewObject(shape[s].prompt) \in SequenceObjects
  BY NewObjectType, EngineAssumption DEF TypeOK, EngineAssumption
<1>5. wseq' \in [Workers -> [Seqs -> SequenceObjects]]
  BY <1>1, <1>4 DEF TypeOK
<1>6. wtable' \in [Workers -> [Seqs -> Nat]]
  BY <1>1 DEF TypeOK
<1> QED
  BY <1>1, <1>2, <1>3, <1>5, <1>6 DEF TypeOK, engineVars

LEMMA WorkerAllocatedType ==
  ASSUME TypeOK, NEW w \in Workers, NEW m \in Messages
  PROVE  WorkerAllocated(w, m) \in [Seqs -> Nat]
<1> DEFINE t == WorkerFreed(w, m)
<1>1. t \in [Seqs -> Nat]
  BY DEF WorkerFreed, TypeOK
<1>2. \A s \in Seqs : LogicalBlocks(wseq[w][s]) \in Nat
  <2> SUFFICES ASSUME NEW s \in Seqs PROVE LogicalBlocks(wseq[w][s]) \in Nat
    OBVIOUS
  <2>1. GetLen(wseq[w][s]) \in Nat
    BY DEF TypeOK, GetLen, SequenceObjects
  <2> QED
    BY <2>1, CeilDivType, BlockSizeAssumption DEF LogicalBlocks
<1> HIDE DEF t
<1>3. \A s \in Seqs : AppendSlot(t[s], wseq[w][s]) \in Nat
  BY <1>1, AppendSlotType
<1>4. WorkerAllocated(w, m) =
        [s \in Seqs |-> IF s \notin Batch(m) THEN t[s]
                        ELSE IF t[s] = 0 THEN LogicalBlocks(wseq[w][s])
                        ELSE AppendSlot(t[s], wseq[w][s])]
  BY DEF WorkerAllocated, t
<1> QED
  BY <1>1, <1>2, <1>3, <1>4

LEMMA WorkerExecuteType ==
  ASSUME TypeOK, NEW w \in Workers, WorkerExecute(w)
  PROVE  TypeOK'
<1> DEFINE m == Head(inbox[w])
           u == WorkerAllocated(w, m)
           o(s) == SetStatus(wseq[w][s], "RUNNING")
           after(s) == CompleteStep(o(s), Chunk(o(s)), shape[s].maxTokens, FALSE, s \in m.stop)
           gone == {s \in Batch(m) : after(s).status \in Finished} \cup m.ignored \cup m.aborted
           object(s) == IF s \in gone THEN NewObject(shape[s].prompt)
                        ELSE IF s \in m.preempted THEN ResetForRecompute(wseq[w][s])
                        ELSE IF s \in Batch(m) THEN after(s)
                        ELSE wseq[w][s]
<1>1. /\ inbox[w] # <<>>
      /\ inbox' = [inbox EXCEPT ![w] = Tail(@)]
      /\ wmap' = [wmap EXCEPT ![w] = WorkerIntake(w, m) \ gone]
      /\ wseq' = [wseq EXCEPT ![w] = [s \in Seqs |-> object(s)]]
      /\ wtable' = [wtable EXCEPT ![w] = [s \in Seqs |-> IF s \in gone THEN 0 ELSE u[s]]]
      /\ reply' = (reply \/ w = RankZero)
      /\ UNCHANGED engineVars
  BY DEF WorkerExecute
<1>2. m \in Messages /\ inbox' \in [Workers -> Seq(Messages)]
  BY <1>1, HeadType
<1>3. \A s \in Seqs : after(s) \in SequenceObjects
  <2> SUFFICES ASSUME NEW s \in Seqs PROVE after(s) \in SequenceObjects
    OBVIOUS
  <2> DEFINE ends == s \in m.stop
  <2>1. o(s) \in SequenceObjects /\ ends \in BOOLEAN
    BY SetStatusType DEF TypeOK, Status, Executing
  <2> HIDE DEF ends, o
  <2>2. CompleteStep(o(s), Chunk(o(s)), shape[s].maxTokens, FALSE, ends) \in SequenceObjects
    BY <2>1, CompleteStepType
  <2> QED
    BY <2>2 DEF ends
<1>4. u \in [Seqs -> Nat]
  BY <1>2, WorkerAllocatedType
<1>5. \A s \in Seqs : /\ NewObject(shape[s].prompt) \in SequenceObjects
                     /\ ResetForRecompute(wseq[w][s]) \in SequenceObjects
                     /\ wseq[w][s] \in SequenceObjects
  BY NewObjectType, ResetType, EngineAssumption DEF TypeOK, EngineAssumption
<1> HIDE DEF m, u, after, gone
<1>6. \A s \in Seqs : object(s) \in SequenceObjects
  BY <1>3, <1>5
<1> HIDE DEF object
<1>7. wmap' \in [Workers -> SUBSET Seqs]
  BY <1>1, <1>2 DEF TypeOK, WorkerIntake, Messages
<1>8. wseq' \in [Workers -> [Seqs -> SequenceObjects]]
  BY <1>1, <1>6 DEF TypeOK
<1>9. wtable' \in [Workers -> [Seqs -> Nat]]
  BY <1>1, <1>4 DEF TypeOK
<1>10. reply' \in BOOLEAN
  BY <1>1
<1> QED
  BY <1>1, <1>2, <1>7, <1>8, <1>9, <1>10 DEF TypeOK, engineVars
-----------------------------------------------------------------------------
(* What the shared actions do to the lengths of the sequences.             *)

LEMMA BeginStepLen ==
  ASSUME TypeOK, NEW late, NEW next, BeginStep(late, next)
  PROVE  \A s \in Seqs : GetLen(seq'[s]) = GetLen(seq[s])
<1> SUFFICES ASSUME NEW s \in Seqs PROVE GetLen(seq'[s]) = GetLen(seq[s])
  OBVIOUS
<1>1. seq'[s] = IF s \in late THEN SetStatus(seq[s], "FINISHED_ABORTED") ELSE seq[s]
  BY DEF BeginStep
<1>2. GetLen(SetStatus(seq[s], "FINISHED_ABORTED")) = GetLen(seq[s])
  BY SetStatusLen DEF TypeOK
<1> QED
  BY <1>1, <1>2

LEMMA DispatchBatchLen ==
  ASSUME TypeOK, NEW stop, DispatchBatch(stop)
  PROVE  \A s \in Seqs : GetLen(seq'[s]) = GetLen(seq[s])
<1> SUFFICES ASSUME NEW s \in Seqs PROVE GetLen(seq'[s]) = GetLen(seq[s])
  OBVIOUS
<1>1. seq'[s] = IF s \in step.preempted THEN ResetForRecompute(seq[s])
                ELSE IF s \in Batch(step) THEN SetStatus(seq[s], "RUNNING") ELSE seq[s]
  BY DEF DispatchBatch
<1>2. /\ GetLen(SetStatus(seq[s], "RUNNING")) = GetLen(seq[s])
      /\ GetLen(ResetForRecompute(seq[s])) = GetLen(seq[s])
  BY SetStatusLen, ResetLen DEF TypeOK
<1> QED
  BY <1>1, <1>2

LEMMA CompleteLengths ==
  ASSUME TypeOK, NEW text, Complete(text)
  PROVE  \A s \in Seqs : /\ GetLen(seq'[s]) \in {GetLen(seq[s]), GetLen(seq[s]) + 1}
                         /\ s \notin Batch(step) => GetLen(seq'[s]) = GetLen(seq[s])
<1> SUFFICES ASSUME NEW s \in Seqs
             PROVE  /\ GetLen(seq'[s]) \in {GetLen(seq[s]), GetLen(seq[s]) + 1}
                    /\ s \notin Batch(step) => GetLen(seq'[s]) = GetLen(seq[s])
  OBVIOUS
<1> DEFINE ends == s \in step.stop
           found == s \in text
           next == CompleteStep(seq[s], Chunk(seq[s]), shape[s].maxTokens, found, ends)
<1>1. seq'[s] = IF s \in Batch(step) THEN next ELSE seq[s]
  BY DEF Complete
<1>2. ends \in BOOLEAN /\ found \in BOOLEAN /\ seq[s] \in SequenceObjects
  BY DEF TypeOK
<1> HIDE DEF ends, found
<1>3. GetLen(next) \in {GetLen(seq[s]), GetLen(seq[s]) + 1}
  BY <1>2, CompleteLen
<1> HIDE DEF next
<1> QED
  BY <1>1, <1>3
-----------------------------------------------------------------------------
(* The tokens generated so far: what RequestStream calls emitted.          *)

Emitted(s) == GetLen(seq[s]) - shape[s].prompt
TokensAdded(G) == \A s \in Seqs : Emitted(s)' = IF s \in G THEN Emitted(s) + 1 ELSE Emitted(s)

(* The members of the batch that get a token.                              *)
Grown == {s \in Batch(step) : GetLen(seq'[s]) # GetLen(seq[s])}

LEMMA NothingEmitted == Init => \A s \in Seqs : Emitted(s) = 0
<1> SUFFICES ASSUME Init, NEW s \in Seqs PROVE Emitted(s) = 0
  OBVIOUS
<1>1. seq[s] = NewObject(shape[s].prompt) /\ shape[s].prompt \in Nat
  BY EngineAssumption DEF Init, EngineAssumption
<1> QED
  BY <1>1 DEF Emitted, GetLen, NewObject

(* Lengths that stay mean that nothing is emitted.                         *)
LEMMA NothingAdded ==
  ASSUME shape' = shape, \A s \in Seqs : GetLen(seq'[s]) = GetLen(seq[s])
  PROVE  TokensAdded({})
  BY DEF TokensAdded, Emitted, GetLen

LEMMA CompleteTokens ==
  ASSUME TypeOK, NEW text, Complete(text)
  PROVE  TokensAdded(Grown)
<1> SUFFICES ASSUME NEW s \in Seqs
             PROVE  Emitted(s)' = IF s \in Grown THEN Emitted(s) + 1 ELSE Emitted(s)
  BY DEF TokensAdded
<1>1. /\ GetLen(seq'[s]) \in {GetLen(seq[s]), GetLen(seq[s]) + 1}
      /\ s \notin Batch(step) => GetLen(seq'[s]) = GetLen(seq[s])
  BY CompleteLengths
<1>2. GetLen(seq[s]) \in Nat /\ shape[s].prompt \in Nat
  BY EngineAssumption DEF TypeOK, SequenceObjects, GetLen, EngineAssumption
<1>3. Emitted(s)' = GetLen(seq'[s]) - shape[s].prompt
  BY DEF Complete, Emitted, GetLen
<1> QED
  BY <1>1, <1>2, <1>3 DEF Emitted, Grown
-----------------------------------------------------------------------------
(* The invariant the two instances share: what a schedule under            *)
(* construction looks like, who holds blocks, in which state each sequence *)
(* is, and which sequences the engine's map knows.                         *)

(* The lists of the scheduler are disjoint.                                *)
Apart ==
  /\ waiting \cap running = {}
  /\ (waiting \cup running) \cap step.kept = {}
  /\ (waiting \cup running \cup step.kept) \cap (step.aborted \cup step.ignored) = {}
  /\ step.aborted \cap step.ignored = {}

Building ==
  /\ phase = "idle" => step = NoStep
  /\ phase # "decode" => step.kept = {} /\ Batch(step) \subseteq running
  /\ phase = "decode" => step.prompts = {} /\ step.decodes = step.kept
  /\ step.prompts \cap step.decodes = {}
  /\ step.preempted \subseteq waiting
  /\ step.preempted # {} => phase # "prefill" /\ step.prompts = {}

HoldersOK ==
  /\ Free(table) >= 0
  /\ step.prompts # {} => Free(table) >= WatermarkBlocks
  /\ \A s \in Seqs : table[s] > 0 <=> s \in running \cup step.kept
  /\ \A s \in running \cup step.kept : LogicalBlocks(seq[s]) - table[s] \in {0, 1}
  /\ \A s \in Batch(step) : table[s] = LogicalBlocks(seq[s])

(* To be prefilled; short enough to be executed; executed and completed,   *)
(* so waiting for its next token.                                          *)
Queued(o) == o.status = "WAITING" /\ o.output = 0 /\ o.processed = 0
Bounded(o, m) == o.prompt <= PromptLimit /\ o.output < m
Held(o, m) == o.status = "PAUSED" /\ PromptProcessed(o) /\ Bounded(o, m)

(* A waiting sequence may be Held: its preemption is replayed by the       *)
(* engine's sequence manager at dispatch only, and not at all if nothing   *)
(* is scheduled.                                                           *)
Ready ==
  /\ \A s \in Seqs : seq[s].prompt > 0
  /\ \A s \in Seqs \ arrived : seq[s] = NewObject(shape[s].prompt)
  /\ \A s \in waiting : Queued(seq[s]) \/ Held(seq[s], shape[s].maxTokens)
  /\ \A s \in (running \cup step.kept) \ Batch(step) : Held(seq[s], shape[s].maxTokens)
  /\ phase # "wait" =>
       /\ \A s \in step.preempted \cup step.decodes : Held(seq[s], shape[s].maxTokens)
       /\ \A s \in step.prompts : Queued(seq[s]) /\ Bounded(seq[s], shape[s].maxTokens)
  /\ phase = "wait" =>
       \A s \in Batch(step) : seq[s].status = "RUNNING" /\ Bounded(seq[s], shape[s].maxTokens)

Known ==
  /\ waiting \cup running \cup step.kept \subseteq seqMap
  /\ phase # "wait" => step.aborted \cup step.ignored \subseteq seqMap
  /\ seqMap \cup newSeqs \subseteq arrived
  /\ phase = "wait" => newSeqs = {}

Sane == TypeOK /\ Apart /\ Building /\ HoldersOK /\ Ready /\ Known

-----------------------------------------------------------------------------
(* Blocks.                                                                 *)

LEMMA Limits ==
  /\ IsFiniteSet(Seqs) /\ Seqs \subseteq Nat
  /\ NumBlocks \in Nat \ {0} /\ WatermarkBlocks \in Nat
  /\ MaxNumSeqs \in Nat \ {0} /\ MaxBatchedTokens \in Nat \ {0}
  /\ PromptLimit \in Nat /\ MaxBatchedTokens <= PromptLimit
<1>1. NumBlocks * BlockSize \in Nat
  BY EngineAssumption, BlockSizeAssumption DEF EngineAssumption
<1>2. PromptLimit \in Nat
  BY <1>1, EngineAssumption DEF EngineAssumption, CacheFitsLimit
<1> QED
  BY <1>2, EngineAssumption DEF EngineAssumption, BatchFitsLimit

LEMMA BlocksSum ==
  ASSUME NEW t \in [Seqs -> Nat]
  PROVE  SumFunctionOnSet(t, Seqs) \in Nat
<1>1. \A s \in Seqs : t[s] \in Nat
  OBVIOUS
<1>2. IsFiniteSet(Seqs)
  BY Limits
<1> QED
  BY ONLY <1>1, <1>2, SumNat

LEMMA FreeInt ==
  ASSUME NEW t \in [Seqs -> Nat]
  PROVE  Free(t) \in Int
  BY BlocksSum, Limits DEF Free

LEMMA FreeUpdate ==
  ASSUME NEW t \in [Seqs -> Nat], NEW s \in Seqs, NEW n \in Nat
  PROVE  Free([t EXCEPT ![s] = n]) = Free(t) + t[s] - n
<1> DEFINE u == [t EXCEPT ![s] = n]
<1>1. u[s] = n /\ (\A r \in Seqs \ {s} : u[r] = t[r]) /\ \A r \in Seqs : t[r] \in Int
  OBVIOUS
<1> HIDE DEF u
<1>2. IsFiniteSet(Seqs) /\ u[s] \in Int
  BY <1>1, Limits
<1>3. SumFunctionOnSet(u, Seqs) = SumFunctionOnSet(t, Seqs) + (u[s] - t[s])
  BY ONLY <1>1, <1>2, s \in Seqs, SumUpdate
<1>4. Free(u) = Free(t) + t[s] - n
  BY <1>1, <1>3, BlocksSum, Limits DEF Free
<1> QED
  BY <1>4 DEF u

LEMMA FreeMonotone ==
  ASSUME NEW t \in [Seqs -> Nat], NEW u \in [Seqs -> Nat], \A s \in Seqs : u[s] <= t[s]
  PROVE  Free(u) >= Free(t)
<1>1. \A s \in Seqs : u[s] \in Int /\ t[s] \in Int /\ u[s] <= t[s]
  OBVIOUS
<1>2. IsFiniteSet(Seqs)
  BY Limits
<1>3. SumFunctionOnSet(u, Seqs) <= SumFunctionOnSet(t, Seqs)
  BY ONLY <1>1, <1>2, SumMonotone
<1> QED
  BY <1>3, BlocksSum, Limits DEF Free

LEMMA NeedsBlocks ==
  ASSUME NEW o \in SequenceObjects
  PROVE  /\ GetLen(o) \in Nat /\ LogicalBlocks(o) \in Nat
         /\ o.prompt > 0 => LogicalBlocks(o) > 0
<1>1. GetLen(o) \in Nat /\ (o.prompt > 0 => GetLen(o) > 0)
  BY DEF GetLen, SequenceObjects
<1> QED
  BY <1>1, CeilDivType, CeilDivBounds, BlockSizeAssumption DEF LogicalBlocks

-----------------------------------------------------------------------------
(* Each shared action preserves it.                                        *)

LEMMA EngineStays ==
  ASSUME Sane, TypeOK', UNCHANGED engineVars
  PROVE  Sane'
<1>1. UNCHANGED <<shape, arrived, seq, seqMap, newSeqs, waiting, running, table, phase, step>>
  BY DEF engineVars
<1>2. Apart' /\ Building'
  BY <1>1 DEF Sane, Apart, Building, Batch
<1>3. HoldersOK'
  BY <1>1 DEF Sane, HoldersOK, Batch
<1>4. Ready' /\ Known'
  BY <1>1 DEF Sane, Ready, Known, Batch
<1> QED
  BY <1>2, <1>3, <1>4 DEF Sane

LEMMA SaneInit == Init => Sane
<1> SUFFICES ASSUME Init PROVE Sane
  OBVIOUS
<1>1. \A s \in Seqs : seq[s] = NewObject(shape[s].prompt) /\ seq[s].prompt > 0
  BY EngineAssumption DEF Init, EngineAssumption, NewObject
<1>2. Apart /\ Building /\ Known
  BY DEF Init, NoStep, Apart, Building, Known, Batch
<1>3. HoldersOK
  <2>1. Free(table) = NumBlocks
    <3>1. \A s \in Seqs : table[s] = 0
      BY DEF Init
    <3>2. SumFunctionOnSet(table, Seqs) = 0
      BY <3>1, Limits, SumZero
    <3> QED
      BY <3>2, Limits DEF Free
  <2>2. \A s \in Seqs : ~(table[s] > 0)
    BY DEF Init
  <2>3. running = {} /\ step.kept = {} /\ step.prompts = {} /\ Batch(step) = {}
    BY DEF Init, NoStep, Batch
  <2>4. Free(table) >= 0
    BY <2>1, Limits
  <2> QED
    BY <2>2, <2>3, <2>4 DEF HoldersOK
<1>4. Ready
  BY <1>1 DEF Init, NoStep, Ready, Batch
<1> QED
  BY <1>2, <1>3, <1>4, InitType DEF Sane

LEMMA AddRequestSane ==
  ASSUME Sane, TypeOK', Apart', NEW s \in Seqs, AddRequest(s)
  PROVE  Sane'
<1>1. /\ phase = "idle" /\ s \notin arrived
      /\ arrived' = arrived \cup {s} /\ seqMap' = seqMap \cup {s}
      /\ newSeqs' = newSeqs \cup {s} /\ waiting' = waiting \cup {s}
      /\ UNCHANGED <<shape, seq, running, table, phase, step>>
  BY DEF AddRequest
<1>2. Building' /\ Known'
  BY <1>1 DEF Sane, Building, Known, Batch
<1>3. HoldersOK'
  BY <1>1 DEF Sane, HoldersOK, Batch
<1>4. Ready'
  <2>1. seq[s] = NewObject(shape[s].prompt)
    BY <1>1 DEF Sane, Ready
  <2>2. Queued(seq[s])
    BY <2>1 DEF Queued, NewObject
  <2> QED
    BY <1>1, <2>2 DEF Sane, Ready, Batch
<1> QED
  BY <1>2, <1>3, <1>4 DEF Sane

LEMMA BeginStepSane ==
  ASSUME Sane, TypeOK', Apart', NEW late \in SUBSET waiting, NEW next \in {"decode", "prefill"},
         BeginStep(late, next)
  PROVE  Sane'
<1>0. step = NoStep /\ phase = "idle" /\ TypeOK
  BY DEF Sane, Building, BeginStep
<1>1. /\ waiting' = waiting \ late /\ phase' = next
      /\ seq' = [s \in Seqs |-> IF s \in late THEN SetStatus(seq[s], "FINISHED_ABORTED")
                                ELSE seq[s]]
      /\ UNCHANGED <<shape, arrived, seqMap, newSeqs, running, table>>
  BY DEF BeginStep
<1>2. /\ step'.kept = {} /\ step'.prompts = {} /\ step'.decodes = {} /\ step'.preempted = {}
      /\ step'.aborted = late /\ step'.ignored = {} /\ Batch(step') = {}
      /\ step.kept = {} /\ step.prompts = {} /\ Batch(step) = {}
  BY <1>0 DEF BeginStep, NoStep, Batch
<1>3. Building' /\ Known'
  BY <1>1, <1>2 DEF Sane, Building, Known
<1>4. late \subseteq arrived /\ late \cap running = {}
  BY DEF Sane, Known, Apart
<1>5. \A s \in running : seq'[s] = seq[s]
  BY <1>0, <1>1, <1>4 DEF TypeOK
<1>6. HoldersOK'
  BY <1>1, <1>2, <1>5 DEF Sane, HoldersOK, Free
<1>7. \A s \in Seqs : seq'[s].prompt = seq[s].prompt
  BY <1>0, <1>1, SetStatusFields DEF TypeOK, Status, Finished
<1>8. \A s \in Seqs \ late : seq'[s] = seq[s]
  BY <1>1
<1>9. Ready'
  <2>1. \A s \in Seqs : seq'[s].prompt > 0
    BY <1>7 DEF Sane, Ready
  <2>2. \A s \in Seqs \ arrived : seq'[s] = seq[s]
    BY <1>4, <1>8
  <2>3. \A s \in waiting' : seq'[s] = seq[s]
    BY <1>0, <1>1, <1>8 DEF TypeOK
  <2> QED
    BY <1>1, <1>2, <1>5, <2>1, <2>2, <2>3 DEF Sane, Ready
<1> QED
  BY <1>3, <1>6, <1>9 DEF Sane

(* The head and the tail of the running list.                              *)
LEMMA RunningEnds ==
  ASSUME TypeOK, running # {}
  PROVE  /\ Min(running) \in running /\ Max(running) \in running
         /\ running \subseteq Seqs
<1>1. running \subseteq Nat /\ IsFiniteSet(running) /\ running \subseteq Seqs
  BY SeqsSubset DEF TypeOK
<1> QED
  BY <1>1, MinMember, MaxMember

(* A decode brings the table level with the tokens.                        *)
LEMMA AppendSlotLevels ==
  ASSUME NEW held \in Nat, NEW o, LogicalBlocks(o) \in Nat, LogicalBlocks(o) - held \in {0, 1}
  PROVE  AppendSlot(held, o) = LogicalBlocks(o)
  BY DEF AppendSlot

LEMMA ScheduleDecodeSane ==
  ASSUME Sane, TypeOK', Apart', ScheduleDecode
  PROVE  Sane'
<1> DEFINE s == Min(running)
<1>1. /\ phase = "decode" /\ running # {} /\ Free(table) > 0
      /\ table' = [table EXCEPT ![s] = AppendSlot(table[s], seq[s])]
      /\ running' = running \ {s}
      /\ step' = [step EXCEPT !.kept = @ \cup {s}, !.decodes = @ \cup {s}]
      /\ UNCHANGED <<shape, arrived, seq, seqMap, newSeqs, waiting, phase>>
  BY DEF ScheduleDecode, CanAppendSlot
<1>2. s \in running /\ s \in Seqs
  BY <1>1, RunningEnds DEF Sane
<1> HIDE DEF s
<1>3. /\ step'.kept = step.kept \cup {s} /\ step'.decodes = step.decodes \cup {s}
      /\ step'.prompts = step.prompts /\ step'.preempted = step.preempted
      /\ step'.aborted = step.aborted /\ step'.ignored = step.ignored
  BY <1>1 DEF Sane, TypeOK, Steps
<1>4. step.prompts = {} /\ step.decodes = step.kept /\ s \notin step.kept
  BY <1>1, <1>2 DEF Sane, Building, Apart
<1>5. Building' /\ Known'
  BY <1>1, <1>2, <1>3, <1>4 DEF Sane, Building, Known
<1>6. Batch(step') = Batch(step) \cup {s} /\ Batch(step) = step.kept
  BY <1>3, <1>4 DEF Batch
<1>7. LogicalBlocks(seq[s]) - table[s] \in {0, 1} /\ seq[s].prompt > 0
  BY <1>2 DEF Sane, HoldersOK, Ready
<1>8. seq[s] \in SequenceObjects /\ table \in [Seqs -> Nat]
  BY <1>2 DEF Sane, TypeOK
<1>9. LogicalBlocks(seq[s]) \in Nat /\ LogicalBlocks(seq[s]) > 0
  BY <1>7, <1>8, NeedsBlocks
<1>10. /\ table' = [table EXCEPT ![s] = LogicalBlocks(seq[s])]
       /\ table'[s] = LogicalBlocks(seq[s])
       /\ \A r \in Seqs \ {s} : table'[r] = table[r]
  <2>1. AppendSlot(table[s], seq[s]) = LogicalBlocks(seq[s])
    BY <1>2, <1>7, <1>8, <1>9, AppendSlotLevels
  <2> QED
    BY <1>1, <1>2, <1>8, <2>1
<1>11. Free(table') >= 0
  <2>1. Free(table') = Free(table) + table[s] - LogicalBlocks(seq[s])
    BY <1>2, <1>8, <1>9, <1>10, FreeUpdate
  <2>2. Free(table) \in Int /\ table[s] \in Nat
    BY <1>2, <1>8, FreeInt
  <2> QED
    BY <1>1, <1>7, <1>9, <2>1, <2>2
<1>12. running \subseteq Seqs /\ step.kept \subseteq Seqs
  BY DEF Sane, TypeOK, Steps
<1>13. HoldersOK'
  <2>1. Free(table)' >= 0
    BY <1>11 DEF Free
  <2>2. \A r \in Seqs : table'[r] > 0 <=> r \in running' \cup step'.kept
    BY <1>1, <1>2, <1>3, <1>9, <1>10 DEF Sane, HoldersOK
  <2>3. \A r \in running' \cup step'.kept : LogicalBlocks(seq'[r]) - table'[r] \in {0, 1}
    <3> SUFFICES ASSUME NEW r \in running' \cup step'.kept
                 PROVE  LogicalBlocks(seq'[r]) - table'[r] \in {0, 1}
      OBVIOUS
    <3>1. CASE r = s
      BY <1>1, <1>9, <1>10, <3>1
    <3>2. CASE r # s
      <4>1. r \in running \cup step.kept /\ r \in Seqs
        BY <1>1, <1>3, <1>12, <3>2
      <4>2. LogicalBlocks(seq[r]) - table[r] \in {0, 1}
        BY <4>1 DEF Sane, HoldersOK
      <4> QED
        BY <1>1, <1>10, <3>2, <4>1, <4>2
    <3> QED
      BY <3>1, <3>2
  <2>4. \A r \in Batch(step') : table'[r] = LogicalBlocks(seq'[r])
    <3> SUFFICES ASSUME NEW r \in Batch(step') PROVE table'[r] = LogicalBlocks(seq'[r])
      OBVIOUS
    <3>1. CASE r = s
      BY <1>1, <1>10, <3>1
    <3>2. CASE r # s
      <4>1. r \in Batch(step) /\ r \in Seqs
        BY <1>6, <1>12, <3>2
      <4>2. table[r] = LogicalBlocks(seq[r])
        BY <4>1 DEF Sane, HoldersOK
      <4> QED
        BY <1>1, <1>10, <3>2, <4>1, <4>2
    <3> QED
      BY <3>1, <3>2
  <2> QED
    BY <1>3, <1>4, <2>1, <2>2, <2>3, <2>4 DEF HoldersOK
<1>14. Ready'
  <2>1. Held(seq[s], shape[s].maxTokens)
    BY <1>2, <1>4, <1>6 DEF Sane, Ready
  <2> QED
    BY <1>1, <1>2, <1>3, <1>4, <1>6, <2>1 DEF Sane, Ready
<1> QED
  BY <1>5, <1>13, <1>14 DEF Sane

LEMMA PreemptNewestSane ==
  ASSUME Sane, TypeOK', Apart', PreemptNewest
  PROVE  Sane'
<1> DEFINE v == Max(running)
<1>1. /\ phase = "decode" /\ running # {}
      /\ table' = [table EXCEPT ![v] = 0]
      /\ running' = running \ {v}
      /\ waiting' = waiting \cup {v}
      /\ step' = [step EXCEPT !.preempted = @ \cup {v}]
      /\ UNCHANGED <<shape, arrived, seq, seqMap, newSeqs, phase>>
  BY DEF PreemptNewest, Victim
<1>2. v \in running /\ v \in Seqs
  BY <1>1, RunningEnds DEF Sane
<1> HIDE DEF v
<1>3. /\ step'.kept = step.kept /\ step'.decodes = step.decodes
      /\ step'.prompts = step.prompts /\ step'.preempted = step.preempted \cup {v}
      /\ step'.aborted = step.aborted /\ step'.ignored = step.ignored
  BY <1>1 DEF Sane, TypeOK, Steps
<1>4. step.prompts = {} /\ step.decodes = step.kept /\ v \notin step.kept
  BY <1>1, <1>2 DEF Sane, Building, Apart
<1>5. Building' /\ Known'
  BY <1>1, <1>2, <1>3, <1>4 DEF Sane, Building, Known
<1>6. Batch(step') = Batch(step) /\ Batch(step) = step.kept
  BY <1>3, <1>4 DEF Batch
<1>7. table \in [Seqs -> Nat] /\ running \subseteq Seqs /\ step.kept \subseteq Seqs
  BY DEF Sane, TypeOK, Steps
<1>8. table'[v] = 0 /\ \A r \in Seqs \ {v} : table'[r] = table[r]
  BY <1>1, <1>2, <1>7
<1>9. Free(table') >= 0
  <2>1. Free(table') = Free(table) + table[v] - 0
    BY <1>1, <1>2, <1>7, FreeUpdate
  <2>2. Free(table) \in Int /\ table[v] \in Nat /\ Free(table) >= 0
    BY <1>2, <1>7, FreeInt DEF Sane, HoldersOK
  <2> QED
    BY <2>1, <2>2
<1>10. HoldersOK'
  <2>1. Free(table)' >= 0
    BY <1>9 DEF Free
  <2>2. \A r \in Seqs : table'[r] > 0 <=> r \in running' \cup step'.kept
    BY <1>1, <1>2, <1>3, <1>4, <1>8 DEF Sane, HoldersOK
  <2>3. \A r \in running' \cup step'.kept :
          r \in (running \cup step.kept) \ {v} /\ r \in Seqs /\ table'[r] = table[r]
    BY <1>1, <1>3, <1>4, <1>7, <1>8
  <2>4. Batch(step') \subseteq running' \cup step'.kept
    BY <1>3, <1>6
  <2> QED
    BY <1>1, <1>3, <1>4, <1>6, <2>1, <2>2, <2>3, <2>4 DEF Sane, HoldersOK
<1>11. Ready'
  <2>1. Held(seq[v], shape[v].maxTokens)
    BY <1>2, <1>4, <1>6 DEF Sane, Ready
  <2> QED
    BY <1>1, <1>2, <1>3, <1>6, <2>1 DEF Sane, Ready
<1> QED
  BY <1>5, <1>10, <1>11 DEF Sane

LEMMA EndDecodeSane ==
  ASSUME Sane, TypeOK', Apart', NEW next \in {"select", "dispatch"}, EndDecode(next)
  PROVE  Sane'
<1>1. /\ phase = "decode" /\ running = {} /\ phase' = next
      /\ running' = step.kept
      /\ step' = [step EXCEPT !.kept = {}]
      /\ UNCHANGED <<shape, arrived, seq, seqMap, newSeqs, waiting, table>>
  BY DEF EndDecode
<1>2. /\ step'.kept = {} /\ step'.decodes = step.decodes
      /\ step'.prompts = step.prompts /\ step'.preempted = step.preempted
      /\ step'.aborted = step.aborted /\ step'.ignored = step.ignored
      /\ Batch(step') = Batch(step)
  BY <1>1 DEF Sane, TypeOK, Steps, Batch
<1>3. step.prompts = {} /\ step.decodes = step.kept /\ Batch(step) = step.kept
  BY <1>1 DEF Sane, Building, Batch
<1>4. Building' /\ Known'
  BY <1>1, <1>2, <1>3 DEF Sane, Building, Known
<1>5. HoldersOK'
  BY <1>1, <1>2, <1>3 DEF Sane, HoldersOK
<1>6. Ready'
  BY <1>1, <1>2, <1>3 DEF Sane, Ready
<1> QED
  BY <1>4, <1>5, <1>6 DEF Sane

LEMMA DispatchNothingSane ==
  ASSUME Sane, TypeOK', Apart', DispatchNothing \/ DispatchAborts
  PROVE  Sane'
<1>1. /\ phase = "dispatch" /\ phase' = "idle" /\ Batch(step) = {} /\ step' = NoStep
      /\ seqMap' = seqMap \ step.aborted /\ newSeqs' \subseteq newSeqs
      /\ UNCHANGED <<shape, arrived, seq, waiting, running, table>>
  BY DEF DispatchNothing, DispatchAborts, Send
<1>2. /\ step'.kept = {} /\ step'.prompts = {} /\ step'.decodes = {} /\ step'.preempted = {}
      /\ step'.aborted = {} /\ step'.ignored = {} /\ Batch(step') = {}
  BY <1>1 DEF NoStep, Batch
<1>3. step.kept = {} /\ step.prompts = {}
  BY <1>1 DEF Sane, Building, Batch
<1>4. Building' /\ Known'
  BY <1>1, <1>2, <1>3 DEF Sane, Building, Known, Apart
<1>5. HoldersOK'
  BY <1>1, <1>2, <1>3 DEF Sane, HoldersOK
<1>6. Ready'
  BY <1>1, <1>2, <1>3 DEF Sane, Ready
<1> QED
  BY <1>4, <1>5, <1>6 DEF Sane


LEMMA DispatchBatchSane ==
  ASSUME Sane, TypeOK', Apart', NEW stop \in SUBSET Seqs, DispatchBatch(stop)
  PROVE  Sane'
<1>1. /\ phase = "dispatch" /\ phase' = "wait" /\ TypeOK
      /\ step' = [step EXCEPT !.stop = stop]
      /\ seqMap' = seqMap \ (step.ignored \cup step.aborted) /\ newSeqs' = {}
      /\ Batch(step) \cup step.preempted \subseteq seqMap
      /\ seq' = [s \in Seqs |-> IF s \in step.preempted THEN ResetForRecompute(seq[s])
                                ELSE IF s \in Batch(step) THEN SetStatus(seq[s], "RUNNING")
                                ELSE seq[s]]
      /\ UNCHANGED <<shape, arrived, waiting, running, table>>
  BY DEF DispatchBatch, Send, Sane
<1>2. /\ step'.kept = step.kept /\ step'.decodes = step.decodes
      /\ step'.prompts = step.prompts /\ step'.preempted = step.preempted
      /\ step'.aborted = step.aborted /\ step'.ignored = step.ignored
      /\ Batch(step') = Batch(step)
  BY <1>1 DEF TypeOK, Steps, Batch
<1>3. /\ step.kept = {} /\ Batch(step) \subseteq running /\ step.preempted \subseteq waiting
      /\ waiting \cap running = {}
  BY <1>1 DEF Sane, Building, Apart
<1>4. Building' /\ Known'
  BY <1>1, <1>2, <1>3 DEF Sane, Building, Known, Apart
<1>5. \A s \in Seqs : GetLen(seq'[s]) = GetLen(seq[s])
  BY <1>1, DispatchBatchLen
<1>6. HoldersOK'
  <2>1. \A s \in Seqs : LogicalBlocks(seq'[s]) = LogicalBlocks(seq[s])
    BY <1>5 DEF LogicalBlocks
  <2>2. running \subseteq Seqs
    BY <1>1 DEF TypeOK
  <2>3. \A s \in running \cup step.kept : LogicalBlocks(seq'[s]) - table[s] \in {0, 1}
    BY <1>3, <2>1, <2>2 DEF Sane, HoldersOK
  <2>4. \A s \in Batch(step) : table[s] = LogicalBlocks(seq'[s])
    BY <1>3, <2>1, <2>2 DEF Sane, HoldersOK
  <2> QED
    BY <1>1, <1>2, <2>3, <2>4 DEF Sane, HoldersOK, Free
<1>7. \A s \in Seqs : seq[s] \in SequenceObjects /\ seq[s].prompt > 0
  BY <1>1 DEF Sane, TypeOK, Ready
<1>8. \A s \in step.preempted : Queued(seq'[s]) /\ seq'[s].prompt > 0
  <2> SUFFICES ASSUME NEW s \in step.preempted PROVE Queued(seq'[s]) /\ seq'[s].prompt > 0
    OBVIOUS
  <2>1. s \in Seqs
    BY <1>1 DEF TypeOK, Steps
  <2>2. seq'[s] = ResetForRecompute(seq[s])
    BY <1>1, <2>1
  <2>3. GetLen(seq[s]) > 0
    BY <1>7, <2>1 DEF GetLen, SequenceObjects
  <2> QED
    BY <1>7, <2>1, <2>2, <2>3, ResetFields DEF Queued
<1>9. \A s \in Batch(step) :
        /\ seq'[s].status = "RUNNING" /\ Bounded(seq'[s], shape[s].maxTokens)
        /\ seq'[s].prompt > 0
  <2> SUFFICES ASSUME NEW s \in Batch(step)
               PROVE  /\ seq'[s].status = "RUNNING" /\ Bounded(seq'[s], shape[s].maxTokens)
                      /\ seq'[s].prompt > 0
    OBVIOUS
  <2>1. s \in Seqs /\ s \notin step.preempted
    BY <1>1, <1>3 DEF TypeOK
  <2>2. seq'[s] = SetStatus(seq[s], "RUNNING")
    BY <1>1, <2>1
  <2>3. Bounded(seq[s], shape[s].maxTokens)
    BY <1>1 DEF Sane, Ready, Held, Batch
  <2> QED
    BY <1>7, <2>1, <2>2, <2>3, SetStatusFields DEF Bounded, Status, Executing
<1>10. \A s \in Seqs \ (step.preempted \cup Batch(step)) : seq'[s] = seq[s]
  BY <1>1
<1>11. Ready'
  <2>1. \A s \in Seqs : seq'[s].prompt > 0
    BY <1>7, <1>8, <1>9, <1>10
  <2>2. \A s \in Seqs \ arrived : seq'[s] = seq[s]
    BY <1>1, <1>10 DEF Sane, Known
  <2>3. \A s \in waiting \ step.preempted : seq'[s] = seq[s]
    BY <1>1, <1>3, <1>10 DEF TypeOK
  <2>4. \A s \in running \ Batch(step) : seq'[s] = seq[s]
    BY <1>1, <1>3, <1>10 DEF TypeOK
  <2>5. \A s \in Seqs \ arrived : seq'[s] = NewObject(shape[s].prompt)
    BY <2>2 DEF Sane, Ready
  <2>6. \A s \in waiting : Queued(seq'[s]) \/ Held(seq'[s], shape[s].maxTokens)
    BY <1>8, <2>3 DEF Sane, Ready
  <2>7. \A s \in running \ Batch(step) : Held(seq'[s], shape[s].maxTokens)
    BY <1>3, <2>4 DEF Sane, Ready
  <2> QED
    BY <1>1, <1>2, <1>3, <1>9, <2>1, <2>5, <2>6, <2>7 DEF Ready
<1> QED
  BY <1>4, <1>6, <1>11 DEF Sane

(* What the end of a step does to the batch.                               *)
Over(text) ==
  {s \in Batch(step) :
     CompleteStep(seq[s], Chunk(seq[s]), shape[s].maxTokens, s \in text, s \in step.stop).status
       \in Finished}

LEMMA CompleteEffect ==
  ASSUME Sane, NEW text, Complete(text)
  PROVE  /\ phase = "wait" /\ phase' = "idle" /\ step' = NoStep
         /\ seqMap' = seqMap \ Over(text) /\ running' = running \ Over(text)
         /\ table' = [s \in Seqs |-> IF s \in running \cap Over(text) THEN 0 ELSE table[s]]
         /\ UNCHANGED <<shape, arrived, newSeqs, waiting>>
         /\ \A s \in Seqs \ Batch(step) : seq'[s] = seq[s]
         /\ \A s \in Batch(step) :
              /\ seq'[s] = CompleteStep(seq[s], Chunk(seq[s]), shape[s].maxTokens,
                                        s \in text, s \in step.stop)
              /\ seq'[s].prompt = seq[s].prompt /\ seq'[s].output = seq[s].output + 1
              /\ s \notin Over(text) => Held(seq'[s], shape[s].maxTokens)
<1> DEFINE after(s) == CompleteStep(seq[s], Chunk(seq[s]), shape[s].maxTokens,
                                    s \in text, s \in step.stop)
<1>1. /\ phase = "wait" /\ phase' = "idle" /\ step' = NoStep
      /\ seqMap' = seqMap \ Over(text) /\ running' = running \ Over(text)
      /\ table' = [s \in Seqs |-> IF s \in running \cap Over(text) THEN 0 ELSE table[s]]
      /\ seq' = [s \in Seqs |-> IF s \in Batch(step) THEN after(s) ELSE seq[s]]
      /\ UNCHANGED <<shape, arrived, newSeqs, waiting>>
  BY DEF Complete, Over
<1>2. Batch(step) \subseteq Seqs
  BY DEF Sane, TypeOK, Steps, Batch
<1>3. ASSUME NEW s \in Batch(step)
      PROVE  /\ seq'[s] = after(s)
             /\ seq'[s].prompt = seq[s].prompt /\ seq'[s].output = seq[s].output + 1
             /\ s \notin Over(text) => Held(seq'[s], shape[s].maxTokens)
  <2> DEFINE o == seq[s]
             m == shape[s].maxTokens
             found == s \in text
             ends == s \in step.stop
             a == CompleteStep(o, Chunk(o), m, found, ends)
  <2>1. o \in SequenceObjects /\ m \in Nat
    <3>1. s \in Seqs /\ seq \in [Seqs -> SequenceObjects] /\ shape \in [Seqs -> Shapes]
      BY <1>2 DEF Sane, TypeOK
    <3>2. \A sh \in Shapes : sh.maxTokens \in Nat
      BY EngineAssumption DEF EngineAssumption
    <3> QED
      BY <3>1, <3>2
  <2>2. seq'[s] = a
    BY <1>1, <1>2
  <2>3. s \notin Over(text) => a.status \notin Finished
    BY DEF Over
  <2>4. Bounded(o, m)
    BY <1>1 DEF Sane, Ready
  <2>5. found \in BOOLEAN /\ ends \in BOOLEAN
    OBVIOUS
  <2> HIDE DEF found, ends, m, o
  <2>6. o.processed + Chunk(o) = o.prompt
    BY <2>1 DEF Chunk, SequenceObjects
  <2>7. /\ a.prompt = o.prompt /\ a.processed = o.prompt
        /\ a.output = o.output + 1
        /\ a.status \in Finished \/ (a.status = "PAUSED" /\ a.output # m)
    BY <2>1, <2>5, <2>6, StepFields
  <2> HIDE DEF a
  <2>8. o.output \in Nat
    BY <2>1 DEF SequenceObjects
  <2>9. a.status \notin Finished => Held(a, m)
    BY <2>1, <2>4, <2>7, <2>8 DEF Held, Bounded, PromptProcessed
  <2> QED
    BY <2>2, <2>3, <2>7, <2>9 DEF a, o, m, found, ends
<1> HIDE DEF after
<1>4. \A s \in Seqs \ Batch(step) : seq'[s] = seq[s]
  BY <1>1
<1> QED
  BY <1>1, <1>3, <1>4 DEF after

LEMMA CompleteSane ==
  ASSUME Sane, TypeOK', Apart', NEW text, Complete(text)
  PROVE  Sane'
<1> DEFINE done == Over(text)
<1>1. /\ phase = "wait" /\ phase' = "idle" /\ step' = NoStep
      /\ seqMap' = seqMap \ done /\ running' = running \ done
      /\ table' = [s \in Seqs |-> IF s \in running \cap done THEN 0 ELSE table[s]]
      /\ UNCHANGED <<shape, arrived, newSeqs, waiting>>
      /\ \A s \in Seqs \ Batch(step) : seq'[s] = seq[s]
      /\ \A s \in Batch(step) :
           /\ seq'[s].prompt = seq[s].prompt /\ seq'[s].output = seq[s].output + 1
           /\ s \notin done => Held(seq'[s], shape[s].maxTokens)
  BY CompleteEffect
<1>2. done \subseteq Batch(step)
  BY DEF Over
<1> HIDE DEF done
<1>3. /\ step'.kept = {} /\ step'.prompts = {} /\ step'.decodes = {} /\ step'.preempted = {}
      /\ step'.aborted = {} /\ step'.ignored = {} /\ Batch(step') = {}
  BY <1>1 DEF NoStep, Batch
<1>4. /\ step.kept = {} /\ Batch(step) \subseteq running /\ running \subseteq Seqs
      /\ waiting \cap running = {} /\ waiting \subseteq Seqs /\ table \in [Seqs -> Nat]
      /\ running \subseteq arrived
  BY <1>1 DEF Sane, Building, Apart, TypeOK, Known
<1>5. Building' /\ Known'
  BY <1>1, <1>2, <1>3, <1>4 DEF Sane, Building, Known
<1>6. \A s \in Seqs : seq[s] \in SequenceObjects /\ seq'[s] \in SequenceObjects
  BY DEF Sane, TypeOK
<1>7. HoldersOK'
  <2>1. \A s \in Seqs : table'[s] = IF s \in running \cap done THEN 0 ELSE table[s]
    BY <1>1
  <2>2. \A s \in Seqs : table'[s] <= table[s]
    BY <1>4, <2>1
  <2>3. table' \in [Seqs -> Nat]
    BY DEF TypeOK
  <2>4. Free(table') >= Free(table) /\ Free(table') \in Int /\ Free(table) \in Int
    BY <1>4, <2>2, <2>3, FreeMonotone, FreeInt
  <2>5. Free(table)' >= 0
    BY <2>4 DEF Sane, HoldersOK, Free
  <2>6. \A s \in Seqs : table'[s] > 0 <=> s \in running'
    BY <1>1, <1>4, <2>1 DEF Sane, HoldersOK
  <2>7. \A s \in running' : LogicalBlocks(seq'[s]) - table'[s] \in {0, 1}
    <3> SUFFICES ASSUME NEW s \in running' PROVE LogicalBlocks(seq'[s]) - table'[s] \in {0, 1}
      OBVIOUS
    <3>1. s \in running /\ s \in Seqs /\ table'[s] = table[s]
      BY <1>1, <1>4, <2>1
    <3>2. LogicalBlocks(seq[s]) - table[s] \in {0, 1}
      BY <3>1 DEF Sane, HoldersOK
    <3>3. CASE s \in Batch(step)
      <4>1. table[s] = LogicalBlocks(seq[s])
        BY <3>3 DEF Sane, HoldersOK
      <4>2. GetLen(seq'[s]) = GetLen(seq[s]) + 1 /\ GetLen(seq[s]) \in Nat
        BY <1>1, <1>6, <3>1, <3>3 DEF GetLen, SequenceObjects
      <4>3. LogicalBlocks(seq'[s]) - LogicalBlocks(seq[s]) \in {0, 1}
        BY <4>2, CeilDivStep, BlockSizeAssumption DEF LogicalBlocks
      <4> QED
        BY <3>1, <4>1, <4>3
    <3>4. CASE s \notin Batch(step)
      BY <1>1, <3>1, <3>2, <3>4
    <3> QED
      BY <3>3, <3>4
  <2> QED
    BY <1>3, <2>5, <2>6, <2>7 DEF HoldersOK
<1>8. Ready'
  <2>1. \A s \in Seqs : seq'[s].prompt > 0
    BY <1>1 DEF Sane, Ready
  <2>2. \A s \in Seqs \ arrived : seq'[s] = seq[s]
    BY <1>1, <1>4
  <2>3. \A s \in waiting : seq'[s] = seq[s]
    BY <1>1, <1>4
  <2>4. \A s \in running' : Held(seq'[s], shape[s].maxTokens)
    <3> SUFFICES ASSUME NEW s \in running' PROVE Held(seq'[s], shape[s].maxTokens)
      OBVIOUS
    <3>1. s \in running /\ s \notin done /\ s \in Seqs
      BY <1>1, <1>4
    <3>2. CASE s \in Batch(step)
      BY <1>1, <3>1, <3>2
    <3>3. CASE s \notin Batch(step)
      <4>1. Held(seq[s], shape[s].maxTokens)
        BY <3>1, <3>3 DEF Sane, Ready
      <4> QED
        BY <1>1, <3>1, <3>3, <4>1
    <3> QED
      BY <3>2, <3>3
  <2>5. \A s \in Seqs \ arrived : seq'[s] = NewObject(shape[s].prompt)
    BY <2>2 DEF Sane, Ready
  <2>6. \A s \in waiting : Queued(seq'[s]) \/ Held(seq'[s], shape[s].maxTokens)
    BY <2>3 DEF Sane, Ready
  <2> QED
    BY <1>1, <1>3, <2>1, <2>4, <2>5, <2>6 DEF Ready
<1> QED
  BY <1>5, <1>7, <1>8 DEF Sane

(* A policy's step that schedules nothing: it moves on to another part of  *)
(* the schedule, and may let waiting requests leave.                       *)
LEMMA SidestepSane ==
  ASSUME Sane, TypeOK', Apart', NEW leaving \in SUBSET waiting,
         leaving \cap step.preempted = {},
         phase \in {"select", "admit", "prefill"},
         phase' \in {"admit", "dispatch"} \/ phase' = phase
           \/ (phase = "prefill" /\ phase' = "decode" /\ Batch(step) = {}),
         waiting' = waiting \ leaving, seqMap' = seqMap \ leaving,
         step'.kept = step.kept, step'.decodes = step.decodes,
         step'.prompts = step.prompts, step'.preempted = step.preempted,
         step'.aborted = step.aborted, step'.ignored = step.ignored,
         UNCHANGED <<shape, arrived, seq, newSeqs, running, table>>
  PROVE  Sane'
<1>1. Batch(step') = Batch(step) /\ step.kept = {} /\ (phase' = phase \/ phase' # "prefill")
  BY DEF Batch, Sane, Building
<1>2. phase # "idle" /\ phase' # "idle" /\ phase # "wait" /\ phase' # "wait" /\ phase # "decode"
  OBVIOUS
<1>3. Building'
  <2>1. CASE phase' = "decode"
    BY <1>1, <1>2, <2>1 DEF Sane, Building, Batch
  <2>2. CASE phase' # "decode"
    BY <1>1, <1>2, <2>2 DEF Sane, Building
  <2> QED
    BY <2>1, <2>2
<1>4. HoldersOK'
  BY <1>1 DEF Sane, HoldersOK
<1>5. Ready'
  BY <1>1, <1>2 DEF Sane, Ready
<1>6. Known'
  BY <1>1, <1>2 DEF Sane, Known, Apart
<1> QED
  BY <1>3, <1>4, <1>5, <1>6 DEF Sane

(* The admission of one waiting sequence, as a prompt to be processed or   *)
(* (if its preemption was never replayed) as a decode.                     *)
LEMMA AdmitSane ==
  ASSUME Sane, TypeOK', Apart', NEW s \in waiting,
         phase \in {"admit", "prefill"}, phase' = phase, step.preempted = {},
         CanAllocate(s), GetLen(seq[s]) <= PromptLimit,
         waiting' = waiting \ {s}, running' = running \cup {s},
         table' = [table EXCEPT ![s] = LogicalBlocks(seq[s])],
         NEW P \in SUBSET {s}, NEW D \in SUBSET {s}, P \cup D = {s}, P \cap D = {},
         s \in P <=> ~PromptProcessed(seq[s]),
         step'.prompts = step.prompts \cup P, step'.decodes = step.decodes \cup D,
         step'.kept = step.kept, step'.preempted = step.preempted,
         step'.aborted = step.aborted, step'.ignored = step.ignored,
         UNCHANGED <<shape, arrived, seq, seqMap, newSeqs>>
  PROVE  Sane'
<1>1. /\ s \in Seqs /\ s \notin running /\ running \subseteq Seqs
      /\ seq[s] \in SequenceObjects /\ table \in [Seqs -> Nat]
      /\ shape[s].maxTokens \in Nat \ {0}
  <2>1. \A sh \in Shapes : sh.maxTokens \in Nat \ {0}
    BY EngineAssumption DEF EngineAssumption
  <2> QED
    BY <2>1 DEF Sane, TypeOK, Apart
<1>2. step.kept = {} /\ Batch(step) \subseteq running /\ Batch(step') = Batch(step) \cup {s}
  BY DEF Batch, Sane, Building
<1>3. LogicalBlocks(seq[s]) \in Nat /\ LogicalBlocks(seq[s]) > 0
  BY <1>1, NeedsBlocks DEF Sane, Ready
<1>4. /\ table'[s] = LogicalBlocks(seq[s]) /\ table[s] = 0
      /\ \A r \in Seqs \ {s} : table'[r] = table[r]
  BY <1>1, <1>2 DEF Sane, HoldersOK
<1>5. Free(table)' >= WatermarkBlocks /\ Free(table)' >= 0
  <2>1. Free([table EXCEPT ![s] = LogicalBlocks(seq[s])])
          = Free(table) + table[s] - LogicalBlocks(seq[s])
    BY <1>1, <1>3, FreeUpdate
  <2>2. Free(table') = Free(table) - LogicalBlocks(seq[s])
    BY <1>1, <1>3, <1>4, <2>1, FreeInt
  <2>3. Free(table') >= WatermarkBlocks
    BY <2>2 DEF CanAllocate
  <2>4. Free(table') \in Int
    BY <1>1, <1>3, <2>2, FreeInt
  <2> QED
    BY <2>3, <2>4, Limits DEF Free
<1>6. (Queued(seq[s]) /\ s \in P) \/ (Held(seq[s], shape[s].maxTokens) /\ s \in D)
  <2>1. seq[s].prompt > 0 /\ (Queued(seq[s]) \/ Held(seq[s], shape[s].maxTokens))
    BY <1>1 DEF Sane, Ready
  <2>2. Queued(seq[s]) => ~PromptProcessed(seq[s])
    BY <2>1 DEF Queued, PromptProcessed
  <2>3. Held(seq[s], shape[s].maxTokens) => PromptProcessed(seq[s])
    BY DEF Held
  <2> QED
    BY <2>1, <2>2, <2>3
<1>7. Bounded(seq[s], shape[s].maxTokens)
  <2>1. seq[s].output \in Nat /\ seq[s].prompt \in Nat /\ seq[s].prompt <= PromptLimit
    BY <1>1, Limits DEF SequenceObjects, GetLen
  <2>2. Queued(seq[s]) => Bounded(seq[s], shape[s].maxTokens)
    BY <1>1, <2>1 DEF Queued, Bounded
  <2> QED
    BY <1>6, <2>2 DEF Held
<1>8. Building' /\ Known'
  <2>1. step'.prompts \cap step'.decodes = {}
    BY <1>1, <1>2 DEF Sane, Building, Batch
  <2>2. Building'
    BY <1>1, <1>2, <2>1 DEF Building
  <2>3. Known'
    BY DEF Sane, Known
  <2> QED
    BY <2>2, <2>3
<1>9. HoldersOK'
  <2>1. \A r \in Seqs : table'[r] > 0 <=> r \in running' \cup step'.kept
    BY <1>1, <1>2, <1>3, <1>4 DEF Sane, HoldersOK
  <2>2. \A r \in running' \cup step'.kept : LogicalBlocks(seq'[r]) - table'[r] \in {0, 1}
    <3> SUFFICES ASSUME NEW r \in running' PROVE LogicalBlocks(seq'[r]) - table'[r] \in {0, 1}
      BY <1>2
    <3>1. CASE r = s
      BY <1>3, <1>4, <3>1
    <3>2. CASE r # s
      <4>1. r \in running /\ r \in Seqs
        BY <1>1, <3>2
      <4>2. LogicalBlocks(seq[r]) - table[r] \in {0, 1}
        BY <4>1 DEF Sane, HoldersOK
      <4> QED
        BY <1>4, <3>2, <4>1, <4>2
    <3> QED
      BY <3>1, <3>2
  <2>3. \A r \in Batch(step') : table'[r] = LogicalBlocks(seq'[r])
    <3> SUFFICES ASSUME NEW r \in Batch(step') PROVE table'[r] = LogicalBlocks(seq'[r])
      OBVIOUS
    <3>1. CASE r = s
      BY <1>4, <3>1
    <3>2. CASE r # s
      <4>1. r \in Batch(step) /\ r \in Seqs
        BY <1>1, <1>2, <3>2
      <4>2. table[r] = LogicalBlocks(seq[r])
        BY <4>1 DEF Sane, HoldersOK
      <4> QED
        BY <1>4, <3>2, <4>1, <4>2
    <3> QED
      BY <3>1, <3>2
  <2> QED
    BY <1>5, <2>1, <2>2, <2>3 DEF HoldersOK
<1>10. Ready'
  <2>1. \A r \in running' \ Batch(step') : Held(seq[r], shape[r].maxTokens)
    BY <1>2 DEF Sane, Ready
  <2>2. \A r \in step'.decodes : Held(seq[r], shape[r].maxTokens)
    BY <1>6 DEF Sane, Ready
  <2>3. \A r \in step'.prompts : Queued(seq[r]) /\ Bounded(seq[r], shape[r].maxTokens)
    BY <1>6, <1>7 DEF Sane, Ready
  <2> QED
    BY <1>2, <2>1, <2>2, <2>3 DEF Sane, Ready
<1> QED
  BY <1>8, <1>9, <1>10 DEF Sane

-----------------------------------------------------------------------------
(* The tokens of a set of prompts.                                         *)

LEMMA TokensWeigh ==
  ASSUME TypeOK, NEW S \in SUBSET Seqs
  PROVE  /\ PromptTokens(S) \in Nat
         /\ PromptTokens({}) = 0
         /\ (\A s \in S : seq[s].prompt > 0) => Cardinality(S) <= PromptTokens(S)
<1> DEFINE f == [s \in S |-> GetLen(seq[s])]
<1>1. IsFiniteSet(S)
  BY SeqsSubset
<1>2. \A s \in S : f[s] \in Nat /\ (seq[s].prompt > 0 => f[s] \in Nat \ {0})
  BY DEF TypeOK, SequenceObjects, GetLen
<1> HIDE DEF f
<1>3. SumFunctionOnSet(f, S) \in Nat
  BY ONLY <1>1, <1>2, SumNat
<1>4. (\A s \in S : seq[s].prompt > 0) => Cardinality(S) <= SumFunctionOnSet(f, S)
  <2> SUFFICES ASSUME \A s \in S : seq[s].prompt > 0
               PROVE  Cardinality(S) <= SumFunctionOnSet(f, S)
    OBVIOUS
  <2>1. \A s \in S : f[s] \in Nat \ {0}
    BY <1>2
  <2> QED
    BY ONLY <1>1, <2>1, SumCounts
<1>5. PromptTokens({}) = 0
  BY SumEmpty DEF PromptTokens
<1> QED
  BY <1>3, <1>4, <1>5 DEF PromptTokens, f

LEMMA TokensInsert ==
  ASSUME TypeOK, NEW S \in SUBSET Seqs, NEW s \in Seqs \ S
  PROVE  PromptTokens(S \cup {s}) = GetLen(seq[s]) + PromptTokens(S)
<1> DEFINE f == [r \in S |-> GetLen(seq[r])]
           g == [r \in S \cup {s} |-> GetLen(seq[r])]
<1>1. IsFiniteSet(S) /\ s \notin S
  BY SeqsSubset
<1>2. /\ \A r \in S : g[r] \in Int /\ g[r] = f[r]
      /\ g[s] = GetLen(seq[s]) /\ g[s] \in Int
  BY DEF TypeOK, SequenceObjects, GetLen
<1> HIDE DEF f, g
<1>3. SumFunctionOnSet(g, S) = SumFunctionOnSet(f, S)
  BY ONLY <1>1, <1>2, SumAgree
<1>4. SumFunctionOnSet(g, S \cup {s}) = g[s] + SumFunctionOnSet(g, S)
  BY ONLY <1>1, <1>2, SumInsert
<1> QED
  BY <1>2, <1>3, <1>4 DEF PromptTokens, f, g

LEMMA TokensSubset ==
  ASSUME TypeOK, NEW S \in SUBSET Seqs, NEW R \in SUBSET S
  PROVE  PromptTokens(R) <= PromptTokens(S)
<1> DEFINE f == [s \in S |-> GetLen(seq[s])]
           g == [s \in R |-> GetLen(seq[s])]
<1>1. IsFiniteSet(S) /\ IsFiniteSet(R)
  BY SeqsSubset
<1>2. /\ \A s \in S : f[s] \in Nat
      /\ \A s \in R : g[s] \in Int /\ g[s] = f[s]
  BY DEF TypeOK, SequenceObjects, GetLen
<1> HIDE DEF f, g
<1>3. SumFunctionOnSet(f, R) <= SumFunctionOnSet(f, S)
  BY ONLY <1>1, <1>2, R \in SUBSET S, SumSubset
<1>4. SumFunctionOnSet(g, R) = SumFunctionOnSet(f, R)
  BY ONLY <1>1, <1>2, SumAgree
<1> QED
  BY <1>3, <1>4 DEF PromptTokens, f, g

(* The running list with the local list of the schedule.                   *)
LEMMA HoldersCount ==
  ASSUME TypeOK, NEW S \in SUBSET Seqs
  PROVE  /\ IsFiniteSet(S) /\ Cardinality(S) \in Nat
         /\ \A R \in SUBSET S : Cardinality(R) <= Cardinality(S) /\ Cardinality(R) \in Nat
         /\ \A s \in Seqs \ S : Cardinality(S \cup {s}) = Cardinality(S) + 1
<1>1. IsFiniteSet(S)
  BY SeqsSubset
<1> QED
  BY <1>1, FS_CardinalityType, FS_Subset, FS_AddElement

-----------------------------------------------------------------------------
(* If every request fits into the cache beside a free block, no preemption *)
(* is ever left unreplayed: the step that preempts also schedules.         *)

Replayed ==
  /\ \A s \in waiting \ step.preempted : Queued(seq[s])
  /\ phase = "wait" => \A s \in waiting : Queued(seq[s])
  /\ step.preempted # {} => Batch(step) # {} \/ (phase = "decode" /\ running # {})

LEMMA ReplayedInit == Init => Replayed
  BY DEF Init, Replayed, NoStep, NewObject, Queued

LEMMA ReplayedKept ==
  ASSUME Replayed, waiting' \subseteq waiting, \A s \in waiting' : seq'[s] = seq[s],
         step'.preempted = step.preempted, Batch(step) \subseteq Batch(step'),
         (phase = "decode" /\ running # {})
           => (Batch(step') # {} \/ (phase' = "decode" /\ running' # {})),
         phase' # "wait" \/ phase = "wait"
  PROVE  Replayed'
  BY DEF Replayed

(* The blocks a sequence between two steps holds, and those it may need.   *)
LEMMA HeldFits ==
  ASSUME Sane, RequestsFit, NEW s \in Seqs, Held(seq[s], shape[s].maxTokens)
  PROVE  LogicalBlocks(seq[s]) <= NumBlocks - 1
<1>1. /\ seq[s].prompt \in Nat /\ seq[s].output \in Nat /\ shape[s] \in Shapes
      /\ seq[s].prompt <= PromptLimit /\ seq[s].output < shape[s].maxTokens
  BY DEF Sane, TypeOK, SequenceObjects, Held, Bounded
<1>2. shape[s].maxTokens \in Nat
  BY <1>1, EngineAssumption DEF EngineAssumption
<1>3. PromptLimit + shape[s].maxTokens - 1 <= (NumBlocks - 1) * BlockSize
  BY <1>1 DEF RequestsFit
<1>4. (NumBlocks - 1) * BlockSize \in Nat
  BY BlockSizeAssumption, Limits
<1>5. GetLen(seq[s]) <= (NumBlocks - 1) * BlockSize /\ GetLen(seq[s]) \in Nat
  BY <1>1, <1>2, <1>3, <1>4, Limits DEF GetLen
<1> QED
  BY <1>5, Limits, CeilDivBounds, BlockSizeAssumption DEF LogicalBlocks

(* A sequence that holds blocks alone leaves one free.                     *)
LEMMA LoneHolder ==
  ASSUME Sane, RequestsFit, NEW v \in Seqs, running \cup step.kept \subseteq {v},
         v \in running, Held(seq[v], shape[v].maxTokens)
  PROVE  Free(table) > 0
<1>1. table \in [Seqs -> Nat] /\ \A s \in Seqs \ {v} : table[s] = 0
  <2>1. table \in [Seqs -> Nat]
    BY DEF Sane, TypeOK
  <2>2. \A s \in Seqs \ {v} : ~(table[s] > 0)
    BY DEF Sane, HoldersOK
  <2> QED
    BY <2>1, <2>2
<1>2. SumFunctionOnSet(table, Seqs) = table[v]
  <2>1. IsFiniteSet(Seqs) /\ \A s \in Seqs : table[s] \in Int
    BY <1>1, Limits
  <2>2. SumFunctionOnSet(table, Seqs) = table[v] + SumFunctionOnSet(table, Seqs \ {v})
    BY ONLY <2>1, v \in Seqs, SumRemove
  <2>3. IsFiniteSet(Seqs \ {v})
    BY <2>1, FS_Subset
  <2>4. SumFunctionOnSet(table, Seqs \ {v}) = 0
    BY ONLY <1>1, <2>3, SumZero
  <2> QED
    BY <1>1, <2>2, <2>4
<1>3. table[v] <= LogicalBlocks(seq[v]) /\ LogicalBlocks(seq[v]) \in Nat
  <2>1. LogicalBlocks(seq[v]) - table[v] \in {0, 1}
    BY DEF Sane, HoldersOK
  <2>2. LogicalBlocks(seq[v]) \in Nat /\ table[v] \in Nat
    BY <1>1, NeedsBlocks DEF Sane, TypeOK
  <2> QED
    BY <2>1, <2>2
<1>4. LogicalBlocks(seq[v]) <= NumBlocks - 1
  BY HeldFits
<1> QED
  BY <1>1, <1>2, <1>3, <1>4, Limits DEF Free

LEMMA PreemptReplayed ==
  ASSUME Sane, RequestsFit, Replayed, PreemptNewest
  PROVE  Replayed'
<1> DEFINE v == Max(running)
<1>1. /\ phase = "decode" /\ running # {} /\ ~(Free(table) > 0)
      /\ running' = running \ {v} /\ waiting' = waiting \cup {v}
      /\ step' = [step EXCEPT !.preempted = @ \cup {v}]
      /\ UNCHANGED <<shape, seq, phase>>
  BY DEF PreemptNewest, Victim, CanAppendSlot
<1>2. v \in running /\ v \in Seqs
  BY <1>1, RunningEnds DEF Sane
<1> HIDE DEF v
<1>3. step'.preempted = step.preempted \cup {v} /\ Batch(step') = Batch(step)
  BY <1>1 DEF Sane, TypeOK, Steps, Batch
<1>4. Batch(step) = step.kept /\ v \notin step.kept
  BY <1>1, <1>2 DEF Sane, Building, Apart, Batch
<1>5. Held(seq[v], shape[v].maxTokens)
  BY <1>2, <1>4 DEF Sane, Ready
<1>6. ~(running \cup step.kept \subseteq {v})
  BY <1>1, <1>2, <1>5, LoneHolder
<1>7. Batch(step') # {} \/ running' # {}
  BY <1>1, <1>3, <1>4, <1>6
<1> QED
  BY <1>1, <1>3, <1>7 DEF Replayed

LEMMA AddReplayed ==
  ASSUME Sane, Replayed, NEW s \in Seqs, AddRequest(s)
  PROVE  Replayed'
<1>1. /\ phase = "idle" /\ s \notin arrived /\ waiting' = waiting \cup {s}
      /\ UNCHANGED <<seq, running, phase, step>>
  BY DEF AddRequest
<1>2. Queued(seq[s])
  <2>1. seq[s] = NewObject(shape[s].prompt)
    BY <1>1 DEF Sane, Ready
  <2> QED
    BY <2>1 DEF NewObject, Queued
<1> QED
  BY <1>1, <1>2 DEF Replayed

LEMMA DispatchReplayed ==
  ASSUME Sane, Replayed, \/ DispatchNothing \/ DispatchAborts
                         \/ \E stop \in SUBSET Seqs : DispatchBatch(stop)
  PROVE  Replayed'
<1>1. CASE DispatchNothing \/ DispatchAborts
  <2>1. /\ phase = "dispatch" /\ phase' = "idle" /\ Batch(step) = {} /\ step' = NoStep
        /\ UNCHANGED <<seq, waiting>>
    BY <1>1 DEF DispatchNothing, DispatchAborts
  <2>2. step.preempted = {} /\ step'.preempted = {}
    BY <2>1 DEF Replayed, NoStep
  <2> QED
    BY <2>1, <2>2 DEF Replayed
<1>2. ASSUME NEW stop \in SUBSET Seqs, DispatchBatch(stop) PROVE Replayed'
  <2>1. /\ phase = "dispatch" /\ phase' = "wait" /\ Batch(step) # {}
        /\ seq' = [s \in Seqs |-> IF s \in step.preempted THEN ResetForRecompute(seq[s])
                                  ELSE IF s \in Batch(step) THEN SetStatus(seq[s], "RUNNING")
                                  ELSE seq[s]]
        /\ step' = [step EXCEPT !.stop = stop] /\ waiting' = waiting
    BY <1>2 DEF DispatchBatch
  <2>2. step'.preempted = step.preempted /\ Batch(step') = Batch(step)
    BY <2>1 DEF Sane, TypeOK, Steps, Batch
  <2>3. ASSUME NEW s \in waiting PROVE Queued(seq'[s])
    <3>1. s \in Seqs /\ s \notin Batch(step) /\ seq[s] \in SequenceObjects
      BY <2>1 DEF Sane, TypeOK, Building, Apart
    <3>2. CASE s \in step.preempted
      BY <2>1, <3>1, <3>2, ResetFields DEF Queued
    <3>3. CASE s \notin step.preempted
      BY <2>1, <3>1, <3>3 DEF Replayed
    <3> QED
      BY <3>2, <3>3
  <2> QED
    BY <2>1, <2>2, <2>3 DEF Replayed
<1> QED
  BY <1>1, <1>2

LEMMA CompleteReplayed ==
  ASSUME Sane, Replayed, NEW text, Complete(text)
  PROVE  Replayed'
<1>1. /\ phase = "wait" /\ phase' = "idle" /\ step' = NoStep /\ waiting' = waiting
      /\ \A s \in Seqs \ Batch(step) : seq'[s] = seq[s]
  BY CompleteEffect
<1>2. \A s \in waiting : s \in Seqs /\ s \notin Batch(step)
  BY <1>1 DEF Sane, TypeOK, Building, Apart
<1> QED
  BY <1>1, <1>2 DEF Replayed, NoStep

(* A step that only builds the schedule, common to both policies.          *)
LEMMA BuildReplayed ==
  ASSUME Sane, Replayed,
         \/ \E late \in SUBSET waiting, next \in {"decode", "prefill"} : BeginStep(late, next)
         \/ ScheduleDecode
         \/ \E next \in {"select", "dispatch"} : EndDecode(next)
         \/ UNCHANGED engineVars
  PROVE  Replayed'
<1>0. TypeOK /\ seq \in [Seqs -> SequenceObjects] /\ waiting \subseteq Seqs
  BY DEF Sane, TypeOK
<1>1. ASSUME NEW late \in SUBSET waiting, NEW next \in {"decode", "prefill"},
             BeginStep(late, next)
      PROVE  Replayed'
  <2>1. /\ phase = "idle" /\ phase' = next /\ step = NoStep /\ waiting' = waiting \ late
        /\ step' = [NoStep EXCEPT !.aborted = late]
        /\ \A s \in Seqs \ late : seq'[s] = seq[s]
    BY <1>1 DEF BeginStep, Sane, Building
  <2>2. step.preempted = {} /\ step'.preempted = {}
    BY <2>1 DEF NoStep
  <2>3. \A s \in waiting' : s \in waiting /\ s \in Seqs \ late
    BY <1>0, <2>1
  <2> QED
    BY <2>1, <2>2, <2>3 DEF Replayed
<1>2. CASE ScheduleDecode
  <2> DEFINE s == Min(running)
  <2>1. /\ phase = "decode" /\ phase' = "decode"
        /\ step' = [step EXCEPT !.kept = @ \cup {s}, !.decodes = @ \cup {s}]
        /\ UNCHANGED <<seq, waiting>>
    BY <1>2 DEF ScheduleDecode
  <2> HIDE DEF s
  <2>2. step'.preempted = step.preempted /\ Batch(step') = Batch(step) \cup {s}
    BY <1>0, <2>1 DEF TypeOK, Steps, Batch
  <2> QED
    BY <2>1, <2>2 DEF Replayed
<1>3. ASSUME NEW next \in {"select", "dispatch"}, EndDecode(next) PROVE Replayed'
  <2>1. /\ phase = "decode" /\ phase' = next /\ running = {}
        /\ step' = [step EXCEPT !.kept = {}]
        /\ UNCHANGED <<seq, waiting>>
    BY <1>3 DEF EndDecode
  <2>2. step'.preempted = step.preempted /\ Batch(step') = Batch(step)
    BY <1>0, <2>1 DEF TypeOK, Steps, Batch
  <2> QED
    BY <2>1, <2>2 DEF Replayed
<1>4. CASE UNCHANGED engineVars
  BY <1>4 DEF Replayed, engineVars, Batch
<1> QED
  BY <1>1, <1>2, <1>3, <1>4

(* Every assertion the run thread evaluates succeeds.                      *)
LEMMA ReplayedAssertions == Sane /\ Replayed => EngineAssertions
<1> SUFFICES ASSUME Sane, Replayed PROVE EngineAssertions
  OBVIOUS
<1>1. phase = "idle" => \A s \in waiting : Legal(seq[s].status, "FINISHED_ABORTED")
  <2>1. phase = "idle" => step.preempted = {}
    BY DEF Sane, Building, NoStep
  <2> QED
    BY <2>1 DEF Replayed, Queued, Legal
<1>2. ASSUME phase = "decode", running # {}
      PROVE  DecodeReady(Min(running)) /\ seq[Victim].status \in Executing
  <2>1. Min(running) \in running /\ Max(running) \in running
    BY <1>2, RunningEnds DEF Sane
  <2>2. \A s \in running : s \notin Batch(step)
    BY <1>2 DEF Sane, Building, Apart, Batch
  <2>3. \A s \in running : Held(seq[s], shape[s].maxTokens)
    BY <2>2 DEF Sane, Ready
  <2> QED
    BY <2>1, <2>3 DEF DecodeReady, Held, Victim, Executing
<1>3. ASSUME phase = "dispatch"
      PROVE  /\ Batch(step) \cup step.ignored \cup step.preempted \cup step.aborted \subseteq seqMap
             /\ \A s \in step.preempted : seq[s].status \in Executing
             /\ \A s \in Batch(step) : seq[s].status \in {"WAITING", "PAUSED"}
  <2>1. Batch(step) \cup step.ignored \cup step.preempted \cup step.aborted \subseteq seqMap
    BY <1>3 DEF Sane, Building, Known
  <2>2. /\ \A s \in step.preempted \cup step.decodes : seq[s].status = "PAUSED"
        /\ \A s \in step.prompts : seq[s].status = "WAITING"
    BY <1>3 DEF Sane, Ready, Held, Queued
  <2> QED
    BY <2>1, <2>2 DEF Batch, Executing
<1> QED
  BY <1>1, <1>2, <1>3 DEF EngineAssertions

-----------------------------------------------------------------------------
(* The workers' replay.  A replica is what a worker keeps: its map, its    *)
(* objects and its tables.  Apply is a worker's step on a message, Check   *)
(* the assertions it evaluates; Local is the replica a worker holds, and   *)
(* Replica relates the one it will hold, once it has handled all that was  *)
(* sent to it, to the engine.                                              *)

Replicas == [map : SUBSET Seqs, obj : [Seqs -> SequenceObjects], tab : [Seqs -> Nat]]

Local(w) == [map |-> wmap[w], obj |-> wseq[w], tab |-> wtable[w]]

Freed(x, m) ==
  [s \in Seqs |-> IF s \in m.aborted \cup m.ignored \cup m.preempted THEN 0 ELSE x.tab[s]]

Allocated(x, m) ==
  [s \in Seqs |-> IF s \notin Batch(m) THEN Freed(x, m)[s]
                  ELSE IF Freed(x, m)[s] = 0 THEN LogicalBlocks(x.obj[s])
                  ELSE AppendSlot(Freed(x, m)[s], x.obj[s])]

FreshOf(x, m) == {s \in Batch(m) : Freed(x, m)[s] = 0}

CheckMap(x, m) == /\ m.new \cap x.map = {}
                  /\ m.aborted \subseteq x.map \cup m.new

CheckBatch(x, m) ==
  /\ m.ignored \cup m.preempted \cup Batch(m) \subseteq (x.map \cup m.new) \ m.aborted
  /\ \A s \in m.preempted : x.obj[s].status \in Executing
  /\ \A s \in Batch(m) : x.obj[s].status \in {"WAITING", "PAUSED"}
  /\ \A s \in FreshOf(x, m) :
       Free([r \in Seqs |-> IF r \in FreshOf(x, m) THEN Allocated(x, m)[r] ELSE Freed(x, m)[r]])
         >= WatermarkBlocks
  /\ Free(Allocated(x, m)) >= 0

Check(x, m) == CheckMap(x, m) /\ (Batch(m) # {} => CheckBatch(x, m))

Executed(x, m, s) ==
  CompleteStep(SetStatus(x.obj[s], "RUNNING"), Chunk(SetStatus(x.obj[s], "RUNNING")),
               shape[s].maxTokens, FALSE, s \in m.stop)

Gone(x, m) ==
  IF Batch(m) = {} THEN m.aborted
  ELSE {s \in Batch(m) : Executed(x, m, s).status \in Finished} \cup m.ignored \cup m.aborted

NextObject(x, m, s) ==
  IF s \in Gone(x, m) THEN NewObject(shape[s].prompt)
  ELSE IF Batch(m) = {} THEN x.obj[s]
  ELSE IF s \in m.preempted THEN ResetForRecompute(x.obj[s])
  ELSE IF s \in Batch(m) THEN Executed(x, m, s)
  ELSE x.obj[s]

NextBlocks(x, m, s) ==
  IF s \in Gone(x, m) THEN 0
  ELSE IF Batch(m) = {} THEN x.tab[s] ELSE Allocated(x, m)[s]

Apply(x, m) ==
  [map |-> (x.map \cup m.new) \ Gone(x, m),
   obj |-> [s \in Seqs |-> NextObject(x, m, s)],
   tab |-> [s \in Seqs |-> NextBlocks(x, m, s)]]

(* What a member of the batch in flight will be; those it ends.            *)
Ends(s) == CompleteStep(seq[s], Chunk(seq[s]), shape[s].maxTokens, FALSE, s \in step.stop)
Ended == {s \in Batch(step) : Ends(s).status \in Finished}

ReplicaMap(x) ==
  /\ x.map \cap newSeqs = {} /\ x.map \subseteq arrived
  /\ phase # "wait" => seqMap \ newSeqs \subseteq x.map
  /\ phase = "wait" => seqMap \ Ended \subseteq x.map

ReplicaObj(x) ==
  /\ \A s \in Seqs \ arrived : x.obj[s] = NewObject(shape[s].prompt)
  /\ phase # "wait" => \A s \in waiting \cup running \cup step.kept : x.obj[s] = seq[s]
  /\ phase = "wait" => \A s \in (waiting \cup running) \ Ended :
                         x.obj[s] = IF s \in Batch(step) THEN Ends(s) ELSE seq[s]

ReplicaTab(x) ==
  /\ phase # "wait" =>
       /\ \A s \in Seqs \ (Batch(step) \cup step.preempted) : x.tab[s] = table[s]
       /\ \A s \in step.prompts : x.tab[s] = 0
       /\ \A s \in step.decodes : x.tab[s] > 0 /\ LogicalBlocks(seq[s]) - x.tab[s] \in {0, 1}
  /\ phase = "wait" => \A s \in Seqs : x.tab[s] = IF s \in Ended THEN 0 ELSE table[s]

Replica(x) == ReplicaMap(x) /\ ReplicaObj(x) /\ ReplicaTab(x)

(* Every message on its way to a worker will pass its assertions, and      *)
(* having handled them all the worker will be a replica of the engine.     *)
Follows(h, w) ==
  /\ h \in [0..Len(inbox[w]) -> Replicas]
  /\ h[0] = Local(w)
  /\ \A i \in 1..Len(inbox[w]) : /\ Check(h[i - 1], inbox[w][i])
                                 /\ h[i] = Apply(h[i - 1], inbox[w][i])
  /\ Replica(h[Len(inbox[w])])

InStep == \A w \in Workers : \E h : Follows(h, w)

LEMMA FreedType ==
  ASSUME NEW x \in Replicas, NEW m \in Messages
  PROVE  /\ Freed(x, m) \in [Seqs -> Nat]
         /\ Allocated(x, m) \in [Seqs -> Nat]
<1>1. x.tab \in [Seqs -> Nat] /\ x.obj \in [Seqs -> SequenceObjects]
  BY DEF Replicas
<1>2. Freed(x, m) \in [Seqs -> Nat]
  BY <1>1 DEF Freed
<1>3. ASSUME NEW s \in Seqs
      PROVE  /\ LogicalBlocks(x.obj[s]) \in Nat
             /\ AppendSlot(Freed(x, m)[s], x.obj[s]) \in Nat
             /\ Freed(x, m)[s] \in Nat
  BY <1>1, <1>2, NeedsBlocks, AppendSlotType
<1> QED
  BY <1>2, <1>3 DEF Allocated

LEMMA ApplyType ==
  ASSUME TypeOK, NEW x \in Replicas, NEW m \in Messages
  PROVE  Apply(x, m) \in Replicas
<1>1. x.map \subseteq Seqs /\ x.obj \in [Seqs -> SequenceObjects] /\ x.tab \in [Seqs -> Nat]
  BY DEF Replicas
<1>2. m.new \subseteq Seqs
  BY DEF Messages
<1>3. ASSUME NEW s \in Seqs PROVE NextObject(x, m, s) \in SequenceObjects
  <2> DEFINE ends == s \in m.stop
             o == SetStatus(x.obj[s], "RUNNING")
  <2>1. NewObject(shape[s].prompt) \in SequenceObjects
    <3>1. \A sh \in Shapes : sh.prompt \in Nat
      BY EngineAssumption DEF EngineAssumption
    <3> QED
      BY <3>1, NewObjectType DEF TypeOK
  <2>2. o \in SequenceObjects
    BY <1>1, SetStatusType DEF Status, Executing
  <2>3. ends \in BOOLEAN /\ FALSE \in BOOLEAN
    OBVIOUS
  <2> HIDE DEF o, ends
  <2>4. CompleteStep(o, Chunk(o), shape[s].maxTokens, FALSE, ends) \in SequenceObjects
    BY <2>2, <2>3, CompleteStepType
  <2>5. Executed(x, m, s) \in SequenceObjects
    BY <2>4 DEF Executed, o, ends
  <2>6. ResetForRecompute(x.obj[s]) \in SequenceObjects /\ x.obj[s] \in SequenceObjects
    BY <1>1, ResetType
  <2> QED
    BY <2>1, <2>5, <2>6 DEF NextObject
<1>4. ASSUME NEW s \in Seqs PROVE NextBlocks(x, m, s) \in Nat
  BY <1>1, FreedType DEF NextBlocks
<1> QED
  BY <1>1, <1>2, <1>3, <1>4 DEF Apply, Replicas

(* The engine's steps between two messages keep a replica in step.         *)

LEMMA ReplicaStays ==
  ASSUME NEW x, Replica(x), phase # "wait", phase' # "wait",
         UNCHANGED <<shape, arrived, newSeqs, table>>, seqMap' \subseteq seqMap,
         waiting' \cup running' \cup step'.kept \subseteq waiting \cup running \cup step.kept,
         \A s \in waiting' \cup running' \cup step'.kept \cup step'.decodes : seq'[s] = seq[s],
         step'.preempted = step.preempted, step'.prompts = step.prompts,
         step'.decodes = step.decodes
  PROVE  Replica(x)'
<1>1. ReplicaMap(x)'
  BY DEF Replica, ReplicaMap
<1>2. ReplicaObj(x)'
  BY DEF Replica, ReplicaObj
<1>3. ReplicaTab(x)'
  <2>1. Batch(step') = Batch(step)
    BY DEF Batch
  <2>2. \A s \in Seqs \ (Batch(step') \cup step'.preempted) : x.tab[s] = table'[s]
    BY <2>1 DEF Replica, ReplicaTab
  <2>3. \A s \in step'.prompts : x.tab[s] = 0
    BY DEF Replica, ReplicaTab
  <2>4. \A s \in step'.decodes : x.tab[s] > 0 /\ LogicalBlocks(seq'[s]) - x.tab[s] \in {0, 1}
    BY DEF Replica, ReplicaTab
  <2> QED
    BY <2>2, <2>3, <2>4 DEF ReplicaTab
<1> QED
  BY <1>1, <1>2, <1>3 DEF Replica

LEMMA EngineStaysReplica ==
  ASSUME NEW x, Replica(x), UNCHANGED engineVars
  PROVE  Replica(x)'
<1>1. UNCHANGED <<shape, arrived, seq, seqMap, newSeqs, waiting, running, table, phase, step>>
  BY DEF engineVars
<1>2. Ended' = Ended /\ \A s : Ends(s)' = Ends(s)
  BY <1>1 DEF Ended, Ends, Batch
<1>3. ReplicaMap(x)' /\ ReplicaTab(x)'
  BY <1>1, <1>2 DEF Replica, ReplicaMap, ReplicaTab, Batch
<1>4. ReplicaObj(x)'
  BY <1>1, <1>2 DEF Replica, ReplicaObj, Batch
<1> QED
  BY <1>3, <1>4 DEF Replica

LEMMA AddReplica ==
  ASSUME Sane, NEW x, Replica(x), NEW s \in Seqs, AddRequest(s)
  PROVE  Replica(x)'
<1>1. /\ phase = "idle" /\ s \notin arrived
      /\ arrived' = arrived \cup {s} /\ seqMap' = seqMap \cup {s}
      /\ newSeqs' = newSeqs \cup {s} /\ waiting' = waiting \cup {s}
      /\ UNCHANGED <<shape, seq, running, table, phase, step>>
  BY DEF AddRequest
<1>2. ReplicaMap(x)'
  BY <1>1 DEF Replica, ReplicaMap
<1>3. x.obj[s] = seq[s]
  BY <1>1 DEF Sane, Ready, Replica, ReplicaObj
<1>4. ReplicaObj(x)'
  BY <1>1, <1>3 DEF Replica, ReplicaObj
<1>5. ReplicaTab(x)'
  BY <1>1 DEF Replica, ReplicaTab, Batch
<1> QED
  BY <1>2, <1>4, <1>5 DEF Replica

LEMMA BeginReplica ==
  ASSUME Sane, NEW x, Replica(x), NEW late \in SUBSET waiting, NEW next \in {"decode", "prefill"},
         BeginStep(late, next)
  PROVE  Replica(x)'
<1>1. /\ phase = "idle" /\ phase' = next /\ step = NoStep /\ waiting' = waiting \ late
      /\ step' = [NoStep EXCEPT !.aborted = late]
      /\ \A s \in Seqs \ late : seq'[s] = seq[s]
      /\ UNCHANGED <<shape, arrived, seqMap, newSeqs, running, table>>
  BY DEF BeginStep, Sane, Building
<1>2. /\ step'.kept = {} /\ step'.prompts = {} /\ step'.decodes = {} /\ step'.preempted = {}
      /\ step.kept = {} /\ step.prompts = {} /\ step.decodes = {} /\ step.preempted = {}
  BY <1>1 DEF NoStep
<1>3. \A s \in waiting' \cup running' : s \in Seqs \ late
  BY <1>1 DEF Sane, TypeOK, Apart
<1> QED
  BY <1>1, <1>2, <1>3, ReplicaStays

LEMMA DecodeReplica ==
  ASSUME Sane, NEW x, Replica(x), ScheduleDecode
  PROVE  Replica(x)'
<1> DEFINE s == Min(running)
<1>1. /\ phase = "decode" /\ phase' = "decode" /\ running # {}
      /\ table' = [table EXCEPT ![s] = AppendSlot(table[s], seq[s])]
      /\ running' = running \ {s}
      /\ step' = [step EXCEPT !.kept = @ \cup {s}, !.decodes = @ \cup {s}]
      /\ UNCHANGED <<shape, arrived, seq, seqMap, newSeqs, waiting>>
  BY DEF ScheduleDecode
<1>2. s \in running /\ s \in Seqs
  BY <1>1, RunningEnds DEF Sane
<1> HIDE DEF s
<1>3. /\ step'.kept = step.kept \cup {s} /\ step'.decodes = step.decodes \cup {s}
      /\ step'.prompts = step.prompts /\ step'.preempted = step.preempted
      /\ Batch(step') = Batch(step) \cup {s}
  BY <1>1 DEF Sane, TypeOK, Steps, Batch
<1>4. s \notin Batch(step) \cup step.preempted
  BY <1>1, <1>2 DEF Sane, Building, Apart, Batch
<1>5. x.tab[s] > 0 /\ LogicalBlocks(seq[s]) - x.tab[s] \in {0, 1}
  <2>1. x.tab[s] = table[s]
    BY <1>1, <1>2, <1>4 DEF Replica, ReplicaTab
  <2>2. table[s] > 0 /\ LogicalBlocks(seq[s]) - table[s] \in {0, 1}
    BY <1>2 DEF Sane, HoldersOK
  <2> QED
    BY <2>1, <2>2
<1>6. ReplicaMap(x)'
  BY <1>1 DEF Replica, ReplicaMap
<1>7. ReplicaObj(x)'
  BY <1>1, <1>2, <1>3 DEF Replica, ReplicaObj
<1>8. ReplicaTab(x)'
  <2>1. \A r \in Seqs \ {s} : table'[r] = table[r]
    BY <1>1 DEF Sane, TypeOK
  <2>2. \A r \in Seqs \ (Batch(step') \cup step'.preempted) : x.tab[r] = table'[r]
    BY <1>1, <1>3, <2>1 DEF Replica, ReplicaTab
  <2>3. \A r \in step'.prompts : x.tab[r] = 0
    BY <1>1, <1>3 DEF Replica, ReplicaTab
  <2>4. \A r \in step'.decodes : x.tab[r] > 0 /\ LogicalBlocks(seq'[r]) - x.tab[r] \in {0, 1}
    BY <1>1, <1>3, <1>5 DEF Replica, ReplicaTab
  <2> QED
    BY <1>1, <2>2, <2>3, <2>4 DEF ReplicaTab
<1> QED
  BY <1>6, <1>7, <1>8 DEF Replica

LEMMA PreemptReplica ==
  ASSUME Sane, NEW x, Replica(x), PreemptNewest
  PROVE  Replica(x)'
<1> DEFINE v == Max(running)
<1>1. /\ phase = "decode" /\ phase' = "decode" /\ running # {}
      /\ table' = [table EXCEPT ![v] = 0]
      /\ running' = running \ {v} /\ waiting' = waiting \cup {v}
      /\ step' = [step EXCEPT !.preempted = @ \cup {v}]
      /\ UNCHANGED <<shape, arrived, seq, seqMap, newSeqs>>
  BY DEF PreemptNewest, Victim
<1>2. v \in running /\ v \in Seqs
  BY <1>1, RunningEnds DEF Sane
<1> HIDE DEF v
<1>3. /\ step'.kept = step.kept /\ step'.decodes = step.decodes
      /\ step'.prompts = step.prompts /\ step'.preempted = step.preempted \cup {v}
      /\ Batch(step') = Batch(step)
  BY <1>1 DEF Sane, TypeOK, Steps, Batch
<1>4. ReplicaMap(x)'
  BY <1>1 DEF Replica, ReplicaMap
<1>5. ReplicaObj(x)'
  BY <1>1, <1>2, <1>3 DEF Replica, ReplicaObj
<1>6. ReplicaTab(x)'
  <2>1. \A r \in Seqs \ {v} : table'[r] = table[r]
    BY <1>1 DEF Sane, TypeOK
  <2>2. \A r \in Seqs \ (Batch(step') \cup step'.preempted) : x.tab[r] = table'[r]
    BY <1>1, <1>3, <2>1 DEF Replica, ReplicaTab
  <2> QED
    BY <1>1, <1>3, <2>2 DEF Replica, ReplicaTab
<1> QED
  BY <1>4, <1>5, <1>6 DEF Replica

LEMMA EndDecodeReplica ==
  ASSUME Sane, NEW x, Replica(x), NEW next \in {"select", "dispatch"}, EndDecode(next)
  PROVE  Replica(x)'
<1>1. /\ phase = "decode" /\ phase' = next /\ running = {} /\ running' = step.kept
      /\ step' = [step EXCEPT !.kept = {}]
      /\ UNCHANGED <<shape, arrived, seq, seqMap, newSeqs, waiting, table>>
  BY DEF EndDecode
<1>2. /\ step'.kept = {} /\ step'.decodes = step.decodes
      /\ step'.prompts = step.prompts /\ step'.preempted = step.preempted
  BY <1>1 DEF Sane, TypeOK, Steps
<1> QED
  BY <1>1, <1>2, ReplicaStays

LEMMA NothingReplica ==
  ASSUME Replayed, NEW x, Replica(x), DispatchNothing
  PROVE  Replica(x)'
<1>1. /\ phase = "dispatch" /\ phase' = "idle" /\ Batch(step) = {} /\ step' = NoStep
      /\ UNCHANGED <<shape, arrived, seq, seqMap, newSeqs, waiting, running, table>>
  BY DEF DispatchNothing
<1>2. step.preempted = {} /\ step.prompts = {} /\ step.decodes = {}
  BY <1>1 DEF Replayed, Batch
<1>3. /\ step'.kept = {} /\ step'.prompts = {} /\ step'.decodes = {} /\ step'.preempted = {}
  BY <1>1 DEF NoStep
<1> QED
  BY <1>1, <1>2, <1>3, ReplicaStays

(* Admitting a queued sequence: the worker has no table for it either.     *)
LEMMA AdmitReplica ==
  ASSUME Sane, NEW x, Replica(x), NEW s \in waiting, Queued(seq[s]),
         phase \in {"admit", "prefill"}, phase' = phase, step.preempted = {},
         waiting' = waiting \ {s}, running' = running \cup {s},
         NEW n \in Nat, table' = [table EXCEPT ![s] = n],
         step'.prompts = step.prompts \cup {s}, step'.decodes = step.decodes,
         step'.kept = step.kept, step'.preempted = step.preempted,
         UNCHANGED <<shape, arrived, seq, seqMap, newSeqs>>
  PROVE  Replica(x)'
<1>1. /\ s \in Seqs /\ s \notin Batch(step) /\ table[s] = 0
  <2>1. s \in Seqs /\ s \notin running \cup step.kept /\ table \in [Seqs -> Nat]
    BY DEF Sane, TypeOK, Apart
  <2>2. ~(table[s] > 0)
    BY <2>1 DEF Sane, HoldersOK
  <2> QED
    BY <2>1, <2>2 DEF Sane, Building
<1>2. x.tab[s] = 0
  BY <1>1 DEF Replica, ReplicaTab
<1>3. ReplicaMap(x)'
  BY DEF Replica, ReplicaMap
<1>4. ReplicaObj(x)'
  BY DEF Replica, ReplicaObj
<1>5. ReplicaTab(x)'
  <2>1. \A r \in Seqs \ {s} : table'[r] = table[r]
    BY DEF Sane, TypeOK
  <2>2. Batch(step') = Batch(step) \cup {s}
    BY DEF Batch
  <2>3. \A r \in Seqs \ (Batch(step') \cup step'.preempted) : x.tab[r] = table'[r]
    BY <2>1, <2>2 DEF Replica, ReplicaTab
  <2>4. \A r \in step'.prompts : x.tab[r] = 0
    BY <1>2 DEF Replica, ReplicaTab
  <2>5. \A r \in step'.decodes : x.tab[r] > 0 /\ LogicalBlocks(seq'[r]) - x.tab[r] \in {0, 1}
    BY DEF Replica, ReplicaTab
  <2> QED
    BY <2>3, <2>4, <2>5 DEF ReplicaTab
<1> QED
  BY <1>3, <1>4, <1>5 DEF Replica

(* Without stop strings the engine ends the sequences the workers end.     *)
LEMMA CompleteReplica ==
  ASSUME Sane, ~StopStrings, NEW x, Replica(x), NEW text, Complete(text)
  PROVE  Replica(x)'
<1>1. text = {}
  BY DEF Complete
<1>2. \A s : (s \in text) = FALSE
  BY <1>1
<1>3. /\ phase = "wait" /\ phase' = "idle" /\ step' = NoStep
      /\ seqMap' = seqMap \ Over(text) /\ running' = running \ Over(text)
      /\ table' = [s \in Seqs |-> IF s \in running \cap Over(text) THEN 0 ELSE table[s]]
      /\ UNCHANGED <<shape, arrived, newSeqs, waiting>>
      /\ \A s \in Seqs \ Batch(step) : seq'[s] = seq[s]
      /\ \A s \in Batch(step) : seq'[s] = CompleteStep(seq[s], Chunk(seq[s]), shape[s].maxTokens,
                                                       s \in text, s \in step.stop)
  BY CompleteEffect
<1>4. \A s \in Batch(step) : seq'[s] = Ends(s)
  BY <1>2, <1>3 DEF Ends
<1>5. Over(text) = Ended
  <2> DEFINE ended(s) == CompleteStep(seq[s], Chunk(seq[s]), shape[s].maxTokens,
                                      s \in text, s \in step.stop)
  <2>1. \A s \in Batch(step) : ended(s) = Ends(s)
    BY <1>2 DEF Ends
  <2>2. Over(text) = {s \in Batch(step) : ended(s).status \in Finished}
    BY DEF Over
  <2> HIDE DEF ended
  <2> QED
    BY <2>1, <2>2 DEF Ended
<1>6. /\ step'.kept = {} /\ step'.prompts = {} /\ step'.decodes = {} /\ step'.preempted = {}
      /\ Batch(step') = {}
  BY <1>3 DEF NoStep, Batch
<1>7. /\ Ended \subseteq Batch(step) /\ Batch(step) \subseteq running /\ newSeqs = {}
      /\ waiting \cap running = {} /\ waiting \cup running \subseteq Seqs
  BY <1>3 DEF Ended, Sane, Building, Known, Apart, TypeOK
<1>8. ReplicaMap(x)'
  BY <1>3, <1>5, <1>7 DEF Replica, ReplicaMap
<1>9. ReplicaObj(x)'
  <2>1. ASSUME NEW s \in waiting' \cup running' PROVE x.obj[s] = seq'[s]
    <3>1. s \in (waiting \cup running) \ Ended /\ s \in Seqs
      BY <1>3, <1>5, <1>7, <2>1
    <3>2. x.obj[s] = IF s \in Batch(step) THEN Ends(s) ELSE seq[s]
      BY <1>3, <3>1 DEF Replica, ReplicaObj
    <3> QED
      BY <1>3, <1>4, <3>1, <3>2
  <2> QED
    BY <1>3, <1>6, <2>1 DEF Replica, ReplicaObj
<1>10. ReplicaTab(x)'
  <2>1. \A s \in Seqs : x.tab[s] = table'[s]
    BY <1>3, <1>5, <1>7 DEF Replica, ReplicaTab
  <2> QED
    BY <1>3, <1>6, <2>1 DEF ReplicaTab
<1> QED
  BY <1>8, <1>9, <1>10 DEF Replica

(* Sending a schedule: the replica passes the assertions on the message,   *)
(* and ends up where the engine will be when the outputs are back.         *)

LEMMA AbortsReplica ==
  ASSUME Sane, Replayed, NEW x \in Replicas, Replica(x), DispatchAborts,
         NEW m, m = Message({}), NEW y, y = Apply(x, m)
  PROVE  Check(x, m) /\ Replica(y)'
<1>1. /\ phase = "dispatch" /\ phase' = "idle" /\ Batch(step) = {} /\ step' = NoStep
      /\ newSeqs' = {} /\ seqMap' = seqMap \ step.aborted
      /\ UNCHANGED <<shape, arrived, seq, waiting, running, table>>
  BY DEF DispatchAborts, Send
<1>2. /\ m.new = newSeqs /\ m.aborted = step.aborted /\ Batch(m) = {}
      /\ m.preempted = step.preempted
  BY <1>1 DEF Message, Batch
<1>3. step.preempted = {} /\ step.kept = {} /\ step.prompts = {} /\ step.decodes = {}
  BY <1>1 DEF Replayed, Sane, Building, Batch
<1>4. /\ step'.kept = {} /\ step'.prompts = {} /\ step'.decodes = {} /\ step'.preempted = {}
      /\ Batch(step') = {}
  BY <1>1 DEF NoStep, Batch
<1>5. /\ x.map \cap newSeqs = {} /\ x.map \subseteq arrived
      /\ seqMap \ newSeqs \subseteq x.map /\ newSeqs \subseteq arrived
      /\ step.aborted \subseteq seqMap /\ step.aborted \subseteq arrived
      /\ (waiting \cup running) \cap step.aborted = {}
  BY <1>1 DEF Replica, ReplicaMap, Sane, Known, Apart
<1>6. /\ y.map = (x.map \cup newSeqs) \ step.aborted
      /\ \A s \in Seqs : y.obj[s] = IF s \in step.aborted THEN NewObject(shape[s].prompt)
                                    ELSE x.obj[s]
      /\ \A s \in Seqs : y.tab[s] = IF s \in step.aborted THEN 0 ELSE x.tab[s]
  BY <1>2 DEF Apply, Gone, NextObject, NextBlocks
<1>7. Check(x, m)
  BY <1>2, <1>5 DEF Check, CheckMap
<1>8. ReplicaMap(y)'
  BY <1>1, <1>5, <1>6 DEF ReplicaMap
<1>9. ReplicaObj(y)'
  <2>1. \A s \in waiting \cup running : s \in Seqs /\ s \notin step.aborted /\ x.obj[s] = seq[s]
    BY <1>1, <1>5 DEF Replica, ReplicaObj, Sane, TypeOK
  <2>2. \A s \in Seqs \ arrived : y.obj[s] = NewObject(shape[s].prompt)
    BY <1>6 DEF Replica, ReplicaObj
  <2>3. \A s \in waiting \cup running : y.obj[s] = seq[s]
    BY <1>6, <2>1
  <2> QED
    BY <1>1, <1>4, <2>2, <2>3 DEF ReplicaObj
<1>10. ReplicaTab(y)'
  <2>1. \A s \in Seqs : x.tab[s] = table[s]
    BY <1>1, <1>3 DEF Replica, ReplicaTab
  <2>2. \A s \in step.aborted : s \in Seqs /\ table[s] = 0
    <3>1. \A s \in step.aborted : s \in Seqs /\ s \notin running \cup step.kept
      BY <1>3, <1>5 DEF Sane, TypeOK, Steps
    <3>2. \A s \in step.aborted : ~(table[s] > 0) /\ table[s] \in Nat
      BY <3>1 DEF Sane, HoldersOK, TypeOK
    <3> QED
      BY <3>1, <3>2
  <2>3. \A s \in Seqs : y.tab[s] = table[s]
    BY <1>6, <2>1, <2>2
  <2> QED
    BY <1>1, <1>4, <2>3 DEF ReplicaTab
<1> QED
  BY <1>7, <1>8, <1>9, <1>10 DEF Replica

(* The schedule's batch at dispatch, seen by the replica.                  *)
LEMMA BatchBlocks ==
  ASSUME Sane, Replayed, NEW x \in Replicas, Replica(x), phase = "dispatch",
         NEW stop \in SUBSET Seqs, NEW m, m = Message(stop)
  PROVE  /\ Allocated(x, m) = table
         /\ FreshOf(x, m) = step.prompts
         /\ \A s \in Seqs : Freed(x, m)[s] <= table[s]
         /\ \A s \in step.aborted \cup step.ignored : table[s] = 0
<1>1. /\ m.aborted = step.aborted /\ m.ignored = step.ignored /\ m.preempted = step.preempted
      /\ m.prompts = step.prompts /\ m.decodes = step.decodes /\ Batch(m) = Batch(step)
  BY DEF Message, Batch
<1>2. /\ step.kept = {} /\ Batch(step) \subseteq running /\ step.preempted \subseteq waiting
      /\ step.prompts \cap step.decodes = {} /\ waiting \cap running = {}
      /\ (waiting \cup running) \cap (step.aborted \cup step.ignored) = {}
  BY DEF Sane, Building, Apart
<1>3. /\ table \in [Seqs -> Nat] /\ x.tab \in [Seqs -> Nat] /\ x.obj \in [Seqs -> SequenceObjects]
      /\ seq \in [Seqs -> SequenceObjects] /\ running \subseteq Seqs
      /\ step.prompts \subseteq Seqs /\ step.decodes \subseteq Seqs
      /\ step.aborted \subseteq Seqs /\ step.ignored \subseteq Seqs
      /\ step.preempted \subseteq Seqs
  BY DEF Sane, TypeOK, Steps, Replicas
<1>4. \A s \in Seqs \ running : table[s] = 0
  <2>1. \A s \in Seqs : table[s] > 0 <=> s \in running \cup step.kept
    BY DEF Sane, HoldersOK
  <2> QED
    BY <1>2, <1>3, <2>1
<1>5. \A s \in Batch(step) : table[s] = LogicalBlocks(seq[s]) /\ x.obj[s] = seq[s] /\ s \in Seqs
  BY <1>2, <1>3 DEF Sane, HoldersOK, Replica, ReplicaObj
<1>6. /\ \A s \in step.prompts : x.tab[s] = 0
      /\ \A s \in step.decodes : x.tab[s] > 0 /\ LogicalBlocks(seq[s]) - x.tab[s] \in {0, 1}
      /\ \A s \in Seqs \ (Batch(step) \cup step.preempted) : x.tab[s] = table[s]
  BY DEF Replica, ReplicaTab
<1>7. \A s \in Seqs : Freed(x, m)[s] = IF s \in step.aborted \cup step.ignored \cup step.preempted
                                       THEN 0 ELSE x.tab[s]
  BY <1>1 DEF Freed
<1>8. ASSUME NEW s \in Seqs
      PROVE  /\ Allocated(x, m)[s] = table[s] /\ Freed(x, m)[s] <= table[s]
             /\ s \in Batch(step) => (Freed(x, m)[s] = 0 <=> s \in step.prompts)
  <2>0. Allocated(x, m)[s] = IF s \notin Batch(step) THEN Freed(x, m)[s]
                             ELSE IF Freed(x, m)[s] = 0 THEN LogicalBlocks(x.obj[s])
                             ELSE AppendSlot(Freed(x, m)[s], x.obj[s])
    BY <1>1 DEF Allocated
  <2>1. CASE s \in step.aborted \cup step.ignored \cup step.preempted
    <3>1. s \notin running /\ s \notin Batch(step)
      BY <1>2, <2>1
    <3> QED
      BY <1>4, <1>7, <2>0, <2>1, <3>1
  <2>2. CASE s \notin step.aborted \cup step.ignored \cup step.preempted /\ s \notin Batch(step)
    BY <1>3, <1>6, <1>7, <2>0, <2>2
  <2>3. CASE s \in step.prompts
    <3>1. s \in Batch(step) /\ s \notin step.aborted \cup step.ignored \cup step.preempted
      BY <1>2, <2>3 DEF Batch
    <3>2. Freed(x, m)[s] = 0
      BY <1>6, <1>7, <2>3, <3>1
    <3> QED
      BY <1>3, <1>5, <2>0, <2>3, <3>1, <3>2
  <2>4. CASE s \in step.decodes
    <3>1. /\ s \in Batch(step) /\ s \notin step.aborted \cup step.ignored \cup step.preempted
          /\ s \notin step.prompts
      BY <1>2, <2>4 DEF Batch
    <3>2. Freed(x, m)[s] = x.tab[s]
      BY <1>7, <3>1
    <3>3. x.tab[s] > 0 /\ LogicalBlocks(seq[s]) - x.tab[s] \in {0, 1} /\ x.tab[s] \in Nat
      BY <1>3, <1>6, <2>4
    <3>4. LogicalBlocks(seq[s]) \in Nat
      BY <1>3, NeedsBlocks
    <3>5. AppendSlot(x.tab[s], seq[s]) = LogicalBlocks(seq[s])
      BY <3>3, <3>4, AppendSlotLevels
    <3> QED
      BY <1>5, <2>0, <3>1, <3>2, <3>3, <3>4, <3>5
  <2> QED
    BY <2>1, <2>2, <2>3, <2>4 DEF Batch
<1>9. Allocated(x, m) = table
  <2>1. Allocated(x, m) = [s \in Seqs |-> Allocated(x, m)[s]]
    BY DEF Allocated
  <2> QED
    BY <1>3, <1>8, <2>1
<1>10. FreshOf(x, m) = step.prompts
  <2>1. FreshOf(x, m) = {s \in Batch(step) : Freed(x, m)[s] = 0}
    BY <1>1 DEF FreshOf
  <2>2. Batch(step) \subseteq Seqs /\ step.prompts \subseteq Batch(step)
    BY <1>3 DEF Batch
  <2> QED
    BY <1>8, <2>1, <2>2
<1> QED
  BY <1>2, <1>3, <1>4, <1>8, <1>9, <1>10

LEMMA BatchCheck ==
  ASSUME Sane, Replayed, NEW x \in Replicas, Replica(x), phase = "dispatch",
         NEW stop \in SUBSET Seqs, NEW m, m = Message(stop)
  PROVE  Check(x, m)
<1>1. /\ m.new = newSeqs
      /\ m.aborted = step.aborted /\ m.ignored = step.ignored /\ m.preempted = step.preempted
      /\ m.prompts = step.prompts /\ m.decodes = step.decodes /\ Batch(m) = Batch(step)
  BY DEF Message, Batch
<1>2. /\ step.kept = {} /\ Batch(step) \subseteq running /\ step.preempted \subseteq waiting
      /\ (waiting \cup running) \cap (step.aborted \cup step.ignored) = {}
      /\ step.aborted \cap step.ignored = {}
      /\ waiting \cup running \subseteq seqMap /\ step.aborted \cup step.ignored \subseteq seqMap
  BY DEF Sane, Building, Apart, Known
<1>3. x.map \cap newSeqs = {} /\ seqMap \ newSeqs \subseteq x.map
  BY DEF Replica, ReplicaMap
<1>4. CheckMap(x, m)
  BY <1>1, <1>2, <1>3 DEF CheckMap
<1>5. m.ignored \cup m.preempted \cup Batch(m) \subseteq (x.map \cup m.new) \ m.aborted
  BY <1>1, <1>2, <1>3
<1>6. \A s \in waiting \cup running : x.obj[s] = seq[s]
  BY DEF Replica, ReplicaObj
<1>7. \A s \in m.preempted : x.obj[s].status \in Executing
  BY <1>1, <1>2, <1>6 DEF Sane, Ready, Held, Executing
<1>8. \A s \in Batch(m) : x.obj[s].status \in {"WAITING", "PAUSED"}
  BY <1>1, <1>2, <1>6 DEF Sane, Ready, Held, Queued, Batch
<1>9. /\ Allocated(x, m) = table /\ FreshOf(x, m) = step.prompts
      /\ \A s \in Seqs : Freed(x, m)[s] <= table[s]
  BY BatchBlocks
<1>10. table \in [Seqs -> Nat] /\ Freed(x, m) \in [Seqs -> Nat]
  <2>1. table \in [Seqs -> Nat] /\ x.tab \in [Seqs -> Nat]
    BY DEF Sane, TypeOK, Replicas
  <2> QED
    BY <2>1 DEF Freed
<1>11. ASSUME NEW s \in FreshOf(x, m)
       PROVE  Free([r \in Seqs |-> IF r \in FreshOf(x, m) THEN Allocated(x, m)[r]
                                   ELSE Freed(x, m)[r]]) >= WatermarkBlocks
  <2> DEFINE t == [r \in Seqs |-> IF r \in FreshOf(x, m) THEN Allocated(x, m)[r]
                                  ELSE Freed(x, m)[r]]
  <2>1. t \in [Seqs -> Nat] /\ \A r \in Seqs : t[r] <= table[r]
    BY <1>9, <1>10
  <2> HIDE DEF t
  <2>2. Free(t) >= Free(table) /\ Free(t) \in Int /\ Free(table) \in Int
    BY <1>10, <2>1, FreeMonotone, FreeInt
  <2>3. Free(table) >= WatermarkBlocks
    BY <1>9, <1>11 DEF Sane, HoldersOK
  <2>4. Free(t) >= WatermarkBlocks
    BY <2>2, <2>3, Limits
  <2> QED
    BY <2>4 DEF t
<1>12. Free(Allocated(x, m)) >= 0
  BY <1>9 DEF Sane, HoldersOK
<1>13. CheckBatch(x, m)
  BY <1>5, <1>7, <1>8, <1>11, <1>12 DEF CheckBatch
<1> QED
  BY <1>4, <1>13 DEF Check

LEMMA BatchReplica ==
  ASSUME Sane, Replayed, NEW x \in Replicas, Replica(x), NEW stop \in SUBSET Seqs,
         DispatchBatch(stop), NEW m, m = Message(stop), NEW y, y = Apply(x, m)
  PROVE  Replica(y)'
<1>1. /\ phase = "dispatch" /\ phase' = "wait" /\ Batch(step) # {}
      /\ step' = [step EXCEPT !.stop = stop]
      /\ newSeqs' = {} /\ seqMap' = seqMap \ (step.ignored \cup step.aborted)
      /\ seq' = [s \in Seqs |-> IF s \in step.preempted THEN ResetForRecompute(seq[s])
                                ELSE IF s \in Batch(step) THEN SetStatus(seq[s], "RUNNING")
                                ELSE seq[s]]
      /\ UNCHANGED <<shape, arrived, waiting, running, table>>
  BY DEF DispatchBatch, Send
<1>2. /\ m.new = newSeqs /\ m.stop = stop
      /\ m.aborted = step.aborted /\ m.ignored = step.ignored /\ m.preempted = step.preempted
      /\ m.prompts = step.prompts /\ m.decodes = step.decodes /\ Batch(m) = Batch(step)
  BY DEF Message, Batch
<1>3. /\ Batch(step') = Batch(step) /\ step'.stop = stop
  BY <1>1 DEF Sane, TypeOK, Steps, Batch
<1>4. /\ step.kept = {} /\ Batch(step) \subseteq running /\ step.preempted \subseteq waiting
      /\ (waiting \cup running) \cap (step.aborted \cup step.ignored) = {}
      /\ waiting \cap running = {}
      /\ waiting \cup running \subseteq seqMap /\ step.aborted \cup step.ignored \subseteq seqMap
      /\ seqMap \cup newSeqs \subseteq arrived
      /\ waiting \cup running \subseteq Seqs
  BY <1>1 DEF Sane, Building, Apart, Known, TypeOK
<1>5. /\ x.map \cap newSeqs = {} /\ seqMap \ newSeqs \subseteq x.map /\ x.map \subseteq arrived
      /\ \A s \in waiting \cup running : x.obj[s] = seq[s]
      /\ \A s \in Seqs \ arrived : x.obj[s] = NewObject(shape[s].prompt)
  BY <1>1, <1>4 DEF Replica, ReplicaMap, ReplicaObj
<1>6. \A s \in Batch(step) : Executed(x, m, s) = Ends(s)'
  <2> SUFFICES ASSUME NEW s \in Batch(step) PROVE Executed(x, m, s) = Ends(s)'
    OBVIOUS
  <2>1. s \in Seqs /\ s \notin step.preempted /\ x.obj[s] = seq[s]
    BY <1>4, <1>5
  <2>2. seq'[s] = SetStatus(x.obj[s], "RUNNING")
    BY <1>1, <2>1
  <2> QED
    BY <1>1, <1>2, <1>3, <2>2 DEF Executed, Ends, Chunk
<1>7. Gone(x, m) = Ended' \cup step.ignored \cup step.aborted
  <2>1. Gone(x, m) = {s \in Batch(step) : Executed(x, m, s).status \in Finished}
                       \cup step.ignored \cup step.aborted
    BY <1>1, <1>2 DEF Gone
  <2>2. Ended' = {s \in Batch(step) : Ends(s)'.status \in Finished}
    BY <1>3 DEF Ended
  <2>3. {s \in Batch(step) : Executed(x, m, s).status \in Finished}
          = {s \in Batch(step) : Ends(s)'.status \in Finished}
    BY <1>6
  <2> QED
    BY <2>1, <2>2, <2>3
<1>8. Ended' \subseteq Batch(step)
  BY <1>3 DEF Ended
<1>9. /\ y.map = (x.map \cup newSeqs) \ Gone(x, m)
      /\ \A s \in Seqs : y.obj[s] = NextObject(x, m, s) /\ y.tab[s] = NextBlocks(x, m, s)
  BY <1>2 DEF Apply
<1>10. ReplicaMap(y)'
  BY <1>1, <1>4, <1>5, <1>7, <1>9 DEF ReplicaMap
<1>11. ReplicaObj(y)'
  <2>1. ASSUME NEW s \in Seqs \ arrived PROVE y.obj[s] = NewObject(shape[s].prompt)
    <3>1. s \notin step.preempted \cup Batch(step)
      BY <1>4
    <3> QED
      BY <1>2, <1>5, <1>9, <3>1 DEF NextObject
  <2>2. ASSUME NEW s \in (waiting \cup running) \ Ended'
        PROVE  y.obj[s] = IF s \in Batch(step) THEN Ends(s)' ELSE seq'[s]
    <3>1. s \in Seqs /\ s \notin Gone(x, m) /\ x.obj[s] = seq[s]
      BY <1>4, <1>5, <1>7
    <3>2. y.obj[s] = IF s \in step.preempted THEN ResetForRecompute(seq[s])
                     ELSE IF s \in Batch(step) THEN Executed(x, m, s) ELSE seq[s]
      BY <1>1, <1>2, <1>9, <3>1 DEF NextObject
    <3>3. CASE s \in step.preempted
      BY <1>1, <1>4, <3>1, <3>2, <3>3
    <3>4. CASE s \in Batch(step)
      BY <1>4, <1>6, <3>2, <3>4
    <3>5. CASE s \notin step.preempted \cup Batch(step)
      BY <1>1, <3>1, <3>2, <3>5
    <3> QED
      BY <3>3, <3>4, <3>5
  <2> QED
    BY <1>1, <1>3, <2>1, <2>2 DEF ReplicaObj
<1>12. ReplicaTab(y)'
  <2>1. /\ Allocated(x, m) = table
        /\ \A s \in step.aborted \cup step.ignored : table[s] = 0
    BY <1>1, BatchBlocks
  <2>2. \A s \in Seqs : y.tab[s] = IF s \in Gone(x, m) THEN 0 ELSE table[s]
    BY <1>1, <1>2, <1>9, <2>1 DEF NextBlocks
  <2>3. \A s \in Seqs : y.tab[s] = IF s \in Ended' THEN 0 ELSE table[s]
    BY <1>7, <2>1, <2>2
  <2> QED
    BY <1>1, <2>3 DEF ReplicaTab
<1> QED
  BY <1>10, <1>11, <1>12 DEF Replica

-----------------------------------------------------------------------------
(* The messages on their way.                                              *)

LEMMA InStepInit == Init => InStep
<1> SUFFICES ASSUME Init, NEW w \in Workers PROVE \E h : Follows(h, w)
  BY DEF InStep
<1> DEFINE h == [i \in 0..0 |-> Local(w)]
<1>1. inbox[w] = <<>> /\ Len(inbox[w]) = 0
  BY DEF Init
<1>2. Local(w) \in Replicas
  BY InitType DEF TypeOK, Local, Replicas
<1>3. /\ wmap[w] = {} /\ seqMap = {} /\ newSeqs = {} /\ waiting = {} /\ running = {}
      /\ step.kept = {} /\ step.prompts = {} /\ step.decodes = {} /\ phase = "idle"
      /\ \A s \in Seqs : /\ wseq[w][s] = NewObject(shape[s].prompt)
                        /\ wtable[w][s] = 0 /\ table[s] = 0
  BY DEF Init, NoStep
<1>4. Replica(Local(w))
  BY <1>3 DEF Replica, ReplicaMap, ReplicaObj, ReplicaTab, Local
<1>5. h \in [0..0 -> Replicas] /\ h[0] = Local(w)
  BY <1>2
<1> HIDE DEF h
<1>6. Follows(h, w)
  BY <1>1, <1>4, <1>5 DEF Follows
<1> QED
  BY <1>6

(* Steps of the engine that send nothing.                                  *)
LEMMA InStepKept ==
  ASSUME InStep, UNCHANGED <<shape, inbox, workerVars>>,
         \A x \in Replicas : Replica(x) => Replica(x)'
  PROVE  InStep'
<1> SUFFICES ASSUME NEW w \in Workers PROVE (\E h : Follows(h, w))'
  BY DEF InStep
<1>1. PICK h : Follows(h, w)
  BY DEF InStep
<1>2. UNCHANGED <<shape, inbox, wmap, wseq, wtable>>
  BY DEF workerVars
<1>3. h \in [0..Len(inbox'[w]) -> Replicas] /\ h[0] = Local(w)'
  BY <1>1, <1>2 DEF Follows, Local
<1>5. ASSUME NEW i \in 1..Len(inbox'[w])
      PROVE  Check(h[i - 1], inbox'[w][i]) /\ h[i] = Apply(h[i - 1], inbox[w][i])'
  <2>1. inbox' = inbox /\ i \in 1..Len(inbox[w])
    BY <1>2
  <2>2. Check(h[i - 1], inbox[w][i]) /\ h[i] = Apply(h[i - 1], inbox[w][i])
    BY <1>1, <2>1 DEF Follows
  <2>3. Apply(h[i - 1], inbox[w][i])' = Apply(h[i - 1], inbox[w][i])
    BY <1>2 DEF Apply, Gone, NextObject, NextBlocks, Executed
  <2> QED
    BY <2>1, <2>2, <2>3
<1>6. h[Len(inbox'[w])] \in Replicas /\ Len(inbox'[w]) = Len(inbox[w])
  BY <1>1, <1>2 DEF Follows
<1>7. Replica(h[Len(inbox[w])])'
  BY <1>1, <1>2, <1>6 DEF Follows
<1>8. Follows(h, w)'
  BY <1>3, <1>5, <1>7 DEF Follows
<1> QED
  BY <1>8

(* A message sent to every worker.                                         *)
LEMMA InStepSend ==
  ASSUME InStep, TypeOK, UNCHANGED <<shape, workerVars>>, NEW m \in Messages,
         inbox' = [w \in Workers |-> Append(inbox[w], m)],
         \A x \in Replicas : Replica(x) => Check(x, m),
         \A x \in Replicas, y \in Replicas : Replica(x) /\ y = Apply(x, m) => Replica(y)'
  PROVE  InStep'
<1> SUFFICES ASSUME NEW w \in Workers PROVE (\E h : Follows(h, w))'
  BY DEF InStep
<1>1. PICK h : Follows(h, w)
  BY DEF InStep
<1>2. PICK q : q = inbox[w]
  OBVIOUS
<1>3. PICK n : n = Len(q)
  OBVIOUS
<1>4. PICK y : y = Apply(h[n], m)
  OBVIOUS
<1>5. PICK g : g = [i \in 0..(n + 1) |-> IF i = n + 1 THEN y ELSE h[i]]
  OBVIOUS
<1>6. /\ q \in Seq(Messages) /\ n \in Nat /\ inbox'[w] = Append(q, m)
      /\ UNCHANGED <<wmap, wseq, wtable, shape>>
  BY <1>2, <1>3 DEF TypeOK, workerVars
<1>7. /\ Len(Append(q, m)) = n + 1
      /\ \A i \in 1..n : Append(q, m)[i] = q[i]
      /\ Append(q, m)[n + 1] = m
  BY <1>3, <1>6
<1>8. /\ h \in [0..n -> Replicas] /\ h[0] = Local(w) /\ Replica(h[n])
      /\ \A i \in 1..n : Check(h[i - 1], q[i]) /\ h[i] = Apply(h[i - 1], q[i])
  BY <1>1, <1>2, <1>3 DEF Follows
<1>9. h[n] \in Replicas /\ y \in Replicas
  BY <1>4, <1>6, <1>8, ApplyType
<1>10. Check(h[n], m) /\ Replica(y)'
  BY <1>4, <1>8, <1>9
<1>11. \A a, b : Apply(a, b)' = Apply(a, b)
  BY <1>6 DEF Apply, Gone, NextObject, NextBlocks, Executed
<1>12. /\ g \in [0..(n + 1) -> Replicas] /\ g[0] = h[0] /\ g[n + 1] = y
       /\ \A i \in 0..n : g[i] = h[i]
  BY <1>5, <1>6, <1>8, <1>9
<1>13. Local(w)' = Local(w)
  BY <1>6 DEF Local
<1>14. ASSUME NEW i \in 1..(n + 1)
       PROVE  /\ Check(g[i - 1], Append(q, m)[i])
              /\ g[i] = Apply(g[i - 1], Append(q, m)[i])
  <2>0. n \in Nat
    BY <1>6
  <2>1. CASE i = n + 1
    <3>1. g[i - 1] = h[n] /\ g[i] = y /\ Append(q, m)[i] = m
      BY <1>6, <1>7, <1>12, <2>1
    <3> QED
      BY <1>4, <1>10, <3>1
  <2>2. CASE i \in 1..n
    <3>1. i - 1 \in 0..n /\ i \in 0..n
      BY <2>0, <2>2
    <3>2. g[i - 1] = h[i - 1] /\ g[i] = h[i] /\ Append(q, m)[i] = q[i]
      BY <1>7, <1>12, <2>2, <3>1
    <3> QED
      BY <1>8, <2>2, <3>2
  <2>3. i = n + 1 \/ i \in 1..n
    BY <2>0
  <2> QED
    BY <2>1, <2>2, <2>3
<1>15. Len(inbox[w])' = n + 1 /\ inbox[w]' = Append(q, m)
  BY <1>6, <1>7
<1>16. Follows(g, w)'
  <2>1. (g \in [0..Len(inbox[w]) -> Replicas])' /\ (g[0] = Local(w))'
    BY <1>8, <1>12, <1>13, <1>15
  <2>2. (\A i \in 1..Len(inbox[w]) : /\ Check(g[i - 1], inbox[w][i])
                                     /\ g[i] = Apply(g[i - 1], inbox[w][i]))'
    BY <1>11, <1>14, <1>15
  <2>3. Replica(g[Len(inbox[w])])'
    <3>1. (g[Len(inbox[w])])' = y
      BY <1>12, <1>15
    <3> QED
      BY <1>10, <3>1
  <2> QED
    BY <2>1, <2>2, <2>3 DEF Follows
<1> QED
  BY <1>16

(* A worker's step is Apply on what it holds.                              *)
LEMMA WorkerApplies ==
  ASSUME TypeOK, NEW w \in Workers, WorkerSkip(w) \/ WorkerExecute(w)
  PROVE  /\ inbox[w] # <<>> /\ UNCHANGED engineVars
         /\ inbox' = [inbox EXCEPT ![w] = Tail(@)]
         /\ Local(w)' = Apply(Local(w), Head(inbox[w]))
         /\ \A v \in Workers \ {w} : Local(v)' = Local(v)
<1> DEFINE x == Local(w)
           m == Head(inbox[w])
<1>1. /\ wmap \in [Workers -> SUBSET Seqs] /\ wseq \in [Workers -> [Seqs -> SequenceObjects]]
      /\ wtable \in [Workers -> [Seqs -> Nat]]
  BY DEF TypeOK
<1>2. x.map = wmap[w] /\ x.obj = wseq[w] /\ x.tab = wtable[w]
  BY DEF Local
<1>3. CASE WorkerSkip(w)
  <2>1. /\ inbox[w] # <<>> /\ Batch(m) = {} /\ UNCHANGED engineVars
        /\ wmap' = [wmap EXCEPT ![w] = (wmap[w] \cup m.new) \ m.aborted]
        /\ wseq' = [wseq EXCEPT ![w] = [s \in Seqs |->
                      IF s \in m.aborted THEN NewObject(shape[s].prompt) ELSE wseq[w][s]]]
        /\ wtable' = [wtable EXCEPT ![w] = [s \in Seqs |->
                        IF s \in m.aborted THEN 0 ELSE wtable[w][s]]]
        /\ inbox' = [inbox EXCEPT ![w] = Tail(@)]
    BY <1>3 DEF WorkerSkip, WorkerIntake
  <2> HIDE DEF x, m
  <2>2. Gone(x, m) = m.aborted
    BY <2>1 DEF Gone
  <2>3. /\ wmap'[w] = (x.map \cup m.new) \ Gone(x, m)
        /\ wseq'[w] = [s \in Seqs |-> NextObject(x, m, s)]
        /\ wtable'[w] = [s \in Seqs |-> NextBlocks(x, m, s)]
    <3>1. wmap'[w] = (x.map \cup m.new) \ Gone(x, m)
      BY <1>1, <1>2, <2>1, <2>2
    <3>2. wseq'[w] = [s \in Seqs |-> NextObject(x, m, s)]
      BY <1>1, <1>2, <2>1, <2>2 DEF NextObject
    <3>3. wtable'[w] = [s \in Seqs |-> NextBlocks(x, m, s)]
      BY <1>1, <1>2, <2>1, <2>2 DEF NextBlocks
    <3> QED
      BY <3>1, <3>2, <3>3
  <2>4. Local(w)' = Apply(x, m)
    BY <2>3 DEF Local, Apply
  <2>5. \A v \in Workers \ {w} : Local(v)' = Local(v)
    BY <1>1, <2>1 DEF Local
  <2> QED
    BY <2>1, <2>4, <2>5 DEF x, m
<1>4. CASE WorkerExecute(w)
  <2> DEFINE after(s) == CompleteStep(SetStatus(wseq[w][s], "RUNNING"),
                                      Chunk(SetStatus(wseq[w][s], "RUNNING")),
                                      shape[s].maxTokens, FALSE, s \in m.stop)
             gone == {s \in Batch(m) : after(s).status \in Finished} \cup m.ignored \cup m.aborted
             u == WorkerAllocated(w, m)
  <2>1. /\ inbox[w] # <<>> /\ Batch(m) # {} /\ UNCHANGED engineVars
        /\ wmap' = [wmap EXCEPT ![w] = ((wmap[w] \cup m.new) \ m.aborted) \ gone]
        /\ wseq' = [wseq EXCEPT ![w] = [s \in Seqs |->
                      IF s \in gone THEN NewObject(shape[s].prompt)
                      ELSE IF s \in m.preempted THEN ResetForRecompute(wseq[w][s])
                      ELSE IF s \in Batch(m) THEN after(s)
                      ELSE wseq[w][s]]]
        /\ wtable' = [wtable EXCEPT ![w] = [s \in Seqs |-> IF s \in gone THEN 0 ELSE u[s]]]
        /\ inbox' = [inbox EXCEPT ![w] = Tail(@)]
    BY <1>4 DEF WorkerExecute, WorkerIntake
  <2>2. \A s : after(s) = Executed(x, m, s)
    BY <1>2 DEF Executed
  <2>3. gone = Gone(x, m)
    <3>1. Gone(x, m) = {s \in Batch(m) : Executed(x, m, s).status \in Finished}
                         \cup m.ignored \cup m.aborted
      BY <2>1 DEF Gone
    <3> HIDE DEF x, m, after
    <3> QED
      BY <2>2, <3>1
  <2>4. u = Allocated(x, m)
    <3>1. WorkerFreed(w, m) = Freed(x, m)
      BY <1>2 DEF WorkerFreed, Freed
    <3> HIDE DEF x, m
    <3> QED
      BY <1>2, <3>1 DEF WorkerAllocated, Allocated
  <2>5. m.aborted \subseteq gone
    OBVIOUS
  <2> HIDE DEF x, m, after, gone, u
  <2>6. wmap'[w] = (x.map \cup m.new) \ Gone(x, m)
    BY <1>1, <1>2, <2>1, <2>3, <2>5
  <2>7. wseq'[w] = [s \in Seqs |-> NextObject(x, m, s)]
    <3>1. wseq'[w] = [s \in Seqs |->
                        IF s \in gone THEN NewObject(shape[s].prompt)
                        ELSE IF s \in m.preempted THEN ResetForRecompute(wseq[w][s])
                        ELSE IF s \in Batch(m) THEN after(s)
                        ELSE wseq[w][s]]
      BY <1>1, <2>1
    <3>2. \A s \in Seqs : NextObject(x, m, s) =
                        IF s \in gone THEN NewObject(shape[s].prompt)
                        ELSE IF s \in m.preempted THEN ResetForRecompute(wseq[w][s])
                        ELSE IF s \in Batch(m) THEN after(s)
                        ELSE wseq[w][s]
      BY <1>2, <2>1, <2>2, <2>3 DEF NextObject
    <3> QED
      BY <3>1, <3>2
  <2>8. wtable'[w] = [s \in Seqs |-> NextBlocks(x, m, s)]
    <3>1. wtable'[w] = [s \in Seqs |-> IF s \in gone THEN 0 ELSE u[s]]
      BY <1>1, <2>1
    <3>2. \A s \in Seqs : NextBlocks(x, m, s) = IF s \in gone THEN 0 ELSE u[s]
      BY <2>1, <2>3, <2>4 DEF NextBlocks
    <3> QED
      BY <3>1, <3>2
  <2>9. Local(w)' = Apply(x, m)
    BY <2>6, <2>7, <2>8 DEF Local, Apply
  <2>10. \A v \in Workers \ {w} : Local(v)' = Local(v)
    BY <1>1, <2>1 DEF Local
  <2> QED
    BY <2>1, <2>9, <2>10 DEF x, m
<1> QED
  BY <1>3, <1>4

LEMMA InStepWorker ==
  ASSUME InStep, TypeOK, NEW w \in Workers, WorkerSkip(w) \/ WorkerExecute(w)
  PROVE  InStep'
<1>1. /\ inbox[w] # <<>> /\ UNCHANGED engineVars
      /\ inbox' = [inbox EXCEPT ![w] = Tail(@)]
      /\ Local(w)' = Apply(Local(w), Head(inbox[w]))
      /\ \A v \in Workers \ {w} : Local(v)' = Local(v)
  BY WorkerApplies
<1>2. \A a, b : Apply(a, b)' = Apply(a, b)
  BY <1>1 DEF engineVars, Apply, Gone, NextObject, NextBlocks, Executed
<1>3. SUFFICES ASSUME NEW v \in Workers PROVE (\E h : Follows(h, v))'
  BY DEF InStep
<1>4. PICK h : Follows(h, v)
  BY DEF InStep
<1>5. PICK q : q = inbox[v]
  OBVIOUS
<1>6. PICK n : n = Len(q)
  OBVIOUS
<1>7. /\ h \in [0..n -> Replicas] /\ h[0] = Local(v) /\ Replica(h[n])
      /\ \A i \in 1..n : Check(h[i - 1], q[i]) /\ h[i] = Apply(h[i - 1], q[i])
  BY <1>4, <1>5, <1>6 DEF Follows
<1>8. q \in Seq(Messages) /\ n \in Nat /\ inbox \in [Workers -> Seq(Messages)]
  BY <1>5, <1>6 DEF TypeOK
<1>9. Replica(h[n])'
  BY <1>1, <1>7, EngineStaysReplica
<1>10. CASE v # w
  <2>1. inbox'[v] = q /\ Local(v)' = Local(v)
    BY <1>1, <1>5, <1>8, <1>10
  <2>2. (h \in [0..Len(inbox[v]) -> Replicas])' /\ (h[0] = Local(v))'
    BY <1>6, <1>7, <2>1
  <2>3. (\A i \in 1..Len(inbox[v]) : /\ Check(h[i - 1], inbox[v][i])
                                     /\ h[i] = Apply(h[i - 1], inbox[v][i]))'
    BY <1>2, <1>6, <1>7, <2>1
  <2>4. Replica(h[Len(inbox[v])])'
    <3>1. (h[Len(inbox[v])])' = h[n]
      BY <1>6, <2>1
    <3> QED
      BY <1>9, <3>1
  <2>5. Follows(h, v)'
    BY <2>2, <2>3, <2>4 DEF Follows
  <2> QED
    BY <2>5
<1>11. CASE v = w
  <2>1. PICK g : g = [i \in 0..(n - 1) |-> h[i + 1]]
    OBVIOUS
  <2>2. /\ q # <<>> /\ n > 0 /\ n - 1 \in Nat /\ inbox'[v] = Tail(q) /\ Len(Tail(q)) = n - 1
        /\ Head(q) = q[1] /\ \A i \in 1..(n - 1) : Tail(q)[i] = q[i + 1]
    BY <1>1, <1>5, <1>6, <1>8, <1>11
  <2>3. \A i \in 0..(n - 1) : i + 1 \in 0..n /\ i + 1 \in 1..n
    BY <1>8
  <2>4. /\ g \in [0..(n - 1) -> Replicas]
        /\ \A i \in 0..(n - 1) : g[i] = h[i + 1]
    BY <1>7, <2>1, <2>3
  <2>5. g[0] = Local(v)' /\ g[n - 1] = h[n]
    <3>1. 0 \in 0..(n - 1) /\ n - 1 \in 0..(n - 1) /\ (n - 1) + 1 = n /\ 1 - 1 = 0 /\ 1 \in 1..n
          /\ 0 + 1 = 1
      BY <1>8, <2>2
    <3>2. g[0] = h[1] /\ g[n - 1] = h[n]
      BY <2>4, <3>1
    <3>3. h[1] = Apply(h[0], q[1])
      BY <1>7, <3>1
    <3>4. Local(v)' = Apply(h[0], q[1])
      BY <1>1, <1>5, <1>7, <1>11, <2>2
    <3> QED
      BY <3>2, <3>3, <3>4
  <2>6. ASSUME NEW i \in 1..(n - 1)
        PROVE  Check(g[i - 1], Tail(q)[i]) /\ g[i] = Apply(g[i - 1], Tail(q)[i])
    <3>1. /\ i - 1 \in 0..(n - 1) /\ i \in 0..(n - 1) /\ i + 1 \in 1..n
          /\ (i - 1) + 1 = i /\ (i + 1) - 1 = i
      BY <1>8
    <3>2. g[i - 1] = h[i] /\ g[i] = h[i + 1] /\ Tail(q)[i] = q[i + 1]
      BY <2>2, <2>4, <3>1
    <3>3. Check(h[(i + 1) - 1], q[i + 1]) /\ h[i + 1] = Apply(h[(i + 1) - 1], q[i + 1])
      BY <1>7, <3>1
    <3> QED
      BY <3>1, <3>2, <3>3
  <2>7. Len(inbox[v])' = n - 1 /\ inbox[v]' = Tail(q)
    BY <2>2
  <2>8. (g \in [0..Len(inbox[v]) -> Replicas])' /\ (g[0] = Local(v))'
    BY <2>4, <2>5, <2>7
  <2>9. (\A i \in 1..Len(inbox[v]) : /\ Check(g[i - 1], inbox[v][i])
                                     /\ g[i] = Apply(g[i - 1], inbox[v][i]))'
    BY <1>2, <2>6, <2>7
  <2>10. Replica(g[Len(inbox[v])])'
    <3>1. (g[Len(inbox[v])])' = h[n]
      BY <2>5, <2>7
    <3> QED
      BY <1>9, <3>1
  <2>11. Follows(g, v)'
    BY <2>8, <2>9, <2>10 DEF Follows
  <2> QED
    BY <2>11
<1> QED
  BY <1>10, <1>11

(* The shared actions keep every worker in step.                           *)
LEMMA InStepShared ==
  ASSUME Sane, Replayed, InStep, ~StopStrings,
         \/ \E s \in Seqs : AddRequest(s)
         \/ \E late \in SUBSET waiting, next \in {"decode", "prefill"} : BeginStep(late, next)
         \/ ScheduleDecode \/ PreemptNewest
         \/ \E next \in {"select", "dispatch"} : EndDecode(next)
         \/ DispatchNothing \/ DispatchAborts
         \/ \E stop \in SUBSET Seqs : DispatchBatch(stop)
         \/ \E text \in SUBSET Seqs : Complete(text)
         \/ WorkerNext
         \/ UNCHANGED vars
  PROVE  InStep'
<1>0. TypeOK
  BY DEF Sane
<1>1. ASSUME NEW s \in Seqs, AddRequest(s) PROVE InStep'
  <2>1. UNCHANGED <<shape, inbox, workerVars>>
    BY <1>1 DEF AddRequest, channelVars
  <2>2. \A x \in Replicas : Replica(x) => Replica(x)'
    BY <1>1, AddReplica
  <2> QED
    BY <2>1, <2>2, InStepKept
<1>2. ASSUME NEW late \in SUBSET waiting, NEW next \in {"decode", "prefill"},
             BeginStep(late, next)
      PROVE  InStep'
  <2>1. UNCHANGED <<shape, inbox, workerVars>>
    BY <1>2 DEF BeginStep, channelVars
  <2>2. \A x \in Replicas : Replica(x) => Replica(x)'
    BY <1>2, BeginReplica
  <2> QED
    BY <2>1, <2>2, InStepKept
<1>3. CASE ScheduleDecode
  <2>1. UNCHANGED <<shape, inbox, workerVars>>
    BY <1>3 DEF ScheduleDecode, channelVars
  <2>2. \A x \in Replicas : Replica(x) => Replica(x)'
    BY <1>3, DecodeReplica
  <2> QED
    BY <2>1, <2>2, InStepKept
<1>4. CASE PreemptNewest
  <2>1. UNCHANGED <<shape, inbox, workerVars>>
    BY <1>4 DEF PreemptNewest, channelVars
  <2>2. \A x \in Replicas : Replica(x) => Replica(x)'
    BY <1>4, PreemptReplica
  <2> QED
    BY <2>1, <2>2, InStepKept
<1>5. ASSUME NEW next \in {"select", "dispatch"}, EndDecode(next) PROVE InStep'
  <2>1. UNCHANGED <<shape, inbox, workerVars>>
    BY <1>5 DEF EndDecode, channelVars
  <2>2. \A x \in Replicas : Replica(x) => Replica(x)'
    BY <1>5, EndDecodeReplica
  <2> QED
    BY <2>1, <2>2, InStepKept
<1>6. CASE DispatchNothing
  <2>1. UNCHANGED <<shape, inbox, workerVars>>
    BY <1>6 DEF DispatchNothing, channelVars
  <2>2. \A x \in Replicas : Replica(x) => Replica(x)'
    BY <1>6, NothingReplica
  <2> QED
    BY <2>1, <2>2, InStepKept
<1>a. ASSUME NEW stop \in SUBSET Seqs PROVE Message(stop) \in Messages
  BY <1>0 DEF Message, Messages, TypeOK, Steps
<1>7. CASE DispatchAborts
  <2>1. PICK m : m = Message({})
    OBVIOUS
  <2>2. /\ inbox' = [w \in Workers |-> Append(inbox[w], m)]
        /\ UNCHANGED <<shape, workerVars>>
    BY <1>7, <2>1 DEF DispatchAborts, Send
  <2>3. m \in Messages
    BY <1>a, <2>1
  <2>4. \A x \in Replicas : Replica(x) => Check(x, m)
    BY <1>7, <2>1, AbortsReplica
  <2>5. ASSUME NEW x \in Replicas, NEW y \in Replicas, Replica(x), y = Apply(x, m)
        PROVE  Replica(y)'
    BY <1>7, <2>1, <2>5, AbortsReplica
  <2> QED
    BY <1>0, <2>2, <2>3, <2>4, <2>5, InStepSend
<1>8. ASSUME NEW stop \in SUBSET Seqs, DispatchBatch(stop) PROVE InStep'
  <2>1. PICK m : m = Message(stop)
    OBVIOUS
  <2>2. /\ inbox' = [w \in Workers |-> Append(inbox[w], m)] /\ phase = "dispatch"
        /\ UNCHANGED <<shape, workerVars>>
    BY <1>8, <2>1 DEF DispatchBatch, Send
  <2>3. m \in Messages
    BY <1>a, <2>1
  <2>4. \A x \in Replicas : Replica(x) => Check(x, m)
    BY <2>1, <2>2, BatchCheck
  <2>5. ASSUME NEW x \in Replicas, NEW y \in Replicas, Replica(x), y = Apply(x, m)
        PROVE  Replica(y)'
    BY <1>8, <2>1, <2>5, BatchReplica
  <2> QED
    BY <1>0, <2>2, <2>3, <2>4, <2>5, InStepSend
<1>9. ASSUME NEW text \in SUBSET Seqs, Complete(text) PROVE InStep'
  <2>1. UNCHANGED <<shape, inbox, workerVars>>
    BY <1>9 DEF Complete
  <2>2. \A x \in Replicas : Replica(x) => Replica(x)'
    BY <1>9, CompleteReplica
  <2> QED
    BY <2>1, <2>2, InStepKept
<1>10. CASE WorkerNext
  BY <1>0, <1>10, InStepWorker DEF WorkerNext
<1>11. CASE UNCHANGED vars
  <2>1. UNCHANGED <<shape, inbox, workerVars>> /\ UNCHANGED engineVars
    BY <1>11 DEF vars, engineVars, channelVars
  <2>2. \A x \in Replicas : Replica(x) => Replica(x)'
    BY <2>1, EngineStaysReplica
  <2> QED
    BY <2>1, <2>2, InStepKept
<1> QED
  BY <1>1, <1>2, <1>3, <1>4, <1>5, <1>6, <1>7, <1>8, <1>9, <1>10, <1>11

-----------------------------------------------------------------------------
(* What the invariant says of the workers and of the blocks.               *)

LEMMA InStepAssertions == TypeOK /\ InStep => WorkerAssertions
<1> SUFFICES ASSUME TypeOK, InStep, NEW w \in Workers, inbox[w] # <<>>
             PROVE  /\ WorkerMapOK(w, Head(inbox[w]))
                    /\ Batch(Head(inbox[w])) # {} => WorkerBatchOK(w, Head(inbox[w]))
  BY DEF WorkerAssertions
<1> DEFINE x == Local(w)
           m == Head(inbox[w])
<1>1. PICK h : Follows(h, w)
  BY DEF InStep
<1>2. m = inbox[w][1] /\ 1 \in 1..Len(inbox[w]) /\ 1 - 1 = 0
  BY DEF TypeOK
<1>3. Check(x, m)
  BY <1>1, <1>2 DEF Follows
<1>4. x.map = wmap[w] /\ x.obj = wseq[w] /\ x.tab = wtable[w]
  BY DEF Local
<1> HIDE DEF x, m
<1>5. WorkerMapOK(w, m)
  BY <1>3, <1>4 DEF Check, CheckMap, WorkerMapOK
<1>6. WorkerFreed(w, m) = Freed(x, m)
  BY <1>4 DEF WorkerFreed, Freed
<1>7. WorkerAllocated(w, m) = Allocated(x, m)
  BY <1>4, <1>6 DEF WorkerAllocated, Allocated
<1>8. ASSUME Batch(m) # {} PROVE WorkerBatchOK(w, m)
  <2> DEFINE fresh == {s \in Batch(m) : WorkerFreed(w, m)[s] = 0}
  <2>1. CheckBatch(x, m)
    BY <1>3, <1>8 DEF Check
  <2>2. fresh = FreshOf(x, m)
    BY <1>6 DEF FreshOf
  <2> HIDE DEF fresh
  <2>3. /\ m.ignored \cup m.preempted \cup Batch(m) \subseteq WorkerIntake(w, m)
        /\ \A s \in m.preempted : wseq[w][s].status \in Executing
        /\ \A s \in Batch(m) : wseq[w][s].status \in {"WAITING", "PAUSED"}
    BY <1>4, <2>1 DEF CheckBatch, WorkerIntake
  <2>4. /\ \A s \in fresh :
             Free([r \in Seqs |-> IF r \in fresh THEN WorkerAllocated(w, m)[r]
                                  ELSE WorkerFreed(w, m)[r]]) >= WatermarkBlocks
        /\ Free(WorkerAllocated(w, m)) >= 0
    BY <1>6, <1>7, <2>1, <2>2 DEF CheckBatch
  <2> QED
    BY <2>3, <2>4 DEF WorkerBatchOK, fresh
<1> QED
  BY <1>5, <1>8 DEF m

LEMMA InStepSync == Sane /\ InStep => WorkersInSync
<1> SUFFICES ASSUME Sane, InStep, NEW w \in Workers, phase = "idle", inbox[w] = <<>>
             PROVE  /\ wtable[w] = table
                    /\ \A s \in (waiting \cup running) \ newSeqs :
                         s \in wmap[w] /\ wseq[w][s] = seq[s]
  BY DEF WorkersInSync
<1>1. PICK h : Follows(h, w)
  BY DEF InStep
<1>2. Len(inbox[w]) = 0
  OBVIOUS
<1>3. Replica(Local(w))
  BY <1>1, <1>2 DEF Follows
<1>4. step.prompts = {} /\ step.decodes = {} /\ step.preempted = {} /\ Batch(step) = {}
  BY DEF Sane, Building, NoStep, Batch
<1>5. \A s \in Seqs : wtable[w][s] = table[s]
  BY <1>3, <1>4 DEF Replica, ReplicaTab, Local
<1>6. wtable[w] \in [Seqs -> Nat] /\ table \in [Seqs -> Nat]
  BY DEF Sane, TypeOK
<1>7. \A s \in (waiting \cup running) \ newSeqs : s \in wmap[w] /\ wseq[w][s] = seq[s]
  BY <1>3 DEF Sane, Known, Replica, ReplicaMap, ReplicaObj, Local
<1> QED
  BY <1>5, <1>6, <1>7

LEMMA SaneBlocks == Sane => BlocksMatchWork
  BY DEF Sane, HoldersOK, BlocksMatchWork
=============================================================================
