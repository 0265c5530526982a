--------------------------- MODULE SarathiProofs ----------------------------
(***************************************************************************)
(* Proofs about SarathiEngine, for any requests, chunk size, limits and    *)
(* cache size: every request that has not ended is in one list of the      *)
(* scheduler with blocks for its tokens, and the instance implements       *)
(* RequestStream; neither depends on how long a chunk is.  Then that no    *)
(* batch exceeds the chunk size and none starves a prompt, and that the    *)
(* worker can replay every step.                                           *)
(***************************************************************************)
EXTENDS SarathiEngine, CommonLemmas

-----------------------------------------------------------------------------
(* The waiting list is a queue without duplicates.                         *)

LEMMA QueueAppend ==
  ASSUME NEW T, NEW q \in Seq(T), NEW e \in T, IsInjective(q), e \notin ToSet(q)
  PROVE  /\ Append(q, e) \in Seq(T)
         /\ IsInjective(Append(q, e))
         /\ ToSet(Append(q, e)) = ToSet(q) \cup {e}
<1> DEFINE n == Len(q)
           a == Append(q, e)
<1>1. /\ n \in Nat /\ DOMAIN q = 1..n
      /\ a \in Seq(T) /\ DOMAIN a = 1..(n + 1)
      /\ (\A i \in 1..n : a[i] = q[i]) /\ a[n + 1] = e
  OBVIOUS
<1>2. 1..(n + 1) = 1..n \cup {n + 1}
  BY <1>1
<1>3. ToSet(q) = {q[i] : i \in 1..n} /\ ToSet(a) = {a[i] : i \in 1..(n + 1)}
  BY <1>1 DEF ToSet
<1> HIDE DEF a, n
<1>4. ToSet(a) = ToSet(q) \cup {e}
  BY <1>1, <1>2, <1>3
<1>5. \A i \in 1..n : q[i] # e
  BY <1>3
<1>6. IsInjective(a)
  BY <1>1, <1>2, <1>5 DEF IsInjective
<1> QED
  BY <1>1, <1>4, <1>6 DEF a

LEMMA QueueTail ==
  ASSUME NEW T, NEW q \in Seq(T), q # <<>>, IsInjective(q)
  PROVE  /\ Tail(q) \in Seq(T)
         /\ Head(q) \in ToSet(q)
         /\ IsInjective(Tail(q))
         /\ ToSet(Tail(q)) = ToSet(q) \ {Head(q)}
<1> DEFINE n == Len(q)
           a == Tail(q)
<1>1. /\ n \in Nat \ {0} /\ DOMAIN q = 1..n
      /\ a \in Seq(T) /\ DOMAIN a = 1..(n - 1)
      /\ (\A i \in 1..(n - 1) : a[i] = q[i + 1]) /\ Head(q) = q[1]
  OBVIOUS
<1>2. ToSet(q) = {q[i] : i \in 1..n} /\ ToSet(a) = {a[i] : i \in 1..(n - 1)}
  BY <1>1 DEF ToSet
<1> HIDE DEF a, n
<1>3. Head(q) \in ToSet(q)
  BY <1>1, <1>2
<1>4. IsInjective(a)
  <2> SUFFICES ASSUME NEW i \in 1..(n - 1), NEW j \in 1..(n - 1), a[i] = a[j] PROVE i = j
    BY <1>1 DEF IsInjective
  <2>1. /\ i + 1 \in 1..n /\ j + 1 \in 1..n
        /\ q[i + 1] = q[j + 1]
    BY <1>1
  <2>2. i + 1 = j + 1
    BY <1>1, <2>1 DEF IsInjective
  <2> QED
    BY <1>1, <2>2
<1>5. ToSet(a) \subseteq ToSet(q) \ {Head(q)}
  <2> SUFFICES ASSUME NEW i \in 1..(n - 1) PROVE a[i] \in ToSet(q) /\ a[i] # Head(q)
    BY <1>2
  <2>1. a[i] = q[i + 1] /\ i + 1 \in 1..n /\ i + 1 # 1 /\ 1 \in 1..n
    BY <1>1
  <2>2. q[i + 1] # q[1]
    BY <1>1, <2>1 DEF IsInjective
  <2> QED
    BY <1>1, <1>2, <2>1, <2>2
<1>6. ToSet(q) \ {Head(q)} \subseteq ToSet(a)
  <2> SUFFICES ASSUME NEW i \in 1..n, q[i] # Head(q) PROVE q[i] \in ToSet(a)
    BY <1>2
  <2>1. i # 1 /\ i - 1 \in 1..(n - 1)
    BY <1>1
  <2>2. a[i - 1] = q[i]
    BY <1>1, <2>1
  <2> QED
    BY <1>2, <2>1, <2>2
<1> QED
  BY <1>1, <1>3, <1>4, <1>5, <1>6 DEF a

-----------------------------------------------------------------------------
(* The invariant.                                                          *)

StateTyped ==
  /\ shape \in [Seqs -> Shapes]
  /\ arrived \subseteq Seqs /\ ended \subseteq arrived
  /\ seq \in [Seqs -> SequenceObjects] /\ wseq \in [Seqs -> SequenceObjects]
  /\ waiting \in Seq(Seqs) /\ running \subseteq Seqs
  /\ table \in [Seqs -> Nat]
  /\ phase \in {"idle", "decode", "prefill", "admit", "execute"}

(* Nothing is said of the value of a chunk: it may be any.                 *)
StepTyped ==
  /\ step = [kept |-> step.kept, prefills |-> step.prefills, decodes |-> step.decodes,
             preempted |-> step.preempted, chunk |-> step.chunk]
  /\ step.chunk = [s \in Seqs |-> step.chunk[s]]
  /\ step.kept \subseteq Seqs /\ step.prefills \subseteq Seqs
  /\ step.decodes \subseteq Seqs /\ step.preempted \subseteq Seqs

PhaseOK ==
  /\ phase = "idle" => step = NoStep
  /\ phase \in {"prefill", "admit"} => running = {}
  /\ phase # "decode" /\ phase # "prefill" => step.prefills = {}
  /\ phase = "execute" => running = step.kept

(* What the schedule under construction promises: a sequence it runs has   *)
(* blocks for all of its tokens, and one that it preempted and yet keeps   *)
(* was admitted again.                                                     *)
Promised ==
  /\ Scheduled \subseteq step.kept
  /\ step.preempted \cap Held \subseteq Scheduled
  /\ \A s \in Scheduled : table[s] = LogicalBlocks(seq[s])
  /\ \A s \in Held : ~PromptProcessed(seq[s]) => table[s] = LogicalBlocks(seq[s])
  /\ \A s \in step.prefills : ~PromptProcessed(seq[s])

SarathiInv ==
  StateTyped /\ StepTyped /\ PhaseOK /\ InOneList /\ BlocksCover /\ Promised

LEMMA SeqsSubset ==
  ASSUME NEW S \in SUBSET Seqs
  PROVE  S \subseteq Nat /\ IsFiniteSet(S)
  BY SarathiAssumption, FS_Subset

LEMMA BlocksType ==
  ASSUME StateTyped
  PROVE  \A s \in Seqs : GetLen(seq[s]) \in Nat /\ LogicalBlocks(seq[s]) \in Nat
<1>1. \A s \in Seqs : GetLen(seq[s]) \in Nat
  BY DEF StateTyped, SequenceObjects, GetLen
<1> QED
  BY <1>1, CeilDivType, BlockSizeAssumption DEF LogicalBlocks

LEMMA SarathiInit == Init => SarathiInv
<1> SUFFICES ASSUME Init PROVE SarathiInv
  OBVIOUS
<1>1. /\ step = NoStep /\ waiting = <<>> /\ running = {} /\ arrived = {} /\ ended = {}
      /\ phase = "idle" /\ table = [s \in Seqs |-> 0] /\ shape \in [Seqs -> Shapes]
      /\ seq = [s \in Seqs |-> NewObject(shape[s].prompt)] /\ wseq = seq
  BY DEF Init
<1>2. \A s \in Seqs : NewObject(shape[s].prompt) \in SequenceObjects
  BY <1>1, SarathiAssumption, NewObjectType
<1>3. StateTyped
  BY <1>1, <1>2 DEF StateTyped
<1>4. StepTyped /\ Held = {} /\ Scheduled = {}
  BY <1>1 DEF StepTyped, NoStep, Held, Scheduled
<1>5. PhaseOK
  BY <1>1 DEF PhaseOK, NoStep
<1>6. InOneList
  BY <1>1, <1>4 DEF InOneList, IsInjective, ToSet, NoStep
<1> QED
  BY <1>1, <1>3, <1>4, <1>5, <1>6 DEF SarathiInv, BlocksCover, Promised, NoStep

-----------------------------------------------------------------------------
(* The invariant is inductive, action by action.                           *)

(* The step without a change to its batch.                                 *)
LEMMA SameBatch ==
  ASSUME SarathiInv, UNCHANGED <<step, waiting, table, seq, running, arrived, ended>>,
         shape' = shape, wseq' = wseq,
         phase' \in {"idle", "decode", "prefill", "admit", "execute"},
         PhaseOK', phase' # "execute" => running \cap step.kept = {}
  PROVE  SarathiInv'
<1>1. Held' = Held /\ Scheduled' = Scheduled
  BY DEF Held, Scheduled
<1> QED
  BY <1>1 DEF SarathiInv, StateTyped, StepTyped, InOneList, BlocksCover, Promised

LEMMA AddRequestInv ==
  ASSUME SarathiInv, NEW s \in Seqs, AddRequest(s)
  PROVE  SarathiInv'
<1>1. /\ phase = "idle" /\ arrived = {r \in Seqs : r < s}
      /\ arrived' = arrived \cup {s} /\ waiting' = Append(waiting, s)
      /\ UNCHANGED <<shape, ended, seq, running, table, phase, step, wseq>>
  BY DEF AddRequest
<1>2. s \notin arrived
  BY <1>1, SarathiAssumption
<1>3. Held' = Held /\ Scheduled' = Scheduled
  BY <1>1 DEF Held, Scheduled
<1>4. s \notin ToSet(waiting) /\ s \notin Held /\ s \notin ended
  BY <1>2 DEF SarathiInv, InOneList, StateTyped
<1>5. /\ waiting' \in Seq(Seqs) /\ IsInjective(waiting')
      /\ ToSet(waiting') = ToSet(waiting) \cup {s}
  BY <1>1, <1>4, QueueAppend DEF SarathiInv, StateTyped, InOneList
<1>6. StateTyped'
  BY <1>1, <1>5 DEF SarathiInv, StateTyped
<1>7. InOneList'
  BY <1>1, <1>3, <1>4, <1>5 DEF SarathiInv, InOneList
<1> QED
  BY <1>1, <1>3, <1>6, <1>7 DEF SarathiInv, StepTyped, PhaseOK, BlocksCover, Promised

LEMMA QuietInv ==
  ASSUME SarathiInv, BeginStep \/ EndDecodes \/ EndPrefills
  PROVE  SarathiInv'
<1>1. /\ UNCHANGED <<step, waiting, table, seq, running, arrived, ended>>
      /\ shape' = shape /\ wseq' = wseq
      /\ phase \in {"idle", "decode", "prefill"} /\ phase' \in {"decode", "prefill", "admit"}
  BY DEF BeginStep, EndDecodes, EndPrefills, Frame
<1>2. PhaseOK'
  <2>1. CASE BeginStep
    BY <1>1, <2>1 DEF BeginStep, PhaseOK
  <2>2. CASE EndDecodes
    BY <1>1, <2>2 DEF EndDecodes, PhaseOK
  <2>3. CASE EndPrefills
    BY <1>1, <2>3 DEF EndPrefills, PhaseOK, SarathiInv
  <2> QED
    BY <2>1, <2>2, <2>3
<1> QED
  BY <1>1, <1>2, SameBatch DEF SarathiInv, InOneList

LEMMA DeferPrefillInv ==
  ASSUME SarathiInv, DeferPrefill
  PROVE  SarathiInv'
<1> DEFINE s == Min(running)
<1>1. s \in running
  BY SeqsSubset, MinMember DEF DeferPrefill, SarathiInv, StateTyped
<1>2. /\ phase = "decode" /\ phase' = phase /\ ~PromptProcessed(seq[s])
      /\ running' = running \ {s}
      /\ step' = [step EXCEPT !.prefills = @ \cup {s}]
      /\ UNCHANGED <<waiting, table, shape, arrived, ended, seq, wseq>>
  BY DEF DeferPrefill, Frame
<1> HIDE DEF s
<1>3. /\ step'.kept = step.kept /\ step'.prefills = step.prefills \cup {s}
      /\ step'.decodes = step.decodes /\ step'.preempted = step.preempted
      /\ step'.chunk = step.chunk
      /\ step' = [kept |-> step'.kept, prefills |-> step'.prefills,
                  decodes |-> step'.decodes, preempted |-> step'.preempted,
                  chunk |-> step'.chunk]
  BY <1>2 DEF SarathiInv, StepTyped
<1>4. Held' = Held /\ Scheduled' = Scheduled
  BY <1>1, <1>2, <1>3 DEF Held, Scheduled
<1>5. StateTyped' /\ StepTyped' /\ PhaseOK'
  BY <1>1, <1>2, <1>3 DEF SarathiInv, StateTyped, StepTyped, PhaseOK
<1>6. InOneList'
  BY <1>1, <1>2, <1>3, <1>4 DEF SarathiInv, InOneList, Held
<1>7. BlocksCover' /\ Promised'
  BY <1>2, <1>3, <1>4 DEF SarathiInv, BlocksCover, Promised
<1> QED
  BY <1>5, <1>6, <1>7 DEF SarathiInv

LEMMA ScheduleDecodeInv ==
  ASSUME SarathiInv, ScheduleDecode
  PROVE  SarathiInv'
<1> DEFINE s == Min(running)
<1>1. s \in running /\ running \subseteq Seqs
  BY SeqsSubset, MinMember DEF ScheduleDecode, DecodeHead, SarathiInv, StateTyped
<1>2. /\ phase = "decode" /\ phase' = phase
      /\ running' = running \ {s}
      /\ table' = [table EXCEPT ![s] = AppendSlot(@, seq[s])]
      /\ step' = [step EXCEPT !.kept = @ \cup {s}, !.decodes = @ \cup {s}]
      /\ UNCHANGED <<waiting, shape, arrived, ended, seq, wseq>>
  BY DEF ScheduleDecode, DecodeHead, Frame
<1> HIDE DEF s
<1>3. /\ step'.kept = step.kept \cup {s} /\ step'.prefills = step.prefills
      /\ step'.decodes = step.decodes \cup {s} /\ step'.preempted = step.preempted
      /\ step'.chunk = step.chunk
      /\ step' = [kept |-> step'.kept, prefills |-> step'.prefills,
                  decodes |-> step'.decodes, preempted |-> step'.preempted,
                  chunk |-> step'.chunk]
  BY <1>2 DEF SarathiInv, StepTyped
<1>4. Held' = Held /\ s \in Held /\ Scheduled' = Scheduled \cup {s}
  BY <1>1, <1>2, <1>3 DEF Held, Scheduled
<1>5. /\ table' \in [Seqs -> Nat] /\ table'[s] = LogicalBlocks(seq[s])
      /\ \A r \in Seqs \ {s} : table'[r] = table[r]
  <2>1. /\ LogicalBlocks(seq[s]) \in Nat /\ table[s] \in Nat /\ table \in [Seqs -> Nat]
        /\ LogicalBlocks(seq[s]) - table[s] \in {0, 1}
    BY <1>1, <1>4, BlocksType DEF SarathiInv, StateTyped, BlocksCover
  <2>2. AppendSlot(table[s], seq[s]) = LogicalBlocks(seq[s])
    BY <2>1 DEF AppendSlot
  <2> QED
    BY <1>1, <1>2, <2>1, <2>2
<1>6. StateTyped' /\ StepTyped' /\ PhaseOK'
  BY <1>1, <1>2, <1>3, <1>5 DEF SarathiInv, StateTyped, StepTyped, PhaseOK
<1>7. InOneList'
  BY <1>1, <1>2, <1>3, <1>4 DEF SarathiInv, InOneList, Held
<1>8. BlocksCover'
  <2>1. LogicalBlocks(seq[s]) - table'[s] = 0
    BY <1>1, <1>5, BlocksType DEF SarathiInv
  <2> QED
    BY <1>2, <1>4, <1>5, <2>1 DEF SarathiInv, BlocksCover
<1>9. Promised'
  <2>1. Scheduled \subseteq Seqs /\ Held \subseteq Seqs
    BY DEF SarathiInv, StepTyped, StateTyped, Scheduled, Held
  <2>2. \A r \in Scheduled \cup {s} : table'[r] = LogicalBlocks(seq[r])
    BY <1>5, <2>1 DEF SarathiInv, Promised
  <2>3. \A r \in Held : ~PromptProcessed(seq[r]) => table'[r] = LogicalBlocks(seq[r])
    BY <1>5, <2>1 DEF SarathiInv, Promised
  <2> QED
    BY <1>2, <1>3, <1>4, <2>2, <2>3 DEF SarathiInv, Promised
<1> QED
  BY <1>6, <1>7, <1>8, <1>9 DEF SarathiInv

LEMMA PreemptInv ==
  ASSUME SarathiInv, Preempt
  PROVE  SarathiInv'
<1> DEFINE v == Max(running)
<1>1. v \in running /\ running \subseteq Seqs
  BY SeqsSubset, MaxMember DEF Preempt, DecodeHead, SarathiInv, StateTyped
<1>2. /\ phase = "decode" /\ phase' = phase
      /\ running' = running \ {v} /\ waiting' = Append(waiting, v)
      /\ table' = [table EXCEPT ![v] = 0]
      /\ step' = [step EXCEPT !.preempted = @ \cup {v}]
      /\ UNCHANGED <<shape, arrived, ended, seq, wseq>>
  BY DEF Preempt, DecodeHead, Frame
<1> HIDE DEF v
<1>3. /\ step'.kept = step.kept /\ step'.prefills = step.prefills
      /\ step'.decodes = step.decodes /\ step'.preempted = step.preempted \cup {v}
      /\ step'.chunk = step.chunk
      /\ step' = [kept |-> step'.kept, prefills |-> step'.prefills,
                  decodes |-> step'.decodes, preempted |-> step'.preempted,
                  chunk |-> step'.chunk]
  BY <1>2 DEF SarathiInv, StepTyped
<1>4. v \in Held /\ Held' = Held \ {v} /\ Scheduled' = Scheduled
  BY <1>1, <1>2, <1>3 DEF Held, Scheduled, SarathiInv, InOneList
<1>5. /\ waiting' \in Seq(Seqs) /\ IsInjective(waiting')
      /\ ToSet(waiting') = ToSet(waiting) \cup {v}
  <2>1. v \notin ToSet(waiting)
    BY <1>4 DEF SarathiInv, InOneList
  <2> QED
    BY <1>1, <1>2, <2>1, QueueAppend DEF SarathiInv, StateTyped, InOneList
<1>6. /\ table' \in [Seqs -> Nat] /\ table'[v] = 0
      /\ \A r \in Seqs \ {v} : table'[r] = table[r]
  BY <1>1, <1>2 DEF SarathiInv, StateTyped
<1>7. StateTyped' /\ StepTyped' /\ PhaseOK'
  BY <1>1, <1>2, <1>3, <1>5, <1>6 DEF SarathiInv, StateTyped, StepTyped, PhaseOK
<1>8. InOneList'
  BY <1>1, <1>2, <1>3, <1>4, <1>5 DEF SarathiInv, InOneList, Held
<1>9. BlocksCover'
  BY <1>2, <1>4, <1>6 DEF SarathiInv, BlocksCover
<1>10. Promised'
  <2>1. /\ Scheduled \subseteq Seqs /\ Held \subseteq Seqs
        /\ v \notin Scheduled /\ v \notin step.prefills
    BY <1>1, <1>2 DEF SarathiInv, StepTyped, StateTyped, Scheduled, Held, Promised, InOneList
  <2>2. /\ \A r \in Scheduled : table'[r] = LogicalBlocks(seq[r])
        /\ \A r \in Held \ {v} : ~PromptProcessed(seq[r]) => table'[r] = LogicalBlocks(seq[r])
    BY <1>6, <2>1 DEF SarathiInv, Promised
  <2> QED
    BY <1>2, <1>3, <1>4, <2>2 DEF SarathiInv, Promised
<1> QED
  BY <1>7, <1>8, <1>9, <1>10 DEF SarathiInv

LEMMA ContinuePrefillInv ==
  ASSUME SarathiInv, ContinuePrefill
  PROVE  SarathiInv'
<1> DEFINE s == Min(step.prefills)
           c == NextTokens(s)
<1>1. s \in step.prefills /\ step.prefills \subseteq Seqs
  BY SeqsSubset, MinMember DEF ContinuePrefill, SarathiInv, StepTyped
<1>2. /\ phase = "prefill" /\ phase' = phase
      /\ step' = [step EXCEPT !.prefills = @ \ {s}, !.kept = @ \cup {s}, !.chunk[s] = c]
      /\ UNCHANGED <<waiting, running, table, shape, arrived, ended, seq, wseq>>
  BY DEF ContinuePrefill, Frame
<1> HIDE DEF s, c
<1>3. /\ step'.kept = step.kept \cup {s} /\ step'.prefills = step.prefills \ {s}
      /\ step'.decodes = step.decodes /\ step'.preempted = step.preempted
      /\ step'.chunk = [step.chunk EXCEPT ![s] = c]
      /\ step' = [kept |-> step'.kept, prefills |-> step'.prefills,
                  decodes |-> step'.decodes, preempted |-> step'.preempted,
                  chunk |-> step'.chunk]
  BY <1>2 DEF SarathiInv, StepTyped
<1>4. /\ step'.chunk = [r \in Seqs |-> step'.chunk[r]]
      /\ \A r \in Seqs \ {s} : step'.chunk[r] = step.chunk[r]
  BY <1>3 DEF SarathiInv, StepTyped
<1>5. /\ Held' = Held /\ s \in Held
      /\ Scheduled \subseteq Seqs /\ Scheduled' \subseteq Scheduled \cup {s}
      /\ Scheduled \subseteq Scheduled' \cup {s} /\ s \notin Scheduled
  <2>1. s \notin step.kept
    BY <1>1 DEF SarathiInv, InOneList
  <2>2. s \notin Scheduled
    BY <2>1 DEF SarathiInv, Promised
  <2> QED
    BY <1>1, <1>2, <1>3, <1>4, <2>2 DEF Held, Scheduled, SarathiInv, StepTyped
<1>6. StateTyped' /\ StepTyped' /\ PhaseOK'
  BY <1>1, <1>2, <1>3, <1>4 DEF SarathiInv, StateTyped, StepTyped, PhaseOK
<1>7. InOneList'
  BY <1>1, <1>2, <1>3, <1>5 DEF SarathiInv, InOneList, PhaseOK
<1>8. BlocksCover'
  BY <1>2, <1>5 DEF SarathiInv, BlocksCover
<1>9. Promised'
  <2>1. table[s] = LogicalBlocks(seq[s]) /\ s \notin step.preempted
    BY <1>1, <1>5 DEF SarathiInv, Promised
  <2> QED
    BY <1>2, <1>3, <1>5, <2>1 DEF SarathiInv, Promised
<1> QED
  BY <1>6, <1>7, <1>8, <1>9 DEF SarathiInv

LEMMA AdmitPrefillInv ==
  ASSUME SarathiInv, AdmitPrefill
  PROVE  SarathiInv'
<1> DEFINE s == Head(waiting)
           c == NextTokens(s)
<1>1. /\ waiting # <<>> /\ waiting' \in Seq(Seqs) /\ s \in ToSet(waiting)
      /\ IsInjective(waiting') /\ ToSet(waiting') = ToSet(waiting) \ {s}
  BY QueueTail DEF AdmitPrefill, SarathiInv, StateTyped, InOneList
<1>2. /\ phase = "admit" /\ phase' = phase /\ c # 0
      /\ table' = [table EXCEPT ![s] = LogicalBlocks(seq[s])]
      /\ step' = [step EXCEPT !.kept = @ \cup {s}, !.chunk[s] = c]
      /\ UNCHANGED <<running, shape, arrived, ended, seq, wseq>>
  BY DEF AdmitPrefill, Admits, Frame
<1> HIDE DEF s, c
<1>3. s \in Seqs /\ s \notin Held /\ s \notin Scheduled
  <2>1. s \in arrived /\ s \notin Held
    BY <1>1 DEF SarathiInv, InOneList
  <2>2. s \notin step.kept
    BY <2>1 DEF Held
  <2> QED
    BY <2>1, <2>2 DEF SarathiInv, StateTyped, Promised
<1>4. /\ step'.kept = step.kept \cup {s} /\ step'.prefills = step.prefills
      /\ step'.decodes = step.decodes /\ step'.preempted = step.preempted
      /\ step'.chunk = [step.chunk EXCEPT ![s] = c]
      /\ step' = [kept |-> step'.kept, prefills |-> step'.prefills,
                  decodes |-> step'.decodes, preempted |-> step'.preempted,
                  chunk |-> step'.chunk]
  BY <1>2 DEF SarathiInv, StepTyped
<1>5. /\ step'.chunk = [r \in Seqs |-> step'.chunk[r]] /\ step'.chunk[s] = c
      /\ \A r \in Seqs \ {s} : step'.chunk[r] = step.chunk[r]
  BY <1>3, <1>4 DEF SarathiInv, StepTyped
<1>6. /\ Held' = Held \cup {s} /\ Scheduled' = Scheduled \cup {s}
      /\ Scheduled \subseteq Seqs /\ Held \subseteq Seqs
  BY <1>2, <1>3, <1>4, <1>5 DEF Held, Scheduled, SarathiInv, StepTyped, StateTyped
<1>7. /\ table' \in [Seqs -> Nat] /\ table'[s] = LogicalBlocks(seq[s])
      /\ LogicalBlocks(seq[s]) \in Nat
      /\ \A r \in Seqs \ {s} : table'[r] = table[r]
  BY <1>2, <1>3, BlocksType DEF SarathiInv, StateTyped
<1>8. StateTyped' /\ StepTyped' /\ PhaseOK'
  BY <1>1, <1>2, <1>3, <1>4, <1>5, <1>7 DEF SarathiInv, StateTyped, StepTyped, PhaseOK
<1>9. InOneList'
  <2>1. s \in arrived \ ended /\ step.prefills = {} /\ running = {}
    BY <1>1, <1>2 DEF SarathiInv, InOneList, PhaseOK
  <2> QED
    BY <1>1, <1>2, <1>3, <1>4, <1>6, <2>1 DEF SarathiInv, InOneList
<1>10. BlocksCover'
  BY <1>2, <1>3, <1>6, <1>7 DEF SarathiInv, BlocksCover
<1>11. Promised'
  <2>1. /\ \A r \in Scheduled \cup {s} : table'[r] = LogicalBlocks(seq[r])
        /\ \A r \in Held \cup {s} : ~PromptProcessed(seq[r]) => table'[r] = LogicalBlocks(seq[r])
    BY <1>3, <1>6, <1>7 DEF SarathiInv, Promised
  <2> QED
    BY <1>2, <1>4, <1>6, <2>1 DEF SarathiInv, Promised
<1> QED
  BY <1>8, <1>9, <1>10, <1>11 DEF SarathiInv

LEMMA EndEmptyStepInv ==
  ASSUME SarathiInv, EndEmptyStep
  PROVE  SarathiInv'
<1>1. /\ phase = "admit" /\ phase' = "idle" /\ running' = step.kept /\ step' = NoStep
      /\ UNCHANGED <<waiting, table, shape, arrived, ended, seq, wseq>>
  BY DEF EndEmptyStep, NoAdmission, Frame
<1>2. running = {} /\ step.prefills = {} /\ step.kept \subseteq Seqs
  BY <1>1 DEF SarathiInv, PhaseOK, StepTyped
<1>3. Held' = Held /\ Scheduled' = {} /\ Held \subseteq Seqs
  BY <1>1, <1>2 DEF Held, Scheduled, NoStep
<1>4. StateTyped' /\ StepTyped' /\ PhaseOK'
  BY <1>1, <1>2 DEF SarathiInv, StateTyped, StepTyped, PhaseOK, NoStep
<1>5. InOneList'
  BY <1>1, <1>3 DEF SarathiInv, InOneList, NoStep
<1>6. BlocksCover' /\ Promised'
  BY <1>1, <1>3 DEF SarathiInv, BlocksCover, Promised, NoStep
<1> QED
  BY <1>4, <1>5, <1>6 DEF SarathiInv

(* on_schedule resets what was preempted and moves the batch to RUNNING:   *)
(* no length changes, and only a reset forgets progress.                   *)
LEMMA OnScheduleKeeps ==
  ASSUME NEW objects \in [Seqs -> SequenceObjects]
  PROVE  /\ OnSchedule(objects) \in [Seqs -> SequenceObjects]
         /\ \A s \in Seqs :
              /\ GetLen(OnSchedule(objects)[s]) = GetLen(objects[s])
              /\ s \notin step.preempted =>
                   PromptProcessed(OnSchedule(objects)[s]) = PromptProcessed(objects[s])
<1> DEFINE mid(s) == IF s \in step.preempted THEN Preempted(objects[s]) ELSE objects[s]
<1>1. OnSchedule(objects) =
        [s \in Seqs |-> IF s \in Scheduled THEN SetStatus(mid(s), "RUNNING") ELSE mid(s)]
  BY DEF OnSchedule
<1>2. \A s \in Seqs : /\ mid(s) \in SequenceObjects
                      /\ GetLen(mid(s)) = GetLen(objects[s])
                      /\ s \notin step.preempted => mid(s) = objects[s]
  BY ResetType, ResetLen DEF Preempted
<1> HIDE DEF mid
<1>3. "RUNNING" \in Status
  BY DEF Status, Executing
<1> QED
  BY <1>1, <1>2, <1>3, SetStatusType, SetStatusLen, SetStatusProgress

LEMMA SendStepInv ==
  ASSUME SarathiInv, SendStep
  PROVE  SarathiInv'
<1>1. /\ phase = "admit" /\ phase' = "execute" /\ running' = step.kept
      /\ seq' = OnSchedule(seq)
      /\ UNCHANGED <<waiting, table, shape, arrived, ended, step, wseq>>
  BY DEF SendStep, NoAdmission
<1>2. running = {} /\ step.prefills = {} /\ step.kept \subseteq Seqs
  BY <1>1 DEF SarathiInv, PhaseOK, StepTyped
<1>3. Held' = Held /\ Scheduled' = Scheduled /\ Held \subseteq Seqs
  BY <1>1, <1>2 DEF Held, Scheduled
<1>4. /\ seq' \in [Seqs -> SequenceObjects]
      /\ \A s \in Seqs : /\ LogicalBlocks(seq'[s]) = LogicalBlocks(seq[s])
                         /\ s \notin step.preempted =>
                              PromptProcessed(seq'[s]) = PromptProcessed(seq[s])
  BY <1>1, OnScheduleKeeps DEF SarathiInv, StateTyped, LogicalBlocks
<1>5. StateTyped' /\ StepTyped' /\ PhaseOK'
  BY <1>1, <1>2, <1>4 DEF SarathiInv, StateTyped, StepTyped, PhaseOK
<1>6. InOneList'
  BY <1>1, <1>3 DEF SarathiInv, InOneList
<1>7. BlocksCover'
  BY <1>1, <1>3, <1>4 DEF SarathiInv, BlocksCover
<1>8. Promised'
  <2>1. Scheduled \subseteq Seqs
    BY <1>3 DEF SarathiInv, Promised, Held
  <2>2. \A s \in Scheduled : table[s] = LogicalBlocks(seq'[s])
    BY <1>4, <2>1 DEF SarathiInv, Promised
  <2>3. ASSUME NEW s \in Held, ~PromptProcessed(seq'[s])
        PROVE  table[s] = LogicalBlocks(seq'[s])
    <3>1. CASE s \in step.preempted
      BY <2>2, <3>1 DEF SarathiInv, Promised
    <3>2. CASE s \notin step.preempted
      BY <1>3, <1>4, <2>3, <3>2 DEF SarathiInv, Promised
    <3> QED
      BY <3>1, <3>2
  <2> QED
    BY <1>1, <1>2, <1>3, <2>2, <2>3 DEF SarathiInv, Promised
<1> QED
  BY <1>5, <1>6, <1>7, <1>8 DEF SarathiInv

-----------------------------------------------------------------------------
(* The step is executed.                                                   *)

(* What a completed step makes of any copy of the objects.                 *)
LEMMA StepKeeps ==
  ASSUME NEW objects \in [Seqs -> SequenceObjects], NEW stop,
         \A s \in Scheduled : step.chunk[s] \in Nat
  PROVE  /\ Step(objects, stop) \in [Seqs -> SequenceObjects]
         /\ \A s \in Seqs \ Scheduled : Step(objects, stop)[s] = objects[s]
         /\ \A s \in Seqs :
              /\ GetLen(Step(objects, stop)[s]) \in {GetLen(objects[s]), GetLen(objects[s]) + 1}
              /\ s \in Scheduled /\ ~PromptProcessed(Step(objects, stop)[s])
                   => GetLen(Step(objects, stop)[s]) = GetLen(objects[s])
<1> DEFINE after(s) == CompleteStep(objects[s], step.chunk[s], shape[s].maxTokens,
                                    FALSE, s \in stop)
<1>1. Step(objects, stop) = [s \in Seqs |-> IF s \in Scheduled THEN after(s) ELSE objects[s]]
  BY DEF Step
<1>2. \A s \in Seqs : s \in Scheduled =>
        /\ after(s) \in SequenceObjects
        /\ GetLen(after(s)) \in {GetLen(objects[s]), GetLen(objects[s]) + 1}
        /\ ~PromptProcessed(after(s)) => GetLen(after(s)) = GetLen(objects[s])
  <2> SUFFICES ASSUME NEW s \in Seqs, s \in Scheduled
               PROVE  /\ after(s) \in SequenceObjects
                      /\ GetLen(after(s)) \in {GetLen(objects[s]), GetLen(objects[s]) + 1}
                      /\ ~PromptProcessed(after(s)) => GetLen(after(s)) = GetLen(objects[s])
    OBVIOUS
  <2> DEFINE o == objects[s]
             c == step.chunk[s]
             m == shape[s].maxTokens
             eos == s \in stop
  <2>1. o \in SequenceObjects /\ o.processed + c \in Nat /\ eos \in BOOLEAN /\ FALSE \in BOOLEAN
    BY DEF SequenceObjects
  <2>2. after(s) = CompleteStep(o, c, m, FALSE, eos)
    OBVIOUS
  <2> HIDE DEF o, c, m, eos, after
  <2>3. CompleteStep(o, c, m, FALSE, eos) \in SequenceObjects
    BY <2>1, StepType
  <2>4. GetLen(CompleteStep(o, c, m, FALSE, eos)) \in {GetLen(o), GetLen(o) + 1}
    BY <2>1, StepLen
  <2>5. ~PromptProcessed(CompleteStep(o, c, m, FALSE, eos))
          => GetLen(CompleteStep(o, c, m, FALSE, eos)) = GetLen(o)
    BY <2>1, StepUnprocessed
  <2> QED
    BY <2>2, <2>3, <2>4, <2>5 DEF o
<1> HIDE DEF after
<1> QED
  BY <1>1, <1>2

LEMMA ExecuteStepInv ==
  ASSUME SarathiInv, NEW stop \in SUBSET Seqs, ExecuteStep(stop)
  PROVE  SarathiInv'
<1> DEFINE done == {s \in Scheduled : Step(seq, stop)[s].status \in Finished}
<1>1. /\ phase = "execute" /\ phase' = "idle" /\ WorkerCan
      /\ wseq' = Step(OnSchedule(wseq), stop) /\ seq' = Step(seq, stop)
      /\ table' = [s \in Seqs |-> IF s \in running \cap done THEN 0 ELSE table[s]]
      /\ running' = running \ done /\ ended' = ended \cup done /\ step' = NoStep
      /\ UNCHANGED <<shape, arrived, waiting>>
  BY DEF ExecuteStep
<1>2. /\ running = step.kept /\ step.prefills = {} /\ Held = running
      /\ running \subseteq Seqs /\ running \subseteq arrived \ ended
      /\ Scheduled \subseteq running
  BY <1>1 DEF SarathiInv, PhaseOK, StateTyped, InOneList, Promised, Held
<1>3. done \subseteq Scheduled
  OBVIOUS
<1> HIDE DEF done
<1>4. \A s \in Scheduled : step.chunk[s] \in Nat
  <2>1. OnSchedule(wseq) \in [Seqs -> SequenceObjects]
    BY OnScheduleKeeps DEF SarathiInv, StateTyped
  <2>2. \A s \in Seqs : OnSchedule(wseq)[s].prompt - OnSchedule(wseq)[s].processed \in Int
    BY <2>1 DEF SequenceObjects
  <2> QED
    BY <1>1, <1>2, <2>2 DEF WorkerCan
<1>5. /\ seq' \in [Seqs -> SequenceObjects] /\ wseq' \in [Seqs -> SequenceObjects]
      /\ \A s \in Seqs \ Scheduled : seq'[s] = seq[s]
      /\ \A s \in Seqs : GetLen(seq'[s]) \in {GetLen(seq[s]), GetLen(seq[s]) + 1}
      /\ \A s \in Scheduled : ~PromptProcessed(seq'[s]) => GetLen(seq'[s]) = GetLen(seq[s])
  <2>1. seq \in [Seqs -> SequenceObjects] /\ OnSchedule(wseq) \in [Seqs -> SequenceObjects]
    BY OnScheduleKeeps DEF SarathiInv, StateTyped
  <2> QED
    BY <1>1, <1>2, <1>4, <2>1, StepKeeps
<1>6. /\ Held' = Held \ done /\ Scheduled' = {} /\ step'.kept = {} /\ step'.prefills = {}
      /\ step'.preempted = {}
  BY <1>1, <1>2 DEF Held, Scheduled, NoStep
<1>7. /\ table' \in [Seqs -> Nat]
      /\ \A s \in done : table'[s] = 0
      /\ \A s \in Seqs \ done : table'[s] = table[s]
  BY <1>1, <1>2, <1>3 DEF SarathiInv, StateTyped
<1>8. StateTyped' /\ StepTyped' /\ PhaseOK'
  BY <1>1, <1>2, <1>3, <1>5, <1>7 DEF SarathiInv, StateTyped, StepTyped, PhaseOK, NoStep
<1>9. InOneList'
  BY <1>1, <1>2, <1>3, <1>6 DEF SarathiInv, InOneList
<1>10. \A s \in Scheduled : LogicalBlocks(seq'[s]) - table[s] \in {0, 1}
  <2> SUFFICES ASSUME NEW s \in Scheduled
               PROVE  LogicalBlocks(seq'[s]) - table[s] \in {0, 1}
    OBVIOUS
  <2>1. /\ s \in Seqs /\ GetLen(seq[s]) \in Nat /\ LogicalBlocks(seq[s]) \in Nat
        /\ table[s] = LogicalBlocks(seq[s])
    BY <1>2, BlocksType DEF SarathiInv, Promised
  <2>2. GetLen(seq'[s]) \in {GetLen(seq[s]), GetLen(seq[s]) + 1}
    BY <1>5, <2>1
  <2>3. CASE GetLen(seq'[s]) = GetLen(seq[s])
    BY <2>1, <2>3 DEF LogicalBlocks
  <2>4. CASE GetLen(seq'[s]) = GetLen(seq[s]) + 1
    BY <2>1, <2>4, CeilDivStep, BlockSizeAssumption DEF LogicalBlocks
  <2> QED
    BY <2>2, <2>3, <2>4
<1>11. BlocksCover'
  <2> SUFFICES ASSUME NEW s \in Seqs
               PROVE  IF s \in Held' THEN LogicalBlocks(seq'[s]) - table'[s] \in {0, 1}
                                     ELSE table'[s] = 0
    BY DEF BlocksCover
  <2>1. CASE s \in done
    BY <1>6, <1>7, <2>1
  <2>2. CASE s \in Scheduled \ done
    BY <1>2, <1>6, <1>7, <1>10, <2>2
  <2>3. CASE s \notin Scheduled
    BY <1>3, <1>5, <1>6, <1>7, <2>3 DEF SarathiInv, BlocksCover
  <2> QED
    BY <2>1, <2>2, <2>3
<1>12. Promised'
  <2>1. ASSUME NEW s \in Held', ~PromptProcessed(seq'[s])
        PROVE  table'[s] = LogicalBlocks(seq'[s])
    <3>1. s \in Held /\ s \in Seqs /\ s \notin done /\ table'[s] = table[s]
      BY <1>2, <1>6, <1>7, <2>1
    <3>2. CASE s \in Scheduled
      BY <1>5, <2>1, <3>1, <3>2 DEF SarathiInv, Promised, LogicalBlocks
    <3>3. CASE s \notin Scheduled
      BY <1>5, <2>1, <3>1, <3>3 DEF SarathiInv, Promised
    <3> QED
      BY <3>2, <3>3
  <2> QED
    BY <1>6, <2>1 DEF Promised
<1> QED
  BY <1>8, <1>9, <1>11, <1>12 DEF SarathiInv

LEMMA SarathiInductive == SarathiInv /\ [Next]_vars => SarathiInv'
<1> SUFFICES ASSUME SarathiInv, [Next]_vars PROVE SarathiInv'
  OBVIOUS
<1>1. CASE UNCHANGED vars
  <2>1. /\ UNCHANGED <<step, waiting, table, seq, running, arrived, ended>>
        /\ shape' = shape /\ wseq' = wseq /\ phase' = phase
    BY <1>1 DEF vars, schedVars
  <2> QED
    BY <2>1, SameBatch DEF SarathiInv, StateTyped, PhaseOK, InOneList
<1> QED
  BY <1>1, AddRequestInv, QuietInv, DeferPrefillInv, ScheduleDecodeInv, PreemptInv,
     ContinuePrefillInv, AdmitPrefillInv, EndEmptyStepInv, SendStepInv, ExecuteStepInv
     DEF Next, RunStep

(* No request is lost or duplicated by chunked prefill, even when a step   *)
(* preempts a sequence and admits it again, and each holds the blocks of   *)
(* its tokens while it runs and none while it waits.                       *)
THEOREM SarathiOneHolder == Spec => []OneHolder
<1>1. SarathiInv => OneHolder
  BY DEF SarathiInv, OneHolder
<1> QED
  BY <1>1, SarathiInit, SarathiInductive, PTL DEF Spec

-----------------------------------------------------------------------------
(* The instance implements RequestStream.                                  *)

Tokens(s) == GetLen(seq[s]) - shape[s].prompt

StagesMove(R, st) == \A s \in Seqs : Stage(s)' = IF s \in R THEN st ELSE Stage(s)

TokensGrow(G) == \A s \in Seqs : Tokens(s)' = IF s \in G THEN Tokens(s) + 1 ELSE Tokens(s)

LEMMA AcceptMaps ==
  ASSUME NEW s \in Seqs, Stage(s) = "unknown", StagesMove({s}, "accepted"), TokensGrow({})
  PROVE  Stream!StreamNext
<1>1. Stream!Accept(s)
  BY DEF Stream!Accept, Stream!Move, StagesMove, TokensGrow, Tokens
<1> QED
  BY <1>1 DEF Stream!StreamNext

LEMMA ServeMaps ==
  ASSUME NEW G \in SUBSET Seqs, NEW E \in SUBSET Seqs,
         \A s \in G \cup E : Stage(s) = "accepted",
         StagesMove(E, "closed"), TokensGrow(G)
  PROVE  Stream!StreamNext
<1>1. Stream!Serve(G, E)
  BY DEF Stream!Serve, Stream!Move, StagesMove, TokensGrow, Tokens
<1> QED
  BY <1>1 DEF Stream!StreamNext

LEMMA SameLengths ==
  ASSUME shape' = shape, \A s \in Seqs : GetLen(seq'[s]) = GetLen(seq[s])
  PROVE  TokensGrow({})
  BY DEF TokensGrow, Tokens, GetLen

LEMMA StutterMaps ==
  ASSUME UNCHANGED <<shape, arrived, ended>>, \A s \in Seqs : GetLen(seq'[s]) = GetLen(seq[s])
  PROVE  UNCHANGED Stream!streamVars
<1>1. TokensGrow({}) /\ StagesMove({}, "closed")
  BY SameLengths DEF StagesMove, Stage
<1> QED
  BY <1>1 DEF Stream!streamVars, StagesMove, TokensGrow, Tokens

LEMMA StreamInitially == Init => Stream!StreamInit
<1> SUFFICES ASSUME Init PROVE Stream!StreamInit
  OBVIOUS
<1>1. \A s \in Seqs : Stage(s) = "unknown"
  BY DEF Init, Stage
<1>2. \A s \in Seqs : Tokens(s) = 0
  <2> SUFFICES ASSUME NEW s \in Seqs PROVE Tokens(s) = 0
    OBVIOUS
  <2>1. seq[s] = NewObject(shape[s].prompt) /\ shape[s].prompt \in Nat
    BY SarathiAssumption DEF Init
  <2> QED
    BY <2>1 DEF Tokens, GetLen, NewObject
<1> QED
  BY <1>1, <1>2 DEF Stream!StreamInit, Tokens

LEMMA ExecuteServes ==
  ASSUME SarathiInv, NEW stop \in SUBSET Seqs, ExecuteStep(stop)
  PROVE  Stream!StreamNext
<1> DEFINE E == {s \in Scheduled : Step(seq, stop)[s].status \in Finished}
           G == {s \in Scheduled : GetLen(seq'[s]) = GetLen(seq[s]) + 1}
<1>1. /\ seq' = Step(seq, stop) /\ ended' = ended \cup E /\ WorkerCan /\ phase = "execute"
      /\ UNCHANGED <<shape, arrived>>
  BY DEF ExecuteStep
<1>2. Scheduled \subseteq Seqs /\ Scheduled \subseteq arrived \ ended
  BY DEF SarathiInv, Promised, StepTyped, InOneList, Held
<1>3. E \in SUBSET Scheduled /\ G \in SUBSET Scheduled
  OBVIOUS
<1>4. TokensGrow(G)
  <2>1. \A s \in Scheduled : step.chunk[s] \in Nat
    <3>1. OnSchedule(wseq) \in [Seqs -> SequenceObjects]
      BY OnScheduleKeeps DEF SarathiInv, StateTyped
    <3>2. \A s \in Seqs : OnSchedule(wseq)[s].prompt - OnSchedule(wseq)[s].processed \in Int
      BY <3>1 DEF SequenceObjects
    <3> QED
      BY <1>1, <1>2, <3>2 DEF WorkerCan
  <2>2. \A s \in Seqs : /\ GetLen(seq'[s]) \in {GetLen(seq[s]), GetLen(seq[s]) + 1}
                        /\ s \notin Scheduled => GetLen(seq'[s]) = GetLen(seq[s])
    BY <1>1, <2>1, StepKeeps DEF SarathiInv, StateTyped
  <2>3. \A s \in Seqs : GetLen(seq[s]) \in Nat /\ shape[s].prompt \in Nat
    BY BlocksType, SarathiAssumption DEF SarathiInv, StateTyped
  <2> SUFFICES ASSUME NEW s \in Seqs
               PROVE  Tokens(s)' = IF s \in G THEN Tokens(s) + 1 ELSE Tokens(s)
    BY DEF TokensGrow
  <2>4. Tokens(s)' = GetLen(seq'[s]) - shape[s].prompt
    BY <1>1 DEF Tokens, GetLen
  <2>5. CASE s \in G
    BY <2>3, <2>4, <2>5 DEF Tokens
  <2>6. CASE s \notin G
    <3>1. GetLen(seq'[s]) = GetLen(seq[s])
      BY <2>2, <2>6
    <3> QED
      BY <2>4, <2>6, <3>1 DEF Tokens
  <2> QED
    BY <2>5, <2>6
<1> HIDE DEF E, G
<1>5. StagesMove(E, "closed") /\ \A s \in G \cup E : Stage(s) = "accepted"
  BY <1>1, <1>2, <1>3 DEF StagesMove, Stage
<1> QED
  BY <1>2, <1>3, <1>4, <1>5, ServeMaps

LEMMA StreamStep ==
  ASSUME SarathiInv, [Next]_vars
  PROVE  [Stream!StreamNext]_(Stream!streamVars)
<1>1. CASE UNCHANGED <<shape, arrived, ended, seq>>
  BY <1>1, StutterMaps
<1>2. ASSUME NEW s \in Seqs, AddRequest(s) PROVE Stream!StreamNext
  <2>1. /\ arrived = {r \in Seqs : r < s} /\ arrived' = arrived \cup {s}
        /\ UNCHANGED <<shape, ended, seq>>
    BY <1>2 DEF AddRequest
  <2>2. s \notin arrived /\ s \notin ended
    BY <2>1, SarathiAssumption DEF SarathiInv, StateTyped
  <2>3. Stage(s) = "unknown" /\ StagesMove({s}, "accepted")
    BY <2>1, <2>2 DEF Stage, StagesMove
  <2> QED
    BY <2>1, <2>3, SameLengths, AcceptMaps
<1>3. CASE SendStep
  <2>1. seq' = OnSchedule(seq) /\ UNCHANGED <<shape, arrived, ended>>
    BY <1>3 DEF SendStep
  <2>2. \A s \in Seqs : GetLen(seq'[s]) = GetLen(seq[s])
    BY <2>1, OnScheduleKeeps DEF SarathiInv, StateTyped
  <2> QED
    BY <2>1, <2>2, StutterMaps
<1>4. CASE \E stop \in SUBSET Seqs : ExecuteStep(stop)
  BY <1>4, ExecuteServes
<1>5. CASE BeginStep \/ DeferPrefill \/ ScheduleDecode \/ Preempt \/ EndDecodes
  BY <1>1, <1>5 DEF BeginStep, DeferPrefill, ScheduleDecode, Preempt, EndDecodes, Frame
<1>6. CASE ContinuePrefill \/ EndPrefills \/ AdmitPrefill \/ EndEmptyStep
  BY <1>1, <1>6 DEF ContinuePrefill, EndPrefills, AdmitPrefill, EndEmptyStep, Frame
<1>7. CASE UNCHANGED vars
  BY <1>1, <1>7 DEF vars
<1> QED
  BY <1>2, <1>3, <1>4, <1>5, <1>6, <1>7 DEF Next, RunStep

(* Under chunked prefill too, the instance keeps the promise of            *)
(* RequestStream: across preemptions no token is lost, at most one is      *)
(* added a step, and none follows the end of a request.                    *)
THEOREM SarathiRefinesStream == Spec => SarathiImplementsStream
  BY SarathiInit, SarathiInductive, StreamInitially, StreamStep, PTL
     DEF Spec, SarathiImplementsStream, Stream!StreamSpec

-----------------------------------------------------------------------------
(* How long a batch is.                                                    *)

(* Between steps a batch that has been executed leaves at most ChunkSize   *)
(* sequences and at most one prompt that is partly processed: a prompt     *)
(* that was cut short took the rest of the budget.  During a step:         *)

Unprocessed(s) == ~PromptProcessed(seq[s])

(* What is left of the prompt of s once a preemption has reset it;         *)
Left(s) ==
  IF s \in step.preempted /\ phase # "execute" THEN GetLen(seq[s])
                                               ELSE seq[s].prompt - seq[s].processed

(* the prompts the batch does not finish.                                  *)
Short == {s \in Seqs : step.chunk[s] # 0 /\ step.chunk[s] < Left(s)}

BatchTyped ==
  /\ step.chunk \in [Seqs -> Nat]
  /\ \A s \in Seqs : seq[s].processed <= seq[s].prompt
  /\ \A s \in Seqs : step.chunk[s] # 0 => s \notin step.decodes /\ step.chunk[s] <= Left(s)
  /\ \A s \in step.decodes : PromptProcessed(seq[s]) /\ s \notin step.preempted
  /\ phase \in {"idle", "decode"} \/ step.prefills # {} => \A s \in Seqs : step.chunk[s] = 0

(* each sequence kept has a token in the batch, and there is a token of    *)
(* the budget for each sequence the step has yet to schedule;              *)
Budget ==
  /\ step.kept \subseteq Scheduled
  /\ Cardinality(step.kept) <= Batched /\ Batched <= ChunkSize
  /\ phase # "execute" =>
       Cardinality(running) + Cardinality(step.prefills) + Batched <= ChunkSize

(* one prompt at most was partly processed when the step began,            *)
OnePartial ==
  phase # "execute" =>
    \A x, y \in running \cup step.prefills \cup step.preempted :
      Unprocessed(x) /\ Unprocessed(y) => x = y

(* no prompt waits behind it, should it be preempted,                      *)
NoneBehind ==
  phase # "execute" =>
    \A i, j \in DOMAIN waiting :
      i < j /\ waiting[i] \in step.preempted /\ Unprocessed(waiting[i])
        => PromptProcessed(seq[waiting[j]])

(* and a prompt that is cut short is the last of its batch.                *)
OneShort ==
  /\ \A x, y \in Short : x = y
  /\ phase # "execute" /\ Short # {} =>
       Batched = ChunkSize \/ \A s \in ToSet(waiting) : PromptProcessed(seq[s])

BatchInv == BatchTyped /\ Budget /\ OnePartial /\ NoneBehind /\ OneShort

LEMMA BatchIsNat ==
  ASSUME SarathiInv, step.chunk \in [Seqs -> Nat]
  PROVE  /\ SumFunctionOnSet(step.chunk, Seqs) \in Nat /\ Cardinality(step.decodes) \in Nat
         /\ Batched \in Nat
<1>1. IsFiniteSet(Seqs) /\ IsFiniteSet(step.decodes)
  BY SarathiAssumption, FS_Subset DEF SarathiInv, StepTyped
<1>2. SumFunctionOnSet(step.chunk, Seqs) \in Nat
  BY <1>1, SumNat
<1>3. Cardinality(step.decodes) \in Nat
  BY <1>1, FS_CardinalityType
<1> QED
  BY <1>2, <1>3 DEF Batched

(* The batch grows by the chunk of a prompt.                               *)
LEMMA ChunkAdded ==
  ASSUME SarathiInv, step.chunk \in [Seqs -> Nat], NEW s \in Seqs, NEW c \in Nat,
         step.chunk[s] = 0, step'.decodes = step.decodes,
         step'.chunk = [step.chunk EXCEPT ![s] = c]
  PROVE  Batched' = Batched + c
<1>1. IsFiniteSet(Seqs) /\ SumFunctionOnSet(step.chunk, Seqs) \in Nat
      /\ Cardinality(step.decodes) \in Nat
  BY SarathiAssumption, BatchIsNat
<1>2. /\ \A y \in Seqs : step.chunk[y] \in Int
      /\ step'.chunk[s] = c
      /\ \A y \in Seqs \ {s} : step'.chunk[y] = step.chunk[y]
  OBVIOUS
<1>3. SumFunctionOnSet(step'.chunk, Seqs) = SumFunctionOnSet(step.chunk, Seqs) + (c - step.chunk[s])
  BY <1>1, <1>2, SumUpdate
<1> QED
  BY <1>1, <1>3 DEF Batched

LEMMA BatchInitially == Init => BatchInv
<1> SUFFICES ASSUME Init PROVE BatchInv
  OBVIOUS
<1>1. /\ step = NoStep /\ waiting = <<>> /\ running = {} /\ phase = "idle"
      /\ shape \in [Seqs -> Shapes] /\ seq = [s \in Seqs |-> NewObject(shape[s].prompt)]
  BY DEF Init
<1>2. \A s \in Seqs : shape[s].prompt \in Nat /\ seq[s].prompt = shape[s].prompt /\ seq[s].processed = 0
  BY <1>1, SarathiAssumption DEF NewObject
<1>3. BatchTyped
  BY <1>1, <1>2 DEF BatchTyped, NoStep
<1>4. Budget
  <2>1. step.kept = {} /\ step.prefills = {} /\ Scheduled = {} /\ Batched = 0
    <3>1. SumFunctionOnSet(step.chunk, Seqs) = 0
      BY <1>1, SarathiAssumption, SumZero DEF NoStep
    <3> QED
      BY <1>1, <3>1, FS_EmptySet DEF NoStep, Scheduled, Batched
  <2> QED
    BY <1>1, <2>1, FS_EmptySet, SarathiAssumption DEF Budget
<1>5. OnePartial /\ NoneBehind
  BY <1>1 DEF OnePartial, NoneBehind, NoStep
<1>6. OneShort
  BY <1>1 DEF OneShort, Short, NoStep
<1> QED
  BY <1>3, <1>4, <1>5, <1>6 DEF BatchInv

LEMMA QuietBatch ==
  ASSUME BatchInv, UNCHANGED <<step, waiting, seq, running>>,
         \/ phase' = phase
         \/ phase = "idle" /\ phase' = "decode"
         \/ phase = "decode" /\ phase' = "prefill"
         \/ phase = "prefill" /\ phase' = "admit"
  PROVE  BatchInv'
<1>1. /\ Batched' = Batched /\ Scheduled' = Scheduled
      /\ (phase' # "execute") = (phase # "execute")
      /\ \A s : Unprocessed(s)' = Unprocessed(s)
  BY DEF Batched, Scheduled, Unprocessed
<1>2. \A s : Left(s)' = Left(s)
  BY <1>1 DEF Left
<1>3. Short' = Short
  BY <1>2 DEF Short
<1>4. BatchTyped'
  BY <1>2 DEF BatchInv, BatchTyped
<1>5. Budget' /\ OnePartial' /\ NoneBehind'
  BY <1>1 DEF BatchInv, Budget, OnePartial, NoneBehind
<1> QED
  BY <1>1, <1>3, <1>4, <1>5 DEF BatchInv, OneShort

LEMMA AddRequestBatch ==
  ASSUME SarathiInv, BatchInv, NEW s \in Seqs, AddRequest(s)
  PROVE  BatchInv'
<1>1. /\ phase = "idle" /\ UNCHANGED <<seq, running, phase, step>>
      /\ waiting' \in Seq(Seqs) /\ step.preempted = {}
      /\ waiting \in Seq(Seqs) /\ waiting' = Append(waiting, s)
  BY DEF AddRequest, SarathiInv, PhaseOK, NoStep, StateTyped
<1>2. /\ Batched' = Batched /\ Scheduled' = Scheduled
      /\ \A r : Unprocessed(r)' = Unprocessed(r)
      /\ \A r : Left(r)' = Left(r)
  BY <1>1 DEF Batched, Scheduled, Unprocessed, Left
<1>3. Short' = {} /\ Short = {}
  BY <1>1, <1>2 DEF Short, BatchInv, BatchTyped
<1>4. BatchTyped'
  BY <1>1, <1>2 DEF BatchInv, BatchTyped
<1>5. Budget' /\ OnePartial' /\ NoneBehind'
  BY <1>1, <1>2 DEF BatchInv, Budget, OnePartial, NoneBehind
<1> QED
  BY <1>3, <1>4, <1>5 DEF BatchInv, OneShort

LEMMA DeferPrefillBatch ==
  ASSUME SarathiInv, BatchInv, DeferPrefill
  PROVE  BatchInv'
<1> DEFINE s == Min(running)
<1>1. s \in running
  BY SeqsSubset, MinMember DEF DeferPrefill, SarathiInv, StateTyped
<1>2. /\ phase = "decode" /\ phase' = phase
      /\ running' = running \ {s}
      /\ step' = [step EXCEPT !.prefills = @ \cup {s}]
      /\ UNCHANGED <<waiting, seq>>
  BY DEF DeferPrefill, Frame
<1> HIDE DEF s
<1>3. /\ step'.kept = step.kept /\ step'.prefills = step.prefills \cup {s}
      /\ step'.decodes = step.decodes /\ step'.preempted = step.preempted
      /\ step'.chunk = step.chunk
  BY <1>2 DEF SarathiInv, StepTyped
<1>4. /\ Batched' = Batched /\ Scheduled' = Scheduled
      /\ \A r : Unprocessed(r)' = Unprocessed(r)
      /\ \A r : Left(r)' = Left(r)
  BY <1>2, <1>3 DEF Batched, Scheduled, Unprocessed, Left
<1>5. Short' = Short
  BY <1>3, <1>4 DEF Short
<1>6. BatchTyped'
  BY <1>2, <1>3, <1>4 DEF BatchInv, BatchTyped
<1>7. Cardinality(running') + Cardinality(step'.prefills)
        = Cardinality(running) + Cardinality(step.prefills)
  <2>1. IsFiniteSet(running) /\ IsFiniteSet(step.prefills) /\ s \notin step.prefills
    BY <1>1, SeqsSubset DEF SarathiInv, StateTyped, StepTyped, InOneList
  <2>2. /\ Cardinality(running') = Cardinality(running) - 1
        /\ Cardinality(step'.prefills) = Cardinality(step.prefills) + 1
        /\ Cardinality(running) \in Nat /\ Cardinality(step.prefills) \in Nat
    BY <1>1, <1>2, <1>3, <2>1, CardinalityWith, CardinalityWithout
  <2> QED
    BY <2>2
<1>8. Budget'
  BY <1>2, <1>3, <1>4, <1>7 DEF BatchInv, Budget
<1>9. OnePartial' /\ NoneBehind'
  BY <1>1, <1>2, <1>3, <1>4 DEF BatchInv, OnePartial, NoneBehind
<1> QED
  BY <1>2, <1>4, <1>5, <1>6, <1>8, <1>9 DEF BatchInv, OneShort

LEMMA ScheduleDecodeBatch ==
  ASSUME SarathiInv, BatchInv, ScheduleDecode
  PROVE  BatchInv'
<1> DEFINE s == Min(running)
<1>1. s \in running /\ running \subseteq Seqs
  BY SeqsSubset, MinMember DEF ScheduleDecode, DecodeHead, SarathiInv, StateTyped
<1>2. /\ phase = "decode" /\ phase' = phase /\ PromptProcessed(seq[s])
      /\ running' = running \ {s}
      /\ step' = [step EXCEPT !.kept = @ \cup {s}, !.decodes = @ \cup {s}]
      /\ UNCHANGED <<waiting, seq>>
  BY DEF ScheduleDecode, DecodeHead, Frame
<1> HIDE DEF s
<1>3. /\ step'.kept = step.kept \cup {s} /\ step'.prefills = step.prefills
      /\ step'.decodes = step.decodes \cup {s} /\ step'.preempted = step.preempted
      /\ step'.chunk = step.chunk
  BY <1>2 DEF SarathiInv, StepTyped
<1>4. /\ Scheduled' = Scheduled \cup {s}
      /\ \A r : Unprocessed(r)' = Unprocessed(r)
      /\ \A r : Left(r)' = Left(r)
  BY <1>2, <1>3 DEF Scheduled, Unprocessed, Left
<1>5. s \notin step.kept /\ s \notin step.decodes /\ s \notin step.preempted
  <2>1. s \notin step.kept /\ s \in Held
    BY <1>1, <1>2 DEF SarathiInv, InOneList, Held
  <2> QED
    BY <2>1 DEF SarathiInv, Promised, Scheduled
<1>6. Short' = {} /\ Short = {}
  BY <1>2, <1>3 DEF Short, BatchInv, BatchTyped
<1>7. BatchTyped'
  BY <1>1, <1>2, <1>3, <1>4, <1>5 DEF BatchInv, BatchTyped
<1>8. Budget'
  <2>1. /\ IsFiniteSet(running) /\ IsFiniteSet(step.kept) /\ IsFiniteSet(step.decodes)
        /\ IsFiniteSet(step.prefills)
    BY SeqsSubset DEF SarathiInv, StateTyped, StepTyped
  <2>2. /\ Cardinality(running') = Cardinality(running) - 1
        /\ Cardinality(running) \in Nat /\ Cardinality(running') \in Nat
    BY <1>1, <1>2, <2>1, CardinalityWithout
  <2>3. /\ Cardinality(step'.kept) = Cardinality(step.kept) + 1
        /\ Cardinality(step'.decodes) = Cardinality(step.decodes) + 1
        /\ Cardinality(step.kept) \in Nat
        /\ Cardinality(step.decodes) \in Nat /\ Cardinality(step.prefills) \in Nat
    BY <1>3, <1>5, <2>1, CardinalityWith, FS_CardinalityType
  <2>4. SumFunctionOnSet(step.chunk, Seqs) \in Nat /\ Batched \in Nat
    BY BatchIsNat DEF BatchInv, BatchTyped
  <2>5. Batched' = Batched + 1
    BY <1>3, <2>3, <2>4 DEF Batched
  <2>6. Cardinality(step.kept) <= Batched
        /\ Cardinality(running) + Cardinality(step.prefills) + Batched <= ChunkSize
        /\ step.kept \subseteq Scheduled /\ ChunkSize \in Nat
    BY <1>2, SarathiAssumption DEF BatchInv, Budget
  <2>7. /\ Cardinality(running') + Cardinality(step'.prefills) + Batched' <= ChunkSize
        /\ Cardinality(step'.kept) <= Batched' /\ Batched' <= ChunkSize
    BY <1>3, <2>2, <2>3, <2>4, <2>5, <2>6
  <2> QED
    BY <1>3, <1>4, <2>6, <2>7 DEF Budget
<1>9. OnePartial' /\ NoneBehind'
  BY <1>1, <1>2, <1>3, <1>4 DEF BatchInv, OnePartial, NoneBehind
<1> QED
  BY <1>6, <1>7, <1>8, <1>9 DEF BatchInv, OneShort

LEMMA PreemptBatch ==
  ASSUME SarathiInv, BatchInv, Preempt
  PROVE  BatchInv'
<1> DEFINE v == Max(running)
<1>1. v \in running /\ running \subseteq Seqs
  BY SeqsSubset, MaxMember DEF Preempt, DecodeHead, SarathiInv, StateTyped
<1>2. /\ phase = "decode" /\ phase' = phase
      /\ running' = running \ {v} /\ waiting' = Append(waiting, v)
      /\ step' = [step EXCEPT !.preempted = @ \cup {v}]
      /\ UNCHANGED seq
  BY DEF Preempt, DecodeHead, Frame
<1> HIDE DEF v
<1>3. /\ step'.kept = step.kept /\ step'.prefills = step.prefills
      /\ step'.decodes = step.decodes /\ step'.preempted = step.preempted \cup {v}
      /\ step'.chunk = step.chunk
  BY <1>2 DEF SarathiInv, StepTyped
<1>4. /\ Batched' = Batched /\ Scheduled' = Scheduled
      /\ \A r : Unprocessed(r)' = Unprocessed(r)
  BY <1>2, <1>3 DEF Batched, Scheduled, Unprocessed
<1>5. v \notin step.kept /\ v \notin step.decodes /\ v \notin ToSet(waiting)
  BY <1>1, <1>2 DEF SarathiInv, InOneList, Held, Promised, Scheduled
<1>6. Short' = {} /\ Short = {}
  BY <1>2, <1>3 DEF Short, BatchInv, BatchTyped
<1>7. BatchTyped'
  BY <1>2, <1>3, <1>5 DEF BatchInv, BatchTyped
<1>8. Budget'
  <2>1. IsFiniteSet(running) /\ IsFiniteSet(step.prefills)
    BY SeqsSubset DEF SarathiInv, StateTyped, StepTyped
  <2>2. /\ Cardinality(running') = Cardinality(running) - 1 /\ Cardinality(running) \in Nat
        /\ Cardinality(step.prefills) \in Nat
    BY <1>1, <1>2, <2>1, FS_RemoveElement, FS_CardinalityType
  <2>3. Batched \in Nat /\ ChunkSize \in Nat
    BY BatchIsNat, SarathiAssumption DEF BatchInv, BatchTyped
  <2> QED
    BY <1>2, <1>3, <1>4, <2>2, <2>3 DEF BatchInv, Budget
<1>9. OnePartial'
  BY <1>1, <1>2, <1>3, <1>4 DEF BatchInv, OnePartial
<1>10. NoneBehind'
  <2>1. /\ DOMAIN waiting = 1..Len(waiting) /\ Len(waiting) \in Nat
        /\ DOMAIN waiting' = 1..(Len(waiting) + 1)
        /\ \A i \in DOMAIN waiting : waiting'[i] = waiting[i]
        /\ waiting'[Len(waiting) + 1] = v
    BY <1>1, <1>2 DEF SarathiInv, StateTyped
  <2> SUFFICES ASSUME NEW i \in DOMAIN waiting', NEW j \in DOMAIN waiting', i < j,
                      waiting'[i] \in step'.preempted, Unprocessed(waiting'[i])
               PROVE  PromptProcessed(seq[waiting'[j]])
    BY <1>2, <1>4 DEF NoneBehind, Unprocessed
  <2>2. i \in DOMAIN waiting /\ waiting'[i] = waiting[i]
    BY <2>1
  <2>3. waiting[i] # v /\ waiting[i] \in step.preempted
    BY <1>3, <1>5, <2>2 DEF ToSet
  <2>4. CASE j \in DOMAIN waiting
    BY <1>2, <2>1, <2>2, <2>3, <2>4 DEF BatchInv, NoneBehind
  <2>5. CASE j = Len(waiting) + 1
    BY <1>1, <1>2, <2>1, <2>2, <2>3, <2>5 DEF BatchInv, OnePartial, Unprocessed
  <2> QED
    BY <2>1, <2>4, <2>5
<1> QED
  BY <1>6, <1>7, <1>8, <1>9, <1>10 DEF BatchInv, OneShort

(* A chunk is what is left of the prompt, or of the budget.                *)
LEMMA ChunkFits ==
  ASSUME SarathiInv, BatchInv, NEW s \in Seqs
  PROVE  /\ NextTokens(s) \in Nat /\ Batched \in Nat /\ ChunkSize - Batched \in Nat
         /\ NextTokens(s) <= seq[s].prompt - seq[s].processed
         /\ Batched + NextTokens(s) <= ChunkSize
         /\ \/ NextTokens(s) = seq[s].prompt - seq[s].processed
            \/ Batched + NextTokens(s) = ChunkSize
         /\ Unprocessed(s) /\ Batched # ChunkSize => NextTokens(s) # 0
         /\ ~Unprocessed(s) => NextTokens(s) = 0
<1> DEFINE left == seq[s].prompt - seq[s].processed
           room == ChunkSize - Batched
<1>1. Batched \in Nat /\ ChunkSize \in Nat /\ Batched <= ChunkSize
  BY BatchIsNat, SarathiAssumption DEF BatchInv, BatchTyped, Budget
<1>2. room \in Nat /\ Batched + room = ChunkSize /\ (room = 0) = (Batched = ChunkSize)
  BY <1>1
<1>3. left \in Nat /\ (left = 0) = ~Unprocessed(s)
  BY DEF SarathiInv, StateTyped, SequenceObjects, BatchInv, BatchTyped, Unprocessed, PromptProcessed
<1>4. NextTokens(s) = Min({left, room})
  BY DEF NextTokens
<1> HIDE DEF left, room
<1>5. NextTokens(s) \in {left, room} /\ NextTokens(s) <= left /\ NextTokens(s) <= room
  BY <1>2, <1>3, <1>4, MinOfTwo
<1> QED
  BY <1>1, <1>2, <1>3, <1>5 DEF left, room

LEMMA ContinuePrefillBatch ==
  ASSUME SarathiInv, BatchInv, ContinuePrefill
  PROVE  BatchInv'
<1> DEFINE s == Min(step.prefills)
           c == NextTokens(s)
<1>1. s \in step.prefills /\ s \in Seqs /\ step.prefills \subseteq Seqs
  BY SeqsSubset, MinMember DEF ContinuePrefill, SarathiInv, StepTyped
<1>2. /\ phase = "prefill" /\ phase' = phase
      /\ step' = [step EXCEPT !.prefills = @ \ {s}, !.kept = @ \cup {s}, !.chunk[s] = c]
      /\ UNCHANGED <<waiting, running, seq>>
  BY DEF ContinuePrefill, Frame
<1>3. /\ c \in Nat /\ Batched \in Nat /\ c <= seq[s].prompt - seq[s].processed
      /\ Batched + c <= ChunkSize
      /\ c = seq[s].prompt - seq[s].processed \/ Batched + c = ChunkSize
      /\ Unprocessed(s) /\ Batched # ChunkSize => c # 0
  BY <1>1, ChunkFits
<1> HIDE DEF s, c
<1>4. /\ step'.kept = step.kept \cup {s} /\ step'.prefills = step.prefills \ {s}
      /\ step'.decodes = step.decodes /\ step'.preempted = step.preempted
      /\ step'.chunk = [step.chunk EXCEPT ![s] = c]
  BY <1>2 DEF SarathiInv, StepTyped
<1>5. /\ \A r \in Seqs : step.chunk[r] = 0 /\ step.chunk \in [Seqs -> Nat]
      /\ step'.chunk \in [Seqs -> Nat] /\ step'.chunk[s] = c
      /\ \A r \in Seqs \ {s} : step'.chunk[r] = 0
  BY <1>1, <1>3, <1>4 DEF BatchInv, BatchTyped
<1>6. /\ s \notin step.kept /\ s \notin step.decodes /\ s \notin step.preempted
      /\ Unprocessed(s)
  <2>1. s \notin step.kept /\ s \in Held
    BY <1>1 DEF SarathiInv, InOneList, Held
  <2> QED
    BY <1>1, <2>1 DEF SarathiInv, Promised, Scheduled, Unprocessed
<1>7. /\ step.prefills = {s} /\ step'.prefills = {}
  BY <1>1, <1>2, <1>4 DEF SarathiInv, Promised, Unprocessed, BatchInv, OnePartial
<1>8. Batched' = Batched + c
  BY <1>1, <1>3, <1>4, <1>5, ChunkAdded
<1>9. /\ Cardinality(step.prefills) = 1 /\ Cardinality(running) = 0
      /\ Cardinality(step'.prefills) = 0
      /\ Cardinality(step'.kept) = Cardinality(step.kept) + 1
      /\ Cardinality(step.kept) \in Nat
  <2>1. running = {} /\ IsFiniteSet(step.kept)
    BY <1>2, SeqsSubset DEF SarathiInv, PhaseOK, StepTyped
  <2>2. Cardinality(step'.kept) = Cardinality(step.kept) + 1 /\ Cardinality(step.kept) \in Nat
    BY <1>4, <1>6, <2>1, CardinalityWith
  <2>3. Cardinality({s}) = 1 /\ Cardinality({}) = 0
    BY FS_EmptySet, FS_Singleton
  <2> QED
    BY <1>7, <2>1, <2>2, <2>3
<1>10. c # 0
  <2>1. 0 + 1 + Batched <= ChunkSize /\ ChunkSize \in Nat
    BY <1>2, <1>9, SarathiAssumption DEF BatchInv, Budget
  <2> QED
    BY <1>3, <1>6, <2>1
<1>11. \A r \in Seqs : r = s => Left(r)' = seq[r].prompt - seq[r].processed
  BY <1>2, <1>4, <1>6 DEF Left
<1>12. Scheduled' = Scheduled \cup {s}
  <2>1. {r \in Seqs : step.chunk[r] # 0} = {} /\ {r \in Seqs : step'.chunk[r] # 0} = {s}
    BY <1>1, <1>5, <1>10
  <2> QED
    BY <1>4, <2>1 DEF Scheduled
<1>13. BatchTyped'
  BY <1>1, <1>2, <1>3, <1>4, <1>5, <1>6, <1>7, <1>11 DEF BatchInv, BatchTyped
<1>14. Budget'
  BY <1>2, <1>3, <1>4, <1>8, <1>9, <1>10, <1>12, SarathiAssumption DEF BatchInv, Budget
<1>15. OnePartial' /\ NoneBehind'
  BY <1>2, <1>4 DEF BatchInv, OnePartial, NoneBehind, Unprocessed
<1>16. Short' \subseteq {s} /\ (Short' # {} => Batched' = ChunkSize)
  <2>1. Short' \subseteq {s}
    BY <1>5 DEF Short
  <2>2. s \in Short' => c < seq[s].prompt - seq[s].processed
    <3>1. \A r \in Short' : r \in Seqs /\ step'.chunk[r] < Left(r)'
      BY DEF Short
    <3> QED
      BY <1>5, <1>11, <3>1
  <2>3. c < seq[s].prompt - seq[s].processed => c # seq[s].prompt - seq[s].processed
    BY <1>3
  <2> QED
    BY <1>3, <1>8, <2>1, <2>2, <2>3
<1>17. OneShort'
  BY <1>16 DEF OneShort
<1> QED
  BY <1>13, <1>14, <1>15, <1>17 DEF BatchInv

LEMMA AdmitPrefillBatch ==
  ASSUME SarathiInv, BatchInv, AdmitPrefill
  PROVE  BatchInv'
<1> DEFINE s == Head(waiting)
           c == NextTokens(s)
<1>1. /\ waiting # <<>> /\ waiting \in Seq(Seqs) /\ s \in ToSet(waiting) /\ waiting' = Tail(waiting)
      /\ ToSet(waiting') = ToSet(waiting) \ {s}
  BY QueueTail DEF AdmitPrefill, SarathiInv, StateTyped, InOneList
<1>2. /\ phase = "admit" /\ phase' = phase /\ c # 0
      /\ step' = [step EXCEPT !.kept = @ \cup {s}, !.chunk[s] = c]
      /\ UNCHANGED <<running, seq>>
  BY DEF AdmitPrefill, Admits, Frame
<1>3. s \in Seqs /\ s \notin Held /\ s \notin Scheduled
  <2>1. s \in arrived /\ s \notin Held
    BY <1>1 DEF SarathiInv, InOneList
  <2>2. s \notin step.kept
    BY <2>1 DEF Held
  <2> QED
    BY <2>1, <2>2 DEF SarathiInv, StateTyped, Promised
<1>4. /\ c \in Nat /\ Batched \in Nat /\ c <= seq[s].prompt - seq[s].processed
      /\ Batched + c <= ChunkSize
      /\ c = seq[s].prompt - seq[s].processed \/ Batched + c = ChunkSize
      /\ Unprocessed(s)
  BY <1>2, <1>3, ChunkFits
<1>5. s = waiting[1]
  BY <1>1
<1> HIDE DEF s, c
<1>6. /\ step'.kept = step.kept \cup {s} /\ step'.prefills = step.prefills
      /\ step'.decodes = step.decodes /\ step'.preempted = step.preempted
      /\ step'.chunk = [step.chunk EXCEPT ![s] = c]
  BY <1>2 DEF SarathiInv, StepTyped
<1>7. /\ step.chunk \in [Seqs -> Nat] /\ step.chunk[s] = 0
      /\ step'.chunk \in [Seqs -> Nat] /\ step'.chunk[s] = c
      /\ \A r \in Seqs \ {s} : step'.chunk[r] = step.chunk[r]
  BY <1>3, <1>4, <1>6 DEF BatchInv, BatchTyped, Scheduled
<1>8. Batched' = Batched + c
  BY <1>3, <1>4, <1>6, <1>7, ChunkAdded
<1>9. s \notin step.kept /\ s \notin step.decodes /\ step.prefills = {} /\ running = {}
  BY <1>2, <1>3 DEF Held, Scheduled, SarathiInv, PhaseOK
<1>10. /\ Cardinality(step'.kept) = Cardinality(step.kept) + 1
       /\ Cardinality(step.kept) \in Nat
  <2>1. IsFiniteSet(step.kept)
    BY SeqsSubset DEF SarathiInv, StepTyped
  <2> QED
    BY <1>6, <1>9, <2>1, CardinalityWith
<1>11. \A r \in Seqs : Left(r)' = Left(r)
  BY <1>2, <1>6 DEF Left
<1>12. /\ seq[s].prompt \in Nat /\ seq[s].processed \in Nat /\ GetLen(seq[s]) \in Nat
       /\ seq[s].prompt <= GetLen(seq[s]) /\ seq[s].processed <= seq[s].prompt
  BY <1>3 DEF SarathiInv, StateTyped, SequenceObjects, GetLen, BatchInv, BatchTyped
<1>13. c <= Left(s)
  BY <1>4, <1>12 DEF Left
<1>14. Scheduled' = Scheduled \cup {s}
  BY <1>2, <1>3, <1>6, <1>7 DEF Scheduled
<1>15. BatchTyped'
  <2>1. \A r \in Seqs : step'.chunk[r] # 0 => r \notin step'.decodes /\ step'.chunk[r] <= Left(r)'
    <3> SUFFICES ASSUME NEW r \in Seqs, step'.chunk[r] # 0
                 PROVE  r \notin step'.decodes /\ step'.chunk[r] <= Left(r)'
      OBVIOUS
    <3>1. CASE r = s
      BY <1>6, <1>7, <1>9, <1>11, <1>13, <3>1
    <3>2. CASE r # s
      BY <1>6, <1>7, <1>11, <3>2 DEF BatchInv, BatchTyped
    <3> QED
      BY <3>1, <3>2
  <2> QED
    BY <1>2, <1>6, <1>7, <1>9, <2>1 DEF BatchInv, BatchTyped
<1>16. Budget'
  <2>1. c > 0 /\ Cardinality({}) = 0
    BY <1>2, <1>4, FS_EmptySet
  <2>2. Cardinality(step.kept) <= Batched /\ step.kept \subseteq Scheduled
    BY DEF BatchInv, Budget
  <2>3. Cardinality(step'.kept) <= Batched' /\ Batched' <= ChunkSize
        /\ 0 + 0 + Batched' <= ChunkSize
    BY <1>4, <1>8, <1>10, <2>1, <2>2, SarathiAssumption
  <2> QED
    BY <1>2, <1>6, <1>9, <1>14, <2>1, <2>2, <2>3 DEF Budget
<1>17. OnePartial'
  BY <1>2, <1>6 DEF BatchInv, OnePartial, Unprocessed
<1>18. NoneBehind'
  <2>1. /\ Len(waiting) \in Nat \ {0} /\ DOMAIN waiting = 1..Len(waiting)
        /\ DOMAIN waiting' = 1..(Len(waiting) - 1)
        /\ \A i \in DOMAIN waiting' : waiting'[i] = waiting[i + 1] /\ i + 1 \in DOMAIN waiting
    BY <1>1
  <2> SUFFICES ASSUME NEW i \in DOMAIN waiting', NEW j \in DOMAIN waiting', i < j,
                      waiting'[i] \in step'.preempted, Unprocessed(waiting'[i])
               PROVE  PromptProcessed(seq[waiting'[j]])
    BY <1>2 DEF NoneBehind, Unprocessed
  <2>2. i + 1 < j + 1
    BY <2>1
  <2> QED
    BY <1>2, <1>6, <2>1, <2>2 DEF BatchInv, NoneBehind
<1>19. Short = {}
  <2>1. Batched # ChunkSize
    BY <1>2, <1>4, SarathiAssumption
  <2> QED
    BY <1>1, <1>2, <1>4, <2>1 DEF BatchInv, OneShort, Unprocessed
<1>20. Short' \subseteq {s}
  BY <1>7, <1>11, <1>19 DEF Short
<1>21. s \in Short' => Batched' = ChunkSize \/ \A r \in ToSet(waiting') : PromptProcessed(seq[r])
  <2>1. CASE s \in step.preempted
    <3>1. /\ Len(waiting) \in Nat \ {0} /\ DOMAIN waiting = 1..Len(waiting)
          /\ DOMAIN waiting' = 1..(Len(waiting) - 1)
          /\ \A i \in DOMAIN waiting' : waiting'[i] = waiting[i + 1] /\ i + 1 \in DOMAIN waiting
                                        /\ 1 < i + 1 /\ 1 \in DOMAIN waiting
      BY <1>1
    <3>2. \A i \in DOMAIN waiting' : PromptProcessed(seq[waiting'[i]])
      BY <1>2, <1>4, <1>5, <2>1, <3>1 DEF BatchInv, NoneBehind
    <3> QED
      BY <3>2 DEF ToSet
  <2>2. CASE s \notin step.preempted
    <3>1. \A r \in Seqs : r = s => Left(r)' = seq[r].prompt - seq[r].processed
      BY <1>2, <1>6, <2>2 DEF Left
    <3>2. s \in Short' => c < seq[s].prompt - seq[s].processed
      <4>1. \A r \in Short' : r \in Seqs /\ step'.chunk[r] < Left(r)'
        BY DEF Short
      <4> QED
        BY <1>7, <3>1, <4>1
    <3>3. c < seq[s].prompt - seq[s].processed => c # seq[s].prompt - seq[s].processed
      BY <1>4, <1>12
    <3> QED
      BY <1>4, <1>8, <3>2, <3>3
  <2> QED
    BY <2>1, <2>2
<1>22. OneShort'
  BY <1>2, <1>20, <1>21 DEF OneShort
<1> QED
  BY <1>15, <1>16, <1>17, <1>18, <1>22 DEF BatchInv

LEMMA EndEmptyStepBatch ==
  ASSUME SarathiInv, BatchInv, EndEmptyStep
  PROVE  BatchInv'
<1>1. /\ phase = "admit" /\ phase' = "idle" /\ running' = step.kept /\ step' = NoStep
      /\ Scheduled = {} /\ UNCHANGED <<waiting, seq>>
  BY DEF EndEmptyStep, NoAdmission, Frame
<1>2. running' = {}
  BY <1>1 DEF BatchInv, Budget
<1>3. BatchTyped'
  BY <1>1 DEF BatchInv, BatchTyped, NoStep
<1>4. Batched' = 0 /\ Cardinality({}) = 0
  <2>1. SumFunctionOnSet(step'.chunk, Seqs) = 0
    BY <1>1, SarathiAssumption, SumZero DEF NoStep
  <2> QED
    BY <1>1, <2>1, FS_EmptySet DEF NoStep, Batched
<1>5. Budget'
  BY <1>1, <1>2, <1>4, SarathiAssumption DEF Budget, NoStep
<1>6. OnePartial' /\ NoneBehind' /\ OneShort'
  BY <1>1, <1>2 DEF OnePartial, NoneBehind, OneShort, Short, NoStep
<1> QED
  BY <1>3, <1>5, <1>6 DEF BatchInv

(* What on_schedule makes of a sequence.                                   *)
LEMMA OnScheduleFields ==
  ASSUME NEW objects \in [Seqs -> SequenceObjects], NEW s \in Seqs
  PROVE  LET o == OnSchedule(objects)[s]
         IN  /\ s \in step.preempted => o.prompt = GetLen(objects[s]) /\ o.processed = 0
             /\ s \notin step.preempted => /\ o.prompt = objects[s].prompt
                                           /\ o.processed = objects[s].processed
             /\ o.status = IF s \in Scheduled THEN "RUNNING"
                           ELSE IF s \in step.preempted THEN "WAITING" ELSE objects[s].status
<1> DEFINE mid == IF s \in step.preempted THEN Preempted(objects[s]) ELSE objects[s]
<1>1. OnSchedule(objects)[s] = IF s \in Scheduled THEN SetStatus(mid, "RUNNING") ELSE mid
  BY DEF OnSchedule
<1>2. /\ mid \in SequenceObjects
      /\ s \in step.preempted => /\ mid.prompt = GetLen(objects[s]) /\ mid.processed = 0
                                 /\ mid.status = "WAITING"
      /\ s \notin step.preempted => mid = objects[s]
  BY ResetType, ResetFields DEF Preempted
<1> HIDE DEF mid
<1>3. "RUNNING" \in Status
  BY DEF Status, Executing
<1> QED
  BY <1>1, <1>2, <1>3, SetStatusFields

LEMMA SendStepBatch ==
  ASSUME SarathiInv, BatchInv, SendStep
  PROVE  BatchInv'
<1>1. /\ phase = "admit" /\ phase' = "execute" /\ running' = step.kept
      /\ seq' = OnSchedule(seq) /\ UNCHANGED <<waiting, step>>
  BY DEF SendStep, NoAdmission
<1>2. Scheduled' = Scheduled /\ Batched' = Batched
  BY <1>1 DEF Scheduled, Batched
<1>3. \A s \in Seqs : /\ seq'[s].prompt \in Nat
                      /\ s \in step.preempted =>
                           seq'[s].prompt = GetLen(seq[s]) /\ seq'[s].processed = 0
                      /\ s \notin step.preempted => /\ seq'[s].prompt = seq[s].prompt
                                                    /\ seq'[s].processed = seq[s].processed
  BY <1>1, OnScheduleFields, OnScheduleKeeps DEF SarathiInv, StateTyped, SequenceObjects
<1>4. \A s \in Seqs : Left(s)' = Left(s)
  BY <1>1, <1>3 DEF Left
<1>5. BatchTyped'
  <2>1. \A s \in Seqs : seq'[s].processed <= seq'[s].prompt
    BY <1>3 DEF BatchInv, BatchTyped
  <2>2. \A s \in step.decodes : s \in Seqs /\ PromptProcessed(seq'[s])
    BY <1>3 DEF BatchInv, BatchTyped, PromptProcessed, SarathiInv, StepTyped
  <2>3. step.prefills = {}
    BY <1>1 DEF SarathiInv, PhaseOK
  <2> QED
    BY <1>1, <1>4, <2>1, <2>2, <2>3 DEF BatchInv, BatchTyped
<1>6. Budget' /\ OnePartial' /\ NoneBehind'
  BY <1>1, <1>2 DEF BatchInv, Budget, OnePartial, NoneBehind
<1>7. Short' = Short
  BY <1>1, <1>4 DEF Short
<1> QED
  BY <1>1, <1>5, <1>6, <1>7 DEF BatchInv, OneShort

(* The chunks are added to what is processed.                              *)
LEMMA StepProcesses ==
  ASSUME NEW objects \in [Seqs -> SequenceObjects], NEW stop, NEW s \in Seqs, s \in Scheduled,
         step.chunk[s] \in Nat
  PROVE  /\ Step(objects, stop)[s].prompt = objects[s].prompt
         /\ Step(objects, stop)[s].processed = objects[s].processed + step.chunk[s]
         /\ Step(objects, stop)[s].status \in {"PAUSED", "FINISHED_STOPPED", "FINISHED_LENGTH_CAPPED"}
<1> DEFINE o == objects[s]
           c == step.chunk[s]
           m == shape[s].maxTokens
           eos == s \in stop
<1>1. Step(objects, stop)[s] = CompleteStep(o, c, m, FALSE, eos)
  BY DEF Step
<1>2. o \in SequenceObjects /\ o.processed + c \in Nat /\ eos \in BOOLEAN /\ FALSE \in BOOLEAN
  BY DEF SequenceObjects
<1> HIDE DEF o, c, m, eos
<1>3. /\ CompleteStep(o, c, m, FALSE, eos).prompt = o.prompt
      /\ CompleteStep(o, c, m, FALSE, eos).processed = o.processed + c
  BY <1>2, StepProgress
<1>4. CompleteStep(o, c, m, FALSE, eos).status
        \in {"PAUSED", "FINISHED_STOPPED", "FINISHED_LENGTH_CAPPED"}
  BY <1>2, StepStatus
<1> QED
  BY <1>1, <1>3, <1>4 DEF o, c

LEMMA ExecuteStepBatch ==
  ASSUME SarathiInv, BatchInv, NEW stop \in SUBSET Seqs, ExecuteStep(stop)
  PROVE  BatchInv'
<1>1. /\ phase = "execute" /\ phase' = "idle" /\ running' \subseteq running
      /\ seq' = Step(seq, stop) /\ step' = NoStep
  BY DEF ExecuteStep
<1>2. /\ running = step.kept /\ running \subseteq Scheduled /\ running \subseteq Seqs
      /\ seq \in [Seqs -> SequenceObjects] /\ step.chunk \in [Seqs -> Nat]
  BY <1>1 DEF SarathiInv, PhaseOK, StateTyped, BatchInv, Budget, BatchTyped
<1>3. \A s \in Seqs : IF s \in Scheduled
                      THEN /\ seq'[s].prompt = seq[s].prompt
                           /\ seq'[s].processed = seq[s].processed + step.chunk[s]
                      ELSE seq'[s] = seq[s]
  <2> SUFFICES ASSUME NEW s \in Seqs
               PROVE  IF s \in Scheduled
                      THEN /\ seq'[s].prompt = seq[s].prompt
                           /\ seq'[s].processed = seq[s].processed + step.chunk[s]
                      ELSE seq'[s] = seq[s]
    OBVIOUS
  <2>1. CASE s \in Scheduled
    BY <1>1, <1>2, <2>1, StepProcesses
  <2>2. CASE s \notin Scheduled
    BY <1>1, <2>2 DEF Step
  <2> QED
    BY <2>1, <2>2
<1>4. \A s \in Seqs : /\ seq[s].prompt \in Nat /\ seq[s].processed \in Nat
                      /\ seq[s].processed <= seq[s].prompt
                      /\ step.chunk[s] \in Nat
                      /\ step.chunk[s] # 0 => step.chunk[s] <= seq[s].prompt - seq[s].processed
  BY <1>1, <1>2 DEF SequenceObjects, BatchInv, BatchTyped, Left
<1>5. BatchTyped'
  <2>1. \A s \in Seqs : seq'[s].processed <= seq'[s].prompt
    BY <1>3, <1>4
  <2> QED
    BY <1>1, <2>1 DEF BatchTyped, NoStep
<1>6. Batched' = 0 /\ Cardinality({}) = 0
  <2>1. SumFunctionOnSet(step'.chunk, Seqs) = 0
    BY <1>1, SarathiAssumption, SumZero DEF NoStep
  <2> QED
    BY <1>1, <2>1, FS_EmptySet DEF NoStep, Batched
<1>7. Cardinality(running') \in Nat /\ Cardinality(running') <= ChunkSize
  <2>1. IsFiniteSet(running) /\ IsFiniteSet(running')
    BY <1>1, <1>2, SeqsSubset, FS_Subset
  <2>2. /\ Cardinality(running') <= Cardinality(running)
        /\ Cardinality(running') \in Nat /\ Cardinality(running) \in Nat
    BY <1>1, <2>1, FS_Subset, FS_CardinalityType
  <2>3. Batched \in Nat /\ ChunkSize \in Nat
    BY <1>2, BatchIsNat, SarathiAssumption
  <2> QED
    BY <1>2, <2>2, <2>3 DEF BatchInv, Budget
<1>8. Budget'
  BY <1>1, <1>6, <1>7, SarathiAssumption DEF Budget, NoStep
<1>9. \A s \in running' : Unprocessed(s)' => s \in Short
  <2> SUFFICES ASSUME NEW s \in running', ~PromptProcessed(seq'[s]) PROVE s \in Short
    BY DEF Unprocessed
  <2>1. s \in Seqs /\ s \in Scheduled
    BY <1>1, <1>2
  <2>2. seq[s].processed + step.chunk[s] # seq[s].prompt
    BY <1>3, <2>1 DEF PromptProcessed
  <2>3. s \notin step.decodes
    <3> SUFFICES ASSUME s \in step.decodes PROVE FALSE
      OBVIOUS
    <3>1. seq[s].processed = seq[s].prompt /\ step.chunk[s] = 0
      BY <2>1 DEF BatchInv, BatchTyped, PromptProcessed
    <3> QED
      BY <1>4, <2>1, <2>2, <3>1
  <2>4. step.chunk[s] # 0
    BY <2>1, <2>3 DEF Scheduled
  <2>5. step.chunk[s] < seq[s].prompt - seq[s].processed
    BY <1>4, <2>1, <2>2, <2>4
  <2> QED
    BY <1>1, <2>1, <2>4, <2>5 DEF Short, Left
<1>10. OnePartial'
  BY <1>1, <1>9 DEF OnePartial, NoStep, BatchInv, OneShort
<1>11. NoneBehind' /\ OneShort'
  BY <1>1 DEF NoneBehind, OneShort, Short, NoStep
<1> QED
  BY <1>5, <1>8, <1>10, <1>11 DEF BatchInv

LEMMA BatchInductive == SarathiInv /\ BatchInv /\ [Next]_vars => BatchInv'
<1> SUFFICES ASSUME SarathiInv, BatchInv, [Next]_vars PROVE BatchInv'
  OBVIOUS
<1>1. CASE UNCHANGED vars
  <2>1. UNCHANGED <<step, waiting, seq, running>> /\ phase' = phase
    BY <1>1 DEF vars, schedVars
  <2> QED
    BY <2>1, QuietBatch
<1>2. CASE BeginStep \/ EndDecodes \/ EndPrefills
  <2>1. /\ UNCHANGED <<step, waiting, seq, running>>
        /\ \/ phase = "idle" /\ phase' = "decode"
           \/ phase = "decode" /\ phase' = "prefill"
           \/ phase = "prefill" /\ phase' = "admit"
    BY <1>2 DEF BeginStep, EndDecodes, EndPrefills, Frame
  <2> QED
    BY <2>1, QuietBatch
<1> QED
  BY <1>1, <1>2, AddRequestBatch, DeferPrefillBatch, ScheduleDecodeBatch, PreemptBatch,
     ContinuePrefillBatch, AdmitPrefillBatch, EndEmptyStepBatch, SendStepBatch,
     ExecuteStepBatch DEF Next, RunStep

(* No iteration has more than chunk_size tokens, and no chunk is negative, *)
(* whatever max_num_seqs is.                                               *)
THEOREM SarathiBatchFits == Spec => []BatchWithinChunk
<1>1. SarathiInv /\ BatchInv => BatchWithinChunk
  BY DEF BatchInv, BatchTyped, Budget, BatchWithinChunk
<1> QED
  BY <1>1, SarathiInit, SarathiInductive, BatchInitially, BatchInductive, PTL DEF Spec

(* A prompt that is partly processed has a token in every batch, as the    *)
(* condition in the code, which a comment says is always false, is.        *)
THEOREM SarathiPrefillsGoOn == Spec => []PrefillsProgress
<1>1. ASSUME SarathiInv, BatchInv PROVE PrefillsProgress
  <2> SUFFICES ASSUME phase = "prefill", step.prefills # {}
               PROVE  NextTokens(Min(step.prefills)) > 0
    BY DEF PrefillsProgress
  <2> DEFINE s == Min(step.prefills)
  <2>1. s \in step.prefills /\ s \in Seqs /\ Unprocessed(s)
    BY <1>1, SeqsSubset, MinMember DEF SarathiInv, StepTyped, Promised, Unprocessed
  <2>2. Cardinality(step.prefills) > 0 /\ Cardinality(step.prefills) \in Nat
    <3>1. IsFiniteSet(step.prefills) /\ Cardinality(step.prefills \ {s}) \in Nat
          /\ Cardinality(step.prefills) \in Nat
          /\ Cardinality(step.prefills \ {s}) = Cardinality(step.prefills) - 1
      BY <2>1, <1>1, SeqsSubset, CardinalityWithout DEF SarathiInv, StepTyped
    <3> QED
      BY <3>1
  <2>3. Cardinality(running) = 0
    BY <1>1, FS_EmptySet DEF SarathiInv, PhaseOK
  <2>4. 0 + Cardinality(step.prefills) + Batched <= ChunkSize
    BY <1>1, <2>3 DEF BatchInv, Budget
  <2>5. Batched \in Nat /\ NextTokens(s) \in Nat
        /\ (Unprocessed(s) /\ Batched # ChunkSize => NextTokens(s) # 0)
    BY <1>1, <2>1, ChunkFits
  <2> QED
    BY <2>1, <2>2, <2>4, <2>5, SarathiAssumption
<1> QED
  BY <1>1, SarathiInit, SarathiInductive, BatchInitially, BatchInductive, PTL DEF Spec

-----------------------------------------------------------------------------
(* The worker replays the step.                                            *)

(* No table is longer than the cache.                                      *)
CacheBounds ==
  /\ Free(table) >= 0
  /\ wtable \in [Seqs -> 0..NumBlocks]
  /\ step.preempted \subseteq arrived

(* The blocks the worker will have for s once it has replayed the step;    *)
Expected(s) ==
  IF s \in Scheduled
  THEN IF s \in step.preempted \/ wtable[s] = 0 THEN LogicalBlocks(wseq[s])
                                                ELSE AppendSlot(wtable[s], wseq[s])
  ELSE IF s \in step.preempted THEN 0 ELSE wtable[s]

(* the sequences for which it will allocate a table.                       *)
Fresh == {s \in Scheduled : s \in step.preempted \/ wtable[s] = 0}

SameObjects ==
  \A s \in Seqs \ ended : seq[s] = IF phase = "execute" THEN OnSchedule(wseq)[s] ELSE wseq[s]

SameBlocks ==
  /\ \A s \in Seqs : table[s] = Expected(s)
  /\ \A s \in Held : table[s] # 0

Suffices ==
  /\ phase \in {"idle", "decode", "prefill"} => Fresh = {}
  /\ Fresh # {} => Free(table) >= WatermarkBlocks

Statuses ==
  /\ \A s \in Seqs \ ended : wseq[s].status \in {"WAITING", "PAUSED"}
  /\ \A s \in step.preempted : wseq[s].status = "PAUSED"
  /\ phase # "execute" => \A s \in running \cup step.prefills : wseq[s].status = "PAUSED"
  /\ step.preempted \subseteq ToSet(waiting) \cup Scheduled

(* A sequence that holds blocks has room for another token, so a step that *)
(* preempts runs a sequence, too, and its preemptions reach the worker.    *)
Lengths ==
  /\ \A s \in Seqs : GetLen(seq[s]) # 0 /\ (Unprocessed(s) => seq[s].output = 0)
  /\ \A s \in Held : seq[s].prompt <= PromptLimit /\ seq[s].output < shape[s].maxTokens
  /\ \A s \in Held \cap step.preempted : seq[s].output = 0
  /\ step.preempted # {} => Held # {}

SyncInv == SameObjects /\ SameBlocks /\ Suffices /\ Statuses /\ Lengths

LEMMA FreeChanges ==
  ASSUME NEW t \in [Seqs -> Nat], NEW s \in Seqs, NEW n \in Nat
  PROVE  Free(t) \in Int /\ Free([t EXCEPT ![s] = n]) = Free(t) + t[s] - n
<1> DEFINE u == [t EXCEPT ![s] = n]
<1>1. u[s] = n /\ (\A r \in Seqs \ {s} : u[r] = t[r]) /\ \A r \in Seqs : t[r] \in Int
  OBVIOUS
<1> HIDE DEF u
<1>2. IsFiniteSet(Seqs) /\ u[s] \in Int /\ NumBlocks \in Nat /\ Seqs \in SUBSET Seqs
  BY <1>1, SarathiAssumption
<1>3. SumFunctionOnSet(u, Seqs) = SumFunctionOnSet(t, Seqs) + (u[s] - t[s])
  BY ONLY <1>1, <1>2, s \in Seqs, SumUpdate
<1>4. SumFunctionOnSet(t, Seqs) \in Int
  BY ONLY <1>1, <1>2, SumInt
<1>5. Free(t) \in Int /\ Free(u) = Free(t) + t[s] - n
  BY <1>1, <1>2, <1>3, <1>4 DEF Free
<1> QED
  BY <1>5 DEF u

LEMMA FreeAfter ==
  ASSUME table \in [Seqs -> Nat], NEW s \in Seqs, NEW n \in Nat,
         table' = [table EXCEPT ![s] = n]
  PROVE  Free(table) \in Int /\ Free(table') = Free(table) + table[s] - n
  BY FreeChanges

LEMMA FreeGrows ==
  ASSUME NEW t \in [Seqs -> Nat], NEW u \in [Seqs -> Nat], \A s \in Seqs : u[s] <= t[s]
  PROVE  Free(u) >= Free(t) /\ Free(u) \in Int /\ Free(t) \in Int
<1>1. IsFiniteSet(Seqs) /\ NumBlocks \in Nat
      /\ \A x \in Seqs : u[x] \in Int /\ t[x] \in Int /\ u[x] <= t[x]
  BY SarathiAssumption
<1>2. SumFunctionOnSet(u, Seqs) <= SumFunctionOnSet(t, Seqs)
  BY ONLY <1>1, SumMonotone
<1>3. SumFunctionOnSet(u, Seqs) \in Int /\ SumFunctionOnSet(t, Seqs) \in Int
  <2>1. Seqs \in SUBSET Seqs
    OBVIOUS
  <2> QED
    BY ONLY <1>1, <2>1, SumInt
<1> QED
  BY <1>1, <1>2, <1>3 DEF Free

LEMMA TableBound ==
  ASSUME NEW t \in [Seqs -> Nat], Free(t) >= 0
  PROVE  \A s \in Seqs : t[s] \in 0..NumBlocks
<1>1. IsFiniteSet(Seqs) /\ (\A y \in Seqs : t[y] \in Nat) /\ NumBlocks \in Nat
  BY SarathiAssumption
<1>2. SumFunctionOnSet(t, Seqs) \in Nat
      /\ \A s \in Seqs : t[s] <= SumFunctionOnSet(t, Seqs)
  BY ONLY <1>1, SumNat, SumMember
<1> QED
  BY <1>1, <1>2 DEF Free

LEMMA CacheInitially == Init => CacheBounds
<1> SUFFICES ASSUME Init PROVE CacheBounds
  OBVIOUS
<1>1. step.preempted = {} /\ table = [s \in Seqs |-> 0] /\ wtable = table
  BY DEF Init, NoStep
<1>2. SumFunctionOnSet(table, Seqs) = 0
  BY <1>1, SarathiAssumption, SumZero
<1> QED
  BY <1>1, <1>2, SarathiAssumption DEF CacheBounds, Free

LEMMA ExecuteStepCache ==
  ASSUME SarathiInv, CacheBounds, NEW stop \in SUBSET Seqs, ExecuteStep(stop)
  PROVE  CacheBounds'
<1> DEFINE gone == {s \in Scheduled : Step(OnSchedule(wseq), stop)[s].status \in Finished}
           done == {s \in Scheduled : Step(seq, stop)[s].status \in Finished}
<1>1. /\ WorkerCan /\ step' = NoStep
      /\ wtable' = [s \in Seqs |-> IF s \in gone THEN 0 ELSE WorkerTable[s]]
      /\ table' = [s \in Seqs |-> IF s \in running \cap done THEN 0 ELSE table[s]]
  BY DEF ExecuteStep
<1> HIDE DEF gone, done
<1>2. WorkerTable \in [Seqs -> Nat]
  <2>1. \A s \in Seqs : /\ WorkerFreed[s] \in Nat
                        /\ LogicalBlocks(OnSchedule(wseq)[s]) \in Nat
    <3>1. OnSchedule(wseq) \in [Seqs -> SequenceObjects]
      BY OnScheduleKeeps DEF SarathiInv, StateTyped
    <3>2. \A s \in Seqs : GetLen(OnSchedule(wseq)[s]) \in Nat
      BY <3>1 DEF SequenceObjects, GetLen
    <3> QED
      BY <3>2, CeilDivType, BlockSizeAssumption DEF WorkerFreed, CacheBounds, LogicalBlocks
  <2> QED
    BY <2>1 DEF WorkerTable, AppendSlot
<1>3. wtable' \in [Seqs -> 0..NumBlocks]
  <2>1. Free(WorkerTable) >= 0
    BY <1>1 DEF WorkerCan
  <2> QED
    BY <1>1, <1>2, <2>1, TableBound, SarathiAssumption
<1>4. Free(table') >= 0
  <2>1. /\ table \in [Seqs -> Nat] /\ table' \in [Seqs -> Nat]
        /\ \A s \in Seqs : table'[s] <= table[s]
    BY <1>1 DEF SarathiInv, StateTyped
  <2> QED
    BY <2>1, FreeGrows DEF CacheBounds
<1> QED
  BY <1>1, <1>3, <1>4 DEF CacheBounds, NoStep

LEMMA CacheInductive == SarathiInv /\ CacheBounds /\ [Next]_vars => CacheBounds'
<1> SUFFICES ASSUME SarathiInv, CacheBounds, [Next]_vars PROVE CacheBounds'
  OBVIOUS
<1>1. CASE ScheduleDecode
  <2> DEFINE s == Min(running)
             n == AppendSlot(table[s], seq[s])
  <2>1. s \in running /\ running \subseteq Seqs /\ table \in [Seqs -> Nat]
    BY <1>1, SeqsSubset, MinMember DEF ScheduleDecode, DecodeHead, SarathiInv, StateTyped
  <2>2. /\ Free(table) > 0 /\ table' = [table EXCEPT ![s] = n]
        /\ step'.preempted = step.preempted /\ UNCHANGED <<wtable, arrived>>
    BY <1>1 DEF ScheduleDecode, Frame, SarathiInv, StepTyped
  <2>3. n \in Nat /\ n \in {table[s], table[s] + 1} /\ table[s] \in Nat
    BY <2>1 DEF AppendSlot
  <2> HIDE DEF s, n
  <2>4. Free(table) \in Int /\ Free(table') = Free(table) + table[s] - n
    BY <2>1, <2>2, <2>3, FreeAfter
  <2>5. Free(table') >= 0
    BY <2>2, <2>3, <2>4
  <2> QED
    BY <2>2, <2>5 DEF CacheBounds
<1>2. CASE Preempt
  <2> DEFINE v == Max(running)
  <2>1. v \in running /\ running \subseteq Seqs /\ table \in [Seqs -> Nat] /\ v \in arrived
    BY <1>2, SeqsSubset, MaxMember
       DEF Preempt, DecodeHead, SarathiInv, StateTyped, InOneList, Held
  <2>2. /\ table' = [table EXCEPT ![v] = 0]
        /\ step'.preempted = step.preempted \cup {v} /\ UNCHANGED <<wtable, arrived>>
    BY <1>2 DEF Preempt, Frame, SarathiInv, StepTyped
  <2> HIDE DEF v
  <2>3. Free(table) \in Int /\ Free(table') = Free(table) + table[v] - 0 /\ table[v] \in Nat
    BY <2>1, <2>2, FreeAfter
  <2>4. Free(table') >= 0
    BY <2>3 DEF CacheBounds
  <2> QED
    BY <2>1, <2>2, <2>4 DEF CacheBounds
<1>3. CASE AdmitPrefill
  <2> DEFINE s == Head(waiting)
             n == LogicalBlocks(seq[s])
  <2>1. s \in Seqs /\ table \in [Seqs -> Nat] /\ n \in Nat
    BY <1>3, QueueTail, BlocksType DEF AdmitPrefill, SarathiInv, StateTyped, InOneList
  <2>2. /\ Free(table) - n >= WatermarkBlocks /\ table' = [table EXCEPT ![s] = n]
        /\ step'.preempted = step.preempted /\ UNCHANGED <<wtable, arrived>>
    BY <1>3 DEF AdmitPrefill, Admits, Frame, SarathiInv, StepTyped
  <2> HIDE DEF s, n
  <2>3. Free(table) \in Int /\ Free(table') = Free(table) + table[s] - n /\ table[s] \in Nat
    BY <2>1, <2>2, FreeAfter
  <2>4. Free(table') >= 0
    BY <2>1, <2>2, <2>3, SarathiAssumption
  <2> QED
    BY <2>2, <2>4 DEF CacheBounds
<1>4. CASE \E s \in Seqs : AddRequest(s)
  BY <1>4 DEF AddRequest, CacheBounds
<1>5. CASE BeginStep \/ DeferPrefill \/ EndDecodes \/ ContinuePrefill \/ EndPrefills
  <2>1. step'.preempted = step.preempted /\ UNCHANGED <<table, wtable, arrived>>
    BY <1>5 DEF BeginStep, DeferPrefill, EndDecodes, ContinuePrefill, EndPrefills, Frame,
                SarathiInv, StepTyped
  <2> QED
    BY <2>1 DEF CacheBounds
<1>6. CASE EndEmptyStep \/ SendStep
  BY <1>6 DEF EndEmptyStep, SendStep, Frame, CacheBounds, NoStep
<1>7. CASE UNCHANGED vars
  BY <1>7 DEF vars, schedVars, CacheBounds
<1> QED
  BY <1>1, <1>2, <1>3, <1>4, <1>5, <1>6, <1>7, ExecuteStepCache DEF Next, RunStep

(* A sequence the step has not come to yet.                                *)
LEMMA NotYetStepped ==
  ASSUME SarathiInv, SyncInv, phase # "execute", NEW s \in running \cup step.prefills
  PROVE  /\ s \in Seqs \ ended /\ s \in Held /\ s \notin Scheduled /\ s \notin step.preempted
         /\ table[s] = wtable[s] /\ wtable[s] # 0 /\ seq[s] = wseq[s]
<1>1. s \in Held /\ s \in Seqs \ ended
  BY DEF SarathiInv, InOneList, StateTyped, Held
<1>2. s \notin Scheduled /\ s \notin step.preempted
  BY <1>1 DEF SarathiInv, InOneList, Promised
<1> QED
  BY <1>1, <1>2 DEF SyncInv, SameObjects, SameBlocks, Expected

LEMMA SyncInitially == Init => SyncInv
<1> SUFFICES ASSUME Init PROVE SyncInv
  OBVIOUS
<1>1. /\ step = NoStep /\ waiting = <<>> /\ running = {} /\ phase = "idle" /\ ended = {}
      /\ shape \in [Seqs -> Shapes] /\ seq = [s \in Seqs |-> NewObject(shape[s].prompt)]
      /\ wseq = seq /\ table = [s \in Seqs |-> 0] /\ wtable = table
  BY DEF Init
<1>2. Scheduled = {} /\ Held = {}
  BY <1>1 DEF Scheduled, Held, NoStep
<1>3. SameObjects
  BY <1>1 DEF SameObjects
<1>4. SameBlocks
  BY <1>1, <1>2 DEF SameBlocks, Expected, NoStep
<1>5. Suffices
  BY <1>2 DEF Suffices, Fresh
<1>6. \A s \in Seqs : /\ seq[s].status = "WAITING" /\ GetLen(seq[s]) # 0
                      /\ seq[s].output = 0
  <2> SUFFICES ASSUME NEW s \in Seqs
               PROVE  seq[s].status = "WAITING" /\ GetLen(seq[s]) # 0 /\ seq[s].output = 0
    OBVIOUS
  <2>1. seq[s] = NewObject(shape[s].prompt) /\ shape[s].prompt \in Nat \ {0}
    BY <1>1, SarathiAssumption
  <2> QED
    BY <2>1 DEF NewObject, GetLen
<1> QED
  BY <1>1, <1>2, <1>3, <1>4, <1>5, <1>6 DEF SyncInv, Statuses, Lengths, NoStep

LEMMA QuietSync ==
  ASSUME SyncInv, UNCHANGED <<step, waiting, seq, wseq, running, table, wtable, ended, shape>>,
         \/ phase' = phase
         \/ phase = "idle" /\ phase' = "decode"
         \/ phase = "decode" /\ phase' = "prefill"
         \/ phase = "prefill" /\ phase' = "admit"
  PROVE  SyncInv'
<1>1. /\ Scheduled' = Scheduled /\ Held' = Held
      /\ (phase' # "execute") = (phase # "execute")
      /\ (phase' = "execute") = (phase = "execute")
      /\ \A s : Unprocessed(s)' = Unprocessed(s)
  BY DEF Scheduled, Held, Unprocessed
<1>2. /\ \A s : Expected(s)' = Expected(s)
      /\ Fresh' = Fresh
  BY <1>1 DEF Expected, Fresh
<1>3. SameObjects'
  <2>1. \A s : OnSchedule(wseq)[s]' = OnSchedule(wseq)[s]
    BY <1>1 DEF OnSchedule
  <2> QED
    BY <1>1, <2>1 DEF SyncInv, SameObjects
<1>4. SameBlocks' /\ Statuses' /\ Lengths'
  BY <1>1, <1>2 DEF SyncInv, SameBlocks, Statuses, Lengths
<1>5. Suffices'
  BY <1>1, <1>2 DEF SyncInv, Suffices
<1> QED
  BY <1>3, <1>4, <1>5 DEF SyncInv

LEMMA AddRequestSync ==
  ASSUME SarathiInv, SyncInv, NEW s \in Seqs, AddRequest(s)
  PROVE  SyncInv'
<1>1. /\ phase = "idle"
      /\ UNCHANGED <<seq, wseq, running, phase, step, ended, table, wtable, shape>>
      /\ ToSet(waiting) \subseteq ToSet(waiting')
  <2>1. waiting \in Seq(Seqs) /\ waiting' = Append(waiting, s)
    BY DEF AddRequest, SarathiInv, StateTyped
  <2>2. /\ DOMAIN waiting \subseteq DOMAIN waiting'
        /\ \A i \in DOMAIN waiting : waiting'[i] = waiting[i]
    BY <2>1
  <2> QED
    BY <2>2 DEF AddRequest, ToSet
<1>2. /\ Scheduled' = Scheduled /\ Held' = Held
      /\ \A r : Unprocessed(r)' = Unprocessed(r)
  BY <1>1 DEF Scheduled, Held, Unprocessed
<1>3. /\ \A r : Expected(r)' = Expected(r)
      /\ Fresh' = Fresh
  BY <1>1, <1>2 DEF Expected, Fresh
<1> QED
  BY <1>1, <1>2, <1>3 DEF SyncInv, SameObjects, SameBlocks, Suffices, Statuses, Lengths

LEMMA DeferPrefillSync ==
  ASSUME SarathiInv, SyncInv, DeferPrefill
  PROVE  SyncInv'
<1> DEFINE s == Min(running)
<1>1. s \in running
  BY SeqsSubset, MinMember DEF DeferPrefill, SarathiInv, StateTyped
<1>2. /\ phase = "decode" /\ phase' = phase
      /\ running' = running \ {s}
      /\ step' = [step EXCEPT !.prefills = @ \cup {s}]
      /\ UNCHANGED <<waiting, table, shape, arrived, ended, seq, wseq, wtable>>
  BY DEF DeferPrefill, Frame
<1> HIDE DEF s
<1>3. /\ step'.kept = step.kept /\ step'.prefills = step.prefills \cup {s}
      /\ step'.decodes = step.decodes /\ step'.preempted = step.preempted
      /\ step'.chunk = step.chunk
  BY <1>2 DEF SarathiInv, StepTyped
<1>4. /\ Held' = Held /\ Scheduled' = Scheduled
      /\ \A r : Unprocessed(r)' = Unprocessed(r)
      /\ running' \cup step'.prefills = running \cup step.prefills
  BY <1>1, <1>2, <1>3 DEF Held, Scheduled, Unprocessed
<1>5. /\ \A r : Expected(r)' = Expected(r)
      /\ Fresh' = Fresh
  BY <1>2, <1>3, <1>4 DEF Expected, Fresh
<1> QED
  BY <1>2, <1>3, <1>4, <1>5 DEF SyncInv, SameObjects, SameBlocks, Suffices, Statuses, Lengths

LEMMA ScheduleDecodeSync ==
  ASSUME SarathiInv, SyncInv, ScheduleDecode
  PROVE  SyncInv'
<1> DEFINE s == Min(running)
           n == AppendSlot(table[s], seq[s])
<1>1. s \in running
  BY SeqsSubset, MinMember DEF ScheduleDecode, DecodeHead, SarathiInv, StateTyped
<1>2. /\ phase = "decode" /\ phase' = phase /\ Free(table) > 0
      /\ running' = running \ {s}
      /\ table' = [table EXCEPT ![s] = n]
      /\ step' = [step EXCEPT !.kept = @ \cup {s}, !.decodes = @ \cup {s}]
      /\ UNCHANGED <<waiting, shape, arrived, ended, seq, wseq, wtable>>
  BY DEF ScheduleDecode, DecodeHead, Frame
<1>3. /\ s \in Seqs \ ended /\ s \in Held /\ s \notin Scheduled /\ s \notin step.preempted
      /\ table[s] = wtable[s] /\ wtable[s] # 0 /\ seq[s] = wseq[s]
  BY <1>1, <1>2, NotYetStepped
<1>4. n \in Nat /\ n \in {table[s], table[s] + 1} /\ n # 0 /\ n = AppendSlot(wtable[s], wseq[s])
  <2>1. table[s] \in Nat /\ LogicalBlocks(seq[s]) \in Nat
    BY <1>3, BlocksType DEF SarathiInv, StateTyped
  <2> QED
    BY <1>3, <2>1 DEF AppendSlot
<1> HIDE DEF s, n
<1>5. /\ step'.kept = step.kept \cup {s} /\ step'.prefills = step.prefills
      /\ step'.decodes = step.decodes \cup {s} /\ step'.preempted = step.preempted
      /\ step'.chunk = step.chunk
  BY <1>2 DEF SarathiInv, StepTyped
<1>6. /\ Held' = Held /\ Scheduled' = Scheduled \cup {s}
      /\ \A r : Unprocessed(r)' = Unprocessed(r)
  BY <1>1, <1>2, <1>5 DEF Held, Scheduled, Unprocessed
<1>7. /\ table' \in [Seqs -> Nat] /\ table'[s] = n
      /\ \A r \in Seqs \ {s} : table'[r] = table[r]
  BY <1>2, <1>3, <1>4 DEF SarathiInv, StateTyped
<1>8. \A r \in Seqs : table'[r] = Expected(r)'
  <2> SUFFICES ASSUME NEW r \in Seqs PROVE table'[r] = Expected(r)'
    OBVIOUS
  <2>1. CASE r = s
    BY <1>2, <1>3, <1>4, <1>5, <1>6, <1>7, <2>1 DEF Expected
  <2>2. CASE r # s
    BY <1>2, <1>5, <1>6, <1>7, <2>2 DEF SyncInv, SameBlocks, Expected
  <2> QED
    BY <2>1, <2>2
<1>9. SameBlocks'
  <2>1. \A r \in Held : r \in Seqs /\ table'[r] # 0
    BY <1>4, <1>7 DEF SyncInv, SameBlocks, SarathiInv, InOneList, StateTyped
  <2> QED
    BY <1>2, <1>6, <1>8, <2>1 DEF SyncInv, SameBlocks
<1>10. Suffices'
  BY <1>2, <1>3, <1>5, <1>6 DEF Fresh, SyncInv, Suffices
<1>11. SameObjects' /\ Statuses' /\ Lengths'
  BY <1>2, <1>5, <1>6 DEF SyncInv, SameObjects, Statuses, Lengths
<1> QED
  BY <1>9, <1>10, <1>11 DEF SyncInv

(* Requests that fit leave a block free when one sequence holds them all.  *)
LEMMA LastHolderHasRoom ==
  ASSUME SarathiInv, SyncInv, SarathiRequestsFit, NEW v \in Seqs, Held = {v}
  PROVE  Free(table) > 0
<1>1. IsFiniteSet(Seqs) /\ (\A y \in Seqs : table[y] \in Nat /\ table[y] \in Int)
      /\ NumBlocks \in Nat \ {0} /\ PromptLimit \in Nat
  BY SarathiAssumption, BlockSizeAssumption DEF SarathiInv, StateTyped
<1>2. SumFunctionOnSet(table, Seqs) = table[v]
  <2>1. /\ SumFunctionOnSet(table, Seqs) = table[v] + SumFunctionOnSet(table, Seqs \ {v})
        /\ Seqs \in SUBSET Seqs
    BY <1>1, SumRemove
  <2>2. IsFiniteSet(Seqs \ {v}) /\ \A s \in Seqs \ {v} : table[s] = 0
    BY <1>1, FS_RemoveElement DEF SarathiInv, BlocksCover
  <2>3. SumFunctionOnSet(table, Seqs \ {v}) = 0
    BY <2>2, SumZero
  <2> QED
    BY <1>1, <2>1, <2>3
<1>3. GetLen(seq[v]) \in Nat /\ GetLen(seq[v]) <= (NumBlocks - 1) * BlockSize
  <2>1. /\ shape[v] \in Shapes /\ shape[v].maxTokens \in Nat /\ seq[v] \in SequenceObjects
        /\ seq[v].prompt <= PromptLimit /\ seq[v].output < shape[v].maxTokens
    BY SarathiAssumption DEF SarathiInv, StateTyped, SyncInv, Lengths
  <2>2. PromptLimit + shape[v].maxTokens - 1 <= (NumBlocks - 1) * BlockSize
    BY <2>1 DEF SarathiRequestsFit
  <2> DEFINE room == (NumBlocks - 1) * BlockSize
  <2>3. room \in Nat
    BY <1>1, BlockSizeAssumption
  <2>4. PromptLimit + shape[v].maxTokens - 1 <= room
    BY <2>2
  <2> HIDE DEF room
  <2>5. seq[v].prompt \in Nat /\ seq[v].output \in Nat
    BY <2>1 DEF SequenceObjects
  <2>6. seq[v].prompt + seq[v].output \in Nat /\ seq[v].prompt + seq[v].output <= room
    BY <1>1, <2>1, <2>3, <2>4, <2>5
  <2> QED
    BY <2>6 DEF GetLen, room
<1>4. LogicalBlocks(seq[v]) \in Nat /\ LogicalBlocks(seq[v]) <= NumBlocks - 1
  <2>1. NumBlocks - 1 \in Nat
    BY <1>1
  <2> QED
    BY <1>3, <2>1, CeilDivType, CeilDivBounds, BlockSizeAssumption DEF LogicalBlocks
<1>5. table[v] <= LogicalBlocks(seq[v])
  BY <1>1, <1>4 DEF SarathiInv, BlocksCover
<1> QED
  BY <1>1, <1>2, <1>4, <1>5 DEF Free

LEMMA PreemptSync ==
  ASSUME SarathiInv, SyncInv, SarathiRequestsFit, Preempt
  PROVE  SyncInv'
<1> DEFINE v == Max(running)
<1>1. v \in running /\ running \subseteq Seqs
  BY SeqsSubset, MaxMember DEF Preempt, DecodeHead, SarathiInv, StateTyped
<1>2. /\ phase = "decode" /\ phase' = phase /\ Free(table) <= 0
      /\ running' = running \ {v} /\ waiting' = Append(waiting, v)
      /\ table' = [table EXCEPT ![v] = 0]
      /\ step' = [step EXCEPT !.preempted = @ \cup {v}]
      /\ UNCHANGED <<shape, arrived, ended, seq, wseq, wtable>>
  BY DEF Preempt, DecodeHead, Frame
<1>3. /\ v \in Seqs \ ended /\ v \in Held /\ v \notin Scheduled /\ v \notin step.preempted
  BY <1>1, <1>2, NotYetStepped
<1> HIDE DEF v
<1>4. /\ step'.kept = step.kept /\ step'.prefills = step.prefills
      /\ step'.decodes = step.decodes /\ step'.preempted = step.preempted \cup {v}
      /\ step'.chunk = step.chunk
  BY <1>2 DEF SarathiInv, StepTyped
<1>5. /\ Held' = Held \ {v} /\ Scheduled' = Scheduled
      /\ \A r : Unprocessed(r)' = Unprocessed(r)
  BY <1>1, <1>2, <1>4 DEF Held, Scheduled, Unprocessed, SarathiInv, InOneList
<1>6. /\ table' \in [Seqs -> Nat] /\ table'[v] = 0
      /\ \A r \in Seqs \ {v} : table'[r] = table[r]
  BY <1>1, <1>2 DEF SarathiInv, StateTyped
<1>7. \A r \in Seqs : table'[r] = Expected(r)'
  <2> SUFFICES ASSUME NEW r \in Seqs PROVE table'[r] = Expected(r)'
    OBVIOUS
  <2>1. CASE r = v
    BY <1>2, <1>3, <1>4, <1>5, <1>6, <2>1 DEF Expected
  <2>2. CASE r # v
    BY <1>2, <1>4, <1>5, <1>6, <2>2 DEF SyncInv, SameBlocks, Expected
  <2> QED
    BY <2>1, <2>2
<1>8. SameBlocks'
  <2>1. \A r \in Held \ {v} : r \in Seqs /\ table'[r] # 0
    BY <1>6 DEF SyncInv, SameBlocks, SarathiInv, InOneList, StateTyped
  <2> QED
    BY <1>2, <1>5, <1>7, <2>1 DEF SyncInv, SameBlocks
<1>9. Suffices'
  BY <1>2, <1>3, <1>4, <1>5 DEF Fresh, SyncInv, Suffices
<1>10. Statuses'
  <2>1. ToSet(waiting') = ToSet(waiting) \cup {v}
    BY <1>1, <1>2, <1>3, QueueAppend DEF SarathiInv, StateTyped, InOneList
  <2> QED
    BY <1>1, <1>2, <1>4, <1>5, <2>1 DEF SyncInv, Statuses
<1>11. Held' # {}
  <2> SUFFICES ASSUME Held = {v} PROVE FALSE
    BY <1>3, <1>5
  <2>1. Free(table) > 0 /\ Free(table) \in Int
    <3>1. Free(table) \in Int
      BY <1>1, <1>2, FreeAfter DEF SarathiInv, StateTyped
    <3> QED
      BY <1>1, <3>1, LastHolderHasRoom
  <2> QED
    BY <1>2, <2>1
<1>12. SameObjects' /\ Lengths'
  BY <1>2, <1>4, <1>5, <1>11 DEF SyncInv, SameObjects, Lengths
<1> QED
  BY <1>8, <1>9, <1>10, <1>12 DEF SyncInv

LEMMA ContinuePrefillSync ==
  ASSUME SarathiInv, SyncInv, ContinuePrefill
  PROVE  SyncInv'
<1> DEFINE s == Min(step.prefills)
           c == NextTokens(s)
<1>1. s \in step.prefills /\ step.prefills \subseteq Seqs
  BY SeqsSubset, MinMember DEF ContinuePrefill, SarathiInv, StepTyped
<1>2. /\ phase = "prefill" /\ phase' = phase
      /\ step' = [step EXCEPT !.prefills = @ \ {s}, !.kept = @ \cup {s}, !.chunk[s] = c]
      /\ UNCHANGED <<waiting, running, table, shape, arrived, ended, seq, wseq, wtable>>
  BY DEF ContinuePrefill, Frame
<1>3. /\ s \in Seqs \ ended /\ s \in Held /\ s \notin Scheduled /\ s \notin step.preempted
      /\ table[s] = wtable[s] /\ wtable[s] # 0 /\ seq[s] = wseq[s]
  BY <1>1, <1>2, NotYetStepped
<1> HIDE DEF s, c
<1>4. /\ step'.kept = step.kept \cup {s} /\ step'.prefills = step.prefills \ {s}
      /\ step'.decodes = step.decodes /\ step'.preempted = step.preempted
      /\ step'.chunk = [step.chunk EXCEPT ![s] = c]
  BY <1>2 DEF SarathiInv, StepTyped
<1>5. \A r \in Seqs \ {s} : step'.chunk[r] = step.chunk[r]
  BY <1>4 DEF SarathiInv, StepTyped
<1>6. /\ Held' = Held /\ Scheduled' \subseteq Scheduled \cup {s} /\ Scheduled \subseteq Scheduled'
      /\ \A r : Unprocessed(r)' = Unprocessed(r)
  BY <1>1, <1>2, <1>3, <1>4, <1>5 DEF Held, Scheduled, Unprocessed
<1>7. wtable[s] = AppendSlot(wtable[s], wseq[s])
  <2>1. table[s] = LogicalBlocks(seq[s]) /\ LogicalBlocks(seq[s]) \in Nat
    BY <1>1, <1>3, BlocksType DEF SarathiInv, Promised
  <2> QED
    BY <1>3, <2>1 DEF AppendSlot
<1>8. \A r \in Seqs : table'[r] = Expected(r)'
  <2> SUFFICES ASSUME NEW r \in Seqs PROVE table'[r] = Expected(r)'
    OBVIOUS
  <2>1. CASE r = s
    BY <1>2, <1>3, <1>4, <1>7, <2>1 DEF Expected
  <2>2. CASE r # s
    <3>1. r \in Scheduled' <=> r \in Scheduled
      BY <1>6, <2>2
    <3> QED
      BY <1>2, <1>4, <2>2, <3>1 DEF SyncInv, SameBlocks, Expected
  <2> QED
    BY <2>1, <2>2
<1>9. SameBlocks'
  BY <1>2, <1>6, <1>8 DEF SyncInv, SameBlocks
<1>10. Suffices'
  <2>1. Fresh' = {}
    BY <1>2, <1>3, <1>4, <1>6 DEF Fresh, SyncInv, Suffices
  <2> QED
    BY <1>2, <2>1 DEF SyncInv, Suffices
<1>11. SameObjects' /\ Statuses' /\ Lengths'
  BY <1>2, <1>4, <1>6 DEF SyncInv, SameObjects, Statuses, Lengths
<1> QED
  BY <1>9, <1>10, <1>11 DEF SyncInv

LEMMA AdmitPrefillSync ==
  ASSUME SarathiInv, BatchInv, SyncInv, AdmitPrefill
  PROVE  SyncInv'
<1> DEFINE s == Head(waiting)
           c == NextTokens(s)
           n == LogicalBlocks(seq[s])
<1>1. s \in ToSet(waiting) /\ ToSet(waiting') = ToSet(waiting) \ {s}
  BY QueueTail DEF AdmitPrefill, SarathiInv, StateTyped, InOneList
<1>2. /\ phase = "admit" /\ phase' = phase /\ c # 0
      /\ Free(table) - n >= WatermarkBlocks /\ ~TooLong(s)
      /\ table' = [table EXCEPT ![s] = n]
      /\ step' = [step EXCEPT !.kept = @ \cup {s}, !.chunk[s] = c]
      /\ UNCHANGED <<running, shape, arrived, ended, seq, wseq, wtable>>
  BY DEF AdmitPrefill, Admits, Frame
<1>3. s \in Seqs \ ended /\ s \notin Held /\ s \notin Scheduled
  <2>1. s \in Seqs \ ended /\ s \notin Held
    BY <1>1 DEF SarathiInv, InOneList, StateTyped
  <2>2. s \notin step.kept
    BY <2>1 DEF Held
  <2> QED
    BY <2>1, <2>2 DEF SarathiInv, Promised
<1>4. /\ table[s] = 0 /\ seq[s] = wseq[s]
      /\ s \notin step.preempted => wtable[s] = 0
  BY <1>2, <1>3 DEF SarathiInv, BlocksCover, SyncInv, SameObjects, SameBlocks, Expected
<1>5. Unprocessed(s)
  BY <1>2, <1>3, ChunkFits
<1>6. n \in Nat /\ n > 0
  <2>1. GetLen(seq[s]) \in Nat /\ GetLen(seq[s]) # 0
    BY <1>3 DEF SyncInv, Lengths, SarathiInv, StateTyped, SequenceObjects, GetLen
  <2> QED
    BY <2>1, CeilDivType, CeilDivBounds, BlockSizeAssumption DEF LogicalBlocks
<1>7. n = LogicalBlocks(wseq[s]) /\ ~(GetLen(seq[s]) > PromptLimit)
  BY <1>2, <1>4 DEF TooLong
<1> HIDE DEF s, c, n
<1>8. /\ step'.kept = step.kept \cup {s} /\ step'.prefills = step.prefills
      /\ step'.decodes = step.decodes /\ step'.preempted = step.preempted
      /\ step'.chunk = [step.chunk EXCEPT ![s] = c]
  BY <1>2 DEF SarathiInv, StepTyped
<1>9. /\ step'.chunk[s] = c /\ \A r \in Seqs \ {s} : step'.chunk[r] = step.chunk[r]
  BY <1>3, <1>8 DEF SarathiInv, StepTyped
<1>10. /\ Held' = Held \cup {s} /\ Scheduled' = Scheduled \cup {s}
       /\ \A r : Unprocessed(r)' = Unprocessed(r)
  BY <1>2, <1>3, <1>8, <1>9 DEF Held, Scheduled, Unprocessed
<1>11. /\ table' \in [Seqs -> Nat] /\ table'[s] = n
       /\ \A r \in Seqs \ {s} : table'[r] = table[r]
  BY <1>2, <1>3, <1>6 DEF SarathiInv, StateTyped
<1>12. \A r \in Seqs : table'[r] = Expected(r)'
  <2> SUFFICES ASSUME NEW r \in Seqs PROVE table'[r] = Expected(r)'
    OBVIOUS
  <2>1. CASE r = s
    BY <1>2, <1>4, <1>7, <1>8, <1>10, <1>11, <2>1 DEF Expected
  <2>2. CASE r # s
    BY <1>2, <1>8, <1>10, <1>11, <2>2 DEF SyncInv, SameBlocks, Expected
  <2> QED
    BY <2>1, <2>2
<1>13. SameBlocks'
  <2>1. \A r \in Held \cup {s} : table'[r] # 0
    <3>1. Held \subseteq Seqs
      BY DEF SarathiInv, InOneList, StateTyped
    <3> QED
      BY <1>6, <1>11, <3>1 DEF SyncInv, SameBlocks
  <2> QED
    BY <1>2, <1>10, <1>12, <2>1 DEF SyncInv, SameBlocks
<1>14. Suffices'
  <2>1. /\ Free(table) \in Int /\ Free(table') = Free(table) + table[s] - n
    BY <1>2, <1>3, <1>6, FreeAfter DEF SarathiInv, StateTyped
  <2>2. Free(table') >= WatermarkBlocks
    BY <1>2, <1>4, <1>6, <2>1, SarathiAssumption
  <2> QED
    BY <1>2, <2>2 DEF Suffices
<1>15. Lengths'
  <2>1. /\ seq[s].output = 0 /\ seq[s].prompt <= PromptLimit
        /\ seq[s].output < shape[s].maxTokens
    <3>1. seq[s].output = 0 /\ seq[s].prompt \in Nat
      BY <1>3, <1>5 DEF SyncInv, Lengths, SarathiInv, StateTyped, SequenceObjects
    <3>2. GetLen(seq[s]) = seq[s].prompt
      BY <3>1 DEF GetLen
    <3>3. shape[s].maxTokens \in Nat \ {0}
      BY <1>3, SarathiAssumption DEF SarathiInv, StateTyped
    <3> QED
      BY <1>7, <3>1, <3>2, <3>3, SarathiAssumption
  <2> QED
    BY <1>2, <1>8, <1>10, <2>1 DEF SyncInv, Lengths
<1>16. SameObjects'
  BY <1>2 DEF SyncInv, SameObjects
<1>17. Statuses'
  BY <1>1, <1>2, <1>8, <1>10 DEF SyncInv, Statuses
<1> QED
  BY <1>13, <1>14, <1>15, <1>16, <1>17 DEF SyncInv

LEMMA EndEmptyStepSync ==
  ASSUME SarathiInv, BatchInv, SyncInv, EndEmptyStep
  PROVE  SyncInv'
<1>1. /\ phase = "admit" /\ phase' = "idle" /\ running' = step.kept /\ step' = NoStep
      /\ Scheduled = {}
      /\ UNCHANGED <<waiting, table, shape, arrived, ended, seq, wseq, wtable>>
  BY DEF EndEmptyStep, NoAdmission, Frame
<1>2. /\ running = {} /\ step.prefills = {} /\ step.kept = {}
  BY <1>1 DEF SarathiInv, PhaseOK, BatchInv, Budget
<1>3. Held = {} /\ step.preempted = {}
  BY <1>2 DEF Held, SyncInv, Lengths
<1>4. /\ Held' = {} /\ Scheduled' = {} /\ running' = {}
      /\ step'.preempted = {} /\ step'.prefills = {}
      /\ \A r : Unprocessed(r)' = Unprocessed(r)
  BY <1>1, <1>2 DEF Held, Scheduled, NoStep, Unprocessed
<1>5. \A r \in Seqs : Expected(r)' = Expected(r)
  BY <1>1, <1>3, <1>4 DEF Expected
<1>6. SameObjects' /\ SameBlocks' /\ Statuses' /\ Lengths'
  BY <1>1, <1>4, <1>5 DEF SyncInv, SameObjects, SameBlocks, Statuses, Lengths
<1>7. Suffices'
  BY <1>1, <1>4 DEF SyncInv, Suffices, Fresh
<1> QED
  BY <1>6, <1>7 DEF SyncInv

(* What on_schedule does to one object depends on nothing else.            *)
LEMMA OnScheduleOf ==
  ASSUME NEW a \in [Seqs -> SequenceObjects], NEW b \in [Seqs -> SequenceObjects],
         NEW s \in Seqs, a[s] = b[s]
  PROVE  OnSchedule(a)[s] = OnSchedule(b)[s]
  BY DEF OnSchedule

LEMMA SendStepSync ==
  ASSUME SarathiInv, BatchInv, SyncInv, SendStep
  PROVE  SyncInv'
<1>1. /\ phase = "admit" /\ phase' = "execute" /\ running' = step.kept
      /\ seq' = OnSchedule(seq) /\ seq \in [Seqs -> SequenceObjects]
      /\ wseq \in [Seqs -> SequenceObjects]
      /\ UNCHANGED <<waiting, table, shape, arrived, ended, step, wseq, wtable>>
  BY DEF SendStep, NoAdmission, SarathiInv, StateTyped
<1>2. /\ Held' = Held /\ Scheduled' = Scheduled
      /\ Held \subseteq Seqs
  BY <1>1 DEF Held, Scheduled, SarathiInv, PhaseOK, StepTyped
<1>3. /\ \A r : Expected(r)' = Expected(r)
      /\ Fresh' = Fresh
  BY <1>1, <1>2 DEF Expected, Fresh
<1>4. OnSchedule(wseq)' = OnSchedule(wseq)
  BY <1>1, <1>2 DEF OnSchedule
<1>5. SameObjects'
  <2> SUFFICES ASSUME NEW s \in Seqs \ ended PROVE seq'[s] = OnSchedule(wseq)[s]
    BY <1>1, <1>4 DEF SameObjects
  <2>1. seq[s] = wseq[s]
    BY <1>1 DEF SyncInv, SameObjects
  <2> QED
    BY <1>1, <2>1, OnScheduleOf
<1>6. SameBlocks' /\ Suffices' /\ Statuses'
  BY <1>1, <1>2, <1>3 DEF SyncInv, SameBlocks, Suffices, Statuses
<1>7. \A s \in Seqs : /\ seq'[s] \in SequenceObjects
                      /\ GetLen(seq'[s]) = GetLen(seq[s])
                      /\ s \in step.preempted =>
                           seq'[s].prompt = GetLen(seq[s]) /\ seq'[s].processed = 0
                      /\ s \notin step.preempted => /\ seq'[s].prompt = seq[s].prompt
                                                    /\ seq'[s].processed = seq[s].processed
  BY <1>1, OnScheduleFields, OnScheduleKeeps
<1>8. \A s \in Seqs : IF s \in step.preempted
                      THEN seq'[s].output = 0
                      ELSE seq'[s].output = seq[s].output
  <2> SUFFICES ASSUME NEW s \in Seqs
               PROVE  IF s \in step.preempted THEN seq'[s].output = 0
                                              ELSE seq'[s].output = seq[s].output
    OBVIOUS
  <2>1. /\ seq'[s].prompt \in Nat /\ seq'[s].output \in Nat
        /\ seq[s].prompt \in Nat /\ seq[s].output \in Nat
    BY <1>1, <1>7 DEF SequenceObjects
  <2> QED
    BY <1>7, <2>1 DEF GetLen
<1>9. Lengths'
  <2>1. \A s \in Seqs : /\ GetLen(seq'[s]) # 0
                        /\ ~PromptProcessed(seq'[s]) => seq'[s].output = 0
    BY <1>7, <1>8 DEF SyncInv, Lengths, Unprocessed, PromptProcessed
  <2>2. \A s \in Held : seq'[s].prompt <= PromptLimit /\ seq'[s].output < shape[s].maxTokens
    <3> SUFFICES ASSUME NEW s \in Held
                 PROVE  seq'[s].prompt <= PromptLimit /\ seq'[s].output < shape[s].maxTokens
      OBVIOUS
    <3>1. s \in Seqs /\ seq[s].prompt \in Nat
          /\ seq[s].prompt <= PromptLimit /\ seq[s].output < shape[s].maxTokens
      BY <1>1, <1>2 DEF SyncInv, Lengths, SequenceObjects
    <3>2. CASE s \in step.preempted
      <4>1. seq[s].output = 0
        BY <3>2 DEF SyncInv, Lengths
      <4> QED
        BY <1>7, <1>8, <3>1, <3>2, <4>1 DEF GetLen
    <3>3. CASE s \notin step.preempted
      BY <1>7, <1>8, <3>1, <3>3
    <3> QED
      BY <3>2, <3>3
  <2>3. \A s \in Held \cap step.preempted : seq'[s].output = 0
    BY <1>2, <1>8
  <2> QED
    BY <1>1, <1>2, <2>1, <2>2, <2>3 DEF SyncInv, Lengths, Unprocessed
<1> QED
  BY <1>5, <1>6, <1>9 DEF SyncInv

(* The replay ends with the scheduler's blocks.                            *)
LEMMA ReplayedTable ==
  ASSUME SarathiInv, SyncInv PROVE WorkerTable = table
<1>1. \A s \in Seqs : LogicalBlocks(OnSchedule(wseq)[s]) = LogicalBlocks(wseq[s])
  BY OnScheduleKeeps DEF SarathiInv, StateTyped, LogicalBlocks
<1>2. \A s \in Seqs : WorkerTable[s] = Expected(s)
  BY <1>1 DEF WorkerTable, WorkerFreed, Expected
<1>3. \A s \in Seqs : WorkerTable[s] = table[s]
  BY <1>2 DEF SyncInv, SameBlocks
<1>4. WorkerTable = [s \in Seqs |-> WorkerTable[s]] /\ table = [s \in Seqs |-> table[s]]
  BY DEF WorkerTable, SarathiInv, StateTyped
<1> QED
  BY <1>3, <1>4

LEMMA StepOf ==
  ASSUME NEW a, NEW b, NEW stop, NEW s \in Seqs, a[s] = b[s]
  PROVE  Step(a, stop)[s] = Step(b, stop)[s]
  BY DEF Step

(* A sequence in the batch: decode or chunk, it is fit to be completed.    *)
LEMMA CompletedLength ==
  ASSUME SarathiInv, BatchInv, SyncInv, phase = "execute", NEW s \in Scheduled, NEW stop
  PROVE  LET o == Step(seq, stop)[s]
         IN  /\ o \in SequenceObjects /\ GetLen(o) # 0 /\ o.prompt <= PromptLimit
             /\ ~PromptProcessed(o) => o.output = 0
             /\ o.status \in Finished \/ (o.status = "PAUSED" /\ o.output < shape[s].maxTokens)
<1> DEFINE p == seq[s]
           c == step.chunk[s]
           m == shape[s].maxTokens
           eos == s \in stop
           o == Step(seq, stop)[s]
<1>1. /\ s \in Seqs /\ s \in Held /\ p \in SequenceObjects /\ c \in Nat /\ m \in Nat \ {0}
      /\ seq \in [Seqs -> SequenceObjects]
  <2>1. s \in Seqs /\ s \in Held
    BY DEF SarathiInv, Promised, StepTyped, Held
  <2>2. shape[s] \in Shapes
    BY <2>1 DEF SarathiInv, StateTyped
  <2> QED
    BY <2>1, <2>2, SarathiAssumption DEF SarathiInv, StateTyped, BatchInv, BatchTyped
<1>2. \A r \in Scheduled : step.chunk[r] \in Nat
  BY DEF SarathiInv, Promised, StepTyped, BatchInv, BatchTyped
<1>3. /\ o \in SequenceObjects /\ GetLen(o) \in {GetLen(p), GetLen(p) + 1}
      /\ ~PromptProcessed(o) => GetLen(o) = GetLen(p)
  BY <1>1, <1>2, StepKeeps
<1>4. /\ o.prompt = p.prompt /\ o.processed = p.processed + c
      /\ o.status \in {"PAUSED", "FINISHED_STOPPED", "FINISHED_LENGTH_CAPPED"}
  BY <1>1, StepProcesses
<1>5. /\ p.prompt \in Nat /\ p.output \in Nat /\ p.processed \in Nat /\ p.processed <= p.prompt
      /\ o.prompt \in Nat /\ o.output \in Nat /\ p.prompt <= PromptLimit /\ p.output < m
      /\ GetLen(p) # 0 /\ (~PromptProcessed(p) => p.output = 0)
  BY <1>1, <1>3 DEF SequenceObjects, BatchInv, BatchTyped, SyncInv, Lengths, Unprocessed
<1>6. o = CompleteStep(p, c, m, FALSE, eos) /\ eos \in BOOLEAN /\ FALSE \in BOOLEAN
  BY <1>1 DEF Step
<1>7. PromptProcessed(p) => c = 0
  BY <1>1, <1>5 DEF PromptProcessed, BatchInv, BatchTyped, Left
<1> HIDE DEF p, c, m, eos, o
<1>8. GetLen(o) # 0
  <2>1. GetLen(p) \in Nat
    BY <1>5 DEF GetLen
  <2> QED
    BY <1>3, <1>5, <2>1
<1>9. CASE ~PromptProcessed(o)
  <2>1. ~PromptProcessed(p)
    BY <1>4, <1>5, <1>7, <1>9 DEF PromptProcessed
  <2>2. o.output = 0
    BY <1>3, <1>4, <1>5, <1>9, <2>1 DEF GetLen
  <2>3. 0 < m
    BY <1>1
  <2> QED
    BY <1>3, <1>4, <1>5, <1>8, <2>2, <2>3 DEF o, m, Finished
<1>10. CASE PromptProcessed(o)
  <2>1. p.processed + c = p.prompt
    BY <1>4, <1>10 DEF PromptProcessed
  <2> DEFINE a == CompleteStep(p, c, m, FALSE, eos)
  <2>2. /\ a.prompt = p.prompt /\ a.processed = p.prompt
        /\ a.output = p.output + 1
        /\ a.status \in Finished \/ (a.status = "PAUSED" /\ a.output # m)
    <3>1. p \in SequenceObjects /\ eos \in BOOLEAN /\ FALSE \in BOOLEAN
      BY <1>1, <1>6
    <3>2. ASSUME NEW text \in BOOLEAN
          PROVE  LET z == CompleteStep(p, c, m, text, eos)
                 IN  /\ z.prompt = p.prompt /\ z.processed = p.prompt
                     /\ z.output = p.output + 1
                     /\ z.status \in Finished \/ (z.status = "PAUSED" /\ z.output # m)
      BY <2>1, <3>1, StepFields
    <3> QED
      BY ONLY <3>1, <3>2
  <2>3. o.output = p.output + 1 /\ (o.status \in Finished \/ (o.status = "PAUSED" /\ o.output # m))
    BY <1>6, <2>2
  <2>4. o.status \in Finished \/ (o.status = "PAUSED" /\ o.output < m)
    BY <1>1, <1>5, <2>3
  <2> QED
    BY <1>3, <1>4, <1>5, <1>8, <1>10, <2>4 DEF o, m
<1> QED
  BY <1>9, <1>10

LEMMA ExecuteStepSync ==
  ASSUME SarathiInv, BatchInv, SyncInv, NEW stop \in SUBSET Seqs, ExecuteStep(stop)
  PROVE  SyncInv'
<1> DEFINE worker == Step(OnSchedule(wseq), stop)
           engine == Step(seq, stop)
           done == {s \in Scheduled : engine[s].status \in Finished}
           gone == {s \in Scheduled : worker[s].status \in Finished}
<1>1. /\ phase = "execute" /\ phase' = "idle" /\ step' = NoStep
      /\ wseq' = worker /\ seq' = engine
      /\ wtable' = [s \in Seqs |-> IF s \in gone THEN 0 ELSE WorkerTable[s]]
      /\ table' = [s \in Seqs |-> IF s \in running \cap done THEN 0 ELSE table[s]]
      /\ running' = running \ done /\ ended' = ended \cup done
      /\ UNCHANGED <<shape, waiting>>
  BY DEF ExecuteStep
<1>2. /\ running = step.kept /\ Held = running /\ Scheduled = running
      /\ running \subseteq Seqs /\ running \subseteq Seqs \ ended
  BY <1>1 DEF SarathiInv, PhaseOK, StateTyped, InOneList, Promised, Held, BatchInv, Budget
<1>3. /\ \A s \in Seqs \ ended : seq[s] = OnSchedule(wseq)[s] /\ engine[s] = worker[s]
      /\ \A s \in Seqs \ Scheduled : engine[s] = seq[s] /\ worker[s] = OnSchedule(wseq)[s]
  <2>1. \A s \in Seqs \ ended : seq[s] = OnSchedule(wseq)[s]
    BY <1>1 DEF SyncInv, SameObjects
  <2> QED
    BY <2>1, StepOf DEF Step
<1>4. done = gone /\ done \subseteq running
  BY <1>2, <1>3
<1>5. \A s \in running : /\ GetLen(engine[s]) # 0 /\ engine[s].prompt <= PromptLimit
                         /\ ~PromptProcessed(engine[s]) => engine[s].output = 0
                         /\ s \notin done => /\ engine[s].status = "PAUSED"
                                             /\ engine[s].output < shape[s].maxTokens
  BY <1>1, <1>2, CompletedLength
<1> HIDE DEF worker, engine, done, gone
<1>6. wtable' = table' /\ WorkerTable = table
  BY <1>1, <1>2, <1>4, ReplayedTable
<1>7. /\ Held' = running' /\ Scheduled' = {} /\ step'.preempted = {} /\ step'.prefills = {}
  BY <1>1 DEF Held, Scheduled, NoStep
<1>8. SameObjects'
  BY <1>1, <1>3 DEF SameObjects
<1>9. SameBlocks'
  <2>1. \A s \in Seqs : table'[s] = Expected(s)'
    BY <1>6, <1>7 DEF Expected
  <2>2. \A s \in running \ done : table'[s] # 0
    BY <1>1, <1>2 DEF SyncInv, SameBlocks
  <2> QED
    BY <1>1, <1>7, <2>1, <2>2 DEF SameBlocks
<1>10. Suffices'
  BY <1>7 DEF Suffices, Fresh
<1>11. Statuses'
  <2> SUFFICES ASSUME NEW s \in Seqs \ ended, s \notin done
               PROVE  /\ worker[s].status \in {"WAITING", "PAUSED"}
                      /\ s \in running => worker[s].status = "PAUSED"
    BY <1>1, <1>2, <1>7 DEF Statuses
  <2>1. CASE s \in running
    BY <1>3, <1>5, <2>1
  <2>2. CASE s \notin running
    <3>1. worker[s] = OnSchedule(wseq)[s] /\ s \notin Scheduled
      BY <1>2, <1>3, <2>2
    <3>2. OnSchedule(wseq)[s].status \in {"WAITING", wseq[s].status}
      BY <3>1, OnScheduleFields DEF SarathiInv, StateTyped
    <3> QED
      BY <2>2, <3>1, <3>2 DEF SyncInv, Statuses
  <2> QED
    BY <2>1, <2>2
<1>12. Lengths'
  <2>1. \A s \in Seqs : GetLen(seq'[s]) # 0 /\ (~PromptProcessed(seq'[s]) => seq'[s].output = 0)
    <3> SUFFICES ASSUME NEW s \in Seqs
                 PROVE  GetLen(engine[s]) # 0 /\ (~PromptProcessed(engine[s]) => engine[s].output = 0)
      BY <1>1
    <3>1. CASE s \in running
      BY <1>5, <3>1
    <3>2. CASE s \notin running
      BY <1>2, <1>3, <3>2 DEF SyncInv, Lengths, Unprocessed
    <3> QED
      BY <3>1, <3>2
  <2>2. \A s \in running' : seq'[s].prompt <= PromptLimit /\ seq'[s].output < shape'[s].maxTokens
    BY <1>1, <1>5
  <2> QED
    BY <1>7, <2>1, <2>2 DEF Lengths, Unprocessed
<1> QED
  BY <1>8, <1>9, <1>10, <1>11, <1>12 DEF SyncInv

LEMMA SyncInductive ==
  ASSUME SarathiRequestsFit
  PROVE  SarathiInv /\ BatchInv /\ SyncInv /\ [Next]_vars => SyncInv'
<1> SUFFICES ASSUME SarathiInv, BatchInv, SyncInv, [Next]_vars PROVE SyncInv'
  OBVIOUS
<1>1. CASE UNCHANGED vars
  <2>1. /\ UNCHANGED <<step, waiting, seq, wseq, running, table, wtable, ended, shape>>
        /\ phase' = phase
    BY <1>1 DEF vars, schedVars
  <2> QED
    BY <2>1, QuietSync
<1>2. CASE BeginStep \/ EndDecodes \/ EndPrefills
  <2>1. /\ UNCHANGED <<step, waiting, seq, wseq, running, table, wtable, ended, shape>>
        /\ \/ phase = "idle" /\ phase' = "decode"
           \/ phase = "decode" /\ phase' = "prefill"
           \/ phase = "prefill" /\ phase' = "admit"
    BY <1>2 DEF BeginStep, EndDecodes, EndPrefills, Frame
  <2> QED
    BY <2>1, QuietSync
<1> QED
  BY <1>1, <1>2, SarathiRequestsFit, AddRequestSync, DeferPrefillSync, ScheduleDecodeSync,
     PreemptSync, ContinuePrefillSync, AdmitPrefillSync, EndEmptyStepSync, SendStepSync,
     ExecuteStepSync DEF Next, RunStep

LEMMA InvariantsReplay ==
  ASSUME SarathiInv, BatchInv, CacheBounds, SyncInv PROVE ReplayInSync
<1>1. ASSUME phase = "idle"
      PROVE  wtable = table /\ \A s \in arrived \ ended : wseq[s] = seq[s]
  <2>1. Scheduled = {} /\ step.preempted = {} /\ arrived \subseteq Seqs
    BY <1>1 DEF SarathiInv, PhaseOK, StateTyped, NoStep, Scheduled
  <2>2. \A s \in Seqs : table[s] = wtable[s]
    BY <2>1 DEF SyncInv, SameBlocks, Expected
  <2>3. table = [s \in Seqs |-> table[s]] /\ wtable = [s \in Seqs |-> wtable[s]]
    BY DEF SarathiInv, StateTyped, CacheBounds
  <2>4. wtable = table
    BY <2>2, <2>3
  <2> QED
    BY <1>1, <2>1, <2>4 DEF SyncInv, SameObjects
<1>2. ASSUME phase = "execute" PROVE WorkerCan
  <2>1. /\ Scheduled \subseteq Seqs \ ended /\ WorkerTable = table
    BY ReplayedTable DEF SarathiInv, InOneList, StateTyped, Promised, Held
  <2>2. \A s \in step.preempted : wseq[s].status \in Executing
    BY DEF SyncInv, Statuses, Executing
  <2>3. \A s \in Scheduled : wseq[s].status \in {"WAITING", "PAUSED"}
    BY <2>1 DEF SyncInv, Statuses
  <2>4. Free(WorkerTable) >= 0
    BY <2>1 DEF CacheBounds
  <2>5. (\E s \in Scheduled : WorkerFreed[s] = 0) => Free(WorkerTable) >= WatermarkBlocks
    BY <2>1 DEF SyncInv, Suffices, Fresh, WorkerFreed
  <2>6. \A s \in Scheduled :
          step.chunk[s] \in 0..(OnSchedule(wseq)[s].prompt - OnSchedule(wseq)[s].processed)
    <3> SUFFICES ASSUME NEW s \in Scheduled
                 PROVE  step.chunk[s] \in 0..(seq[s].prompt - seq[s].processed)
      BY <1>2, <2>1 DEF SyncInv, SameObjects
    <3>1. /\ step.chunk[s] \in Nat /\ seq[s].processed <= seq[s].prompt
          /\ seq[s].prompt \in Nat /\ seq[s].processed \in Nat
      BY <2>1 DEF BatchInv, BatchTyped, SarathiInv, StateTyped, SequenceObjects
    <3>2. step.chunk[s] # 0 => step.chunk[s] <= seq[s].prompt - seq[s].processed
      BY <1>2, <2>1 DEF BatchInv, BatchTyped, Left
    <3> QED
      BY <3>1, <3>2
  <2> QED
    BY <2>2, <2>3, <2>4, <2>5, <2>6 DEF WorkerCan
<1> QED
  BY <1>1, <1>2 DEF ReplayInSync

(* The worker can replay every step and ends it with the blocks and the    *)
(* objects of the engine, although it is told neither what was preempted   *)
(* and admitted in one step nor how many blocks that took, if a request    *)
(* leaves a block free when it runs alone.                                 *)
THEOREM SarathiReplays ==
  ASSUME SarathiRequestsFit
  PROVE  Spec => []ReplayInSync
<1>1. SarathiInv /\ BatchInv /\ SyncInv /\ [Next]_vars => SyncInv'
  BY SyncInductive, SarathiRequestsFit
<1> QED
  BY <1>1, SarathiInit, SarathiInductive, BatchInitially, BatchInductive, CacheInitially,
     CacheInductive, SyncInitially, InvariantsReplay, PTL DEF Spec

LEMMA InvariantsTyped ==
  ASSUME SarathiInv, BatchInv, CacheBounds PROVE SarathiTypeOK
<1>1. /\ shape \in [Seqs -> Shapes] /\ arrived \subseteq Seqs /\ ended \subseteq arrived
      /\ {seq, wseq} \subseteq [Seqs -> SequenceObjects]
      /\ phase \in {"idle", "decode", "prefill", "admit", "execute"}
  BY DEF SarathiInv, StateTyped
<1>2. waiting \in Seq(arrived) /\ running \subseteq arrived
  <2>1. waiting \in Seq(Seqs) /\ ToSet(waiting) \subseteq arrived /\ running \subseteq arrived
    BY DEF SarathiInv, InOneList, StateTyped, Held
  <2>2. \A i \in 1..Len(waiting) : waiting[i] \in arrived
    BY <2>1 DEF ToSet
  <2> QED
    BY <2>1, <2>2
<1>3. {table, wtable} \subseteq [Seqs -> 0..NumBlocks]
  BY TableBound DEF SarathiInv, StateTyped, CacheBounds
<1>4. /\ step.kept \subseteq arrived /\ step.prefills \subseteq arrived
      /\ step.decodes \subseteq arrived /\ step.preempted \subseteq arrived
  BY DEF SarathiInv, InOneList, Promised, Scheduled, Held, CacheBounds
<1>5. step.chunk \in [Seqs -> (-MaxNumSeqs)..ChunkSize]
  <2> DEFINE f == step.chunk
  <2>1. f \in [Seqs -> Nat] /\ \A s \in Seqs : f[s] \in Nat
    BY DEF BatchInv, BatchTyped
  <2>2. IsFiniteSet(Seqs) /\ ChunkSize \in Nat /\ MaxNumSeqs \in Nat
    BY SarathiAssumption
  <2>3. SumFunctionOnSet(f, Seqs) \in Nat /\ SumFunctionOnSet(f, Seqs) <= ChunkSize
    BY <2>1, <2>2, BatchIsNat DEF BatchInv, Budget, Batched
  <2> HIDE DEF f
  <2>4. \A s \in Seqs : f[s] <= SumFunctionOnSet(f, Seqs)
    BY ONLY <2>1, <2>2, SumMember
  <2>5. f \in [Seqs -> (-MaxNumSeqs)..ChunkSize]
    BY <2>1, <2>2, <2>3, <2>4
  <2> QED
    BY <2>5 DEF f
<1>6. step \in [kept : SUBSET arrived, prefills : SUBSET arrived, decodes : SUBSET arrived,
                preempted : SUBSET arrived, chunk : [Seqs -> (-MaxNumSeqs)..ChunkSize]]
  BY <1>4, <1>5 DEF SarathiInv, StepTyped
<1> QED
  BY <1>1, <1>2, <1>3, <1>6 DEF SarathiTypeOK

(* Types, among them that no sequence ever has more blocks than the cache, *)
(* on the scheduler or on the worker.                                      *)
THEOREM SarathiTypes == Spec => []SarathiTypeOK
  BY SarathiInit, SarathiInductive, BatchInitially, BatchInductive, CacheInitially,
     CacheInductive, InvariantsTyped, PTL DEF Spec
=============================================================================
