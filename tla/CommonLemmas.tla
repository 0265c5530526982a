---------------------------- MODULE CommonLemmas ----------------------------
(***************************************************************************)
(* Facts the proofs of several components use.  About the operators of     *)
(* SequenceObject: what a change of status, a reset for recompute and a    *)
(* completed step do to the type, the status, the flag and the length of a *)
(* sequence, and what a token does to its blocks.  About finite sets: the  *)
(* least and the greatest element of a set of naturals, which are the head *)
(* and the tail of the sorted lists that the models keep as sets, and the  *)
(* sum of a function over a set, with which they count blocks and tokens.  *)
(* About queues: what is in one after an Append and a Tail.                *)
(***************************************************************************)
EXTENDS SequenceObject, Sequences, FiniteSetsExt, Functions, FiniteSetTheorems, TLAPS

-----------------------------------------------------------------------------
(* Types, statuses and the flag.                                           *)

LEMMA CeilDivType ==
  ASSUME NEW n \in Nat, NEW size \in Nat \ {0}
  PROVE  CeilDiv(n, size) \in Nat
  BY DEF CeilDiv

LEMMA SetStatusType ==
  ASSUME NEW o \in SequenceObjects, NEW st \in Status
  PROVE  SetStatus(o, st) \in SequenceObjects
  BY DEF SetStatus, SequenceObjects

LEMMA ResetType ==
  ASSUME NEW o \in SequenceObjects
  PROVE  ResetForRecompute(o) \in SequenceObjects
<1> DEFINE back == SetStatus(o, "WAITING")
<1>1. back \in SequenceObjects
  BY SetStatusType DEF Status
<1>2. GetLen(o) \in Nat
  BY DEF GetLen, SequenceObjects
<1>3. ResetForRecompute(o) =
        [back EXCEPT !.prompt = GetLen(o), !.output = 0, !.processed = 0]
  BY DEF ResetForRecompute
<1> HIDE DEF back
<1>4. ResetForRecompute(o) =
        [status |-> back.status, prompt |-> GetLen(o), output |-> 0,
         processed |-> 0, scheduled |-> back.scheduled]
  BY <1>1, <1>3 DEF SequenceObjects
<1> QED
  BY <1>1, <1>2, <1>4 DEF SequenceObjects

LEMMA StepType ==
  ASSUME NEW o \in SequenceObjects, NEW c, o.processed + c \in Nat,
         NEW m, NEW text \in BOOLEAN, NEW eos \in BOOLEAN
  PROVE  CompleteStep(o, c, m, text, eos) \in SequenceObjects
<1> DEFINE chunked == [o EXCEPT !.processed = @ + c]
           paused == SetStatus(chunked, "PAUSED")
           longer == [paused EXCEPT !.output = @ + 1]
<1>1. chunked \in SequenceObjects
  BY DEF SequenceObjects
<1>2. paused \in SequenceObjects
  BY <1>1, SetStatusType DEF Status, Executing
<1>3. longer \in SequenceObjects
  BY <1>2 DEF SequenceObjects
<1>4. CheckStop(longer, m, text, eos) \in SequenceObjects
  <2> HIDE DEF longer
  <2>1. SetStatus(longer, "FINISHED_LENGTH_CAPPED") \in SequenceObjects
    BY <1>3, SetStatusType DEF Status, Finished
  <2>2. SetStatus(longer, "FINISHED_STOPPED") \in SequenceObjects
    BY <1>3, SetStatusType DEF Status, Finished
  <2> QED
    BY <1>3, <2>1, <2>2 DEF CheckStop
<1>5. CompleteStep(o, c, m, text, eos) =
        IF PromptProcessed(paused) THEN CheckStop(longer, m, text, eos) ELSE paused
  BY DEF CompleteStep
<1> HIDE DEF paused, longer
<1> QED
  BY <1>2, <1>4, <1>5

LEMMA NewObjectType ==
  ASSUME NEW p \in Nat
  PROVE  NewObject(p) \in SequenceObjects
  BY DEF NewObject, SequenceObjects, Status

(* The flag _is_scheduled is set by WAITING -> RUNNING and never cleared.   *)
LEMMA SetStatusScheduled ==
  ASSUME NEW o \in SequenceObjects, NEW st \in Status
  PROVE  /\ SetStatus(o, st).scheduled = (o.scheduled \/ (o.status = "WAITING" /\ st = "RUNNING"))
         /\ SetStatus(o, st).status = st
<1> DEFINE moved == [o EXCEPT !.status = st]
           flag == o.scheduled \/ (o.status = "WAITING" /\ st = "RUNNING")
<1>1. SetStatus(o, st) = [moved EXCEPT !.scheduled = flag]
  BY DEF SetStatus
<1>2. moved \in SequenceObjects /\ moved.status = st
  BY DEF SequenceObjects
<1>3. flag \in BOOLEAN
  BY DEF SequenceObjects
<1> HIDE DEF moved, flag
<1>4. SetStatus(o, st).scheduled = flag /\ SetStatus(o, st).status = st
  BY <1>1, <1>2, <1>3 DEF SequenceObjects
<1> QED
  BY <1>4 DEF flag

LEMMA ResetScheduled ==
  ASSUME NEW o \in SequenceObjects
  PROVE  ResetForRecompute(o).scheduled = o.scheduled
<1> DEFINE back == SetStatus(o, "WAITING")
<1>1. back \in SequenceObjects /\ back.scheduled = o.scheduled
  <2>1. "WAITING" \in Status /\ o.scheduled \in BOOLEAN
    BY DEF Status, SequenceObjects
  <2>2. back.scheduled = (o.scheduled \/ (o.status = "WAITING" /\ "WAITING" = "RUNNING"))
    BY <2>1, SetStatusScheduled
  <2>3. back \in SequenceObjects
    BY <2>1, SetStatusType
  <2> QED
    BY <2>1, <2>2, <2>3
<1>2. ResetForRecompute(o) =
        [back EXCEPT !.prompt = GetLen(o), !.output = 0, !.processed = 0]
  BY DEF ResetForRecompute
<1> HIDE DEF back
<1> QED
  BY <1>1, <1>2 DEF SequenceObjects

LEMMA StepScheduled ==
  ASSUME NEW o \in SequenceObjects, NEW c, o.processed + c \in Nat,
         NEW m, NEW text \in BOOLEAN, NEW eos \in BOOLEAN
  PROVE  CompleteStep(o, c, m, text, eos).scheduled = o.scheduled
<1> DEFINE chunked == [o EXCEPT !.processed = @ + c]
           paused == SetStatus(chunked, "PAUSED")
           longer == [paused EXCEPT !.output = @ + 1]
<1>1. chunked \in SequenceObjects /\ chunked.scheduled = o.scheduled
  BY DEF SequenceObjects
<1> HIDE DEF chunked
<1>2. paused \in SequenceObjects /\ paused.scheduled = o.scheduled
  BY <1>1, SetStatusType, SetStatusScheduled DEF Status, Executing, SequenceObjects
<1> HIDE DEF paused
<1>3. longer \in SequenceObjects /\ longer.scheduled = o.scheduled
  BY <1>2 DEF SequenceObjects
<1> HIDE DEF longer
<1>4. CheckStop(longer, m, text, eos).scheduled = o.scheduled
  <2>1. SetStatus(longer, "FINISHED_LENGTH_CAPPED").scheduled = o.scheduled
    BY <1>3, SetStatusScheduled DEF Status, Finished, SequenceObjects
  <2>2. SetStatus(longer, "FINISHED_STOPPED").scheduled = o.scheduled
    BY <1>3, SetStatusScheduled DEF Status, Finished, SequenceObjects
  <2> QED
    BY <1>3, <2>1, <2>2 DEF CheckStop
<1>5. CompleteStep(o, c, m, text, eos) =
        IF PromptProcessed(paused) THEN CheckStop(longer, m, text, eos) ELSE paused
  BY DEF CompleteStep, chunked, paused, longer
<1> QED
  BY <1>2, <1>4, <1>5

LEMMA ResetStatus ==
  ASSUME NEW o \in SequenceObjects
  PROVE  ResetForRecompute(o).status = "WAITING"
<1> DEFINE back == SetStatus(o, "WAITING")
<1>1. back \in SequenceObjects /\ back.status = "WAITING"
  BY SetStatusType, SetStatusScheduled DEF Status
<1>2. ResetForRecompute(o) =
        [back EXCEPT !.prompt = GetLen(o), !.output = 0, !.processed = 0]
  BY DEF ResetForRecompute
<1> HIDE DEF back
<1> QED
  BY <1>1, <1>2 DEF SequenceObjects

(* A completed step pauses or finishes a sequence; it never ignores it.    *)
LEMMA StepStatus ==
  ASSUME NEW o \in SequenceObjects, NEW c, o.processed + c \in Nat,
         NEW m, NEW text \in BOOLEAN, NEW eos \in BOOLEAN
  PROVE  CompleteStep(o, c, m, text, eos).status
           \in {"PAUSED", "FINISHED_STOPPED", "FINISHED_LENGTH_CAPPED"}
<1> DEFINE chunked == [o EXCEPT !.processed = @ + c]
           paused == SetStatus(chunked, "PAUSED")
           longer == [paused EXCEPT !.output = @ + 1]
<1>1. chunked \in SequenceObjects
  BY DEF SequenceObjects
<1> HIDE DEF chunked
<1>2. paused \in SequenceObjects /\ paused.status = "PAUSED"
  BY <1>1, SetStatusType, SetStatusScheduled DEF Status, Executing
<1> HIDE DEF paused
<1>3. longer \in SequenceObjects /\ longer.status = "PAUSED"
  BY <1>2 DEF SequenceObjects
<1> HIDE DEF longer
<1>4. CheckStop(longer, m, text, eos).status
        \in {"PAUSED", "FINISHED_STOPPED", "FINISHED_LENGTH_CAPPED"}
  <2>1. /\ SetStatus(longer, "FINISHED_LENGTH_CAPPED").status = "FINISHED_LENGTH_CAPPED"
        /\ SetStatus(longer, "FINISHED_STOPPED").status = "FINISHED_STOPPED"
    BY <1>3, SetStatusScheduled DEF Status, Finished
  <2> QED
    BY <1>3, <2>1 DEF CheckStop
<1>5. CompleteStep(o, c, m, text, eos) =
        IF PromptProcessed(paused) THEN CheckStop(longer, m, text, eos) ELSE paused
  BY DEF CompleteStep, chunked, paused, longer
<1> QED
  BY <1>2, <1>4, <1>5

-----------------------------------------------------------------------------
(* The length of a sequence: a change of status or a reset keeps it, a     *)
(* completed step adds at most one token.                                  *)

LEMMA SetStatusLen ==
  ASSUME NEW o \in SequenceObjects, NEW st
  PROVE  GetLen(SetStatus(o, st)) = GetLen(o)
<1> DEFINE flag == o.scheduled \/ (o.status = "WAITING" /\ st = "RUNNING")
<1>1. SetStatus(o, st) = [o EXCEPT !.status = st, !.scheduled = flag]
  BY DEF SetStatus
<1> HIDE DEF flag
<1> QED
  BY <1>1 DEF GetLen, SequenceObjects

LEMMA ResetLen ==
  ASSUME NEW o \in SequenceObjects
  PROVE  GetLen(ResetForRecompute(o)) = GetLen(o)
<1> DEFINE back == SetStatus(o, "WAITING")
<1>1. back \in SequenceObjects
  BY SetStatusType DEF Status
<1>2. GetLen(o) \in Nat
  BY DEF GetLen, SequenceObjects
<1>3. ResetForRecompute(o) =
        [back EXCEPT !.prompt = GetLen(o), !.output = 0, !.processed = 0]
  BY DEF ResetForRecompute
<1> HIDE DEF back
<1>4. ResetForRecompute(o).prompt = GetLen(o) /\ ResetForRecompute(o).output = 0
  BY <1>1, <1>3 DEF SequenceObjects
<1> QED
  BY <1>2, <1>4 DEF GetLen

LEMMA StepLen ==
  ASSUME NEW o \in SequenceObjects, NEW c, o.processed + c \in Nat,
         NEW m, NEW text \in BOOLEAN, NEW eos \in BOOLEAN
  PROVE  GetLen(CompleteStep(o, c, m, text, eos)) \in {GetLen(o), GetLen(o) + 1}
<1> DEFINE chunked == [o EXCEPT !.processed = @ + c]
           paused == SetStatus(chunked, "PAUSED")
           longer == [paused EXCEPT !.output = @ + 1]
<1>1. chunked \in SequenceObjects /\ GetLen(chunked) = GetLen(o)
  BY DEF SequenceObjects, GetLen
<1> HIDE DEF chunked
<1>2. paused \in SequenceObjects /\ GetLen(paused) = GetLen(o)
  BY <1>1, SetStatusType, SetStatusLen DEF Status, Executing
<1> HIDE DEF paused
<1>3. longer \in SequenceObjects /\ GetLen(longer) = GetLen(o) + 1
  BY <1>2 DEF SequenceObjects, GetLen
<1> HIDE DEF longer
<1>4. GetLen(CheckStop(longer, m, text, eos)) = GetLen(o) + 1
  BY <1>3, SetStatusLen DEF CheckStop
<1>5. CompleteStep(o, c, m, text, eos) =
        IF PromptProcessed(paused) THEN CheckStop(longer, m, text, eos) ELSE paused
  BY DEF CompleteStep, chunked, paused, longer
<1> QED
  BY <1>2, <1>4, <1>5

-----------------------------------------------------------------------------
(* The progress of the prompt.                                             *)

LEMMA SetStatusProgress ==
  ASSUME NEW o \in SequenceObjects, NEW st \in Status
  PROVE  PromptProcessed(SetStatus(o, st)) = PromptProcessed(o)
<1> DEFINE flag == o.scheduled \/ (o.status = "WAITING" /\ st = "RUNNING")
<1>1. SetStatus(o, st) = [o EXCEPT !.status = st, !.scheduled = flag]
  BY DEF SetStatus
<1> HIDE DEF flag
<1> QED
  BY <1>1 DEF PromptProcessed, SequenceObjects

(* A sequence gets no token before its prompt is processed.                *)
LEMMA StepUnprocessed ==
  ASSUME NEW o \in SequenceObjects, NEW c, o.processed + c \in Nat,
         NEW m, NEW text \in BOOLEAN, NEW eos \in BOOLEAN,
         ~PromptProcessed(CompleteStep(o, c, m, text, eos))
  PROVE  GetLen(CompleteStep(o, c, m, text, eos)) = GetLen(o)
<1> DEFINE chunked == [o EXCEPT !.processed = @ + c]
           paused == SetStatus(chunked, "PAUSED")
           longer == [paused EXCEPT !.output = @ + 1]
<1>1. chunked \in SequenceObjects /\ GetLen(chunked) = GetLen(o)
  BY DEF SequenceObjects, GetLen
<1> HIDE DEF chunked
<1>2. paused \in SequenceObjects /\ GetLen(paused) = GetLen(o)
  BY <1>1, SetStatusType, SetStatusLen DEF Status, Executing
<1> HIDE DEF paused
<1>3. longer \in SequenceObjects /\ PromptProcessed(longer) = PromptProcessed(paused)
  BY <1>2 DEF SequenceObjects, PromptProcessed
<1> HIDE DEF longer
<1>4. PromptProcessed(CheckStop(longer, m, text, eos)) = PromptProcessed(longer)
  <2>1. /\ PromptProcessed(SetStatus(longer, "FINISHED_LENGTH_CAPPED")) = PromptProcessed(longer)
        /\ PromptProcessed(SetStatus(longer, "FINISHED_STOPPED")) = PromptProcessed(longer)
    BY <1>3, SetStatusProgress DEF Status, Finished
  <2> QED
    BY <2>1 DEF CheckStop
<1>5. CompleteStep(o, c, m, text, eos) =
        IF PromptProcessed(paused) THEN CheckStop(longer, m, text, eos) ELSE paused
  BY DEF CompleteStep, chunked, paused, longer
<1> QED
  BY <1>2, <1>3, <1>4, <1>5

-----------------------------------------------------------------------------
(* Logical blocks.                                                         *)

(* One more token opens at most one block.                                 *)
LEMMA CeilDivStep ==
  ASSUME NEW n \in Nat, NEW size \in Nat \ {0}
  PROVE  CeilDiv(n + 1, size) - CeilDiv(n, size) \in {0, 1}
<1>1. size \in Nat \ {0}
  OBVIOUS
<1> DEFINE m == n + size - 1
           q == m \div size
           r == m % size
<1>2. m \in Nat /\ q \in Nat /\ r \in 0..(size - 1) /\ m = size * q + r
  BY <1>1
<1>3. n + 1 + size - 1 = m + 1
  BY <1>1
<1> HIDE DEF m, q, r
<1>4. (m + 1) \div size \in {q, q + 1}
  <2>1. CASE r < size - 1
    <3>1. m + 1 = size * q + (r + 1) /\ r + 1 \in 0..(size - 1)
      BY <1>1, <1>2, <2>1
    <3> QED
      BY <1>1, <1>2, <3>1
  <2>2. CASE r = size - 1
    <3>1. m + 1 = size * (q + 1) + 0
      BY <1>1, <1>2, <2>2
    <3> QED
      BY <1>1, <1>2, <3>1
  <2> QED
    BY <1>1, <1>2, <2>1, <2>2
<1> QED
  BY <1>2, <1>3, <1>4 DEF CeilDiv, m, q

(* A token needs a block, and n tokens no more blocks than hold them.      *)
LEMMA CeilDivBounds ==
  ASSUME NEW n \in Nat, NEW size \in Nat \ {0}
  PROVE  /\ n > 0 => CeilDiv(n, size) > 0
         /\ \A k \in Nat : n <= k * size => CeilDiv(n, size) <= k
<1>1. size \in Nat \ {0}
  OBVIOUS
<1> DEFINE m == n + size - 1
           q == m \div size
           r == m % size
<1>2. m \in Nat /\ q \in Nat /\ r \in 0..(size - 1) /\ m = size * q + r
  BY <1>1
<1>3. CeilDiv(n, size) = q /\ m = n + size - 1
  BY DEF CeilDiv
<1> HIDE DEF m, q, r
<1>4. ASSUME n > 0 PROVE q > 0
  <2> SUFFICES ASSUME q = 0 PROVE FALSE
    BY <1>2
  <2>1. size * q = 0
    BY <1>1
  <2> QED
    BY <1>1, <1>2, <1>3, <1>4, <2>1
<1>5. ASSUME NEW k \in Nat, n <= k * size PROVE q <= k
  <2> SUFFICES ASSUME q >= k + 1 PROVE FALSE
    BY <1>2
  <2>1. PICK d \in Nat : q = k + 1 + d
    <3>1. q - (k + 1) \in Nat /\ q = k + 1 + (q - (k + 1))
      BY <1>2
    <3> QED
      BY <3>1
  <2>2. size * q = size * k + size + size * d
    BY <1>1, <2>1
  <2>3. size * d \in Nat /\ size * k \in Nat /\ size * k = k * size
    BY <1>1
  <2> QED
    BY <1>1, <1>2, <1>3, <1>5, <2>2, <2>3
<1> QED
  BY <1>3, <1>4, <1>5

-----------------------------------------------------------------------------
(* The fields of an object after each operation.                           *)

LEMMA SetStatusFields ==
  ASSUME NEW o \in SequenceObjects, NEW st \in Status
  PROVE  /\ SetStatus(o, st).status = st
         /\ SetStatus(o, st).prompt = o.prompt
         /\ SetStatus(o, st).output = o.output
         /\ SetStatus(o, st).processed = o.processed
<1> DEFINE flag == o.scheduled \/ (o.status = "WAITING" /\ st = "RUNNING")
<1>1. SetStatus(o, st) = [o EXCEPT !.status = st, !.scheduled = flag]
  BY DEF SetStatus
<1> HIDE DEF flag
<1> QED
  BY <1>1 DEF SequenceObjects

LEMMA ResetFields ==
  ASSUME NEW o \in SequenceObjects
  PROVE  /\ ResetForRecompute(o).status = "WAITING"
         /\ ResetForRecompute(o).prompt = GetLen(o)
         /\ ResetForRecompute(o).output = 0
         /\ ResetForRecompute(o).processed = 0
<1> DEFINE back == SetStatus(o, "WAITING")
<1>1. back \in SequenceObjects /\ back.status = "WAITING"
  BY SetStatusType, SetStatusScheduled DEF Status
<1>2. ResetForRecompute(o) =
        [back EXCEPT !.prompt = GetLen(o), !.output = 0, !.processed = 0]
  BY DEF ResetForRecompute
<1> HIDE DEF back
<1> QED
  BY <1>1, <1>2 DEF SequenceObjects

(* A step that processes all that is left of the prompt adds a token; the  *)
(* sequence is finished, or paused with fewer tokens than it asked for or  *)
(* more, never exactly as many.                                            *)
LEMMA StepFields ==
  ASSUME NEW o \in SequenceObjects, NEW c, o.processed + c = o.prompt,
         NEW m, NEW text \in BOOLEAN, NEW eos \in BOOLEAN
  PROVE  LET a == CompleteStep(o, c, m, text, eos)
         IN  /\ a.prompt = o.prompt /\ a.processed = o.prompt
             /\ a.output = o.output + 1
             /\ a.status \in Finished \/ (a.status = "PAUSED" /\ a.output # m)
<1> DEFINE chunked == [o EXCEPT !.processed = @ + c]
           paused == SetStatus(chunked, "PAUSED")
           longer == [paused EXCEPT !.output = @ + 1]
<1>1. chunked \in SequenceObjects /\ chunked.processed = o.prompt
      /\ chunked.prompt = o.prompt /\ chunked.output = o.output
  BY DEF SequenceObjects
<1> HIDE DEF chunked
<1>2. /\ paused \in SequenceObjects /\ paused.status = "PAUSED"
      /\ paused.processed = o.prompt /\ paused.prompt = o.prompt /\ paused.output = o.output
  BY <1>1, SetStatusType, SetStatusFields DEF Status, Executing
<1> HIDE DEF paused
<1>3. /\ longer \in SequenceObjects /\ longer.status = "PAUSED"
      /\ longer.processed = o.prompt /\ longer.prompt = o.prompt
      /\ longer.output = o.output + 1
  BY <1>2 DEF SequenceObjects
<1> HIDE DEF longer
<1>4. CompleteStep(o, c, m, text, eos) = CheckStop(longer, m, text, eos)
  BY <1>2 DEF CompleteStep, chunked, paused, longer, PromptProcessed
<1>5. ASSUME NEW st \in {"FINISHED_LENGTH_CAPPED", "FINISHED_STOPPED"}
      PROVE  LET a == SetStatus(longer, st)
             IN  /\ a.prompt = o.prompt /\ a.processed = o.prompt
                 /\ a.output = o.output + 1 /\ a.status \in Finished
  BY <1>3, SetStatusFields DEF Status, Finished
<1>6. \/ CheckStop(longer, m, text, eos) = longer /\ longer.output # m
      \/ \E st \in {"FINISHED_LENGTH_CAPPED", "FINISHED_STOPPED"} :
           CheckStop(longer, m, text, eos) = SetStatus(longer, st)
  BY DEF CheckStop
<1> QED
  BY <1>3, <1>4, <1>5, <1>6

(* A step adds its chunk to what is processed of the prompt.               *)
LEMMA StepProgress ==
  ASSUME NEW o \in SequenceObjects, NEW c, o.processed + c \in Nat,
         NEW m, NEW text \in BOOLEAN, NEW eos \in BOOLEAN
  PROVE  LET a == CompleteStep(o, c, m, text, eos)
         IN  a.prompt = o.prompt /\ a.processed = o.processed + c
<1> DEFINE chunked == [o EXCEPT !.processed = @ + c]
           paused == SetStatus(chunked, "PAUSED")
           longer == [paused EXCEPT !.output = @ + 1]
<1>1. chunked \in SequenceObjects /\ chunked.processed = o.processed + c
      /\ chunked.prompt = o.prompt
  BY DEF SequenceObjects
<1> HIDE DEF chunked
<1>2. /\ paused \in SequenceObjects
      /\ paused.processed = o.processed + c /\ paused.prompt = o.prompt
  BY <1>1, SetStatusType, SetStatusFields DEF Status, Executing
<1> HIDE DEF paused
<1>3. /\ longer \in SequenceObjects
      /\ longer.processed = o.processed + c /\ longer.prompt = o.prompt
  BY <1>2 DEF SequenceObjects
<1> HIDE DEF longer
<1>4. CompleteStep(o, c, m, text, eos) \in {paused, CheckStop(longer, m, text, eos)}
  BY DEF CompleteStep, chunked, paused, longer
<1>5. ASSUME NEW st \in {"FINISHED_LENGTH_CAPPED", "FINISHED_STOPPED"}
      PROVE  LET a == SetStatus(longer, st)
             IN  a.prompt = o.prompt /\ a.processed = o.processed + c
  BY <1>3, SetStatusFields DEF Status, Finished
<1>6. \/ CheckStop(longer, m, text, eos) = longer
      \/ \E st \in {"FINISHED_LENGTH_CAPPED", "FINISHED_STOPPED"} :
           CheckStop(longer, m, text, eos) = SetStatus(longer, st)
  BY DEF CheckStop
<1> QED
  BY <1>2, <1>3, <1>4, <1>5, <1>6

-----------------------------------------------------------------------------
(* A nonempty family of subsets of a finite set has a minimal member.      *)
LEMMA MinimalSubset ==
  ASSUME NEW X, IsFiniteSet(X), NEW Family \in SUBSET (SUBSET X), Family # {}
  PROVE  \E T \in Family : \A U \in Family : U \subseteq T => U = T
<1>1. IsWellFoundedOn(StrictSubsetOrdering(X), SUBSET X)
  BY FS_StrictSubsetOrderingWellFounded, FS_FiniteSubsetsOfFinite
<1>2. PICK T \in Family : \A U \in Family : ~(<<U, T>> \in StrictSubsetOrdering(X))
  BY <1>1, WFMin
<1> QED
  BY <1>2 DEF StrictSubsetOrdering

(* A nonempty finite set has a greatest element in any total order R.      *)
LEMMA Greatest ==
  ASSUME NEW X, IsFiniteSet(X), X # {}, NEW R,
         \A x, y \in X : <<x, y>> \in R \/ <<y, x>> \in R,
         \A x, y, z \in X : <<x, y>> \in R /\ <<y, z>> \in R => <<x, z>> \in R
  PROVE  \E x \in X : \A y \in X : <<y, x>> \in R
<1> DEFINE HasMax(T) == \E x \in T : \A y \in T : <<y, x>> \in R
           Bad == {T \in SUBSET X : T # {} /\ ~HasMax(T)}
<1>1. SUFFICES ASSUME X \in Bad PROVE FALSE
  OBVIOUS
<1>2. \E T \in Bad : \A U \in Bad : U \subseteq T => U = T
  <2>1. Bad \in SUBSET (SUBSET X) /\ Bad # {}
    BY <1>1
  <2> HIDE DEF Bad
  <2> QED
    BY <2>1, MinimalSubset
<1>3. PICK T \in Bad : \A U \in Bad : U \subseteq T => U = T
  BY <1>2
<1>4. PICK x \in T : TRUE
  OBVIOUS
<1>5. T \ {x} \notin Bad
  <2>1. T \ {x} \subseteq T /\ T \ {x} # T
    BY <1>4
  <2> HIDE DEF Bad
  <2> QED
    BY <1>3, <2>1
<1>6. CASE T \ {x} = {}
  BY <1>4, <1>6
<1>7. CASE T \ {x} # {}
  <2>1. PICK m \in T \ {x} : \A y \in T \ {x} : <<y, m>> \in R
    BY <1>5, <1>7
  <2>2. x \in X /\ m \in X /\ T \subseteq X
    BY <1>4
  <2>3. IF <<m, x>> \in R THEN \A y \in T : <<y, x>> \in R ELSE \A y \in T : <<y, m>> \in R
    BY <2>1, <2>2
  <2> QED
    BY <1>4, <2>1, <2>3
<1> QED
  BY <1>6, <1>7

LEMMA MaxMember ==
  ASSUME NEW S, S \subseteq Nat, S # {}, IsFiniteSet(S)
  PROVE  Max(S) \in S /\ \A y \in S : y <= Max(S)
<1> DEFINE Leq == {p \in Nat \X Nat : p[1] <= p[2]}
<1>1. \A x, y \in S : <<x, y>> \in Leq <=> x <= y
  OBVIOUS
<1>2. /\ \A x, y \in S : <<x, y>> \in Leq \/ <<y, x>> \in Leq
      /\ \A x, y, z \in S : <<x, y>> \in Leq /\ <<y, z>> \in Leq => <<x, z>> \in Leq
  OBVIOUS
<1> HIDE DEF Leq
<1>3. \E x \in S : \A y \in S : <<y, x>> \in Leq
  BY ONLY S # {}, IsFiniteSet(S), <1>2, Greatest
<1>4. \E x \in S : \A y \in S : x >= y
  BY <1>1, <1>3
<1> QED
  BY <1>4 DEF Max

LEMMA MinMember ==
  ASSUME NEW S, S \subseteq Nat, S # {}, IsFiniteSet(S)
  PROVE  Min(S) \in S /\ \A y \in S : Min(S) <= y
<1> DEFINE Geq == {p \in Nat \X Nat : p[1] >= p[2]}
<1>1. \A x, y \in S : <<x, y>> \in Geq <=> x >= y
  OBVIOUS
<1>2. /\ \A x, y \in S : <<x, y>> \in Geq \/ <<y, x>> \in Geq
      /\ \A x, y, z \in S : <<x, y>> \in Geq /\ <<y, z>> \in Geq => <<x, z>> \in Geq
  OBVIOUS
<1> HIDE DEF Geq
<1>3. \E x \in S : \A y \in S : <<y, x>> \in Geq
  BY ONLY S # {}, IsFiniteSet(S), <1>2, Greatest
<1>4. \E x \in S : \A y \in S : x <= y
  BY <1>1, <1>3
<1> QED
  BY <1>4 DEF Min

-----------------------------------------------------------------------------
(* Induction over the subsets of a finite set, the property being given by *)
(* the family of the subsets that have it.                                 *)
LEMMA SubsetInduction ==
  ASSUME NEW X, IsFiniteSet(X), NEW Family, {} \in Family,
         \A T \in SUBSET X : T \in Family => \A x \in X \ T : T \cup {x} \in Family
  PROVE  \A T \in SUBSET X : T \in Family
<1> DEFINE Bad == {T \in SUBSET X : T \notin Family}
<1>1. SUFFICES ASSUME Bad # {} PROVE FALSE
  OBVIOUS
<1>2. \E T \in Bad : \A U \in Bad : U \subseteq T => U = T
  <2>1. Bad \in SUBSET (SUBSET X)
    OBVIOUS
  <2> HIDE DEF Bad
  <2> QED
    BY <1>1, <2>1, MinimalSubset
<1>3. PICK T \in Bad : \A U \in Bad : U \subseteq T => U = T
  BY <1>2
<1>4. T # {} /\ T \in SUBSET X
  OBVIOUS
<1>5. PICK x \in T : TRUE
  BY <1>4
<1>6. T \ {x} \in Family
  <2>1. T \ {x} \subseteq T /\ T \ {x} # T /\ T \ {x} \in SUBSET X
    BY <1>4, <1>5
  <2> QED
    BY <1>3, <2>1
<1>7. (T \ {x}) \cup {x} = T /\ x \in X \ (T \ {x}) /\ T \ {x} \in SUBSET X
  BY <1>4, <1>5
<1> QED
  BY <1>3, <1>6, <1>7

-----------------------------------------------------------------------------
(* The function that SumFunctionOnSet chooses, for the subsets of S.       *)
Pick(T) == CHOOSE x \in T : TRUE

PartialSums(g, f, S) ==
  g = [T \in SUBSET S |-> IF T = {} THEN 0 ELSE f[Pick(T)] + g[T \ {Pick(T)}]]

LEMMA PickMember ==
  ASSUME NEW T, T # {} PROVE Pick(T) \in T
BY DEF Pick

LEMMA SumDefined ==
  ASSUME NEW f, NEW S
  PROVE  SumFunctionOnSet(f, S) = (CHOOSE g : PartialSums(g, f, S))[S]
BY DEF SumFunctionOnSet, FoldFunctionOnSet, MapThenFoldSet, PartialSums, Pick

LEMMA PartialSumsAt ==
  ASSUME NEW f, NEW S, NEW g, PartialSums(g, f, S), NEW T \in SUBSET S
  PROVE  g[T] = IF T = {} THEN 0 ELSE f[Pick(T)] + g[T \ {Pick(T)}]
BY DEF PartialSums

(* Two such functions agree where both are defined.                        *)
LEMMA PartialSumsAgree ==
  ASSUME NEW f, NEW S, IsFiniteSet(S), NEW g, PartialSums(g, f, S),
         NEW R, NEW h, PartialSums(h, f, R), R \subseteq S
  PROVE  \A T \in SUBSET R : g[T] = h[T]
<1> DEFINE Bad == {T \in SUBSET R : g[T] # h[T]}
<1>1. SUFFICES ASSUME Bad # {} PROVE FALSE
  OBVIOUS
<1>2. \E T \in Bad : \A U \in Bad : U \subseteq T => U = T
  <2>1. Bad \in SUBSET (SUBSET R) /\ IsFiniteSet(R)
    BY FS_Subset
  <2> HIDE DEF Bad
  <2> QED
    BY <1>1, <2>1, MinimalSubset
<1>3. PICK T \in Bad : \A U \in Bad : U \subseteq T => U = T
  BY <1>2
<1>4. T \in SUBSET R /\ T \in SUBSET S /\ g[T] # h[T]
  OBVIOUS
<1>5. T # {} /\ Pick(T) \in T
  BY <1>4, PartialSumsAt, PickMember
<1>6. g[T \ {Pick(T)}] = h[T \ {Pick(T)}]
  <2>1. T \ {Pick(T)} \subseteq T /\ T \ {Pick(T)} # T /\ T \ {Pick(T)} \in SUBSET R
    BY <1>4, <1>5
  <2> QED
    BY <1>3, <2>1
<1> QED
  BY <1>4, <1>5, <1>6, PartialSumsAt

LEMMA PartialSumsExist ==
  ASSUME NEW f, NEW X, IsFiniteSet(X)
  PROVE  \A S \in SUBSET X : \E g : PartialSums(g, f, S)
<1> DEFINE Bad == {S \in SUBSET X : ~\E g : PartialSums(g, f, S)}
<1>1. SUFFICES ASSUME Bad # {} PROVE FALSE
  OBVIOUS
<1>2. \E T \in Bad : \A U \in Bad : U \subseteq T => U = T
  <2>1. Bad \in SUBSET (SUBSET X)
    OBVIOUS
  <2> HIDE DEF Bad
  <2> QED
    BY <1>1, <2>1, MinimalSubset
<1>3. PICK S \in Bad : \A U \in Bad : U \subseteq S => U = S
  BY <1>2
<1>4. S \in SUBSET X /\ ~\E g : PartialSums(g, f, S)
  OBVIOUS
<1> DEFINE Value(T) == (CHOOSE g : PartialSums(g, f, T))[T]
           Last == f[Pick(S)] + Value(S \ {Pick(S)})
           w == [T \in SUBSET S |-> IF T = {} THEN 0 ELSE IF T = S THEN Last ELSE Value(T)]
<1>5. ASSUME NEW T \in SUBSET S, T # S
      PROVE  PartialSums(CHOOSE g : PartialSums(g, f, T), f, T)
  <2>1. T \notin Bad /\ T \in SUBSET X
    BY <1>3, <1>4, <1>5
  <2>2. \E g : PartialSums(g, f, T)
    BY <2>1
  <2> QED
    BY <2>2
<1>6. ASSUME NEW T \in SUBSET S, T # S, T # {}
      PROVE  Value(T) = f[Pick(T)] + Value(T \ {Pick(T)})
  <2> DEFINE R == T \ {Pick(T)}
             gT == CHOOSE g : PartialSums(g, f, T)
             gR == CHOOSE g : PartialSums(g, f, R)
  <2>1. Pick(T) \in T /\ R \in SUBSET S /\ R # S /\ R \subseteq T /\ T \in SUBSET T /\ R \in SUBSET R
    BY <1>6, PickMember
  <2>2. IsFiniteSet(T)
    BY <1>4, FS_Subset
  <2>3. PartialSums(gT, f, T) /\ PartialSums(gR, f, R)
    BY <1>5, <1>6, <2>1
  <2> HIDE DEF gT, gR
  <2>4. gT[R] = gR[R]
    <3> HIDE DEF R
    <3> QED
      BY <2>1, <2>2, <2>3, PartialSumsAgree
  <2>5. gT[T] = f[Pick(T)] + gT[R]
    BY <1>6, <2>1, <2>3, PartialSumsAt
  <2> QED
    BY <2>4, <2>5 DEF gT, gR
<1>7. \A T \in SUBSET S : T # {} => Pick(T) \in T
  BY PickMember
<1>8. ASSUME NEW T \in SUBSET S
      PROVE  w[T] = IF T = {} THEN 0 ELSE f[Pick(T)] + w[T \ {Pick(T)}]
  <2>1. CASE T = {}
    BY <2>1
  <2>2. CASE T # {}
    <3> DEFINE R == T \ {Pick(T)}
    <3>1. R \in SUBSET S /\ R # S /\ w[R] = (IF R = {} THEN 0 ELSE Value(R))
      BY <1>7, <2>2
    <3>2. w[R] = Value(R)
      <4>1. CASE R = {}
        <5>1. PartialSums(CHOOSE g : PartialSums(g, f, {}), f, {})
          BY <1>5, <3>1, <4>1
        <5>2. Value({}) = 0
          BY <5>1, PartialSumsAt
        <5>3. w[R] = 0
          BY <3>1, <4>1
        <5> HIDE DEF Value, w
        <5> QED
          BY <4>1, <5>2, <5>3
      <4> QED
        BY <3>1, <4>1
    <3>3. w[T] = f[Pick(T)] + Value(R)
      <4>1. CASE T = S
        BY <2>2, <4>1
      <4>2. CASE T # S
        BY <1>6, <2>2, <4>2
      <4> QED
        BY <4>1, <4>2
    <3> QED
      BY <2>2, <3>2, <3>3
  <2> QED
    BY <2>1, <2>2
<1>9. PartialSums(w, f, S)
  <2>1. w = [T \in SUBSET S |-> w[T]]
    OBVIOUS
  <2> HIDE DEF w
  <2> QED
    BY <1>8, <2>1 DEF PartialSums
<1> QED
  BY <1>4, <1>9

LEMMA SumEmpty ==
  ASSUME NEW f PROVE SumFunctionOnSet(f, {}) = 0
<1>1. PartialSums(CHOOSE g : PartialSums(g, f, {}), f, {})
  BY PartialSumsExist, FS_EmptySet
<1> QED
  BY <1>1, PartialSumsAt, SumDefined

LEMMA SumPick ==
  ASSUME NEW f, NEW S, IsFiniteSet(S), S # {}
  PROVE  SumFunctionOnSet(f, S) = f[Pick(S)] + SumFunctionOnSet(f, S \ {Pick(S)})
<1> DEFINE R == S \ {Pick(S)}
           gS == CHOOSE g : PartialSums(g, f, S)
           gR == CHOOSE g : PartialSums(g, f, R)
<1>1. R \subseteq S /\ R \in SUBSET S /\ S \in SUBSET S /\ R \in SUBSET R
  OBVIOUS
<1>2. PartialSums(gS, f, S)
  BY <1>1, PartialSumsExist
<1>3. PartialSums(gR, f, R)
  BY <1>1, PartialSumsExist
<1>4. SumFunctionOnSet(f, S) = gS[S] /\ SumFunctionOnSet(f, R) = gR[R]
  BY SumDefined
<1> HIDE DEF gS, gR
<1>5. gS[R] = gR[R]
  <2> HIDE DEF R
  <2> QED
    BY <1>1, <1>2, <1>3, PartialSumsAgree
<1> QED
  BY <1>1, <1>2, <1>4, <1>5, PartialSumsAt

(* The sum as a reader knows it: over a finite set, of integers.           *)
LEMMA SumInt ==
  ASSUME NEW S, IsFiniteSet(S), NEW f, \A x \in S : f[x] \in Int
  PROVE  \A T \in SUBSET S : SumFunctionOnSet(f, T) \in Int
<1> DEFINE Bad == {T \in SUBSET S : SumFunctionOnSet(f, T) \notin Int}
<1>1. SUFFICES ASSUME Bad # {} PROVE FALSE
  OBVIOUS
<1>2. \E T \in Bad : \A U \in Bad : U \subseteq T => U = T
  <2>1. Bad \in SUBSET (SUBSET S)
    OBVIOUS
  <2> HIDE DEF Bad
  <2> QED
    BY <1>1, <2>1, MinimalSubset
<1>3. PICK T \in Bad : \A U \in Bad : U \subseteq T => U = T
  BY <1>2
<1>4. T \in SUBSET S /\ IsFiniteSet(T) /\ SumFunctionOnSet(f, T) \notin Int
  BY FS_Subset
<1>5. T # {}
  BY <1>4, SumEmpty
<1>6. Pick(T) \in T /\ f[Pick(T)] \in Int
  BY <1>4, <1>5, PickMember
<1>7. SumFunctionOnSet(f, T \ {Pick(T)}) \in Int
  <2>1. T \ {Pick(T)} \in SUBSET S /\ T \ {Pick(T)} \subseteq T /\ T \ {Pick(T)} # T
    BY <1>4, <1>6
  <2> QED
    BY <1>3, <2>1
<1> QED
  BY <1>4, <1>5, <1>6, <1>7, SumPick

(* Any element may be taken out first.                                     *)
LEMMA SumRemove ==
  ASSUME NEW S, IsFiniteSet(S), NEW f, \A x \in S : f[x] \in Int
  PROVE  \A T \in SUBSET S : \A x \in T :
           SumFunctionOnSet(f, T) = f[x] + SumFunctionOnSet(f, T \ {x})
<1> DEFINE Good(T) == \A x \in T : SumFunctionOnSet(f, T) = f[x] + SumFunctionOnSet(f, T \ {x})
           Bad == {T \in SUBSET S : ~Good(T)}
<1>1. SUFFICES ASSUME Bad # {} PROVE FALSE
  OBVIOUS
<1>2. \E T \in Bad : \A U \in Bad : U \subseteq T => U = T
  <2>1. Bad \in SUBSET (SUBSET S)
    OBVIOUS
  <2> HIDE DEF Bad
  <2> QED
    BY <1>1, <2>1, MinimalSubset
<1>3. PICK T \in Bad : \A U \in Bad : U \subseteq T => U = T
  BY <1>2
<1>4. T \in SUBSET S /\ IsFiniteSet(T) /\ ~Good(T)
  BY FS_Subset
<1>5. PICK x \in T : SumFunctionOnSet(f, T) # f[x] + SumFunctionOnSet(f, T \ {x})
  BY <1>4
<1> DEFINE c == Pick(T)
<1>6. c \in T /\ T # {}
  BY PickMember
<1> HIDE DEF c
<1>7. SumFunctionOnSet(f, T) = f[c] + SumFunctionOnSet(f, T \ {c})
  BY <1>4, <1>6, SumPick DEF c
<1>8. x # c
  BY <1>5, <1>7
<1>9. Good(T \ {c}) /\ Good(T \ {x})
  <2>1. /\ T \ {c} \in SUBSET S /\ T \ {c} \subseteq T /\ T \ {c} # T
        /\ T \ {x} \in SUBSET S /\ T \ {x} \subseteq T /\ T \ {x} # T
    BY <1>4, <1>6
  <2> QED
    BY <1>3, <2>1
<1> DEFINE R == (T \ {c}) \ {x}
<1>10. SumFunctionOnSet(f, T \ {c}) = f[x] + SumFunctionOnSet(f, R)
  BY <1>8, <1>9
<1>11. SumFunctionOnSet(f, T \ {x}) = f[c] + SumFunctionOnSet(f, R)
  <2>1. (T \ {x}) \ {c} = R
    OBVIOUS
  <2>2. SumFunctionOnSet(f, T \ {x}) = f[c] + SumFunctionOnSet(f, (T \ {x}) \ {c})
    BY <1>6, <1>8, <1>9
  <2> QED
    BY <2>1, <2>2
<1>12. f[x] \in Int /\ f[c] \in Int /\ SumFunctionOnSet(f, R) \in Int
  BY <1>4, <1>6, SumInt
<1> HIDE DEF R
<1> QED
  BY <1>5, <1>7, <1>10, <1>11, <1>12

LEMMA SumInsert ==
  ASSUME NEW S, IsFiniteSet(S), NEW f, NEW x, x \notin S, f[x] \in Int,
         \A y \in S : f[y] \in Int
  PROVE  SumFunctionOnSet(f, S \cup {x}) = f[x] + SumFunctionOnSet(f, S)
<1>1. IsFiniteSet(S \cup {x}) /\ (S \cup {x}) \ {x} = S
  BY FS_AddElement
<1>2. SumFunctionOnSet(f, S \cup {x}) = f[x] + SumFunctionOnSet(f, (S \cup {x}) \ {x})
  BY <1>1, SumRemove
<1> QED
  BY <1>1, <1>2

LEMMA SumAgree ==
  ASSUME NEW S, IsFiniteSet(S), NEW f, NEW g, \A x \in S : f[x] \in Int /\ f[x] = g[x]
  PROVE  SumFunctionOnSet(f, S) = SumFunctionOnSet(g, S)
<1> DEFINE Family == {T \in SUBSET S : SumFunctionOnSet(f, T) = SumFunctionOnSet(g, T)}
<1>1. {} \in Family
  BY SumEmpty
<1>2. ASSUME NEW T \in SUBSET S, T \in Family, NEW x \in S \ T
      PROVE  T \cup {x} \in Family
  <2>1. IsFiniteSet(T) /\ T \cup {x} \in SUBSET S
    BY FS_Subset
  <2>2. SumFunctionOnSet(f, T \cup {x}) = f[x] + SumFunctionOnSet(f, T)
    BY <2>1, SumInsert
  <2>3. SumFunctionOnSet(g, T \cup {x}) = g[x] + SumFunctionOnSet(g, T)
    BY <2>1, SumInsert
  <2> QED
    BY <1>2, <2>1, <2>2, <2>3
<1> HIDE DEF Family
<1>3. \A T \in SUBSET S : T \in Family
  BY <1>1, <1>2, SubsetInduction
<1> QED
  BY <1>3 DEF Family

(* Changing one summand changes the sum by as much.                        *)
LEMMA SumUpdate ==
  ASSUME NEW S, IsFiniteSet(S), NEW f, NEW g, NEW x \in S,
         \A y \in S : f[y] \in Int, g[x] \in Int,
         \A y \in S \ {x} : g[y] = f[y]
  PROVE  SumFunctionOnSet(g, S) = SumFunctionOnSet(f, S) + (g[x] - f[x])
<1>1. IsFiniteSet(S \ {x}) /\ S \in SUBSET S
  BY FS_RemoveElement
<1>2. SumFunctionOnSet(g, S \ {x}) = SumFunctionOnSet(f, S \ {x})
  BY <1>1, SumAgree
<1>3. SumFunctionOnSet(f, S) = f[x] + SumFunctionOnSet(f, S \ {x})
  BY <1>1, SumRemove
<1>4. SumFunctionOnSet(g, S) = g[x] + SumFunctionOnSet(g, S \ {x})
  <2>1. \A y \in S : g[y] \in Int
    OBVIOUS
  <2> QED
    BY <1>1, <2>1, SumRemove
<1>5. SumFunctionOnSet(f, S \ {x}) \in Int /\ f[x] \in Int
  BY SumInt
<1> QED
  BY <1>2, <1>3, <1>4, <1>5

LEMMA SumMonotone ==
  ASSUME NEW S, IsFiniteSet(S), NEW f, NEW g,
         \A x \in S : f[x] \in Int /\ g[x] \in Int /\ f[x] <= g[x]
  PROVE  SumFunctionOnSet(f, S) <= SumFunctionOnSet(g, S)
<1> DEFINE Family == {T \in SUBSET S : SumFunctionOnSet(f, T) <= SumFunctionOnSet(g, T)}
<1>1. {} \in Family
  BY SumEmpty
<1>2. ASSUME NEW T \in SUBSET S, T \in Family, NEW x \in S \ T
      PROVE  T \cup {x} \in Family
  <2>1. IsFiniteSet(T) /\ T \cup {x} \in SUBSET S
    BY FS_Subset
  <2>2. SumFunctionOnSet(f, T \cup {x}) = f[x] + SumFunctionOnSet(f, T)
    BY <2>1, SumInsert
  <2>3. SumFunctionOnSet(g, T \cup {x}) = g[x] + SumFunctionOnSet(g, T)
    BY <2>1, SumInsert
  <2>4. SumFunctionOnSet(f, T) \in Int /\ SumFunctionOnSet(g, T) \in Int
    BY SumInt
  <2>5. SumFunctionOnSet(f, T) <= SumFunctionOnSet(g, T)
    BY <1>2
  <2>6. f[x] \in Int /\ g[x] \in Int /\ f[x] <= g[x]
    OBVIOUS
  <2> QED
    BY <2>1, <2>2, <2>3, <2>4, <2>5, <2>6
<1> HIDE DEF Family
<1>3. \A T \in SUBSET S : T \in Family
  BY <1>1, <1>2, SubsetInduction
<1> QED
  BY <1>3 DEF Family

LEMMA SumZero ==
  ASSUME NEW S, IsFiniteSet(S), NEW f, \A x \in S : f[x] = 0
  PROVE  SumFunctionOnSet(f, S) = 0
<1> DEFINE Family == {T \in SUBSET S : SumFunctionOnSet(f, T) = 0}
<1>1. {} \in Family
  BY SumEmpty
<1>2. ASSUME NEW T \in SUBSET S, T \in Family, NEW x \in S \ T
      PROVE  T \cup {x} \in Family
  <2>1. IsFiniteSet(T) /\ T \cup {x} \in SUBSET S /\ f[x] \in Int /\ \A y \in T : f[y] \in Int
    BY FS_Subset
  <2>2. SumFunctionOnSet(f, T \cup {x}) = f[x] + SumFunctionOnSet(f, T)
    BY <2>1, SumInsert
  <2> QED
    BY <1>2, <2>1, <2>2
<1> HIDE DEF Family
<1>3. \A T \in SUBSET S : T \in Family
  BY <1>1, <1>2, SubsetInduction
<1> QED
  BY <1>3 DEF Family

LEMMA SumNat ==
  ASSUME NEW S, IsFiniteSet(S), NEW f, \A x \in S : f[x] \in Nat
  PROVE  SumFunctionOnSet(f, S) \in Nat
<1> DEFINE z == [x \in S |-> 0]
<1>1. SumFunctionOnSet(z, S) = 0
  BY SumZero
<1>2. SumFunctionOnSet(z, S) <= SumFunctionOnSet(f, S)
  BY SumMonotone
<1>3. SumFunctionOnSet(f, S) \in Int
  BY SumInt
<1> HIDE DEF z
<1> QED
  BY <1>1, <1>2, <1>3

(* Taking a part of the set away takes its sum away.                       *)
LEMMA SumSplit ==
  ASSUME NEW S, IsFiniteSet(S), NEW f, \A x \in S : f[x] \in Int, NEW R \in SUBSET S
  PROVE  SumFunctionOnSet(f, S) = SumFunctionOnSet(f, R) + SumFunctionOnSet(f, S \ R)
<1> DEFINE Family == {T \in SUBSET R : SumFunctionOnSet(f, (S \ R) \cup T)
                                       = SumFunctionOnSet(f, T) + SumFunctionOnSet(f, S \ R)}
<1>1. \A T \in SUBSET S : SumFunctionOnSet(f, T) \in Int /\ IsFiniteSet(T)
  BY SumInt, FS_Subset
<1>2. {} \in Family
  <2>1. (S \ R) \cup {} = S \ R
    OBVIOUS
  <2> QED
    BY <1>1, <2>1, SumEmpty
<1>3. ASSUME NEW T \in SUBSET R, T \in Family, NEW x \in R \ T
      PROVE  T \cup {x} \in Family
  <2> DEFINE U == (S \ R) \cup T
  <2>1. IsFiniteSet(T) /\ IsFiniteSet(U) /\ x \notin U /\ f[x] \in Int
        /\ (\A y \in U : f[y] \in Int) /\ (\A y \in T : f[y] \in Int)
    BY <1>1
  <2>2. SumFunctionOnSet(f, T \cup {x}) = f[x] + SumFunctionOnSet(f, T)
    BY <2>1, SumInsert
  <2>3. SumFunctionOnSet(f, U \cup {x}) = f[x] + SumFunctionOnSet(f, U)
    <3> HIDE DEF U
    <3> QED
      BY <2>1, SumInsert
  <2>4. U \cup {x} = (S \ R) \cup (T \cup {x})
    OBVIOUS
  <2>5. SumFunctionOnSet(f, U) = SumFunctionOnSet(f, T) + SumFunctionOnSet(f, S \ R)
    BY <1>3
  <2>6. SumFunctionOnSet(f, T) \in Int /\ SumFunctionOnSet(f, S \ R) \in Int
    BY <1>1
  <2>7. SumFunctionOnSet(f, (S \ R) \cup (T \cup {x}))
          = SumFunctionOnSet(f, T \cup {x}) + SumFunctionOnSet(f, S \ R)
    <3>1. SumFunctionOnSet(f, (S \ R) \cup (T \cup {x})) = SumFunctionOnSet(f, U \cup {x})
      BY <2>4
    <3>2. SumFunctionOnSet(f, U \cup {x})
            = f[x] + (SumFunctionOnSet(f, T) + SumFunctionOnSet(f, S \ R))
      BY <2>3, <2>5
    <3> QED
      BY <2>1, <2>2, <2>6, <3>1, <3>2
  <2> QED
    BY <2>7
<1> HIDE DEF Family
<1>4. IsFiniteSet(R) /\ R \in SUBSET R
  BY <1>1
<1>5. R \in Family
  BY <1>2, <1>3, <1>4, SubsetInduction
<1>6. (S \ R) \cup R = S
  OBVIOUS
<1> QED
  BY <1>5, <1>6 DEF Family

(* A sum of naturals grows with the set.                                   *)
LEMMA SumSubset ==
  ASSUME NEW S, IsFiniteSet(S), NEW f, \A x \in S : f[x] \in Nat, NEW R \in SUBSET S
  PROVE  SumFunctionOnSet(f, R) <= SumFunctionOnSet(f, S)
<1>1. SumFunctionOnSet(f, S) = SumFunctionOnSet(f, R) + SumFunctionOnSet(f, S \ R)
  BY SumSplit
<1>2. SumFunctionOnSet(f, R) \in Nat /\ SumFunctionOnSet(f, S \ R) \in Nat
  BY FS_Subset, SumNat
<1> QED
  BY <1>1, <1>2

LEMMA SumMember ==
  ASSUME NEW S, IsFiniteSet(S), NEW f, \A x \in S : f[x] \in Nat, NEW x \in S
  PROVE  f[x] <= SumFunctionOnSet(f, S)
<1>1. SumFunctionOnSet(f, S) = f[x] + SumFunctionOnSet(f, S \ {x})
  BY SumRemove
<1>2. SumFunctionOnSet(f, S \ {x}) \in Nat
  BY FS_Subset, SumNat
<1> QED
  BY <1>1, <1>2

(* A sum of positive numbers is at least their number.                     *)
LEMMA SumCounts ==
  ASSUME NEW S, IsFiniteSet(S), NEW f, \A x \in S : f[x] \in Nat \ {0}
  PROVE  Cardinality(S) <= SumFunctionOnSet(f, S)
<1> DEFINE Family == {T \in SUBSET S : Cardinality(T) <= SumFunctionOnSet(f, T)}
<1>1. {} \in Family
  BY SumEmpty, FS_EmptySet
<1>2. ASSUME NEW T \in SUBSET S, T \in Family, NEW x \in S \ T
      PROVE  T \cup {x} \in Family
  <2>1. IsFiniteSet(T) /\ T \cup {x} \in SUBSET S
    BY FS_Subset
  <2>2. SumFunctionOnSet(f, T \cup {x}) = f[x] + SumFunctionOnSet(f, T)
    BY <2>1, SumInsert
  <2>3. Cardinality(T \cup {x}) = Cardinality(T) + 1 /\ Cardinality(T) \in Nat
    BY <2>1, FS_AddElement, FS_CardinalityType
  <2>4. SumFunctionOnSet(f, T) \in Int
    BY SumInt
  <2>5. Cardinality(T) <= SumFunctionOnSet(f, T) /\ f[x] \in Nat \ {0}
    BY <1>2
  <2> QED
    BY <2>1, <2>2, <2>3, <2>4, <2>5
<1> HIDE DEF Family
<1>3. \A T \in SUBSET S : T \in Family
  BY <1>1, <1>2, SubsetInduction
<1> QED
  BY <1>3 DEF Family

LEMMA CardinalityDisjoint ==
  ASSUME NEW S, IsFiniteSet(S), NEW T, IsFiniteSet(T), S \cap T = {}
  PROVE  /\ IsFiniteSet(S \cup T)
         /\ Cardinality(S \cup T) = Cardinality(S) + Cardinality(T)
         /\ Cardinality(S) \in Nat /\ Cardinality(T) \in Nat
<1>1. /\ IsFiniteSet(S \cup T)
      /\ Cardinality(S \cup T) = Cardinality(S) + Cardinality(T) - Cardinality(S \cap T)
  BY FS_Union
<1>2. Cardinality(S \cap T) = 0
  BY FS_EmptySet
<1>3. Cardinality(S) \in Nat /\ Cardinality(T) \in Nat
  BY FS_CardinalityType
<1> QED
  BY <1>1, <1>2, <1>3

(* The members of disjoint sets can be counted set by set.                 *)
LEMMA SumDisjoint ==
  ASSUME NEW S, IsFiniteSet(S), NEW g, \A x \in S : IsFiniteSet(g[x]),
         \A x, y \in S : x # y => g[x] \cap g[y] = {}
  PROVE  /\ IsFiniteSet(UNION {g[x] : x \in S})
         /\ Cardinality(UNION {g[x] : x \in S})
              = SumFunctionOnSet([x \in S |-> Cardinality(g[x])], S)
<1> DEFINE All(T) == UNION {g[x] : x \in T}
           c == [x \in S |-> Cardinality(g[x])]
           Family == {T \in SUBSET S : /\ IsFiniteSet(All(T))
                                       /\ Cardinality(All(T)) = SumFunctionOnSet(c, T)}
<1>1. {} \in Family
  <2>1. All({}) = {}
    OBVIOUS
  <2> QED
    BY <2>1, SumEmpty, FS_EmptySet
<1>2. ASSUME NEW T \in SUBSET S, T \in Family, NEW x \in S \ T
      PROVE  T \cup {x} \in Family
  <2>1. IsFiniteSet(T) /\ T \cup {x} \in SUBSET S
    BY FS_Subset
  <2>2. \A y \in S : c[y] \in Int
    BY FS_CardinalityType
  <2>3. SumFunctionOnSet(c, T \cup {x}) = c[x] + SumFunctionOnSet(c, T)
    <3> HIDE DEF c
    <3> QED
      BY <2>1, <2>2, SumInsert
  <2>4. All(T \cup {x}) = All(T) \cup g[x] /\ All(T) \cap g[x] = {}
    OBVIOUS
  <2>5. IsFiniteSet(All(T)) /\ Cardinality(All(T)) = SumFunctionOnSet(c, T) /\ IsFiniteSet(g[x])
    BY <1>2
  <2>6. IsFiniteSet(All(T) \cup g[x])
    BY <2>4, <2>5, CardinalityDisjoint
  <2>7. Cardinality(All(T) \cup g[x]) = Cardinality(All(T)) + Cardinality(g[x])
    BY <2>4, <2>5, CardinalityDisjoint
  <2>8. c[x] = Cardinality(g[x]) /\ Cardinality(g[x]) \in Nat /\ Cardinality(All(T)) \in Nat
    BY <2>5, FS_CardinalityType
  <2> HIDE DEF All, c
  <2>9. Cardinality(All(T \cup {x})) = SumFunctionOnSet(c, T \cup {x})
    <3>1. Cardinality(All(T \cup {x})) = Cardinality(All(T)) + Cardinality(g[x])
      BY <2>4, <2>7
    <3>2. Cardinality(All(T)) = SumFunctionOnSet(c, T)
      BY <2>5
    <3> QED
      BY ONLY <2>3, <2>8, <3>1, <3>2
  <2> QED
    BY <2>1, <2>4, <2>6, <2>9
<1> HIDE DEF Family
<1>3. \A T \in SUBSET S : T \in Family
  BY <1>1, <1>2, SubsetInduction
<1> QED
  BY <1>3 DEF Family

LEMMA MinOfTwo ==
  ASSUME NEW a \in Nat, NEW b \in Nat
  PROVE  Min({a, b}) \in {a, b} /\ Min({a, b}) <= a /\ Min({a, b}) <= b
<1>1. IsFiniteSet({a, b})
  <2>1. IsFiniteSet({a}) /\ {a, b} = {a} \cup {b}
    BY FS_Singleton
  <2> QED
    BY <2>1, FS_AddElement
<1>2. {a, b} \subseteq Nat /\ {a, b} # {}
  OBVIOUS
<1>3. Min({a, b}) \in {a, b} /\ \A y \in {a, b} : Min({a, b}) <= y
  BY <1>1, <1>2, MinMember
<1> QED
  BY <1>3

LEMMA CardinalityWith ==
  ASSUME NEW S, IsFiniteSet(S), NEW x, x \notin S
  PROVE  Cardinality(S \cup {x}) = Cardinality(S) + 1 /\ Cardinality(S) \in Nat
  BY FS_AddElement, FS_CardinalityType

LEMMA CardinalityWithout ==
  ASSUME NEW S, IsFiniteSet(S), NEW x \in S
  PROVE  /\ Cardinality(S \ {x}) = Cardinality(S) - 1
         /\ Cardinality(S) \in Nat /\ Cardinality(S \ {x}) \in Nat
<1>1. IsFiniteSet(S \ {x}) /\ Cardinality(S \ {x}) = Cardinality(S) - 1
  BY FS_RemoveElement
<1> QED
  BY <1>1, FS_CardinalityType

-----------------------------------------------------------------------------
(* Queues, and what is in them.                                            *)

LEMMA RangeType ==
  ASSUME NEW S, NEW q \in Seq(S)
  PROVE  Range(q) \subseteq S
  BY DEF Range

LEMMA RangeEmpty == Range(<<>>) = {} /\ IsInjective(<<>>)
  BY DEF Range, IsInjective

LEMMA RangeAppend ==
  ASSUME NEW S, NEW q \in Seq(S), NEW x \in S
  PROVE  /\ Append(q, x) \in Seq(S) /\ Append(q, x) # <<>>
         /\ Range(Append(q, x)) = Range(q) \cup {x}
         /\ IsInjective(q) /\ x \notin Range(q) => IsInjective(Append(q, x))
<1>1. /\ DOMAIN q = 1..Len(q) /\ Len(q) \in Nat
      /\ DOMAIN Append(q, x) = 1..(Len(q) + 1)
      /\ \A k \in 1..Len(q) : Append(q, x)[k] = q[k]
      /\ Append(q, x)[Len(q) + 1] = x
  OBVIOUS
<1>2. Range(Append(q, x)) = Range(q) \cup {x}
  BY <1>1 DEF Range
<1>3. IsInjective(q) /\ x \notin Range(q) => IsInjective(Append(q, x))
  BY <1>1 DEF Range, IsInjective
<1>4. Append(q, x) \in Seq(S) /\ Len(Append(q, x)) = Len(q) + 1
  OBVIOUS
<1>5. Append(q, x) # <<>>
  BY <1>1, <1>4
<1> QED
  BY <1>2, <1>3, <1>4, <1>5

LEMMA RangeTail ==
  ASSUME NEW S, NEW q \in Seq(S), q # <<>>
  PROVE  /\ Head(q) \in S /\ Head(q) \in Range(q) /\ Tail(q) \in Seq(S)
         /\ IsInjective(q) => /\ Range(Tail(q)) = Range(q) \ {Head(q)}
                           /\ IsInjective(Tail(q))
<1>1. /\ DOMAIN q = 1..Len(q) /\ Len(q) \in Nat /\ Len(q) > 0
      /\ DOMAIN Tail(q) = 1..(Len(q) - 1)
      /\ \A k \in 1..(Len(q) - 1) : Tail(q)[k] = q[k + 1]
      /\ Head(q) = q[1]
      /\ Tail(q) \in Seq(S)
  OBVIOUS
<1>2. Head(q) \in S /\ Head(q) \in Range(q)
  BY <1>1 DEF Range
<1>3. ASSUME IsInjective(q)
      PROVE  Range(Tail(q)) = Range(q) \ {Head(q)}
  <2>1. ASSUME NEW x \in Range(Tail(q)) PROVE x \in Range(q) \ {Head(q)}
    <3>1. PICK k \in 1..(Len(q) - 1) : x = q[k + 1]
      BY <1>1, <2>1 DEF Range
    <3>2. k + 1 \in DOMAIN q /\ 1 \in DOMAIN q /\ k + 1 # 1
      BY <1>1
    <3> QED
      BY <1>1, <1>3, <3>1, <3>2 DEF Range, IsInjective
  <2>2. ASSUME NEW x \in Range(q) \ {Head(q)} PROVE x \in Range(Tail(q))
    <3>1. PICK k \in 1..Len(q) : x = q[k]
      BY <1>1, <2>2 DEF Range
    <3>2. k - 1 \in 1..(Len(q) - 1) /\ (k - 1) + 1 = k
      BY <1>1, <2>2, <3>1
    <3>3. Tail(q)[k - 1] = x
      BY <1>1, <3>1, <3>2
    <3> QED
      BY <1>1, <3>2, <3>3 DEF Range
  <2> QED
    BY <2>1, <2>2
<1>4. IsInjective(q) => IsInjective(Tail(q))
  <2> SUFFICES ASSUME IsInjective(q), NEW j \in DOMAIN Tail(q), NEW k \in DOMAIN Tail(q),
                      Tail(q)[j] = Tail(q)[k]
               PROVE  j = k
    BY DEF IsInjective
  <2>1. /\ j + 1 \in DOMAIN q /\ k + 1 \in DOMAIN q /\ q[j + 1] = q[k + 1]
        /\ j \in Int /\ k \in Int
    BY <1>1
  <2>2. j + 1 = k + 1
    BY <2>1 DEF IsInjective
  <2> QED
    BY <2>1, <2>2
<1> QED
  BY <1>1, <1>2, <1>3, <1>4
=============================================================================
