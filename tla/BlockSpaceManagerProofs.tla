----------------------- MODULE BlockSpaceManagerProofs -----------------------
(***************************************************************************)
(* Proofs about the block manager, for any number of blocks, sequences and *)
(* RPC threads: blocks are conserved and the allocator never runs dry.     *)
(***************************************************************************)
EXTENDS BlockSpaceManager, CommonLemmas

(* What the local variables of the calls satisfy.                          *)
CallsOK ==
  /\ \A t \in Threads :
       /\ op[t].kind = "idle" => op[t] = Idle
       /\ op[t].kind # "idle" => op[t].seq \in Seqs
       /\ op[t].kind \in {"allocate", "append"} => t = RunThread
       /\ op[t].need > 0 => op[t].kind \in {"allocate", "append"}
  /\ \A t, u \in Threads : t # u /\ op[t].seq \in Seqs => op[u].seq # op[t].seq

(* The inductive invariant.  NoDoubleOwner is not inductive alone: that a  *)
(* call returns only blocks nobody else claims needs OneCall (CallsOK), and *)
(* NeverDry needs that only the run thread pops.                           *)
IInv == TypeOK /\ CallsOK /\ NoDoubleOwner /\ NoBlockLost /\ NeverDry

(* The free list is finite, so counting it makes sense.                    *)
LEMMA FreeFinite ==
  ASSUME TypeOK
  PROVE  IsFiniteSet(free) /\ Cardinality(free) \in Nat
  BY ManagerAssumption, FS_Subset, FS_CardinalityType DEF TypeOK

(* Initially every block is free and no call is in progress.               *)
LEMMA InitInductive == Init => IInv
<1> SUFFICES ASSUME Init PROVE IInv
  OBVIOUS
<1>1. TypeOK
  BY DEF Init, TypeOK, Idle, Kinds
<1>2. CallsOK
  BY ManagerAssumption DEF Init, CallsOK, Idle
<1>3. NoDoubleOwner /\ NoBlockLost
  BY DEF Init, NoDoubleOwner, NoBlockLost, Claimed, Idle
<1>4. NeverDry
  BY <1>1, FreeFinite DEF Init, NeverDry, Idle, Threads
<1> QED
  BY <1>1, <1>2, <1>3, <1>4 DEF IInv

(* A pop changes two fields of the run thread's call.                      *)
LEMMA TakeBlockOp ==
  ASSUME TypeOK, NEW b \in Blocks, TakeBlock(b)
  PROVE  /\ op'[RunThread] = [kind |-> op[RunThread].kind, seq |-> op[RunThread].seq,
                              need |-> op[RunThread].need - 1,
                              hand |-> op[RunThread].hand \cup {b}]
         /\ op'[RunThread].kind = op[RunThread].kind
         /\ op'[RunThread].seq = op[RunThread].seq
         /\ op'[RunThread].need = op[RunThread].need - 1
         /\ op'[RunThread].hand = op[RunThread].hand \cup {b}
         /\ op[RunThread].need - 1 \in Nat
         /\ \A t \in Threads \ {RunThread} : op'[t] = op[t]
         /\ op' \in [Threads -> [kind : Kinds, seq : Seqs \cup {NoSeq}, need : Nat,
                                hand : SUBSET Blocks]]
<1>0. RunThread \in Threads
  BY DEF Threads
<1>1. op[RunThread] \in [kind : Kinds, seq : Seqs \cup {NoSeq}, need : Nat,
                         hand : SUBSET Blocks]
  BY <1>0 DEF TypeOK
<1>2. op[RunThread].need - 1 \in Nat
  BY <1>1 DEF TakeBlock
<1>3. op'[RunThread] = [kind |-> op[RunThread].kind, seq |-> op[RunThread].seq,
                       need |-> op[RunThread].need - 1,
                       hand |-> op[RunThread].hand \cup {b}]
  <2>1. op' = [op EXCEPT ![RunThread] = [op[RunThread] EXCEPT
                 !.need = op[RunThread].need - 1,
                 !.hand = op[RunThread].hand \cup {b}]]
    BY <1>0 DEF TakeBlock, TypeOK
  <2>2. op'[RunThread] = [op[RunThread] EXCEPT !.need = op[RunThread].need - 1,
                                              !.hand = op[RunThread].hand \cup {b}]
    BY <2>1, <1>0 DEF TypeOK
  <2> QED
    BY <2>2, <1>1
<1>4. \A t \in Threads \ {RunThread} : op'[t] = op[t]
  BY DEF TakeBlock, TypeOK
<1>5. op'[RunThread] \in [kind : Kinds, seq : Seqs \cup {NoSeq}, need : Nat,
                          hand : SUBSET Blocks]
  BY <1>1, <1>2, <1>3
<1>6. op' = [t \in Threads |-> op'[t]]
  BY DEF TakeBlock, TypeOK
<1> QED
  BY <1>2, <1>3, <1>4, <1>5, <1>6 DEF TypeOK

LEMMA TypeInductive == TypeOK /\ CallsOK /\ [Next]_vars => TypeOK'
<1> SUFFICES ASSUME TypeOK, CallsOK, [Next]_vars PROVE TypeOK'
  OBVIOUS
<1> USE DEF TypeOK
<1>0. RunThread \in Threads
  BY DEF Threads
<1>1. ASSUME NEW s \in Seqs, BeginAllocate(s) PROVE TypeOK'
  BY <1>0, <1>1 DEF BeginAllocate, Kinds
<1>2. ASSUME NEW s \in Seqs, BeginAppend(s) PROVE TypeOK'
  BY <1>0, <1>2 DEF BeginAppend, Kinds
<1>3. ASSUME NEW s \in Seqs, Grow(s) PROVE TypeOK'
  BY <1>3, ManagerAssumption DEF Grow
<1>4. ASSUME NEW b \in Blocks, TakeBlock(b) PROVE TypeOK'
  BY <1>4, TakeBlockOp DEF TakeBlock
<1>5. CASE EndTake
  BY <1>0, <1>5 DEF EndTake, Idle, Kinds
<1>6. ASSUME NEW t \in Threads, NEW s \in Seqs, BeginFree(t, s) PROVE TypeOK'
  BY <1>6 DEF BeginFree, Kinds
<1>7. ASSUME NEW t \in Threads, NEW b \in Blocks, ReturnBlock(t, b) PROVE TypeOK'
  BY <1>7 DEF ReturnBlock
<1>8. ASSUME NEW t \in Threads, EndFree(t) PROVE TypeOK'
  BY <1>8 DEF EndFree, Idle, Kinds
<1>9. CASE UNCHANGED vars
  BY <1>9 DEF vars
<1> QED
  BY <1>1, <1>2, <1>3, <1>4, <1>5, <1>6, <1>7, <1>8, <1>9 DEF Next

LEMMA CallsInductive == TypeOK /\ CallsOK /\ [Next]_vars => CallsOK'
<1> SUFFICES ASSUME TypeOK, CallsOK, [Next]_vars PROVE CallsOK'
  OBVIOUS
<1> USE DEF CallsOK
<1>0. RunThread \in Threads
  BY DEF Threads
<1>1. ASSUME NEW s \in Seqs, BeginAllocate(s) PROVE CallsOK'
  BY <1>0, <1>1, ManagerAssumption DEF BeginAllocate, TypeOK, Unused, Idle
<1>2. ASSUME NEW s \in Seqs, BeginAppend(s) PROVE CallsOK'
  BY <1>0, <1>2, ManagerAssumption DEF BeginAppend, TypeOK, Unused, Idle
<1>3. ASSUME NEW s \in Seqs, Grow(s) PROVE CallsOK'
  BY <1>3 DEF Grow
<1>4. ASSUME NEW b \in Blocks, TakeBlock(b) PROVE CallsOK'
  <2>1. op[RunThread].kind \in {"allocate", "append"}
    BY <1>0, <1>4 DEF TakeBlock
  <2>2. \A t \in Threads : op'[t].kind = op[t].kind /\ op'[t].seq = op[t].seq
    BY <1>4, TakeBlockOp DEF TakeBlock
  <2>3. \A t \in Threads : op'[t].kind = "idle" => op'[t] = op[t]
    BY <1>4, <2>1, <2>2, TakeBlockOp DEF TakeBlock
  <2>4. \A t \in Threads : op'[t].need > 0 => op'[t].kind \in {"allocate", "append"}
    BY <1>4, <2>1, <2>2, TakeBlockOp DEF TakeBlock
  <2> QED
    BY <2>2, <2>3, <2>4
<1>5. CASE EndTake
  BY <1>0, <1>5, ManagerAssumption DEF EndTake, Idle, TypeOK
<1>6. ASSUME NEW t \in Threads, NEW s \in Seqs, BeginFree(t, s) PROVE CallsOK'
  BY <1>6 DEF BeginFree, TypeOK, Unused, Idle
<1>7. ASSUME NEW t \in Threads, NEW b \in Blocks, ReturnBlock(t, b) PROVE CallsOK'
  <2>1. op[t].kind = "free" /\ op' = [op EXCEPT ![t].hand = op[t].hand \ {b}]
    BY <1>7 DEF ReturnBlock
  <2>2. \A u \in Threads : u # t => op'[u] = op[u]
    BY <2>1 DEF TypeOK
  <2>3. \A u \in Threads : /\ op'[u].kind = op[u].kind
                           /\ op'[u].seq = op[u].seq
                           /\ op'[u].need = op[u].need
    BY <2>1 DEF TypeOK
  <2>4. \A u \in Threads : op'[u].kind = "idle" => op'[u] = Idle
    BY <2>1, <2>2, <2>3
  <2> QED
    BY <2>3, <2>4
<1>8. ASSUME NEW t \in Threads, EndFree(t) PROVE CallsOK'
  BY <1>8, ManagerAssumption DEF EndFree, Idle, TypeOK
<1>9. CASE UNCHANGED vars
  BY <1>9 DEF vars
<1> QED
  BY <1>1, <1>2, <1>3, <1>4, <1>5, <1>6, <1>7, <1>8, <1>9 DEF Next

(* Which sequences are being freed after a step.                           *)
LEMMA FreeingStep ==
  ASSUME TypeOK, CallsOK, NEW s \in Seqs
  PROVE  /\ \A r \in Seqs : BeginAllocate(r) \/ BeginAppend(r) \/ Grow(r)
                            => Freeing(s)' = Freeing(s)
         /\ \A b \in Blocks : TakeBlock(b) => Freeing(s)' = Freeing(s)
         /\ EndTake => Freeing(s)' = Freeing(s)
         /\ \A t \in Threads, b \in Blocks : ReturnBlock(t, b) => Freeing(s)' = Freeing(s)
         /\ \A t \in Threads, r \in Seqs :
              BeginFree(t, r) => Freeing(s)' = (Freeing(s) \/ s = r)
         /\ \A t \in Threads :
              EndFree(t) => Freeing(s)' = (Freeing(s) /\ s # op[t].seq)
<1>0. RunThread \in Threads
  BY DEF Threads
<1>1. ASSUME NEW r \in Seqs, BeginAllocate(r) \/ BeginAppend(r) \/ Grow(r)
      PROVE  Freeing(s)' = Freeing(s)
  BY <1>0, <1>1 DEF BeginAllocate, BeginAppend, Grow, Freeing, TypeOK
<1>2. ASSUME NEW b \in Blocks, TakeBlock(b) PROVE Freeing(s)' = Freeing(s)
  BY <1>0, <1>2, TakeBlockOp DEF Freeing, TakeBlock
<1>3. ASSUME EndTake PROVE Freeing(s)' = Freeing(s)
  BY <1>0, <1>3 DEF EndTake, Freeing, TypeOK, Idle
<1>4. ASSUME NEW t \in Threads, NEW b \in Blocks, ReturnBlock(t, b)
      PROVE  Freeing(s)' = Freeing(s)
  BY <1>4 DEF ReturnBlock, Freeing, TypeOK
<1>5. ASSUME NEW t \in Threads, NEW r \in Seqs, BeginFree(t, r)
      PROVE  Freeing(s)' = (Freeing(s) \/ s = r)
  BY <1>5 DEF BeginFree, Freeing, TypeOK
<1>6. ASSUME NEW t \in Threads, EndFree(t)
      PROVE  Freeing(s)' = (Freeing(s) /\ s # op[t].seq)
  BY <1>6, ManagerAssumption DEF EndFree, Freeing, TypeOK, CallsOK, Idle
<1> QED
  BY <1>1, <1>2, <1>3, <1>4, <1>5, <1>6

LEMMA OwnersInductive ==
  TypeOK /\ CallsOK /\ NoDoubleOwner /\ NoBlockLost /\ [Next]_vars
    => NoDoubleOwner' /\ NoBlockLost'
<1> SUFFICES ASSUME TypeOK, CallsOK, NoDoubleOwner, NoBlockLost, [Next]_vars
             PROVE  NoDoubleOwner' /\ NoBlockLost'
  OBVIOUS
<1>0. RunThread \in Threads
  BY DEF Threads
<1> USE DEF NoDoubleOwner, NoBlockLost, Claimed
(* Only the run thread's kind, sequence and need change.                   *)
<1>1. ASSUME NEW s \in Seqs, BeginAllocate(s) \/ BeginAppend(s) \/ Grow(s)
      PROVE  NoDoubleOwner' /\ NoBlockLost'
  <2>1. \A t \in Threads : op'[t].hand = op[t].hand
    <3>1. CASE Grow(s)
      BY <3>1 DEF Grow
    <3>2. CASE BeginAllocate(s) \/ BeginAppend(s)
      <4>1. op[RunThread].hand = {} /\ op'[RunThread].hand = {}
        BY <1>0, <3>2 DEF BeginAllocate, BeginAppend, CallsOK, TypeOK, Idle
      <4>2. \A t \in Threads \ {RunThread} : op'[t] = op[t]
        BY <3>2 DEF BeginAllocate, BeginAppend, TypeOK
      <4> QED
        BY <4>1, <4>2
    <3> QED
      BY <1>1, <3>1, <3>2
  <2>2. free' = free /\ tables' = tables
    BY <1>1 DEF BeginAllocate, BeginAppend, Grow
  <2>3. \A r \in Seqs : Freeing(r)' = Freeing(r)
    BY <1>1, FreeingStep
  <2> QED
    BY <2>1, <2>2, <2>3
(* A block moves from the free list to the hand of the run thread.         *)
<1>2. ASSUME NEW b \in Blocks, TakeBlock(b) PROVE NoDoubleOwner' /\ NoBlockLost'
  <2>1. /\ op'[RunThread].hand = op[RunThread].hand \cup {b}
        /\ \A t \in Threads \ {RunThread} : op'[t].hand = op[t].hand
    BY <1>2, TakeBlockOp DEF TakeBlock
  <2>2. b \in free /\ free' = free \ {b} /\ tables' = tables
    BY <1>2 DEF TakeBlock
  <2>3. \A r \in Seqs : Freeing(r)' = Freeing(r)
    BY <1>2, FreeingStep
  <2>4. NoDoubleOwner'
    BY <1>0, <2>1, <2>2, <2>3
  <2>5. NoBlockLost'
    BY <1>0, <2>1, <2>2, <2>3
  <2> QED
    BY <2>4, <2>5
(* The hand of the run thread joins the table of its sequence.             *)
<1>3. CASE EndTake
  <2> DEFINE q == op[RunThread].seq
  <2>1. q \in Seqs /\ ~Freeing(q)
    BY <1>0, <1>3 DEF EndTake, CallsOK, Freeing
  <2>2. /\ op'[RunThread].hand = {}
        /\ \A t \in Threads \ {RunThread} : op'[t].hand = op[t].hand
    BY <1>0, <1>3 DEF EndTake, TypeOK, Idle
  <2>3. /\ tables'[q] = tables[q] \cup op[RunThread].hand
        /\ \A r \in Seqs \ {q} : tables'[r] = tables[r]
        /\ free' = free
    BY <1>3, <2>1 DEF EndTake, TypeOK
  <2>4. \A r \in Seqs : Freeing(r)' = Freeing(r)
    BY <1>3, FreeingStep
  <2> HIDE DEF q
  <2>5. NoDoubleOwner'
    BY <1>0, <2>1, <2>2, <2>3, <2>4
  <2>6. NoBlockLost'
    BY <1>0, <2>1, <2>2, <2>3, <2>4
  <2> QED
    BY <2>5, <2>6
(* The blocks of a table become the hand of the freeing thread.            *)
<1>4. ASSUME NEW t \in Threads, NEW s \in Seqs, BeginFree(t, s)
      PROVE  NoDoubleOwner' /\ NoBlockLost'
  <2>1. ~Freeing(s)
    BY <1>4 DEF BeginFree, Unused, Freeing
  <2>2. op[t].hand = {}
    BY <1>4 DEF BeginFree, CallsOK, Idle
  <2>3. /\ op'[t].hand = tables[s]
        /\ \A u \in Threads \ {t} : op'[u].hand = op[u].hand
    BY <1>4 DEF BeginFree, TypeOK
  <2>4. free' = free /\ tables' = tables
    BY <1>4 DEF BeginFree
  <2>5. \A r \in Seqs : Freeing(r)' = (Freeing(r) \/ r = s)
    BY <1>4, FreeingStep
  <2>6. NoDoubleOwner'
    <3>1. \A b \in tables[s] : b \in Blocks /\ b \notin free
      BY <2>1 DEF TypeOK
    <3>2. \A u \in Threads : tables[s] \cap op[u].hand = {}
      BY <2>1
    <3>3. \A r \in Seqs : r # s /\ ~Freeing(r) => tables[s] \cap tables[r] = {}
      BY <2>1, <3>1
    <3>4. \A b \in free' : \A u \in Threads : b \notin op'[u].hand
      BY <2>3, <2>4, <3>1
    <3>5. \A u, v \in Threads : u # v => op'[u].hand \cap op'[v].hand = {}
      BY <2>3, <3>2
    <3>6. \A u \in Threads, r \in Seqs : \A b \in op'[u].hand :
            ~(~Freeing(r)' /\ b \in tables'[r])
      BY <2>3, <2>4, <2>5, <3>3
    <3> QED
      BY <2>4, <2>5, <3>4, <3>5, <3>6
  <2>7. NoBlockLost'
    BY <2>1, <2>2, <2>3, <2>4, <2>5
  <2> QED
    BY <2>6, <2>7
(* A block moves from the hand of a freeing thread to the free list.       *)
<1>5. ASSUME NEW t \in Threads, NEW b \in Blocks, ReturnBlock(t, b)
      PROVE  NoDoubleOwner' /\ NoBlockLost'
  <2>1. b \in op[t].hand /\ free' = free \cup {b} /\ tables' = tables
    BY <1>5 DEF ReturnBlock
  <2>2. /\ op'[t].hand = op[t].hand \ {b}
        /\ \A u \in Threads \ {t} : op'[u].hand = op[u].hand
    BY <1>5 DEF ReturnBlock, TypeOK
  <2>3. \A r \in Seqs : Freeing(r)' = Freeing(r)
    BY <1>5, FreeingStep
  <2>4. NoDoubleOwner'
    BY <2>1, <2>2, <2>3
  <2>5. NoBlockLost'
    BY <2>1, <2>2, <2>3
  <2> QED
    BY <2>4, <2>5
(* The entry that is deleted claims nothing any more.                      *)
<1>6. ASSUME NEW t \in Threads, EndFree(t) PROVE NoDoubleOwner' /\ NoBlockLost'
  <2> DEFINE q == op[t].seq
  <2>1. q \in Seqs /\ Freeing(q)
    BY <1>6 DEF EndFree, CallsOK, Freeing
  <2>2. /\ op[t].hand = {} /\ op'[t].hand = {}
        /\ \A u \in Threads \ {t} : op'[u].hand = op[u].hand
    BY <1>6 DEF EndFree, TypeOK, Idle
  <2>3. /\ tables'[q] = {}
        /\ \A r \in Seqs \ {q} : tables'[r] = tables[r]
        /\ free' = free
    BY <1>6, <2>1 DEF EndFree, TypeOK
  <2>4. \A r \in Seqs : Freeing(r)' = (Freeing(r) /\ r # q)
    BY <1>6, FreeingStep
  <2> HIDE DEF q
  <2>5. NoDoubleOwner'
    BY <2>1, <2>2, <2>3, <2>4
  <2>6. NoBlockLost'
    BY <2>1, <2>2, <2>3, <2>4
  <2> QED
    BY <2>5, <2>6
<1>7. CASE UNCHANGED vars
  BY <1>7 DEF vars, Freeing
<1> QED
  BY <1>1, <1>2, <1>3, <1>4, <1>5, <1>6, <1>7 DEF Next

(* A pop takes one block for one needed; other threads only add to the     *)
(* free list; a check precedes every need.                                 *)
LEMMA NeverDryInductive == TypeOK /\ CallsOK /\ NeverDry /\ [Next]_vars => NeverDry'
<1> SUFFICES ASSUME TypeOK, CallsOK, NeverDry, [Next]_vars PROVE NeverDry'
  OBVIOUS
<1>0. RunThread \in Threads
  BY DEF Threads
<1>a. /\ IsFiniteSet(free) /\ Cardinality(free) \in Nat
      /\ op[RunThread].need \in Nat /\ WatermarkBlocks \in Nat
  BY <1>0, FreeFinite, ManagerAssumption DEF TypeOK
<1>1. ASSUME NEW s \in Seqs, BeginAllocate(s) PROVE NeverDry'
  <2>1. /\ op'[RunThread].need = logical[s] /\ logical[s] \in Nat
        /\ free' = free
    BY <1>0, <1>1 DEF BeginAllocate, TypeOK
  <2>2. Cardinality(free) - logical[s] >= WatermarkBlocks
    BY <1>1 DEF BeginAllocate, CanAllocate
  <2> QED
    BY <1>a, <2>1, <2>2 DEF NeverDry
<1>2. ASSUME NEW s \in Seqs, BeginAppend(s) PROVE NeverDry'
  <2>1. /\ op'[RunThread].need = 1 /\ op'[RunThread].kind = "append"
        /\ free' = free
    BY <1>0, <1>2 DEF BeginAppend, TypeOK
  <2>2. Cardinality(free) > 0
    BY <1>2 DEF BeginAppend, CanAppendSlot
  <2> QED
    BY <1>a, <2>1, <2>2 DEF NeverDry
<1>3. ASSUME NEW s \in Seqs, Grow(s) PROVE NeverDry'
  BY <1>3 DEF Grow, NeverDry
<1>4. ASSUME NEW b \in Blocks, TakeBlock(b) PROVE NeverDry'
  <2>1. /\ op'[RunThread].need = op[RunThread].need - 1
        /\ op'[RunThread].kind = op[RunThread].kind
    BY <1>4, TakeBlockOp DEF TakeBlock
  <2>2. Cardinality(free') = Cardinality(free) - 1
    BY <1>4, <1>a, FS_RemoveElement DEF TakeBlock
  <2> QED
    BY <1>a, <2>1, <2>2 DEF NeverDry
<1>5. CASE EndTake
  <2>1. /\ op'[RunThread].need = 0 /\ op'[RunThread].kind = "idle"
        /\ free' = free
    BY <1>0, <1>5 DEF EndTake, TypeOK, Idle
  <2> QED
    BY <1>a, <2>1 DEF NeverDry
<1>6. ASSUME NEW t \in Threads, NEW s \in Seqs, BeginFree(t, s) PROVE NeverDry'
  <2>1. free' = free
    BY <1>6 DEF BeginFree
  <2>2. \/ op'[RunThread] = op[RunThread]
        \/ op'[RunThread].need = 0 /\ op'[RunThread].kind = "free"
    BY <1>0, <1>6 DEF BeginFree, TypeOK
  <2> QED
    BY <1>a, <2>1, <2>2 DEF NeverDry
<1>7. ASSUME NEW t \in Threads, NEW b \in Blocks, ReturnBlock(t, b) PROVE NeverDry'
  <2>1. /\ op'[RunThread].need = op[RunThread].need
        /\ op'[RunThread].kind = op[RunThread].kind
    BY <1>0, <1>7 DEF ReturnBlock, TypeOK
  <2>2. Cardinality(free') >= Cardinality(free) /\ Cardinality(free') \in Nat
    <3>1. Cardinality(free \cup {b}) =
            IF b \in free THEN Cardinality(free) ELSE Cardinality(free) + 1
      BY <1>a, FS_AddElement
    <3>2. \/ Cardinality(free \cup {b}) = Cardinality(free)
          \/ Cardinality(free \cup {b}) = Cardinality(free) + 1
      BY <3>1
    <3>3. free' = free \cup {b}
      BY <1>7 DEF ReturnBlock
    <3> QED
      BY <1>a, <3>2, <3>3
  <2> QED
    BY <1>a, <2>1, <2>2 DEF NeverDry
<1>8. ASSUME NEW t \in Threads, EndFree(t) PROVE NeverDry'
  <2>1. free' = free
    BY <1>8 DEF EndFree
  <2>2. \/ op'[RunThread] = op[RunThread]
        \/ op'[RunThread].need = 0 /\ op'[RunThread].kind = "idle"
    BY <1>0, <1>8 DEF EndFree, TypeOK, Idle
  <2> QED
    BY <1>a, <2>1, <2>2 DEF NeverDry
<1>9. CASE UNCHANGED vars
  BY <1>9 DEF vars, NeverDry
<1> QED
  BY <1>1, <1>2, <1>3, <1>4, <1>5, <1>6, <1>7, <1>8, <1>9 DEF Next

(* The inductive invariant holds in every reachable state.                 *)
THEOREM Inductive == Spec => []IInv
<1>1. Init => IInv
  BY InitInductive
<1>2. IInv /\ [Next]_vars => IInv'
  BY TypeInductive, CallsInductive, OwnersInductive, NeverDryInductive DEF IInv
<1> QED
  BY <1>1, <1>2, PTL DEF Spec

(* The state always has its type.                                          *)
THEOREM TypeCorrect == Spec => []TypeOK
<1>1. IInv => TypeOK
  BY DEF IInv
<1> QED
  BY <1>1, Inductive, PTL

(* No physical block ever has two owners, whatever the number of threads   *)
(* and blocks: allocate, append_slot and free of                           *)
(* base_block_space_manager.py need no lock beyond the allocator's.        *)
THEOREM BlocksNeverShared == Spec => []NoDoubleOwner
<1>1. IInv => NoDoubleOwner
  BY DEF IInv
<1> QED
  BY <1>1, Inductive, PTL

(* No physical block is ever lost by the same calls.                       *)
THEOREM BlocksNeverLost == Spec => []NoBlockLost
<1>1. IInv => NoBlockLost
  BY DEF IInv
<1> QED
  BY <1>1, Inductive, PTL

(* The allocator never raises `Out of memory!': with one allocating thread *)
(* a check of the free list stays valid until the pops it allowed are      *)
(* done, although it is made without a lock.                               *)
THEOREM NeverOutOfMemory == Spec => []NeverDry
<1>1. IInv => NeverDry
  BY DEF IInv
<1> QED
  BY <1>1, Inductive, PTL

-----------------------------------------------------------------------------
(* A table covers the tokens of its sequence.                              *)

(* What the call of the run thread owes its sequence: the blocks in its    *)
(* hand, those it still has to pop and those of the table make up the      *)
(* logical blocks.  TablesCoverTokens says nothing of a sequence in a      *)
(* call, so it does not survive the end of one without this.               *)
CallCovers ==
  op[RunThread].kind \in {"allocate", "append"} =>
    logical[op[RunThread].seq] = op[RunThread].need + Cardinality(op[RunThread].hand)
                                  + Cardinality(tables[op[RunThread].seq])

CoverInv == IInv /\ CallCovers /\ TablesCoverTokens

(* Hands and tables are sets of blocks, so they can be counted.            *)
LEMMA TablesFinite ==
  ASSUME TypeOK
  PROVE  /\ \A s \in Seqs : IsFiniteSet(tables[s]) /\ Cardinality(tables[s]) \in Nat
         /\ \A t \in Threads : IsFiniteSet(op[t].hand) /\ Cardinality(op[t].hand) \in Nat
         /\ \A s \in Seqs : logical[s] \in Nat /\ logical[s] > 0
<1>1. \A S \in SUBSET Blocks : IsFiniteSet(S) /\ Cardinality(S) \in Nat
  BY ManagerAssumption, FS_Subset, FS_CardinalityType
<1> QED
  BY <1>1, ManagerAssumption DEF TypeOK

LEMMA CoverInit == Init => CallCovers /\ TablesCoverTokens
  BY ManagerAssumption DEF Init, CallCovers, TablesCoverTokens, IsAllocated, Idle, Threads

LEMMA CoverInductive == CoverInv /\ [Next]_vars => CallCovers' /\ TablesCoverTokens'
<1> SUFFICES ASSUME CoverInv, [Next]_vars PROVE CallCovers' /\ TablesCoverTokens'
  OBVIOUS
<1>0. /\ TypeOK /\ CallsOK /\ NoDoubleOwner /\ CallCovers /\ TablesCoverTokens
      /\ RunThread \in Threads
  BY DEF CoverInv, IInv, Threads
<1>a. /\ \A s \in Seqs : IsFiniteSet(tables[s]) /\ Cardinality(tables[s]) \in Nat
      /\ \A t \in Threads : IsFiniteSet(op[t].hand) /\ Cardinality(op[t].hand) \in Nat
      /\ \A s \in Seqs : logical[s] \in Nat /\ logical[s] > 0
      /\ Cardinality({}) = 0
  BY <1>0, TablesFinite, FS_EmptySet
<1>1. ASSUME NEW s \in Seqs, BeginAllocate(s) \/ BeginAppend(s)
      PROVE  CallCovers' /\ TablesCoverTokens'
  <2>1. /\ op[RunThread].kind = "idle" /\ op[RunThread].seq \notin Seqs
        /\ Unused(s) /\ tables' = tables /\ logical' = logical
        /\ op'[RunThread].seq = s /\ op'[RunThread].hand = {}
        /\ \A t \in Threads \ {RunThread} : op'[t] = op[t]
    BY <1>0, <1>1, ManagerAssumption DEF BeginAllocate, BeginAppend, TypeOK, CallsOK, Idle
  <2>2. logical[s] = op'[RunThread].need + Cardinality(tables[s])
    <3>1. CASE BeginAllocate(s)
      <4>1. op'[RunThread].need = logical[s] /\ tables[s] = {}
        BY <1>0, <3>1 DEF BeginAllocate, TypeOK, IsAllocated
      <4> QED
        BY <1>a, <4>1
    <3>2. CASE BeginAppend(s)
      <4>1. op'[RunThread].need = 1 /\ Cardinality(tables[s]) < logical[s]
        BY <1>0, <3>2 DEF BeginAppend, TypeOK
      <4>2. logical[s] - Cardinality(tables[s]) \in {0, 1}
        BY <1>0, <2>1, <3>2 DEF BeginAppend, TablesCoverTokens
      <4> QED
        BY <1>a, <4>1, <4>2
    <3> QED
      BY <1>1, <3>1, <3>2
  <2>3. CallCovers'
    <3>1. op'[RunThread].need \in Int
      BY <1>0, <1>1, <1>a DEF BeginAllocate, BeginAppend, TypeOK
    <3>2. Cardinality(op'[RunThread].hand) = 0
      BY <1>a, <2>1
    <3>3. logical[s] = op'[RunThread].need + Cardinality(op'[RunThread].hand)
                         + Cardinality(tables[s])
      BY <1>a, <2>2, <3>1, <3>2
    <3> QED
      BY <2>1, <3>3 DEF CallCovers
  <2>4. \A r \in Seqs : Unused(r)' => Unused(r)
    BY <2>1 DEF Unused
  <2> QED
    BY <1>0, <2>1, <2>3, <2>4 DEF TablesCoverTokens, IsAllocated
<1>2. ASSUME NEW s \in Seqs, Grow(s) PROVE CallCovers' /\ TablesCoverTokens'
  <2>1. /\ op[RunThread].kind = "idle" /\ op' = op /\ tables' = tables
        /\ Cardinality(tables[s]) = logical[s]
        /\ logical'[s] = logical[s] + 1
        /\ \A r \in Seqs \ {s} : logical'[r] = logical[r]
    BY <1>0, <1>2 DEF Grow, TypeOK
  <2>2. logical'[s] - Cardinality(tables'[s]) = 1
    BY <1>a, <2>1
  <2>3. \A r \in Seqs : Unused(r)' = Unused(r)
    BY <2>1 DEF Unused
  <2>4. CallCovers'
    BY <2>1 DEF CallCovers
  <2>5. ASSUME NEW r \in Seqs, IsAllocated(r)', Unused(r)'
        PROVE  (logical[r] - Cardinality(tables[r]) \in {0, 1})'
    <3>1. CASE r = s
      BY <2>2, <3>1
    <3>2. CASE r # s
      <4>1. IsAllocated(r) /\ Unused(r) /\ logical'[r] = logical[r] /\ tables' = tables
        BY <2>1, <2>3, <2>5, <3>2 DEF IsAllocated
      <4> QED
        BY <1>0, <4>1 DEF TablesCoverTokens
    <3> QED
      BY <3>1, <3>2
  <2> QED
    BY <2>4, <2>5 DEF TablesCoverTokens
<1>3. ASSUME NEW b \in Blocks, TakeBlock(b) PROVE CallCovers' /\ TablesCoverTokens'
  <2>1. /\ op'[RunThread].kind = op[RunThread].kind
        /\ op'[RunThread].seq = op[RunThread].seq
        /\ op'[RunThread].need = op[RunThread].need - 1
        /\ op'[RunThread].hand = op[RunThread].hand \cup {b}
        /\ \A t \in Threads \ {RunThread} : op'[t] = op[t]
    BY <1>0, <1>3, TakeBlockOp
  <2>2. /\ op[RunThread].kind \in {"allocate", "append"}
        /\ op[RunThread].seq \in Seqs /\ op[RunThread].need \in Nat
        /\ b \notin op[RunThread].hand
        /\ tables' = tables /\ logical' = logical
    BY <1>0, <1>3 DEF TakeBlock, CallsOK, NoDoubleOwner, TypeOK
  <2>3. Cardinality(op'[RunThread].hand) = Cardinality(op[RunThread].hand) + 1
    <3>1. Cardinality(op[RunThread].hand \cup {b}) = Cardinality(op[RunThread].hand) + 1
      <4>1. IsFiniteSet(op[RunThread].hand)
        BY <1>0, <1>a
      <4> QED
        BY <2>2, <4>1, FS_AddElement
    <3> QED
      BY <2>1, <3>1
  <2>4. CallCovers'
    BY <1>0, <1>a, <2>1, <2>2, <2>3 DEF CallCovers
  <2>5. \A r \in Seqs : Unused(r)' = Unused(r)
    BY <2>1 DEF Unused
  <2> QED
    BY <1>0, <2>2, <2>4, <2>5 DEF TablesCoverTokens, IsAllocated
<1>4. CASE EndTake
  <2> DEFINE q == op[RunThread].seq
             hand == op[RunThread].hand
  <2>1. /\ op[RunThread].kind \in {"allocate", "append"} /\ op[RunThread].need = 0
        /\ q \in Seqs /\ logical' = logical
        /\ tables'[q] = tables[q] \cup hand
        /\ \A r \in Seqs \ {q} : tables'[r] = tables[r]
        /\ op'[RunThread].kind = "idle"
        /\ \A t \in Threads \ {RunThread} : op'[t] = op[t]
    BY <1>0, <1>4 DEF EndTake, CallsOK, TypeOK, Idle
  <2>2. tables[q] \cap hand = {}
    <3>1. ~Freeing(q)
      BY <1>0, <2>1 DEF CallsOK, Freeing
    <3> QED
      BY <1>0, <2>1, <3>1 DEF NoDoubleOwner, Claimed
  <2>3. Cardinality(tables'[q]) = logical[q]
    <3>1. Cardinality(tables[q] \cup hand)
            = Cardinality(tables[q]) + Cardinality(hand) - Cardinality(tables[q] \cap hand)
      BY <1>0, <1>a, <2>1, FS_Union
    <3>2. logical[q] = Cardinality(hand) + Cardinality(tables[q])
      BY <1>0, <1>a, <2>1 DEF CallCovers
    <3> QED
      <4>1. /\ Cardinality(tables[q] \cap hand) = 0
            /\ Cardinality(tables[q]) \in Nat /\ Cardinality(hand) \in Nat
        BY <1>0, <1>a, <2>1, <2>2
      <4>2. tables'[q] = tables[q] \cup hand
        BY <2>1
      <4> HIDE DEF q, hand
      <4> QED
        BY <3>1, <3>2, <4>1, <4>2
  <2> HIDE DEF hand
  <2>4. \A r \in Seqs \ {q} : Unused(r)' => Unused(r)
    BY <2>1 DEF Unused
  <2>5. logical'[q] - Cardinality(tables'[q]) = 0
    BY <1>a, <2>1, <2>3
  <2> HIDE DEF q
  <2>6. CallCovers'
    BY <2>1 DEF CallCovers
  <2>7. ASSUME NEW r \in Seqs, IsAllocated(r)', Unused(r)'
        PROVE  (logical[r] - Cardinality(tables[r]) \in {0, 1})'
    <3>1. CASE r = q
      BY <2>5, <3>1
    <3>2. CASE r # q
      <4>1. IsAllocated(r) /\ Unused(r) /\ logical'[r] = logical[r] /\ tables'[r] = tables[r]
        BY <2>1, <2>4, <2>7, <3>2 DEF IsAllocated
      <4> QED
        BY <1>0, <4>1 DEF TablesCoverTokens
    <3> QED
      BY <3>1, <3>2
  <2> QED
    BY <2>6, <2>7 DEF TablesCoverTokens
<1>5. ASSUME NEW t \in Threads, NEW s \in Seqs, BeginFree(t, s)
      PROVE  CallCovers' /\ TablesCoverTokens'
  <2>1. /\ op[t].kind = "idle" /\ op[t].seq \notin Seqs
        /\ op'[t].kind = "free" /\ op'[t].seq = s
        /\ \A u \in Threads \ {t} : op'[u] = op[u]
        /\ tables' = tables /\ logical' = logical
    BY <1>0, <1>5, ManagerAssumption DEF BeginFree, TypeOK, CallsOK, Idle
  <2>2. \A r \in Seqs : Unused(r)' => Unused(r)
    BY <2>1 DEF Unused
  <2>3. CallCovers'
    BY <1>0, <2>1 DEF CallCovers
  <2> QED
    BY <1>0, <2>1, <2>2, <2>3 DEF TablesCoverTokens, IsAllocated
<1>6. ASSUME NEW t \in Threads, NEW b \in Blocks, ReturnBlock(t, b)
      PROVE  CallCovers' /\ TablesCoverTokens'
  <2>1. /\ op[t].kind = "free" /\ op'[t].kind = "free" /\ op'[t].seq = op[t].seq
        /\ \A u \in Threads \ {t} : op'[u] = op[u]
        /\ tables' = tables /\ logical' = logical
    BY <1>0, <1>6 DEF ReturnBlock, TypeOK
  <2>2. \A r \in Seqs : Unused(r)' = Unused(r)
    BY <2>1 DEF Unused
  <2>3. CallCovers'
    BY <1>0, <2>1 DEF CallCovers
  <2> QED
    BY <1>0, <2>1, <2>2, <2>3 DEF TablesCoverTokens, IsAllocated
<1>7. ASSUME NEW t \in Threads, EndFree(t) PROVE CallCovers' /\ TablesCoverTokens'
  <2> DEFINE q == op[t].seq
  <2>1. /\ op[t].kind = "free" /\ q \in Seqs /\ op'[t].kind = "idle"
        /\ \A u \in Threads \ {t} : op'[u] = op[u]
        /\ tables'[q] = {} /\ logical' = logical
        /\ \A r \in Seqs \ {q} : tables'[r] = tables[r]
    BY <1>0, <1>7 DEF EndFree, CallsOK, TypeOK, Idle
  <2>2. CallCovers'
    <3>1. CASE op[RunThread].kind \in {"allocate", "append"}
      <4>1. RunThread # t /\ op[RunThread].seq \in Seqs /\ op[RunThread].seq # q
        BY <1>0, <2>1, <3>1 DEF CallsOK
      <4> QED
        BY <1>0, <2>1, <4>1 DEF CallCovers
    <3>2. CASE op[RunThread].kind \notin {"allocate", "append"}
      BY <1>0, <2>1, <3>2 DEF CallCovers
    <3> QED
      BY <3>1, <3>2
  <2> HIDE DEF q
  <2>3. \A r \in Seqs \ {q} : Unused(r)' => Unused(r)
    BY <2>1 DEF Unused, q
  <2> QED
    BY <1>0, <2>1, <2>2, <2>3 DEF TablesCoverTokens, IsAllocated
<1>8. CASE UNCHANGED vars
  BY <1>0, <1>8 DEF vars, CallCovers, TablesCoverTokens, IsAllocated, Unused
<1> QED
  BY <1>1, <1>2, <1>3, <1>4, <1>5, <1>6, <1>7, <1>8 DEF Next

(* A sequence that is in no call has a block for each of its logical       *)
(* blocks but perhaps the last: the single block append_slot adds is       *)
(* always enough (base_block_space_manager.py:104-113).                    *)
THEOREM TablesAlwaysCover == Spec => []TablesCoverTokens
<1>1. Init => CoverInv
  BY InitInductive, CoverInit DEF CoverInv
<1>2. CoverInv /\ [Next]_vars => CoverInv'
  BY TypeInductive, CallsInductive, OwnersInductive, NeverDryInductive, CoverInductive
     DEF CoverInv, IInv
<1>3. CoverInv => TablesCoverTokens
  BY DEF CoverInv
<1> QED
  BY <1>1, <1>2, <1>3, PTL DEF Spec
-----------------------------------------------------------------------------
(* The lock-by-lock execution implements the ledger.                       *)

(* What the run thread is about to hand over: all the blocks of a sequence *)
(* that has none, or one block for a sequence that has some.               *)
CallTakes ==
  LET c == op[RunThread]
  IN  /\ c.kind = "allocate" => tables[c.seq] = {}
      /\ c.kind = "append" => tables[c.seq] # {} /\ c.need + Cardinality(c.hand) = 1

LedgerInv == CoverInv /\ CallTakes

(* The other calls leave the run thread's call and its table alone.        *)
LEMMA CallTakesFrame ==
  ASSUME CallTakes, op'[RunThread] = op[RunThread],
         op[RunThread].kind \in {"allocate", "append"} =>
           tables'[op[RunThread].seq] = tables[op[RunThread].seq]
  PROVE  CallTakes'
BY DEF CallTakes

LEMMA CallTakesInductive == CoverInv /\ CallTakes /\ [Next]_vars => CallTakes'
<1> SUFFICES ASSUME CoverInv, CallTakes, [Next]_vars PROVE CallTakes'
  OBVIOUS
<1>0. RunThread \in Threads /\ TypeOK /\ CallsOK
  BY DEF Threads, CoverInv, IInv
<1>1. ASSUME NEW s \in Seqs, BeginAllocate(s) PROVE CallTakes'
  BY <1>0, <1>1 DEF BeginAllocate, CallTakes, TypeOK, IsAllocated
<1>2. ASSUME NEW s \in Seqs, BeginAppend(s) PROVE CallTakes'
  BY <1>0, <1>2, FS_EmptySet DEF BeginAppend, CallTakes, TypeOK, IsAllocated
<1>3. ASSUME NEW s \in Seqs, Grow(s) PROVE CallTakes'
  BY <1>3 DEF Grow, CallTakes
<1>4. ASSUME NEW b \in Blocks, TakeBlock(b) PROVE CallTakes'
  <2>1. b \notin op[RunThread].hand /\ tables' = tables /\ IsFiniteSet(op[RunThread].hand)
    BY <1>0, <1>4, TablesFinite DEF TakeBlock, CoverInv, IInv, NoDoubleOwner
  <2>2. Cardinality(op[RunThread].hand \cup {b}) = Cardinality(op[RunThread].hand) + 1
    BY <2>1, FS_AddElement
  <2>3. op[RunThread].need \in Nat /\ Cardinality(op[RunThread].hand) \in Nat
    BY <1>0, TablesFinite DEF TypeOK
  <2>4. /\ op'[RunThread].kind = op[RunThread].kind /\ op'[RunThread].seq = op[RunThread].seq
        /\ op'[RunThread].need = op[RunThread].need - 1
        /\ op'[RunThread].hand = op[RunThread].hand \cup {b}
    BY <1>0, <1>4, TakeBlockOp
  <2>5. op'[RunThread].need + Cardinality(op'[RunThread].hand)
          = op[RunThread].need + Cardinality(op[RunThread].hand)
    <3>1. Cardinality(op'[RunThread].hand) = Cardinality(op[RunThread].hand) + 1
      BY <2>2, <2>4
    <3> QED
      BY <2>3, <2>4, <3>1
  <2>6. tables'[op'[RunThread].seq] = tables[op[RunThread].seq]
    BY <2>1, <2>4
  <2> QED
    BY <2>4, <2>5, <2>6 DEF CallTakes
<1>5. ASSUME EndTake PROVE CallTakes'
  BY <1>0, <1>5 DEF EndTake, CallTakes, TypeOK, Idle
<1>6. ASSUME NEW t \in Threads, NEW s \in Seqs, BeginFree(t, s) PROVE CallTakes'
  BY <1>0, <1>6 DEF BeginFree, CallTakes, TypeOK
<1>7. ASSUME NEW t \in Threads, NEW b \in Blocks, ReturnBlock(t, b) PROVE CallTakes'
  BY <1>0, <1>7 DEF ReturnBlock, CallTakes, TypeOK
<1>8. ASSUME NEW t \in Threads, EndFree(t) PROVE CallTakes'
  <2>1. CASE t = RunThread
    BY <1>0, <1>8, <2>1 DEF EndFree, CallTakes, TypeOK, Idle
  <2>2. CASE t # RunThread
    <3>1. op'[RunThread] = op[RunThread]
      BY <1>0, <1>8, <2>2 DEF EndFree, TypeOK
    <3>2. op[RunThread].kind \in {"allocate", "append"} =>
            tables'[op[RunThread].seq] = tables[op[RunThread].seq]
      BY <1>0, <1>8, <2>2 DEF EndFree, TypeOK, CallsOK
    <3> QED
      BY <3>1, <3>2, CallTakesFrame
  <2> QED
    BY <2>1, <2>2
<1>9. CASE UNCHANGED vars
  BY <1>9 DEF vars, CallTakes
<1> QED
  BY <1>1, <1>2, <1>3, <1>4, <1>5, <1>6, <1>7, <1>8, <1>9 DEF Next

(* The count of each sequence, and the blocks behind it.                   *)
Count == [s \in Seqs |-> IF Freeing(s) THEN 0 ELSE Cardinality(tables[s])]
Owned == [s \in Seqs |-> IF Freeing(s) THEN {} ELSE tables[s]]

(* The ledger's blocks, the free list and the hand of the run thread are   *)
(* disjoint, so the ledger sees as available at least what the last two    *)
(* hold.                                                                   *)
LEMMA AvailableBlocks ==
  ASSUME IInv
  PROVE  /\ SumFunctionOnSet(Count, Seqs) \in Nat
         /\ Cardinality(free) + Cardinality(op[RunThread].hand)
              <= Cardinality(Blocks) - SumFunctionOnSet(Count, Seqs)
<1> DEFINE own == UNION {Owned[s] : s \in Seqs}
           hand == op[RunThread].hand
<1>0. TypeOK /\ NoDoubleOwner /\ RunThread \in Threads /\ IsFiniteSet(Seqs) /\ IsFiniteSet(Blocks)
  BY ManagerAssumption DEF IInv, Threads
<1>1. /\ \A s \in Seqs : IsFiniteSet(Owned[s]) /\ Owned[s] \subseteq Blocks
      /\ \A r, s \in Seqs : r # s => Owned[r] \cap Owned[s] = {}
  <2>1. \A s \in Seqs : IsFiniteSet(Owned[s]) /\ Owned[s] \subseteq Blocks
    BY <1>0, TablesFinite, FS_EmptySet DEF Owned, TypeOK
  <2>2. \A r, s \in Seqs : r # s => Owned[r] \cap Owned[s] = {}
    BY <1>0, <2>1 DEF NoDoubleOwner, Claimed, Owned
  <2> QED
    BY <2>1, <2>2
<1>2. [s \in Seqs |-> Cardinality(Owned[s])] = Count
  BY FS_EmptySet DEF Owned, Count
<1>3. Cardinality(own) = SumFunctionOnSet(Count, Seqs) /\ IsFiniteSet(own)
  <2>1. /\ IsFiniteSet(own)
        /\ Cardinality(own) = SumFunctionOnSet([s \in Seqs |-> Cardinality(Owned[s])], Seqs)
    BY <1>0, <1>1, SumDisjoint
  <2> QED
    BY <1>2, <2>1
<1>4. own \subseteq Blocks /\ hand \subseteq Blocks /\ free \subseteq Blocks
  BY <1>0, <1>1 DEF TypeOK
<1>5. own \cap free = {} /\ own \cap hand = {} /\ free \cap hand = {}
  BY <1>0 DEF NoDoubleOwner, Claimed, Owned
<1> HIDE DEF own, hand
<1>6. IsFiniteSet(hand) /\ IsFiniteSet(free) /\ IsFiniteSet(free \cup hand)
  BY <1>0, <1>4, FS_Subset, FS_Union
<1>7. /\ Cardinality(own) \in Nat /\ Cardinality(free) \in Nat /\ Cardinality(hand) \in Nat
      /\ Cardinality(free \cup hand) \in Nat /\ Cardinality(Blocks) \in Nat
  BY <1>0, <1>3, <1>6, FS_CardinalityType
<1>8. Cardinality(free \cup hand) = Cardinality(free) + Cardinality(hand)
  BY <1>5, <1>6, CardinalityDisjoint
<1>9. IsFiniteSet(own \cup (free \cup hand))
      /\ Cardinality(own \cup (free \cup hand)) = Cardinality(own) + Cardinality(free \cup hand)
  <2>1. own \cap (free \cup hand) = {}
    BY <1>5
  <2> QED
    BY <1>3, <1>6, <2>1, CardinalityDisjoint
<1>10. Cardinality(own \cup (free \cup hand)) <= Cardinality(Blocks)
  BY <1>0, <1>4, FS_Subset
<1> QED
  BY <1>3, <1>7, <1>8, <1>9, <1>10 DEF hand

(* The ledger's sum is the sum.                                            *)
LEMMA LedgerSum ==
  ASSUME NEW f, NEW S
  PROVE  Ledger!SumFunctionOnSet(f, S) = SumFunctionOnSet(f, S)
BY DEF Ledger!SumFunctionOnSet, Ledger!FoldFunctionOnSet, Ledger!MapThenFoldSet,
       SumFunctionOnSet, FoldFunctionOnSet, MapThenFoldSet

LEMMA LedgerInitially == Init => Ledger!LedgerInit
<1> SUFFICES ASSUME Init PROVE Ledger!LedgerInit
  OBVIOUS
<1>1. \A s \in Seqs : ~Freeing(s) /\ Cardinality(tables[s]) = 0
  BY FS_EmptySet DEF Init, Freeing, Idle
<1> QED
  BY <1>1 DEF Ledger!LedgerInit

(* Every count the same: the ledger stutters.                              *)
LEMMA CountStays ==
  ASSUME \A s \in Seqs : Count'[s] = Count[s] PROVE UNCHANGED Count
BY DEF Count

(* The end of allocate or append_slot is where the ledger moves.           *)
LEMMA EndTakeMaps ==
  ASSUME LedgerInv, EndTake PROVE Ledger!LedgerNext
<1> DEFINE s == op[RunThread].seq
           hand == op[RunThread].hand
<1>0. TypeOK /\ CallsOK /\ IInv /\ RunThread \in Threads
  BY DEF LedgerInv, CoverInv, IInv, Threads
<1>1. s \in Seqs /\ op[RunThread].kind \in {"allocate", "append"} /\ op[RunThread].need = 0
  BY <1>0 DEF EndTake, CallsOK
<1>2. ~Freeing(s)
  BY <1>0, <1>1 DEF Freeing, CallsOK
<1>3. \A r \in Seqs : Freeing(r)' = Freeing(r)
  BY <1>0, FreeingStep
<1>4. tables' = [tables EXCEPT ![s] = tables[s] \cup hand] /\ tables \in [Seqs -> SUBSET Blocks]
  BY <1>0 DEF EndTake, TypeOK
<1>5. /\ IsFiniteSet(tables[s]) /\ IsFiniteSet(hand)
      /\ Cardinality(tables[s]) \in Nat /\ Cardinality(hand) \in Nat
      /\ logical[s] \in Nat /\ logical[s] > 0 /\ Cardinality(free) \in Nat
  BY <1>0, <1>1, TablesFinite, FreeFinite
<1>6. tables[s] \cap hand = {}
  BY <1>0, <1>1, <1>2 DEF IInv, NoDoubleOwner, Claimed
<1>7. Cardinality(tables[s] \cup hand) = Cardinality(tables[s]) + Cardinality(hand)
  BY <1>5, <1>6, CardinalityDisjoint
<1>8. Count' = [Count EXCEPT ![s] = Cardinality(tables[s]) + Cardinality(hand)]
      /\ Count[s] = Cardinality(tables[s])
  BY <1>1, <1>2, <1>3, <1>4, <1>7 DEF Count
<1>9. /\ SumFunctionOnSet(Count, Seqs) \in Nat
      /\ Cardinality(free) + Cardinality(hand)
           <= Cardinality(Blocks) - SumFunctionOnSet(Count, Seqs)
  BY <1>0, AvailableBlocks
<1>10. /\ Cardinality(free) >= 0
       /\ op[RunThread].kind = "allocate" => Cardinality(free) >= WatermarkBlocks
  BY <1>0, <1>1, <1>5, ManagerAssumption DEF IInv, NeverDry
<1>11. logical[s] = Cardinality(hand) + Cardinality(tables[s])
  BY <1>1, <1>5 DEF LedgerInv, CoverInv, CallCovers
<1>12. CallTakes
  BY DEF LedgerInv
<1>13. Cardinality(hand) <= Cardinality(Blocks) /\ Cardinality(Blocks) \in Nat
  <2>1. hand \subseteq Blocks /\ IsFiniteSet(Blocks)
    BY <1>0, ManagerAssumption DEF TypeOK
  <2> QED
    BY <2>1, FS_Subset, FS_CardinalityType
<1>14. WatermarkBlocks \in Nat
  BY ManagerAssumption
<1>15. CASE op[RunThread].kind = "allocate"
  <2>1. tables[s] = {}
    BY <1>12, <1>15 DEF CallTakes
  <2>2. Cardinality(tables[s]) = 0
    BY <2>1, FS_EmptySet
  <2> DEFINE n == Cardinality(hand)
  <2>3. Count[s] = 0 /\ n > 0 /\ n \in 1..Cardinality(Blocks)
    BY <1>5, <1>8, <1>11, <1>13, <2>2
  <2>4. (Cardinality(Blocks) - SumFunctionOnSet(Count, Seqs)) - n >= WatermarkBlocks
    BY <1>5, <1>9, <1>10, <1>13, <1>14, <1>15
  <2>5. Count' = [Count EXCEPT ![s] = n]
    <3>1. Cardinality(tables[s]) + Cardinality(hand) = n
      BY <1>5, <2>2
    <3> QED
      BY <1>8, <3>1
  <2> HIDE DEF n, s
  <2>6. Ledger!Grant(s, n)
    BY <2>3, <2>4, <2>5, LedgerSum DEF Ledger!Grant, Ledger!Available, Count
  <2> QED
    BY <1>1, <2>3, <2>6 DEF Ledger!LedgerNext
<1>16. CASE op[RunThread].kind = "append"
  <2>1. tables[s] # {} /\ Cardinality(hand) = 1
    BY <1>1, <1>5, <1>12, <1>16 DEF CallTakes
  <2>2. Cardinality(tables[s]) > 0
    BY <1>5, <2>1, FS_EmptySet
  <2>3. Count[s] > 0 /\ Count' = [Count EXCEPT ![s] = @ + 1]
    BY <1>8, <2>1, <2>2
  <2>4. Cardinality(Blocks) - SumFunctionOnSet(Count, Seqs) > 0
    BY <1>5, <1>9, <1>13, <2>1
  <2> HIDE DEF s
  <2>5. Ledger!Extend(s)
    BY <2>3, <2>4, LedgerSum DEF Ledger!Extend, Ledger!Available, Count
  <2> QED
    BY <1>1, <2>5 DEF Ledger!LedgerNext
<1> QED
  BY <1>1, <1>15, <1>16

(* A sequence leaves the ledger when its free begins.                      *)
LEMMA BeginFreeMaps ==
  ASSUME LedgerInv, NEW t \in Threads, NEW r \in Seqs, BeginFree(t, r)
  PROVE  Ledger!LedgerNext
<1>1. TypeOK /\ CallsOK
  BY DEF LedgerInv, CoverInv, IInv
<1>2. \A s \in Seqs : Freeing(s)' = (Freeing(s) \/ s = r)
  BY <1>1, FreeingStep
<1>3. tables' = tables
  BY DEF BeginFree
<1>4. Ledger!Release({r})
  BY <1>2, <1>3 DEF Ledger!Release
<1> QED
  BY <1>4 DEF Ledger!LedgerNext

LEMMA LedgerStep == LedgerInv /\ [Next]_vars => [Ledger!LedgerNext]_Count
<1> SUFFICES ASSUME LedgerInv, [Next]_vars PROVE [Ledger!LedgerNext]_Count
  OBVIOUS
<1>0. TypeOK /\ CallsOK
  BY DEF LedgerInv, CoverInv, IInv
<1>1. ASSUME NEW r \in Seqs, BeginAllocate(r) \/ BeginAppend(r) \/ Grow(r)
      PROVE  UNCHANGED Count
  BY <1>0, <1>1, FreeingStep DEF Count, BeginAllocate, BeginAppend, Grow
<1>2. ASSUME NEW b \in Blocks, TakeBlock(b) PROVE UNCHANGED Count
  BY <1>0, <1>2, FreeingStep DEF Count, TakeBlock
<1>3. ASSUME NEW t \in Threads, NEW b \in Blocks, ReturnBlock(t, b) PROVE UNCHANGED Count
  BY <1>0, <1>3, FreeingStep DEF Count, ReturnBlock
<1>4. ASSUME NEW t \in Threads, EndFree(t) PROVE UNCHANGED Count
  <2>1. op[t].seq \in Seqs /\ Freeing(op[t].seq)
    BY <1>0, <1>4 DEF EndFree, CallsOK, Freeing
  <2>2. tables' = [tables EXCEPT ![op[t].seq] = {}] /\ tables \in [Seqs -> SUBSET Blocks]
    BY <1>0, <1>4 DEF EndFree, TypeOK
  <2>3. \A s \in Seqs : Freeing(s)' = (Freeing(s) /\ s # op[t].seq)
    BY <1>0, <1>4, FreeingStep
  <2>4. \A s \in Seqs : Count'[s] = Count[s]
    BY <2>1, <2>2, <2>3, FS_EmptySet DEF Count
  <2> QED
    BY <2>4, CountStays
<1>5. CASE UNCHANGED vars
  BY <1>5 DEF vars, Count, Freeing
<1> QED
  BY <1>1, <1>2, <1>3, <1>4, <1>5, EndTakeMaps, BeginFreeMaps DEF Next

(* The block manager, pop by pop and whatever the threads do in between,   *)
(* implements the ledger the scheduler reasons with: all the blocks of a   *)
(* prompt at once above the watermark, then one at a time, then none       *)
(* (base_block_space_manager.py:75-129).                                   *)
THEOREM ManagerImplementsLedger == Spec => ImplementsLedger
<1>1. Init => LedgerInv
  BY InitInductive, CoverInit DEF LedgerInv, CoverInv, CallTakes, Init, Idle, Threads
<1>2. LedgerInv /\ [Next]_vars => LedgerInv'
  BY TypeInductive, CallsInductive, OwnersInductive, NeverDryInductive, CoverInductive,
     CallTakesInductive DEF LedgerInv, CoverInv, IInv
<1>3. LedgerInv /\ [Next]_vars => [Ledger!LedgerNext]_Count
  BY LedgerStep
<1>4. Init => Ledger!LedgerInit
  BY LedgerInitially
<1> QED
  BY <1>1, <1>2, <1>3, <1>4, PTL DEF Spec, ImplementsLedger, Ledger!LedgerSpec, Count
=============================================================================
