--------------------------- MODULE DistServeProofs ---------------------------
(***************************************************************************)
(* Proofs about the disaggregated configuration, for any requests, any     *)
(* numbers of blocks and any numbers of threads: a request is handed over  *)
(* once, its cache is on one side, the prefill workers can allocate what   *)
(* is sent to them, and inserted caches and new slots fit as long as every *)
(* preemption reaches the decode workers.                                  *)
(***************************************************************************)
EXTENDS DistServe, CommonLemmas, SequenceTheorems

-----------------------------------------------------------------------------
(* Types, without what DSTypeOK says of the order of events: that takes    *)
(* Life, below.                                                            *)
StateTyped ==
  /\ shape \in [Requests -> Shapes] /\ gen \in [Requests -> Nat]
  /\ arrived \subseteq Requests /\ ended \subseteq arrived
  /\ pwaiting \subseteq arrived /\ metas \subseteq arrived
  /\ pmap \subseteq arrived /\ dmap \subseteq arrived
  /\ running \subseteq arrived /\ pendingDecode \subseteq arrived
  /\ ptable \in [Requests -> Nat] /\ pworker \in [Requests -> Nat]
  /\ dtable \in [Requests -> Nat]
  /\ dworker \in [Requests -> Nat] /\ Used(dworker) <= DecodeBlocks
  /\ pphase \in {"idle", "schedule", "execute", "complete"}
  /\ pstep \in [batch : SUBSET arrived, ignored : SUBSET arrived]
  /\ dphase \in {"idle", "decode", "admit", "execute", "complete"}
  /\ dstep \in [kept : SUBSET arrived, decodes : SUBSET arrived,
                preempted : SUBSET arrived, stop : SUBSET arrived]
  /\ rpc \in [Requests -> {"none", "called", "read", "answered", "error", "inserted"}]
  /\ kvmetaQueue \in Seq(arrived) /\ transferQueue \in Seq(arrived)
  /\ insertQueue \in Seq(arrived) /\ preemptedSeqs \in Seq(arrived)
  /\ preemption \in BOOLEAN
  /\ pc \in [Threads -> {"test", "get", "wait", "insert", "allocate"} \cup Dead]
  /\ refs \in [TransferThreads -> SUBSET arrived]
  /\ cur \in [Threads -> SUBSET arrived]

(* What the constants are known to be.                                     *)
LEMMA Constants ==
  /\ Requests \subseteq Nat /\ IsFiniteSet(Requests)
  /\ BlockSize \in Nat \ {0} /\ WatermarkBlocks \in Nat
  /\ PrefillBlocks \in Nat /\ DecodeBlocks \in Nat
  /\ TransferThreads \cap SwapThreads = {}
  /\ \A h \in Shapes : h.prompt \in Nat \ {0} /\ h.maxTokens \in Nat \ {0}
  BY DistServeAssumption DEF DistServeAssumption

(* The head of a list sorted by arrival time, and its tail.                *)
LEMMA EndsOfList ==
  ASSUME NEW S, S \subseteq Requests, S # {}
  PROVE  Min(S) \in S /\ Max(S) \in S
  BY Constants, FS_Subset, MinMember, MaxMember

LEMMA BlocksType ==
  ASSUME StateTyped, NEW s \in Requests
  PROVE  /\ Blocks(s) \in Nat \ {0} /\ Length(s) \in Nat
         /\ shape[s].prompt \in Nat \ {0} /\ shape[s].maxTokens \in Nat \ {0}
<1>1. shape[s].prompt \in Nat \ {0} /\ shape[s].maxTokens \in Nat \ {0} /\ gen[s] \in Nat
  BY Constants DEF StateTyped
<1>2. Length(s) \in Nat /\ Length(s) > 0
  BY <1>1 DEF Length
<1>3. CeilDiv(Length(s), BlockSize) \in Nat
  BY <1>2, Constants, CeilDivType
<1>4. CeilDiv(Length(s), BlockSize) > 0
  BY <1>2, Constants, CeilDivBounds
<1> QED
  BY <1>1, <1>2, <1>3, <1>4 DEF Blocks

(* Sums over the tables of blocks.                                         *)
LEMMA UsedType ==
  ASSUME NEW t \in [Requests -> Nat]
  PROVE  Used(t) \in Nat
<1>1. \A s \in Requests : t[s] \in Nat
  OBVIOUS
<1>2. SumFunctionOnSet(t, Requests) \in Nat
  BY ONLY <1>1, Constants, SumNat
<1> QED
  BY <1>2 DEF Used

LEMMA UsedNone ==
  ASSUME NEW t \in [Requests -> Nat], \A s \in Requests : t[s] = 0
  PROVE  Used(t) = 0
<1>1. SumFunctionOnSet(t, Requests) = 0
  BY ONLY \A s \in Requests : t[s] = 0, Constants, SumZero
<1> QED
  BY <1>1 DEF Used

LEMMA UsedUpdate ==
  ASSUME NEW t \in [Requests -> Nat], NEW s \in Requests, NEW n \in Nat
  PROVE  Used([t EXCEPT ![s] = n]) = Used(t) + n - t[s]
<1> DEFINE u == [t EXCEPT ![s] = n]
<1>1. /\ \A r \in Requests : t[r] \in Int
      /\ \A r \in Requests \ {s} : u[r] = t[r]
      /\ u[s] = n /\ u[s] \in Int
  OBVIOUS
<1> HIDE DEF u
<1>0. IsFiniteSet(Requests)
  BY Constants
<1>2. SumFunctionOnSet(u, Requests) = SumFunctionOnSet(t, Requests) + (u[s] - t[s])
  BY ONLY <1>0, <1>1, SumUpdate, s \in Requests
<1>3. Used(t) \in Nat /\ t[s] \in Nat
  BY UsedType
<1> QED
  BY <1>1, <1>2, <1>3 DEF Used, u

LEMMA UsedMonotone ==
  ASSUME NEW t \in [Requests -> Nat], NEW u \in [Requests -> Nat],
         \A s \in Requests : t[s] <= u[s]
  PROVE  Used(t) <= Used(u)
<1>1. \A s \in Requests : t[s] \in Int /\ u[s] \in Int /\ t[s] <= u[s]
  OBVIOUS
<1>2. SumFunctionOnSet(t, Requests) <= SumFunctionOnSet(u, Requests)
  BY ONLY <1>1, Constants, SumMonotone
<1> QED
  BY <1>2 DEF Used

LEMMA InitTyped == Init => StateTyped
<1> SUFFICES ASSUME Init PROVE StateTyped
  OBVIOUS
<1>1. <<>> \in Seq({})
  OBVIOUS
<1>2. dworker \in [Requests -> Nat] /\ Used(dworker) = 0
  BY UsedNone DEF Init
<1>3. Used(dworker) <= DecodeBlocks
  BY <1>2, Constants
<1> QED
  BY <1>1, <1>2, <1>3 DEF Init, StateTyped, NoPrefill, NoDecode

LEMMA PrefillTyped ==
  ASSUME StateTyped
  PROVE  /\ \A s \in Requests : AddRequest(s) => StateTyped'
         /\ PrefillNext => StateTyped'
<1> USE DEF PrefillFrame, tokenVars, queueVars, decodeVars, threadVars, prefillCache
<1>1. ASSUME NEW s \in Requests, AddRequest(s) PROVE StateTyped'
  <2>1. arrived \subseteq arrived' /\ s \in arrived' /\ arrived' \subseteq Requests
    BY <1>1 DEF AddRequest, StateTyped
  <2>2. \A q \in Seq(arrived) : q \in Seq(arrived')
    BY <2>1, SeqMonotonic
  <2>3. /\ kvmetaQueue' \in Seq(arrived') /\ transferQueue' \in Seq(arrived')
        /\ insertQueue' \in Seq(arrived') /\ preemptedSeqs' \in Seq(arrived')
    BY <1>1, <2>2 DEF AddRequest, StateTyped
  <2> QED
    BY <1>1, <2>1, <2>3 DEF AddRequest, StateTyped
<1>2. ASSUME PrefillTake PROVE StateTyped'
  <2> DEFINE s == Min(pwaiting)
  <2>1. s \in pwaiting /\ s \in Requests
    BY <1>2, EndsOfList DEF PrefillTake, StateTyped
  <2>2. Blocks(s) \in Nat
    BY <2>1, BlocksType
  <2>3. /\ pwaiting' = pwaiting \ {s} /\ pphase' = "schedule"
        /\ \/ pstep' = [pstep EXCEPT !.ignored = @ \cup {s}] /\ ptable' = ptable
           \/ /\ pstep' = [pstep EXCEPT !.batch = @ \cup {s}]
              /\ ptable' = [ptable EXCEPT ![s] = Blocks(s)]
    BY <1>2 DEF PrefillTake
  <2> HIDE DEF s
  <2>4. ptable' \in [Requests -> Nat]
    BY <2>1, <2>2, <2>3 DEF StateTyped
  <2>5. s \in arrived /\ pstep \in [batch : SUBSET arrived, ignored : SUBSET arrived]
    BY <2>1 DEF StateTyped
  <2>6. pstep' \in [batch : SUBSET arrived, ignored : SUBSET arrived]
    BY <2>3, <2>5
  <2> QED
    BY <1>2, <2>3, <2>4, <2>6 DEF PrefillTake, StateTyped
<1>3. ASSUME PrefillSchedule PROVE StateTyped'
  BY <1>3 DEF PrefillSchedule, StateTyped, NoPrefill
<1>4. ASSUME NEW stop, PrefillExecute(stop) PROVE StateTyped'
  <2>1. \A s \in Requests : Blocks(s) \in Nat
    BY BlocksType
  <2>2. pworker' \in [Requests -> Nat] /\ gen' \in [Requests -> Nat]
    BY <1>4, <2>1 DEF PrefillExecute, StateTyped
  <2>3. ended' \subseteq arrived
    BY <1>4 DEF PrefillExecute, StateTyped
  <2> QED
    BY <1>4, <2>2, <2>3 DEF PrefillExecute, StateTyped
<1>5. ASSUME PrefillComplete PROVE StateTyped'
  BY <1>5 DEF PrefillComplete, StateTyped, NoPrefill
<1> QED
  BY <1>1, <1>2, <1>3, <1>4, <1>5 DEF PrefillNext

LEMMA CallsTyped ==
  ASSUME StateTyped, NEW s \in Requests
  PROVE  ReadKVCache(s) \/ FreeKVCache(s) \/ AddMetadata(s) => StateTyped'
<1> USE DEF RpcFrame, tokenVars, queueVars, decodeVars, threadVars, prefillVars, prefillCache
<1>1. CASE ReadKVCache(s)
  <2>1. PICK answer \in {"read", "error"} : rpc' = [rpc EXCEPT ![s] = answer]
    BY <1>1 DEF ReadKVCache
  <2>2. rpc' \in [Requests -> {"none", "called", "read", "answered", "error", "inserted"}]
    <3>1. rpc \in [Requests -> {"none", "called", "read", "answered", "error", "inserted"}]
      BY DEF StateTyped
    <3> QED
      BY <2>1, <3>1
  <2>3. pworker' \in [Requests -> Nat]
    <3>1. pworker' = pworker \/ pworker' = [pworker EXCEPT ![s] = 0]
      BY <1>1 DEF ReadKVCache
    <3>2. pworker \in [Requests -> Nat]
      BY DEF StateTyped
    <3> QED
      BY <3>1, <3>2
  <2>4. UNCHANGED <<pmap, ptable>> /\ RpcFrame
    BY <1>1 DEF ReadKVCache
  <2> QED
    BY <2>2, <2>3, <2>4 DEF StateTyped
<1>2. CASE FreeKVCache(s)
  BY <1>2 DEF FreeKVCache, StateTyped
<1>3. CASE AddMetadata(s)
  <2>1. kvmetaQueue' \in Seq(arrived)
    BY <1>3, RangeAppend DEF AddMetadata, StateTyped
  <2> QED
    BY <1>3, <2>1 DEF AddMetadata, StateTyped
<1> QED
  BY <1>1, <1>2, <1>3

LEMMA DecodeTyped == StateTyped /\ DecodeNext => StateTyped'
<1> SUFFICES ASSUME StateTyped PROVE DecodeNext => StateTyped'
  OBVIOUS
<1> USE DEF DecodeFrame, queueVars, decodeVars, threadVars, prefillVars, prefillCache
<1> DEFINE Steps == [kept : SUBSET arrived, decodes : SUBSET arrived,
                     preempted : SUBSET arrived, stop : SUBSET arrived]
<1>0. running \subseteq Requests /\ dstep \in Steps /\ NoDecode \in Steps
  BY DEF StateTyped, NoDecode
<1>1. ASSUME BeginStep PROVE StateTyped'
  BY <1>1 DEF BeginStep, StateTyped
<1>2. ASSUME ScheduleDecode PROVE StateTyped'
  <2>1. Min(running) \in running
    BY <1>0, <1>2, EndsOfList DEF ScheduleDecode, MoreDecodes
  <2>2. ASSUME NEW s \in running,
               dtable' = [dtable EXCEPT ![s] = AppendSlot(dtable[s], s)],
               running' = running \ {s},
               dstep' = [dstep EXCEPT !.kept = @ \cup {s}, !.decodes = @ \cup {s}]
        PROVE  StateTyped'
    <3>1. AppendSlot(dtable[s], s) \in Nat
      BY <1>0 DEF AppendSlot, StateTyped
    <3>2. dstep' \in Steps
      <4>1. running \subseteq arrived
        BY DEF StateTyped
      <4> QED
        BY <1>0, <2>2, <4>1
    <3>3. /\ UNCHANGED <<gen, ended, queueVars, preemptedSeqs, preemption, dphase, dmap, dworker>>
          /\ DecodeFrame
      BY <1>2 DEF ScheduleDecode
    <3>4. dtable' \in [Requests -> Nat] /\ running' \subseteq arrived
      BY <2>2, <3>1 DEF StateTyped
    <3> QED
      BY <3>2, <3>3, <3>4 DEF StateTyped
  <2> QED
    BY <1>2, <2>1, <2>2 DEF ScheduleDecode
<1>3. ASSUME Preempt PROVE StateTyped'
  <2>1. Max(running) \in running
    BY <1>0, <1>3, EndsOfList DEF Preempt, MoreDecodes
  <2>2. ASSUME NEW v \in running,
               dtable' = [dtable EXCEPT ![v] = 0], running' = running \ {v},
               dstep' = [dstep EXCEPT !.preempted = @ \cup {v}],
               preemptedSeqs' = Append(preemptedSeqs, v)
        PROVE  StateTyped'
    <3>1. preemptedSeqs' \in Seq(arrived)
      BY <2>2, RangeAppend DEF StateTyped
    <3>2. dstep' \in Steps
      <4>1. running \subseteq arrived
        BY DEF StateTyped
      <4> QED
        BY <1>0, <2>2, <4>1
    <3>3. /\ UNCHANGED <<gen, ended, queueVars, dphase, dmap, dworker>>
          /\ preemption' = TRUE /\ DecodeFrame
      BY <1>3 DEF Preempt
    <3>4. dtable' \in [Requests -> Nat] /\ running' \subseteq arrived
      BY <2>2 DEF StateTyped
    <3> QED
      BY <3>1, <3>2, <3>3, <3>4 DEF StateTyped
  <2> QED
    BY <1>3, <2>1, <2>2 DEF Preempt
<1>4. ASSUME EndDecodes PROVE StateTyped'
  <2>1. dstep' \in Steps
    BY <1>0, <1>4 DEF EndDecodes
  <2>2. ASSUME NEW s \in arrived, NEW q \in Seq(arrived), NEW i \in Seq(arrived),
               dtable' = [dtable EXCEPT ![s] = Blocks(s)], preemptedSeqs' = q, insertQueue' = i
        PROVE  StateTyped'
    <3>1. Blocks(s) \in Nat
      BY BlocksType DEF StateTyped
    <3> QED
      BY <1>4, <2>1, <2>2, <3>1 DEF EndDecodes, StateTyped
  <2>3. ASSUME preemptedSeqs # <<>>
        PROVE  /\ Head(preemptedSeqs) \in arrived /\ Tail(preemptedSeqs) \in Seq(arrived)
               /\ Append(insertQueue, Head(preemptedSeqs)) \in Seq(arrived)
    BY <2>3, RangeTail, RangeAppend DEF StateTyped
  <2>4. CASE UNCHANGED <<dtable, preemptedSeqs, insertQueue>>
    BY <1>4, <2>1, <2>4 DEF EndDecodes, StateTyped
  <2> QED
    BY <1>4, <2>2, <2>3, <2>4 DEF EndDecodes
<1>5. ASSUME AdmitMetadata PROVE StateTyped'
  <2>1. /\ Head(kvmetaQueue) \in arrived /\ Tail(kvmetaQueue) \in Seq(arrived)
        /\ Append(transferQueue, Head(kvmetaQueue)) \in Seq(arrived)
    BY <1>5, RangeTail, RangeAppend DEF AdmitMetadata, Admits, StateTyped
  <2>2. Blocks(Head(kvmetaQueue)) \in Nat
    BY <2>1, BlocksType DEF StateTyped
  <2> QED
    BY <1>5, <2>1, <2>2 DEF AdmitMetadata, StateTyped
<1>6. ASSUME EndEmptyStep PROVE StateTyped'
  BY <1>0, <1>6 DEF EndEmptyStep, StateTyped
<1>7. ASSUME NEW stop \in Stops(dstep.decodes), SendStep(stop) PROVE StateTyped'
  <2>1. stop \subseteq arrived
    BY <1>0 DEF Stops
  <2>2. dstep' \in Steps
    BY <1>0, <1>7, <2>1 DEF SendStep
  <2> QED
    BY <1>7, <2>2 DEF SendStep, StateTyped
<1>8. ASSUME ExecuteDecodes PROVE StateTyped'
  <2>1. WorkerTable \in [Requests -> Nat]
    BY DEF WorkerTable, AppendSlot, StateTyped
  <2> DEFINE after == [s \in Requests |-> IF s \in Over THEN 0 ELSE WorkerTable[s]]
  <2>2. after \in [Requests -> Nat] /\ Used(after) <= DecodeBlocks
    <3>1. after \in [Requests -> Nat] /\ \A s \in Requests : after[s] <= WorkerTable[s]
      BY <2>1
    <3>2. Used(after) <= Used(WorkerTable) /\ Used(after) \in Nat /\ Used(WorkerTable) \in Nat
      <4> HIDE DEF after
      <4> QED
        BY <2>1, <3>1, UsedMonotone, UsedType
    <3> QED
      BY <1>8, <3>1, <3>2, Constants DEF ExecuteDecodes, SlotsFit
  <2> QED
    <3>1. dworker' = after
      BY <1>8 DEF ExecuteDecodes
    <3> HIDE DEF after
    <3> QED
      BY <1>8, <2>2, <3>1 DEF ExecuteDecodes, StateTyped
<1>9. ASSUME CompleteDecodes PROVE StateTyped'
  <2>1. gen' \in [Requests -> Nat] /\ dtable' \in [Requests -> Nat]
    BY <1>9 DEF CompleteDecodes, StateTyped
  <2>2. Over \subseteq arrived
    BY <1>0 DEF Over
  <2>3. NoDecode \in Steps
    BY <1>0
  <2> QED
    BY <1>9, <2>1, <2>2, <2>3 DEF CompleteDecodes, StateTyped
<1> QED
  BY <1>1, <1>2, <1>3, <1>4, <1>5, <1>6, <1>7, <1>8, <1>9 DEF DecodeNext

LEMMA PoppedType ==
  ASSUME StateTyped, NEW s \in Requests
  PROVE  /\ Popped(s) \in Nat /\ Popped(s) <= Blocks(s)
         /\ Popped(s) <= DecodeBlocks - Used(dworker)
         /\ HasRoom(s) => Popped(s) = Blocks(s)
<1>1. Blocks(s) \in Nat
  BY BlocksType
<1>2. DecodeBlocks - Used(dworker) \in Nat
  <2>1. Used(dworker) \in Nat /\ Used(dworker) <= DecodeBlocks
    BY UsedType DEF StateTyped
  <2> QED
    BY <2>1, Constants
<1>3. \A a, b \in Nat : Min({a, b}) \in {a, b} /\ Min({a, b}) <= a /\ Min({a, b}) <= b
  BY MinOfTwo
<1> QED
  BY <1>1, <1>2, <1>3 DEF Popped, HasRoom

(* The workers' blocks after an insertion.                                 *)
LEMMA InsertedType ==
  ASSUME StateTyped, NEW s \in Requests, dworker' = [dworker EXCEPT ![s] = Popped(s)]
  PROVE  dworker' \in [Requests -> Nat] /\ Used(dworker)' <= DecodeBlocks
<1>1. dworker \in [Requests -> Nat] /\ Popped(s) \in Nat /\ Popped(s) <= DecodeBlocks - Used(dworker)
  BY PoppedType DEF StateTyped
<1>2. Used(dworker)' = Used(dworker) + Popped(s) - dworker[s]
  <2>1. \A n \in Nat : Used([dworker EXCEPT ![s] = n]) = Used(dworker) + n - dworker[s]
    BY <1>1, UsedUpdate
  <2>2. Used([dworker EXCEPT ![s] = Popped(s)]) = Used(dworker) + Popped(s) - dworker[s]
    BY <1>1, <2>1
  <2>3. Used(dworker)' = Used([dworker EXCEPT ![s] = Popped(s)])
    BY DEF Used
  <2> QED
    BY <2>2, <2>3
<1>3. Used(dworker) \in Nat /\ dworker[s] \in Nat
  BY <1>1, UsedType
<1> QED
  BY <1>1, <1>2, <1>3, Constants

LEMMA ThreadsTyped ==
  ASSUME StateTyped, NEW t \in Threads, ThreadNext(t)
  PROVE  StateTyped'
<1> USE DEF ThreadFrame, queueVars, decodeVars, tokenVars, prefillVars, prefillCache
<1> DEFINE Marks == {"test", "get", "wait", "insert", "allocate"} \cup Dead
           Answers == {"none", "called", "read", "answered", "error", "inserted"}
<1>0. /\ pc \in [Threads -> Marks] /\ rpc \in [Requests -> Answers]
      /\ cur \in [Threads -> SUBSET arrived] /\ refs \in [TransferThreads -> SUBSET arrived]
      /\ arrived \subseteq Requests
      /\ {"test", "get", "wait", "insert", "allocate", "keyerror", "refused", "dry", "typeerror"}
           \subseteq Marks
      /\ {"called", "inserted"} \subseteq Answers
  BY DEF StateTyped, Dead
<1>1. ASSUME t \in TransferThreads, TestQueue(t) PROVE StateTyped'
  <2>1. pc' \in [Threads -> Marks]
    <3> HIDE DEF Marks
    <3> QED
      BY <1>0, <1>1 DEF TestQueue
  <2> QED
    BY <1>1, <2>1 DEF TestQueue, StateTyped
<1>2. ASSUME t \in TransferThreads, GetMetadata(t) PROVE StateTyped'
  <2> DEFINE s == Head(transferQueue)
  <2>1. s \in arrived /\ Tail(transferQueue) \in Seq(arrived)
    BY <1>2, RangeTail DEF GetMetadata, StateTyped
  <2>2. /\ dmap' = dmap \cup {s} /\ rpc' = [rpc EXCEPT ![s] = "called"]
        /\ refs' = [refs EXCEPT ![t] = @ \cup {s}] /\ transferQueue' = Tail(transferQueue)
        /\ pc' = [pc EXCEPT ![t] = "test"]
        /\ UNCHANGED <<kvmetaQueue, insertQueue, pendingDecode, dworker, cur>> /\ ThreadFrame
    BY <1>2 DEF GetMetadata
  <2> HIDE DEF s
  <2>3. /\ pc' \in [Threads -> Marks] /\ rpc' \in [Requests -> Answers]
        /\ refs' \in [TransferThreads -> SUBSET arrived]
    <3> HIDE DEF Marks, Answers
    <3> QED
      BY <1>0, <1>2, <2>1, <2>2
  <2>4. dmap' \subseteq arrived
    BY <2>1, <2>2 DEF StateTyped
  <2>5. /\ UNCHANGED <<kvmetaQueue, insertQueue, pendingDecode, dworker, cur>> /\ ThreadFrame
        /\ transferQueue' \in Seq(arrived)
    BY <2>1, <2>2
  <2> QED
    BY <2>3, <2>4, <2>5 DEF StateTyped
<1>3. ASSUME t \in TransferThreads, NEW s \in refs[t], WaitReady(t, s) PROVE StateTyped'
  <2>1. /\ pc' \in [Threads -> Marks] /\ cur' \in [Threads -> SUBSET arrived]
        /\ refs' \in [TransferThreads -> SUBSET arrived]
    <3> HIDE DEF Marks
    <3> QED
      BY <1>0, <1>3 DEF WaitReady
  <2> QED
    BY <1>3, <2>1 DEF WaitReady, StateTyped
<1>4. ASSUME GetPreempted(t) PROVE StateTyped'
  <2>1. Head(insertQueue) \in arrived /\ Tail(insertQueue) \in Seq(arrived)
    BY <1>4, RangeTail DEF GetPreempted, StateTyped
  <2>2. pc' \in [Threads -> Marks] /\ cur' \in [Threads -> SUBSET arrived]
    <3> HIDE DEF Marks
    <3> QED
      BY <1>0, <1>4, <2>1 DEF GetPreempted
  <2> QED
    BY <1>4, <2>1, <2>2 DEF GetPreempted, StateTyped
<1>5. ASSUME CheckRoom(t) PROVE StateTyped'
  <2>1. pc' \in [Threads -> Marks]
    <3> HIDE DEF Marks
    <3> QED
      BY <1>0, <1>5 DEF CheckRoom
  <2> QED
    BY <1>5, <2>1 DEF CheckRoom, StateTyped
<1>6. ASSUME InsertKVCache(t) PROVE StateTyped'
  <2>1. PICK s \in cur[t] :
          /\ dworker' = [dworker EXCEPT ![s] = Popped(s)]
          /\ rpc' = [rpc EXCEPT ![s] = "inserted"]
          /\ \/ /\ pendingDecode' = pendingDecode \cup {s}
                /\ pc' = [pc EXCEPT ![t] = "test"] /\ cur' = [cur EXCEPT ![t] = {}]
             \/ pc' = [pc EXCEPT ![t] = "dry"] /\ UNCHANGED <<pendingDecode, cur>>
    BY <1>6 DEF InsertKVCache, QueueDecode
  <2>2. s \in arrived /\ s \in Requests
    BY <1>0
  <2>3. dworker' \in [Requests -> Nat] /\ Used(dworker)' <= DecodeBlocks
    BY <2>1, <2>2, InsertedType
  <2>4. /\ pc' \in [Threads -> Marks] /\ cur' \in [Threads -> SUBSET arrived]
        /\ rpc' \in [Requests -> Answers]
    <3> HIDE DEF Marks, Answers
    <3> QED
      BY <1>0, <2>1, <2>2
  <2>5. pendingDecode' \subseteq arrived
    BY <2>1, <2>2 DEF StateTyped
  <2>6. UNCHANGED <<kvmetaQueue, transferQueue, insertQueue, dmap, refs>> /\ ThreadFrame
    BY <1>6 DEF InsertKVCache
  <2> QED
    BY <2>3, <2>4, <2>5, <2>6 DEF StateTyped
<1>7. ASSUME SwapIn(t) PROVE StateTyped'
  <2>1. PICK s \in cur[t] : dworker' = [dworker EXCEPT ![s] = Popped(s)]
    BY <1>7 DEF SwapIn
  <2>2. dworker' \in [Requests -> Nat] /\ Used(dworker)' <= DecodeBlocks
    BY <1>0, <2>1, InsertedType
  <2>3. pc' \in [Threads -> Marks]
    <3> HIDE DEF Marks
    <3> QED
      BY <1>0, <1>7 DEF SwapIn
  <2>4. UNCHANGED <<rpc, queueVars, dmap, refs, cur>> /\ ThreadFrame
    BY <1>7 DEF SwapIn
  <2> QED
    BY <2>2, <2>3, <2>4 DEF StateTyped
<1> QED
  BY <1>1, <1>2, <1>3, <1>4, <1>5, <1>6, <1>7 DEF ThreadNext

LEMMA TypedInductive == StateTyped /\ [Next]_vars => StateTyped'
<1> SUFFICES ASSUME StateTyped, [Next]_vars PROVE StateTyped'
  OBVIOUS
<1>1. CASE UNCHANGED vars
  BY <1>1 DEF vars, tokenVars, prefillVars, prefillCache, queueVars, decodeVars, threadVars, StateTyped
<1>2. ASSUME NEW s \in Requests, AddRequest(s) \/ ReadKVCache(s) \/ FreeKVCache(s) \/ AddMetadata(s)
      PROVE  StateTyped'
  BY <1>2, PrefillTyped, CallsTyped
<1> QED
  BY <1>1, <1>2, PrefillTyped, DecodeTyped, ThreadsTyped DEF Next

-----------------------------------------------------------------------------
(* The local variables of the run threads and of the others, by where the  *)
(* threads are.                                                            *)
PrefillShape ==
  /\ pphase = "idle" => pstep = NoPrefill
  /\ pphase \in {"execute", "complete"} => pstep.batch # {}
  /\ \A s \in pstep.ignored : TooLong(s) /\ s \notin pwaiting

DecodeShape ==
  /\ dphase = "idle" => dstep = NoDecode
  /\ dphase = "decode" => dstep.decodes = dstep.kept
  /\ dphase # "decode" => dstep.kept = {} /\ dstep.decodes \subseteq running
  /\ dstep.stop \subseteq dstep.decodes
  /\ dstep.preempted \subseteq Range(preemptedSeqs)
  /\ dstep.preempted # {} => preemption

EmptyHanded == {"test", "get", "wait"}

HandsShape ==
  /\ \A t \in Threads : IF pc[t] \in EmptyHanded THEN cur[t] = {}
                                               ELSE \E s \in arrived : cur[t] = {s}
  /\ \A t \in SwapThreads : pc[t] \in {"test", "insert", "allocate", "refused", "typeerror"}
  /\ \A t \in TransferThreads : pc[t] # "typeerror"

Shaped == PrefillShape /\ DecodeShape /\ HandsShape

LEMMA InitShaped == Init => Shaped
<1> SUFFICES ASSUME Init PROVE Shaped
  OBVIOUS
<1>1. PrefillShape /\ HandsShape
  BY DEF Init, PrefillShape, HandsShape, EmptyHanded, Threads, NoPrefill
<1>2. DecodeShape
  BY DEF Init, DecodeShape, NoDecode
<1> QED
  BY <1>1, <1>2 DEF Shaped

LEMMA PrefillShapeKept == StateTyped /\ PrefillShape /\ [Next]_vars => PrefillShape'
<1> SUFFICES ASSUME StateTyped, PrefillShape, [Next]_vars PROVE PrefillShape'
  OBVIOUS
<1> USE DEF TooLong
<1>1. CASE UNCHANGED <<pphase, pstep, pwaiting, shape>>
  BY <1>1 DEF PrefillShape, NoPrefill
<1>2. CASE PrefillTake
  <2>1. PICK s : /\ pphase' = "schedule" /\ pwaiting' = pwaiting \ {s} /\ shape' = shape
                 /\ \/ pstep' = [pstep EXCEPT !.ignored = pstep.ignored \cup {s}] /\ TooLong(s)
                    \/ pstep' = [pstep EXCEPT !.batch = pstep.batch \cup {s}]
    <3> HIDE DEF TooLong
    <3> QED
      BY <1>2 DEF PrefillTake, PrefillFrame, tokenVars
  <2>2. pstep \in [batch : SUBSET arrived, ignored : SUBSET arrived]
    BY DEF StateTyped
  <2>3. \A r \in pstep'.ignored : r \in pstep.ignored \/ (r = s /\ TooLong(s))
    BY <2>1, <2>2
  <2> QED
    BY <2>1, <2>3 DEF PrefillShape
<1>3. CASE PrefillSchedule
  BY <1>3 DEF PrefillSchedule, PrefillShape, NoPrefill, PrefillFrame, tokenVars
<1>4. ASSUME NEW stop, PrefillExecute(stop) PROVE PrefillShape'
  BY <1>4 DEF PrefillExecute, PrefillShape
<1>5. CASE PrefillComplete
  BY <1>5 DEF PrefillComplete, PrefillShape, NoPrefill, tokenVars
<1>6. CASE DecodeNext
  <2>1. UNCHANGED <<prefillVars, shape>>
    BY <1>6 DEF DecodeNext, BeginStep, ScheduleDecode, Preempt, EndDecodes, AdmitMetadata,
                EndEmptyStep, SendStep, ExecuteDecodes, CompleteDecodes, DecodeFrame
  <2> QED
    BY <1>1, <2>1 DEF prefillVars
<1>7. ASSUME NEW t \in Threads, ThreadNext(t) PROVE PrefillShape'
  <2>1. UNCHANGED <<prefillVars, shape>>
    BY <1>7 DEF ThreadNext, TestQueue, GetMetadata, WaitReady, GetPreempted, CheckRoom,
                InsertKVCache, SwapIn, ThreadFrame, tokenVars
  <2> QED
    BY <1>1, <2>1 DEF prefillVars
<1>8. ASSUME NEW s \in Requests, AddRequest(s) \/ ReadKVCache(s) \/ FreeKVCache(s) \/ AddMetadata(s)
      PROVE  PrefillShape'
  <2>1. CASE AddRequest(s)
    BY <2>1 DEF AddRequest, PrefillShape, NoPrefill
  <2> QED
    BY <1>1, <1>8, <2>1 DEF ReadKVCache, FreeKVCache, AddMetadata, RpcFrame, prefillVars, tokenVars
<1> QED
  BY <1>1, <1>2, <1>3, <1>4, <1>5, <1>6, <1>7, <1>8 DEF Next, PrefillNext, vars, prefillVars, tokenVars

LEMMA DecodeShapeKept == StateTyped /\ DecodeShape /\ [Next]_vars => DecodeShape'
<1> SUFFICES ASSUME StateTyped, DecodeShape, [Next]_vars PROVE DecodeShape'
  OBVIOUS
<1> DEFINE Steps == [kept : SUBSET arrived, decodes : SUBSET arrived,
                     preempted : SUBSET arrived, stop : SUBSET arrived]
<1>0. dstep \in Steps /\ preemptedSeqs \in Seq(arrived)
  BY DEF StateTyped
<1>1. CASE UNCHANGED <<dphase, dstep, running, preemptedSeqs, preemption>>
  BY <1>1 DEF DecodeShape, NoDecode
<1>2. CASE BeginStep
  BY <1>2 DEF BeginStep, DecodeShape, NoDecode
<1>3. CASE ScheduleDecode
  <2>1. PICK s : /\ dstep' = [dstep EXCEPT !.kept = dstep.kept \cup {s},
                                           !.decodes = dstep.decodes \cup {s}]
                 /\ dphase = "decode"
                 /\ UNCHANGED <<preemptedSeqs, preemption, dphase>>
    BY <1>3 DEF ScheduleDecode
  <2>2. /\ dstep'.kept = dstep.kept \cup {s} /\ dstep'.decodes = dstep.decodes \cup {s}
        /\ dstep'.preempted = dstep.preempted /\ dstep'.stop = dstep.stop
    BY <1>0, <2>1
  <2> QED
    BY <2>1, <2>2 DEF DecodeShape
<1>4. CASE Preempt
  <2> DEFINE v == Max(running)
  <2>1. /\ dstep' = [dstep EXCEPT !.preempted = dstep.preempted \cup {v}]
        /\ preemptedSeqs' = Append(preemptedSeqs, v)
        /\ preemption' = TRUE /\ dphase = "decode" /\ dphase' = dphase
    BY <1>4 DEF Preempt
  <2>2. v \in arrived
    BY <1>4, EndsOfList DEF Preempt, MoreDecodes, StateTyped
  <2>3. Range(preemptedSeqs') = Range(preemptedSeqs) \cup {v}
    BY <1>0, <2>1, <2>2, RangeAppend
  <2> HIDE DEF v
  <2>4. /\ dstep'.kept = dstep.kept /\ dstep'.decodes = dstep.decodes
        /\ dstep'.preempted = dstep.preempted \cup {v} /\ dstep'.stop = dstep.stop
    BY <1>0, <2>1
  <2> QED
    BY <2>1, <2>3, <2>4 DEF DecodeShape
<1>5. CASE EndDecodes
  <2>1. /\ dstep' = [dstep EXCEPT !.kept = {}] /\ dphase = "decode" /\ dphase' = "admit"
        /\ running' = dstep.kept \cup running /\ preemption' = preemption
        /\ preemptedSeqs' = preemptedSeqs \/ ~preemption
    BY <1>5 DEF EndDecodes
  <2>2. /\ dstep'.kept = {} /\ dstep'.decodes = dstep.decodes
        /\ dstep'.preempted = dstep.preempted /\ dstep'.stop = dstep.stop
    BY <1>0, <2>1
  <2> QED
    BY <2>1, <2>2 DEF DecodeShape
<1>6. CASE AdmitMetadata
  BY <1>1, <1>6 DEF AdmitMetadata
<1>7. CASE EndEmptyStep
  BY <1>7 DEF EndEmptyStep, DecodeShape, NoDecode
<1>8. ASSUME NEW stop \in Stops(dstep.decodes), SendStep(stop) PROVE DecodeShape'
  <2>1. stop \subseteq dstep.decodes
    BY DEF Stops
  <2>2. /\ dstep'.kept = dstep.kept /\ dstep'.decodes = dstep.decodes
        /\ dstep'.preempted = dstep.preempted /\ dstep'.stop = stop
    BY <1>0, <1>8 DEF SendStep
  <2> QED
    BY <1>8, <2>1, <2>2 DEF SendStep, DecodeShape
<1>9. CASE ExecuteDecodes
  BY <1>9 DEF ExecuteDecodes, DecodeShape
<1>10. CASE CompleteDecodes
  BY <1>10 DEF CompleteDecodes, DecodeShape, NoDecode
<1>11. CASE PrefillNext
  BY <1>1, <1>11 DEF PrefillNext, PrefillTake, PrefillSchedule, PrefillExecute, PrefillComplete,
                     PrefillFrame, decodeVars
<1>12. ASSUME NEW t \in Threads, ThreadNext(t) PROVE DecodeShape'
  <2>1. UNCHANGED decodeVars
    BY <1>12 DEF ThreadNext, TestQueue, GetMetadata, WaitReady, GetPreempted, CheckRoom,
                 InsertKVCache, SwapIn, ThreadFrame
  <2> QED
    BY <1>1, <2>1 DEF decodeVars
<1>13. ASSUME NEW s \in Requests, AddRequest(s) \/ ReadKVCache(s) \/ FreeKVCache(s) \/ AddMetadata(s)
       PROVE  DecodeShape'
  BY <1>1, <1>13 DEF AddRequest, ReadKVCache, FreeKVCache, AddMetadata, RpcFrame, PrefillFrame,
                     decodeVars
<1> QED
  BY <1>1, <1>2, <1>3, <1>4, <1>5, <1>6, <1>7, <1>8, <1>9, <1>10, <1>11, <1>12, <1>13
     DEF Next, DecodeNext, vars, decodeVars

LEMMA HandsShapeKept == StateTyped /\ HandsShape /\ [Next]_vars => HandsShape'
<1> SUFFICES ASSUME StateTyped, HandsShape, [Next]_vars PROVE HandsShape'
  OBVIOUS
<1> USE DEF EmptyHanded
<1>0. /\ pc \in [Threads -> {"test", "get", "wait", "insert", "allocate"} \cup Dead]
      /\ cur \in [Threads -> SUBSET arrived] /\ refs \in [TransferThreads -> SUBSET arrived]
      /\ TransferThreads \cap SwapThreads = {}
      /\ TransferThreads \subseteq Threads /\ SwapThreads \subseteq Threads
  BY Constants DEF StateTyped, Threads
<1>1. ASSUME UNCHANGED <<pc, cur>>, arrived \subseteq arrived' PROVE HandsShape'
  BY <1>1 DEF HandsShape
<1>2. ASSUME NEW t \in Threads, NEW p, NEW C, pc' = [pc EXCEPT ![t] = p], cur' = [cur EXCEPT ![t] = C],
             arrived' = arrived,
             IF p \in {"test", "get", "wait"} THEN C = {} ELSE \E s \in arrived : C = {s},
             t \in SwapThreads => p \in {"test", "insert", "allocate", "refused", "typeerror"},
             t \in TransferThreads => p # "typeerror"
      PROVE  HandsShape'
  BY <1>0, <1>2 DEF HandsShape
<1>3. ASSUME NEW t \in Threads, ThreadNext(t) PROVE HandsShape'
  <2>0. arrived' = arrived /\ cur = [cur EXCEPT ![t] = cur[t]]
    BY <1>0, <1>3 DEF ThreadNext, TestQueue, GetMetadata, WaitReady, GetPreempted, CheckRoom,
                InsertKVCache, SwapIn, ThreadFrame, prefillVars
  <2>1. ASSUME t \in TransferThreads, TestQueue(t) PROVE HandsShape'
    <3>1. PICK p \in {"get", "wait"} : pc[t] = "test" /\ pc' = [pc EXCEPT ![t] = p] /\ cur' = cur
      BY <2>1 DEF TestQueue
    <3>2. cur[t] = {}
      BY <3>1 DEF HandsShape
    <3> QED
      BY <1>0, <1>2, <2>0, <2>1, <3>1, <3>2
  <2>2. ASSUME t \in TransferThreads, GetMetadata(t) PROVE HandsShape'
    <3>1. pc[t] = "get" /\ pc' = [pc EXCEPT ![t] = "test"] /\ cur' = cur
      BY <2>2 DEF GetMetadata
    <3>2. cur[t] = {}
      BY <3>1 DEF HandsShape
    <3> QED
      BY <1>0, <1>2, <2>0, <2>2, <3>1, <3>2
  <2>3. ASSUME t \in TransferThreads, NEW s \in refs[t], WaitReady(t, s) PROVE HandsShape'
    <3>1. PICK p \in {"insert", "keyerror"} :
            pc' = [pc EXCEPT ![t] = p] /\ cur' = [cur EXCEPT ![t] = {s}]
      BY <2>3 DEF WaitReady
    <3>2. s \in arrived
      BY <1>0, <2>3
    <3> QED
      BY <1>0, <1>2, <2>0, <2>3, <3>1, <3>2
  <2>4. ASSUME t \in SwapThreads, GetPreempted(t) PROVE HandsShape'
    <3>1. /\ pc' = [pc EXCEPT ![t] = "insert"]
          /\ cur' = [cur EXCEPT ![t] = {Head(insertQueue)}]
          /\ Head(insertQueue) \in arrived
      BY <2>4, RangeTail DEF GetPreempted, StateTyped
    <3> QED
      BY <1>0, <1>2, <2>0, <2>4, <3>1
  <2>5. ASSUME CheckRoom(t) PROVE HandsShape'
    <3>1. PICK p \in {"allocate", "refused"} :
            pc[t] = "insert" /\ pc' = [pc EXCEPT ![t] = p] /\ cur' = cur
      BY <2>5 DEF CheckRoom
    <3>2. \E s \in arrived : cur[t] = {s}
      BY <3>1 DEF HandsShape
    <3> QED
      BY <1>0, <1>2, <2>0, <3>1, <3>2
  <2>6. ASSUME InsertKVCache(t) PROVE HandsShape'
    <3>1. /\ t \in TransferThreads /\ pc[t] = "allocate"
          /\ \/ pc' = [pc EXCEPT ![t] = "test"] /\ cur' = [cur EXCEPT ![t] = {}]
             \/ pc' = [pc EXCEPT ![t] = "dry"] /\ cur' = cur
      BY <2>6 DEF InsertKVCache
    <3>2. \E s \in arrived : cur[t] = {s}
      BY <3>1 DEF HandsShape
    <3> QED
      BY <1>0, <1>2, <2>0, <3>1, <3>2
  <2>7. ASSUME SwapIn(t) PROVE HandsShape'
    <3>1. /\ t \in SwapThreads /\ pc[t] = "allocate"
          /\ pc' = [pc EXCEPT ![t] = "typeerror"] /\ cur' = cur
      BY <2>7 DEF SwapIn
    <3>2. \E s \in arrived : cur[t] = {s}
      BY <3>1 DEF HandsShape
    <3> QED
      BY <1>0, <1>2, <2>0, <3>1, <3>2
  <2> QED
    BY <1>3, <2>1, <2>2, <2>3, <2>4, <2>5, <2>6, <2>7 DEF ThreadNext
<1>4. CASE DecodeNext
  <2>1. UNCHANGED <<prefillVars, threadVars>>
    <3>1. \/ UNCHANGED <<prefillVars, threadVars>> \/ AdmitMetadata \/ CompleteDecodes
      BY <1>4 DEF DecodeNext, BeginStep, ScheduleDecode, Preempt, EndDecodes,
                  EndEmptyStep, SendStep, ExecuteDecodes, DecodeFrame
    <3> QED
      BY <3>1 DEF AdmitMetadata, CompleteDecodes, DecodeFrame
  <2> QED
    BY <1>1, <2>1 DEF prefillVars, threadVars
<1>5. CASE PrefillNext
  BY <1>1, <1>5 DEF PrefillNext, PrefillTake, PrefillSchedule, PrefillExecute, PrefillComplete,
                    PrefillFrame, threadVars
<1>6. ASSUME NEW s \in Requests, AddRequest(s) \/ ReadKVCache(s) \/ FreeKVCache(s) \/ AddMetadata(s)
      PROVE  HandsShape'
  BY <1>1, <1>6 DEF AddRequest, ReadKVCache, FreeKVCache, AddMetadata, RpcFrame, PrefillFrame,
                    prefillVars, threadVars
<1>7. CASE UNCHANGED vars
  BY <1>1, <1>7 DEF vars, prefillVars, threadVars
<1> QED
  BY <1>3, <1>4, <1>5, <1>6, <1>7 DEF Next

LEMMA ShapedInductive == StateTyped /\ Shaped /\ [Next]_vars => Shaped'
  BY PrefillShapeKept, DecodeShapeKept, HandsShapeKept DEF Shaped

-----------------------------------------------------------------------------
(* A request is in one place: At says that l is that place, and "left"     *)
(* that there is none any more.                                            *)
PlaceNames == {"waiting", "batch", "metas", "kvmeta", "transfer", "insert", "preempted",
               "pending", "running", "kept", "refs", "cur", "left"}

At(s, l) ==
  /\ s \in pwaiting <=> l = "waiting"
  /\ s \in pstep.batch <=> l = "batch"
  /\ s \in metas <=> l = "metas"
  /\ s \in Range(kvmetaQueue) <=> l = "kvmeta"
  /\ s \in Range(transferQueue) <=> l = "transfer"
  /\ s \in Range(insertQueue) <=> l = "insert"
  /\ s \in Range(preemptedSeqs) <=> l = "preempted"
  /\ s \in pendingDecode <=> l = "pending"
  /\ s \in running <=> l = "running"
  /\ s \in dstep.kept <=> l = "kept"
  /\ (\E t \in TransferThreads : s \in refs[t]) <=> l = "refs"
  /\ (\E t \in Threads : s \in cur[t]) <=> l = "cur"
  /\ HasLeft(s) <=> l = "left"
  /\ \A t, u \in TransferThreads : s \in refs[t] /\ s \in refs[u] => t = u
  /\ \A t, u \in Threads : s \in cur[t] /\ s \in cur[u] => t = u

(* What the place of a request says of its tokens and of its cache.        *)
NoCache(s) == ptable[s] = 0 /\ pworker[s] = 0 /\ dtable[s] = 0 /\ dworker[s] = 0

Fresh(s) == gen[s] = 0 /\ s \notin ended /\ rpc[s] = "none" /\ s \notin dmap /\ NoCache(s)

OnPrefill(s) ==
  /\ ptable[s] > 0 /\ pworker[s] = (IF s \in ended THEN 0 ELSE ptable[s])
  /\ s \in pmap <=> s \notin ended

InBatch(s) ==
  /\ rpc[s] = "none" /\ s \notin dmap /\ s \in pmap /\ dtable[s] = 0 /\ dworker[s] = 0
  /\ IF pphase = "complete"
     THEN gen[s] = 1 /\ ptable[s] > 0 /\ pworker[s] = (IF s \in ended THEN 0 ELSE ptable[s])
     ELSE gen[s] = 0 /\ s \notin ended /\ ptable[s] = Blocks(s) /\ pworker[s] = 0

HandedOver(s) ==
  gen[s] = 1 /\ rpc[s] = "none" /\ s \notin dmap /\ dworker[s] = 0 /\ OnPrefill(s)

Answering(s) ==
  /\ gen[s] = 1 /\ s \in dmap /\ dworker[s] = 0
  /\ \/ rpc[s] = "called" /\ OnPrefill(s)
     \/ rpc[s] = "read" /\ s \notin ended /\ pworker[s] = 0
     \/ rpc[s] = "answered" /\ s \notin ended /\ pworker[s] = 0 /\ ptable[s] = 0
     \/ rpc[s] = "error" /\ s \in ended /\ pworker[s] = 0

Decoding(s) ==
  rpc[s] = "inserted" /\ gen[s] > 0 /\ s \notin ended /\ pworker[s] = 0 /\ ptable[s] = 0

InHands(s, t) ==
  IF t \in SwapThreads THEN Decoding(s)
  ELSE /\ gen[s] = 1 /\ s \in dmap /\ pworker[s] = 0
       /\ pc[t] = "keyerror" => rpc[s] = "error" /\ s \in ended /\ dworker[s] = 0
       /\ pc[t] # "keyerror" => s \notin ended /\ ptable[s] = 0
       /\ pc[t] = "dry" => rpc[s] = "inserted"
       /\ pc[t] \notin {"keyerror", "dry"} => rpc[s] = "answered" /\ dworker[s] = 0

CacheAt(s, l) ==
  /\ l = "waiting" => Fresh(s) /\ s \in pmap
  /\ l = "batch" => InBatch(s)
  /\ l \in {"metas", "kvmeta", "transfer"} => HandedOver(s)
  /\ l = "refs" => Answering(s)
  /\ l = "cur" => \A t \in Threads : s \in cur[t] => InHands(s, t)
  /\ l \in {"pending", "running", "kept"} =>
       /\ Decoding(s) /\ s \in dmap
       /\ dworker[s] = 0 <=> dphase = "complete" /\ s \in Over
  /\ l \in {"preempted", "insert"} => Decoding(s)
  /\ l \in {"metas", "kvmeta", "preempted"} => dtable[s] = 0
  /\ l \in {"transfer", "insert", "refs", "cur"} => dtable[s] = Blocks(s)
  /\ l = "left" => /\ NoCache(s) /\ s \notin dmap /\ rpc[s] \in {"none", "inserted"}
                   /\ s \in ended \/ gen[s] = 0

Placed(s) == \E l \in PlaceNames : At(s, l) /\ CacheAt(s, l)

Located ==
  /\ NothingTwice
  /\ \A s \in Requests \ arrived : Fresh(s)
  /\ \A s \in arrived : Placed(s)

DSInv == StateTyped /\ Shaped /\ Located

(* What a step does not touch of a request stays as it was.                *)
Untouched(s) ==
  /\ gen'[s] = gen[s] /\ shape' = shape /\ rpc'[s] = rpc[s]
  /\ s \in ended' <=> s \in ended
  /\ s \in pmap' <=> s \in pmap
  /\ s \in dmap' <=> s \in dmap
  /\ ptable'[s] = ptable[s] /\ pworker'[s] = pworker[s]
  /\ dtable'[s] = dtable[s] /\ dworker'[s] = dworker[s]

LEMMA FreshKept ==
  ASSUME NEW s, Fresh(s), Untouched(s)
  PROVE  Fresh(s)'
  BY DEF Fresh, NoCache, Untouched

LEMMA CacheKept ==
  ASSUME NEW s, NEW l, CacheAt(s, l), Untouched(s),
         l = "batch" => (pphase' = "complete" <=> pphase = "complete"),
         l \in {"pending", "running", "kept"} =>
           ((dphase' = "complete" /\ (s \in Over)') <=> (dphase = "complete" /\ s \in Over)),
         l = "cur" => \A t \in Threads : s \in cur'[t] => s \in cur[t] /\ pc'[t] = pc[t]
  PROVE  CacheAt(s, l)'
<1> USE DEF Untouched
<1>1. Blocks(s)' = Blocks(s)
  BY DEF Blocks, Length
<1>2. Fresh(s) => Fresh(s)'
  BY FreshKept
<1>3. /\ OnPrefill(s)' <=> OnPrefill(s)
      /\ Decoding(s)' <=> Decoding(s)
      /\ NoCache(s)' <=> NoCache(s)
  BY DEF OnPrefill, Decoding, NoCache
<1>4. /\ HandedOver(s)' <=> HandedOver(s)
      /\ Answering(s)' <=> Answering(s)
  BY <1>3 DEF HandedOver, Answering
<1>5. l = "batch" /\ InBatch(s) => InBatch(s)'
  BY <1>1 DEF InBatch
<1>6. ASSUME l = "cur", NEW t \in Threads, s \in cur'[t] PROVE InHands(s, t)'
  <2>1. InHands(s, t) /\ pc'[t] = pc[t]
    BY <1>6 DEF CacheAt
  <2> QED
    BY <1>3, <2>1 DEF InHands
<1>7. /\ l = "waiting" => Fresh(s)' /\ s \in pmap'
      /\ l = "batch" => InBatch(s)'
      /\ l \in {"metas", "kvmeta", "transfer"} => HandedOver(s)'
      /\ l = "refs" => Answering(s)'
      /\ l \in {"preempted", "insert"} => Decoding(s)'
      /\ l \in {"metas", "kvmeta", "preempted"} => dtable'[s] = 0
      /\ l \in {"transfer", "insert", "refs", "cur"} => dtable'[s] = Blocks(s)'
      /\ l = "left" => /\ NoCache(s)' /\ s \notin dmap' /\ rpc'[s] \in {"none", "inserted"}
                       /\ s \in ended' \/ gen'[s] = 0
  BY <1>1, <1>2, <1>3, <1>4, <1>5 DEF CacheAt
<1>8. l \in {"pending", "running", "kept"} =>
        /\ Decoding(s)' /\ s \in dmap'
        /\ dworker'[s] = 0 <=> dphase' = "complete" /\ (s \in Over)'
  BY <1>3 DEF CacheAt
<1> QED
  BY <1>6, <1>7, <1>8 DEF CacheAt

LEMMA InitLocated == Init => Located
<1> SUFFICES ASSUME Init PROVE Located
  OBVIOUS
<1>1. NothingTwice
  BY RangeEmpty DEF Init, NothingTwice
<1>2. \A s \in Requests : Fresh(s)
  BY DEF Init, Fresh, NoCache
<1> QED
  BY <1>1, <1>2 DEF Init, Located

LEMMA PrefillLocated ==
  ASSUME DSInv, PrefillNext
  PROVE  Located'
<1> USE DEF PrefillFrame, tokenVars, queueVars, decodeVars, threadVars
<1>0. /\ pstep \in [batch : SUBSET arrived, ignored : SUBSET arrived]
      /\ arrived \subseteq Requests /\ ended \subseteq arrived /\ pwaiting \subseteq arrived
      /\ gen \in [Requests -> Nat] /\ ptable \in [Requests -> Nat] /\ pworker \in [Requests -> Nat]
  BY DEF DSInv, StateTyped
<1>1. /\ UNCHANGED <<queueVars, decodeVars, threadVars, arrived, shape, rpc, dmap, dworker>>
      /\ NothingTwice'
  BY DEF DSInv, Located, NothingTwice, PrefillNext, PrefillTake, PrefillSchedule,
         PrefillExecute, PrefillComplete
<1> SUFFICES /\ \A r \in Requests \ arrived : Untouched(r)
             /\ \A r \in arrived : Placed(r)'
  BY <1>1, FreshKept DEF Located, DSInv
<1>2. \A r \in arrived : \E l \in PlaceNames : At(r, l) /\ CacheAt(r, l)
  BY DEF DSInv, Located, Placed
<1>3. CASE PrefillTake
  <2>0. Min(pwaiting) \in pwaiting
    BY <1>3, EndsOfList DEF PrefillTake, DSInv, StateTyped
  <2>1. PICK s \in pwaiting :
        /\ pwaiting' = pwaiting \ {s} /\ pphase' = "schedule" /\ pphase # "complete"
        /\ \/ TooLong(s) /\ pstep' = [pstep EXCEPT !.ignored = @ \cup {s}] /\ ptable' = ptable
           \/ /\ ~TooLong(s) /\ pstep' = [pstep EXCEPT !.batch = @ \cup {s}]
              /\ ptable' = [ptable EXCEPT ![s] = Blocks(s)]
        /\ UNCHANGED <<tokenVars, metas, pmap, pworker>>
    BY <1>3, <2>0 DEF PrefillTake
  <2>2. s \in pwaiting
    OBVIOUS
  <2>3. \/ TooLong(s) /\ pstep'.batch = pstep.batch
        \/ ~TooLong(s) /\ pstep'.batch = pstep.batch \cup {s}
    BY <1>0, <2>1
  <2>4. ASSUME NEW r \in Requests, r # s PROVE Untouched(r)
    BY <1>0, <1>1, <2>1, <2>4 DEF Untouched
  <2>5. ASSUME NEW r \in arrived, r # s PROVE Placed(r)'
    <3>1. PICK l \in PlaceNames : At(r, l) /\ CacheAt(r, l)
      BY <1>2
    <3>2. At(r, l)'
      BY <1>1, <2>1, <2>3, <2>5, <3>1 DEF At, HasLeft, TooLong
    <3>3. CacheAt(r, l)'
      BY <1>0, <1>1, <2>1, <2>4, <2>5, <3>1, CacheKept DEF Over, Ends
    <3> QED
      BY <3>2, <3>3 DEF Placed
  <2>6. Placed(s)'
    <3>1. PICK l \in PlaceNames : At(s, l) /\ CacheAt(s, l)
      BY <1>0, <1>2, <2>2
    <3>2. l = "waiting"
      BY <2>2, <3>1 DEF At
    <3>3. Fresh(s) /\ s \in pmap
      BY <3>1, <3>2 DEF CacheAt
    <3>4. CASE TooLong(s)
      <4>1. At(s, "left")'
        BY <1>1, <2>1, <2>2, <2>3, <3>1, <3>2, <3>4 DEF At, HasLeft, TooLong
      <4>2. CacheAt(s, "left")'
        BY <1>1, <2>1, <3>3, <3>4 DEF CacheAt, Fresh, NoCache
      <4> QED
        BY <4>1, <4>2 DEF Placed, PlaceNames
    <3>5. CASE ~TooLong(s)
      <4>1. At(s, "batch")'
        BY <1>1, <2>1, <2>2, <2>3, <3>1, <3>2, <3>5 DEF At, HasLeft, TooLong
      <4>2. ptable'[s] = Blocks(s) /\ Blocks(s)' = Blocks(s)
        BY <1>0, <1>1, <2>1, <2>2, <3>5 DEF Blocks, Length
      <4>3. InBatch(s)'
        BY <1>1, <2>1, <3>3, <4>2 DEF InBatch, Fresh, NoCache
      <4>4. CacheAt(s, "batch")'
        BY <4>3 DEF CacheAt
      <4> QED
        BY <4>1, <4>4 DEF Placed, PlaceNames
    <3> QED
      BY <3>4, <3>5
  <2> QED
    BY <1>0, <2>2, <2>4, <2>5, <2>6
<1>4. CASE PrefillSchedule
  <2>1. /\ UNCHANGED <<tokenVars, pwaiting, metas, prefillCache>> /\ pphase = "schedule"
        /\ pphase' \in {"idle", "execute"} /\ pstep'.batch = pstep.batch
    BY <1>4 DEF PrefillSchedule, NoPrefill
  <2>2. \A r \in Requests : Untouched(r)
    BY <1>0, <1>1, <2>1 DEF Untouched, prefillCache
  <2>3. ASSUME NEW r \in arrived, NEW l \in PlaceNames, At(r, l), CacheAt(r, l) PROVE Placed(r)'
    <3>1. At(r, l)'
      BY <1>1, <2>1, <2>3 DEF At, HasLeft, TooLong
    <3>2. CacheAt(r, l)'
      BY <1>0, <1>1, <2>1, <2>2, <2>3, CacheKept DEF Over, Ends
    <3> QED
      BY <3>1, <3>2 DEF Placed
  <2> QED
    BY <1>2, <2>2, <2>3
<1>5. ASSUME NEW stop, PrefillExecute(stop)
      PROVE  /\ \A r \in Requests \ arrived : Untouched(r)
             /\ \A r \in arrived : Placed(r)'
  <2>1. /\ UNCHANGED <<shape, pwaiting, pstep, metas, pmap, ptable>>
        /\ pphase = "execute" /\ pphase' = "complete"
        /\ \A r \in Requests :
             /\ gen'[r] = IF r \in pstep.batch THEN 1 ELSE gen[r]
             /\ r \in ended' <=> r \in ended \/ (r \in pstep.batch /\ Ends(r, stop))
             /\ pworker'[r] = IF r \in pstep.batch /\ ~Ends(r, stop) THEN Blocks(r) ELSE pworker[r]
    BY <1>5 DEF PrefillExecute, DSInv, StateTyped
  <2>2. ASSUME NEW r \in Requests, r \notin pstep.batch PROVE Untouched(r)
    BY <1>0, <1>1, <2>1, <2>2 DEF Untouched
  <2>3. ASSUME NEW r \in arrived, NEW l \in PlaceNames, At(r, l), CacheAt(r, l) PROVE Placed(r)'
    <3>0. r \in Requests
      BY <1>0
    <3>1. At(r, l)'
      BY <1>1, <2>1, <2>3, <3>0 DEF At, HasLeft, TooLong
    <3>2. CASE r \notin pstep.batch
      <4>1. Untouched(r) /\ l # "batch"
        BY <2>2, <2>3, <3>0, <3>2 DEF At
      <4>2. CacheAt(r, l)'
        BY <1>1, <2>3, <4>1, CacheKept DEF Over, Ends, Untouched
      <4> QED
        BY <3>1, <4>2 DEF Placed
    <3>3. CASE r \in pstep.batch
      <4>1. l = "batch" /\ InBatch(r)
        BY <2>3, <3>3 DEF At, CacheAt
      <4>2. Blocks(r) \in Nat \ {0}
        BY <3>0, BlocksType DEF DSInv
      <4>3. InBatch(r)'
        BY <1>1, <2>1, <3>0, <3>3, <4>1, <4>2 DEF InBatch
      <4>4. CacheAt(r, "batch")'
        BY <4>3 DEF CacheAt
      <4> QED
        BY <3>1, <4>1, <4>4 DEF Placed
    <3> QED
      BY <3>2, <3>3
  <2> QED
    BY <1>0, <1>2, <2>2, <2>3
<1>6. CASE PrefillComplete
  <2>1. /\ UNCHANGED <<tokenVars, pwaiting, ptable, pworker>>
        /\ pphase = "complete" /\ pphase' = "idle"
        /\ pmap' = pmap \ (pstep.ignored \cup (pstep.batch \cap ended))
        /\ metas' = metas \cup pstep.batch /\ pstep'.batch = {}
    BY <1>6 DEF PrefillComplete, NoPrefill
  <2>2. \A r \in pstep.ignored : HasLeft(r)
    BY DEF DSInv, Shaped, PrefillShape, HasLeft
  <2>3. ASSUME NEW r \in Requests, r \notin pstep.batch \cup pstep.ignored PROVE Untouched(r)
    BY <1>1, <2>1, <2>3 DEF Untouched
  <2>4. ASSUME NEW r \in arrived, NEW l \in PlaceNames, At(r, l), CacheAt(r, l) PROVE Placed(r)'
    <3>1. CASE r \in pstep.batch
      <4>1. At(r, "metas")'
        BY <1>1, <2>1, <2>4, <3>1 DEF At, HasLeft, TooLong
      <4>2. InBatch(r) /\ r \notin pstep.ignored
        BY <2>2, <2>4, <3>1 DEF At, CacheAt
      <4>3. HandedOver(r)' /\ dtable'[r] = 0
        BY <1>1, <2>1, <3>1, <4>2 DEF InBatch, HandedOver, OnPrefill
      <4>4. CacheAt(r, "metas")'
        BY <4>3 DEF CacheAt
      <4> QED
        BY <4>1, <4>4 DEF Placed, PlaceNames
    <3>2. CASE r \notin pstep.batch
      <4>1. At(r, l)'
        BY <1>1, <2>1, <2>4, <3>2 DEF At, HasLeft, TooLong
      <4>2. CacheAt(r, l)'
        <5>1. CASE r \in pstep.ignored
          <6>1. l = "left"
            BY <2>2, <2>4, <5>1 DEF At
          <6> QED
            BY <1>1, <2>1, <2>4, <6>1 DEF CacheAt, NoCache
        <5>2. CASE r \notin pstep.ignored
          <6>1. Untouched(r) /\ l # "batch"
            BY <1>0, <2>3, <2>4, <3>2, <5>2 DEF At
          <6> QED
            BY <1>1, <2>1, <2>4, <6>1, CacheKept DEF Over, Ends
        <5> QED
          BY <5>1, <5>2
      <4> QED
        BY <4>1, <4>2 DEF Placed
    <3> QED
      BY <3>1, <3>2
  <2> QED
    BY <1>0, <1>2, <2>3, <2>4
<1> QED
  BY <1>3, <1>4, <1>5, <1>6 DEF PrefillNext

(* Only a request whose call is under way has an answer that has not been  *)
(* inserted.                                                               *)
LEMMA AnsweringPlace ==
  ASSUME DSInv, NEW s \in Requests, rpc[s] \in {"called", "read"}
  PROVE  At(s, "refs") /\ CacheAt(s, "refs") /\ s \in arrived
<1>1. s \in arrived /\ \E l \in PlaceNames : At(s, l) /\ CacheAt(s, l)
  BY DEF DSInv, Located, Placed, Fresh
<1>2. PICK l \in PlaceNames : At(s, l) /\ CacheAt(s, l)
  BY <1>1
<1>3. l # "cur"
  BY <1>2 DEF At, CacheAt, InHands, Decoding
<1>4. l = "refs"
  BY <1>2, <1>3 DEF PlaceNames, CacheAt, Fresh, InBatch, HandedOver, Decoding
<1> QED
  BY <1>1, <1>2, <1>4

LEMMA CallsLocated ==
  ASSUME DSInv, NEW s \in Requests,
         AddRequest(s) \/ ReadKVCache(s) \/ FreeKVCache(s) \/ AddMetadata(s)
  PROVE  Located'
<1> USE DEF PrefillFrame, RpcFrame, tokenVars, queueVars, decodeVars, threadVars, prefillVars,
            prefillCache
<1>0. /\ arrived \subseteq Requests /\ ended \subseteq arrived
      /\ ptable \in [Requests -> Nat] /\ pworker \in [Requests -> Nat]
      /\ rpc \in [Requests -> {"none", "called", "read", "answered", "error", "inserted"}]
  BY DEF DSInv, StateTyped
<1>1. /\ \A r \in Requests \ arrived : Fresh(r)
      /\ \A r \in arrived : \E l \in PlaceNames : At(r, l) /\ CacheAt(r, l)
  BY DEF DSInv, Located, Placed
<1>2. CASE ReadKVCache(s) \/ FreeKVCache(s)
  <2>1. UNCHANGED <<tokenVars, prefillVars, queueVars, decodeVars, dmap, dworker, threadVars>>
    BY <1>2 DEF ReadKVCache, FreeKVCache
  <2>2. At(s, "refs") /\ CacheAt(s, "refs") /\ s \in arrived
    BY <1>2, AnsweringPlace DEF ReadKVCache, FreeKVCache
  <2>3. NothingTwice'
    BY <2>1 DEF DSInv, Located, NothingTwice
  <2>4. ASSUME NEW r \in Requests, r # s PROVE Untouched(r)
    <3>1. /\ rpc'[r] = rpc[r] /\ ptable'[r] = ptable[r] /\ pworker'[r] = pworker[r]
          /\ r \in pmap' <=> r \in pmap
      BY <1>0, <1>2, <2>4 DEF ReadKVCache, FreeKVCache
    <3> QED
      BY <2>1, <3>1 DEF Untouched
  <2>5. ASSUME NEW r, NEW l, At(r, l) PROVE At(r, l)'
    BY <2>1, <2>5 DEF At, HasLeft, TooLong
  <2>6. ASSUME NEW r \in arrived, r # s PROVE Placed(r)'
    <3>1. PICK l \in PlaceNames : At(r, l) /\ CacheAt(r, l)
      BY <1>1
    <3>2. CacheAt(r, l)'
      BY <1>0, <2>1, <2>4, <2>6, <3>1, CacheKept DEF Over, Ends
    <3> QED
      BY <2>5, <3>1, <3>2 DEF Placed
  <2>7. Answering(s)'
    <3>1. Answering(s)
      BY <2>2 DEF CacheAt
    <3>2. CASE ReadKVCache(s)
      <4>1. /\ rpc[s] = "called"
            /\ \/ s \in pmap /\ rpc'[s] = "read" /\ pworker'[s] = 0
               \/ s \notin pmap /\ rpc'[s] = "error" /\ pworker' = pworker
        BY <1>0, <3>2 DEF ReadKVCache
      <4> QED
        BY <2>1, <3>1, <4>1 DEF Answering, OnPrefill
    <3>3. CASE FreeKVCache(s)
      <4>1. rpc[s] = "read" /\ rpc'[s] = "answered" /\ ptable'[s] = 0 /\ pworker' = pworker
        BY <1>0, <3>3 DEF FreeKVCache
      <4> QED
        BY <2>1, <3>1, <4>1 DEF Answering
    <3> QED
      BY <1>2, <3>2, <3>3
  <2>8. CacheAt(s, "refs")'
    <3>1. dtable'[s] = Blocks(s)'
      BY <2>1, <2>2 DEF CacheAt, Blocks, Length
    <3> QED
      BY <2>7, <3>1 DEF CacheAt
  <2>9. Placed(s)'
    BY <2>2, <2>5, <2>8 DEF Placed, PlaceNames
  <2> QED
    BY <1>0, <1>1, <2>1, <2>2, <2>3, <2>4, <2>6, <2>9, FreshKept DEF Located
<1>3. CASE AddRequest(s)
  <2>1. /\ arrived' = arrived \cup {s} /\ pwaiting' = pwaiting \cup {s} /\ s \notin arrived
        /\ pmap' = pmap \cup {s}
        /\ UNCHANGED <<tokenVars, pphase, pstep, metas, ptable, pworker, rpc, queueVars,
                       decodeVars, dmap, dworker, threadVars>>
    BY <1>3, Constants DEF AddRequest
  <2>2. NothingTwice'
    BY <2>1 DEF DSInv, Located, NothingTwice
  <2>3. ASSUME NEW r \in Requests, r # s PROVE Untouched(r)
    BY <2>1, <2>3 DEF Untouched
  <2>4. ASSUME NEW r \in arrived PROVE Placed(r)'
    <3>1. PICK l \in PlaceNames : At(r, l) /\ CacheAt(r, l)
      BY <1>1
    <3>2. At(r, l)'
      BY <2>1, <3>1 DEF At, HasLeft, TooLong
    <3>3. CacheAt(r, l)'
      BY <1>0, <2>1, <2>3, <3>1, CacheKept DEF Over, Ends
    <3> QED
      BY <3>2, <3>3 DEF Placed
  <2>5. /\ s \notin pwaiting /\ s \notin pstep.batch /\ s \notin metas
        /\ s \notin pendingDecode /\ s \notin running /\ s \notin dstep.kept /\ s \notin ended
        /\ (\A t \in TransferThreads : s \notin refs[t]) /\ (\A t \in Threads : s \notin cur[t])
    BY <2>1 DEF DSInv, StateTyped
  <2>6. /\ s \notin Range(kvmetaQueue) /\ s \notin Range(transferQueue)
        /\ s \notin Range(insertQueue) /\ s \notin Range(preemptedSeqs)
    <3>1. \A q \in Seq(arrived) : s \notin Range(q)
      BY <2>1, RangeType
    <3> QED
      BY <3>1 DEF DSInv, StateTyped
  <2>7. At(s, "waiting")'
    BY <2>1, <2>5, <2>6 DEF At, HasLeft, TooLong
  <2>8. Fresh(s)' /\ s \in pmap'
    BY <1>1, <2>1 DEF Fresh, NoCache
  <2>9. Placed(s)'
    BY <2>7, <2>8 DEF Placed, PlaceNames, CacheAt
  <2>10. \A r \in Requests \ arrived' : Fresh(r)'
    BY <1>1, <2>1, <2>3, FreshKept
  <2> QED
    BY <2>1, <2>2, <2>4, <2>9, <2>10 DEF Located
<1>4. CASE AddMetadata(s)
  <2>1. /\ s \in metas /\ metas' = metas \ {s} /\ kvmetaQueue' = Append(kvmetaQueue, s)
        /\ UNCHANGED <<tokenVars, arrived, pwaiting, pphase, pstep, prefillCache, rpc,
                       transferQueue, insertQueue, pendingDecode, decodeVars, dmap, dworker,
                       threadVars>>
    BY <1>4 DEF AddMetadata
  <2>2. s \in arrived /\ kvmetaQueue \in Seq(arrived)
    BY <2>1 DEF DSInv, StateTyped
  <2>3. PICK k \in PlaceNames : At(s, k) /\ CacheAt(s, k)
    BY <1>1, <2>2
  <2>4. k = "metas"
    BY <2>1, <2>3 DEF At
  <2>5. /\ Range(kvmetaQueue') = Range(kvmetaQueue) \cup {s}
        /\ IsInjective(kvmetaQueue) /\ s \notin Range(kvmetaQueue) => IsInjective(kvmetaQueue')
    BY <2>1, <2>2, RangeAppend
  <2>6. NothingTwice'
    <3>1. s \notin Range(kvmetaQueue)
      BY <2>3, <2>4 DEF At
    <3> QED
      BY <2>1, <2>5, <3>1 DEF DSInv, Located, NothingTwice
  <2>7. \A r \in Requests : Untouched(r)
    BY <2>1 DEF Untouched
  <2>8. ASSUME NEW r \in arrived, r # s PROVE Placed(r)'
    <3>1. PICK l \in PlaceNames : At(r, l) /\ CacheAt(r, l)
      BY <1>1
    <3>2. At(r, l)'
      BY <2>1, <2>5, <2>8, <3>1 DEF At, HasLeft, TooLong
    <3>3. CacheAt(r, l)'
      BY <1>0, <2>1, <2>7, <3>1, CacheKept DEF Over, Ends
    <3> QED
      BY <3>2, <3>3 DEF Placed
  <2>9. At(s, "kvmeta")'
    BY <2>1, <2>3, <2>4, <2>5 DEF At, HasLeft, TooLong
  <2>10. CacheAt(s, "kvmeta")'
    BY <2>1, <2>3, <2>4 DEF CacheAt, HandedOver, OnPrefill
  <2>11. Placed(s)'
    BY <2>9, <2>10 DEF Placed, PlaceNames
  <2>12. \A r \in Requests \ arrived' : Fresh(r)'
    BY <1>1, <2>1, <2>7, FreshKept
  <2> QED
    BY <2>1, <2>6, <2>8, <2>11, <2>12 DEF Located
<1> QED
  BY <1>2, <1>3, <1>4

LEMMA ScheduleLocated ==
  ASSUME DSInv, BeginStep \/ ScheduleDecode \/ Preempt \/ EndDecodes \/ AdmitMetadata
  PROVE  Located'
<1> USE DEF DecodeFrame, queueVars, decodeVars, threadVars, prefillVars, prefillCache
<1> DEFINE Steps == [kept : SUBSET arrived, decodes : SUBSET arrived,
                     preempted : SUBSET arrived, stop : SUBSET arrived]
<1>0. /\ arrived \subseteq Requests /\ running \subseteq arrived /\ dstep \in Steps
      /\ dtable \in [Requests -> Nat]
      /\ kvmetaQueue \in Seq(arrived) /\ transferQueue \in Seq(arrived)
      /\ insertQueue \in Seq(arrived) /\ preemptedSeqs \in Seq(arrived)
  BY DEF DSInv, StateTyped
<1>1. /\ UNCHANGED <<shape, gen, ended, arrived, pwaiting, pphase, pstep, metas, prefillCache, rpc,
                     dmap, dworker, threadVars>>
      /\ dphase # "complete" /\ dphase' # "complete"
  BY DEF BeginStep, ScheduleDecode, Preempt, EndDecodes, AdmitMetadata
<1>2. /\ \A r \in Requests \ arrived : Fresh(r)
      /\ \A r \in arrived : \E l \in PlaceNames : At(r, l) /\ CacheAt(r, l)
      /\ NothingTwice
  BY DEF DSInv, Located, Placed
<1>3. ASSUME NEW r \in Requests, dtable'[r] = dtable[r]
      PROVE  /\ Untouched(r)
             /\ Fresh(r) => Fresh(r)'
             /\ \A l : CacheAt(r, l) => CacheAt(r, l)'
  <2>1. Untouched(r)
    BY <1>1, <1>3 DEF Untouched
  <2> QED
    BY <1>1, <2>1, FreshKept, CacheKept
<1>4. CASE BeginStep
  <2>1. /\ running' = running \cup pendingDecode /\ pendingDecode' = {} /\ dtable' = dtable
        /\ UNCHANGED <<kvmetaQueue, transferQueue, insertQueue, preemptedSeqs, dstep>>
    BY <1>4 DEF BeginStep
  <2>2. ASSUME NEW r \in arrived PROVE Placed(r)'
    <3>1. PICK l \in PlaceNames : At(r, l) /\ CacheAt(r, l)
      BY <1>2
    <3>2. CASE l # "pending"
      <4>1. At(r, l)' /\ CacheAt(r, l)'
        BY <1>0, <1>1, <1>3, <2>1, <3>1, <3>2 DEF At, HasLeft, TooLong
      <4> QED
        BY <4>1 DEF Placed
    <3>3. CASE l = "pending"
      <4>1. At(r, "running")'
        BY <1>1, <2>1, <3>1, <3>3 DEF At, HasLeft, TooLong
      <4>2. CacheAt(r, "running")'
        <5>1. CacheAt(r, "running")
          BY <3>1, <3>3 DEF CacheAt
        <5> QED
          BY <1>0, <1>3, <2>1, <5>1
      <4> QED
        BY <4>1, <4>2 DEF Placed, PlaceNames
    <3> QED
      BY <3>2, <3>3
  <2>3. NothingTwice'
    BY <1>2, <2>1 DEF NothingTwice
  <2> QED
    BY <1>1, <1>2, <1>3, <2>1, <2>2, <2>3 DEF Located
<1>5. CASE ScheduleDecode
  <2>0. Min(running) \in running
    BY <1>0, <1>5, EndsOfList DEF ScheduleDecode, MoreDecodes
  <2>1. PICK s \in running :
          /\ dtable' = [dtable EXCEPT ![s] = AppendSlot(dtable[s], s)]
          /\ running' = running \ {s}
          /\ dstep' = [dstep EXCEPT !.kept = dstep.kept \cup {s}, !.decodes = dstep.decodes \cup {s}]
          /\ UNCHANGED <<queueVars, preemptedSeqs>>
    BY <1>5, <2>0 DEF ScheduleDecode
  <2>2. dstep'.kept = dstep.kept \cup {s}
    BY <1>0, <2>1
  <2>3. \A r \in Requests : r # s => dtable'[r] = dtable[r]
    BY <1>0, <2>1
  <2>4. ASSUME NEW r \in arrived, r # s PROVE Placed(r)'
    <3>1. PICK l \in PlaceNames : At(r, l) /\ CacheAt(r, l)
      BY <1>2
    <3>2. At(r, l)' /\ CacheAt(r, l)'
      BY <1>0, <1>1, <1>3, <2>1, <2>2, <2>3, <2>4, <3>1 DEF At, HasLeft, TooLong
    <3> QED
      BY <3>2 DEF Placed
  <2>5. Placed(s)'
    <3>1. PICK l \in PlaceNames : At(s, l) /\ CacheAt(s, l)
      BY <1>0, <1>2
    <3>2. l = "running"
      BY <3>1 DEF At
    <3>3. At(s, "kept")'
      BY <1>1, <2>1, <2>2, <3>1, <3>2 DEF At, HasLeft, TooLong
    <3>4. CacheAt(s, "kept")'
      BY <1>1, <3>1, <3>2 DEF CacheAt, Decoding
    <3> QED
      BY <3>3, <3>4 DEF Placed, PlaceNames
  <2>6. NothingTwice'
    BY <1>2, <2>1 DEF NothingTwice
  <2> QED
    BY <1>0, <1>1, <1>2, <1>3, <2>3, <2>4, <2>5, <2>6 DEF Located
<1>6. CASE Preempt
  <2>0. Max(running) \in running
    BY <1>0, <1>6, EndsOfList DEF Preempt, MoreDecodes
  <2>1. PICK s \in running :
          /\ dtable' = [dtable EXCEPT ![s] = 0]
          /\ running' = running \ {s}
          /\ dstep' = [dstep EXCEPT !.preempted = dstep.preempted \cup {s}]
          /\ preemptedSeqs' = Append(preemptedSeqs, s)
          /\ UNCHANGED queueVars
    BY <1>6, <2>0 DEF Preempt
  <2>2. dstep'.kept = dstep.kept
    BY <1>0, <2>1
  <2>3. \A r \in Requests : r # s => dtable'[r] = dtable[r]
    BY <1>0, <2>1
  <2>4. /\ Range(preemptedSeqs') = Range(preemptedSeqs) \cup {s}
        /\ IsInjective(preemptedSeqs) /\ s \notin Range(preemptedSeqs) => IsInjective(preemptedSeqs')
    BY <1>0, <2>1, RangeAppend
  <2>5. PICK k \in PlaceNames : At(s, k) /\ CacheAt(s, k)
    BY <1>0, <1>2
  <2>6. k = "running"
    BY <2>5 DEF At
  <2>7. ASSUME NEW r \in arrived, r # s PROVE Placed(r)'
    <3>1. PICK l \in PlaceNames : At(r, l) /\ CacheAt(r, l)
      BY <1>2
    <3>2. At(r, l)' /\ CacheAt(r, l)'
      BY <1>0, <1>1, <1>3, <2>1, <2>2, <2>3, <2>4, <2>7, <3>1 DEF At, HasLeft, TooLong
    <3> QED
      BY <3>2 DEF Placed
  <2>8. Placed(s)'
    <3>1. At(s, "preempted")'
      BY <1>1, <2>1, <2>2, <2>4, <2>5, <2>6 DEF At, HasLeft, TooLong
    <3>2. CacheAt(s, "preempted")'
      BY <1>0, <1>1, <2>1, <2>5, <2>6 DEF CacheAt, Decoding
    <3> QED
      BY <3>1, <3>2 DEF Placed, PlaceNames
  <2>9. NothingTwice'
    <3>1. s \notin Range(preemptedSeqs)
      BY <2>5, <2>6 DEF At
    <3> QED
      BY <1>2, <2>1, <2>4, <3>1 DEF NothingTwice
  <2> QED
    BY <1>0, <1>1, <1>2, <1>3, <2>3, <2>7, <2>8, <2>9 DEF Located
<1>7. CASE EndDecodes
  <2>1. /\ running' = dstep.kept \cup running
        /\ dstep' = [dstep EXCEPT !.kept = {}]
        /\ UNCHANGED <<kvmetaQueue, transferQueue, pendingDecode>>
    BY <1>7 DEF EndDecodes
  <2>2. dstep'.kept = {}
    BY <1>0, <2>1
  <2>3. ASSUME NEW r \in arrived, NEW l \in PlaceNames, At(r, l), CacheAt(r, l),
               dtable'[r] = dtable[r],
               r \in Range(preemptedSeqs') <=> r \in Range(preemptedSeqs),
               r \in Range(insertQueue') <=> r \in Range(insertQueue)
        PROVE  Placed(r)'
    <3>1. CASE l # "kept"
      <4>1. At(r, l)' /\ CacheAt(r, l)'
        BY <1>0, <1>1, <1>3, <2>1, <2>2, <2>3, <3>1 DEF At, HasLeft, TooLong
      <4> QED
        BY <4>1 DEF Placed
    <3>2. CASE l = "kept"
      <4>1. At(r, "running")'
        BY <1>1, <2>1, <2>2, <2>3, <3>2 DEF At, HasLeft, TooLong
      <4>2. CacheAt(r, "running")'
        <5>1. CacheAt(r, "running")
          BY <2>3, <3>2 DEF CacheAt
        <5> QED
          BY <1>0, <1>3, <2>3, <5>1
      <4> QED
        BY <4>1, <4>2 DEF Placed, PlaceNames
    <3> QED
      BY <3>1, <3>2
  <2>4. CASE UNCHANGED <<dtable, preemptedSeqs, insertQueue>>
    <3>1. NothingTwice'
      BY <1>2, <2>1, <2>4 DEF NothingTwice
    <3>2. \A r \in arrived : Placed(r)'
      BY <1>2, <2>3, <2>4
    <3> QED
      BY <1>0, <1>1, <1>2, <1>3, <2>4, <3>1, <3>2 DEF Located
  <2>5. CASE ~UNCHANGED <<dtable, preemptedSeqs, insertQueue>>
    <3> DEFINE h == Head(preemptedSeqs)
    <3>1. /\ preemptedSeqs # <<>>
          /\ dtable' = [dtable EXCEPT ![h] = Blocks(h)]
          /\ preemptedSeqs' = Tail(preemptedSeqs)
          /\ insertQueue' = Append(insertQueue, h)
      BY <1>7, <2>5 DEF EndDecodes
    <3>2. /\ h \in arrived /\ h \in Range(preemptedSeqs)
          /\ IsInjective(preemptedSeqs) =>
               /\ Range(preemptedSeqs') = Range(preemptedSeqs) \ {h}
               /\ IsInjective(preemptedSeqs')
          /\ Range(insertQueue') = Range(insertQueue) \cup {h}
          /\ IsInjective(insertQueue) /\ h \notin Range(insertQueue) => IsInjective(insertQueue')
      BY <1>0, <3>1, RangeTail, RangeAppend
    <3>3. PICK s \in arrived : s = h
      BY <3>2
    <3> HIDE DEF h
    <3>4. PICK k \in PlaceNames : At(s, k) /\ CacheAt(s, k)
      BY <1>2
    <3>5. k = "preempted"
      BY <3>2, <3>3, <3>4 DEF At
    <3>6. IsInjective(preemptedSeqs) /\ IsInjective(insertQueue)
      BY <1>2 DEF NothingTwice
    <3>7. NothingTwice'
      <4>1. s \notin Range(insertQueue)
        BY <3>4, <3>5 DEF At
      <4> QED
        BY <1>2, <2>1, <3>2, <3>3, <3>6, <4>1 DEF NothingTwice
    <3>8. \A r \in Requests : r # s => dtable'[r] = dtable[r]
      BY <1>0, <3>1, <3>3
    <3>9. ASSUME NEW r \in arrived, r # s PROVE Placed(r)'
      BY <1>0, <1>2, <2>3, <3>2, <3>3, <3>6, <3>8, <3>9
    <3>10. Placed(s)'
      <4>1. At(s, "insert")'
        BY <1>1, <2>1, <2>2, <3>2, <3>3, <3>4, <3>5, <3>6 DEF At, HasLeft, TooLong
      <4>2. dtable'[s] = Blocks(s) /\ Blocks(s)' = Blocks(s)
        BY <1>0, <1>1, <3>1, <3>3 DEF Blocks, Length
      <4>3. CacheAt(s, "insert")'
        BY <1>1, <3>4, <3>5, <4>2 DEF CacheAt, Decoding
      <4> QED
        BY <4>1, <4>3 DEF Placed, PlaceNames
    <3> QED
      BY <1>0, <1>1, <1>2, <1>3, <3>7, <3>8, <3>9, <3>10 DEF Located
  <2> QED
    BY <2>4, <2>5
<1>8. CASE AdmitMetadata
  <2> DEFINE h == Head(kvmetaQueue)
  <2>1. /\ kvmetaQueue # <<>>
        /\ dtable' = [dtable EXCEPT ![h] = Blocks(h)]
        /\ kvmetaQueue' = Tail(kvmetaQueue)
        /\ transferQueue' = Append(transferQueue, h)
        /\ UNCHANGED <<insertQueue, pendingDecode, running, preemptedSeqs, dstep>>
    BY <1>8 DEF AdmitMetadata, Admits
  <2>2. /\ h \in arrived /\ h \in Range(kvmetaQueue)
        /\ IsInjective(kvmetaQueue) =>
             /\ Range(kvmetaQueue') = Range(kvmetaQueue) \ {h}
             /\ IsInjective(kvmetaQueue')
        /\ Range(transferQueue') = Range(transferQueue) \cup {h}
        /\ IsInjective(transferQueue) /\ h \notin Range(transferQueue) => IsInjective(transferQueue')
    BY <1>0, <2>1, RangeTail, RangeAppend
  <2>3. PICK s \in arrived : s = h
    BY <2>2
  <2> HIDE DEF h
  <2>4. PICK k \in PlaceNames : At(s, k) /\ CacheAt(s, k)
    BY <1>2
  <2>5. k = "kvmeta"
    BY <2>2, <2>3, <2>4 DEF At
  <2>6. IsInjective(kvmetaQueue) /\ IsInjective(transferQueue)
    BY <1>2 DEF NothingTwice
  <2>7. NothingTwice'
    <3>1. s \notin Range(transferQueue)
      BY <2>4, <2>5 DEF At
    <3> QED
      BY <1>2, <2>1, <2>2, <2>3, <2>6, <3>1 DEF NothingTwice
  <2>8. \A r \in Requests : r # s => dtable'[r] = dtable[r]
    BY <1>0, <2>1, <2>3
  <2>9. ASSUME NEW r \in arrived, r # s PROVE Placed(r)'
    <3>1. PICK l \in PlaceNames : At(r, l) /\ CacheAt(r, l)
      BY <1>2
    <3>2. At(r, l)' /\ CacheAt(r, l)'
      BY <1>0, <1>1, <1>3, <2>1, <2>2, <2>3, <2>6, <2>8, <2>9, <3>1 DEF At, HasLeft, TooLong
    <3> QED
      BY <3>2 DEF Placed
  <2>10. Placed(s)'
    <3>1. At(s, "transfer")'
      BY <1>1, <2>1, <2>2, <2>3, <2>4, <2>5, <2>6 DEF At, HasLeft, TooLong
    <3>2. dtable'[s] = Blocks(s) /\ Blocks(s)' = Blocks(s)
      BY <1>0, <1>1, <2>1, <2>3 DEF Blocks, Length
    <3>3. HandedOver(s)'
      BY <1>1, <2>4, <2>5 DEF CacheAt, HandedOver, OnPrefill
    <3>4. CacheAt(s, "transfer")'
      BY <3>2, <3>3 DEF CacheAt
    <3> QED
      BY <3>1, <3>4 DEF Placed, PlaceNames
  <2> QED
    BY <1>0, <1>1, <1>2, <1>3, <2>7, <2>8, <2>9, <2>10 DEF Located
<1> QED
  BY <1>4, <1>5, <1>6, <1>7, <1>8

LEMMA StepLocated ==
  ASSUME DSInv,
         \/ EndEmptyStep \/ ExecuteDecodes \/ CompleteDecodes
         \/ \E stop \in Stops(dstep.decodes) : SendStep(stop)
  PROVE  Located'
<1> USE DEF DecodeFrame, queueVars, threadVars, prefillVars, prefillCache
<1>0. /\ arrived \subseteq Requests /\ running \subseteq arrived
      /\ dstep \in [kept : SUBSET arrived, decodes : SUBSET arrived,
                    preempted : SUBSET arrived, stop : SUBSET arrived]
      /\ dtable \in [Requests -> Nat] /\ dworker \in [Requests -> Nat]
      /\ gen \in [Requests -> Nat] /\ ended \subseteq arrived
  BY DEF DSInv, StateTyped
<1>1. /\ UNCHANGED <<shape, arrived, pwaiting, pphase, pstep, metas, prefillCache, rpc, queueVars,
                     preemptedSeqs, threadVars>>
      /\ dphase # "decode" /\ dphase # "idle"
  BY DEF EndEmptyStep, ExecuteDecodes, CompleteDecodes, SendStep
<1>2. /\ \A r \in Requests \ arrived : Fresh(r)
      /\ \A r \in arrived : \E l \in PlaceNames : At(r, l) /\ CacheAt(r, l)
      /\ NothingTwice
  BY DEF DSInv, Located, Placed
<1>3. /\ dstep.kept = {} /\ dstep.decodes \subseteq running
      /\ dstep.preempted \subseteq Range(preemptedSeqs)
  BY <1>1 DEF DSInv, Shaped, DecodeShape
<1>4. NothingTwice'
  BY <1>1, <1>2 DEF NothingTwice
<1>5. \A r \in Range(preemptedSeqs) : r \notin running
  <2>1. Range(preemptedSeqs) \subseteq arrived
    BY RangeType DEF DSInv, StateTyped
  <2> QED
    BY <1>2, <2>1 DEF At
<1>6. \A r \in Requests \ arrived : r \notin dstep.decodes /\ r \notin dstep.preempted
  BY <1>0
<1>7. CASE EndEmptyStep
  <2>1. UNCHANGED <<gen, ended, running, dtable, dmap, dworker>> /\ dstep' = NoDecode
        /\ dphase = "admit" /\ dphase' = "idle"
    BY <1>7 DEF EndEmptyStep
  <2>2. \A r \in Requests : Untouched(r)
    BY <1>1, <2>1 DEF Untouched
  <2>3. ASSUME NEW r \in arrived PROVE Placed(r)'
    <3>1. PICK l \in PlaceNames : At(r, l) /\ CacheAt(r, l)
      BY <1>2
    <3>2. At(r, l)'
      BY <1>1, <1>3, <2>1, <3>1 DEF At, HasLeft, TooLong, NoDecode
    <3>3. CacheAt(r, l)'
      BY <1>0, <1>1, <2>1, <2>2, <3>1, CacheKept
    <3> QED
      BY <3>2, <3>3 DEF Placed
  <2> QED
    BY <1>0, <1>1, <1>2, <1>4, <2>2, <2>3, FreshKept DEF Located
<1>8. ASSUME NEW stop \in Stops(dstep.decodes), SendStep(stop) PROVE Located'
  <2>1. /\ UNCHANGED <<gen, ended, running, dtable, dworker>> /\ dmap' = dmap \ dstep.preempted
        /\ dphase = "admit" /\ dphase' = "execute" /\ dstep'.kept = {}
    BY <1>0, <1>3, <1>8 DEF SendStep
  <2>2. ASSUME NEW r \in Requests, r \notin dstep.preempted PROVE Untouched(r)
    BY <1>1, <2>1, <2>2 DEF Untouched
  <2>3. ASSUME NEW r \in arrived PROVE Placed(r)'
    <3>1. PICK l \in PlaceNames : At(r, l) /\ CacheAt(r, l)
      BY <1>2
    <3>2. At(r, l)'
      BY <1>1, <1>3, <2>1, <3>1 DEF At, HasLeft, TooLong
    <3>3. CacheAt(r, l)'
      <4>1. CASE r \in dstep.preempted
        <5>1. l = "preempted"
          BY <1>3, <3>1, <4>1 DEF At
        <5> QED
          BY <1>1, <2>1, <3>1, <5>1 DEF CacheAt, Decoding
      <4>2. CASE r \notin dstep.preempted
        BY <1>0, <1>1, <2>1, <2>2, <3>1, <4>2, CacheKept
      <4> QED
        BY <4>1, <4>2
    <3> QED
      BY <3>2, <3>3 DEF Placed
  <2> QED
    BY <1>0, <1>1, <1>2, <1>4, <1>6, <2>2, <2>3, FreshKept DEF Located
<1>9. CASE ExecuteDecodes
  <2>1. /\ UNCHANGED <<gen, ended, running, dtable, dmap, dstep>>
        /\ dphase = "execute" /\ dphase' = "complete"
        /\ dworker' = [s \in Requests |-> IF s \in Over THEN 0 ELSE WorkerTable[s]]
    BY <1>9 DEF ExecuteDecodes
  <2>2. \A r : (r \in Over)' <=> r \in Over
    BY <1>1, <2>1 DEF Over, Ends
  <2>3. ASSUME NEW r \in Requests
        PROVE  /\ r \in Over => dworker'[r] = 0
               /\ r \notin Over /\ r \in dstep.preempted => dworker'[r] = 0
               /\ r \notin Over /\ r \notin dstep.preempted /\ r \in dstep.decodes =>
                    dworker'[r] = AppendSlot(dworker[r], r)
               /\ r \notin dstep.preempted /\ r \notin dstep.decodes => dworker'[r] = dworker[r]
    BY <2>1 DEF WorkerTable, Over
  <2>4. ASSUME NEW r \in Requests, r \notin dstep.preempted, r \notin dstep.decodes
        PROVE  Untouched(r)
    BY <1>1, <2>1, <2>3, <2>4 DEF Untouched
  <2>5. ASSUME NEW r \in arrived PROVE Placed(r)'
    <3>0. r \in Requests
      BY <1>0
    <3>1. PICK l \in PlaceNames : At(r, l) /\ CacheAt(r, l)
      BY <1>2
    <3>2. At(r, l)'
      BY <1>1, <2>1, <3>1 DEF At, HasLeft, TooLong
    <3>3. CacheAt(r, l)'
      <4>1. CASE r \in dstep.preempted
        <5>1. l = "preempted"
          BY <1>3, <3>1, <4>1 DEF At
        <5> QED
          BY <1>1, <2>1, <3>1, <5>1 DEF CacheAt, Decoding
      <4>2. CASE r \notin dstep.preempted /\ r \in running
        <5>1. l = "running"
          BY <3>1, <4>2 DEF At
        <5>2. Decoding(r) /\ r \in dmap /\ dworker[r] # 0
          BY <2>1, <3>1, <5>1 DEF CacheAt
        <5>3. dworker'[r] = 0 <=> r \in Over
          <6>1. AppendSlot(dworker[r], r) # 0
            BY <1>0, <3>0, <5>2 DEF AppendSlot
          <6> QED
            BY <2>3, <3>0, <4>2, <5>2, <6>1
        <5>4. Decoding(r)' /\ r \in dmap'
          BY <1>1, <2>1, <5>2 DEF Decoding
        <5> QED
          BY <2>1, <2>2, <5>1, <5>3, <5>4 DEF CacheAt
      <4>3. CASE r \notin dstep.preempted /\ r \notin running
        <5>1. Untouched(r) /\ l # "running" /\ r \notin Over
          BY <1>3, <2>4, <3>0, <3>1, <4>3 DEF At, Over
        <5> QED
          BY <1>1, <2>1, <2>2, <3>1, <5>1, CacheKept
      <4> QED
        BY <4>1, <4>2, <4>3
    <3> QED
      BY <3>2, <3>3 DEF Placed
  <2> QED
    BY <1>0, <1>1, <1>2, <1>4, <1>6, <2>4, <2>5, FreshKept DEF Located
<1>10. CASE CompleteDecodes
  <2>1. /\ dphase = "complete" /\ dphase' = "idle" /\ dworker' = dworker /\ dstep' = NoDecode
        /\ running' = running \ Over /\ dmap' = dmap \ Over /\ ended' = ended \cup Over
        /\ \A r \in Requests :
             /\ gen'[r] = IF r \in dstep.decodes THEN gen[r] + 1 ELSE gen[r]
             /\ dtable'[r] = IF r \in Over THEN 0 ELSE dtable[r]
    BY <1>10 DEF CompleteDecodes
  <2>2. \A r \in Over : r \in dstep.decodes
    BY DEF Over
  <2>3. ASSUME NEW r \in Requests, r \notin dstep.decodes PROVE Untouched(r)
    BY <1>1, <2>1, <2>2, <2>3 DEF Untouched
  <2>4. ASSUME NEW r \in arrived PROVE Placed(r)'
    <3>0. r \in Requests /\ gen[r] \in Nat
      BY <1>0
    <3>1. PICK l \in PlaceNames : At(r, l) /\ CacheAt(r, l)
      BY <1>2
    <3>2. CASE r \notin dstep.decodes
      <4>1. At(r, l)'
        BY <1>1, <1>3, <2>1, <2>2, <3>0, <3>1, <3>2 DEF At, HasLeft, TooLong, NoDecode
      <4>2. CacheAt(r, l)'
        BY <1>0, <1>1, <2>1, <2>2, <2>3, <3>1, <3>2, CacheKept
      <4> QED
        BY <4>1, <4>2 DEF Placed
    <3>3. CASE r \in dstep.decodes
      <4>1. l = "running"
        BY <1>3, <3>1, <3>3 DEF At
      <4>2. Decoding(r) /\ r \in dmap /\ (dworker[r] = 0 <=> r \in Over)
        BY <2>1, <3>1, <4>1 DEF CacheAt
      <4>3. gen[r] > 0 /\ gen'[r] = gen[r] + 1 /\ r \notin ended
        BY <2>1, <3>0, <3>3, <4>2 DEF Decoding
      <4>4. CASE r \in Over
        <5>1. At(r, "left")'
          BY <1>1, <1>3, <2>1, <2>2, <3>0, <3>1, <4>1, <4>3, <4>4 DEF At, HasLeft, TooLong, NoDecode
        <5>2. CacheAt(r, "left")'
          BY <1>1, <2>1, <3>0, <4>2, <4>4 DEF CacheAt, NoCache, Decoding
        <5> QED
          BY <5>1, <5>2 DEF Placed, PlaceNames
      <4>5. CASE r \notin Over
        <5>1. At(r, "running")'
          BY <1>1, <1>3, <2>1, <2>2, <3>0, <3>1, <4>1, <4>3, <4>5 DEF At, HasLeft, TooLong, NoDecode
        <5>2. CacheAt(r, "running")'
          BY <1>1, <2>1, <3>0, <4>2, <4>3, <4>5 DEF CacheAt, Decoding
        <5> QED
          BY <5>1, <5>2 DEF Placed, PlaceNames
      <4> QED
        BY <4>4, <4>5
    <3> QED
      BY <3>2, <3>3
  <2> QED
    BY <1>0, <1>1, <1>2, <1>4, <1>6, <2>3, <2>4, FreshKept DEF Located
<1> QED
  BY <1>7, <1>8, <1>9, <1>10

LEMMA ThreadsLocated ==
  ASSUME DSInv, NEW t \in Threads, ThreadNext(t)
  PROVE  Located'
<1> USE DEF ThreadFrame, decodeVars, tokenVars, prefillVars, prefillCache
<1>0. /\ arrived \subseteq Requests
      /\ pc \in [Threads -> {"test", "get", "wait", "insert", "allocate"} \cup Dead]
      /\ rpc \in [Requests -> {"none", "called", "read", "answered", "error", "inserted"}]
      /\ refs \in [TransferThreads -> SUBSET arrived] /\ cur \in [Threads -> SUBSET arrived]
      /\ dworker \in [Requests -> Nat]
      /\ transferQueue \in Seq(arrived) /\ insertQueue \in Seq(arrived)
      /\ TransferThreads \subseteq Threads /\ TransferThreads \cap SwapThreads = {}
  BY Constants DEF DSInv, StateTyped, Threads
<1>1. /\ UNCHANGED <<shape, gen, ended, arrived, pwaiting, pphase, pstep, metas, prefillCache,
                     running, preemptedSeqs, dtable, dphase, dstep>>
      /\ UNCHANGED kvmetaQueue
  BY DEF ThreadNext, TestQueue, GetMetadata, WaitReady, GetPreempted, CheckRoom, InsertKVCache,
         SwapIn, queueVars
<1>2. /\ \A r \in Requests \ arrived : Fresh(r)
      /\ \A r \in arrived : \E l \in PlaceNames : At(r, l) /\ CacheAt(r, l)
      /\ NothingTwice
  BY DEF DSInv, Located, Placed
<1>3. \A u \in Threads : IF pc[u] \in EmptyHanded THEN cur[u] = {} ELSE \E s \in arrived : cur[u] = {s}
  BY DEF DSInv, Shaped, HandsShape
<1>4. ASSUME NEW r \in Requests, rpc'[r] = rpc[r], r \in dmap' <=> r \in dmap, dworker'[r] = dworker[r]
      PROVE  /\ Untouched(r)
             /\ Fresh(r) => Fresh(r)'
             /\ \A l : /\ CacheAt(r, l)
                       /\ l = "cur" => \A u \in Threads : r \in cur'[u] => r \in cur[u] /\ pc'[u] = pc[u]
                       => CacheAt(r, l)'
  <2>1. Untouched(r)
    BY <1>1, <1>4 DEF Untouched
  <2>2. (r \in Over)' <=> r \in Over
    BY <1>1 DEF Over, Ends
  <2> QED
    BY <1>1, <2>1, <2>2, FreshKept, CacheKept
<1>5. ASSUME t \in TransferThreads, TestQueue(t) PROVE Located'
  <2>1. /\ UNCHANGED <<rpc, queueVars, dmap, dworker, refs, cur>> /\ cur[t] = {}
        /\ \A u \in Threads : u # t => pc'[u] = pc[u]
    BY <1>0, <1>3, <1>5 DEF TestQueue, EmptyHanded
  <2>2. ASSUME NEW r \in arrived PROVE Placed(r)'
    <3>1. PICK l \in PlaceNames : At(r, l) /\ CacheAt(r, l)
      BY <1>2
    <3>2. At(r, l)' /\ CacheAt(r, l)'
      BY <1>0, <1>1, <1>4, <2>1, <3>1 DEF At, HasLeft, TooLong, queueVars
    <3> QED
      BY <3>2 DEF Placed
  <2>3. NothingTwice'
    BY <1>1, <1>2, <2>1 DEF NothingTwice, queueVars
  <2> QED
    BY <1>0, <1>1, <1>2, <1>4, <2>1, <2>2, <2>3 DEF Located
<1>6. ASSUME t \in TransferThreads, GetMetadata(t) PROVE Located'
  <2> DEFINE h == Head(transferQueue)
  <2>1. /\ pc[t] = "get" /\ transferQueue # <<>>
        /\ dmap' = dmap \cup {h} /\ rpc' = [rpc EXCEPT ![h] = "called"]
        /\ refs' = [refs EXCEPT ![t] = @ \cup {h}] /\ transferQueue' = Tail(transferQueue)
        /\ pc' = [pc EXCEPT ![t] = "test"]
        /\ UNCHANGED <<kvmetaQueue, insertQueue, pendingDecode, dworker, cur>>
    BY <1>6 DEF GetMetadata
  <2>2. /\ h \in arrived /\ h \in Range(transferQueue)
        /\ IsInjective(transferQueue) =>
             /\ Range(transferQueue') = Range(transferQueue) \ {h}
             /\ IsInjective(transferQueue')
    BY <1>0, <2>1, RangeTail
  <2>3. PICK s \in arrived : s = h
    BY <2>2
  <2> HIDE DEF h
  <2>4. PICK k \in PlaceNames : At(s, k) /\ CacheAt(s, k)
    BY <1>2
  <2>5. k = "transfer" /\ IsInjective(transferQueue)
    BY <1>2, <2>2, <2>3, <2>4 DEF At, NothingTwice
  <2>6. /\ \A r \in Requests : r # s => rpc'[r] = rpc[r] /\ (r \in dmap' <=> r \in dmap)
        /\ rpc'[s] = "called" /\ s \in dmap'
        /\ \A u \in TransferThreads : refs'[u] = IF u = t THEN refs[u] \cup {s} ELSE refs[u]
        /\ \A u \in Threads : u # t => pc'[u] = pc[u]
        /\ cur[t] = {}
    BY <1>0, <1>3, <1>6, <2>1, <2>3 DEF EmptyHanded
  <2>7. ASSUME NEW r \in arrived, r # s PROVE Placed(r)'
    <3>1. PICK l \in PlaceNames : At(r, l) /\ CacheAt(r, l)
      BY <1>2
    <3>2. CacheAt(r, l)'
      BY <1>0, <1>4, <2>1, <2>6, <2>7, <3>1
    <3>3. \A u \in TransferThreads : r \in refs'[u] <=> r \in refs[u]
      BY <2>6, <2>7
    <3>4. At(r, l)'
      BY <1>1, <2>1, <2>2, <2>3, <2>5, <2>7, <3>1, <3>3 DEF At, HasLeft, TooLong
    <3> QED
      BY <3>2, <3>4 DEF Placed
  <2>8. Placed(s)'
    <3>1. \A u \in TransferThreads : s \in refs'[u] <=> u = t
      BY <2>4, <2>5, <2>6 DEF At
    <3>2. At(s, "refs")'
      BY <1>1, <1>6, <2>1, <2>2, <2>3, <2>4, <2>5, <3>1 DEF At, HasLeft, TooLong
    <3>3. HandedOver(s) /\ dtable[s] = Blocks(s)
      BY <2>4, <2>5 DEF CacheAt
    <3>4. Answering(s)'
      BY <1>1, <2>1, <2>6, <3>3 DEF Answering, HandedOver, OnPrefill
    <3>5. dtable'[s] = Blocks(s)'
      BY <1>1, <3>3 DEF Blocks, Length
    <3>6. CacheAt(s, "refs")'
      BY <3>4, <3>5 DEF CacheAt
    <3> QED
      BY <3>2, <3>6 DEF Placed, PlaceNames
  <2>9. NothingTwice'
    BY <1>1, <1>2, <2>1, <2>2, <2>5 DEF NothingTwice
  <2> QED
    BY <1>0, <1>1, <1>2, <1>4, <2>1, <2>6, <2>7, <2>8, <2>9 DEF Located
<1>7. ASSUME t \in TransferThreads, NEW s \in refs[t], WaitReady(t, s) PROVE Located'
  <2>1. /\ pc[t] = "wait" /\ UNCHANGED <<rpc, queueVars, dmap, dworker>>
        /\ \/ rpc[s] = "answered" /\ pc'[t] = "insert"
           \/ rpc[s] = "error" /\ pc'[t] = "keyerror"
        /\ \A u \in TransferThreads : refs'[u] = IF u = t THEN refs[u] \ {s} ELSE refs[u]
        /\ \A u \in Threads : u # t => pc'[u] = pc[u] /\ cur'[u] = cur[u]
        /\ cur'[t] = {s}
    BY <1>0, <1>7 DEF WaitReady
  <2>2. cur[t] = {} /\ s \in arrived
    BY <1>0, <1>3, <1>7, <2>1 DEF EmptyHanded
  <2>3. PICK k \in PlaceNames : At(s, k) /\ CacheAt(s, k)
    BY <1>2, <2>2
  <2>4. k = "refs"
    BY <1>7, <2>3 DEF At
  <2>5. ASSUME NEW r \in arrived, r # s PROVE Placed(r)'
    <3>1. PICK l \in PlaceNames : At(r, l) /\ CacheAt(r, l)
      BY <1>2
    <3>2. /\ \A u \in TransferThreads : r \in refs'[u] <=> r \in refs[u]
          /\ \A u \in Threads : r \in cur'[u] <=> r \in cur[u]
      BY <2>1, <2>2, <2>5
    <3>3. At(r, l)'
      BY <1>1, <2>1, <2>5, <3>1, <3>2 DEF At, HasLeft, TooLong, queueVars
    <3>4. CacheAt(r, l)'
      BY <1>0, <1>4, <2>1, <2>5, <3>1
    <3> QED
      BY <3>3, <3>4 DEF Placed
  <2>6. Placed(s)'
    <3>1. /\ \A u \in TransferThreads : s \notin refs'[u]
          /\ \A u \in Threads : s \in cur'[u] <=> u = t
      BY <1>7, <2>1, <2>3, <2>4 DEF At
    <3>2. At(s, "cur")'
      BY <1>0, <1>1, <1>7, <2>1, <2>3, <2>4, <3>1 DEF At, HasLeft, TooLong, queueVars
    <3>3. Answering(s) /\ dtable[s] = Blocks(s)
      BY <2>3, <2>4 DEF CacheAt
    <3>4. InHands(s, t)'
      BY <1>0, <1>1, <1>7, <2>1, <3>3 DEF InHands, Answering
    <3>5. dtable'[s] = Blocks(s)'
      BY <1>1, <3>3 DEF Blocks, Length
    <3>6. CacheAt(s, "cur")'
      BY <3>1, <3>4, <3>5 DEF CacheAt
    <3> QED
      BY <3>2, <3>6 DEF Placed, PlaceNames
  <2>7. NothingTwice'
    BY <1>1, <1>2, <2>1 DEF NothingTwice, queueVars
  <2> QED
    BY <1>0, <1>1, <1>2, <1>4, <2>1, <2>5, <2>6, <2>7 DEF Located
<1>8. ASSUME t \in SwapThreads, GetPreempted(t) PROVE Located'
  <2> DEFINE h == Head(insertQueue)
  <2>1. /\ pc[t] = "test" /\ insertQueue # <<>>
        /\ cur' = [cur EXCEPT ![t] = {h}] /\ insertQueue' = Tail(insertQueue)
        /\ pc' = [pc EXCEPT ![t] = "insert"]
        /\ UNCHANGED <<rpc, kvmetaQueue, transferQueue, pendingDecode, dmap, dworker, refs>>
    BY <1>8 DEF GetPreempted
  <2>2. /\ h \in arrived /\ h \in Range(insertQueue)
        /\ IsInjective(insertQueue) =>
             /\ Range(insertQueue') = Range(insertQueue) \ {h}
             /\ IsInjective(insertQueue')
    BY <1>0, <2>1, RangeTail
  <2>3. PICK s \in arrived : s = h
    BY <2>2
  <2> HIDE DEF h
  <2>4. PICK k \in PlaceNames : At(s, k) /\ CacheAt(s, k)
    BY <1>2
  <2>5. k = "insert" /\ IsInjective(insertQueue)
    BY <1>2, <2>2, <2>3, <2>4 DEF At, NothingTwice
  <2>6. /\ \A u \in Threads : u # t => pc'[u] = pc[u] /\ cur'[u] = cur[u]
        /\ cur'[t] = {s} /\ cur[t] = {}
    BY <1>0, <1>3, <2>1, <2>3 DEF EmptyHanded
  <2>7. ASSUME NEW r \in arrived, r # s PROVE Placed(r)'
    <3>1. PICK l \in PlaceNames : At(r, l) /\ CacheAt(r, l)
      BY <1>2
    <3>2. \A u \in Threads : r \in cur'[u] <=> r \in cur[u]
      BY <2>6, <2>7
    <3>3. At(r, l)'
      BY <1>1, <2>1, <2>2, <2>3, <2>5, <2>7, <3>1, <3>2 DEF At, HasLeft, TooLong
    <3>4. CacheAt(r, l)'
      BY <1>0, <1>4, <2>1, <2>6, <2>7, <3>1
    <3> QED
      BY <3>3, <3>4 DEF Placed
  <2>8. Placed(s)'
    <3>1. \A u \in Threads : s \in cur'[u] <=> u = t
      BY <2>4, <2>5, <2>6 DEF At
    <3>2. At(s, "cur")'
      BY <1>1, <2>1, <2>2, <2>3, <2>4, <2>5, <3>1 DEF At, HasLeft, TooLong
    <3>3. Decoding(s) /\ dtable[s] = Blocks(s)
      BY <2>4, <2>5 DEF CacheAt
    <3>4. InHands(s, t)'
      BY <1>1, <1>8, <2>1, <3>3 DEF InHands, Decoding
    <3>5. dtable'[s] = Blocks(s)'
      BY <1>1, <3>3 DEF Blocks, Length
    <3>6. CacheAt(s, "cur")'
      BY <3>1, <3>4, <3>5 DEF CacheAt
    <3> QED
      BY <3>2, <3>6 DEF Placed, PlaceNames
  <2>9. NothingTwice'
    BY <1>1, <1>2, <2>1, <2>2, <2>5 DEF NothingTwice
  <2> QED
    BY <1>0, <1>1, <1>2, <1>4, <2>1, <2>7, <2>8, <2>9 DEF Located
<1>9. ASSUME CheckRoom(t) \/ InsertKVCache(t) \/ SwapIn(t) PROVE Located'
  <2>1. /\ pc[t] \in {"insert", "allocate"}
        /\ UNCHANGED <<kvmetaQueue, transferQueue, insertQueue, dmap, refs>>
    BY <1>9 DEF CheckRoom, InsertKVCache, SwapIn, queueVars
  <2>2. PICK s \in arrived : cur[t] = {s}
    BY <1>3, <2>1 DEF EmptyHanded
  <2>3. PICK k \in PlaceNames : At(s, k) /\ CacheAt(s, k)
    BY <1>2
  <2>4. k = "cur" /\ InHands(s, t) /\ dtable[s] = Blocks(s) /\ s \in Requests
    BY <1>0, <2>2, <2>3 DEF At, CacheAt
  <2>5. Blocks(s)' = Blocks(s)
    BY <1>1 DEF Blocks, Length
  <2>6. NothingTwice'
    BY <1>1, <1>2, <2>1 DEF NothingTwice
  <2>7. ASSUME NEW r \in arrived, r # s, rpc'[r] = rpc[r], dworker'[r] = dworker[r],
               r \in pendingDecode' <=> r \in pendingDecode,
               \A u \in Threads : u # t => pc'[u] = pc[u],
               \A u \in Threads : r \in cur'[u] <=> r \in cur[u]
        PROVE  Placed(r)'
    <3>1. PICK l \in PlaceNames : At(r, l) /\ CacheAt(r, l)
      BY <1>2
    <3>2. At(r, l)'
      BY <1>1, <2>1, <2>7, <3>1 DEF At, HasLeft, TooLong
    <3>3. CacheAt(r, l)'
      BY <1>0, <1>4, <2>1, <2>2, <2>7, <3>1
    <3> QED
      BY <3>2, <3>3 DEF Placed
  <2>8. ASSUME cur' = cur, pendingDecode' = pendingDecode, InHands(s, t)'
        PROVE  Placed(s)'
    <3>1. At(s, "cur")'
      BY <1>1, <2>1, <2>3, <2>4, <2>8 DEF At, HasLeft, TooLong
    <3>2. \A u \in Threads : s \in cur[u] => u = t
      BY <2>2, <2>3 DEF At
    <3>3. CacheAt(s, "cur")'
      BY <1>1, <2>4, <2>5, <2>8, <3>2 DEF CacheAt
    <3> QED
      BY <3>1, <3>3 DEF Placed, PlaceNames
  <2>9. CASE CheckRoom(t)
    <3>1. PICK p \in {"allocate", "refused"} :
            pc[t] = "insert" /\ pc' = [pc EXCEPT ![t] = p] /\ UNCHANGED <<rpc, dworker, cur, pendingDecode>>
      BY <2>9 DEF CheckRoom, queueVars
    <3>2. InHands(s, t)'
      BY <1>0, <1>1, <2>1, <2>4, <3>1 DEF InHands, Decoding
    <3>3. \A r \in arrived : r # s => Placed(r)'
      BY <1>0, <2>7, <3>1
    <3> QED
      BY <1>0, <1>1, <1>2, <1>4, <2>1, <2>6, <2>8, <3>1, <3>2, <3>3 DEF Located
  <2>10. CASE SwapIn(t)
    <3>1. /\ t \in SwapThreads /\ pc' = [pc EXCEPT ![t] = "typeerror"]
          /\ dworker' = [dworker EXCEPT ![s] = Popped(s)]
          /\ UNCHANGED <<rpc, cur, pendingDecode>>
      BY <2>2, <2>10 DEF SwapIn, queueVars
    <3>2. InHands(s, t)'
      BY <1>1, <2>4, <3>1 DEF InHands, Decoding
    <3>3. \A r \in Requests : r # s => dworker'[r] = dworker[r]
      BY <1>0, <3>1
    <3>4. \A r \in arrived : r # s => Placed(r)'
      BY <1>0, <2>7, <3>1, <3>3
    <3> QED
      BY <1>0, <1>1, <1>2, <1>4, <2>1, <2>6, <2>8, <3>1, <3>2, <3>3, <3>4 DEF Located
  <2>11. CASE InsertKVCache(t)
    <3>1. /\ t \in TransferThreads /\ pc[t] = "allocate"
          /\ dworker' = [dworker EXCEPT ![s] = Popped(s)]
          /\ rpc' = [rpc EXCEPT ![s] = "inserted"]
          /\ \/ /\ HasRoom(s) /\ pendingDecode' = pendingDecode \cup {s}
                /\ pc' = [pc EXCEPT ![t] = "test"] /\ cur' = [cur EXCEPT ![t] = {}]
             \/ pc' = [pc EXCEPT ![t] = "dry"] /\ UNCHANGED <<pendingDecode, cur>>
      BY <2>2, <2>11 DEF InsertKVCache, QueueDecode
    <3>2. \A r \in Requests : r # s => rpc'[r] = rpc[r] /\ dworker'[r] = dworker[r]
      BY <1>0, <3>1
    <3>3. ASSUME NEW r \in arrived, r # s PROVE Placed(r)'
      <4>1. \A u \in Threads : cur'[u] = cur[u] \/ (u = t /\ cur'[u] = {})
        BY <1>0, <3>1
      <4>2. \A u \in Threads : r \in cur'[u] <=> r \in cur[u]
        BY <2>2, <3>3, <4>1
      <4>3. /\ \A u \in Threads : u # t => pc'[u] = pc[u]
            /\ r \in pendingDecode' <=> r \in pendingDecode
        BY <1>0, <3>1, <3>3
      <4> QED
        BY <1>0, <2>7, <3>2, <3>3, <4>2, <4>3
    <3>4. /\ gen[s] = 1 /\ s \in dmap /\ pworker[s] = 0 /\ s \notin ended /\ ptable[s] = 0
          /\ rpc'[s] = "inserted"
      BY <1>0, <2>1, <2>4, <3>1 DEF InHands
    <3>5. CASE pc' = [pc EXCEPT ![t] = "dry"] /\ UNCHANGED <<pendingDecode, cur>>
      <4>1. InHands(s, t)'
        BY <1>0, <1>1, <2>1, <3>1, <3>4, <3>5 DEF InHands
      <4> QED
        BY <1>0, <1>1, <1>2, <1>4, <2>1, <2>6, <2>8, <3>2, <3>3, <3>5, <4>1 DEF Located
    <3>6. CASE /\ HasRoom(s) /\ pendingDecode' = pendingDecode \cup {s}
               /\ pc' = [pc EXCEPT ![t] = "test"] /\ cur' = [cur EXCEPT ![t] = {}]
      <4>1. \A u \in Threads : s \notin cur'[u]
        BY <1>0, <2>2, <2>3, <3>6 DEF At
      <4>2. At(s, "pending")'
        BY <1>1, <2>1, <2>3, <2>4, <3>6, <4>1 DEF At, HasLeft, TooLong
      <4>3. dworker'[s] # 0
        <5>1. Blocks(s) # 0 /\ Popped(s) = Blocks(s)
          BY <2>4, <3>6, BlocksType, PoppedType DEF DSInv
        <5> QED
          BY <1>0, <2>4, <3>1, <5>1
      <4>4. s \notin Over
        <5>1. dstep.decodes \subseteq running \cup dstep.kept
          BY DEF DSInv, Shaped, DecodeShape
        <5>2. s \notin running /\ s \notin dstep.kept
          BY <2>3, <2>4 DEF At
        <5> QED
          BY <5>1, <5>2 DEF Over
      <4>5. CacheAt(s, "pending")'
        <5>1. s \notin Over'
          BY <1>1, <4>4 DEF Over, Ends
        <5> QED
          BY <1>1, <2>1, <3>4, <4>3, <5>1 DEF CacheAt, Decoding
      <4>6. Placed(s)'
        BY <4>2, <4>5 DEF Placed, PlaceNames
      <4> QED
        BY <1>0, <1>1, <1>2, <1>4, <2>1, <2>6, <3>2, <3>3, <4>6 DEF Located
    <3> QED
      BY <3>1, <3>5, <3>6
  <2> QED
    BY <1>9, <2>9, <2>10, <2>11
<1> QED
  BY <1>5, <1>6, <1>7, <1>8, <1>9 DEF ThreadNext

LEMMA LocatedInductive == DSInv /\ [Next]_vars => Located'
<1> SUFFICES ASSUME DSInv, [Next]_vars PROVE Located'
  OBVIOUS
<1>1. CASE UNCHANGED vars
  <2> USE <1>1 DEF vars, tokenVars, prefillVars, prefillCache, queueVars, decodeVars, threadVars
  <2>1. NothingTwice' /\ \A s \in Requests \ arrived' : Fresh(s)'
    BY DEF DSInv, Located, NothingTwice, Fresh, NoCache
  <2>2. ASSUME NEW s \in arrived, NEW l \in PlaceNames, At(s, l), CacheAt(s, l) PROVE Placed(s)'
    <3>1. At(s, l)'
      BY <2>2 DEF At, HasLeft, TooLong
    <3>2. Untouched(s)
      BY DEF Untouched
    <3>3. CacheAt(s, l)'
      BY <2>2, <3>2, CacheKept DEF Over, Ends
    <3> QED
      BY <3>1, <3>3 DEF Placed
  <2>3. \A s \in arrived : Placed(s)'
    BY <2>2 DEF DSInv, Located, Placed
  <2> QED
    BY <2>1, <2>3 DEF Located
<1>2. CASE DecodeNext
  BY <1>2, ScheduleLocated, StepLocated DEF DecodeNext
<1> QED
  BY <1>1, <1>2, PrefillLocated, CallsLocated, ThreadsLocated DEF Next

LEMMA DSInvInit == Init => DSInv
  BY InitTyped, InitShaped, InitLocated DEF DSInv

LEMMA DSInvNext == DSInv /\ [Next]_vars => DSInv'
  BY TypedInductive, ShapedInductive, LocatedInductive DEF DSInv

(* A request has not ended before its last token.                          *)
Tokens ==
  \A s \in Requests :
    /\ gen[s] <= shape[s].maxTokens
    /\ s \notin ended => gen[s] < shape[s].maxTokens

LEMMA TokensInductive == DSInv /\ Tokens /\ [Next]_vars => Tokens'
<1> SUFFICES ASSUME DSInv, Tokens, [Next]_vars PROVE Tokens'
  OBVIOUS
<1>0. /\ gen \in [Requests -> Nat] /\ arrived \subseteq Requests
      /\ \A s \in Requests : shape[s].maxTokens \in Nat \ {0}
  BY BlocksType DEF DSInv, StateTyped
<1>1. CASE UNCHANGED tokenVars
  BY <1>1 DEF Tokens, tokenVars
<1>2. ASSUME NEW s \in Requests, AddRequest(s) \/ ReadKVCache(s) \/ FreeKVCache(s) \/ AddMetadata(s)
      PROVE  UNCHANGED tokenVars
  BY <1>2 DEF AddRequest, ReadKVCache, FreeKVCache, AddMetadata, RpcFrame, tokenVars
<1>3. ASSUME NEW t \in Threads, ThreadNext(t) PROVE UNCHANGED tokenVars
  BY <1>3 DEF ThreadNext, TestQueue, GetMetadata, WaitReady, GetPreempted, CheckRoom,
              InsertKVCache, SwapIn, ThreadFrame, tokenVars
<1>4. ASSUME NEW stop, PrefillExecute(stop) PROVE Tokens'
  <2>1. /\ shape' = shape /\ pphase = "execute"
        /\ \A r \in Requests :
             /\ gen'[r] = IF r \in pstep.batch THEN 1 ELSE gen[r]
             /\ r \in ended' <=> r \in ended \/ (r \in pstep.batch /\ Ends(r, stop))
    BY <1>4 DEF PrefillExecute, DSInv, StateTyped
  <2>2. \A r \in pstep.batch : gen[r] = 0
    <3>1. pstep.batch \subseteq arrived
      BY DEF DSInv, StateTyped
    <3> QED
      BY <2>1, <3>1 DEF DSInv, Located, Placed, At, CacheAt, InBatch
  <2> QED
    BY <1>0, <2>1, <2>2 DEF Tokens, Ends
<1>5. CASE CompleteDecodes
  <2>1. /\ shape' = shape /\ dphase = "complete" /\ ended' = ended \cup Over
        /\ \A r \in Requests : gen'[r] = IF r \in dstep.decodes THEN gen[r] + 1 ELSE gen[r]
    BY <1>5 DEF CompleteDecodes, DecodeFrame
  <2>2. \A r \in dstep.decodes : r \notin ended
    <3>1. dstep.decodes \subseteq running /\ running \subseteq arrived
      BY <2>1 DEF DSInv, Shaped, DecodeShape, StateTyped
    <3> QED
      BY <3>1 DEF DSInv, Located, Placed, At, CacheAt, Decoding
  <2> QED
    BY <1>0, <2>1, <2>2 DEF Tokens, Over, Ends
<1>6. CASE DecodeNext
  <2>1. UNCHANGED tokenVars \/ CompleteDecodes
    BY <1>6 DEF DecodeNext, BeginStep, ScheduleDecode, Preempt, EndDecodes, AdmitMetadata,
                EndEmptyStep, SendStep, ExecuteDecodes, DecodeFrame, tokenVars
  <2> QED
    BY <1>1, <1>5, <2>1
<1>7. CASE PrefillNext
  <2>1. UNCHANGED tokenVars \/ \E stop : PrefillExecute(stop)
    BY <1>7 DEF PrefillNext, PrefillTake, PrefillSchedule, PrefillComplete, tokenVars
  <2> QED
    BY <1>1, <1>4, <2>1
<1> QED
  BY <1>1, <1>2, <1>3, <1>6, <1>7 DEF Next, vars

LEMMA InitTokens == Init => Tokens
<1> SUFFICES ASSUME Init PROVE Tokens
  OBVIOUS
<1>1. \A s \in Requests : shape[s].maxTokens \in Nat \ {0}
  BY Constants DEF Init
<1> QED
  BY <1>1 DEF Init, Tokens

(* Every state has the types that DSTypeOK says: requests that the run     *)
(* thread of the decode instance handles are in its engine's seq_map, a    *)
(* request ends after it arrived and has no more tokens than it may have.  *)
THEOREM DSTypeCorrect == Spec => []DSTypeOK
<1>1. Init => DSInv /\ Tokens
  BY DSInvInit, InitTokens
<1>2. DSInv /\ Tokens /\ [Next]_vars => (DSInv /\ Tokens)'
  BY DSInvNext, TokensInductive
<1>3. ASSUME DSInv, Tokens PROVE DSTypeOK
  <2>1. running \cup pendingDecode \cup dstep.kept \subseteq dmap
    <3>1. running \cup pendingDecode \cup dstep.kept \subseteq arrived
      BY <1>3 DEF DSInv, StateTyped
    <3> QED
      BY <1>3, <3>1 DEF DSInv, Located, Placed, At, CacheAt
  <2>2. dstep.decodes \subseteq dmap /\ dstep.stop \subseteq dmap
    BY <1>3, <2>1 DEF DSInv, Shaped, DecodeShape
  <2>3. dstep \in [kept : SUBSET dmap, decodes : SUBSET dmap,
                   preempted : SUBSET arrived, stop : SUBSET dmap]
    BY <1>3, <2>1, <2>2 DEF DSInv, StateTyped
  <2> QED
    BY <1>3, <2>1, <2>3 DEF DSTypeOK, DSInv, StateTyped, Tokens
<1> QED
  BY <1>1, <1>2, <1>3, PTL DEF Spec

(* A request is in exactly one list, queue, call or pair of hands until it *)
(* leaves, however the transfer calls, the two run threads and the         *)
(* insertion threads interleave (decode_scheduler.py:76-158,               *)
(* decode_instance.py:156-192).                                            *)
THEOREM DSHandedOverOnce == Spec => []HandedOverOnce
<1>1. ASSUME DSInv, NEW s \in arrived
      PROVE  IF HasLeft(s) THEN Whereabouts(s) = {} ELSE \E x \in Whereabouts(s) : Whereabouts(s) = {x}
  <2>1. PICK l \in PlaceNames : At(s, l)
    BY <1>1 DEF DSInv, Located, Placed
  <2>2. ASSUME NEW x \in Sites, Holds(s, x[1], x[2])
        PROVE  /\ x[1] = l /\ x = <<x[1], x[2]>> /\ l # "left"
               /\ l \in {"waiting", "batch", "metas"} => x[2] = "prefill"
               /\ l \in {"kvmeta", "transfer", "insert", "preempted", "pending", "running", "kept"} =>
                    x[2] = "decode"
               /\ l = "refs" => x[2] \in TransferThreads /\ s \in refs[x[2]]
               /\ l = "cur" => x[2] \in Threads /\ s \in cur[x[2]]
    <3>1. PICK p, o : x = <<p, o>> /\ Holds(s, p, o) /\
                      \/ p \in {"waiting", "batch", "metas"} /\ o = "prefill"
                      \/ /\ p \in {"kvmeta", "transfer", "insert", "preempted", "pending", "running", "kept"}
                         /\ o = "decode"
                      \/ p = "refs" /\ o \in TransferThreads
                      \/ p = "cur" /\ o \in Threads
      BY <2>2 DEF Sites
    <3>2. p = l /\ l # "left"
      BY <2>1, <3>1 DEF At, Holds
    <3> QED
      BY <3>1, <3>2 DEF Holds
  <2>3. HasLeft(s) <=> l = "left"
    BY <2>1 DEF At
  <2>4. CASE l = "left"
    BY <2>2, <2>3, <2>4 DEF Whereabouts
  <2>5. CASE l # "left"
    <3>1. PICK o : <<l, o>> \in Sites /\ Holds(s, l, o)
      <4>1. CASE l \in {"waiting", "batch", "metas"}
        <5>1. <<l, "prefill">> \in Sites /\ Holds(s, l, "prefill")
          BY <2>1, <4>1 DEF At, Holds, Sites
        <5> QED
          BY <5>1
      <4>2. CASE l \in {"kvmeta", "transfer", "insert", "preempted", "pending", "running", "kept"}
        <5>1. <<l, "decode">> \in Sites /\ Holds(s, l, "decode")
          BY <2>1, <4>2 DEF At, Holds, Sites
        <5> QED
          BY <5>1
      <4>3. CASE l = "refs"
        <5>1. PICK t \in TransferThreads : s \in refs[t]
          BY <2>1, <4>3 DEF At
        <5> QED
          BY <4>3, <5>1 DEF Holds, Sites
      <4>4. CASE l = "cur"
        <5>1. PICK t \in Threads : s \in cur[t]
          BY <2>1, <4>4 DEF At
        <5> QED
          BY <4>4, <5>1 DEF Holds, Sites
      <4> QED
        BY <2>5, <4>1, <4>2, <4>3, <4>4 DEF PlaceNames
    <3>2. <<l, o>> \in Whereabouts(s)
      BY <3>1 DEF Whereabouts
    <3>3. ASSUME NEW x \in Whereabouts(s) PROVE x = <<l, o>>
      <4>1. x \in Sites /\ Holds(s, x[1], x[2])
        BY DEF Whereabouts
      <4>2. x[2] = o
        <5> DEFINE y == <<l, o>>
        <5>1. y \in Sites /\ Holds(s, y[1], y[2]) /\ y[2] = o
          BY <3>1
        <5> HIDE DEF y
        <5>2. /\ \A t, u \in TransferThreads : s \in refs[t] /\ s \in refs[u] => t = u
              /\ \A t, u \in Threads : s \in cur[t] /\ s \in cur[u] => t = u
          BY <2>1 DEF At
        <5>3. x[2] = y[2]
          BY <2>2, <2>5, <4>1, <5>1, <5>2 DEF PlaceNames
        <5> QED
          BY <5>1, <5>3
      <4>3. x = <<x[1], x[2]>> /\ x[1] = l
        BY <2>2, <4>1
      <4> QED
        BY <4>2, <4>3
    <3>4. Whereabouts(s) = {<<l, o>>}
      BY <3>2, <3>3
    <3> QED
      BY <2>3, <2>5, <3>2, <3>4
  <2> QED
    BY <2>4, <2>5
<1>2. DSInv => HandedOverOnce
  BY <1>1 DEF HandedOverOnce, DSInv, Located
<1> QED
  BY <1>2, DSInvInit, DSInvNext, PTL DEF Spec

(* The cache of a request that has tokens to come is on the prefill        *)
(* workers, in the answer of transfer_kv_cache or on the decode instance,  *)
(* and never on two of them or lost; a request that has ended leaves no    *)
(* blocks behind (prefill_instance.py:96-107, base_worker.py:236-281).     *)
THEOREM DSCacheOnOneSide == Spec => []CacheOnOneSide
<1>1. ASSUME DSInv, NEW s \in Requests, s \notin arrived
      PROVE  gen[s] = 0 /\ s \notin ended
  BY <1>1 DEF DSInv, Located, Fresh
<1>2. ASSUME DSInv, NEW s \in arrived, gen[s] > 0, s \notin ended,
             ~(dphase = "complete" /\ s \in Over),
             \A t \in Threads : pc[t] = "dry" => s \notin cur[t]
      PROVE  \E x \in Sides(s) : Sides(s) = {x}
  <2>1. PICK l \in PlaceNames : At(s, l) /\ CacheAt(s, l)
    BY <1>2 DEF DSInv, Located, Placed
  <2>2. /\ ptable \in [Requests -> Nat] /\ pworker \in [Requests -> Nat] /\ dworker \in [Requests -> Nat]
        /\ s \in Requests /\ gen[s] \in Nat /\ SwapThreads \subseteq Threads
        /\ TransferThreads \cap SwapThreads = {} /\ Threads = TransferThreads \cup SwapThreads
    BY <1>2, Constants DEF DSInv, StateTyped, Threads
  <2>3. SwappedOut(s) <=> l \in {"preempted", "insert"} \/ \E t \in SwapThreads : s \in cur[t]
    BY <2>1 DEF At, SwappedOut
  <2>4. (\E t \in SwapThreads : s \in cur[t]) => l = "cur"
    BY <2>1, <2>2 DEF At
  <2>5. \/ pworker[s] > 0 /\ rpc[s] \notin {"read", "answered"} /\ dworker[s] = 0 /\ ~SwappedOut(s)
        \/ pworker[s] = 0 /\ rpc[s] \in {"read", "answered"} /\ dworker[s] = 0 /\ ~SwappedOut(s)
        \/ pworker[s] = 0 /\ rpc[s] \notin {"read", "answered"} /\ (dworker[s] > 0 \/ SwappedOut(s))
    <3>1. CASE l \in {"waiting", "left"}
      BY <1>2, <2>1, <2>2, <3>1 DEF CacheAt, Fresh
    <3>2. CASE l = "batch"
      BY <1>2, <2>1, <2>2, <2>3, <2>4, <3>2 DEF CacheAt, InBatch
    <3>3. CASE l \in {"metas", "kvmeta", "transfer"}
      BY <1>2, <2>1, <2>2, <2>3, <2>4, <3>3 DEF CacheAt, HandedOver, OnPrefill
    <3>4. CASE l = "refs"
      BY <1>2, <2>1, <2>2, <2>3, <2>4, <3>4 DEF CacheAt, Answering, OnPrefill
    <3>5. CASE l \in {"pending", "running", "kept"}
      BY <1>2, <2>1, <2>2, <3>5 DEF CacheAt, Decoding
    <3>6. CASE l \in {"preempted", "insert"}
      BY <2>1, <2>3, <3>6 DEF CacheAt, Decoding
    <3>7. CASE l = "cur"
      <4>1. PICK t \in Threads : s \in cur[t] /\ InHands(s, t)
        BY <2>1, <3>7 DEF At, CacheAt
      <4>2. t \notin SwapThreads => ~SwappedOut(s)
        BY <2>1, <2>2, <2>3, <3>7, <4>1 DEF At
      <4> QED
        BY <1>2, <2>2, <2>3, <4>1, <4>2 DEF InHands, Decoding
    <3> QED
      BY <3>1, <3>2, <3>3, <3>4, <3>5, <3>6, <3>7 DEF PlaceNames
  <2>6. Sides(s) = {"prefill"} \/ Sides(s) = {"answer"} \/ Sides(s) = {"decode"}
    BY <2>2, <2>5 DEF Sides
  <2> QED
    BY <2>6
<1>3. ASSUME DSInv, NEW s \in arrived, s \in ended
      PROVE  /\ pworker[s] = 0 /\ dworker[s] = 0
             /\ gen[s] > 1 => ptable[s] = 0 /\ dtable[s] = 0
  <2>1. PICK l \in PlaceNames : At(s, l) /\ CacheAt(s, l)
    BY <1>3 DEF DSInv, Located, Placed
  <2>2. gen[s] \in Nat /\ s \in Requests
    BY <1>3 DEF DSInv, StateTyped
  <2>3. CASE l = "cur"
    <3>1. PICK t \in Threads : InHands(s, t)
      BY <2>1, <2>3 DEF At, CacheAt
    <3> QED
      BY <1>3, <3>1 DEF InHands, Decoding
  <2>4. CASE l # "cur"
    BY <1>3, <2>1, <2>2, <2>4
       DEF PlaceNames, CacheAt, Fresh, InBatch, HandedOver, OnPrefill, Answering, Decoding, NoCache
  <2> QED
    BY <2>3, <2>4
<1>4. DSInv => CacheOnOneSide
  BY <1>1, <1>2, <1>3 DEF CacheOnOneSide
<1> QED
  BY <1>4, DSInvInit, DSInvNext, PTL DEF Spec

-----------------------------------------------------------------------------
(* The prefill workers hold no more than the prefill scheduler has given,  *)
(* and what it gave to the batch they do not hold yet.                     *)
PrefillRoom ==
  pphase \in {"schedule", "execute"} /\ pstep.batch # {} =>
    PrefillBlocks - Used(ptable) >= WatermarkBlocks

LEMMA WorkersHoldLess ==
  ASSUME DSInv, NEW s \in Requests
  PROVE  pworker[s] <= ptable[s]
<1>1. ptable[s] \in Nat /\ pworker[s] \in Nat
  BY DEF DSInv, StateTyped
<1>2. CASE s \notin arrived
  BY <1>1, <1>2 DEF DSInv, Located, Fresh, NoCache
<1>3. ASSUME s \in arrived, NEW l \in PlaceNames, At(s, l), CacheAt(s, l)
      PROVE  pworker[s] <= ptable[s]
  <2>1. CASE l = "cur"
    <3>1. PICK t \in Threads : InHands(s, t)
      BY <1>3, <2>1 DEF At, CacheAt
    <3> QED
      BY <1>1, <3>1 DEF InHands, Decoding
  <2>2. CASE l # "cur"
    BY <1>1, <1>3, <2>2
       DEF PlaceNames, CacheAt, Fresh, InBatch, HandedOver, OnPrefill, Answering, Decoding, NoCache
  <2> QED
    BY <2>1, <2>2
<1> QED
  BY <1>2, <1>3 DEF DSInv, Located, Placed

LEMMA UsedUpdatePrefill ==
  ASSUME StateTyped, NEW s \in Requests, NEW n \in Nat, ptable' = [ptable EXCEPT ![s] = n]
  PROVE  /\ Used(ptable)' = Used(ptable) + n - ptable[s]
         /\ Used(ptable) \in Nat /\ ptable[s] \in Nat
<1>1. ptable \in [Requests -> Nat]
  BY DEF StateTyped
<1>2. Used([ptable EXCEPT ![s] = n]) = Used(ptable) + n - ptable[s]
  BY <1>1, UsedUpdate
<1>3. Used(ptable)' = Used([ptable EXCEPT ![s] = n])
  BY DEF Used
<1> QED
  BY <1>1, <1>2, <1>3, UsedType

LEMMA PrefillRoomInductive == DSInv /\ PrefillRoom /\ [Next]_vars => PrefillRoom'
<1> SUFFICES ASSUME DSInv, PrefillRoom, [Next]_vars PROVE PrefillRoom'
  OBVIOUS
<1>0. /\ PrefillBlocks \in Nat /\ WatermarkBlocks \in Nat /\ Used(ptable) \in Nat
      /\ pwaiting \subseteq Requests
      /\ pstep \in [batch : SUBSET arrived, ignored : SUBSET arrived]
  BY Constants, UsedType DEF DSInv, StateTyped
<1>1. ASSUME UNCHANGED <<pphase, pstep, ptable>> PROVE PrefillRoom'
  BY <1>1 DEF PrefillRoom, Used
<1>2. CASE PrefillTake
  <2>0. Min(pwaiting) \in pwaiting
    BY <1>2, EndsOfList DEF PrefillTake, DSInv, StateTyped
  <2>1. PICK s \in pwaiting :
          /\ pphase \in {"idle", "schedule"}
          /\ \/ pstep' = [pstep EXCEPT !.ignored = @ \cup {s}] /\ ptable' = ptable
             \/ PrefillFits(s) /\ ptable' = [ptable EXCEPT ![s] = Blocks(s)]
    BY <1>2, <2>0 DEF PrefillTake
  <2>2. CASE pstep' = [pstep EXCEPT !.ignored = @ \cup {s}] /\ ptable' = ptable
    <3>1. pstep'.batch = pstep.batch /\ Used(ptable)' = Used(ptable)
      BY <1>0, <2>2 DEF Used
    <3>2. pphase = "idle" => pstep.batch = {}
      BY DEF DSInv, Shaped, PrefillShape, NoPrefill
    <3> QED
      BY <2>1, <3>1, <3>2 DEF PrefillRoom
  <2>3. CASE PrefillFits(s) /\ ptable' = [ptable EXCEPT ![s] = Blocks(s)]
    <3>1. s \in arrived /\ s \in Requests /\ Blocks(s) \in Nat
      BY <1>0, BlocksType DEF DSInv, StateTyped
    <3>2. ptable[s] = 0
      BY <3>1 DEF DSInv, Located, Placed, At, CacheAt, Fresh, NoCache
    <3>3. Used(ptable)' = Used(ptable) + Blocks(s)
      <4>1. ASSUME NEW n \in Nat, n = Blocks(s) PROVE Used(ptable)' = Used(ptable) + n
        <5>1. ptable' = [ptable EXCEPT ![s] = n] /\ StateTyped
          BY <2>3, <4>1 DEF DSInv
        <5>2. Used(ptable)' = Used(ptable) + n - ptable[s]
          BY <3>1, <5>1, UsedUpdatePrefill
        <5> QED
          BY <1>0, <3>2, <5>2
      <4> QED
        BY <3>1, <4>1
    <3> QED
      BY <1>0, <2>3, <3>1, <3>3 DEF PrefillFits, PrefillRoom
  <2> QED
    BY <2>1, <2>2, <2>3
<1>3. CASE PrefillSchedule
  <2>1. /\ pphase = "schedule" /\ pstep'.batch = pstep.batch /\ ptable' = ptable
    BY <1>3 DEF PrefillSchedule, NoPrefill, prefillCache
  <2> QED
    BY <2>1 DEF PrefillRoom, Used
<1>4. ASSUME NEW stop, PrefillExecute(stop) PROVE PrefillRoom'
  BY <1>4 DEF PrefillExecute, PrefillRoom
<1>5. CASE PrefillComplete
  BY <1>5 DEF PrefillComplete, PrefillRoom
<1>6. ASSUME NEW s \in Requests, AddRequest(s) \/ ReadKVCache(s) \/ AddMetadata(s) PROVE PrefillRoom'
  BY <1>1, <1>6 DEF AddRequest, ReadKVCache, AddMetadata, RpcFrame, prefillVars, prefillCache
<1>7. ASSUME NEW s \in Requests, FreeKVCache(s) PROVE PrefillRoom'
  <2>1. /\ ptable' = [ptable EXCEPT ![s] = 0] /\ UNCHANGED <<pphase, pstep>>
    BY <1>7 DEF FreeKVCache, RpcFrame, prefillVars
  <2>2. /\ Used(ptable)' = Used(ptable) + 0 - ptable[s] /\ ptable[s] \in Nat
    BY <2>1, UsedUpdatePrefill DEF DSInv
  <2> QED
    BY <1>0, <2>1, <2>2 DEF PrefillRoom
<1>8. CASE DecodeNext
  <2>1. UNCHANGED <<prefillVars, prefillCache>>
    <3>1. \/ UNCHANGED <<prefillVars, prefillCache>> \/ AdmitMetadata \/ CompleteDecodes
      BY <1>8 DEF DecodeNext, BeginStep, ScheduleDecode, Preempt, EndDecodes,
                  EndEmptyStep, SendStep, ExecuteDecodes, DecodeFrame
    <3> QED
      BY <3>1 DEF AdmitMetadata, CompleteDecodes, DecodeFrame
  <2> QED
    BY <1>1, <2>1 DEF prefillVars, prefillCache
<1>9. ASSUME NEW t \in Threads, ThreadNext(t) PROVE PrefillRoom'
  <2>1. UNCHANGED <<prefillVars, prefillCache>>
    BY <1>9 DEF ThreadNext, TestQueue, GetMetadata, WaitReady, GetPreempted, CheckRoom,
                InsertKVCache, SwapIn, ThreadFrame
  <2> QED
    BY <1>1, <2>1 DEF prefillVars, prefillCache
<1>10. CASE UNCHANGED vars
  BY <1>1, <1>10 DEF vars, prefillVars, prefillCache
<1> QED
  BY <1>2, <1>3, <1>4, <1>5, <1>6, <1>7, <1>8, <1>9, <1>10 DEF Next, PrefillNext

(* The prefill workers can allocate what the scheduler sends them although *)
(* transfer_kv_cache returns blocks in the middle of a step: it frees the  *)
(* workers' before the scheduler's (prefill_instance.py:96-107,            *)
(* worker_sequence_manager.py:55-58).                                      *)
THEOREM DSPrefillAssertions == Spec => []PrefillAssertions
<1>1. Init => DSInv /\ PrefillRoom
  BY DSInvInit DEF Init, PrefillRoom
<1>2. DSInv /\ PrefillRoom /\ [Next]_vars => (DSInv /\ PrefillRoom)'
  BY DSInvNext, PrefillRoomInductive
<1>3. ASSUME DSInv, PrefillRoom, pphase = "execute" PROVE WorkersFit
  <2> DEFINE B == pstep.batch
             needed == [s \in Requests |-> Blocks(s)]
             Sum(f, S) == SumFunctionOnSet(f, S)
  <2>1. /\ IsFiniteSet(Requests) /\ B \in SUBSET Requests /\ B # {}
        /\ \A s \in Requests : ptable[s] \in Nat /\ pworker[s] \in Nat /\ Blocks(s) \in Nat
    BY <1>3, Constants, BlocksType DEF DSInv, Shaped, PrefillShape, StateTyped
  <2>2. \A s \in B : ptable[s] = needed[s] /\ pworker[s] = 0
    <3>1. B \subseteq arrived
      BY <1>3 DEF DSInv, StateTyped
    <3> QED
      BY <1>3, <2>1, <3>1 DEF DSInv, Located, Placed, At, CacheAt, InBatch
  <2>3. \A s \in Requests : ptable[s] \in Int /\ pworker[s] \in Int /\ pworker[s] <= ptable[s]
    BY <1>3, <2>1, WorkersHoldLess
  <2>4. PrefillBlocks - Sum(ptable, Requests) >= WatermarkBlocks
    BY <1>3, <2>1 DEF PrefillRoom, Used
  <2>5. \A s \in B : ptable[s] \in Int /\ ptable[s] = needed[s]
    BY <2>1, <2>2
  <2> HIDE DEF needed
  <2>6. IsFiniteSet(B) /\ IsFiniteSet(Requests \ B)
    BY <2>1, FS_Subset
  <2>7. Sum(ptable, Requests) = Sum(ptable, B) + Sum(ptable, Requests \ B)
    BY ONLY <2>1, <2>3, SumSplit
  <2>8. Sum(pworker, Requests) = Sum(pworker, B) + Sum(pworker, Requests \ B)
    BY ONLY <2>1, <2>3, SumSplit
  <2>9. Sum(pworker, B) = 0
    BY ONLY <2>2, <2>6, SumZero
  <2>10. Sum(ptable, B) = Sum(needed, B)
    BY ONLY <2>5, <2>6, SumAgree
  <2>11. Sum(pworker, Requests \ B) <= Sum(ptable, Requests \ B)
    <3>1. \A s \in Requests \ B : ptable[s] \in Int /\ pworker[s] \in Int /\ pworker[s] <= ptable[s]
      BY <2>3
    <3> QED
      BY ONLY <2>6, <3>1, SumMonotone
  <2>12. /\ Sum(ptable, B) \in Int /\ Sum(ptable, Requests \ B) \in Int
         /\ Sum(pworker, Requests \ B) \in Int
    <3>1. B \in SUBSET Requests /\ Requests \ B \in SUBSET Requests
      BY <2>1
    <3> QED
      BY ONLY <2>1, <2>3, <3>1, SumInt
  <2>13. PrefillBlocks - Sum(pworker, Requests) - Sum(needed, B) >= WatermarkBlocks
    BY <2>4, <2>7, <2>8, <2>9, <2>10, <2>11, <2>12, Constants
  <2> QED
    BY <2>13 DEF WorkersFit, Used, needed
<1>4. DSInv /\ PrefillRoom => PrefillAssertions
  BY <1>3 DEF PrefillAssertions
<1> QED
  BY <1>1, <1>2, <1>4, PTL DEF Spec

-----------------------------------------------------------------------------
(* What the decode scheduler has given and what the workers hold.  Promised *)
(* is the scheduler's table, except that in the middle of a step the       *)
(* sequences it has gone over count as the workers still have them.        *)
InStep == dphase \in {"decode", "admit", "execute"}

Promised ==
  [s \in Requests |-> IF InStep /\ s \in dstep.preempted \cup dstep.decodes
                      THEN dworker[s] ELSE dtable[s]]

Agrees(s) ==
  /\ dworker[s] <= Promised[s]
  /\ InStep /\ s \in dstep.decodes => dtable[s] = AppendSlot(dworker[s], s)
  /\ s \in (running \cup pendingDecode) \ dstep.decodes => dworker[s] = dtable[s]
  /\ dphase = "complete" /\ s \in dstep.decodes \ Over => dworker[s] = dtable[s]
  /\ s \in Range(preemptedSeqs) \cup Range(insertQueue) /\ ~(InStep /\ s \in dstep.preempted) =>
       dworker[s] = 0
  /\ \A t \in SwapThreads : s \in cur[t] /\ pc[t] \in {"insert", "allocate"} => dworker[s] = 0

Replayed ==
  /\ Used(Promised) <= DecodeBlocks
  /\ \A s \in Requests : Agrees(s)
  /\ \A t \in TransferThreads : pc[t] \notin {"refused", "dry"}

(* The inductive form of InsertsFitIfReplayed.                             *)
DecodeRoom ==
  /\ Used(dtable) <= DecodeBlocks
  /\ dphase \in {"decode", "admit"} => dstep.preempted \subseteq dmap
  /\ Unreplayed = {} => Replayed

(* Where the requests of a step are.                                       *)
LEMMA StepPlaces ==
  ASSUME DSInv, NEW s \in Requests
  PROVE  /\ s \in dstep.decodes => At(s, "running") \/ At(s, "kept")
         /\ s \in dstep.preempted => At(s, "preempted")
<1>1. \A r \in arrived : \E l \in PlaceNames : At(r, l)
  BY DEF DSInv, Located, Placed
<1>2. /\ s \in dstep.decodes => s \in arrived /\ s \in running \cup dstep.kept
      /\ s \in dstep.preempted => s \in arrived /\ s \in Range(preemptedSeqs)
  BY DEF DSInv, StateTyped, Shaped, DecodeShape
<1> QED
  BY <1>1, <1>2 DEF At

(* A preemption that the workers have not heard of stays one.              *)
LEMMA UnreplayedGrows == DSInv /\ [Next]_vars => Unreplayed \subseteq Unreplayed'
<1> SUFFICES ASSUME DSInv, [Next]_vars, NEW s \in Unreplayed PROVE s \in Unreplayed'
  OBVIOUS
<1>0. /\ s \in dmap /\ s \notin dstep.preempted /\ SwappedOut(s)
      /\ preemptedSeqs \in Seq(arrived) /\ insertQueue \in Seq(arrived)
      /\ cur \in [Threads -> SUBSET arrived] /\ s \in arrived /\ s \in Requests
      /\ TransferThreads \cap SwapThreads = {} /\ SwapThreads \subseteq Threads
      /\ running \subseteq arrived /\ arrived \subseteq Requests
      /\ dstep \in [kept : SUBSET arrived, decodes : SUBSET arrived,
                    preempted : SUBSET arrived, stop : SUBSET arrived]
  BY Constants DEF Unreplayed, DSInv, StateTyped, Threads
<1>1. s \notin running /\ s \notin dstep.decodes
  <2>1. PICK l \in PlaceNames : At(s, l)
    BY <1>0 DEF DSInv, Located, Placed
  <2>2. s \notin running /\ s \notin dstep.kept
    BY <1>0, <2>1 DEF SwappedOut, At
  <2> QED
    BY <2>2 DEF DSInv, Shaped, DecodeShape
<1>2. ASSUME s \in dmap', s \notin dstep'.preempted,
             Range(preemptedSeqs) \cup Range(insertQueue)
               \subseteq Range(preemptedSeqs') \cup Range(insertQueue'),
             UNCHANGED cur
      PROVE  s \in Unreplayed'
  BY <1>0, <1>2 DEF Unreplayed, SwappedOut
<1>3. CASE PrefillNext
  <2>1. UNCHANGED <<dmap, dstep, preemptedSeqs, insertQueue, cur>>
    BY <1>3 DEF PrefillNext, PrefillTake, PrefillSchedule, PrefillExecute, PrefillComplete,
                PrefillFrame, decodeVars, queueVars, threadVars
  <2> QED
    BY <1>0, <1>2, <2>1
<1>4. ASSUME NEW r \in Requests, AddRequest(r) \/ ReadKVCache(r) \/ FreeKVCache(r) \/ AddMetadata(r)
      PROVE  s \in Unreplayed'
  <2>1. UNCHANGED <<dmap, dstep, preemptedSeqs, insertQueue, cur>>
    BY <1>4 DEF AddRequest, ReadKVCache, FreeKVCache, AddMetadata, RpcFrame, PrefillFrame,
                decodeVars, queueVars, threadVars
  <2> QED
    BY <1>0, <1>2, <2>1
<1>5. CASE BeginStep \/ ScheduleDecode \/ AdmitMetadata \/ ExecuteDecodes
  <2>1. /\ UNCHANGED <<dmap, preemptedSeqs, insertQueue, cur>>
        /\ dstep' = dstep \/ \E r : dstep' = [dstep EXCEPT !.kept = dstep.kept \cup {r},
                                                           !.decodes = dstep.decodes \cup {r}]
    BY <1>5 DEF BeginStep, ScheduleDecode, AdmitMetadata, ExecuteDecodes,
                DecodeFrame, queueVars, threadVars
  <2>2. dstep'.preempted = dstep.preempted
    BY <1>0, <2>1
  <2> QED
    BY <1>0, <1>2, <2>1, <2>2
<1>6. CASE Preempt
  <2>0. Max(running) \in running
    BY <1>0, <1>6, EndsOfList DEF Preempt, MoreDecodes
  <2>1. PICK v \in running :
          /\ dstep' = [dstep EXCEPT !.preempted = dstep.preempted \cup {v}]
          /\ preemptedSeqs' = Append(preemptedSeqs, v)
          /\ UNCHANGED <<dmap, insertQueue, cur>>
    BY <1>6, <2>0 DEF Preempt, DecodeFrame, queueVars, threadVars
  <2>2. dstep'.preempted = dstep.preempted \cup {v}
    BY <1>0, <2>1
  <2>3. Range(preemptedSeqs') = Range(preemptedSeqs) \cup {v}
    BY <1>0, <2>1, RangeAppend
  <2> QED
    BY <1>0, <1>1, <1>2, <2>1, <2>2, <2>3
<1>7. CASE EndDecodes
  <2>1. dstep' = [dstep EXCEPT !.kept = {}] /\ UNCHANGED <<dmap, cur>>
    BY <1>7 DEF EndDecodes, DecodeFrame, threadVars
  <2>2. dstep'.preempted = dstep.preempted
    BY <1>0, <2>1
  <2>3. CASE UNCHANGED <<preemptedSeqs, insertQueue>>
    BY <1>0, <1>2, <2>1, <2>2, <2>3
  <2>4. CASE ~UNCHANGED <<preemptedSeqs, insertQueue>>
    <3>1. /\ preemptedSeqs # <<>> /\ preemptedSeqs' = Tail(preemptedSeqs)
          /\ insertQueue' = Append(insertQueue, Head(preemptedSeqs))
      BY <1>7, <2>4 DEF EndDecodes
    <3>2. /\ Range(preemptedSeqs') = Range(preemptedSeqs) \ {Head(preemptedSeqs)}
          /\ Range(insertQueue') = Range(insertQueue) \cup {Head(preemptedSeqs)}
      BY <1>0, <3>1, RangeTail, RangeAppend DEF DSInv, Located, NothingTwice
    <3> QED
      BY <1>0, <1>2, <2>1, <2>2, <3>2
  <2> QED
    BY <2>3, <2>4
<1>8. CASE EndEmptyStep \/ CompleteDecodes \/ \E stop \in Stops(dstep.decodes) : SendStep(stop)
  <2>1. /\ UNCHANGED <<preemptedSeqs, insertQueue, cur>>
        /\ \/ dmap' = dmap /\ dstep' = NoDecode
           \/ dmap' = dmap \ Over /\ dstep' = NoDecode
           \/ dmap' = dmap \ dstep.preempted /\ \E stop : dstep' = [dstep EXCEPT !.stop = stop]
    BY <1>8 DEF EndEmptyStep, CompleteDecodes, SendStep, DecodeFrame, queueVars, threadVars
  <2>2. s \in dmap' /\ s \notin dstep'.preempted
    BY <1>0, <1>1, <2>1 DEF Over, NoDecode
  <2> QED
    BY <1>2, <2>1, <2>2
<1>9. ASSUME NEW t \in Threads, ThreadNext(t) PROVE s \in Unreplayed'
  <2>1. UNCHANGED <<dstep, preemptedSeqs>> /\ dmap \subseteq dmap'
    BY <1>9 DEF ThreadNext, TestQueue, GetMetadata, WaitReady, GetPreempted, CheckRoom,
                InsertKVCache, SwapIn, ThreadFrame, decodeVars
  <2>2. CASE t \in TransferThreads
    <3>1. insertQueue' = insertQueue /\ \A u \in SwapThreads : cur'[u] = cur[u]
      BY <1>0, <1>9, <2>2 DEF ThreadNext, TestQueue, GetMetadata, WaitReady, CheckRoom,
                InsertKVCache, SwapIn, queueVars
    <3> QED
      BY <1>0, <2>1, <3>1 DEF Unreplayed, SwappedOut
  <2>3. CASE t \in SwapThreads /\ GetPreempted(t)
    <3>1. /\ insertQueue # <<>> /\ insertQueue' = Tail(insertQueue) /\ pc[t] = "test"
          /\ cur'[t] = {Head(insertQueue)} /\ \A u \in Threads : u # t => cur'[u] = cur[u]
      BY <1>0, <2>3 DEF GetPreempted
    <3>2. Range(insertQueue') = Range(insertQueue) \ {Head(insertQueue)}
      BY <1>0, <3>1, RangeTail DEF DSInv, Located, NothingTwice
    <3>3. cur[t] = {}
      BY <2>3, <3>1 DEF DSInv, Shaped, HandsShape, EmptyHanded
    <3> QED
      BY <1>0, <2>1, <2>3, <3>1, <3>2, <3>3 DEF Unreplayed, SwappedOut
  <2>4. CASE t \in SwapThreads /\ (CheckRoom(t) \/ SwapIn(t))
    <3>1. insertQueue' = insertQueue /\ cur' = cur
      BY <2>4 DEF CheckRoom, SwapIn, queueVars
    <3> QED
      BY <1>0, <1>2, <2>1, <3>1
  <2> QED
    BY <1>0, <1>9, <2>2, <2>3, <2>4 DEF ThreadNext, Threads, InsertKVCache
<1>10. CASE UNCHANGED vars
  <2>1. UNCHANGED <<dmap, dstep, preemptedSeqs, insertQueue, cur>>
    BY <1>10 DEF vars, decodeVars, queueVars, threadVars
  <2> QED
    BY <1>0, <1>2, <2>1
<1> QED
  BY <1>3, <1>4, <1>5, <1>6, <1>7, <1>8, <1>9, <1>10 DEF Next, DecodeNext

(* The conclusions for the steps that do not touch the decode instance.    *)
LEMMA DecodeRoomSame ==
  ASSUME DSInv, DecodeRoom, [Next]_vars,
         UNCHANGED <<shape, dphase, dstep, dtable, dworker, running, pendingDecode,
                     preemptedSeqs, insertQueue>>,
         dmap \subseteq dmap',
         \A r \in dstep.decodes : gen'[r] = gen[r],
         \A t \in SwapThreads : pc'[t] = pc[t] /\ cur'[t] = cur[t],
         \A t \in TransferThreads : pc'[t] \in {"refused", "dry"} => pc[t] \in {"refused", "dry"}
  PROVE  DecodeRoom'
<1>1. \A r \in dstep.decodes : Blocks(r)' = Blocks(r)
  BY DEF Blocks, Length
<1>2. \A r \in dstep.decodes : (r \in Over)' <=> r \in Over
  BY DEF Over, Ends
<1>3. Used(dtable)' = Used(dtable) /\ Promised' = Promised /\ (InStep' <=> InStep)
  BY DEF Used, Promised, InStep
<1>4. Used(Promised)' = Used(Promised)
  BY <1>3 DEF Used
<1>5. ASSUME NEW r \in Requests, Agrees(r) PROVE Agrees(r)'
  <2>1. r \in dstep.decodes => AppendSlot(dworker[r], r)' = AppendSlot(dworker[r], r)
    BY <1>1 DEF AppendSlot
  <2> QED
    BY <1>2, <1>3, <1>5, <2>1 DEF Agrees
<1>6. Unreplayed' = {} => Unreplayed = {}
  BY UnreplayedGrows
<1> QED
  BY <1>3, <1>4, <1>5, <1>6 DEF DecodeRoom, Replayed

LEMMA UsedDiffers ==
  ASSUME NEW t \in [Requests -> Nat], NEW u \in [Requests -> Nat], NEW s \in Requests,
         \A r \in Requests : r # s => u[r] = t[r]
  PROVE  /\ Used(u) = Used(t) + u[s] - t[s]
         /\ Used(t) \in Nat /\ t[s] \in Nat /\ u[s] \in Nat
<1>1. u = [t EXCEPT ![s] = u[s]] /\ u[s] \in Nat
  OBVIOUS
<1> QED
  BY <1>1, UsedUpdate, UsedType

LEMMA PromisedType ==
  ASSUME DSInv
  PROVE  Promised \in [Requests -> Nat]
  BY DEF DSInv, StateTyped, Promised

(* The run thread goes over the running sequences and hands out blocks.    *)
LEMMA DecodeRoomSchedule ==
  ASSUME DSInv, DecodeRoom, [Next]_vars, ScheduleDecode \/ Preempt
  PROVE  DecodeRoom'
<1>0. /\ arrived \subseteq Requests /\ running \subseteq arrived
      /\ dstep \in [kept : SUBSET arrived, decodes : SUBSET arrived,
                    preempted : SUBSET arrived, stop : SUBSET arrived]
      /\ dtable \in [Requests -> Nat] /\ dworker \in [Requests -> Nat]
      /\ preemptedSeqs \in Seq(arrived) /\ DecodeBlocks \in Nat
      /\ dtable' \in [Requests -> Nat] /\ Used(dtable) \in Nat
  <2>1. StateTyped'
    BY DSInvNext DEF DSInv
  <2> QED
    BY <2>1, Constants, UsedType DEF DSInv, StateTyped
<1>1. Min(running) \in running /\ Max(running) \in running
  BY <1>0, EndsOfList DEF ScheduleDecode, Preempt, MoreDecodes
<1>2. PICK s \in running :
        /\ running' = running \ {s}
        /\ \/ /\ DecodeFree > 0
              /\ dtable' = [dtable EXCEPT ![s] = AppendSlot(dtable[s], s)]
              /\ dstep' = [dstep EXCEPT !.kept = dstep.kept \cup {s},
                                        !.decodes = dstep.decodes \cup {s}]
              /\ preemptedSeqs' = preemptedSeqs
           \/ /\ dtable' = [dtable EXCEPT ![s] = 0]
              /\ dstep' = [dstep EXCEPT !.preempted = dstep.preempted \cup {s}]
              /\ preemptedSeqs' = Append(preemptedSeqs, s)
  BY <1>1 DEF ScheduleDecode, Preempt
<1>3. /\ UNCHANGED <<shape, gen, insertQueue, pendingDecode, dmap, dworker, pc, cur>>
      /\ dphase = "decode" /\ dphase' = "decode"
  BY DEF ScheduleDecode, Preempt, DecodeFrame, queueVars, threadVars
<1>4. s \in arrived /\ s \in Requests /\ \A r \in Requests : r # s => dtable'[r] = dtable[r]
  BY <1>0, <1>2
<1>5. /\ s \notin dstep.decodes /\ s \notin dstep.preempted /\ s \notin pendingDecode /\ s \in dmap
      /\ s \notin Range(preemptedSeqs) \cup Range(insertQueue)
      /\ \A t \in Threads : s \notin cur[t]
  <2>1. PICK l \in PlaceNames : At(s, l) /\ CacheAt(s, l)
    BY <1>4 DEF DSInv, Located, Placed
  <2>2. l = "running" /\ dstep.decodes = dstep.kept
    BY <1>3, <2>1 DEF At, DSInv, Shaped, DecodeShape
  <2> QED
    BY <1>4, <2>1, <2>2, StepPlaces DEF At, CacheAt
<1>6. AppendSlot(dtable[s], s) <= dtable[s] + 1
  BY <1>0, <1>4 DEF AppendSlot
<1>7. Used(dtable)' <= DecodeBlocks
  <2>1. Used(dtable') = Used(dtable) + dtable'[s] - dtable[s]
    BY <1>0, <1>4, UsedDiffers
  <2>2. dtable'[s] \in Nat /\ dtable[s] \in Nat /\ Used(dtable) <= DecodeBlocks
    BY <1>0, <1>4 DEF DecodeRoom
  <2>3. dtable'[s] <= dtable[s] \/ (DecodeFree > 0 /\ dtable'[s] <= dtable[s] + 1)
    BY <1>0, <1>2, <1>4, <1>6, <2>2
  <2>4. Used(dtable') <= DecodeBlocks
    BY <1>0, <2>1, <2>2, <2>3 DEF DecodeFree
  <2> QED
    BY <2>4 DEF Used
<1>8. /\ dstep'.decodes \subseteq dstep.decodes \cup {s} /\ dstep.decodes \subseteq dstep'.decodes
      /\ dstep'.preempted \subseteq dstep.preempted \cup {s} /\ dstep.preempted \subseteq dstep'.preempted
      /\ s \in dstep'.decodes \cup dstep'.preempted
      /\ s \in dstep'.decodes => dtable'[s] = AppendSlot(dtable[s], s) /\ preemptedSeqs' = preemptedSeqs
      /\ s \in dstep'.preempted => s \notin dstep'.decodes
      /\ s \notin dstep'.preempted => preemptedSeqs' = preemptedSeqs
      /\ Range(preemptedSeqs') \subseteq Range(preemptedSeqs) \cup {s}
  <2>1. Range(Append(preemptedSeqs, s)) = Range(preemptedSeqs) \cup {s}
    BY <1>0, <1>4, RangeAppend
  <2>2. CASE /\ dtable' = [dtable EXCEPT ![s] = AppendSlot(dtable[s], s)]
             /\ dstep' = [dstep EXCEPT !.kept = dstep.kept \cup {s},
                                       !.decodes = dstep.decodes \cup {s}]
             /\ preemptedSeqs' = preemptedSeqs
    <3>1. dstep'.decodes = dstep.decodes \cup {s} /\ dstep'.preempted = dstep.preempted
      BY <1>0, <2>2
    <3>2. dtable'[s] = AppendSlot(dtable[s], s)
      BY <1>0, <1>4, <2>2
    <3> QED
      BY <1>5, <2>2, <3>1, <3>2
  <2>3. CASE /\ dstep' = [dstep EXCEPT !.preempted = dstep.preempted \cup {s}]
             /\ preemptedSeqs' = Append(preemptedSeqs, s)
    <3>1. dstep'.decodes = dstep.decodes /\ dstep'.preempted = dstep.preempted \cup {s}
      BY <1>0, <2>3
    <3> QED
      BY <1>5, <2>1, <2>3, <3>1
  <2> QED
    BY <1>2, <2>2, <2>3
<1>9. dstep'.preempted \subseteq dmap'
  BY <1>3, <1>5, <1>8 DEF DecodeRoom
<1>10. ASSUME Replayed PROVE Replayed'
  <2>1. dworker[s] = dtable[s]
    BY <1>4, <1>5, <1>10 DEF Replayed, Agrees
  <2>2. Promised' = Promised
    <3>1. \A r \in Requests : Promised'[r] = Promised[r]
      BY <1>3, <1>4, <1>5, <1>8, <2>1 DEF Promised, InStep
    <3> QED
      BY <3>1 DEF Promised
  <2>3. Used(Promised)' <= DecodeBlocks
    BY <1>10, <2>2 DEF Replayed, Used
  <2>4. ASSUME NEW r \in Requests PROVE AppendSlot(dworker[r], r)' = AppendSlot(dworker[r], r)
    BY <1>3 DEF AppendSlot, Blocks, Length
  <2>5. ASSUME NEW r \in Requests, r # s PROVE Agrees(r)'
    <3>1. Agrees(r)
      BY <1>10 DEF Replayed
    <3> QED
      BY <1>2, <1>3, <1>4, <1>8, <2>2, <2>4, <2>5, <3>1 DEF Agrees, InStep
  <2>6. Agrees(s)'
    <3>1. dworker'[s] <= Promised'[s]
      BY <1>3, <1>4, <1>10, <2>2 DEF Replayed, Agrees
    <3>2. s \in dstep'.decodes => dtable'[s] = AppendSlot(dworker[s], s)'
      BY <1>4, <1>8, <2>1, <2>4
    <3>3. s \notin running' /\ s \notin pendingDecode' /\ \A t \in SwapThreads : s \notin cur'[t]
      BY <1>2, <1>3, <1>5 DEF Threads
    <3>4. s \in Range(preemptedSeqs') \cup Range(insertQueue') => s \in dstep'.preempted
      BY <1>3, <1>5, <1>8
    <3> QED
      BY <1>3, <3>1, <3>2, <3>3, <3>4 DEF Agrees, InStep
  <2>7. \A t \in TransferThreads : pc'[t] \notin {"refused", "dry"}
    BY <1>3, <1>10 DEF Replayed
  <2> QED
    BY <2>3, <2>5, <2>6, <2>7 DEF Replayed
<1> QED
  BY <1>7, <1>9, <1>10, UnreplayedGrows DEF DecodeRoom

(* Blocks are given to a sequence that comes back or comes in.             *)
LEMMA DecodeRoomGive ==
  ASSUME DSInv, DecodeRoom, [Next]_vars,
         NEW h \in arrived, dtable[h] = 0, h \notin dstep.decodes, ~preemption, DecodeFits(h),
         dtable' = [dtable EXCEPT ![h] = Blocks(h)], h \notin running \cup pendingDecode,
         InStep, InStep', dphase' # "complete",
         running' \subseteq running \cup dstep.decodes,
         dstep'.decodes = dstep.decodes, dstep'.preempted = dstep.preempted,
         Range(preemptedSeqs') \cup Range(insertQueue')
           \subseteq Range(preemptedSeqs) \cup Range(insertQueue),
         UNCHANGED <<shape, gen, pendingDecode, dmap, dworker, pc, cur>>
  PROVE  DecodeRoom'
<1>0. /\ h \in Requests /\ dtable \in [Requests -> Nat] /\ dworker \in [Requests -> Nat]
      /\ dtable' \in [Requests -> Nat] /\ DecodeBlocks \in Nat /\ WatermarkBlocks \in Nat
  <2>1. StateTyped'
    BY DSInvNext DEF DSInv
  <2> QED
    BY <2>1, Constants DEF DSInv, StateTyped
<1>1. dstep.preempted = {}
  BY DEF DSInv, Shaped, DecodeShape
<1>2. \A r \in Requests : r # h => dtable'[r] = dtable[r]
  BY <1>0
<1>3. dtable'[h] = Blocks(h) /\ Blocks(h) \in Nat
  BY <1>0, BlocksType DEF DSInv
<1>4. Used(dtable') <= DecodeBlocks
  <2>1. Used(dtable') = Used(dtable) + dtable'[h] - dtable[h] /\ Used(dtable) \in Nat
    BY <1>0, <1>2, UsedDiffers
  <2> QED
    BY <1>0, <1>3, <2>1 DEF DecodeFits, DecodeFree
<1>5. ASSUME Replayed PROVE Replayed'
  <2>1. Promised' = [r \in Requests |-> IF r \in dstep.decodes THEN dworker[r] ELSE dtable'[r]]
    BY <1>1 DEF Promised
  <2>2. \A r \in Requests : Promised[r] = IF r \in dstep.decodes THEN dworker[r] ELSE dtable[r]
    BY <1>1 DEF Promised
  <2>3. \A r \in Requests : Promised'[r] <= dtable'[r]
    <3>1. ASSUME NEW r \in Requests, r \in dstep.decodes PROVE dworker[r] <= dtable[r]
      <4>1. dtable[r] = AppendSlot(dworker[r], r)
        BY <1>5, <3>1 DEF Replayed, Agrees
      <4> QED
        BY <1>0, <4>1 DEF AppendSlot
    <3> QED
      BY <1>0, <1>2, <2>1, <3>1
  <2>4. Promised' \in [Requests -> Nat]
    BY <1>0, <2>1
  <2>5. Used(Promised') <= DecodeBlocks
    <3>1. Used(Promised') <= Used(dtable') /\ Used(Promised') \in Nat /\ Used(dtable') \in Nat
      BY <1>0, <2>3, <2>4, UsedMonotone, UsedType
    <3> QED
      BY <1>0, <1>4, <3>1
  <2>6. ASSUME NEW r \in Requests PROVE AppendSlot(dworker[r], r)' = AppendSlot(dworker[r], r)
    BY DEF AppendSlot, Blocks, Length
  <2>7. ASSUME NEW r \in Requests PROVE Agrees(r)'
    <3>1. Agrees(r)
      BY <1>5 DEF Replayed
    <3>2. dworker'[r] <= Promised'[r]
      <4>1. CASE r = h
        <5>1. dworker[h] <= 0
          BY <1>0, <2>2, <3>1, <4>1 DEF Agrees
        <5> QED
          BY <1>0, <1>3, <2>1, <4>1, <5>1
      <4>2. CASE r # h
        BY <1>2, <2>1, <2>2, <3>1, <4>2 DEF Agrees
      <4> QED
        BY <4>1, <4>2
    <3>3. r \in dstep'.decodes => dtable'[r] = AppendSlot(dworker[r], r)'
      BY <1>2, <2>6, <3>1 DEF Agrees
    <3>4. r \in (running' \cup pendingDecode') \ dstep'.decodes => dworker'[r] = dtable'[r]
      BY <1>2, <3>1 DEF Agrees
    <3>5. r \in Range(preemptedSeqs') \cup Range(insertQueue') => dworker'[r] = 0
      BY <1>1, <3>1 DEF Agrees
    <3> QED
      BY <3>1, <3>2, <3>3, <3>4, <3>5 DEF Agrees
  <2>8. \A t \in TransferThreads : pc'[t] \notin {"refused", "dry"}
    BY <1>5 DEF Replayed
  <2>9. Used(Promised)' <= DecodeBlocks
    BY <2>5 DEF Used
  <2> QED
    BY <2>7, <2>8, <2>9 DEF Replayed
<1>6. Used(dtable)' <= DecodeBlocks
  BY <1>4 DEF Used
<1> QED
  BY <1>1, <1>5, <1>6, UnreplayedGrows DEF DecodeRoom

LEMMA DecodeRoomAdmit ==
  ASSUME DSInv, DecodeRoom, [Next]_vars, EndDecodes \/ AdmitMetadata
  PROVE  DecodeRoom'
<1>0. /\ preemptedSeqs \in Seq(arrived) /\ insertQueue \in Seq(arrived) /\ kvmetaQueue \in Seq(arrived)
      /\ dstep \in [kept : SUBSET arrived, decodes : SUBSET arrived,
                    preempted : SUBSET arrived, stop : SUBSET arrived]
      /\ arrived \subseteq Requests
  BY DEF DSInv, StateTyped
<1>1. UNCHANGED <<shape, gen, pendingDecode, dmap, dworker, pc, cur>>
  BY DEF EndDecodes, AdmitMetadata, DecodeFrame, threadVars
<1>2. ASSUME NEW h \in arrived, h \in Range(preemptedSeqs) \cup Range(kvmetaQueue)
      PROVE  dtable[h] = 0 /\ h \notin dstep.decodes /\ h \notin running \cup pendingDecode
  <2>1. PICK l \in PlaceNames : At(h, l) /\ CacheAt(h, l)
    BY DEF DSInv, Located, Placed
  <2>2. l \in {"preempted", "kvmeta"}
    BY <1>2, <2>1 DEF At
  <2>3. h \notin dstep.decodes
    BY <1>0, <2>1, <2>2, StepPlaces DEF At
  <2> QED
    BY <2>1, <2>2, <2>3 DEF At, CacheAt
<1>3. CASE AdmitMetadata
  <2> DEFINE q == Head(kvmetaQueue)
  <2>1. /\ kvmetaQueue # <<>> /\ ~preemption /\ DecodeFits(q)
        /\ dtable' = [dtable EXCEPT ![q] = Blocks(q)]
        /\ dphase = "admit" /\ UNCHANGED <<dphase, dstep, running, preemptedSeqs, insertQueue>>
    BY <1>3 DEF AdmitMetadata, Admits
  <2>2. q \in arrived /\ q \in Range(kvmetaQueue)
    BY <1>0, <2>1, RangeTail
  <2>3. PICK h \in arrived : h = q
    BY <2>2
  <2>4. InStep /\ InStep' /\ dphase' # "complete"
    BY <2>1 DEF InStep
  <2> HIDE DEF q
  <2> QED
    BY <1>1, <1>2, <2>1, <2>2, <2>3, <2>4, DecodeRoomGive
<1>4. CASE EndDecodes
  <2>1. /\ dphase = "decode" /\ dphase' = "admit" /\ running' = dstep.kept \cup running
        /\ dstep' = [dstep EXCEPT !.kept = {}]
    BY <1>4 DEF EndDecodes
  <2>2. /\ dstep'.decodes = dstep.decodes /\ dstep'.preempted = dstep.preempted
        /\ dstep.kept = dstep.decodes /\ InStep /\ InStep'
    BY <1>0, <2>1 DEF InStep, DSInv, Shaped, DecodeShape
  <2>3. CASE UNCHANGED <<dtable, preemptedSeqs, insertQueue>>
    <3>1. Promised' = Promised
      BY <1>1, <2>2, <2>3 DEF Promised
    <3>2. Used(Promised)' = Used(Promised) /\ Used(dtable)' = Used(dtable)
      BY <2>3, <3>1 DEF Used
    <3>3. ASSUME NEW r \in Requests, Agrees(r) PROVE Agrees(r)'
      <4>1. AppendSlot(dworker[r], r)' = AppendSlot(dworker[r], r)
        BY <1>1 DEF AppendSlot, Blocks, Length
      <4> QED
        BY <1>1, <2>1, <2>2, <2>3, <3>1, <3>3, <4>1 DEF Agrees
    <3> QED
      BY <1>1, <2>1, <2>2, <3>2, <3>3, UnreplayedGrows DEF DecodeRoom, Replayed
  <2>4. CASE ~UNCHANGED <<dtable, preemptedSeqs, insertQueue>>
    <3> DEFINE q == Head(preemptedSeqs)
    <3>1. /\ preemptedSeqs # <<>> /\ ~preemption /\ DecodeFits(q)
          /\ dtable' = [dtable EXCEPT ![q] = Blocks(q)]
          /\ preemptedSeqs' = Tail(preemptedSeqs) /\ insertQueue' = Append(insertQueue, q)
      BY <1>4, <2>4 DEF EndDecodes
    <3>2. /\ q \in arrived /\ q \in Range(preemptedSeqs)
          /\ Range(preemptedSeqs') = Range(preemptedSeqs) \ {q}
          /\ Range(insertQueue') = Range(insertQueue) \cup {q}
      BY <1>0, <3>1, RangeTail, RangeAppend DEF DSInv, Located, NothingTwice
    <3>3. PICK h \in arrived : h = q
      BY <3>2
    <3> HIDE DEF q
    <3>4. Range(preemptedSeqs') \cup Range(insertQueue') \subseteq Range(preemptedSeqs) \cup Range(insertQueue)
      BY <3>2
    <3> QED
      BY <1>1, <1>2, <2>1, <2>2, <3>1, <3>2, <3>3, <3>4, DecodeRoomGive
  <2> QED
    BY <2>3, <2>4
<1> QED
  BY <1>3, <1>4

(* The steps of the run thread that leave the engine's tables alone.       *)
LEMMA DecodeRoomSend ==
  ASSUME DSInv, DecodeRoom, [Next]_vars,
         \/ BeginStep \/ EndEmptyStep
         \/ \E stop \in Stops(dstep.decodes) : SendStep(stop)
  PROVE  DecodeRoom'
<1>0. /\ dstep \in [kept : SUBSET arrived, decodes : SUBSET arrived,
                    preempted : SUBSET arrived, stop : SUBSET arrived]
      /\ arrived \subseteq Requests /\ \A r \in Requests \ arrived : r \notin dmap
  BY DEF DSInv, StateTyped, Located, Fresh
<1>1. /\ UNCHANGED <<shape, gen, dtable, dworker, preemptedSeqs, insertQueue, pc, cur>>
      /\ running' \cup pendingDecode' = running \cup pendingDecode
      /\ dphase' # "complete" /\ dphase # "complete"
  BY DEF BeginStep, EndEmptyStep, SendStep, DecodeFrame, queueVars, threadVars
<1>2. Used(dtable)' <= DecodeBlocks
  BY <1>1 DEF DecodeRoom, Used
<1>3. ASSUME NEW r \in Requests PROVE AppendSlot(dworker[r], r)' = AppendSlot(dworker[r], r)
  BY <1>1 DEF AppendSlot, Blocks, Length
<1>4. ASSUME dstep'.decodes = dstep.decodes, dstep'.preempted = dstep.preempted,
             (InStep' <=> InStep) \/ dstep.decodes \cup dstep.preempted = {},
             Replayed
      PROVE  Replayed'
  <2>1. Promised' = Promised
    BY <1>1, <1>4 DEF Promised
  <2>2. Used(Promised)' = Used(Promised)
    BY <2>1 DEF Used
  <2>3. ASSUME NEW r \in Requests, Agrees(r) PROVE Agrees(r)'
    BY <1>1, <1>3, <1>4, <2>1, <2>3 DEF Agrees
  <2> QED
    BY <1>1, <1>4, <2>2, <2>3 DEF Replayed
<1>5. CASE BeginStep
  <2>1. dphase = "idle" /\ dphase' = "decode" /\ dstep' = dstep
    BY <1>5 DEF BeginStep
  <2>2. dstep.decodes = {} /\ dstep.preempted = {}
    BY <2>1 DEF DSInv, Shaped, DecodeShape, NoDecode
  <2>3. Replayed => Replayed'
    BY <1>4, <2>1, <2>2 DEF InStep
  <2> QED
    BY <1>2, <2>1, <2>2, <2>3, UnreplayedGrows DEF DecodeRoom
<1>6. CASE EndEmptyStep
  <2>1. /\ dphase = "admit" /\ dphase' = "idle" /\ dstep' = NoDecode /\ dmap' = dmap
        /\ dstep.decodes = {}
    BY <1>6 DEF EndEmptyStep
  <2>2. ASSUME Unreplayed' = {} PROVE dstep.preempted = {}
    <3>1. \A r \in dstep.preempted : r \in dmap /\ r \in Range(preemptedSeqs)
      BY <2>1 DEF DecodeRoom, DSInv, Shaped, DecodeShape
    <3>2. \A r \in dstep.preempted : r \in Unreplayed'
      BY <1>1, <2>1, <3>1 DEF Unreplayed, SwappedOut, NoDecode
    <3> QED
      BY <2>2, <3>2
  <2>3. ASSUME Unreplayed' = {} PROVE Replayed'
    <3>1. Replayed /\ dstep.preempted = {}
      BY <2>2, <2>3, UnreplayedGrows DEF DecodeRoom
    <3> QED
      BY <1>4, <2>1, <3>1 DEF NoDecode
  <2> QED
    BY <1>2, <2>1, <2>3 DEF DecodeRoom, NoDecode
<1>7. ASSUME NEW stop \in Stops(dstep.decodes), SendStep(stop) PROVE DecodeRoom'
  <2>1. /\ dphase = "admit" /\ dphase' = "execute" /\ dstep' = [dstep EXCEPT !.stop = stop]
    BY <1>7 DEF SendStep
  <2>2. dstep'.decodes = dstep.decodes /\ dstep'.preempted = dstep.preempted
    BY <1>0, <2>1
  <2>3. Replayed => Replayed'
    BY <1>4, <2>1, <2>2 DEF InStep
  <2> QED
    BY <1>2, <2>1, <2>3, UnreplayedGrows DEF DecodeRoom
<1> QED
  BY <1>5, <1>6, <1>7

(* What the workers hold after a step is what the scheduler has given.     *)
LEMMA WorkersFollow ==
  ASSUME DSInv, DecodeRoom, Replayed, dphase = "execute"
  PROVE  /\ WorkerTable \in [Requests -> Nat]
         /\ \A s \in Requests : WorkerTable[s] <= dtable[s]
         /\ \A s \in dstep.decodes : WorkerTable[s] = dtable[s]
         /\ SlotsFit
<1>0. /\ dtable \in [Requests -> Nat] /\ dworker \in [Requests -> Nat] /\ DecodeBlocks \in Nat
      /\ dstep.decodes \subseteq Requests
  BY Constants DEF DSInv, StateTyped
<1>1. WorkerTable \in [Requests -> Nat]
  BY <1>0 DEF WorkerTable, AppendSlot
<1>2. ASSUME NEW s \in Requests
      PROVE  WorkerTable[s] <= dtable[s] /\ (s \in dstep.decodes => WorkerTable[s] = dtable[s])
  <2>1. Agrees(s)
    BY DEF Replayed
  <2>2. s \in dstep.decodes => s \notin dstep.preempted
    BY StepPlaces DEF At
  <2>3. WorkerTable[s] = IF s \in dstep.preempted THEN 0
                         ELSE IF s \in dstep.decodes THEN AppendSlot(dworker[s], s) ELSE dworker[s]
    BY DEF WorkerTable
  <2> QED
    BY <1>0, <2>1, <2>2, <2>3 DEF Agrees, Promised, InStep
<1>3. SlotsFit
  <2>1. Used(WorkerTable) <= Used(dtable) /\ Used(WorkerTable) \in Nat /\ Used(dtable) \in Nat
    BY <1>0, <1>1, <1>2, UsedMonotone, UsedType
  <2> QED
    BY <1>0, <2>1 DEF DecodeRoom, SlotsFit
<1> QED
  BY <1>0, <1>1, <1>2, <1>3

LEMMA DecodeRoomExecute ==
  ASSUME DSInv, DecodeRoom, [Next]_vars, ExecuteDecodes
  PROVE  DecodeRoom'
<1>0. /\ dtable \in [Requests -> Nat] /\ dworker \in [Requests -> Nat]
      /\ dstep.decodes \subseteq Requests /\ arrived \subseteq Requests
  BY DEF DSInv, StateTyped
<1>1. /\ UNCHANGED <<shape, gen, dtable, dstep, running, pendingDecode, preemptedSeqs, insertQueue,
                     dmap, pc, cur>>
      /\ dphase = "execute" /\ dphase' = "complete"
      /\ dworker' = [s \in Requests |-> IF s \in Over THEN 0 ELSE WorkerTable[s]]
  BY DEF ExecuteDecodes, DecodeFrame, queueVars, threadVars
<1>2. Used(dtable)' <= DecodeBlocks
  BY <1>1 DEF DecodeRoom, Used
<1>3. ASSUME Replayed PROVE Replayed'
  <2>1. Promised' = dtable
    BY <1>0, <1>1 DEF Promised, InStep
  <2>2. Used(Promised)' <= DecodeBlocks
    BY <2>1 DEF DecodeRoom, Used
  <2>3. Over' = Over /\ Over \subseteq dstep.decodes
    BY <1>1 DEF Over, Ends
  <2>4. ASSUME NEW s \in Requests PROVE Agrees(s)'
    <3>1. Agrees(s)
      BY <1>3 DEF Replayed
    <3>2. /\ WorkerTable[s] <= dtable[s] /\ WorkerTable[s] \in Nat
          /\ s \in dstep.decodes => WorkerTable[s] = dtable[s]
          /\ s \notin dstep.decodes =>
               WorkerTable[s] = IF s \in dstep.preempted THEN 0 ELSE dworker[s]
      BY <1>1, <1>3, WorkersFollow DEF WorkerTable
    <3>3. dworker'[s] = IF s \in Over THEN 0 ELSE WorkerTable[s]
      BY <1>1
    <3>4. dworker'[s] <= Promised'[s]
      BY <1>0, <2>1, <3>2, <3>3
    <3>5. s \in (running' \cup pendingDecode') \ dstep'.decodes => dworker'[s] = dtable'[s]
      <4>1. s \in running \cup pendingDecode => s \notin dstep.preempted
        BY StepPlaces DEF At
      <4> QED
        BY <1>1, <2>3, <3>1, <3>2, <3>3, <4>1 DEF Agrees
    <3>6. s \in dstep'.decodes \ Over' => dworker'[s] = dtable'[s]
      BY <1>1, <2>3, <3>2, <3>3
    <3>7. s \in Range(preemptedSeqs) \cup Range(insertQueue) => dworker'[s] = 0
      <4>1. s \in Range(preemptedSeqs) \cup Range(insertQueue) => s \notin dstep.decodes
        BY StepPlaces DEF At
      <4> QED
        BY <2>3, <3>1, <3>2, <3>3, <4>1 DEF Agrees
    <3>8. ASSUME NEW t \in SwapThreads, s \in cur[t], pc[t] \in {"insert", "allocate"}
          PROVE  dworker'[s] = 0
      <4>1. s \notin dstep.decodes /\ t \in Threads
        BY <3>8, StepPlaces DEF At, Threads
      <4> QED
        BY <2>3, <3>1, <3>2, <3>3, <3>8, <4>1 DEF Agrees
    <3> QED
      BY <1>1, <3>4, <3>5, <3>6, <3>7, <3>8 DEF Agrees, InStep
  <2> QED
    BY <1>1, <1>3, <2>2, <2>4 DEF Replayed
<1> QED
  BY <1>1, <1>2, <1>3, UnreplayedGrows DEF DecodeRoom

LEMMA DecodeRoomComplete ==
  ASSUME DSInv, DecodeRoom, [Next]_vars, CompleteDecodes
  PROVE  DecodeRoom'
<1>0. /\ dtable \in [Requests -> Nat] /\ dworker \in [Requests -> Nat] /\ DecodeBlocks \in Nat
      /\ arrived \subseteq Requests /\ running \subseteq arrived
  BY Constants DEF DSInv, StateTyped
<1>1. /\ UNCHANGED <<shape, pendingDecode, preemptedSeqs, insertQueue, dworker, pc, cur>>
      /\ dphase = "complete" /\ dphase' = "idle" /\ dstep' = NoDecode
      /\ running' = running \ Over
      /\ dtable' = [s \in Requests |-> IF s \in Over THEN 0 ELSE dtable[s]]
  BY DEF CompleteDecodes, DecodeFrame, queueVars, threadVars
<1>2. dtable' \in [Requests -> Nat] /\ \A s \in Requests : dtable'[s] <= dtable[s]
  BY <1>0, <1>1
<1>3. Used(dtable') <= DecodeBlocks
  <2>1. Used(dtable') <= Used(dtable) /\ Used(dtable') \in Nat /\ Used(dtable) \in Nat
    BY <1>0, <1>2, UsedMonotone, UsedType
  <2> QED
    BY <1>0, <2>1 DEF DecodeRoom
<1>4. Used(dtable)' <= DecodeBlocks
  BY <1>3 DEF Used
<1>5. ASSUME NEW s \in Requests, s \in Over PROVE dworker[s] = 0
  <2>1. s \in running /\ s \in arrived
    BY <1>0, <1>1, <1>5 DEF Over, DSInv, Shaped, DecodeShape
  <2> QED
    BY <1>1, <1>5, <2>1 DEF DSInv, Located, Placed, At, CacheAt
<1>6. ASSUME Replayed PROVE Replayed'
  <2>1. Promised' = dtable'
    <3>1. Promised' = [s \in Requests |-> dtable'[s]]
      BY <1>1 DEF Promised, InStep
    <3> QED
      BY <1>2, <3>1
  <2>2. Used(Promised)' <= DecodeBlocks
    BY <1>3, <2>1 DEF Used
  <2>3. ASSUME NEW s \in Requests PROVE Agrees(s)'
    <3>1. Agrees(s) /\ dtable'[s] = IF s \in Over THEN 0 ELSE dtable[s]
      BY <1>1, <1>6 DEF Replayed
    <3>2. Promised[s] = dtable[s]
      BY <1>1 DEF Promised, InStep
    <3>3. dworker'[s] <= Promised'[s]
      BY <1>0, <1>1, <1>5, <2>1, <3>1, <3>2 DEF Agrees
    <3>4. s \in running' \cup pendingDecode' => dworker'[s] = dtable'[s]
      BY <1>1, <1>5, <3>1 DEF Agrees
    <3> QED
      BY <1>1, <3>1, <3>3, <3>4 DEF Agrees, InStep, NoDecode
  <2> QED
    BY <1>1, <1>6, <2>2, <2>3 DEF Replayed
<1> QED
  BY <1>1, <1>4, <1>6, UnreplayedGrows DEF DecodeRoom, NoDecode

(* The threads that fill the workers' cache.                               *)
LEMMA DecodeRoomInsert ==
  ASSUME DSInv, DecodeRoom, [Next]_vars, NEW t \in Threads,
         CheckRoom(t) \/ InsertKVCache(t) \/ SwapIn(t)
  PROVE  DecodeRoom'
<1>0. /\ dtable \in [Requests -> Nat] /\ dworker \in [Requests -> Nat] /\ DecodeBlocks \in Nat
      /\ arrived \subseteq Requests /\ TransferThreads \cap SwapThreads = {}
      /\ pc \in [Threads -> {"test", "get", "wait", "insert", "allocate"} \cup Dead]
      /\ cur \in [Threads -> SUBSET arrived]
      /\ TransferThreads \subseteq Threads /\ SwapThreads \subseteq Threads
      /\ Threads = TransferThreads \cup SwapThreads
  BY Constants DEF DSInv, StateTyped, Threads
<1>1. /\ pc[t] \in {"insert", "allocate"}
      /\ UNCHANGED <<shape, gen, dphase, dstep, dtable, running, preemptedSeqs, insertQueue, dmap>>
  BY DEF CheckRoom, InsertKVCache, SwapIn, ThreadFrame, queueVars, decodeVars, tokenVars
<1>2. PICK s \in arrived : cur[t] = {s}
  BY <1>1 DEF DSInv, Shaped, HandsShape, EmptyHanded
<1>3. PICK k \in PlaceNames : At(s, k) /\ CacheAt(s, k)
  BY DEF DSInv, Located, Placed
<1>4. /\ k = "cur" /\ InHands(s, t) /\ dtable[s] = Blocks(s) /\ s \in Requests
      /\ \A u \in Threads : s \in cur[u] => u = t
      /\ s \notin running /\ s \notin pendingDecode
      /\ s \notin Range(preemptedSeqs) \cup Range(insertQueue)
  BY <1>0, <1>2, <1>3 DEF At, CacheAt
<1>5. s \notin dstep.decodes /\ s \notin dstep.preempted
  BY <1>3, <1>4, StepPlaces DEF At
<1>6. /\ Blocks(s) \in Nat \ {0} /\ Popped(s) \in Nat /\ Popped(s) <= Blocks(s)
      /\ HasRoom(s) => Popped(s) = Blocks(s)
  BY <1>4, BlocksType, PoppedType DEF DSInv
<1>7. Used(dtable)' = Used(dtable)
  BY <1>1 DEF Used
<1>8. ASSUME Replayed PROVE dworker[s] = 0 /\ HasRoom(s)
  <2>1. dworker[s] = 0
    <3>1. CASE t \in SwapThreads
      BY <1>1, <1>2, <1>4, <1>8, <3>1 DEF Replayed, Agrees
    <3>2. CASE t \notin SwapThreads
      BY <1>1, <1>4, <3>2 DEF InHands
    <3> QED
      BY <3>1, <3>2
  <2> DEFINE after == [dworker EXCEPT ![s] = Blocks(s)]
  <2>2. after \in [Requests -> Nat] /\ Used(after) = Used(dworker) + Blocks(s)
    <3>1. after \in [Requests -> Nat] /\ after[s] = Blocks(s)
          /\ \A r \in Requests : r # s => after[r] = dworker[r]
      BY <1>0, <1>4, <1>6
    <3> HIDE DEF after
    <3>2. Used(after) = Used(dworker) + after[s] - dworker[s] /\ Used(dworker) \in Nat
      BY <1>0, <1>4, <3>1, UsedDiffers
    <3> QED
      BY <1>6, <2>1, <3>1, <3>2
  <2>3. \A r \in Requests : after[r] <= Promised[r]
    <3>1. Promised[s] = Blocks(s)
      BY <1>4, <1>5 DEF Promised
    <3>2. \A r \in Requests : dworker[r] <= Promised[r]
      BY <1>8 DEF Replayed, Agrees
    <3> QED
      BY <1>0, <1>4, <1>6, <3>1, <3>2
  <2>4. Used(after) <= Used(Promised) /\ Used(Promised) \in Nat /\ Used(after) \in Nat
    <3> HIDE DEF after
    <3> QED
      BY <2>2, <2>3, PromisedType, UsedMonotone, UsedType
  <2>5. Used(dworker) \in Nat /\ Used(Promised) <= DecodeBlocks
    BY <1>0, <1>8, UsedType DEF Replayed
  <2>6. Used(dworker) + Blocks(s) <= DecodeBlocks
    BY <1>0, <1>6, <2>2, <2>4, <2>5
  <2> QED
    BY <1>0, <1>6, <2>1, <2>5, <2>6 DEF HasRoom
<1>9. ASSUME Replayed PROVE Replayed'
  <2>1. \/ /\ dworker' = dworker /\ pendingDecode' = pendingDecode /\ cur' = cur
           /\ pc' = [pc EXCEPT ![t] = "allocate"]
        \/ /\ dworker' = [dworker EXCEPT ![s] = Blocks(s)] /\ t \in TransferThreads
           /\ pendingDecode' = pendingDecode \cup {s}
           /\ pc' = [pc EXCEPT ![t] = "test"] /\ cur' = [cur EXCEPT ![t] = {}]
        \/ /\ dworker' = [dworker EXCEPT ![s] = Blocks(s)] /\ t \in SwapThreads
           /\ pendingDecode' = pendingDecode /\ cur' = cur /\ pc' = [pc EXCEPT ![t] = "typeerror"]
    <3>1. CASE CheckRoom(t)
      BY <1>2, <1>8, <1>9, <3>1 DEF CheckRoom, queueVars
    <3>2. CASE InsertKVCache(t)
      BY <1>2, <1>6, <1>8, <1>9, <3>2 DEF InsertKVCache, QueueDecode
    <3>3. CASE SwapIn(t)
      BY <1>2, <1>6, <1>8, <1>9, <3>3 DEF SwapIn, queueVars
    <3> QED
      BY <3>1, <3>2, <3>3
  <2>2. /\ \A r \in Requests : r # s => dworker'[r] = dworker[r]
        /\ dworker'[s] \in {0, Blocks(s)}
        /\ s \in pendingDecode' => dworker'[s] = Blocks(s)
        /\ \A r \in Requests : r # s => (r \in pendingDecode' <=> r \in pendingDecode)
        /\ \A u \in SwapThreads : pc'[u] \in {"insert", "allocate"} =>
             pc[u] \in {"insert", "allocate"} /\ cur'[u] = cur[u] /\ (u = t => dworker'[s] = 0)
        /\ \A u \in TransferThreads : pc'[u] \in {"refused", "dry"} => pc[u] \in {"refused", "dry"}
    <3>1. dworker[s] = 0
      BY <1>8, <1>9
    <3>2. \A r \in Requests : r # s => dworker'[r] = dworker[r]
      BY <1>0, <2>1
    <3>3. dworker'[s] \in {0, Blocks(s)} /\ (s \in pendingDecode' => dworker'[s] = Blocks(s))
      BY <1>0, <1>4, <2>1, <3>1
    <3>4. \A u \in Threads : \/ u # t /\ pc'[u] = pc[u] /\ cur'[u] = cur[u]
                             \/ u = t /\ pc'[u] = "allocate" /\ cur'[u] = cur[u] /\ dworker'[s] = 0
                             \/ u = t /\ pc'[u] \in {"test", "typeerror"}
      BY <1>0, <2>1, <3>1
    <3>5. \A u \in SwapThreads : pc'[u] \in {"insert", "allocate"} =>
             pc[u] \in {"insert", "allocate"} /\ cur'[u] = cur[u] /\ (u = t => dworker'[s] = 0)
      BY <1>0, <1>1, <3>4
    <3>6. \A u \in TransferThreads : pc'[u] \in {"refused", "dry"} => pc[u] \in {"refused", "dry"}
      BY <1>0, <3>4
    <3> QED
      BY <2>1, <3>2, <3>3, <3>5, <3>6
  <2>3. Promised' = Promised
    <3>1. \A r \in Requests : Promised'[r] = Promised[r]
      BY <1>1, <1>5, <2>2 DEF Promised, InStep
    <3> QED
      BY <3>1 DEF Promised
  <2>4. Used(Promised)' <= DecodeBlocks
    BY <1>9, <2>3 DEF Replayed, Used
  <2>5. ASSUME NEW r \in Requests, r # s PROVE Agrees(r)'
    <3>1. Agrees(r)
      BY <1>9 DEF Replayed
    <3>2. AppendSlot(dworker[r], r)' = AppendSlot(dworker[r], r)
      BY <1>1, <2>2, <2>5 DEF AppendSlot, Blocks, Length
    <3>3. (r \in Over)' <=> r \in Over
      BY <1>1 DEF Over, Ends
    <3>4. InStep' <=> InStep
      BY <1>1 DEF InStep
    <3> QED
      BY <1>1, <2>2, <2>3, <2>5, <3>1, <3>2, <3>3, <3>4 DEF Agrees
  <2>6. Agrees(s)'
    <3>1. Promised'[s] = Blocks(s)
      BY <1>4, <1>5, <2>3 DEF Promised
    <3>2. \A u \in SwapThreads : s \in cur'[u] /\ pc'[u] \in {"insert", "allocate"} => dworker'[s] = 0
      BY <1>0, <1>4, <2>2
    <3> QED
      BY <1>1, <1>4, <1>5, <1>6, <2>2, <3>1, <3>2 DEF Agrees
  <2>7. \A u \in TransferThreads : pc'[u] \notin {"refused", "dry"}
    BY <1>9, <2>2 DEF Replayed
  <2> QED
    BY <2>4, <2>5, <2>6, <2>7 DEF Replayed
<1> QED
  BY <1>1, <1>7, <1>9, UnreplayedGrows DEF DecodeRoom

LEMMA DecodeRoomReturn ==
  ASSUME DSInv, DecodeRoom, [Next]_vars, NEW t \in SwapThreads, GetPreempted(t)
  PROVE  DecodeRoom'
<1>0. /\ insertQueue \in Seq(arrived) /\ arrived \subseteq Requests
      /\ pc \in [Threads -> {"test", "get", "wait", "insert", "allocate"} \cup Dead]
      /\ cur \in [Threads -> SUBSET arrived] /\ SwapThreads \subseteq Threads
      /\ TransferThreads \subseteq Threads /\ TransferThreads \cap SwapThreads = {}
  BY Constants DEF DSInv, StateTyped, Threads
<1>1. /\ insertQueue # <<>> /\ insertQueue' = Tail(insertQueue)
      /\ UNCHANGED <<shape, gen, dphase, dstep, dtable, dworker, running, pendingDecode,
                     preemptedSeqs, dmap>>
      /\ cur'[t] = {Head(insertQueue)}
      /\ \A u \in Threads : u # t => pc'[u] = pc[u] /\ cur'[u] = cur[u]
  BY <1>0 DEF GetPreempted, ThreadFrame, decodeVars, tokenVars
<1>2. /\ Head(insertQueue) \in arrived /\ Head(insertQueue) \in Range(insertQueue)
      /\ Range(insertQueue') \subseteq Range(insertQueue)
  BY <1>0, <1>1, RangeTail DEF DSInv, Located, NothingTwice
<1>3. Head(insertQueue) \notin dstep.preempted
  BY <1>0, <1>2, StepPlaces DEF At
<1>4. Used(dtable)' = Used(dtable) /\ Promised' = Promised /\ (InStep' <=> InStep)
  BY <1>1 DEF Used, Promised, InStep
<1>5. Used(Promised)' = Used(Promised)
  BY <1>4 DEF Used
<1>6. ASSUME Replayed PROVE Replayed'
  <2>1. dworker[Head(insertQueue)] = 0
    BY <1>0, <1>2, <1>3, <1>6 DEF Replayed, Agrees
  <2>2. ASSUME NEW r \in Requests PROVE Agrees(r)'
    <3>1. Agrees(r)
      BY <1>6 DEF Replayed
    <3>2. AppendSlot(dworker[r], r)' = AppendSlot(dworker[r], r)
      BY <1>1 DEF AppendSlot, Blocks, Length
    <3>3. (r \in Over)' <=> r \in Over
      BY <1>1 DEF Over, Ends
    <3>4. \A u \in SwapThreads : r \in cur'[u] /\ pc'[u] \in {"insert", "allocate"} => dworker'[r] = 0
      BY <1>0, <1>1, <2>1, <3>1 DEF Agrees
    <3> QED
      BY <1>1, <1>2, <1>4, <3>1, <3>2, <3>3, <3>4 DEF Agrees
  <2>3. \A u \in TransferThreads : pc'[u] \notin {"refused", "dry"}
    BY <1>0, <1>1, <1>6 DEF Replayed
  <2> QED
    BY <1>5, <1>6, <2>2, <2>3 DEF Replayed
<1> QED
  BY <1>1, <1>4, <1>6, UnreplayedGrows DEF DecodeRoom

LEMMA DecodeRoomInductive == DSInv /\ DecodeRoom /\ [Next]_vars => DecodeRoom'
<1> SUFFICES ASSUME DSInv, DecodeRoom, [Next]_vars PROVE DecodeRoom'
  OBVIOUS
<1>0. /\ dstep.decodes \subseteq Requests /\ TransferThreads \cap SwapThreads = {}
      /\ Threads = TransferThreads \cup SwapThreads
      /\ pc \in [Threads -> {"test", "get", "wait", "insert", "allocate"} \cup Dead]
      /\ cur \in [Threads -> SUBSET arrived] /\ gen \in [Requests -> Nat]
  BY Constants DEF DSInv, StateTyped, Threads
<1>1. ASSUME UNCHANGED <<shape, gen, dphase, dstep, dtable, dworker, running, pendingDecode,
                         preemptedSeqs, insertQueue, dmap, pc, cur>>
      PROVE  DecodeRoom'
  BY <1>1, DecodeRoomSame
<1>2. ASSUME NEW stop, PrefillExecute(stop) PROVE DecodeRoom'
  <2>1. UNCHANGED <<shape, dphase, dstep, dtable, dworker, running, pendingDecode,
                    preemptedSeqs, insertQueue, dmap, pc, cur>>
    BY <1>2 DEF PrefillExecute, PrefillFrame, queueVars, decodeVars, threadVars
  <2>2. \A r \in dstep.decodes : gen'[r] = gen[r]
    <3>1. \A r \in dstep.decodes : r \notin pstep.batch
      BY <1>0, StepPlaces DEF At
    <3> QED
      BY <1>0, <1>2, <3>1 DEF PrefillExecute
  <2> QED
    BY <2>1, <2>2, DecodeRoomSame
<1>3. CASE PrefillNext
  <2>1. CASE PrefillTake \/ PrefillSchedule \/ PrefillComplete
    BY <1>1, <2>1 DEF PrefillTake, PrefillSchedule, PrefillComplete, PrefillFrame, tokenVars,
                      queueVars, decodeVars, threadVars
  <2> QED
    BY <1>2, <1>3, <2>1 DEF PrefillNext
<1>4. ASSUME NEW s \in Requests, AddRequest(s) \/ ReadKVCache(s) \/ FreeKVCache(s) \/ AddMetadata(s)
      PROVE  DecodeRoom'
  BY <1>1, <1>4 DEF AddRequest, ReadKVCache, FreeKVCache, AddMetadata, RpcFrame, PrefillFrame,
                    tokenVars, queueVars, decodeVars, threadVars
<1>5. CASE DecodeNext
  BY <1>5, DecodeRoomSchedule, DecodeRoomAdmit, DecodeRoomSend, DecodeRoomExecute, DecodeRoomComplete
     DEF DecodeNext
<1>6. ASSUME NEW t \in TransferThreads, TestQueue(t) \/ GetMetadata(t) \/ \E s \in refs[t] : WaitReady(t, s)
      PROVE  DecodeRoom'
  <2>1. /\ UNCHANGED <<shape, gen, dphase, dstep, dtable, dworker, running, pendingDecode,
                       preemptedSeqs, insertQueue>>
        /\ dmap \subseteq dmap'
    BY <1>6 DEF TestQueue, GetMetadata, WaitReady, ThreadFrame, tokenVars, queueVars, decodeVars
  <2>2. /\ \A u \in SwapThreads : pc'[u] = pc[u] /\ cur'[u] = cur[u]
        /\ \A u \in TransferThreads : pc'[u] \in {"refused", "dry"} => pc[u] \in {"refused", "dry"}
    <3>1. /\ \A u \in Threads : u # t => pc'[u] = pc[u] /\ cur'[u] = cur[u]
          /\ pc'[t] \in {"test", "get", "wait", "insert", "keyerror"}
      BY <1>0, <1>6 DEF TestQueue, GetMetadata, WaitReady
    <3> QED
      BY <1>0, <3>1
  <2> QED
    BY <2>1, <2>2, DecodeRoomSame
<1>7. ASSUME NEW t \in Threads, ThreadNext(t) PROVE DecodeRoom'
  BY <1>6, <1>7, DecodeRoomInsert, DecodeRoomReturn DEF ThreadNext
<1>8. CASE UNCHANGED vars
  BY <1>1, <1>8 DEF vars, tokenVars, queueVars, decodeVars, threadVars
<1> QED
  BY <1>3, <1>4, <1>5, <1>7, <1>8 DEF Next

LEMMA InitDecodeRoom == Init => DecodeRoom
<1> SUFFICES ASSUME Init PROVE DecodeRoom
  OBVIOUS
<1>1. dtable \in [Requests -> Nat] /\ Used(dtable) = 0 /\ DecodeBlocks \in Nat
  BY UsedNone, Constants DEF Init
<1>2. Promised \in [Requests -> Nat] /\ Used(Promised) = 0
  <2>1. Promised \in [Requests -> Nat] /\ \A s \in Requests : Promised[s] = 0
    BY DEF Init, Promised, InStep
  <2> QED
    BY <2>1, UsedNone
<1>3. \A s \in Requests : Agrees(s)
  BY RangeEmpty DEF Init, Agrees, Promised, InStep, NoDecode
<1>4. \A t \in TransferThreads : pc[t] \notin {"refused", "dry"}
  BY DEF Init, Threads
<1> QED
  BY <1>1, <1>2, <1>3, <1>4 DEF Init, DecodeRoom, Replayed

(* As long as every preemption reached the workers, an inserted cache and  *)
(* every new slot find their blocks, although the transfer threads, the    *)
(* run thread and the workers work on counts of their own                  *)
(* (decode_scheduler.py:51-54,147).                                        *)
THEOREM DSInsertsFit == Spec => []InsertsFitIfReplayed
<1>1. Init => DSInv /\ DecodeRoom
  BY DSInvInit, InitDecodeRoom
<1>2. DSInv /\ DecodeRoom /\ [Next]_vars => (DSInv /\ DecodeRoom)'
  BY DSInvNext, DecodeRoomInductive
<1>3. ASSUME DSInv, DecodeRoom, Unreplayed = {}
      PROVE  /\ InsertsFit
             /\ dphase = "idle" => \A s \in running \cup pendingDecode : dworker[s] = dtable[s]
  <2>1. Replayed
    BY <1>3 DEF DecodeRoom
  <2>2. InsertsFit
    BY <1>3, <2>1, WorkersFollow DEF InsertsFit, Replayed
  <2>3. ASSUME dphase = "idle", NEW s \in running \cup pendingDecode PROVE dworker[s] = dtable[s]
    <3>1. dstep.decodes = {}
      BY <1>3, <2>3 DEF DSInv, Shaped, DecodeShape, NoDecode
    <3>2. s \in Requests
      BY <1>3 DEF DSInv, StateTyped
    <3> QED
      BY <2>1, <2>3, <3>1, <3>2 DEF Replayed, Agrees
  <2> QED
    BY <2>2, <2>3
<1>4. DSInv /\ DecodeRoom => InsertsFitIfReplayed
  BY <1>3 DEF InsertsFitIfReplayed
<1> QED
  BY <1>1, <1>2, <1>4, PTL DEF Spec

=============================================================================
