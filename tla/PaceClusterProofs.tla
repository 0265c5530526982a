------------------------- MODULE PaceClusterProofs --------------------------
(***************************************************************************)
(* Proofs about the cluster, for any requests, any window and any numbers  *)
(* of instances: the type invariant of the threads; no request is lost or  *)
(* served twice; no completion is lost; the queue is never popped empty.   *)
(***************************************************************************)
EXTENDS PaceCluster, CommonLemmas

-----------------------------------------------------------------------------
(* The type of the threads' state.                                         *)

LEMMA HeadOfRank ==
  ASSUME NEW S \in SUBSET Requests, S # {}
  PROVE  Min(S) \in S
  BY ClusterAssumption, FS_Subset, MinMember DEF ClusterAssumption

LEMMA InstanceTypes ==
  /\ \A n \in 0..NumLP - 1 : <<"LP", n>> \in LPs
  /\ \A n \in 0..NumHP - 1 : <<"HP", n>> \in HPs
  /\ LPs \subseteq Instances /\ HPs \subseteq Instances
  /\ \A i \in Instances : i \notin LPs => i \in HPs
  /\ LPs \cap HPs = {}
  BY DEF LPs, HPs, Instances

(* The records of the remote calls.                                        *)
LEMMA RecordTypes ==
  /\ NoAsk \in Asks /\ [NoAsk EXCEPT !.at = "called"] \in Asks
  /\ \A a \in Asks : /\ a.got \in Seq(Requests)
                     /\ [a EXCEPT !.at = "answered"] \in Asks
                     /\ \A q \in Seq(Requests) : [a EXCEPT !.got = q] \in Asks
  /\ NoReport \in Reports /\ [NoReport EXCEPT !.at = "called"] \in Reports
  /\ \A o \in Reports : /\ \A S \in SUBSET Requests :
                           [o EXCEPT !.at = "copied", !.ids = S] \in Reports
                        /\ \A n \in Nat : [o EXCEPT !.at = "answered", !.count = n] \in Reports
  /\ \A i \in Instances, r \in Requests :
       /\ [to |-> i, kind |-> "request", req |-> r] \in RemoteCalls
       /\ [to |-> i, kind |-> "sequence", req |-> r] \in RemoteCalls
<1>1. <<>> \in Seq(Requests)
  OBVIOUS
<1>2. NoAsk \in Asks /\ [NoAsk EXCEPT !.at = "called"] \in Asks
  BY <1>1 DEF NoAsk, Asks
<1>3. NoReport \in Reports /\ [NoReport EXCEPT !.at = "called"] \in Reports
  BY DEF NoReport, Reports
<1> QED
  BY <1>2, <1>3 DEF Asks, Reports, RemoteCalls

LEMMA InitType == ClusterInit => ThreadsTypeOK
<1> SUFFICES ASSUME ClusterInit PROVE ThreadsTypeOK
  OBVIOUS
<1>0. NumLP \in Nat \ {0} /\ NumHP \in Nat \ {0} /\ <<>> \in Seq(Requests)
  BY ClusterAssumption DEF ClusterAssumption
<1>1. ControllerTypeOK
  <2>1. 0 \in 0..NumLP - 1 /\ 0 \in 0..NumHP - 1
    BY <1>0
  <2> QED
    BY <1>0, <2>1 DEF ClusterInit, ControllerTypeOK
<1>2. PollTypeOK
  <2>1. NoAsk \in Asks /\ poll = "check" /\ putting = <<>> /\ ask = [l \in LPs |-> NoAsk]
    BY RecordTypes DEF ClusterInit
  <2> QED
    BY <1>0, <2>1 DEF PollTypeOK
<1>3. CollectTypeOK
  BY RecordTypes DEF ClusterInit, CollectTypeOK
<1>4. InstanceTypeOK
  BY <1>0 DEF ClusterInit, Empty, InstanceTypeOK
<1> QED
  BY <1>1, <1>2, <1>3, <1>4 DEF ThreadsTypeOK

(* What a step leaves alone keeps its type.                                *)
LEMMA TypeFrames ==
  ASSUME ThreadsTypeOK
  PROVE  /\ UNCHANGED <<schedVars, hpQueue, calls>> => ControllerTypeOK'
         /\ UNCHANGED pollVars => PollTypeOK'
         /\ UNCHANGED <<collect, report, inWindow, stopVars>> => CollectTypeOK'
         /\ UNCHANGED <<inboxVars, engineVars, outputVars>> => InstanceTypeOK'
<1>1. UNCHANGED <<schedVars, hpQueue, calls>> => ControllerTypeOK'
  BY DEF schedVars, ThreadsTypeOK, ControllerTypeOK
<1>2. UNCHANGED pollVars => PollTypeOK'
  BY DEF pollVars, ThreadsTypeOK, PollTypeOK
<1>3. UNCHANGED <<collect, report, inWindow, stopVars>> => CollectTypeOK'
  BY DEF stopVars, ThreadsTypeOK, CollectTypeOK
<1>4. UNCHANGED <<inboxVars, engineVars, outputVars>> => InstanceTypeOK'
  BY DEF inboxVars, engineVars, outputVars, ThreadsTypeOK, InstanceTypeOK
<1> QED
  BY <1>1, <1>2, <1>3, <1>4

LEMMA NextIndex ==
  ASSUME NEW n \in Nat \ {0}, NEW k \in 0..n - 1
  PROVE  (k + 1) % n \in 0..n - 1
  OBVIOUS

LEMMA TargetsType ==
  ASSUME ControllerTypeOK
  PROVE  TargetHP \in HPs /\ TargetLP \in LPs
  BY InstanceTypes DEF ControllerTypeOK, TargetHP, TargetLP

LEMMA ScheduleType ==
  ASSUME ThreadsTypeOK, Schedule
  PROVE  ThreadsTypeOK'
<1>0. /\ ControllerTypeOK
      /\ NumLP \in Nat \ {0} /\ NumHP \in Nat \ {0}
      /\ TargetHP \in Instances /\ TargetLP \in Instances
  BY ClusterAssumption, TargetsType, InstanceTypes DEF ClusterAssumption, ThreadsTypeOK
<1>1. UNCHANGED <<pollVars, collectVars, stopVars, inboxVars, engineVars, outputVars>>
  BY DEF Schedule, TakeArrival, NoArrival, EndSchedule, TestMore, ReadTicket, SendUrgent,
         SendDirect, SendLow, SchedFrame
<1>2. PollTypeOK' /\ CollectTypeOK' /\ InstanceTypeOK'
  BY <1>1, TypeFrames DEF collectVars
<1>3. ControllerTypeOK'
  <2>1. CASE TakeArrival
    BY <1>0, <2>1, HeadOfRank DEF TakeArrival, ControllerTypeOK
  <2>2. CASE NoArrival \/ EndSchedule \/ TestMore
    BY <1>0, <2>2 DEF NoArrival, EndSchedule, TestMore, ControllerTypeOK
  <2>3. CASE ReadTicket
    BY <1>0, <2>3 DEF ReadTicket, Answer, ControllerTypeOK
  <2>4. CASE SendUrgent
    <3>1. Head(hpQueue) \in Requests /\ Tail(hpQueue) \in Seq(Requests)
      BY <1>0, <2>4, RangeTail DEF SendUrgent, ControllerTypeOK
    <3>2. (highIdx + 1) % NumHP \in 0..NumHP - 1
      BY <1>0, NextIndex DEF ControllerTypeOK
    <3> QED
      BY <1>0, <2>4, RecordTypes, <3>1, <3>2 DEF SendUrgent, Call, EndTurn, ControllerTypeOK
  <2>5. CASE SendDirect
    <3>1. Min(toSchedule) \in Requests
      BY <1>0, <2>5, HeadOfRank DEF SendDirect, PopRequest, ControllerTypeOK
    <3>2. (highIdx + 1) % NumHP \in 0..NumHP - 1
      BY <1>0, NextIndex DEF ControllerTypeOK
    <3> QED
      BY <1>0, <2>5, RecordTypes, <3>1, <3>2 DEF SendDirect, PopRequest, Call, EndTurn, ControllerTypeOK
  <2>6. CASE SendLow
    <3>1. Min(toSchedule) \in Requests
      BY <1>0, <2>6, HeadOfRank DEF SendLow, PopRequest, ControllerTypeOK
    <3>2. (lowIdx + 1) % NumLP \in 0..NumLP - 1
      BY <1>0, NextIndex DEF ControllerTypeOK
    <3> QED
      BY <1>0, <2>6, RecordTypes, <3>1, <3>2 DEF SendLow, PopRequest, Call, EndTurn, ControllerTypeOK
  <2> QED
    BY <2>1, <2>2, <2>3, <2>4, <2>5, <2>6 DEF Schedule
<1> QED
  BY <1>2, <1>3 DEF ThreadsTypeOK

LEMMA DeliverType ==
  ASSUME ThreadsTypeOK, NEW c \in calls, Deliver(c)
  PROVE  ThreadsTypeOK'
<1>1. PollTypeOK' /\ CollectTypeOK'
  BY TypeFrames DEF Deliver, collectVars
<1>2. ControllerTypeOK'
  BY DEF Deliver, schedVars, ThreadsTypeOK, ControllerTypeOK
<1>3. InstanceTypeOK'
  <2>1. c.req \in Requests /\ InstanceTypeOK
    BY DEF ThreadsTypeOK, ControllerTypeOK, RemoteCalls
  <2>2. CASE c.kind = "request"
    <3>1. /\ requests' = [requests EXCEPT ![c.to] = @ \cup {c.req}]
          /\ UNCHANGED <<pending, engineVars, outputVars>>
      BY <2>2 DEF Deliver
    <3>2. requests' \in [Instances -> SUBSET Requests]
      BY <2>1, <3>1 DEF InstanceTypeOK
    <3> QED
      BY <2>1, <3>1, <3>2 DEF InstanceTypeOK, engineVars, outputVars
  <2>3. CASE c.kind # "request"
    BY <2>1, <2>3 DEF Deliver, InstanceTypeOK, engineVars, outputVars
  <2> QED
    BY <2>2, <2>3
<1> QED
  BY <1>1, <1>2, <1>3 DEF ThreadsTypeOK

LEMMA PollThreadType ==
  ASSUME ThreadsTypeOK, Poll
  PROVE  ThreadsTypeOK'
<1>0. /\ PollTypeOK /\ ControllerTypeOK
      /\ UNCHANGED <<schedVars, calls, collectVars, stopVars, inboxVars, engineVars, outputVars>>
  BY DEF Poll, PollCheck, PollTimeout, PollPut, PollReady, PollFrame, engineVars, ThreadsTypeOK
<1>1. CollectTypeOK' /\ InstanceTypeOK'
  BY <1>0, TypeFrames DEF collectVars
<1>2. ControllerTypeOK' /\ PollTypeOK'
  <2>1. CASE UNCHANGED hpQueue
    <3>1. ControllerTypeOK'
      BY <1>0, <2>1, TypeFrames
    <3>2. PollTypeOK'
      <4>1. CASE PollCheck
        BY <1>0, <4>1, RecordTypes DEF PollCheck, PollTypeOK
      <4>2. CASE PollTimeout
        BY <1>0, <4>2 DEF PollTimeout, PollTypeOK
      <4>3. ASSUME NEW l \in LPs, PollReady(l) PROVE PollTypeOK'
        BY <1>0, <4>3, RecordTypes DEF PollReady, PollTypeOK
      <4>4. CASE PollPut
        BY <1>0, <4>4, RangeTail DEF PollPut, PollTypeOK
      <4> QED
        BY <4>1, <4>2, <4>3, <4>4 DEF Poll
    <3> QED
      BY <3>1, <3>2
  <2>2. CASE PollPut /\ putting # <<>>
    <3>1. Head(putting) \in Requests /\ Tail(putting) \in Seq(Requests)
      BY <1>0, <2>2, RangeTail DEF PollTypeOK
    <3>2. Append(hpQueue, Head(putting)) \in Seq(Requests)
      BY <1>0, <3>1, RangeAppend DEF ControllerTypeOK
    <3> QED
      BY <1>0, <2>2, <3>1, <3>2 DEF PollPut, schedVars, PollTypeOK, ControllerTypeOK
  <2> QED
    BY <2>1, <2>2 DEF Poll, PollCheck, PollTimeout, PollPut, PollReady
<1> QED
  BY <1>1, <1>2 DEF ThreadsTypeOK

LEMMA GetHpRequestType ==
  ASSUME ThreadsTypeOK, NEW l \in LPs, GetHpRequest(l)
  PROVE  ThreadsTypeOK'
<1>0. PollTypeOK /\ InstanceTypeOK
  BY DEF ThreadsTypeOK
<1>1. ControllerTypeOK' /\ CollectTypeOK'
  BY TypeFrames DEF GetHpRequest, PollFrame, collectVars
<1>2. ask' \in [LPs -> Asks]
      /\ offloaded' \in [LPs -> Seq(Requests)]
  <2>0. offloaded[l] \in Seq(Requests) /\ ask[l].got \in Seq(Requests)
    BY <1>0, RecordTypes DEF InstanceTypeOK, PollTypeOK
  <2>3. ask[l] \in Asks
    BY <1>0 DEF PollTypeOK
  <2>4. [ask[l] EXCEPT !.at = "answered"] \in Asks
    BY <2>3, RecordTypes
  <2>1. CASE offloaded[l] = <<>>
    BY <1>0, <2>1, <2>4 DEF GetHpRequest, PollTypeOK, InstanceTypeOK
  <2>2. CASE offloaded[l] # <<>>
    <3>1. Head(offloaded[l]) \in Requests /\ Tail(offloaded[l]) \in Seq(Requests)
      BY <2>2, <2>0, RangeTail
    <3>2. Append(ask[l].got, Head(offloaded[l])) \in Seq(Requests)
      BY <2>0, <3>1, RangeAppend
    <3>3. [ask[l] EXCEPT !.got = Append(ask[l].got, Head(offloaded[l]))] \in Asks
      BY <2>3, <3>2, RecordTypes
    <3> QED
      BY <1>0, <2>2, <3>1, <3>3 DEF GetHpRequest, PollTypeOK, InstanceTypeOK
  <2> QED
    BY <2>1, <2>2
<1>3. PollTypeOK' /\ InstanceTypeOK'
  BY <1>0, <1>2 DEF GetHpRequest, PollFrame, inboxVars, outputVars, PollTypeOK, InstanceTypeOK
<1> QED
  BY <1>1, <1>3 DEF ThreadsTypeOK

LEMMA CollectThreadType ==
  ASSUME ThreadsTypeOK, Collect \/ StopController
  PROVE  ThreadsTypeOK'
<1>0. /\ CollectTypeOK
      /\ UNCHANGED <<schedVars, hpQueue, calls, pollVars, inboxVars, engineVars, outputVars>>
  BY DEF Collect, CollectCheck, CollectGather, CollectStop, StopController, CollectFrame,
         ThreadsTypeOK
<1>1. ControllerTypeOK' /\ PollTypeOK' /\ InstanceTypeOK'
  BY <1>0, TypeFrames
<1>2. CollectTypeOK'
  <2>1. CASE CollectCheck
    BY <1>0, <2>1, RecordTypes DEF CollectCheck, CollectTypeOK, stopVars
  <2>2. CASE CollectGather
    BY <1>0, <2>2, RecordTypes DEF CollectGather, CollectTypeOK, stopVars
  <2>3. CASE CollectStop
    BY <1>0, <2>3 DEF CollectStop, CollectTypeOK
  <2>4. CASE StopController
    BY <1>0, <2>4 DEF StopController, CollectTypeOK
  <2> QED
    BY <2>1, <2>2, <2>3, <2>4 DEF Collect
<1> QED
  BY <1>1, <1>2 DEF ThreadsTypeOK

LEMMA ReportType ==
  ASSUME ThreadsTypeOK, NEW i \in Instances, CopyIds(i) \/ RemoveIds(i)
  PROVE  ThreadsTypeOK'
<1>0. /\ CollectTypeOK /\ InstanceTypeOK
      /\ UNCHANGED <<schedVars, hpQueue, calls, pollVars, inboxVars, engineVars>>
  BY DEF CopyIds, RemoveIds, CollectFrame, ThreadsTypeOK
<1>1. ControllerTypeOK' /\ PollTypeOK'
  BY <1>0, TypeFrames
<1>2. Cardinality(outputs[i]) \in Nat
  BY <1>0, ClusterAssumption, FS_Subset, FS_CardinalityType
     DEF ClusterAssumption, InstanceTypeOK
<1>3. /\ report' \in [Instances -> Reports]
      /\ newIds' \in [Instances -> SUBSET Requests]
  <2>1. CASE CopyIds(i)
    BY <1>0, <2>1, RecordTypes DEF CopyIds, CollectTypeOK, InstanceTypeOK, outputVars
  <2>2. CASE RemoveIds(i)
    BY <1>0, <1>2, <2>2, RecordTypes DEF RemoveIds, CollectTypeOK, InstanceTypeOK
  <2> QED
    BY <2>1, <2>2
<1>4. CollectTypeOK'
  BY <1>0, <1>3 DEF CopyIds, RemoveIds, stopVars, CollectTypeOK
<1>5. InstanceTypeOK'
  BY <1>0, <1>3 DEF CopyIds, RemoveIds, inboxVars, engineVars, outputVars, InstanceTypeOK
<1> QED
  BY <1>1, <1>4, <1>5 DEF ThreadsTypeOK

LEMMA RunStepType ==
  ASSUME ThreadsTypeOK, NEW i \in Instances, RunStep(i)
  PROVE  ThreadsTypeOK'
<1>0. /\ InstanceTypeOK
      /\ UNCHANGED <<schedVars, hpQueue, calls, pollVars, collectVars, stopVars>>
  BY DEF RunStep, Intake, EndRun, StepEnd, AppendOutput, NoteFinished, RunFrame, ThreadsTypeOK
<1>1. ControllerTypeOK' /\ PollTypeOK' /\ CollectTypeOK'
  BY <1>0, TypeFrames DEF collectVars
<1>2. /\ Pending(i) \subseteq Requests /\ Fresh(i) \subseteq Requests
      /\ \A S \in SUBSET Requests : SetFresh(i, S) => fresh' \in [LPs -> SUBSET Requests]
  BY <1>0 DEF Pending, Fresh, SetFresh, InstanceTypeOK
<1>3. InstanceTypeOK'
  <2>1. CASE Intake(i)
    BY <1>0, <1>2, <2>1 DEF Intake, InstanceTypeOK, outputVars
  <2>2. CASE EndRun(i)
    BY <1>0, <2>2 DEF EndRun, InstanceTypeOK, inboxVars, outputVars
  <2>3. ASSUME NEW E \in SUBSET engine[i], NEW F \in SUBSET (Fresh(i) \ E), StepEnd(i, E, F)
        PROVE  InstanceTypeOK'
    BY <1>0, <1>2, <2>3 DEF StepEnd, InstanceTypeOK, inboxVars
  <2>4. ASSUME NEW r \in done[i], AppendOutput(i, r) \/ NoteFinished(i, r)
        PROVE  InstanceTypeOK'
    <3>1. r \in Requests
      BY <1>0, <2>4 DEF InstanceTypeOK
    <3>2. CASE AppendOutput(i, r)
      BY <1>0, <3>1, <3>2 DEF AppendOutput, InstanceTypeOK, engineVars, inboxVars
    <3>3. CASE NoteFinished(i, r)
      BY <1>0, <3>1, <3>3 DEF NoteFinished, InstanceTypeOK, engineVars, inboxVars
    <3> QED
      BY <2>4, <3>2, <3>3
  <2> QED
    BY <2>1, <2>2, <2>3, <2>4 DEF RunStep
<1> QED
  BY <1>1, <1>3 DEF ThreadsTypeOK

LEMMA OffloadType ==
  ASSUME ThreadsTypeOK, NEW l \in LPs, NEW r \in fresh[l], Offload(l, r)
  PROVE  ThreadsTypeOK'
<1>0. InstanceTypeOK /\ l \in Instances
  BY InstanceTypes DEF ThreadsTypeOK
<1>1. ControllerTypeOK' /\ PollTypeOK' /\ CollectTypeOK'
  BY TypeFrames DEF Offload, RunFrame, collectVars
<1>2. Append(offloaded[l], r) \in Seq(Requests)
  BY <1>0, RangeAppend DEF InstanceTypeOK
<1>3. InstanceTypeOK'
  BY <1>0, <1>2 DEF Offload, InstanceTypeOK, inboxVars, outputVars
<1> QED
  BY <1>1, <1>3 DEF ThreadsTypeOK

LEMMA TypeInductive == ThreadsTypeOK /\ [ClusterNext]_clusterVars => ThreadsTypeOK'
<1> SUFFICES ASSUME ThreadsTypeOK, [ClusterNext]_clusterVars PROVE ThreadsTypeOK'
  OBVIOUS
<1>1. CASE UNCHANGED clusterVars
  BY <1>1, TypeFrames DEF clusterVars, collectVars, ThreadsTypeOK
<1>2. CASE ClusterNext
  BY <1>2, ScheduleType, DeliverType, PollThreadType, GetHpRequestType, CollectThreadType,
     ReportType, RunStepType, OffloadType DEF ClusterNext
<1> QED
  BY <1>1, <1>2

(* The state of the controller's threads, of the calls under way and of    *)
(* the instances always has its type.                                      *)
THEOREM ThreadsTypeCorrect == ClusterSpec => []ThreadsTypeOK
  BY InitType, TypeInductive, PTL DEF ClusterSpec

-----------------------------------------------------------------------------
(* The queue is never popped empty.                                        *)

(* What the loop test of _schedule saw holds in every later place of the   *)
(* turn: PopSafe alone says nothing of the places before the decision.     *)
TurnHasRequest ==
  sched \in {"pending", "waiting", "requests", "decide"} => MoreToSchedule

LEMMA TurnInductive ==
  ThreadsTypeOK /\ TurnHasRequest /\ [ClusterNext]_clusterVars => TurnHasRequest'
<1> SUFFICES ASSUME ThreadsTypeOK, TurnHasRequest, [ClusterNext]_clusterVars
             PROVE  TurnHasRequest'
  OBVIOUS
<1>1. CASE Schedule
  BY <1>1 DEF Schedule, TakeArrival, NoArrival, EndSchedule, TestMore, ReadTicket, Answer,
              SendUrgent, SendDirect, SendLow, EndTurn, TurnHasRequest, MoreToSchedule
<1>2. CASE UNCHANGED <<sched, toSchedule, hpQueue>>
  BY <1>2 DEF TurnHasRequest, MoreToSchedule
<1>3. CASE PollPut
  <2>1. CASE putting = <<>>
    BY <1>3, <2>1 DEF PollPut, PollFrame, schedVars, TurnHasRequest, MoreToSchedule
  <2>2. CASE putting # <<>>
    <3>1. hpQueue' = Append(hpQueue, Head(putting)) /\ UNCHANGED <<sched, toSchedule>>
      BY <1>3, <2>2 DEF PollPut, PollFrame, schedVars
    <3>2. Head(putting) \in Requests
      BY <2>2, RangeTail DEF ThreadsTypeOK, PollTypeOK
    <3>3. hpQueue' # <<>>
      BY <3>1, <3>2, RangeAppend DEF ThreadsTypeOK, ControllerTypeOK
    <3> QED
      BY <3>1, <3>3 DEF TurnHasRequest, MoreToSchedule
  <2> QED
    BY <2>1, <2>2
<1>4. CASE Poll /\ ~PollPut
  BY <1>2, <1>4 DEF Poll, PollCheck, PollTimeout, PollReady, PollFrame, schedVars
<1>5. CASE Collect \/ StopController \/ \E i \in Instances : CopyIds(i) \/ RemoveIds(i)
  BY <1>2, <1>5 DEF Collect, CollectCheck, CollectGather, CollectStop, StopController, CopyIds,
                    RemoveIds, CollectFrame, schedVars
<1>6. CASE \E i \in Instances : RunStep(i)
  BY <1>2, <1>6 DEF RunStep, Intake, EndRun, StepEnd, AppendOutput, NoteFinished, RunFrame,
                    schedVars
<1>7. CASE \/ \E c \in calls : Deliver(c)
           \/ \E l \in LPs : GetHpRequest(l) \/ \E r \in fresh[l] : Offload(l, r)
           \/ UNCHANGED clusterVars
  BY <1>2, <1>7 DEF Deliver, GetHpRequest, Offload, PollFrame, RunFrame, clusterVars, schedVars
<1> QED
  BY <1>1, <1>3, <1>4, <1>5, <1>6, <1>7 DEF ClusterNext

(* pop(0) of _schedule never meets an empty list, whatever the polling     *)
(* thread does between the loop test and the pop.                          *)
THEOREM QueueNeverPoppedEmpty == ClusterSpec => []PopSafe
<1>1. ClusterInit => TurnHasRequest
  BY DEF ClusterInit, TurnHasRequest
<1>2. TurnHasRequest => PopSafe
  BY DEF TurnHasRequest, MoreToSchedule, PopSafe
<1> QED
  BY <1>1, <1>2, TurnInductive, ThreadsTypeCorrect, PTL DEF ClusterSpec

-----------------------------------------------------------------------------
(* No completion is lost.                                                  *)

(* Between two steps only, outputs wait to be noted; a report exists only  *)
(* while the completion thread gathers, holds identifiers only once they   *)
(* were copied, and those are of outputs.                                  *)
IdsTracked ==
  /\ \A i \in Instances : run[i] # "top" => done[i] = {}
  /\ collect # "gather" => \A i \in Instances : report[i] = NoReport
  /\ \A i \in Instances : report[i].at \in {"none", "called"} => report[i].ids = {}
  /\ \A i \in Instances : newIds[i] \cup report[i].ids \subseteq outputs[i]

IdsInvariant == IdsTracked /\ NoIdLost

LEMMA IdsFrame ==
  ASSUME IdsInvariant, UNCHANGED <<run, done, collect, report, inWindow, outputs, newIds>>
  PROVE  IdsInvariant'
  BY DEF IdsInvariant, IdsTracked, NoIdLost, FinishedIds

LEMMA IdsCollect ==
  ASSUME ThreadsTypeOK, IdsInvariant, Collect
  PROVE  IdsInvariant'
<1> USE DEF IdsInvariant, IdsTracked, NoIdLost, FinishedIds
<1>0. UNCHANGED <<run, done, outputs, newIds>>
  BY DEF Collect, CollectCheck, CollectGather, CollectStop, CollectFrame, engineVars, outputVars
<1>1. CASE CollectCheck
  BY <1>0, <1>1 DEF CollectCheck, NoReport
<1>2. CASE CollectGather
  <2>1. /\ collect = "gather" /\ collect' # "gather"
        /\ inWindow' = inWindow \ UNION {report[i].ids : i \in Instances}
        /\ report' = [i \in Instances |-> NoReport]
    BY <1>2 DEF CollectGather
  <2>2. IdsTracked'
    BY <1>0, <2>1 DEF NoReport
  <2>3. NoIdLost'
    BY <1>0, <2>1 DEF NoReport
  <2> QED
    BY <2>2, <2>3
<1>3. CASE CollectStop
  BY <1>0, <1>3 DEF CollectStop
<1> QED
  BY <1>1, <1>2, <1>3 DEF Collect

LEMMA IdsReport ==
  ASSUME ThreadsTypeOK, IdsInvariant, NEW i \in Instances, CopyIds(i) \/ RemoveIds(i)
  PROVE  IdsInvariant'
<1> USE DEF IdsInvariant, IdsTracked, NoIdLost, FinishedIds
<1>0. /\ UNCHANGED <<run, collect, inWindow, done, outputs>>
      /\ report \in [Instances -> Reports] /\ newIds \in [Instances -> SUBSET Requests]
  BY DEF CopyIds, RemoveIds, CollectFrame, engineVars, outputVars, ThreadsTypeOK,
         CollectTypeOK, InstanceTypeOK
<1>1. collect = "gather"
  BY <1>0 DEF CopyIds, RemoveIds, NoReport
<1>2. CASE CopyIds(i)
  <2>1. /\ UNCHANGED newIds
        /\ report[i].ids = {} /\ report'[i].ids = newIds[i] /\ report'[i].at = "copied"
        /\ \A j \in Instances \ {i} : report'[j] = report[j]
    BY <1>0, <1>2 DEF CopyIds, outputVars, Reports
  <2> QED
    BY <1>0, <1>1, <2>1
<1>3. CASE RemoveIds(i)
  <2>1. /\ newIds'[i] = newIds[i] \ report[i].ids
        /\ report'[i].ids = report[i].ids /\ report'[i].at = "answered"
        /\ \A j \in Instances \ {i} : report'[j] = report[j] /\ newIds'[j] = newIds[j]
    BY <1>0, <1>3 DEF RemoveIds, Reports
  <2> QED
    BY <1>0, <1>1, <2>1
<1> QED
  BY <1>2, <1>3

LEMMA IdsRunStep ==
  ASSUME ThreadsTypeOK, IdsInvariant, NEW i \in Instances, RunStep(i)
  PROVE  IdsInvariant'
<1> USE DEF IdsInvariant, IdsTracked, NoIdLost, FinishedIds
<1>0. /\ UNCHANGED <<collect, inWindow, report>>
      /\ done \in [Instances -> SUBSET Requests] /\ outputs \in [Instances -> SUBSET Requests]
      /\ newIds \in [Instances -> SUBSET Requests]
      /\ run \in [Instances -> {"top", "step", "ended"}]
  BY DEF RunStep, Intake, EndRun, StepEnd, AppendOutput, NoteFinished, RunFrame, collectVars,
         ThreadsTypeOK, InstanceTypeOK
<1>1. CASE Intake(i) \/ EndRun(i)
  BY <1>0, <1>1 DEF Intake, EndRun, outputVars
<1>2. ASSUME NEW E \in SUBSET engine[i], NEW F \in SUBSET (Fresh(i) \ E), StepEnd(i, E, F)
      PROVE  IdsInvariant'
  <2>1. /\ UNCHANGED <<outputs, newIds>> /\ run' = [run EXCEPT ![i] = "top"]
        /\ done[i] = {} /\ done' = [done EXCEPT ![i] = E]
    BY <1>2 DEF StepEnd
  <2>2. \A j \in Instances : done[j] \subseteq done'[j]
    BY <1>0, <2>1
  <2>3. \A j \in Instances : run'[j] # "top" => run[j] # "top" /\ done'[j] = done[j]
    BY <1>0, <2>1
  <2> QED
    BY <1>0, <2>1, <2>2, <2>3
<1>3. ASSUME NEW r \in done[i], AppendOutput(i, r) PROVE IdsInvariant'
  <2>1. /\ UNCHANGED <<run, done, newIds>>
        /\ outputs'[i] = outputs[i] \cup {r}
        /\ \A j \in Instances \ {i} : outputs'[j] = outputs[j]
    BY <1>0, <1>3 DEF AppendOutput, engineVars
  <2> QED
    BY <1>0, <1>3, <2>1
<1>4. ASSUME NEW r \in done[i], NoteFinished(i, r) PROVE IdsInvariant'
  <2>1. /\ UNCHANGED <<run, outputs>> /\ r \in outputs[i]
        /\ newIds'[i] = newIds[i] \cup {r} /\ done'[i] = done[i] \ {r}
        /\ \A j \in Instances \ {i} : newIds'[j] = newIds[j] /\ done'[j] = done[j]
    BY <1>0, <1>4 DEF NoteFinished, engineVars
  <2> QED
    BY <1>0, <1>4, <2>1
<1> QED
  BY <1>1, <1>2, <1>3, <1>4 DEF RunStep

LEMMA IdsInductive ==
  ThreadsTypeOK /\ IdsInvariant /\ [ClusterNext]_clusterVars => IdsInvariant'
<1> SUFFICES ASSUME ThreadsTypeOK, IdsInvariant, [ClusterNext]_clusterVars
             PROVE  IdsInvariant'
  OBVIOUS
<1>1. CASE Schedule \/ \E c \in calls : Deliver(c)
  BY <1>1, IdsFrame DEF Schedule, TakeArrival, NoArrival, EndSchedule, TestMore, ReadTicket,
     SendUrgent, SendDirect, SendLow, SchedFrame, Deliver, collectVars, engineVars, outputVars
<1>2. CASE Poll \/ \E l \in LPs : GetHpRequest(l)
  BY <1>2, IdsFrame DEF Poll, PollCheck, PollTimeout, PollPut, PollReady, GetHpRequest,
     PollFrame, collectVars, outputVars
<1>3. CASE StopController \/ UNCHANGED clusterVars
  BY <1>3, IdsFrame DEF StopController, CollectFrame, clusterVars, collectVars, engineVars,
     outputVars
<1>4. CASE \E l \in LPs : \E r \in fresh[l] : Offload(l, r)
  BY <1>4, IdsFrame DEF Offload, RunFrame, collectVars, outputVars
<1> QED
  BY <1>1, <1>2, <1>3, <1>4, IdsCollect, IdsReport, IdsRunStep DEF ClusterNext

(* The identifier of every finished request of the window reaches the      *)
(* completion thread, with any number of instances, although the set it    *)
(* travels through is copied and subtracted while the run thread adds.     *)
THEOREM CompletionsReachController == ClusterSpec => []NoIdLost
<1>1. ClusterInit => IdsInvariant
  BY DEF ClusterInit, Empty, NoReport, IdsInvariant, IdsTracked, NoIdLost, FinishedIds
<1>2. IdsInvariant => NoIdLost
  BY DEF IdsInvariant
<1> QED
  BY <1>1, <1>2, IdsInductive, ThreadsTypeCorrect, PTL DEF ClusterSpec

-----------------------------------------------------------------------------
(* No request is lost or served twice.                                     *)

(* What makes a move from one place to the next complete: a sequence is    *)
(* sent to instances that take it in, and the hands of a thread are empty  *)
(* when it reaches for more.  OneCopy is not inductive without it.         *)
HandsFree ==
  /\ \A c \in calls : c.kind = "sequence" => c.to \in HPs
  /\ poll # "put" => putting = <<>>
  /\ \A l \in LPs : ask[l].at = "none" => ask[l].got = <<>>
  /\ \A i \in Instances : run[i] # "top" => done[i] = {}
  /\ \A l \in LPs : fresh[l] \subseteq engine[l]

LEMMA SitesArePairs ==
  /\ \A s \in Sites : s = <<s[1], s[2]>>
  /\ \A p \in {"generated", "toSchedule", "hpQueue", "putting"} : <<p, Controller>> \in Sites
  /\ \A p \in {"requestCall", "requests", "engine", "output"}, i \in Instances : <<p, i>> \in Sites
  /\ \A p \in {"sequenceCall", "pending"}, i \in HPs : <<p, i>> \in Sites
  /\ \A p \in {"offloaded", "answer"}, i \in LPs : <<p, i>> \in Sites
  BY DEF Sites

LEMMA OneSite ==
  ASSUME OneCopy, NEW r \in Requests, NEW s \in Sites, NEW t \in Sites,
         Holds(r, s[1], s[2]), Holds(r, t[1], t[2])
  PROVE  s = t
  BY DEF OneCopy, Whereabouts

(* The requests of M go from the sites Src to the site d.                  *)
Moves(M, Src, d) ==
  \A r \in Requests : \A s \in Sites :
    Holds(r, s[1], s[2])' <=> IF r \in M THEN s = d \/ (Holds(r, s[1], s[2]) /\ s \notin Src)
                                         ELSE Holds(r, s[1], s[2])

LEMMA CopyMoves ==
  ASSUME OneCopy, NEW M, NEW Src \in SUBSET Sites, NEW d \in Sites,
         \A r \in M : \E s \in Src : Holds(r, s[1], s[2]),
         Moves(M, Src, d), NothingTwice'
  PROVE  OneCopy'
<1> SUFFICES ASSUME NEW r \in Requests
             PROVE  \E s \in Whereabouts(r)' : Whereabouts(r)' = {s}
  BY DEF OneCopy
<1>1. Whereabouts(r)' = {s \in Sites : Holds(r, s[1], s[2])'}
  BY DEF Whereabouts
<1>2. PICK s \in Whereabouts(r) : Whereabouts(r) = {s}
  BY DEF OneCopy
<1>3. CASE r \notin M
  <2>1. Whereabouts(r)' = Whereabouts(r)
    BY <1>1, <1>3 DEF Moves, Whereabouts
  <2> QED
    BY <1>2, <2>1
<1>4. CASE r \in M
  <2>1. \A t \in Sites : Holds(r, t[1], t[2]) => t \in Src
    BY <1>2, <1>4 DEF Whereabouts
  <2>2. Whereabouts(r)' = {d}
    BY <1>1, <1>4, <2>1 DEF Moves
  <2> QED
    BY <2>2
<1> QED
  BY <1>3, <1>4

(* A step that moves no request.                                           *)
LEMMA CopyFrame ==
  ASSUME OneCopy,
         UNCHANGED <<generated, toSchedule, hpQueue, putting, calls, requests, engine, done,
                     outputs, pending, offloaded, ask>>
  PROVE  OneCopy'
<1>1. NothingTwice'
  BY DEF OneCopy, NothingTwice
<1>2. \A r \in Requests : Whereabouts(r)' = Whereabouts(r)
  BY DEF Whereabouts, Holds, AtCall
<1> QED
  BY <1>1, <1>2 DEF OneCopy

LEMMA TakeArrivalCopy ==
  ASSUME ThreadsTypeOK, OneCopy, TakeArrival
  PROVE  OneCopy'
<1> DEFINE m == Min(generated)
           src == <<"generated", Controller>>
           dst == <<"toSchedule", Controller>>
<1>1. m \in generated /\ generated' = generated \ {m} /\ toSchedule' = toSchedule \cup {m}
  BY HeadOfRank DEF TakeArrival, ThreadsTypeOK, ControllerTypeOK
<1> HIDE DEF m
<1>2. UNCHANGED <<hpQueue, putting, calls, requests, engine, done, outputs, pending, offloaded, ask>>
  BY DEF TakeArrival, SchedFrame, pollVars, inboxVars, engineVars, outputVars
<1>3. NothingTwice'
  BY <1>2 DEF OneCopy, NothingTwice
<1>4. Moves({m}, {src}, dst)
  <2> SUFFICES ASSUME NEW r \in Requests, NEW s \in Sites
      PROVE Holds(r, s[1], s[2])' <=> IF r = m THEN s = dst \/ (Holds(r, s[1], s[2]) /\ s # src)
                                               ELSE Holds(r, s[1], s[2])
    BY DEF Moves
  <2>1. CASE s[1] = "generated"
    BY <1>1, <2>1 DEF Holds, Sites
  <2>2. CASE s[1] = "toSchedule"
    BY <1>1, <2>2 DEF Holds, Sites
  <2>3. CASE s[1] \notin {"generated", "toSchedule"}
    BY <1>2, <2>3 DEF Holds, AtCall
  <2> QED
    BY <2>1, <2>2, <2>3
<1>5. Holds(m, src[1], src[2]) /\ src \in Sites /\ dst \in Sites
  BY <1>1, SitesArePairs DEF Holds
<1> QED
  BY <1>3, <1>4, <1>5, CopyMoves

(* SendDirect and SendLow.                                                 *)
LEMMA SendRequestCopy ==
  ASSUME ThreadsTypeOK, OneCopy, NEW i \in Instances,
         PopRequest, Call(i, "request", Min(toSchedule)),
         UNCHANGED <<generated, hpQueue, putting, requests, engine, done, outputs, pending,
                     offloaded, ask>>
  PROVE  OneCopy'
<1> DEFINE m == Min(toSchedule)
           src == <<"toSchedule", Controller>>
           dst == <<"requestCall", i>>
<1>1. /\ m \in toSchedule /\ toSchedule' = toSchedule \ {m}
      /\ calls' = calls \cup {[to |-> i, kind |-> "request", req |-> m]}
  BY HeadOfRank DEF PopRequest, Call, ThreadsTypeOK, ControllerTypeOK
<1> HIDE DEF m
<1>2. NothingTwice'
  BY DEF OneCopy, NothingTwice
<1>3. Moves({m}, {src}, dst)
  <2> SUFFICES ASSUME NEW r \in Requests, NEW s \in Sites
      PROVE Holds(r, s[1], s[2])' <=> IF r = m THEN s = dst \/ (Holds(r, s[1], s[2]) /\ s # src)
                                               ELSE Holds(r, s[1], s[2])
    BY DEF Moves
  <2>1. CASE s[1] = "toSchedule"
    BY <1>1, <2>1 DEF Holds, Sites
  <2>2. CASE s[1] = "requestCall"
    BY <1>1, <2>2 DEF Holds, AtCall, Sites
  <2>3. CASE s[1] \notin {"toSchedule", "requestCall", "sequenceCall"}
    BY <2>3 DEF Holds
  <2>4. CASE s[1] = "sequenceCall"
    BY <1>1, <2>4 DEF Holds, AtCall
  <2> QED
    BY <2>1, <2>2, <2>3, <2>4
<1>4. Holds(m, src[1], src[2]) /\ src \in Sites /\ dst \in Sites
  BY <1>1, SitesArePairs DEF Holds
<1> QED
  BY <1>2, <1>3, <1>4, CopyMoves

LEMMA SendUrgentCopy ==
  ASSUME ThreadsTypeOK, OneCopy, SendUrgent
  PROVE  OneCopy'
<1> DEFINE m == Head(hpQueue)
           i == TargetHP
           src == <<"hpQueue", Controller>>
           dst == <<"sequenceCall", i>>
<1>0. IsInjective(hpQueue) /\ hpQueue \in Seq(Requests) /\ i \in HPs
  BY TargetsType DEF ThreadsTypeOK, ControllerTypeOK, OneCopy, NothingTwice
<1>1. /\ m \in Requests /\ m \in Range(hpQueue)
      /\ Range(hpQueue') = Range(hpQueue) \ {m} /\ IsInjective(hpQueue')
      /\ calls' = calls \cup {[to |-> i, kind |-> "sequence", req |-> m]}
  BY <1>0, RangeTail DEF SendUrgent, Call
<1>2. UNCHANGED <<generated, toSchedule, putting, requests, engine, done, outputs, pending,
                  offloaded, ask>>
  BY DEF SendUrgent, SchedFrame, pollVars, inboxVars, engineVars, outputVars
<1> HIDE DEF m, i
<1>3. NothingTwice'
  BY <1>1, <1>2 DEF OneCopy, NothingTwice
<1>4. Moves({m}, {src}, dst)
  <2> SUFFICES ASSUME NEW r \in Requests, NEW s \in Sites
      PROVE Holds(r, s[1], s[2])' <=> IF r = m THEN s = dst \/ (Holds(r, s[1], s[2]) /\ s # src)
                                               ELSE Holds(r, s[1], s[2])
    BY DEF Moves
  <2>0. Range(hpQueue)' = Range(hpQueue) \ {m}
    BY <1>1 DEF Range
  <2>1. CASE s[1] = "hpQueue"
    BY <2>0, <2>1 DEF Holds, Sites
  <2>2. CASE s[1] = "sequenceCall"
    BY <1>1, <2>2 DEF Holds, AtCall, Sites
  <2>3. CASE s[1] \notin {"hpQueue", "requestCall", "sequenceCall"}
    BY <1>2, <2>3 DEF Holds, Range
  <2>4. CASE s[1] = "requestCall"
    BY <1>1, <2>4 DEF Holds, AtCall
  <2> QED
    BY <2>1, <2>2, <2>3, <2>4
<1>5. Holds(m, src[1], src[2]) /\ src \in Sites /\ dst \in Sites
  BY <1>0, <1>1, SitesArePairs DEF Holds
<1> QED
  BY <1>3, <1>4, <1>5, CopyMoves

LEMMA ScheduleCopy ==
  ASSUME ThreadsTypeOK, OneCopy, Schedule
  PROVE  OneCopy'
<1>1. CASE NoArrival \/ EndSchedule \/ TestMore \/ ReadTicket
  BY <1>1, CopyFrame DEF NoArrival, EndSchedule, TestMore, ReadTicket, SchedFrame, pollVars,
     inboxVars, engineVars, outputVars
<1>2. CASE SendDirect
  BY <1>2, SendRequestCopy, TargetsType, InstanceTypes DEF SendDirect, SchedFrame, pollVars,
     inboxVars, engineVars, outputVars, ThreadsTypeOK
<1>3. CASE SendLow
  BY <1>3, SendRequestCopy, TargetsType, InstanceTypes DEF SendLow, SchedFrame, pollVars,
     inboxVars, engineVars, outputVars, ThreadsTypeOK
<1> QED
  BY <1>1, <1>2, <1>3, TakeArrivalCopy, SendUrgentCopy DEF Schedule

LEMMA DeliverCopy ==
  ASSUME ThreadsTypeOK, HandsFree, OneCopy, NEW c \in calls, Deliver(c)
  PROVE  OneCopy'
<1>0. /\ c \in RemoteCalls
      /\ requests \in [Instances -> SUBSET Requests] /\ pending \in [HPs -> SUBSET Requests]
      /\ calls \subseteq RemoteCalls
  BY DEF ThreadsTypeOK, ControllerTypeOK, InstanceTypeOK
<1>1. /\ c.to \in Instances /\ c.req \in Requests /\ c.kind \in {"request", "sequence"}
      /\ c = [to |-> c.to, kind |-> c.kind, req |-> c.req]
  BY <1>0 DEF RemoteCalls
<1>2. /\ calls' = calls \ {c}
      /\ UNCHANGED <<generated, toSchedule, hpQueue, putting, engine, done, outputs, offloaded, ask>>
  BY DEF Deliver, schedVars, pollVars, engineVars, outputVars
<1>3. NothingTwice'
  BY <1>2 DEF OneCopy, NothingTwice
<1>4. CASE c.kind = "request"
  <2> DEFINE src == <<"requestCall", c.to>>
             dst == <<"requests", c.to>>
  <2>1. requests' = [requests EXCEPT ![c.to] = @ \cup {c.req}] /\ UNCHANGED pending
    BY <1>4 DEF Deliver
  <2>2. Moves({c.req}, {src}, dst)
    <3> SUFFICES ASSUME NEW r \in Requests, NEW s \in Sites
        PROVE Holds(r, s[1], s[2])'
                <=> IF r = c.req THEN s = dst \/ (Holds(r, s[1], s[2]) /\ s # src)
                                 ELSE Holds(r, s[1], s[2])
      BY DEF Moves
    <3>1. CASE s[1] = "requestCall"
      BY <1>1, <1>2, <1>4, <3>1 DEF Holds, AtCall, Sites
    <3>2. CASE s[1] = "requests"
      BY <1>0, <1>1, <2>1, <3>2 DEF Holds, Sites
    <3>3. CASE s[1] = "sequenceCall"
      BY <1>1, <1>2, <1>4, <3>3 DEF Holds, AtCall
    <3>4. CASE s[1] \notin {"requestCall", "sequenceCall", "requests"}
      BY <1>2, <2>1, <3>4 DEF Holds
    <3> QED
      BY <3>1, <3>2, <3>3, <3>4
  <2>3. Holds(c.req, src[1], src[2]) /\ src \in Sites /\ dst \in Sites
    BY <1>1, <1>4, SitesArePairs DEF Holds, AtCall
  <2> QED
    BY <1>3, <2>2, <2>3, CopyMoves
<1>5. CASE c.kind = "sequence"
  <2> DEFINE src == <<"sequenceCall", c.to>>
             dst == <<"pending", c.to>>
  <2>1. /\ c.to \in HPs
        /\ pending' = [pending EXCEPT ![c.to] = @ \cup {c.req}] /\ UNCHANGED requests
    BY <1>5 DEF Deliver, HandsFree
  <2>2. Moves({c.req}, {src}, dst)
    <3> SUFFICES ASSUME NEW r \in Requests, NEW s \in Sites
        PROVE Holds(r, s[1], s[2])'
                <=> IF r = c.req THEN s = dst \/ (Holds(r, s[1], s[2]) /\ s # src)
                                 ELSE Holds(r, s[1], s[2])
      BY DEF Moves
    <3>1. CASE s[1] = "sequenceCall"
      BY <1>1, <1>2, <1>5, <3>1 DEF Holds, AtCall, Sites
    <3>2. CASE s[1] = "pending"
      BY <1>0, <1>1, <2>1, <3>2 DEF Holds, Sites
    <3>3. CASE s[1] = "requestCall"
      BY <1>1, <1>2, <1>5, <3>3 DEF Holds, AtCall
    <3>4. CASE s[1] \notin {"requestCall", "sequenceCall", "pending"}
      BY <1>2, <2>1, <3>4 DEF Holds
    <3> QED
      BY <3>1, <3>2, <3>3, <3>4
  <2>3. Holds(c.req, src[1], src[2]) /\ src \in Sites /\ dst \in Sites
    BY <1>1, <1>5, <2>1, SitesArePairs DEF Holds, AtCall
  <2> QED
    BY <1>3, <2>2, <2>3, CopyMoves
<1> QED
  BY <1>1, <1>4, <1>5

LEMMA PollReadyCopy ==
  ASSUME ThreadsTypeOK, HandsFree, OneCopy, NEW l \in LPs, PollReady(l)
  PROVE  OneCopy'
<1> DEFINE M == Range(ask[l].got)
           src == <<"answer", l>>
           dst == <<"putting", Controller>>
<1>0. ask \in [LPs -> Asks] /\ NoAsk.got = <<>>
  BY DEF ThreadsTypeOK, PollTypeOK, NoAsk
<1>1. /\ putting = <<>> /\ Range(putting) = {}
      /\ putting' = ask[l].got /\ ask' = [ask EXCEPT ![l] = NoAsk]
  BY RangeEmpty DEF HandsFree, PollReady
<1>2. UNCHANGED <<generated, toSchedule, hpQueue, calls, requests, engine, done, outputs,
                  pending, offloaded>>
  BY DEF PollReady, PollFrame, schedVars, inboxVars, outputVars
<1>3. /\ ask'[l].got = <<>> /\ Range(ask'[l].got) = {}
      /\ \A k \in LPs \ {l} : ask'[k] = ask[k]
  BY <1>0, <1>1, RangeEmpty
<1>4. NothingTwice'
  <2>1. IsInjective(hpQueue)' /\ IsInjective(putting')
    BY <1>1, <1>2 DEF OneCopy, NothingTwice
  <2>2. ASSUME NEW k \in LPs PROVE IsInjective(offloaded'[k]) /\ IsInjective(ask'[k].got)
    BY <1>2, <1>3, RangeEmpty DEF OneCopy, NothingTwice
  <2> QED
    BY <2>1, <2>2 DEF NothingTwice, IsInjective
<1>5. Moves(M, {src}, dst)
  <2> SUFFICES ASSUME NEW r \in Requests, NEW s \in Sites
      PROVE Holds(r, s[1], s[2])' <=> IF r \in M THEN s = dst \/ (Holds(r, s[1], s[2]) /\ s # src)
                                                 ELSE Holds(r, s[1], s[2])
    BY DEF Moves
  <2>1. CASE s[1] = "answer"
    <3>1. s[2] \in LPs /\ (s = src <=> s[2] = l) /\ s # dst
      BY <2>1 DEF Sites
    <3>2. Holds(r, s[1], s[2]) <=> r \in Range(ask[s[2]].got)
      BY <2>1 DEF Holds
    <3>3. Holds(r, s[1], s[2])' <=> r \in Range(ask'[s[2]].got)
      BY <2>1 DEF Holds, Range
    <3> QED
      BY <1>3, <3>1, <3>2, <3>3
  <2>2. CASE s[1] = "putting"
    <3>1. s = dst /\ s # src
      BY <2>2 DEF Sites
    <3>2. Holds(r, s[1], s[2]) <=> r \in Range(putting)
      BY <2>2 DEF Holds
    <3>3. Holds(r, s[1], s[2])' <=> r \in Range(putting')
      BY <2>2 DEF Holds, Range
    <3> QED
      BY <1>1, <3>1, <3>2, <3>3
  <2>3. CASE s[1] \notin {"answer", "putting"}
    BY <1>2, <2>3 DEF Holds, AtCall, Range
  <2> QED
    BY <2>1, <2>2, <2>3
<1>6. (\A r \in M : Holds(r, src[1], src[2])) /\ src \in Sites /\ dst \in Sites
  BY SitesArePairs DEF Holds
<1> QED
  BY <1>4, <1>5, <1>6, CopyMoves

LEMMA PollPutCopy ==
  ASSUME ThreadsTypeOK, OneCopy, PollPut, putting # <<>>
  PROVE  OneCopy'
<1> DEFINE m == Head(putting)
           src == <<"putting", Controller>>
           dst == <<"hpQueue", Controller>>
<1>0. /\ putting \in Seq(Requests) /\ hpQueue \in Seq(Requests)
      /\ IsInjective(putting) /\ IsInjective(hpQueue)
  BY DEF ThreadsTypeOK, PollTypeOK, ControllerTypeOK, OneCopy, NothingTwice
<1>1. /\ m \in Requests /\ m \in Range(putting)
      /\ Range(putting') = Range(putting) \ {m} /\ IsInjective(putting')
  BY <1>0, RangeTail DEF PollPut
<1>2. UNCHANGED <<generated, toSchedule, calls, requests, engine, done, outputs, pending,
                  offloaded, ask>>
  BY DEF PollPut, PollFrame, schedVars, inboxVars, outputVars
<1>3. hpQueue' = Append(hpQueue, m)
  BY DEF PollPut
<1> HIDE DEF m
<1>4. Holds(m, src[1], src[2]) /\ src \in Sites /\ dst \in Sites
  BY <1>1, SitesArePairs DEF Holds
<1>5. m \notin Range(hpQueue)
  <2>1. ASSUME m \in Range(hpQueue) PROVE FALSE
    <3>1. Holds(m, dst[1], dst[2])
      BY <2>1 DEF Holds
    <3> QED
      BY <1>1, <1>4, <3>1, OneSite
  <2> QED
    BY <2>1
<1>6. Range(hpQueue') = Range(hpQueue) \cup {m} /\ IsInjective(hpQueue')
  BY <1>0, <1>1, <1>3, <1>5, RangeAppend
<1>7. NothingTwice'
  BY <1>1, <1>2, <1>6 DEF OneCopy, NothingTwice
<1>8. Moves({m}, {src}, dst)
  <2> SUFFICES ASSUME NEW r \in Requests, NEW s \in Sites
      PROVE Holds(r, s[1], s[2])' <=> IF r = m THEN s = dst \/ (Holds(r, s[1], s[2]) /\ s # src)
                                               ELSE Holds(r, s[1], s[2])
    BY DEF Moves
  <2>0. /\ Range(putting)' = Range(putting) \ {m}
        /\ Range(hpQueue)' = Range(hpQueue) \cup {m}
    BY <1>1, <1>6 DEF Range
  <2>1. CASE s[1] = "putting"
    BY <2>0, <2>1 DEF Holds, Sites
  <2>2. CASE s[1] = "hpQueue"
    BY <2>0, <2>2 DEF Holds, Sites
  <2>3. CASE s[1] \notin {"putting", "hpQueue"}
    BY <1>2, <2>3 DEF Holds, AtCall, Range
  <2> QED
    BY <2>1, <2>2, <2>3
<1> QED
  BY <1>4, <1>7, <1>8, CopyMoves

LEMMA PollCopy ==
  ASSUME ThreadsTypeOK, HandsFree, OneCopy, Poll
  PROVE  OneCopy'
<1>1. CASE PollCheck /\ ask' # ask
  <2>1. /\ UNCHANGED <<generated, toSchedule, hpQueue, putting, calls, requests, engine, done,
                       outputs, pending, offloaded>>
        /\ \A l \in LPs : ask'[l].got = ask[l].got
    BY <1>1 DEF PollCheck, PollFrame, schedVars, inboxVars, outputVars, HandsFree, NoAsk
  <2>2. NothingTwice'
    BY <2>1 DEF OneCopy, NothingTwice
  <2>3. \A r \in Requests : Whereabouts(r)' = Whereabouts(r)
    <3> SUFFICES ASSUME NEW r \in Requests, NEW s \in Sites
                 PROVE  Holds(r, s[1], s[2])' <=> Holds(r, s[1], s[2])
      BY DEF Whereabouts
    <3>1. CASE s[1] = "answer"
      BY <2>1, <3>1 DEF Holds, Sites
    <3>2. CASE s[1] # "answer"
      BY <2>1, <3>2 DEF Holds, AtCall
    <3> QED
      BY <3>1, <3>2
  <2> QED
    BY <2>2, <2>3 DEF OneCopy
<1>2. CASE PollTimeout \/ (PollCheck /\ UNCHANGED ask) \/ (PollPut /\ putting = <<>>)
  BY <1>2, CopyFrame DEF PollCheck, PollTimeout, PollPut, PollFrame, schedVars, inboxVars, outputVars
<1> QED
  BY <1>1, <1>2, PollReadyCopy, PollPutCopy DEF Poll

LEMMA GetHpRequestCopy ==
  ASSUME ThreadsTypeOK, OneCopy, NEW l \in LPs, GetHpRequest(l)
  PROVE  OneCopy'
<1>0. /\ ask \in [LPs -> Asks] /\ ask[l] \in Asks /\ ask[l].got \in Seq(Requests)
      /\ offloaded \in [LPs -> Seq(Requests)]
      /\ IsInjective(offloaded[l]) /\ IsInjective(ask[l].got)
  BY RecordTypes DEF ThreadsTypeOK, PollTypeOK, InstanceTypeOK, OneCopy, NothingTwice
<1>1. UNCHANGED <<generated, toSchedule, hpQueue, putting, calls, requests, engine, done, outputs,
                  pending>>
  BY DEF GetHpRequest, PollFrame, schedVars, inboxVars, outputVars
<1>2. CASE offloaded[l] = <<>>
  <2>0. UNCHANGED offloaded /\ ask' = [ask EXCEPT ![l] = [ask[l] EXCEPT !.at = "answered"]]
    BY <1>2 DEF GetHpRequest
  <2>1. UNCHANGED offloaded /\ \A k \in LPs : ask'[k].got = ask[k].got
    <3>1. [ask[l] EXCEPT !.at = "answered"].got = ask[l].got
      BY <1>0 DEF Asks
    <3> QED
      BY <1>0, <2>0, <3>1
  <2>2. NothingTwice'
    BY <1>1, <2>1 DEF OneCopy, NothingTwice
  <2>3. \A r \in Requests : Whereabouts(r)' = Whereabouts(r)
    <3> SUFFICES ASSUME NEW r \in Requests, NEW s \in Sites
                 PROVE  Holds(r, s[1], s[2])' <=> Holds(r, s[1], s[2])
      BY DEF Whereabouts
    <3>1. CASE s[1] = "answer"
      BY <2>1, <3>1 DEF Holds, Sites
    <3>2. CASE s[1] # "answer"
      BY <1>1, <2>1, <3>2 DEF Holds, AtCall
    <3> QED
      BY <3>1, <3>2
  <2> QED
    BY <2>2, <2>3 DEF OneCopy
<1>3. CASE offloaded[l] # <<>>
  <2> DEFINE m == Head(offloaded[l])
             src == <<"offloaded", l>>
             dst == <<"answer", l>>
  <2>1. /\ m \in Requests /\ m \in Range(offloaded[l])
        /\ Range(Tail(offloaded[l])) = Range(offloaded[l]) \ {m}
        /\ IsInjective(Tail(offloaded[l]))
    BY <1>0, <1>3, RangeTail
  <2>2. /\ offloaded'[l] = Tail(offloaded[l]) /\ ask'[l].got = Append(ask[l].got, m)
        /\ \A k \in LPs \ {l} : offloaded'[k] = offloaded[k] /\ ask'[k].got = ask[k].got
    BY <1>0, <1>3 DEF GetHpRequest, Asks
  <2> HIDE DEF m
  <2>3. Holds(m, src[1], src[2]) /\ src \in Sites /\ dst \in Sites
    BY <2>1, SitesArePairs DEF Holds
  <2>4. m \notin Range(ask[l].got)
    <3>1. ASSUME m \in Range(ask[l].got) PROVE FALSE
      <4>1. Holds(m, dst[1], dst[2])
        BY <3>1 DEF Holds
      <4> QED
        BY <2>1, <2>3, <4>1, OneSite
    <3> QED
      BY <3>1
  <2>5. Range(ask'[l].got) = Range(ask[l].got) \cup {m} /\ IsInjective(ask'[l].got)
    BY <1>0, <2>1, <2>2, <2>4, RangeAppend
  <2>6. NothingTwice'
    <3>1. ASSUME NEW k \in LPs PROVE IsInjective(offloaded'[k]) /\ IsInjective(ask'[k].got)
      BY <2>1, <2>2, <2>5 DEF OneCopy, NothingTwice
    <3>2. IsInjective(hpQueue') /\ IsInjective(putting')
      BY <1>1 DEF OneCopy, NothingTwice
    <3> QED
      BY <3>1, <3>2 DEF NothingTwice, IsInjective
  <2>7. Moves({m}, {src}, dst)
    <3> SUFFICES ASSUME NEW r \in Requests, NEW s \in Sites
        PROVE Holds(r, s[1], s[2])' <=> IF r = m THEN s = dst \/ (Holds(r, s[1], s[2]) /\ s # src)
                                                 ELSE Holds(r, s[1], s[2])
      BY DEF Moves
    <3>1. CASE s[1] = "offloaded"
      <4>1. s[2] \in LPs /\ (s = src <=> s[2] = l) /\ s # dst
        BY <3>1 DEF Sites
      <4>2. Holds(r, s[1], s[2]) <=> r \in Range(offloaded[s[2]])
        BY <3>1 DEF Holds
      <4>3. Holds(r, s[1], s[2])' <=> r \in Range(offloaded'[s[2]])
        BY <3>1 DEF Holds, Range
      <4> QED
        BY <2>1, <2>2, <4>1, <4>2, <4>3
    <3>2. CASE s[1] = "answer"
      <4>1. s[2] \in LPs /\ (s = dst <=> s[2] = l) /\ s # src
        BY <3>2 DEF Sites
      <4>2. Holds(r, s[1], s[2]) <=> r \in Range(ask[s[2]].got)
        BY <3>2 DEF Holds
      <4>3. Holds(r, s[1], s[2])' <=> r \in Range(ask'[s[2]].got)
        BY <3>2 DEF Holds, Range
      <4> QED
        BY <2>2, <2>5, <4>1, <4>2, <4>3
    <3>3. CASE s[1] \notin {"offloaded", "answer"}
      BY <1>1, <3>3 DEF Holds, AtCall, Range
    <3> QED
      BY <3>1, <3>2, <3>3
  <2> QED
    BY <2>3, <2>6, <2>7, CopyMoves
<1> QED
  BY <1>2, <1>3

LEMMA OffloadCopy ==
  ASSUME ThreadsTypeOK, HandsFree, OneCopy, NEW l \in LPs, NEW m \in fresh[l], Offload(l, m)
  PROVE  OneCopy'
<1> DEFINE src == <<"engine", l>>
           dst == <<"offloaded", l>>
<1>0. /\ l \in Instances
      /\ engine \in [Instances -> SUBSET Requests]
      /\ offloaded \in [LPs -> Seq(Requests)] /\ IsInjective(offloaded[l])
      /\ m \in engine[l] /\ m \in Requests
  BY InstanceTypes DEF ThreadsTypeOK, InstanceTypeOK, OneCopy, NothingTwice, HandsFree
<1>1. UNCHANGED <<generated, toSchedule, hpQueue, putting, calls, requests, done, outputs,
                  pending, ask>>
  BY DEF Offload, RunFrame, schedVars, pollVars, inboxVars, outputVars
<1>2. /\ engine'[l] = engine[l] \ {m} /\ offloaded'[l] = Append(offloaded[l], m)
      /\ \A k \in Instances \ {l} : engine'[k] = engine[k]
      /\ \A k \in LPs \ {l} : offloaded'[k] = offloaded[k]
  BY <1>0 DEF Offload
<1>3. Holds(m, src[1], src[2]) /\ src \in Sites /\ dst \in Sites
  BY <1>0, SitesArePairs DEF Holds
<1>4. m \notin Range(offloaded[l])
  <2>1. ASSUME m \in Range(offloaded[l]) PROVE FALSE
    <3>1. Holds(m, dst[1], dst[2])
      BY <2>1 DEF Holds
    <3> QED
      BY <1>0, <1>3, <3>1, OneSite
  <2> QED
    BY <2>1
<1>5. Range(offloaded'[l]) = Range(offloaded[l]) \cup {m} /\ IsInjective(offloaded'[l])
  BY <1>0, <1>2, <1>4, RangeAppend
<1>6. NothingTwice'
  <2>1. ASSUME NEW k \in LPs PROVE IsInjective(offloaded'[k]) /\ IsInjective(ask'[k].got)
    BY <1>1, <1>2, <1>5 DEF OneCopy, NothingTwice
  <2>2. IsInjective(hpQueue') /\ IsInjective(putting')
    BY <1>1 DEF OneCopy, NothingTwice
  <2> QED
    BY <2>1, <2>2 DEF NothingTwice, IsInjective
<1>7. Moves({m}, {src}, dst)
  <2> SUFFICES ASSUME NEW r \in Requests, NEW s \in Sites
      PROVE Holds(r, s[1], s[2])' <=> IF r = m THEN s = dst \/ (Holds(r, s[1], s[2]) /\ s # src)
                                               ELSE Holds(r, s[1], s[2])
    BY DEF Moves
  <2>1. CASE s[1] = "offloaded"
    <3>1. s[2] \in LPs /\ (s = dst <=> s[2] = l) /\ s # src
      BY <2>1 DEF Sites
    <3>2. Holds(r, s[1], s[2]) <=> r \in Range(offloaded[s[2]])
      BY <2>1 DEF Holds
    <3>3. Holds(r, s[1], s[2])' <=> r \in Range(offloaded'[s[2]])
      BY <2>1 DEF Holds, Range
    <3> QED
      BY <1>2, <1>5, <3>1, <3>2, <3>3
  <2>2. CASE s[1] = "engine"
    BY <1>0, <1>2, <2>2 DEF Holds, Sites
  <2>3. CASE s[1] \notin {"offloaded", "engine"}
    BY <1>1, <2>3 DEF Holds, AtCall, Range
  <2> QED
    BY <2>1, <2>2, <2>3
<1> QED
  BY <1>3, <1>6, <1>7, CopyMoves

LEMMA IntakeCopy ==
  ASSUME ThreadsTypeOK, OneCopy, NEW i \in Instances, Intake(i)
  PROVE  OneCopy'
<1> DEFINE M == requests[i] \cup Pending(i)
           Src == {s \in Sites : s[1] \in {"requests", "pending"} /\ s[2] = i}
           dst == <<"engine", i>>
<1>0. /\ engine \in [Instances -> SUBSET Requests]
      /\ requests \in [Instances -> SUBSET Requests]
      /\ pending \in [HPs -> SUBSET Requests]
  BY DEF ThreadsTypeOK, InstanceTypeOK
<1>1. UNCHANGED <<generated, toSchedule, hpQueue, putting, calls, done, outputs, offloaded, ask>>
  BY DEF Intake, RunFrame, schedVars, pollVars, outputVars
<1>2. /\ requests'[i] = {} /\ engine'[i] = engine[i] \cup M
      /\ \A k \in Instances \ {i} : engine'[k] = engine[k] /\ requests'[k] = requests[k]
  BY <1>0 DEF Intake
<1>3. \A k \in HPs : pending'[k] = IF k = i THEN {} ELSE pending[k]
  BY <1>0 DEF Intake
<1>4. NothingTwice'
  BY <1>1 DEF OneCopy, NothingTwice
<1>5. dst \in Sites /\ \A r \in M : \E s \in Src : Holds(r, s[1], s[2])
  <2>1. dst \in Sites
    BY SitesArePairs
  <2>2. ASSUME NEW r \in requests[i] PROVE \E s \in Src : Holds(r, s[1], s[2])
    <3>1. <<"requests", i>> \in Src /\ Holds(r, "requests", i)
      BY SitesArePairs DEF Holds
    <3> QED
      BY <3>1
  <2>3. ASSUME NEW r \in Pending(i) PROVE \E s \in Src : Holds(r, s[1], s[2])
    <3>1. i \in HPs /\ r \in pending[i]
      BY <2>3 DEF Pending
    <3>2. <<"pending", i>> \in Src /\ Holds(r, "pending", i)
      BY <3>1, SitesArePairs DEF Holds
    <3> QED
      BY <3>2
  <2> QED
    BY <2>1, <2>2, <2>3
<1>6. Moves(M, Src, dst)
  <2> SUFFICES ASSUME NEW r \in Requests, NEW s \in Sites
      PROVE Holds(r, s[1], s[2])'
              <=> IF r \in M THEN s = dst \/ (Holds(r, s[1], s[2]) /\ s \notin Src)
                             ELSE Holds(r, s[1], s[2])
    BY DEF Moves
  <2>1. CASE s[1] = "engine"
    BY <1>2, <2>1 DEF Holds, Sites
  <2>2. CASE s[1] = "requests"
    BY <1>2, <2>2 DEF Holds, Sites
  <2>3. CASE s[1] = "pending"
    <3>1. s[2] \in HPs /\ (s \in Src <=> s[2] = i) /\ s # dst
      BY <2>3 DEF Sites
    <3>2. pending[i] \subseteq M \/ s[2] # i
      BY <3>1 DEF Pending
    <3>3. Holds(r, s[1], s[2])' <=> r \in pending'[s[2]]
      BY <2>3 DEF Holds
    <3>4. Holds(r, s[1], s[2]) <=> r \in pending[s[2]]
      BY <2>3 DEF Holds
    <3> QED
      BY <1>3, <3>1, <3>2, <3>3, <3>4
  <2>4. CASE s[1] \notin {"engine", "requests", "pending"}
    BY <1>1, <2>4 DEF Holds, AtCall
  <2> QED
    BY <2>1, <2>2, <2>3, <2>4
<1> QED
  BY <1>4, <1>5, <1>6, CopyMoves

LEMMA StepEndCopy ==
  ASSUME ThreadsTypeOK, HandsFree, OneCopy, NEW i \in Instances, NEW E \in SUBSET engine[i],
         NEW F \in SUBSET (Fresh(i) \ E), StepEnd(i, E, F)
  PROVE  OneCopy'
<1> DEFINE src == <<"engine", i>>
           dst == <<"output", i>>
<1>0. /\ engine \in [Instances -> SUBSET Requests]
      /\ done \in [Instances -> SUBSET Requests]
      /\ done[i] = {}
  BY DEF ThreadsTypeOK, InstanceTypeOK, HandsFree, StepEnd
<1>1. UNCHANGED <<generated, toSchedule, hpQueue, putting, calls, requests, outputs, pending,
                  offloaded, ask>>
  BY DEF StepEnd, RunFrame, schedVars, pollVars, inboxVars
<1>2. /\ engine'[i] = engine[i] \ E /\ done'[i] = E
      /\ \A k \in Instances \ {i} : engine'[k] = engine[k] /\ done'[k] = done[k]
  BY <1>0 DEF StepEnd
<1>3. NothingTwice'
  BY <1>1 DEF OneCopy, NothingTwice
<1>4. Moves(E, {src}, dst)
  <2> SUFFICES ASSUME NEW r \in Requests, NEW s \in Sites
      PROVE Holds(r, s[1], s[2])' <=> IF r \in E THEN s = dst \/ (Holds(r, s[1], s[2]) /\ s # src)
                                                 ELSE Holds(r, s[1], s[2])
    BY DEF Moves
  <2>1. CASE s[1] = "engine"
    BY <1>2, <2>1 DEF Holds, Sites
  <2>2. CASE s[1] = "output"
    BY <1>0, <1>1, <1>2, <2>2 DEF Holds, Sites
  <2>3. CASE s[1] \notin {"engine", "output"}
    BY <1>1, <2>3 DEF Holds, AtCall
  <2> QED
    BY <2>1, <2>2, <2>3
<1>5. (\A r \in E : Holds(r, src[1], src[2])) /\ src \in Sites /\ dst \in Sites
  BY SitesArePairs DEF Holds
<1> QED
  BY <1>3, <1>4, <1>5, CopyMoves

LEMMA NoteCopy ==
  ASSUME ThreadsTypeOK, OneCopy, NEW i \in Instances, NEW m \in done[i],
         AppendOutput(i, m) \/ NoteFinished(i, m)
  PROVE  OneCopy'
<1>0. /\ done \in [Instances -> SUBSET Requests]
      /\ outputs \in [Instances -> SUBSET Requests]
  BY DEF ThreadsTypeOK, InstanceTypeOK
<1>1. UNCHANGED <<generated, toSchedule, hpQueue, putting, calls, requests, engine, pending,
                  offloaded, ask>>
  BY DEF AppendOutput, NoteFinished, RunFrame, schedVars, pollVars, inboxVars, engineVars
<1>2. \A k \in Instances : done'[k] \cup outputs'[k] = done[k] \cup outputs[k]
  <2>1. CASE AppendOutput(i, m)
    BY <1>0, <2>1 DEF AppendOutput
  <2>2. CASE NoteFinished(i, m)
    BY <1>0, <2>2 DEF NoteFinished
  <2> QED
    BY <2>1, <2>2
<1>3. NothingTwice'
  BY <1>1 DEF OneCopy, NothingTwice
<1>4. \A r \in Requests : Whereabouts(r)' = Whereabouts(r)
  <2> SUFFICES ASSUME NEW r \in Requests, NEW s \in Sites
               PROVE  Holds(r, s[1], s[2])' <=> Holds(r, s[1], s[2])
    BY DEF Whereabouts
  <2>1. CASE s[1] = "output"
    BY <1>2, <2>1 DEF Holds, Sites
  <2>2. CASE s[1] # "output"
    BY <1>1, <2>2 DEF Holds, AtCall
  <2> QED
    BY <2>1, <2>2
<1> QED
  BY <1>3, <1>4 DEF OneCopy

LEMMA CopyInductive ==
  ThreadsTypeOK /\ HandsFree /\ OneCopy /\ [ClusterNext]_clusterVars => OneCopy'
<1> SUFFICES ASSUME ThreadsTypeOK, HandsFree, OneCopy, [ClusterNext]_clusterVars
             PROVE  OneCopy'
  OBVIOUS
<1>1. CASE Collect \/ StopController \/ \E i \in Instances : CopyIds(i) \/ RemoveIds(i)
  BY <1>1, CopyFrame DEF Collect, CollectCheck, CollectGather, CollectStop, StopController,
     CopyIds, RemoveIds, CollectFrame, schedVars, pollVars, inboxVars, engineVars, outputVars
<1>2. CASE UNCHANGED clusterVars
  BY <1>2, CopyFrame DEF clusterVars, schedVars, pollVars, inboxVars, engineVars, outputVars
<1>3. ASSUME NEW i \in Instances, EndRun(i) PROVE OneCopy'
  BY <1>3, CopyFrame DEF EndRun, RunFrame, schedVars, pollVars, inboxVars, outputVars
<1>4. ASSUME NEW i \in Instances, RunStep(i) PROVE OneCopy'
  BY <1>3, <1>4, IntakeCopy, StepEndCopy, NoteCopy DEF RunStep
<1> QED
  BY <1>1, <1>2, <1>4, ScheduleCopy, DeliverCopy, PollCopy, GetHpRequestCopy, OffloadCopy
     DEF ClusterNext

LEMMA HandsFrame ==
  ASSUME HandsFree, UNCHANGED <<calls, poll, putting, ask, run, done, fresh, engine>>
  PROVE  HandsFree'
  BY DEF HandsFree

LEMMA HandsController ==
  ASSUME ThreadsTypeOK, HandsFree,
         Schedule \/ Poll \/ (\E c \in calls : Deliver(c)) \/ (\E l \in LPs : GetHpRequest(l))
  PROVE  HandsFree'
<1>0. /\ ask \in [LPs -> Asks] /\ TargetHP \in HPs
      /\ UNCHANGED <<run, done, fresh, engine>>
  BY TargetsType DEF ThreadsTypeOK, PollTypeOK, Schedule, TakeArrival, NoArrival, EndSchedule,
     TestMore, ReadTicket, SendUrgent, SendDirect, SendLow, SchedFrame, Poll, PollCheck,
     PollTimeout, PollPut, PollReady, GetHpRequest, PollFrame, Deliver, engineVars, outputVars
<1>1. CASE Schedule
  <2>1. UNCHANGED pollVars
    BY <1>1 DEF Schedule, TakeArrival, NoArrival, EndSchedule, TestMore, ReadTicket,
       SendUrgent, SendDirect, SendLow, SchedFrame
  <2>2. \A c \in calls' : c.kind = "sequence" => c.to \in HPs
    <3>1. CASE UNCHANGED calls
      BY <3>1 DEF HandsFree
    <3>2. CASE SendUrgent
      <4>1. \A c \in calls' \ calls : c.to = TargetHP
        BY <3>2 DEF SendUrgent, Call
      <4> QED
        BY <1>0, <4>1 DEF HandsFree
    <3>3. CASE SendDirect \/ SendLow
      <4>1. \A c \in calls' \ calls : c.kind = "request"
        BY <3>3 DEF SendDirect, SendLow, Call
      <4> QED
        BY <4>1 DEF HandsFree
    <3> QED
      BY <1>1, <3>1, <3>2, <3>3 DEF Schedule, TakeArrival, NoArrival, EndSchedule, TestMore,
         ReadTicket
  <2> QED
    BY <1>0, <2>1, <2>2 DEF HandsFree, pollVars
<1>2. CASE \E c \in calls : Deliver(c)
  BY <1>0, <1>2 DEF Deliver, pollVars, HandsFree
<1>3. CASE Poll
  <2>1. UNCHANGED calls
    BY <1>3 DEF Poll, PollCheck, PollTimeout, PollPut, PollReady, PollFrame
  <2>2. poll' # "put" => putting' = <<>>
    BY <1>3 DEF Poll, PollCheck, PollTimeout, PollPut, PollReady, HandsFree
  <2>3. \A l \in LPs : ask'[l].at = "none" => ask'[l].got = <<>>
    BY <1>0, <1>3 DEF Poll, PollCheck, PollTimeout, PollPut, PollReady, NoAsk, HandsFree
  <2> QED
    BY <1>0, <2>1, <2>2, <2>3 DEF HandsFree
<1>4. ASSUME NEW l \in LPs, GetHpRequest(l) PROVE HandsFree'
  <2>1. UNCHANGED <<calls, poll, putting>>
    BY <1>4 DEF GetHpRequest, PollFrame
  <2>2. ask[l].at = "called" /\ ask[l] \in Asks
    BY <1>0, <1>4 DEF GetHpRequest
  <2>3. ask'[l].at # "none" /\ \A k \in LPs \ {l} : ask'[k] = ask[k]
    <3>1. CASE offloaded[l] = <<>>
      BY <1>0, <1>4, <2>2, <3>1 DEF GetHpRequest, Asks
    <3>2. CASE offloaded[l] # <<>>
      BY <1>0, <1>4, <2>2, <3>2 DEF GetHpRequest, Asks
    <3> QED
      BY <3>1, <3>2
  <2> QED
    BY <1>0, <2>1, <2>3 DEF HandsFree
<1> QED
  BY <1>1, <1>2, <1>3, <1>4

LEMMA HandsInstance ==
  ASSUME ThreadsTypeOK, HandsFree, NEW i \in Instances,
         RunStep(i) \/ (i \in LPs /\ \E r \in fresh[i] : Offload(i, r))
  PROVE  HandsFree'
<1>0. /\ UNCHANGED <<calls, poll, putting, ask>>
      /\ engine \in [Instances -> SUBSET Requests] /\ done \in [Instances -> SUBSET Requests]
      /\ fresh \in [LPs -> SUBSET Requests] /\ run \in [Instances -> {"top", "step", "ended"}]
      /\ LPs \subseteq Instances
  BY InstanceTypes DEF RunStep, Intake, EndRun, StepEnd, AppendOutput, NoteFinished, Offload,
     RunFrame, pollVars, ThreadsTypeOK, InstanceTypeOK
<1> SUFFICES /\ \A k \in Instances : run'[k] # "top" => done'[k] = {}
             /\ \A l \in LPs : fresh'[l] \subseteq engine'[l]
  BY <1>0 DEF HandsFree
<1>1. CASE Intake(i)
  BY <1>0, <1>1 DEF Intake, SetFresh, Fresh, outputVars, HandsFree
<1>2. CASE EndRun(i)
  BY <1>0, <1>2 DEF EndRun, outputVars, HandsFree
<1>3. ASSUME NEW E \in SUBSET engine[i], NEW F \in SUBSET (Fresh(i) \ E), StepEnd(i, E, F)
      PROVE  /\ \A k \in Instances : run'[k] # "top" => done'[k] = {}
             /\ \A l \in LPs : fresh'[l] \subseteq engine'[l]
  <2>1. run' = [run EXCEPT ![i] = "top"] /\ done' = [done EXCEPT ![i] = E]
    BY <1>3 DEF StepEnd
  <2>2. engine' = [engine EXCEPT ![i] = engine[i] \ E] /\ SetFresh(i, F)
    BY <1>3 DEF StepEnd
  <2>3. i \in LPs => F \subseteq engine[i] \ E
    BY DEF Fresh, HandsFree
  <2>4. \A k \in Instances : run'[k] # "top" => done'[k] = {}
    BY <1>0, <2>1 DEF HandsFree
  <2>5. \A l \in LPs : fresh'[l] \subseteq engine'[l]
    BY <1>0, <2>2, <2>3 DEF SetFresh, HandsFree
  <2> QED
    BY <2>4, <2>5
<1>4. ASSUME NEW r \in done[i], AppendOutput(i, r) \/ NoteFinished(i, r)
      PROVE  /\ \A k \in Instances : run'[k] # "top" => done'[k] = {}
             /\ \A l \in LPs : fresh'[l] \subseteq engine'[l]
  BY <1>0, <1>4 DEF AppendOutput, NoteFinished, engineVars, HandsFree
<1>5. ASSUME i \in LPs, NEW r \in fresh[i], Offload(i, r)
      PROVE  /\ \A k \in Instances : run'[k] # "top" => done'[k] = {}
             /\ \A l \in LPs : fresh'[l] \subseteq engine'[l]
  BY <1>0, <1>5 DEF Offload, outputVars, HandsFree
<1> QED
  BY <1>1, <1>2, <1>3, <1>4, <1>5 DEF RunStep

LEMMA HandsInductive ==
  ThreadsTypeOK /\ HandsFree /\ [ClusterNext]_clusterVars => HandsFree'
<1> SUFFICES ASSUME ThreadsTypeOK, HandsFree, [ClusterNext]_clusterVars PROVE HandsFree'
  OBVIOUS
<1>1. CASE \/ Collect \/ StopController \/ UNCHANGED clusterVars
           \/ \E i \in Instances : CopyIds(i) \/ RemoveIds(i)
  BY <1>1, HandsFrame DEF Collect, CollectCheck, CollectGather, CollectStop, StopController,
     CopyIds, RemoveIds, CollectFrame, pollVars, engineVars, outputVars, clusterVars
<1> QED
  BY <1>1, HandsController, HandsInstance, InstanceTypes DEF ClusterNext

LEMMA CopyInit == ClusterInit => HandsFree /\ OneCopy
<1> SUFFICES ASSUME ClusterInit PROVE HandsFree /\ OneCopy
  OBVIOUS
<1>1. HandsFree
  BY DEF ClusterInit, Empty, NoAsk, HandsFree
<1>2. NothingTwice
  BY RangeEmpty DEF ClusterInit, NoAsk, NothingTwice
<1>3. ASSUME NEW r \in Requests, NEW s \in Sites
      PROVE  Holds(r, s[1], s[2]) <=> s = <<"generated", Controller>>
  <2>1. CASE s[1] = "generated"
    BY <2>1 DEF ClusterInit, Holds, Sites
  <2>2. CASE s[1] \in {"toSchedule", "hpQueue", "putting"}
    BY <2>2, RangeEmpty DEF ClusterInit, Holds
  <2>3. CASE s[1] \in {"requestCall", "sequenceCall"}
    BY <2>3 DEF ClusterInit, Holds, AtCall
  <2>4. CASE s[1] \in {"requests", "engine", "output"}
    BY <2>4 DEF ClusterInit, Empty, Holds, Sites
  <2>5. CASE s[1] = "pending"
    BY <2>5 DEF ClusterInit, Empty, Holds, Sites
  <2>6. CASE s[1] = "offloaded" \/ s[1] = "answer"
    BY <2>6, RangeEmpty DEF ClusterInit, NoAsk, Holds, Sites
  <2> QED
    BY <2>1, <2>2, <2>3, <2>4, <2>5, <2>6 DEF Sites
<1>4. \A r \in Requests : Whereabouts(r) = {<<"generated", Controller>>}
  BY <1>3, SitesArePairs DEF Whereabouts
<1> QED
  BY <1>1, <1>2, <1>4 DEF OneCopy

(* A request is in exactly one place at any time, with any number of       *)
(* instances and requests: neither offloading nor the order in which the   *)
(* remote calls are served loses one or lets two instances serve it.       *)
THEOREM NothingLostOrServedTwice == ClusterSpec => []OneCopy
<1>1. ThreadsTypeOK /\ (HandsFree /\ OneCopy) /\ [ClusterNext]_clusterVars
        => (HandsFree /\ OneCopy)'
  BY HandsInductive, CopyInductive
<1> QED
  BY <1>1, CopyInit, ThreadsTypeCorrect, PTL DEF ClusterSpec
-----------------------------------------------------------------------------
(* The controller stops only after the window has finished.                *)

LEMMA FiniteInstances == IsFiniteSet(Instances) /\ IsFiniteSet(Requests)
<1>1. IsFiniteSet(0..NumLP - 1) /\ IsFiniteSet(0..NumHP - 1)
  BY ClusterAssumption, FS_Interval
<1>2. IsFiniteSet({"LP"}) /\ IsFiniteSet({"HP"})
  BY FS_Singleton
<1>3. IsFiniteSet(LPs) /\ IsFiniteSet(HPs)
  BY <1>1, <1>2, FS_Product DEF LPs, HPs
<1> QED
  BY <1>3, ClusterAssumption, FS_Union DEF Instances

(* No request is in two output lists, so what the instances report adds up *)
(* to at most the number of finished requests.                             *)
LEMMA OutputsAddUp ==
  ASSUME ThreadsTypeOK, OneCopy
  PROVE  /\ IsFiniteSet(FinishedIds) /\ FinishedIds \subseteq Requests
         /\ \A i \in Instances : Cardinality(outputs[i]) \in Nat
         /\ Cardinality(FinishedIds)
              = SumFunctionOnSet([i \in Instances |-> Cardinality(outputs[i])], Instances)
<1>1. outputs \in [Instances -> SUBSET Requests]
  BY DEF ThreadsTypeOK, InstanceTypeOK
<1>2. \A i \in Instances : IsFiniteSet(outputs[i]) /\ Cardinality(outputs[i]) \in Nat
  BY <1>1, FiniteInstances, FS_Subset, FS_CardinalityType
<1>3. ASSUME NEW i \in Instances, NEW j \in Instances, i # j, NEW r \in outputs[i] \cap outputs[j]
      PROVE  FALSE
  <2>1. r \in Requests
    BY <1>1
  <2>2. Holds(r, "output", i) /\ Holds(r, "output", j)
    BY DEF Holds
  <2>3. <<"output", i>> = <<"output", j>>
    BY <2>1, <2>2, SitesArePairs, OneSite
  <2> QED
    BY <1>3, <2>3
<1>4. FinishedIds \subseteq Requests /\ IsFiniteSet(FinishedIds)
  <2>1. FinishedIds \subseteq Requests
    BY <1>1 DEF FinishedIds
  <2> QED
    BY <2>1, FiniteInstances, FS_Subset
<1>5. Cardinality(UNION {outputs[i] : i \in Instances})
        = SumFunctionOnSet([i \in Instances |-> Cardinality(outputs[i])], Instances)
  <2>1. \A i, j \in Instances : i # j => outputs[i] \cap outputs[j] = {}
    BY <1>3
  <2> QED
    BY ONLY <1>2, <2>1, FiniteInstances, SumDisjoint
<1> QED
  BY <1>2, <1>4, <1>5 DEF FinishedIds

(* Each report counts outputs that exist, their sum is taken of a total    *)
(* that was just reset, and the completion thread decides to stop on that  *)
(* sum or on the identifiers; shut_down is set by nobody else but by the   *)
(* replica.  WindowFinished alone says nothing of how it came about.       *)
CountsSound ==
  /\ total \in Nat /\ total <= Cardinality(FinishedIds)
  /\ collect = "gather" => total = 0
  /\ \A i \in Instances : report[i].count <= Cardinality(outputs[i])
  /\ shutDown /\ ~external => stopSent
  /\ (collect = "stop" \/ stopSent) /\ ~external => InWindow \subseteq FinishedIds

WindowInv == ThreadsTypeOK /\ IdsInvariant /\ HandsFree /\ OneCopy /\ CountsSound

(* The finished requests only grow, and so does their number.              *)
LEMMA CountsFrame ==
  ASSUME ThreadsTypeOK, OneCopy, ThreadsTypeOK', OneCopy', CountsSound,
         UNCHANGED <<collect, report, total, stopVars>>,
         \A i \in Instances : outputs[i] \subseteq outputs'[i]
  PROVE  CountsSound'
<1>1. IsFiniteSet(FinishedIds') /\ IsFiniteSet(FinishedIds) /\ FinishedIds \subseteq FinishedIds'
  <2>1. IsFiniteSet(FinishedIds)
    BY OutputsAddUp
  <2>2. outputs' \in [Instances -> SUBSET Requests]
    BY DEF ThreadsTypeOK, InstanceTypeOK
  <2>3. FinishedIds' \subseteq Requests
    BY <2>2 DEF FinishedIds
  <2>4. IsFiniteSet(FinishedIds')
    BY <2>3, FiniteInstances, FS_Subset
  <2> QED
    BY <2>1, <2>4 DEF FinishedIds
<1>2. /\ Cardinality(FinishedIds) <= Cardinality(FinishedIds')
      /\ Cardinality(FinishedIds) \in Nat /\ Cardinality(FinishedIds') \in Nat
  BY <1>1, FS_Subset, FS_CardinalityType
<1>3. ASSUME NEW i \in Instances PROVE report'[i].count <= Cardinality(outputs'[i])
  <2>1. outputs'[i] \in SUBSET Requests /\ report[i].count \in Nat
    BY DEF ThreadsTypeOK, InstanceTypeOK, CollectTypeOK, Reports
  <2>2. IsFiniteSet(outputs'[i])
    BY <2>1, FiniteInstances, FS_Subset
  <2>3. /\ Cardinality(outputs[i]) <= Cardinality(outputs'[i])
        /\ Cardinality(outputs[i]) \in Nat /\ Cardinality(outputs'[i]) \in Nat
    BY <2>2, FS_Subset, FS_CardinalityType
  <2> QED
    BY <2>1, <2>3 DEF CountsSound
<1> QED
  BY <1>1, <1>2, <1>3 DEF CountsSound, stopVars

LEMMA CountsCollect ==
  ASSUME WindowInv, IdsInvariant', Collect
  PROVE  CountsSound'
<1> USE DEF CountsSound
<1>0. /\ UNCHANGED <<outputs, FinishedIds>> /\ ThreadsTypeOK /\ OneCopy /\ CountsSound
      /\ report \in [Instances -> Reports]
  BY DEF Collect, CollectCheck, CollectGather, CollectStop, CollectFrame, outputVars, FinishedIds,
         WindowInv, ThreadsTypeOK, CollectTypeOK
<1>1. /\ IsFiniteSet(FinishedIds) /\ FinishedIds \subseteq Requests
      /\ Cardinality(FinishedIds) \in Nat
      /\ \A i \in Instances : Cardinality(outputs[i]) \in Nat
  BY <1>0, OutputsAddUp, FS_CardinalityType
<1>2. CASE CollectCheck
  <2>1. CASE shutDown \/ AllFinished
    <3>1. UNCHANGED <<report, total, stopVars>> /\ collect' = "stop"
      BY <1>2, <2>1 DEF CollectCheck
    <3>2. ~external => InWindow \subseteq FinishedIds
      <4>1. CASE shutDown
        BY <1>0, <4>1
      <4>2. CASE AllFinished
        <5>1. Cardinality(Requests) \in Nat /\ Cardinality(FinishedIds) <= Cardinality(Requests)
          BY <1>1, FiniteInstances, FS_Subset, FS_CardinalityType
        <5>2. Cardinality(FinishedIds) = Cardinality(Requests)
          BY <1>0, <1>1, <4>2, <5>1 DEF AllFinished
        <5>3. FinishedIds = Requests
          BY <1>1, <5>2, FiniteInstances, FS_Subset
        <5> QED
          BY <5>3, ClusterAssumption
      <4> QED
        BY <2>1, <4>1, <4>2
    <3> QED
      BY <1>0, <3>1, <3>2 DEF stopVars
  <2>2. CASE ~(shutDown \/ AllFinished)
    <3>1. /\ UNCHANGED stopVars /\ collect' = "gather" /\ total' = 0
          /\ \A i \in Instances : report'[i].count = 0
      BY <1>2, <2>2 DEF CollectCheck, NoReport
    <3> QED
      BY <1>0, <1>1, <3>1 DEF stopVars
  <2> QED
    BY <2>1, <2>2
<1>3. CASE CollectGather
  <2> DEFINE counts == [i \in Instances |-> report[i].count]
             sizes == [i \in Instances |-> Cardinality(outputs[i])]
  <2>1. /\ total' = total + SumFunctionOnSet(counts, Instances) /\ total = 0
        /\ \A i \in Instances : report'[i].count = 0
        /\ UNCHANGED stopVars /\ collect' = IF inWindow' = {} THEN "stop" ELSE "check"
    BY <1>0, <1>3 DEF CollectGather, NoReport
  <2>2. \A i \in Instances : counts[i] \in Nat /\ sizes[i] \in Nat /\ counts[i] <= sizes[i]
    BY <1>0, <1>1 DEF Reports
  <2>3. Cardinality(FinishedIds) = SumFunctionOnSet(sizes, Instances)
    BY <1>0, OutputsAddUp
  <2> HIDE DEF counts, sizes
  <2>4. /\ SumFunctionOnSet(counts, Instances) <= SumFunctionOnSet(sizes, Instances)
        /\ SumFunctionOnSet(counts, Instances) \in Nat
    BY <2>2, FiniteInstances, SumMonotone, SumNat
  <2>5. total' \in Nat /\ total' <= Cardinality(FinishedIds')
    BY <1>0, <2>1, <2>3, <2>4
  <2>6. inWindow' = {} => InWindow \subseteq FinishedIds'
    BY DEF IdsInvariant, NoIdLost
  <2> QED
    BY <1>0, <1>1, <2>1, <2>5, <2>6 DEF stopVars
<1>4. CASE CollectStop
  BY <1>0, <1>1, <1>4 DEF CollectStop
<1> QED
  BY <1>2, <1>3, <1>4 DEF Collect

LEMMA CountsReport ==
  ASSUME WindowInv, NEW i \in Instances, CopyIds(i) \/ RemoveIds(i)
  PROVE  CountsSound'
<1>0. /\ UNCHANGED <<collect, total, outputs, FinishedIds, stopVars>> /\ CountsSound
      /\ report \in [Instances -> Reports] /\ ThreadsTypeOK /\ OneCopy
  BY DEF CopyIds, RemoveIds, CollectFrame, outputVars, FinishedIds, WindowInv, ThreadsTypeOK,
         CollectTypeOK
<1>1. \A j \in Instances : Cardinality(outputs[j]) \in Nat
  BY <1>0, OutputsAddUp
<1>2. \A j \in Instances : report'[j].count \in {report[j].count, Cardinality(outputs[j])}
  BY <1>0 DEF CopyIds, RemoveIds, Reports
<1>3. \A j \in Instances : report'[j].count <= Cardinality(outputs'[j])
  BY <1>0, <1>1, <1>2 DEF CountsSound
<1> QED
  BY <1>0, <1>3 DEF CountsSound, stopVars

LEMMA CountsInductive ==
  ASSUME WindowInv, ThreadsTypeOK', IdsInvariant', OneCopy', [ClusterNext]_clusterVars
  PROVE  CountsSound'
<1>0. ThreadsTypeOK /\ OneCopy /\ CountsSound
  BY DEF WindowInv
<1>1. CASE Schedule \/ \E c \in calls : Deliver(c)
  <2>1. UNCHANGED <<collect, report, total, stopVars, outputs>>
    BY <1>1 DEF Schedule, TakeArrival, NoArrival, EndSchedule, TestMore, ReadTicket,
       SendUrgent, SendDirect, SendLow, SchedFrame, Deliver, collectVars, outputVars
  <2> QED
    BY <1>0, <2>1, CountsFrame
<1>2. CASE Poll \/ \E l \in LPs : GetHpRequest(l)
  <2>1. UNCHANGED <<collect, report, total, stopVars, outputs>>
    BY <1>2 DEF Poll, PollCheck, PollTimeout, PollPut, PollReady, GetHpRequest, PollFrame,
       collectVars, outputVars
  <2> QED
    BY <1>0, <2>1, CountsFrame
<1>3. CASE StopController
  BY <1>0, <1>3 DEF StopController, CountsSound, outputVars, FinishedIds
<1>4. CASE UNCHANGED clusterVars
  <2>1. UNCHANGED <<collect, report, total, stopVars, outputs>>
    BY <1>4 DEF clusterVars, collectVars, outputVars
  <2> QED
    BY <1>0, <2>1, CountsFrame
<1>5. CASE \E l \in LPs : \E r \in fresh[l] : Offload(l, r)
  <2>1. UNCHANGED <<collect, report, total, stopVars, outputs>>
    BY <1>5 DEF Offload, RunFrame, collectVars, outputVars
  <2> QED
    BY <1>0, <2>1, CountsFrame
<1>6. ASSUME NEW i \in Instances, RunStep(i) PROVE CountsSound'
  <2>1. UNCHANGED <<collect, report, total, stopVars>>
    BY <1>6 DEF RunStep, Intake, EndRun, StepEnd, AppendOutput, NoteFinished, RunFrame, collectVars
  <2>2. outputs \in [Instances -> SUBSET Requests]
    BY <1>0 DEF ThreadsTypeOK, InstanceTypeOK
  <2>3. \A j \in Instances : outputs[j] \subseteq outputs'[j]
    BY <1>6, <2>2 DEF RunStep, Intake, EndRun, StepEnd, AppendOutput, NoteFinished, outputVars
  <2> QED
    BY <1>0, <2>1, <2>3, CountsFrame
<1> QED
  BY <1>1, <1>2, <1>3, <1>4, <1>5, <1>6, CountsCollect, CountsReport DEF ClusterNext

LEMMA WindowInductive == ClusterSpec => []WindowInv
<1>1. ClusterInit => WindowInv
  <2> SUFFICES ASSUME ClusterInit PROVE WindowInv
    OBVIOUS
  <2>1. IdsInvariant
    BY DEF ClusterInit, Empty, NoReport, IdsInvariant, IdsTracked, NoIdLost, FinishedIds
  <2>2. \A i \in Instances : outputs[i] = {}
    BY DEF ClusterInit, Empty
  <2>3. FinishedIds = {}
    BY <2>2 DEF FinishedIds
  <2>4. CountsSound
    <3>1. Cardinality({}) = 0
      BY FS_EmptySet
    <3>2. \A i \in Instances : report[i].count = 0 /\ Cardinality(outputs[i]) = 0
      BY <2>2, <3>1 DEF ClusterInit, NoReport
    <3>3. total = 0 /\ Cardinality(FinishedIds) = 0
      BY <2>3, <3>1 DEF ClusterInit
    <3>4. collect = "check" /\ shutDown = FALSE /\ stopSent = FALSE
      BY DEF ClusterInit
    <3> QED
      BY <3>2, <3>3, <3>4 DEF CountsSound
  <2> QED
    BY <2>1, <2>4, InitType, CopyInit DEF WindowInv
<1>2. WindowInv /\ [ClusterNext]_clusterVars => WindowInv'
  BY TypeInductive, IdsInductive, HandsInductive, CopyInductive, CountsInductive DEF WindowInv
<1> QED
  BY <1>1, <1>2, PTL DEF ClusterSpec

(* Unless the replica is told to stop, the instances are stopped only when *)
(* every request of the window has finished: the count compared with the   *)
(* number of requests never runs ahead of the outputs that exist, and the  *)
(* set of identifiers is empty only when all of them were reported         *)
(* (base_controller.py:67,83-87).                                          *)
THEOREM StopsAfterWindow == ClusterSpec => []WindowFinished
<1>1. WindowInv => WindowFinished
  BY DEF WindowInv, CountsSound, WindowFinished
<1> QED
  BY <1>1, WindowInductive, PTL

(* The whole state of the cluster has its type: total_finished never       *)
(* exceeds the number of requests.                                         *)
THEOREM ClusterTypeCorrect == ClusterSpec => []ClusterTypeOK
<1>1. WindowInv => ClusterTypeOK
  <2> SUFFICES ASSUME WindowInv PROVE ClusterTypeOK
    OBVIOUS
  <2>1. IsFiniteSet(FinishedIds) /\ FinishedIds \subseteq Requests
    BY OutputsAddUp DEF WindowInv
  <2>2. /\ Cardinality(FinishedIds) <= Cardinality(Requests)
        /\ Cardinality(FinishedIds) \in Nat /\ Cardinality(Requests) \in Nat
    BY <2>1, FiniteInstances, FS_Subset, FS_CardinalityType
  <2> QED
    BY <2>2 DEF WindowInv, CountsSound, ClusterTypeOK
<1> QED
  BY <1>1, WindowInductive, PTL
=============================================================================
