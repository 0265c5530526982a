---------------------------- MODULE PaceCluster -----------------------------
(***************************************************************************)
(* The Pace controller and its instances: the schedule thread, the thread  *)
(* that polls the low-priority instances for urgent requests, the thread   *)
(* that collects completions and decides to stop, and per instance the run *)
(* thread and the RPC handlers around it (core/controller/base_controller, *)
(* pace_controller, disutil/instance, lp_instance, hp_instance).           *)
(*                                                                         *)
(* The engine of an instance is reduced to what LowPriorityEngine and      *)
(* HighPriorityEngine promise (RequestStream): a step closes some of its   *)
(* requests, and on a low-priority instance hands over some that were      *)
(* never executed.  Remote calls that are not awaited are delivered in any *)
(* order: an actor serves them from a pool of threads.                     *)
(***************************************************************************)
EXTENDS Integers, Sequences, FiniteSets, FiniteSetsExt

CONSTANTS
  Requests,   \* the generated requests, ranked by arrived_at
  InWindow,   \* in_window_request_ids, as generate_request computes them
  NumLP,      \* number of low-priority instances
  NumHP,      \* number of high-priority instances
  MayBeStopped  \* whether Replica.stop may be called

ASSUME ClusterAssumption ==
  /\ Requests \subseteq Nat /\ IsFiniteSet(Requests)
  /\ InWindow \subseteq Requests
  /\ Cardinality(InWindow) > 1   \* asserted by generate_request
  /\ NumLP \in Nat \ {0} /\ NumHP \in Nat \ {0}
  /\ MayBeStopped \in BOOLEAN

LPs == {"LP"} \X (0..NumLP - 1)
HPs == {"HP"} \X (0..NumHP - 1)
Instances == LPs \cup HPs

VARIABLES
  generated,   \* generated_requests
  toSchedule,  \* _request_to_schedule; filled in rank order, so its head is its minimum
  hpQueue,     \* high_priority_queue
  lowIdx,      \* low_idx % len(lp_instances)
  highIdx,     \* high_idx % len(hp_instances)
  sched,       \* where the schedule thread is, in the awaited ticket call included
  ticket,      \* get_ticket
  calls,       \* _add_request and _add_sequence calls under way
  poll,        \* where the polling thread is
  ask,         \* per low-priority instance, the _get_hp_request call under way
  putting,     \* the rest of the result the polling thread is queueing
  collect,     \* where the completion thread is
  report,      \* per instance, the _sequence_finished_and_aborted call under way
  total,       \* total_finished
  inWindow,    \* in_window_request_ids
  external,    \* whether Replica.stop was called
  shutDown,    \* the controller's shut_down
  stopSent,    \* instance_stop_signal
  requests,    \* per instance, requests
  pending,     \* per instance, _pending_sequences
  engine,      \* per instance, the requests its engine has
  fresh,       \* those of them that were never executed
  offloaded,   \* per low-priority instance, hp_req_queue
  run,         \* per instance, where the run thread is
  done,        \* per instance, final outputs of the step not noted yet
  outputs,     \* per instance, output_list
  newIds       \* per instance, _new_finished_ids

schedVars == <<generated, toSchedule, lowIdx, highIdx, sched, ticket>>
pollVars == <<poll, ask, putting>>
collectVars == <<collect, report, total, inWindow>>
stopVars == <<external, shutDown, stopSent>>
inboxVars == <<requests, pending>>
engineVars == <<engine, fresh, offloaded, run>>
outputVars == <<done, outputs, newIds>>
clusterVars == <<schedVars, hpQueue, calls, pollVars, collectVars, stopVars,
                 inboxVars, engineVars, outputVars>>

NoAsk == [at |-> "none", got |-> <<>>]
NoReport == [at |-> "none", ids |-> {}, count |-> 0]

RemoteCalls == [to : Instances, kind : {"request", "sequence"}, req : Requests]
Asks == [at : {"none", "called", "answered"}, got : Seq(Requests)]
Reports == [at : {"none", "called", "copied", "answered"}, ids : SUBSET Requests, count : Nat]

ControllerTypeOK ==
  /\ generated \subseteq Requests /\ toSchedule \subseteq Requests
  /\ hpQueue \in Seq(Requests)
  /\ lowIdx \in 0..NumLP - 1 /\ highIdx \in 0..NumHP - 1
  /\ sched \in {"loop", "target", "pending", "waiting", "requests", "decide", "ended"}
  /\ ticket \in BOOLEAN
  /\ calls \subseteq RemoteCalls

PollTypeOK ==
  /\ poll \in {"check", "wait", "put", "ended"}
  /\ ask \in [LPs -> Asks]
  /\ putting \in Seq(Requests)

CollectTypeOK ==
  /\ collect \in {"check", "gather", "stop", "ended"}
  /\ report \in [Instances -> Reports]
  /\ inWindow \subseteq InWindow
  /\ external \in BOOLEAN /\ shutDown \in BOOLEAN /\ stopSent \in BOOLEAN

InstanceTypeOK ==
  /\ requests \in [Instances -> SUBSET Requests]
  /\ pending \in [HPs -> SUBSET Requests]
  /\ engine \in [Instances -> SUBSET Requests]
  /\ fresh \in [LPs -> SUBSET Requests]
  /\ offloaded \in [LPs -> Seq(Requests)]
  /\ run \in [Instances -> {"top", "step", "ended"}]
  /\ done \in [Instances -> SUBSET Requests]
  /\ outputs \in [Instances -> SUBSET Requests]
  /\ newIds \in [Instances -> SUBSET Requests]

ThreadsTypeOK == ControllerTypeOK /\ PollTypeOK /\ CollectTypeOK /\ InstanceTypeOK

ClusterTypeOK == ThreadsTypeOK /\ total \in 0..Cardinality(Requests)

Empty(I) == [i \in I |-> {}]

ClusterInit ==
  /\ generated = Requests /\ toSchedule = {}
  /\ hpQueue = <<>> /\ putting = <<>>
  /\ lowIdx = 0 /\ highIdx = 0
  /\ sched = "loop" /\ poll = "check" /\ collect = "check"
  /\ ticket = FALSE
  /\ calls = {}
  /\ ask = [l \in LPs |-> NoAsk]
  /\ report = [i \in Instances |-> NoReport]
  /\ total = 0 /\ inWindow = InWindow
  /\ external = FALSE /\ shutDown = FALSE /\ stopSent = FALSE
  /\ requests = Empty(Instances) /\ pending = Empty(HPs)
  /\ engine = Empty(Instances) /\ fresh = Empty(LPs)
  /\ offloaded = [l \in LPs |-> <<>>]
  /\ run = [i \in Instances |-> "top"]
  /\ done = Empty(Instances) /\ outputs = Empty(Instances) /\ newIds = Empty(Instances)

-----------------------------------------------------------------------------
(* The schedule thread.                                                    *)

SchedFrame == UNCHANGED <<pollVars, collectVars, stopVars, inboxVars, engineVars, outputVars>>

(* One turn of schedule_requests up to _schedule: the next request is      *)
(* taken once its arrival time has come.                                   *)
TakeArrival ==
  /\ sched = "loop" /\ ~shutDown
  /\ generated # {}
  /\ generated' = generated \ {Min(generated)}
  /\ toSchedule' = toSchedule \cup {Min(generated)}
  /\ sched' = "target"
  /\ UNCHANGED <<hpQueue, lowIdx, highIdx, ticket, calls>> /\ SchedFrame

NoArrival ==
  /\ sched = "loop" /\ ~shutDown
  /\ sched' = "target"
  /\ UNCHANGED <<generated, toSchedule, hpQueue, lowIdx, highIdx, ticket, calls>>
  /\ SchedFrame

EndSchedule ==
  /\ sched = "loop" /\ shutDown
  /\ sched' = "ended"
  /\ UNCHANGED <<generated, toSchedule, hpQueue, lowIdx, highIdx, ticket, calls>>
  /\ SchedFrame

(* Mutant: the loop body runs before the test.                             *)
AlwaysMore == TRUE

MoreToSchedule == toSchedule # {} \/ hpQueue # <<>>

(* The loop of _schedule does not look at shut_down.                       *)
TestMore ==
  /\ sched = "target"
  /\ sched' = IF MoreToSchedule THEN "pending" ELSE "loop"
  /\ UNCHANGED <<generated, toSchedule, hpQueue, lowIdx, highIdx, ticket, calls>>
  /\ SchedFrame

TargetHP == <<"HP", highIdx>>
TargetLP == <<"LP", lowIdx>>

Answer(b) == ticket' = b /\ sched' = "decide"

(* _seq_polling_ticket reads _pending_sequences, scheduler.waiting,        *)
(* requests and the running sequences, one after the other, while the run  *)
(* thread moves requests between them.  How many of the engine's requests  *)
(* wait or run, and the free memory, are left open.                        *)
ReadTicket ==
  /\ \/ /\ sched = "pending"
        /\ IF pending[TargetHP] = {} THEN sched' = "waiting" /\ UNCHANGED ticket
                                     ELSE Answer(FALSE)
     \/ /\ sched = "waiting"
        /\ \/ sched' = "requests" /\ UNCHANGED ticket
           \/ engine[TargetHP] # {} /\ Answer(FALSE)
     \/ /\ sched = "requests"
        /\ \/ requests[TargetHP] = {} /\ Answer(TRUE)
           \/ requests[TargetHP] \cup engine[TargetHP] # {} /\ Answer(FALSE)
  /\ UNCHANGED <<generated, toSchedule, hpQueue, lowIdx, highIdx, calls>>
  /\ SchedFrame

Call(to, kind, r) == calls' = calls \cup {[to |-> to, kind |-> kind, req |-> r]}

(* The local get_ticket ends with the turn.                                *)
EndTurn == sched' = "target" /\ ticket' = FALSE

(* Mutant: the head of the queue is sent and kept.                         *)
SendUrgentAgain ==
  /\ sched = "decide" /\ hpQueue # <<>>
  /\ Call(TargetHP, "sequence", Head(hpQueue))
  /\ highIdx' = (highIdx + 1) % NumHP
  /\ EndTurn
  /\ UNCHANGED <<generated, toSchedule, hpQueue, lowIdx>> /\ SchedFrame

(* Urgent sequences go first, whatever the ticket says.                    *)
SendUrgent ==
  /\ sched = "decide" /\ hpQueue # <<>>
  /\ Call(TargetHP, "sequence", Head(hpQueue))
  /\ hpQueue' = Tail(hpQueue)
  /\ highIdx' = (highIdx + 1) % NumHP
  /\ EndTurn
  /\ UNCHANGED <<generated, toSchedule, lowIdx>> /\ SchedFrame

PopRequest == toSchedule # {} /\ toSchedule' = toSchedule \ {Min(toSchedule)}

SendDirect ==
  /\ sched = "decide" /\ hpQueue = <<>> /\ ticket
  /\ PopRequest
  /\ Call(TargetHP, "request", Min(toSchedule))
  /\ highIdx' = (highIdx + 1) % NumHP
  /\ EndTurn
  /\ UNCHANGED <<generated, hpQueue, lowIdx>> /\ SchedFrame

SendLow ==
  /\ sched = "decide" /\ hpQueue = <<>> /\ ~ticket
  /\ PopRequest
  /\ Call(TargetLP, "request", Min(toSchedule))
  /\ lowIdx' = (lowIdx + 1) % NumLP
  /\ EndTurn
  /\ UNCHANGED <<generated, hpQueue, highIdx>> /\ SchedFrame

Schedule ==
  \/ TakeArrival \/ NoArrival \/ EndSchedule \/ TestMore \/ ReadTicket
  \/ SendUrgent \/ SendDirect \/ SendLow

(* _add_request and _add_sequence, on one of the instance's RPC threads.   *)
Deliver(c) ==
  /\ c \in calls
  /\ calls' = calls \ {c}
  /\ IF c.kind = "request"
     THEN requests' = [requests EXCEPT ![c.to] = @ \cup {c.req}] /\ UNCHANGED pending
     ELSE pending' = [pending EXCEPT ![c.to] = @ \cup {c.req}] /\ UNCHANGED requests
  /\ UNCHANGED <<schedVars, hpQueue, pollVars, collectVars, stopVars, engineVars, outputVars>>

-----------------------------------------------------------------------------
(* The polling thread, _get_high_priority_request, and the RPC it calls.   *)

PollFrame == UNCHANGED <<schedVars, calls, collectVars, stopVars, inboxVars,
                         engine, fresh, run, outputVars>>

(* All instances are asked again once every earlier call was consumed.     *)
PollCheck ==
  /\ poll = "check"
  /\ IF shutDown
     THEN poll' = "ended" /\ UNCHANGED ask
     ELSE /\ poll' = "wait"
          /\ ask' = IF \A l \in LPs : ask[l].at = "none"
                    THEN [l \in LPs |-> [NoAsk EXCEPT !.at = "called"]] ELSE ask
  /\ UNCHANGED <<hpQueue, putting, offloaded>> /\ PollFrame

(* ray.wait returns one ready call, or nothing after 0.1 s.                *)
PollReady(l) ==
  /\ poll = "wait"
  /\ ask[l].at = "answered"
  /\ putting' = ask[l].got
  /\ ask' = [ask EXCEPT ![l] = NoAsk]
  /\ poll' = "put"
  /\ UNCHANGED <<hpQueue, offloaded>> /\ PollFrame

PollTimeout ==
  /\ poll = "wait"
  /\ poll' = "check"
  /\ UNCHANGED <<hpQueue, ask, putting, offloaded>> /\ PollFrame

PollPut ==
  /\ poll = "put"
  /\ IF putting = <<>>
     THEN poll' = "check" /\ UNCHANGED <<hpQueue, putting>>
     ELSE /\ hpQueue' = Append(hpQueue, Head(putting))
          /\ putting' = Tail(putting)
          /\ UNCHANGED poll
  /\ UNCHANGED <<ask, offloaded>> /\ PollFrame

Poll == PollCheck \/ PollTimeout \/ PollPut \/ \E l \in LPs : PollReady(l)

(* _get_hp_request pops until it finds the queue empty; the run thread may *)
(* append in between.                                                      *)
GetHpRequest(l) ==
  /\ ask[l].at = "called"
  /\ IF offloaded[l] = <<>>
     THEN ask' = [ask EXCEPT ![l].at = "answered"] /\ UNCHANGED offloaded
     ELSE /\ ask' = [ask EXCEPT ![l].got = Append(@, Head(offloaded[l]))]
          /\ offloaded' = [offloaded EXCEPT ![l] = Tail(@)]
  /\ UNCHANGED <<hpQueue, poll, putting>> /\ PollFrame

-----------------------------------------------------------------------------
(* The completion thread, _get_completed_request, and the RPC it calls.    *)

CollectFrame == UNCHANGED <<schedVars, hpQueue, calls, pollVars, inboxVars, engineVars>>

(* Mutant: a request is missing from the count.                            *)
AllButOneFinished == total >= Cardinality(Requests) - 1

AllFinished == total >= Cardinality(Requests)

(* Mutant: total_finished is not reset, so a round adds to the one before. *)
CollectKeepsTotal ==
  /\ collect = "check"
  /\ IF shutDown \/ AllFinished
     THEN collect' = "stop" /\ UNCHANGED <<report, total>>
     ELSE /\ collect' = "gather"
          /\ report' = [i \in Instances |-> [NoReport EXCEPT !.at = "called"]]
          /\ UNCHANGED total
  /\ UNCHANGED <<inWindow, stopVars, outputVars>> /\ CollectFrame

CollectCheck ==
  /\ collect = "check"
  /\ IF shutDown \/ AllFinished
     THEN collect' = "stop" /\ UNCHANGED <<report, total>>
     ELSE /\ collect' = "gather"
          /\ report' = [i \in Instances |-> [NoReport EXCEPT !.at = "called"]]
          /\ total' = 0
  /\ UNCHANGED <<inWindow, stopVars, outputVars>> /\ CollectFrame

(* ray.get(refs) waits for all instances.                                  *)
CollectGather ==
  /\ collect = "gather"
  /\ \A i \in Instances : report[i].at = "answered"
  /\ total' = total + SumFunctionOnSet([i \in Instances |-> report[i].count], Instances)
  /\ inWindow' = inWindow \ UNION {report[i].ids : i \in Instances}
  /\ report' = [i \in Instances |-> NoReport]
  /\ collect' = IF inWindow' = {} THEN "stop" ELSE "check"
  /\ UNCHANGED <<stopVars, outputVars>> /\ CollectFrame

CollectStop ==
  /\ collect = "stop"
  /\ stopSent' = TRUE /\ shutDown' = TRUE
  /\ collect' = "ended"
  /\ UNCHANGED <<report, total, inWindow, external, outputVars>> /\ CollectFrame

Collect == CollectCheck \/ CollectGather \/ CollectStop

(* _sequence_finished_and_aborted copies the set, then removes what it     *)
(* copied and counts the outputs.                                          *)
CopyIds(i) ==
  /\ report[i].at = "called"
  /\ report' = [report EXCEPT ![i].at = "copied", ![i].ids = newIds[i]]
  /\ UNCHANGED <<collect, total, inWindow, stopVars, outputVars>> /\ CollectFrame

(* Mutant: the set is replaced by an empty one.                            *)
ClearIds(i) ==
  /\ report[i].at = "copied"
  /\ newIds' = [newIds EXCEPT ![i] = {}]
  /\ report' = [report EXCEPT ![i].at = "answered", ![i].count = Cardinality(outputs[i])]
  /\ UNCHANGED <<collect, total, inWindow, stopVars, done, outputs>> /\ CollectFrame

RemoveIds(i) ==
  /\ report[i].at = "copied"
  /\ newIds' = [newIds EXCEPT ![i] = @ \ report[i].ids]
  /\ report' = [report EXCEPT ![i].at = "answered", ![i].count = Cardinality(outputs[i])]
  /\ UNCHANGED <<collect, total, inWindow, stopVars, done, outputs>> /\ CollectFrame

(* Replica.stop, through the thread that waits for the controller's signal. *)
StopController ==
  /\ MayBeStopped /\ ~external
  /\ external' = TRUE /\ shutDown' = TRUE
  /\ UNCHANGED <<collect, report, total, inWindow, stopSent, outputVars>> /\ CollectFrame

-----------------------------------------------------------------------------
(* The run thread of an instance.                                          *)

RunFrame == UNCHANGED <<schedVars, hpQueue, calls, pollVars, collectVars, stopVars>>

Pending(i) == IF i \in HPs THEN pending[i] ELSE {}
SetFresh(i, S) == fresh' = IF i \in LPs THEN [fresh EXCEPT ![i] = S] ELSE fresh
Fresh(i) == IF i \in LPs THEN fresh[i] ELSE {}

(* The requests that were delivered and, on a high-priority instance, the  *)
(* pending sequences are added.  A turn without any request is a stutter.  *)
Intake(i) ==
  /\ run[i] = "top" /\ done[i] = {}
  /\ requests[i] \cup Pending(i) \cup engine[i] # {}
  /\ engine' = [engine EXCEPT ![i] = @ \cup requests[i] \cup Pending(i)]
  /\ SetFresh(i, Fresh(i) \cup requests[i])
  /\ requests' = [requests EXCEPT ![i] = {}]
  /\ pending' = IF i \in HPs THEN [pending EXCEPT ![i] = {}] ELSE pending
  /\ run' = [run EXCEPT ![i] = "step"]
  /\ UNCHANGED <<offloaded, outputVars>> /\ RunFrame

(* process_scheduler_metadata of a low-priority step.                      *)
Offload(l, r) ==
  /\ run[l] = "step" /\ r \in fresh[l]
  /\ engine' = [engine EXCEPT ![l] = @ \ {r}]
  /\ fresh' = [fresh EXCEPT ![l] = @ \ {r}]
  /\ offloaded' = [offloaded EXCEPT ![l] = Append(@, r)]
  /\ UNCHANGED <<run, inboxVars, outputVars>> /\ RunFrame

(* step() returns: the requests of E are finished, aborted or ignored,     *)
(* those of F were still not executed.                                     *)
StepEnd(i, E, F) ==
  /\ run[i] = "step"
  /\ E \subseteq engine[i] /\ F \subseteq Fresh(i) \ E
  /\ engine' = [engine EXCEPT ![i] = @ \ E]
  /\ SetFresh(i, F)
  /\ done' = [done EXCEPT ![i] = E]
  /\ run' = [run EXCEPT ![i] = "top"]
  /\ UNCHANGED <<offloaded, inboxVars, outputs, newIds>> /\ RunFrame

(* finished_seq, one output at a time: first the output list, then the set *)
(* of new identifiers.                                                     *)
AppendOutput(i, r) ==
  /\ r \in done[i] /\ done[i] \cap outputs[i] = {}
  /\ outputs' = [outputs EXCEPT ![i] = @ \cup {r}]
  /\ UNCHANGED <<done, newIds, engineVars, inboxVars>> /\ RunFrame

NoteFinished(i, r) ==
  /\ r \in done[i] \cap outputs[i]
  /\ newIds' = [newIds EXCEPT ![i] = @ \cup {r}]
  /\ done' = [done EXCEPT ![i] = @ \ {r}]
  /\ UNCHANGED <<outputs, engineVars, inboxVars>> /\ RunFrame

EndRun(i) ==
  /\ run[i] = "top" /\ done[i] = {} /\ stopSent
  /\ run' = [run EXCEPT ![i] = "ended"]
  /\ UNCHANGED <<engine, fresh, offloaded, inboxVars, outputVars>> /\ RunFrame

RunStep(i) ==
  \/ Intake(i) \/ EndRun(i)
  \/ \E E \in SUBSET engine[i] : \E F \in SUBSET (Fresh(i) \ E) : StepEnd(i, E, F)
  \/ \E r \in done[i] : AppendOutput(i, r) \/ NoteFinished(i, r)

ClusterNext ==
  \/ Schedule \/ Poll \/ Collect \/ StopController
  \/ \E c \in calls : Deliver(c)
  \/ \E l \in LPs : GetHpRequest(l) \/ \E r \in fresh[l] : Offload(l, r)
  \/ \E i \in Instances : CopyIds(i) \/ RemoveIds(i) \/ RunStep(i)

ClusterSpec == ClusterInit /\ [][ClusterNext]_clusterVars

-----------------------------------------------------------------------------
(* Properties.                                                             *)

(* Where a request can be: in a place of the controller, or in one of an   *)
(* instance, remote calls to it included.                                  *)
Controller == <<"controller", 0>>
Sites ==
  ({"generated", "toSchedule", "hpQueue", "putting"} \X {Controller})
    \cup ({"requestCall", "requests", "engine", "output"} \X Instances)
    \cup ({"sequenceCall", "pending"} \X HPs)
    \cup ({"offloaded", "answer"} \X LPs)

AtCall(i, kind, r) == [to |-> i, kind |-> kind, req |-> r] \in calls

(* The request is in place p of i.                                         *)
Holds(r, p, i) ==
  \/ p = "generated" /\ r \in generated
  \/ p = "toSchedule" /\ r \in toSchedule
  \/ p = "hpQueue" /\ r \in Range(hpQueue)
  \/ p = "putting" /\ r \in Range(putting)
  \/ p = "requestCall" /\ AtCall(i, "request", r)
  \/ p = "requests" /\ r \in requests[i]
  \/ p = "engine" /\ r \in engine[i]
  \/ p = "output" /\ r \in done[i] \cup outputs[i]
  \/ p = "sequenceCall" /\ AtCall(i, "sequence", r)
  \/ p = "pending" /\ r \in pending[i]
  \/ p = "offloaded" /\ r \in Range(offloaded[i])
  \/ p = "answer" /\ r \in Range(ask[i].got)

Whereabouts(r) == {s \in Sites : Holds(r, s[1], s[2])}

NothingTwice ==
  /\ IsInjective(hpQueue) /\ IsInjective(putting)
  /\ \A l \in LPs : IsInjective(offloaded[l]) /\ IsInjective(ask[l].got)

(* A request is in exactly one place of the cluster at any time, whatever  *)
(* the order in which the controller's threads, the remote calls and the   *)
(* run threads take their steps: offloading neither loses a request nor    *)
(* lets two instances serve it (pace_controller.py:42-87,                  *)
(* lp_instance.py:35-45, hp_instance.py:53-84).                            *)
OneCopy ==
  /\ NothingTwice
  /\ \A r \in Requests : LET W == Whereabouts(r) IN \E s \in W : W = {s}

FinishedIds == UNION {outputs[i] : i \in Instances}

(* A completion reaches the controller: the identifier of a finished       *)
(* request of the window is in the hands of the run thread, in the set it  *)
(* fills, in a report, or counted; an identifier added between the copy    *)
(* and the removal is not lost (instance.py:119-121,277-281, whose comment *)
(* warns that the set is not thread-safe).                                 *)
NoIdLost ==
  \A r \in InWindow : r \in FinishedIds <=>
    \/ r \notin inWindow
    \/ \E i \in Instances : r \in (done[i] \cap outputs[i]) \cup newIds[i] \cup report[i].ids

(* `All the requests in the window finished, shutting down...': unless it  *)
(* is told to stop, the controller stops the instances only after every    *)
(* request of the window has finished, by either of the two tests of the   *)
(* completion thread (base_controller.py:67,83-87).                        *)
WindowFinished ==
  stopSent /\ ~external => InWindow \subseteq FinishedIds

(* _request_to_schedule.pop(0) never meets an empty list: what the loop    *)
(* test of _schedule saw is still there after the ticket call, although    *)
(* the polling thread uses the queue meanwhile (pace_controller.py:70-83). *)
PopSafe == sched = "decide" /\ hpQueue = <<>> => toSchedule # {}

(* The threads and the remote calls keep running; requests arrive; a       *)
(* request of the window leaves an engine that keeps stepping, which is    *)
(* what EveryRequestLeaves and HPEveryRequestEnds say of the engines.  *)
WindowLeaves(i) ==
  \E E \in SUBSET engine[i] : \E F \in SUBSET (Fresh(i) \ E) :
    E \cap InWindow # {} /\ StepEnd(i, E, F)

ClusterFairness ==
  /\ WF_clusterVars(Schedule) /\ SF_clusterVars(TakeArrival)
  /\ WF_clusterVars(Poll) /\ SF_clusterVars(\E l \in LPs : PollReady(l))
  /\ WF_clusterVars(Collect)
  /\ WF_clusterVars(\E c \in calls : Deliver(c))
  /\ WF_clusterVars(\E l \in LPs : GetHpRequest(l))
  /\ WF_clusterVars(\E i \in Instances : CopyIds(i) \/ RemoveIds(i))
  /\ \A i \in Instances : WF_clusterVars(RunStep(i))
  /\ SF_clusterVars(\E i \in Instances : EndRun(i))
  /\ SF_clusterVars(\E i \in Instances : WindowLeaves(i))

ClusterFairSpec == ClusterSpec /\ ClusterFairness

(* The whole run ends: the schedule thread returns and every instance      *)
(* leaves its loop, which is what Replica.run waits for.                   *)
RunEnds == <>(sched = "ended" /\ \A i \in Instances : run[i] = "ended")
=============================================================================
