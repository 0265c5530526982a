--------------------------- MODULE RequestStream ----------------------------
(***************************************************************************)
(* What one instance promises its caller, whatever the scheduling inside:  *)
(* an accepted request yields a stream of tokens that only grows, by at    *)
(* most one token a step, across preemptions; once the request is closed   *)
(* (finished, aborted or ignored) the stream is final; and a request       *)
(* leaves for another instance only before its first token.                *)
(***************************************************************************)
EXTENDS Integers

CONSTANT Requests

VARIABLES
  stage,    \* "unknown", "accepted", "closed" or "handed"
  emitted   \* number of tokens generated for the request

streamVars == <<stage, emitted>>

StreamInit ==
  /\ stage = [r \in Requests |-> "unknown"]
  /\ emitted = [r \in Requests |-> 0]

Move(R, st) == [r \in Requests |-> IF r \in R THEN st ELSE stage[r]]

Accept(r) ==
  /\ stage[r] = "unknown"
  /\ stage' = Move({r}, "accepted")
  /\ UNCHANGED emitted

(* One step: the requests of G get a token, those of E are closed.         *)
Serve(G, E) ==
  /\ \A r \in G \cup E : stage[r] = "accepted"
  /\ emitted' = [r \in Requests |-> IF r \in G THEN emitted[r] + 1 ELSE emitted[r]]
  /\ stage' = Move(E, "closed")

Hand(R) ==
  /\ \A r \in R : stage[r] = "accepted" /\ emitted[r] = 0
  /\ stage' = Move(R, "handed")
  /\ UNCHANGED emitted

StreamNext ==
  \/ \E r \in Requests : Accept(r)
  \/ \E G \in SUBSET Requests, E \in SUBSET Requests : Serve(G, E)
  \/ \E R \in SUBSET Requests : Hand(R)

StreamSpec == StreamInit /\ [][StreamNext]_streamVars
=============================================================================
