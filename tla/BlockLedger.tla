----------------------------- MODULE BlockLedger -----------------------------
(***************************************************************************)
(* What a block manager promises the scheduler, counting blocks only: a    *)
(* sequence gets all the blocks of its prompt at once and only above the   *)
(* watermark, then at most one block a step, and gives all of them back at *)
(* once.                                                                   *)
(***************************************************************************)
EXTENDS Integers, Functions

CONSTANTS Clients, Total, Watermark

VARIABLE held   \* the number of blocks of each sequence

Available == Total - SumFunctionOnSet(held, Clients)

LedgerInit == held = [s \in Clients |-> 0]

Grant(s, n) ==
  /\ held[s] = 0 /\ n > 0
  /\ Available - n >= Watermark
  /\ held' = [held EXCEPT ![s] = n]

Extend(s) ==
  /\ held[s] > 0
  /\ Available > 0
  /\ held' = [held EXCEPT ![s] = @ + 1]

Release(S) == held' = [s \in Clients |-> IF s \in S THEN 0 ELSE held[s]]

LedgerNext ==
  \/ \E s \in Clients : Extend(s) \/ \E n \in 1..Total : Grant(s, n)
  \/ \E S \in SUBSET Clients : Release(S)

LedgerSpec == LedgerInit /\ [][LedgerNext]_held
=============================================================================
