-------------------------- MODULE BlockSpaceManager --------------------------
(***************************************************************************)
(* The block manager of core/block_space_manager, at the granularity of    *)
(* its allocator's lock: each pop, append and len of the free list is      *)
(* atomic, everything between two of them is not.  The run thread of an    *)
(* instance (or the execution loop of a worker) allocates, appends and     *)
(* frees; RPC threads free concurrently, the way transfer_kv_cache and     *)
(* _get_kv_cache do once a prefilled sequence has been copied.  InstanceEngine *)
(* counts blocks with the abstraction proved sound here.                   *)
(***************************************************************************)
EXTENDS Integers, FiniteSets

CONSTANTS
  Blocks,           \* the physical blocks
  Seqs,             \* sequences
  NoSeq,            \* the absence of a sequence
  RunThread,        \* the one thread that allocates
  RpcThreads,       \* the threads that serve remote calls
  WatermarkBlocks,  \* int(watermark * num_gpu_blocks)
  MaxLogical        \* bound on the logical blocks of a sequence

ASSUME ManagerAssumption ==
  /\ IsFiniteSet(Blocks) /\ IsFiniteSet(Seqs)
  /\ NoSeq \notin Seqs
  /\ RunThread \notin RpcThreads
  /\ WatermarkBlocks \in Nat
  /\ MaxLogical \in Nat \ {0}

VARIABLES
  free,      \* gpu_allocator.free_blocks
  tables,    \* block_tables; {} for a sequence that is not a key of it
  logical,   \* len(seq.logical_token_blocks)
  op         \* per thread, the call it is executing

vars == <<free, tables, logical, op>>

Threads == {RunThread} \cup RpcThreads

Kinds == {"idle", "allocate", "append", "free"}

(* need: blocks still to pop; hand: the local block list of the call, the  *)
(* blocks popped and not yet in a table, or still to be returned.          *)
Idle == [kind |-> "idle", seq |-> NoSeq, need |-> 0, hand |-> {}]

TypeOK ==
  /\ free \subseteq Blocks
  /\ tables \in [Seqs -> SUBSET Blocks]
  /\ logical \in [Seqs -> 1..MaxLogical]
  /\ op \in [Threads -> [kind : Kinds, seq : Seqs \cup {NoSeq}, need : Nat,
                         hand : SUBSET Blocks]]

Init ==
  /\ free = Blocks
  /\ tables = [s \in Seqs |-> {}]
  /\ logical \in [Seqs -> 1..MaxLogical]
  /\ op = [t \in Threads |-> Idle]

(* A sequence is passed to one call at a time: a prefilled sequence has    *)
(* left the scheduler's lists before its blocks are fetched.               *)
Unused(s) == \A t \in Threads : op[t].seq # s

IsAllocated(s) == tables[s] # {}

(* Mutant: the watermark is forgotten.                                     *)
CanAllocateAll(s) == Cardinality(free) >= logical[s]

CanAllocate(s) == Cardinality(free) - logical[s] >= WatermarkBlocks

(* Mutant: the scheduler does not ask.                                     *)
CanAlwaysAppend == TRUE

CanAppendSlot == Cardinality(free) > 0

(* can_allocate, then the loop of allocate.                                *)
BeginAllocate(s) ==
  /\ op[RunThread].kind = "idle"
  /\ Unused(s) /\ ~IsAllocated(s)
  /\ CanAllocate(s)
  /\ op' = [op EXCEPT ![RunThread] =
              [kind |-> "allocate", seq |-> s, need |-> logical[s], hand |-> {}]]
  /\ UNCHANGED <<free, tables, logical>>

(* Mutant: append_slot allocates although the table covers the tokens.     *)
BeginAppendAlways(s) ==
  /\ op[RunThread].kind = "idle"
  /\ Unused(s) /\ IsAllocated(s)
  /\ CanAppendSlot
  /\ op' = [op EXCEPT ![RunThread] =
              [kind |-> "append", seq |-> s, need |-> 1, hand |-> {}]]
  /\ UNCHANGED <<free, tables, logical>>

(* can_append_slot, then append_slot up to its allocation, which is made   *)
(* only for a new logical block.                                           *)
BeginAppend(s) ==
  /\ op[RunThread].kind = "idle"
  /\ Unused(s) /\ IsAllocated(s)
  /\ CanAppendSlot
  /\ Cardinality(tables[s]) < logical[s]
  /\ op' = [op EXCEPT ![RunThread] =
              [kind |-> "append", seq |-> s, need |-> 1, hand |-> {}]]
  /\ UNCHANGED <<free, tables, logical>>

(* Mutant: the loop runs once more than asked.                             *)
TakeBlockExtra(b) ==
  /\ op[RunThread].kind \in {"allocate", "append"}
  /\ op[RunThread].need >= 0
  /\ b \in free
  /\ free' = free \ {b}
  /\ op' = [op EXCEPT ![RunThread].need = @ - 1, ![RunThread].hand = @ \cup {b}]
  /\ UNCHANGED <<tables, logical>>

(* BlockAllocator.allocate, under its lock.                                *)
TakeBlock(b) ==
  /\ op[RunThread].need > 0
  /\ b \in free
  /\ free' = free \ {b}
  /\ op' = [op EXCEPT ![RunThread].need = @ - 1, ![RunThread].hand = @ \cup {b}]
  /\ UNCHANGED <<tables, logical>>

(* Mutant: append_slot replaces the table instead of extending it.         *)
EndTakeReplaces ==
  /\ op[RunThread].kind \in {"allocate", "append"}
  /\ op[RunThread].need = 0
  /\ tables' = [tables EXCEPT ![op[RunThread].seq] = op[RunThread].hand]
  /\ op' = [op EXCEPT ![RunThread] = Idle]
  /\ UNCHANGED <<free, logical>>

(* The block list becomes the table of the sequence, or joins it.          *)
EndTake ==
  /\ op[RunThread].kind \in {"allocate", "append"}
  /\ op[RunThread].need = 0
  /\ tables' = [tables EXCEPT ![op[RunThread].seq] = @ \cup op[RunThread].hand]
  /\ op' = [op EXCEPT ![RunThread] = Idle]
  /\ UNCHANGED <<free, logical>>

BeginFree(t, s) ==
  /\ op[t].kind = "idle"
  /\ Unused(s) /\ IsAllocated(s)
  /\ op' = [op EXCEPT ![t] = [kind |-> "free", seq |-> s, need |-> 0, hand |-> tables[s]]]
  /\ UNCHANGED <<free, tables, logical>>

(* BlockAllocator.free, under its lock.                                    *)
ReturnBlock(t, b) ==
  /\ op[t].kind = "free"
  /\ b \in op[t].hand
  /\ free' = free \cup {b}
  /\ op' = [op EXCEPT ![t].hand = @ \ {b}]
  /\ UNCHANGED <<tables, logical>>

(* Mutant: the entry of the sequence is not deleted.                       *)
EndFreeKeepsEntry(t) ==
  /\ op[t].kind = "free"
  /\ op[t].hand = {}
  /\ op' = [op EXCEPT ![t] = Idle]
  /\ UNCHANGED <<free, tables, logical>>

(* del self.block_tables[seq.seq_id]                                       *)
EndFree(t) ==
  /\ op[t].kind = "free"
  /\ op[t].hand = {}
  /\ tables' = [tables EXCEPT ![op[t].seq] = {}]
  /\ op' = [op EXCEPT ![t] = Idle]
  /\ UNCHANGED <<free, logical>>

(* A step appended a token that opens a logical block: only to a sequence  *)
(* that was scheduled, so whose table covers the tokens it had.            *)
Grow(s) ==
  /\ op[RunThread].kind = "idle"
  /\ Unused(s)
  /\ Cardinality(tables[s]) = logical[s]
  /\ logical[s] < MaxLogical
  /\ logical' = [logical EXCEPT ![s] = @ + 1]
  /\ UNCHANGED <<free, tables, op>>

Next ==
  \/ \E s \in Seqs : BeginAllocate(s) \/ BeginAppend(s) \/ Grow(s)
  \/ \E b \in Blocks : TakeBlock(b)
  \/ EndTake
  \/ \E t \in Threads :
       \/ \E s \in Seqs : BeginFree(t, s)
       \/ \E b \in Blocks : ReturnBlock(t, b)
       \/ EndFree(t)

Spec == Init /\ [][Next]_vars

-----------------------------------------------------------------------------
(* Properties.                                                             *)

Freeing(s) == \E t \in Threads : op[t].kind = "free" /\ op[t].seq = s

(* The claims on a block: the free list's, a call's, a table's.  The table *)
(* of a sequence that is being freed claims nothing: its blocks go back    *)
(* one at a time before the entry is deleted.                              *)
Claimed(b, s) == ~Freeing(s) /\ b \in tables[s]

(* No block is given to two sequences, handed back twice or lost, however  *)
(* the lock-protected steps of allocate, append_slot and free interleave   *)
(* (base_block_space_manager.py:34-43,89-129).                             *)
NoDoubleOwner ==
  /\ \A b \in free : \A t \in Threads : b \notin op[t].hand
  /\ \A b \in free : \A s \in Seqs : ~Claimed(b, s)
  /\ \A t, u \in Threads : t # u => op[t].hand \cap op[u].hand = {}
  /\ \A t \in Threads, s \in Seqs : \A b \in op[t].hand : ~Claimed(b, s)
  /\ \A r, s \in Seqs : r # s => \A b \in Blocks : ~(Claimed(b, r) /\ Claimed(b, s))

NoBlockLost ==
  \A b \in Blocks : \/ b \in free
                    \/ \E t \in Threads : b \in op[t].hand
                    \/ \E s \in Seqs : Claimed(b, s)

(* `Out of memory! No free blocks are available.' is never raised: what    *)
(* can_allocate or can_append_slot saw, without holding the lock over the  *)
(* pops, is still there when they are made, and the watermark survives an  *)
(* allocation (base_block_space_manager.py:36-37,81-113).                  *)
NeverDry ==
  /\ Cardinality(free) >= op[RunThread].need
  /\ op[RunThread].kind = "allocate" =>
       Cardinality(free) >= op[RunThread].need + WatermarkBlocks

(* Outside of a call, the table of a sequence has as many blocks as the    *)
(* sequence has logical blocks, or lacks the one its last token opened,    *)
(* which append_slot, adding a single block, makes up for.                 *)
TablesCoverTokens ==
  \A s \in Seqs : IsAllocated(s) /\ Unused(s) =>
    logical[s] - Cardinality(tables[s]) \in {0, 1}

(* The counts the scheduler reasons with: a table counts from the end of   *)
(* allocate to the start of free.                                          *)
Ledger == INSTANCE BlockLedger
            WITH Clients <- Seqs, Total <- Cardinality(Blocks),
                 Watermark <- WatermarkBlocks,
                 held <- [s \in Seqs |-> IF Freeing(s) THEN 0 ELSE Cardinality(tables[s])]

(* The lock-by-lock execution implements the atomic ledger.                *)
ImplementsLedger == Ledger!LedgerSpec
=============================================================================
