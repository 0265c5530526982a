--------------------------- MODULE SequenceObject ---------------------------
(***************************************************************************)
(* The Sequence object of core/datatypes/sequence.py together with the     *)
(* status machine of core/datatypes/sequence_state.py, as values and       *)
(* operators on values.  The engine owns one object per request; every     *)
(* worker owns a deep copy of it.  Token identities, texts and timestamps  *)
(* are abstracted: only lengths and the status decide anything.            *)
(***************************************************************************)
EXTENDS Integers

Finished == {"FINISHED_STOPPED", "FINISHED_LENGTH_CAPPED",
             "FINISHED_IGNORED", "FINISHED_ABORTED"}

Executing == {"RUNNING", "PAUSED"}

Status == {"WAITING"} \cup Executing \cup Finished

(* prompt and output are token counts, processed the prompt tokens whose   *)
(* KV cache exists, scheduled the flag SequenceState._is_scheduled.        *)
SequenceObjects == [status : Status, prompt : Nat, output : Nat,
                    processed : Nat, scheduled : BOOLEAN]

NewObject(p) == [status |-> "WAITING", prompt |-> p, output |-> 0,
                 processed |-> 0, scheduled |-> FALSE]

GetLen(o) == o.prompt + o.output

(* prompt_processing_finished: set exactly when the counter reaches the    *)
(* prompt length, cleared by reset_for_recompute.                          *)
PromptProcessed(o) == o.processed = o.prompt

(* The blocks that n tokens fill, size tokens each.                        *)
CeilDiv(n, size) == (n + size - 1) \div size

(* The transitions SequenceState.set_status accepts; any other one raises  *)
(* ValueError.                                                             *)
Legal(from, to) ==
  \/ from = "WAITING" /\ to \in {"RUNNING", "FINISHED_IGNORED", "FINISHED_ABORTED"}
  \/ from = "RUNNING" /\ to \in {"PAUSED", "WAITING"}
  \/ from = "PAUSED"  /\ to \in {"FINISHED_STOPPED", "FINISHED_LENGTH_CAPPED",
                                 "RUNNING", "WAITING"}

(* Mutant: the first execution is not recorded.                            *)
SetStatusUnrecorded(o, st) == [o EXCEPT !.status = st]

SetStatus(o, st) ==
  [o EXCEPT !.status = st,
            !.scheduled = @ \/ (o.status = "WAITING" /\ st = "RUNNING")]

(* Mutants: only the status is reset, as reset_butnot_recompute does; the  *)
(* generated tokens are dropped instead of joining the prompt.             *)
ResetStatusOnly(o) == SetStatus(o, "WAITING")
ResetDropsOutput(o) == [SetStatus(o, "WAITING") EXCEPT !.output = 0, !.processed = 0]

(* Recompute preemption: the generated tokens join the prompt, which has   *)
(* to be processed again; sampling_params.max_tokens is left alone.        *)
ResetForRecompute(o) ==
  [SetStatus(o, "WAITING") EXCEPT !.prompt = GetLen(o), !.output = 0, !.processed = 0]

(* text: the detokenized output ends with one of the stop strings, tested  *)
(* first; eos: the new token is the end-of-sequence token, tested last.    *)
CheckStop(o, maxTokens, text, eos) ==
  IF text THEN SetStatus(o, "FINISHED_STOPPED")
  ELSE IF o.output = maxTokens THEN SetStatus(o, "FINISHED_LENGTH_CAPPED")
  ELSE IF eos THEN SetStatus(o, "FINISHED_STOPPED")
  ELSE o

(* Mutant: the sequence is not paused between two steps.                   *)
CompleteUnpaused(o, chunk, maxTokens, text, eos) ==
  CheckStop([o EXCEPT !.processed = @ + chunk, !.output = @ + 1], maxTokens, text, eos)

(* What on_step_completed does to a sequence of the batch: a prompt chunk  *)
(* is accounted, the sequence paused, and a token appended once the whole  *)
(* prompt is processed.                                                    *)
CompleteStep(o, chunk, maxTokens, text, eos) ==
  LET paused == SetStatus([o EXCEPT !.processed = @ + chunk], "PAUSED")
  IN  IF PromptProcessed(paused)
      THEN CheckStop([paused EXCEPT !.output = @ + 1], maxTokens, text, eos)
      ELSE paused
=============================================================================
