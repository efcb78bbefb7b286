--------------------------- MODULE RecomputeDecode ---------------------------
(***************************************************************************)
(* What Engine::generate promises, without any cache: the model is asked   *)
(* about the whole history (prompt and everything generated) before every  *)
(* token, as forward_next_token in src/targets/qwen3_8/forward.cpp does,   *)
(* and the call ends with a stop token or a halt ("stop"), with its budget *)
(* used up ("length"), or with an error.                                   *)
(***************************************************************************)
EXTENDS Integers, Sequences

CONSTANTS Token, Stop

VARIABLES
  phase,    \* "idle" or "busy"
  prompt,
  budget,   \* max_new_tokens
  out,      \* tokens generated
  asked,    \* <<the history the next token is computed from>>, or << >>
  result    \* how the last call ended: "stop", "length", "error"; "none" yet

vars == <<phase, prompt, budget, out, asked, result>>

Init ==
  /\ phase = "idle" /\ prompt = << >> /\ budget = 0
  /\ out = << >> /\ asked = << >> /\ result = "stop"

\* A call with any prompt and budget is accepted, or rejected before any
\* token is computed.
Call ==
  /\ phase = "idle"
  /\ out' = << >> /\ asked' = << >>
  /\ \/ phase' = "busy" /\ budget' > 0 /\ result' = "none"
     \/ phase' = "idle" /\ result' = "error"

\* The model is run on the whole history.
Ask ==
  /\ phase = "busy" /\ asked = << >> /\ Len(out) < budget
  /\ asked' = <<prompt \o out>>
  /\ UNCHANGED <<phase, prompt, budget, out, result>>

\* The token it returned is recorded; the caller may then end the call.
Emit ==
  /\ phase = "busy" /\ asked # << >>
  /\ \E t \in Token \ Stop : out' = Append(out, t)
  /\ asked' = << >>
  /\ \/ UNCHANGED <<phase, result>>
     \/ phase' = "idle" /\ result' = "stop"
  /\ UNCHANGED <<prompt, budget>>

StopToken ==
  /\ phase = "busy" /\ asked # << >>
  /\ phase' = "idle" /\ asked' = << >> /\ result' = "stop"
  /\ UNCHANGED <<prompt, budget, out>>

BudgetSpent ==
  /\ phase = "busy" /\ asked = << >> /\ Len(out) = budget
  /\ phase' = "idle" /\ result' = "length"
  /\ UNCHANGED <<prompt, budget, out, asked>>

Fail ==
  /\ phase = "busy"
  /\ phase' = "idle" /\ asked' = << >> /\ result' = "error"
  /\ UNCHANGED <<prompt, budget, out>>

Next ==
  \/ Call
  \/ Ask
  \/ Emit
  \/ StopToken
  \/ BudgetSpent
  \/ Fail

Spec == Init /\ [][Next]_vars
=============================================================================
