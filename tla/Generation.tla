------------------------------ MODULE Generation ------------------------------
(***************************************************************************)
(* Engine::generate (src/runtime/engine.cpp) with the prefill, decode,     *)
(* draft and verify passes it drives over one KV cache and one scratch     *)
(* arena.  The model's weights are not modelled: a pass may sample any     *)
(* token of the vocabulary, and what is tracked is the context that the    *)
(* pass computed it from.                                                  *)
(*                                                                         *)
(* The arena is counted in activation rows (one token's buffers) and the   *)
(* persistent buffer in rows of vocab_size logits.                         *)
(***************************************************************************)
EXTENDS KVCache

CONSTANTS
  Alien,            \* token ids outside [0, vocab_size)
  Stop,             \* eos_tok and im_end_tok; empty: no EOS is known
  ThinkTags,        \* think_start_tok and think_end_tok
  Visual,           \* [visual_token_start, visual_token_end]
  Prompts,          \* encoded prompts
  MaxNew,           \* bound on max_new_tokens
  ChunkSize,        \* config_.prefill_chunk_size
  ArenaRows,        \* arena_capacity_bytes
  GraphCaptured,    \* decode_graph_->is_captured()
  DraftN,           \* draft_n; 0 = speculative decoding disabled
  MayThrow,         \* device calls may throw sycl::exception
  MaxCalls          \* bound on calls of generate

ASSUME GenerationAssumption ==
  /\ Alien \cap Token = {} /\ Blank \notin Alien
  /\ Stop \subseteq Token /\ ThinkTags \subseteq Token /\ Visual \subseteq Token
  /\ Prompts \subseteq Seq(Token \cup Alien)
  /\ MaxNew \in Nat
  /\ ChunkSize \in Nat \ {0} /\ ArenaRows \in Nat \ {0}
  /\ GraphCaptured \in BOOLEAN
  /\ DraftN \in Nat
  /\ MayThrow \in BOOLEAN
  /\ MaxCalls \in Nat

VARIABLES
  pc,               \* where generate stands; "idle" between calls
  prompt,           \* token_seq
  max_new_tokens,
  token_ids,        \* result.token_ids
  current_tok,
  finish_reason,
  outcome,          \* "ok" (success), result.error_code, or "escaped"
  offset,           \* prefill_prompt: tokens already forwarded
  draft,            \* draft_res.tokens
  cur_draft_n,
  prefix_len,
  pending,          \* sampled tokens not yet given to process_token
  speculated,       \* pending ends in a token of speculative_accept_reject
                    \* that the cache does not count yet
  arenaUsed,        \* arena offset_, in rows
  logitRows,        \* persistent_buffer_capacity_, in rows; 0 = unallocated
  calls

reqVars == <<prompt, max_new_tokens, calls>>
resVars == <<token_ids, current_tok, finish_reason>>
draftVars == <<draft, cur_draft_n, prefix_len>>
outVars == <<pending, speculated>>
memVars == <<arenaUsed, logitRows>>
genVars == <<reqVars, resVars, draftVars, outVars, memVars, offset, outcome>>
vars == <<kvVars, pc, genVars>>

Min2(a, b) == IF a <= b THEN a ELSE b
LastOf(s) == s[Len(s)]

\* The tokens the model should have consumed so far.
History == prompt \o token_ids

GenInit ==
  /\ pc = "idle"
  /\ prompt = << >> /\ max_new_tokens = 0
  /\ token_ids = << >> /\ current_tok = Blank
  /\ finish_reason = "stop" /\ outcome = "ok"
  /\ offset = 0
  /\ draft = << >> /\ cur_draft_n = 0 /\ prefix_len = 0
  /\ pending = << >> /\ speculated = FALSE
  /\ arenaUsed = 0 /\ logitRows = 0
  /\ calls = 0

Init == KVInit /\ GenInit

-----------------------------------------------------------------------------
(***************************************************************************)
(* The call: parameter checks in the code's order, each returning before   *)
(* any device work.                                                        *)
(***************************************************************************)
validate_tokens(prompt_tokens, max_new) ==
  /\ max_new > 0
  /\ prompt_tokens <= MaxSeqLen
  /\ prompt_tokens + max_new <= MaxSeqLen

\* sampling "greedy": temperature = 0 and top_p = 1, all that is supported;
\* "negative": temperature < 0.
Sampling == {"greedy", "negative", "other"}

Verdict(p, m, sampling) ==
  CASE m <= 0 \/ sampling = "negative" -> "invalid_parameter"
    [] m > 0 /\ sampling = "other" -> "unsupported_parameter"
    [] m > 0 /\ sampling = "greedy" /\ p = << >> -> "empty_prompt"
    [] m > 0 /\ sampling = "greedy" /\ p # << >> /\ ~validate_tokens(Len(p), m)
         -> "context_length_exceeded"
    [] OTHER -> "ok"

generate(p, m, sampling) ==
  /\ pc = "idle" /\ calls < MaxCalls
  /\ calls' = calls + 1
  /\ prompt' = p /\ max_new_tokens' = m
  /\ token_ids' = << >> /\ finish_reason' = "stop"
  /\ outcome' = Verdict(p, m, sampling)
  /\ pc' = IF Verdict(p, m, sampling) = "ok" THEN "prefill" ELSE "idle"
  /\ UNCHANGED <<kvVars, current_tok, draftVars, outVars, memVars, offset>>

\* An exception reaches one of generate's catch clauses.
throw(code) == pc' = "catch" /\ outcome' = code

-----------------------------------------------------------------------------
(***************************************************************************)
(* prefill_prompt checks the length again, after validate_tokens.          *)
(* generate passes no vision input, so a prompt with visual placeholders   *)
(* always fails its image checks; a token outside the vocabulary makes it  *)
(* return -1.                                                              *)
(***************************************************************************)
InVocabulary(p) == \A i \in DOMAIN p : p[i] \in Token

prefill_prompt ==
  /\ pc = "prefill"
  /\ IF Len(prompt) > MaxSeqLen
       THEN /\ throw("context_length_exceeded")
            /\ UNCHANGED <<kvVars, logitRows, offset>>
     ELSE IF \E i \in DOMAIN prompt : prompt[i] \in Visual
       THEN /\ throw("internal_error")
            /\ UNCHANGED <<kvVars, logitRows, offset>>
     ELSE IF ~InVocabulary(prompt)
       THEN /\ pc' = "idle" /\ outcome' = "prefill_failed"
            /\ UNCHANGED <<kvVars, logitRows, offset>>
     ELSE /\ clear
          /\ logitRows' = IF logitRows = 0 THEN 1 ELSE logitRows
          /\ offset' = 0
          /\ pc' = "chunk"
          /\ UNCHANGED outcome
  /\ UNCHANGED <<reqVars, resVars, draftVars, outVars, arenaUsed>>

\* Mutant: the overflow check of the bump allocator is dropped.
ArenaFits_Unchecked(used, rows) == TRUE

ArenaFits(used, rows) == used + rows <= ArenaRows

ChunkLen == Min2(ChunkSize, Len(prompt) - offset)

\* start_pos of the next chunk.
ChunkStart == offset

\* Mutant: verification starts after the rows the drafts wrote.
VerifyStart_AfterDrafts == seqLen

VerifyStart == prefix_len

\* The forward pass the engine is about to run: a prefill chunk, the decode
\* of current_tok, one draft step, or the batched verification.
NextPass ==
  CASE pc = "chunk" ->
         [toks |-> SubSeq(prompt, offset + 1, offset + ChunkLen),
          start |-> ChunkStart, zero |-> offset = 0]
    [] pc = "loop" ->
         [toks |-> <<current_tok>>, start |-> seqLen, zero |-> FALSE]
    [] pc = "draft" /\ Len(draft) < cur_draft_n ->
         [toks |-> <<IF draft = << >> THEN current_tok ELSE LastOf(draft)>>,
          start |-> seqLen, zero |-> FALSE]
    [] OTHER ->
         [toks |-> draft, start |-> VerifyStart, zero |-> FALSE]

RunPass == ForwardPass(NextPass.toks, NextPass.start, NextPass.zero)

\* One eager forward_chunk: arena.reset(), then one row per token.
forward_chunk ==
  /\ pc = "chunk" /\ offset < Len(prompt)
  /\ IF ~ArenaFits(0, ChunkLen)
       THEN /\ throw("bad_alloc")
            /\ arenaUsed' = 0
            /\ UNCHANGED <<slots, delta, conv, offset>>
       ELSE /\ RunPass
            /\ arenaUsed' = ChunkLen
            /\ offset' = offset + ChunkLen
            /\ UNCHANGED <<pc, outcome>>
  /\ UNCHANGED <<seqLen, ckpt, hasCheckpoint, reqVars, resVars, draftVars,
                 outVars, logitRows>>

\* All chunks are done: the length is set and the first token is sampled
\* from the logits of the last prompt position.  Without an EOS token the
\* call fails only here.
prefill_sample(t) ==
  /\ pc = "chunk" /\ offset >= Len(prompt)
  /\ set_seq_len(Len(prompt))
  /\ IF Stop = {}
       THEN /\ pc' = "idle" /\ outcome' = "missing_eos_token"
            /\ UNCHANGED outVars
       ELSE /\ pending' = <<[tok |-> t,
                             ctx |-> Context(slots, delta, conv, Len(prompt))]>>
            /\ speculated' = FALSE
            /\ pc' = "emit"
            /\ UNCHANGED outcome
  /\ UNCHANGED <<slots, delta, conv, ckpt, hasCheckpoint, reqVars, resVars,
                 draftVars, memVars, offset>>

-----------------------------------------------------------------------------
(***************************************************************************)
(* The decode loop.                                                        *)
(***************************************************************************)
\* Mutant: the loop runs while token_ids.size() <= max_new_tokens.
Remaining_OffByOne == max_new_tokens + 1 - Len(token_ids)

Remaining == max_new_tokens - Len(token_ids)

\* Budget used up, or no K/V row left; finish_reason is already "length".
loop_exit ==
  /\ pc = "loop"
  /\ Remaining <= 0 \/ seqLen >= MaxSeqLen
  /\ pc' = "idle"
  /\ UNCHANGED <<kvVars, genVars>>

LoopBody == pc = "loop" /\ Remaining > 0 /\ seqLen < MaxSeqLen

UseSpeculative == DraftN > 0 /\ Remaining > 1 /\ seqLen + DraftN <= MaxSeqLen

\* Graph replay or eager decode_step: one pass over current_tok at the
\* current length, then advance(1).  Only the eager path resets the arena.
decode_step(t) ==
  /\ LoopBody /\ ~UseSpeculative
  /\ RunPass
  /\ advance(1)
  /\ arenaUsed' = IF GraphCaptured THEN arenaUsed ELSE 1
  /\ IF advance_ok(1)
       THEN /\ pending' = <<[tok |-> t,
                             ctx |-> Context(slots', delta', conv', seqLen + 1)]>>
            /\ speculated' = FALSE
            /\ pc' = "emit"
       ELSE pc' = "idle" /\ UNCHANGED outVars
  /\ UNCHANGED <<ckpt, hasCheckpoint, reqVars, resVars, draftVars, logitRows,
                 offset, outcome>>

\* A stop token ends the call unreported; any other token is recorded and,
\* unless it is a think tag, handed to the callback, whose FALSE (halt)
\* ends the call.  A speculated round ends with advance(1).
process_token(halt) ==
  LET t == Head(pending).tok
      last == Len(pending) = 1
  IN
  /\ pc = "emit"
  /\ halt => t \notin ThinkTags \cup Stop
  /\ token_ids' = IF t \in Stop THEN token_ids ELSE Append(token_ids, t)
  /\ IF t \in Stop \/ halt
       THEN /\ finish_reason' = "stop"
            /\ pc' = "idle"
            /\ pending' = << >>
            /\ UNCHANGED <<seqLen, current_tok>>
       ELSE /\ finish_reason' = "length"
            /\ current_tok' = t
            /\ pending' = Tail(pending)
            /\ IF last /\ speculated
                 THEN /\ advance(1)
                      /\ pc' = IF advance_ok(1) THEN "loop" ELSE "idle"
                 ELSE /\ pc' = IF last THEN "loop" ELSE "emit"
                      /\ UNCHANGED seqLen
  /\ UNCHANGED <<slots, delta, conv, ckpt, hasCheckpoint, reqVars, draftVars,
                 speculated, memVars, offset, outcome>>

-----------------------------------------------------------------------------
(***************************************************************************)
(* Speculative decoding: the draft passes run on the same cache.           *)
(***************************************************************************)
DraftBudget == Min2(DraftN, Remaining - 1)

start_draft ==
  /\ LoopBody /\ UseSpeculative
  /\ checkpoint_recurrent_state
  /\ cur_draft_n' = DraftBudget
  /\ prefix_len' = seqLen
  /\ draft' = << >>
  /\ pc' = "draft"
  /\ UNCHANGED <<reqVars, resVars, outVars, memVars, offset, outcome>>

draft_decode_step(t) ==
  /\ pc = "draft" /\ Len(draft) < cur_draft_n
  /\ RunPass
  /\ advance(1)
  /\ draft' = Append(draft, t)
  /\ UNCHANGED <<ckpt, hasCheckpoint, pc, cur_draft_n, prefix_len, reqVars,
                 resVars, outVars, memVars, offset, outcome>>

\* speculative_accept_reject: the drafts before the first mismatch with the
\* target argmax are accepted; the token after them is the mismatching
\* argmax, or, when all are accepted, the argmax of the last row again.
speculative_accept_reject(accepted, extra) ==
  /\ accepted \in 0 .. Len(draft)
  /\ IF accepted < Len(draft) THEN extra # draft[accepted + 1]
                              ELSE extra = LastOf(draft)

\* The context of verification row i.
VerifyContext(i) ==
  LET toks == SubSeq(draft, 1, i)
  IN Context(WriteKV(slots, draft, prefix_len), FoldDelta(delta, toks, FALSE),
             ShiftConv(conv, toks), prefix_len + i)

\* The token after the accepted drafts is emitted unless it is a bonus token
\* the budget has no room for.
EmitsExtra(accepted) ==
  accepted < Len(draft) \/ Len(token_ids) + Len(draft) < max_new_tokens

DraftDone == pc = "draft" /\ Len(draft) = cur_draft_n

\* The verification pass, the acceptance test and the rollback.  The pass
\* is in bounds (PassFits), so its context_length_exceeded never fires.
forward_verify(accepted, extra) ==
  LET n == Len(draft)
      row(i) == [tok |-> IF i <= accepted THEN draft[i] ELSE extra,
                 ctx |-> VerifyContext(Min2(i, n))]
  IN
  /\ DraftDone
  /\ n <= logitRows
  /\ ArenaFits(arenaUsed, n)
  /\ speculative_accept_reject(accepted, extra)
  /\ slots' = WriteKV(slots, draft, prefix_len)
  /\ IF accepted < n
       THEN rollback(n - accepted, FoldDelta(delta, draft, FALSE),
                     ShiftConv(conv, draft))
       ELSE /\ delta' = FoldDelta(delta, draft, FALSE)
            /\ conv' = ShiftConv(conv, draft)
            /\ UNCHANGED <<seqLen, ckpt, hasCheckpoint>>
  /\ arenaUsed' = arenaUsed + n
  /\ pending' = [i \in 1 .. IF EmitsExtra(accepted) THEN accepted + 1
                                                   ELSE accepted |-> row(i)]
  /\ speculated' = EmitsExtra(accepted)
  /\ pc' = "emit"
  /\ UNCHANGED <<reqVars, resVars, draftVars, logitRows, offset, outcome>>

\* The verification buffers do not fit: persistent_buffer throws
\* std::invalid_argument, the arena std::bad_alloc.
forward_verify_throws ==
  /\ DraftDone
  /\ \/ Len(draft) > logitRows /\ throw("internal_error")
     \/ /\ Len(draft) <= logitRows /\ ~ArenaFits(arenaUsed, Len(draft))
        /\ throw("bad_alloc")
  /\ UNCHANGED <<kvVars, reqVars, resVars, draftVars, outVars, memVars, offset>>

-----------------------------------------------------------------------------
(***************************************************************************)
(* Failure: a device call throws with its pass done or not done, and the   *)
(* catch clauses call reset(), which may throw itself.                     *)
(***************************************************************************)
device_throws ==
  /\ MayThrow
  /\ pc \in {"prefill", "chunk", "loop", "draft"}
  /\ throw("sycl_exception")
  /\ \/ UNCHANGED <<slots, delta, conv>>
     \/ pc # "prefill" /\ RunPass
  /\ UNCHANGED <<seqLen, ckpt, hasCheckpoint, reqVars, resVars, draftVars,
                 outVars, memVars, offset>>

\* Mutant: the arena keeps its offset.
reset_KeepsArena ==
  /\ clear
  /\ UNCHANGED arenaUsed

reset ==
  /\ clear
  /\ arenaUsed' = 0

\* Mutant: the failed call is tried again.
catch_reset_Retries ==
  /\ pc = "catch"
  /\ reset
  /\ pc' = "prefill" /\ outcome' = "ok"
  /\ UNCHANGED <<reqVars, resVars, draftVars, outVars, logitRows, offset>>

catch_reset ==
  /\ pc = "catch"
  /\ reset
  /\ pc' = "idle"
  /\ UNCHANGED <<reqVars, resVars, draftVars, outVars, logitRows, offset, outcome>>

\* clear() throws before or after its assignments: the exception leaves
\* generate.
catch_reset_throws ==
  /\ MayThrow
  /\ pc = "catch"
  /\ pc' = "idle" /\ outcome' = "escaped"
  /\ clear \/ UNCHANGED kvVars
  /\ UNCHANGED <<reqVars, resVars, draftVars, outVars, memVars, offset>>

\* Engine::reset() between two calls.
Engine_reset ==
  /\ pc = "idle"
  /\ reset
  /\ UNCHANGED <<pc, reqVars, resVars, draftVars, outVars, logitRows, offset,
                 outcome>>

-----------------------------------------------------------------------------
Step ==
  \/ prefill_prompt
  \/ forward_chunk
  \/ \E t \in Token : prefill_sample(t)
  \/ loop_exit
  \/ \E t \in Token : decode_step(t)
  \/ \E halt \in BOOLEAN : process_token(halt)
  \/ start_draft
  \/ \E t \in Token : draft_decode_step(t)
  \/ \E a \in 0 .. DraftN, t \in Token : forward_verify(a, t)
  \/ forward_verify_throws
  \/ catch_reset

Next ==
  \/ \E p \in Prompts, m \in 0 .. MaxNew, s \in Sampling : generate(p, m, s)
  \/ Step
  \/ device_throws
  \/ catch_reset_throws
  \/ Engine_reset

Spec == Init /\ [][Next]_vars
FairSpec == Spec /\ WF_vars(Step)

-----------------------------------------------------------------------------
ErrorCodes == {"invalid_parameter", "unsupported_parameter", "empty_prompt",
               "context_length_exceeded", "prefill_failed",
               "missing_eos_token", "internal_error",
               "bad_alloc", "sycl_exception", "escaped"}

ContextType ==
  [kv : Seq(Cell), delta : Seq(Token), conv : [1 .. 3 -> Cell]]

\* Types of the engine's state.
TypeOK ==
  /\ KVTypeOK
  /\ pc \in {"idle", "prefill", "chunk", "loop", "emit", "draft", "catch"}
  /\ prompt \in Seq(Token \cup Alien)
  /\ max_new_tokens \in 0 .. MaxNew
  /\ token_ids \in Seq(Token)
  /\ current_tok \in Cell
  /\ finish_reason \in {"stop", "length"}
  /\ outcome \in ErrorCodes \cup {"ok"}
  /\ offset \in Nat
  /\ draft \in Seq(Token)
  /\ cur_draft_n \in Nat
  /\ prefix_len \in 0 .. MaxSeqLen
  /\ pending \in Seq([tok : Token, ctx : ContextType])
  /\ speculated \in BOOLEAN
  /\ arenaUsed \in 0 .. ArenaRows
  /\ logitRows \in Nat
  /\ calls \in 0 .. MaxCalls

\* Every token given to process_token was computed from exactly the tokens
\* before it: the K/V rows attended to, the delta-rule state and the conv
\* taps all hold prompt + token_ids, whatever chunking, graph replay,
\* earlier request or failed call came before (prefill_prompt, decode_step).
SampledFromHistory ==
  pc = "emit" => Head(pending).ctx = ExactContext(History)

\* Between passes of the decode loop the cache covers the history up to,
\* and not including, current_tok (engine.cpp decode loop, advance(1)).
CacheCoversHistory ==
  pc = "loop" =>
    /\ token_ids # << >> /\ current_tok = LastOf(token_ids)
    /\ seqLen = Len(History) - 1
    /\ Context(slots, delta, conv, seqLen) = ExactContext(SubSeq(History, 1, seqLen))

\* No pass the engine is about to run reaches past max_seq_len: one that did
\* would be skipped by forward_chunk without an error, and the next token
\* sampled from stale logits (validate_tokens and the loop's bounds check).
PassFits ==
  pc \in {"chunk", "draft"} \/ LoopBody =>
    NextPass.start + Len(NextPass.toks) <= MaxSeqLen

\* finish_reason "length" is reported only when max_new_tokens tokens were
\* generated, never because a pass failed or the cache ran full, and no
\* call returns more than it was asked for (decode loop, validate_tokens).
LengthMeansBudgetSpent ==
  /\ Len(token_ids) <= max_new_tokens
  /\ pc = "idle" /\ outcome = "ok" /\ finish_reason = "length"
       => Len(token_ids) = max_new_tokens

\* A call that ended in a catch clause leaves an empty cache and arena for
\* the next one (generate's catch clauses, reset()).
CatchLeavesEngineReset ==
  pc = "idle" /\ outcome \in {"internal_error", "bad_alloc", "sycl_exception"}
    => seqLen = 0 /\ delta = << >> /\ conv = ZeroConv /\ arenaUsed = 0

\* Every call returns, through its result or an exception (the decode loop
\* has no other bound than max_new_tokens and max_seq_len).
GenerateReturns == pc # "idle" ~> pc = "idle"

-----------------------------------------------------------------------------
(***************************************************************************)
(* The inductive invariants.  Accounting relates the cache length, the     *)
(* tokens emitted and the budget at every program point, speculation       *)
(* included; CacheExact is what makes SampledFromHistory inductive when    *)
(* speculation is off.                                                     *)
(***************************************************************************)
Admitted ==
  /\ outcome = "ok" /\ prompt # << >>
  /\ max_new_tokens > 0 /\ Len(prompt) + max_new_tokens <= MaxSeqLen

\* Positions taken by the prompt and the tokens already emitted.
Emitted == Len(prompt) + Len(token_ids)

Accounting ==
  /\ Len(token_ids) <= max_new_tokens
  /\ pc \notin {"idle", "catch"} => Admitted
  /\ pc \notin {"idle", "catch", "prefill"} => InVocabulary(prompt)
  /\ pc \in {"prefill", "chunk"} => token_ids = << >>
  /\ pc = "chunk" => offset <= Len(prompt)
  /\ pc = "emit" =>
       /\ pending # << >>
       /\ Len(token_ids) + Len(pending) <= max_new_tokens
       /\ seqLen + (IF speculated THEN 1 ELSE 0) = Emitted + Len(pending) - 1
  /\ pc = "loop" =>
       /\ token_ids # << >> /\ current_tok = LastOf(token_ids)
       /\ finish_reason = "length" /\ seqLen = Emitted - 1
  /\ pc = "draft" =>
       /\ current_tok \in Token /\ finish_reason = "length"
       /\ Len(draft) <= cur_draft_n /\ cur_draft_n > 0
       /\ cur_draft_n + Len(token_ids) < max_new_tokens
       /\ prefix_len = Emitted - 1 /\ seqLen = prefix_len + Len(draft)
  /\ pc = "catch" => outcome # "ok"

CacheExact ==
  /\ pc = "chunk" =>
       Context(slots, delta, conv, offset) = ExactContext(SubSeq(prompt, 1, offset))
  /\ pc = "emit" =>
       /\ Len(pending) = 1 /\ ~speculated
       /\ Context(slots, delta, conv, Len(History)) = ExactContext(History)
       /\ pending[1].ctx = ExactContext(History)
  /\ pc = "loop" =>
       Context(slots, delta, conv, seqLen) = ExactContext(SubSeq(History, 1, seqLen))
  /\ pc # "draft"

-----------------------------------------------------------------------------
\* The history a sampled token was computed from, when its three views of
\* it (K/V rows, delta-rule state, conv taps) agree.
AskedHistory(ctx) == IF ctx = ExactContext(ctx.kv) THEN ctx.kv ELSE <<Blank>>

Recompute == INSTANCE RecomputeDecode WITH
  phase <- IF pc = "idle" THEN "idle" ELSE "busy",
  budget <- max_new_tokens,
  out <- token_ids,
  asked <- IF pc = "emit" THEN <<AskedHistory(Head(pending).ctx)>> ELSE << >>,
  result <- CASE pc # "idle" -> "none"
              [] pc = "idle" /\ outcome = "ok" -> finish_reason
              [] OTHER -> "error"

\* Chunked prefill, the KV cache, the recurrent states and graph replay are
\* invisible: generate behaves as if the model were run on the whole
\* history before every token (generate against forward_next_token).
ImplementsRecompute == Recompute!Spec
=============================================================================
