------------------------------- MODULE KVCache -------------------------------
(***************************************************************************)
(* The physical KV cache of src/core/kv_cache.{h,cpp} and what a forward   *)
(* pass (src/targets/qwen3_8/forward.cpp, linear_attn.cpp) leaves in it.   *)
(*                                                                         *)
(* Every layer of a kind is written by the same pass, so a K/V row is      *)
(* abstracted to the token whose pass wrote it, the delta-rule state of    *)
(* the linear-attention layers to the sequence of tokens folded into it    *)
(* since it was zeroed, and the causal-conv state to the tokens in its     *)
(* three taps.  FP16 and INT8 storage hold the same rows.                  *)
(***************************************************************************)
EXTENDS Integers, Sequences

CONSTANTS
  Token,        \* the vocabulary [0, vocab_size)
  MaxSeqLen,    \* KVCacheConfig::max_seq_len
  Blank         \* an unwritten K/V row, a zeroed conv tap

ASSUME KVCacheAssumption ==
  /\ MaxSeqLen \in Nat \ {0}
  /\ Blank \notin Token

VARIABLES
  seqLen,           \* current_seq_len_
  slots,            \* K/V row at each position, all full-attention layers
  delta,            \* linear_states_: the tokens folded into them, in order
  conv,             \* conv_states_: oldest tap first
  ckpt,             \* d_raw_recurrent_checkpoint_
  hasCheckpoint     \* has_recurrent_checkpoint_

kvVars == <<seqLen, slots, delta, conv, ckpt, hasCheckpoint>>

Position == 0 .. MaxSeqLen - 1
Cell == Token \cup {Blank}
ZeroConv == <<Blank, Blank, Blank>>

KVTypeOK ==
  /\ seqLen \in 0 .. MaxSeqLen
  /\ slots \in [Position -> Cell]
  /\ delta \in Seq(Token)
  /\ conv \in [1 .. 3 -> Cell]
  /\ ckpt \in [delta : Seq(Token), conv : [1 .. 3 -> Cell]]
  /\ hasCheckpoint \in BOOLEAN

\* allocate(): the storage is not initialised, then clear() is called.
KVInit ==
  /\ seqLen = 0
  /\ slots = [p \in Position |-> Blank]
  /\ delta = << >>
  /\ conv = ZeroConv
  /\ ckpt = [delta |-> << >>, conv |-> ZeroConv]
  /\ hasCheckpoint = FALSE

\* Mutant: clear() forgets the conv states.
clear_KeepsConv ==
  /\ seqLen' = 0
  /\ delta' = << >>
  /\ hasCheckpoint' = FALSE
  /\ UNCHANGED <<slots, ckpt, conv>>

\* clear() zeroes the recurrent storage only: K/V rows keep their content
\* and become unreachable because the length is 0.
clear ==
  /\ seqLen' = 0
  /\ delta' = << >>
  /\ conv' = ZeroConv
  /\ hasCheckpoint' = FALSE
  /\ UNCHANGED <<slots, ckpt>>

set_seq_len(len) == seqLen' = IF len <= MaxSeqLen THEN len ELSE MaxSeqLen

\* advance(n) returns FALSE, with the length saturated, when n does not fit.
advance_ok(n) == seqLen + n <= MaxSeqLen
advance(n) == seqLen' = IF advance_ok(n) THEN seqLen + n ELSE MaxSeqLen

checkpoint_recurrent_state ==
  /\ ckpt' = [delta |-> delta, conv |-> conv]
  /\ hasCheckpoint' = TRUE
  /\ UNCHANGED <<seqLen, slots, delta, conv>>

\* rollback(n), for n <= seqLen (it throws std::out_of_range otherwise),
\* shortens the sequence and restores the checkpoint, if there is one, over
\* the recurrent state d, c that the pass before it left.
rollback(n, d, c) ==
  /\ seqLen' = seqLen - n
  /\ delta' = IF hasCheckpoint THEN ckpt.delta ELSE d
  /\ conv' = IF hasCheckpoint THEN ckpt.conv ELSE c
  /\ hasCheckpoint' = FALSE
  /\ UNCHANGED ckpt

-----------------------------------------------------------------------------
(***************************************************************************)
(* A forward pass over toks at positions start .. start + Len(toks) - 1.   *)
(***************************************************************************)
\* Mutant: the first row of a pass is not written.
WriteKV_SkipsFirst(s, toks, start) ==
  [p \in Position |-> IF p > start /\ p < start + Len(toks)
                        THEN toks[p - start + 1]
                        ELSE s[p]]

WriteKV(s, toks, start) ==
  [p \in Position |-> IF p >= start /\ p < start + Len(toks)
                        THEN toks[p - start + 1]
                        ELSE s[p]]

\* recurrent_gated_delta_net: zero_state discards the old state first.
FoldDelta(d, toks, zero) == IF zero THEN toks ELSE d \o toks

\* Mutant: a one-token pass shifts the wrong tap out.
ShiftConv_WrongTap(c, toks) ==
  LET n == Len(toks)
  IN CASE n = 0 -> c
       [] n = 1 -> <<c[1], c[3], toks[1]>>
       [] n = 2 -> <<c[3], toks[1], toks[2]>>
       [] n > 2 -> <<toks[n - 2], toks[n - 1], toks[n]>>

\* causal_conv1d_silu: the taps keep the last three inputs; passes of one
\* and two tokens shift the old taps, longer ones replace them.
ShiftConv(c, toks) ==
  LET n == Len(toks)
  IN CASE n = 0 -> c
       [] n = 1 -> <<c[2], c[3], toks[1]>>
       [] n = 2 -> <<c[3], toks[1], toks[2]>>
       [] n > 2 -> <<toks[n - 2], toks[n - 1], toks[n]>>

\* forward_chunk runs nothing, and says so only on stderr, when the pass
\* does not fit.
ForwardPass(toks, start, zero) ==
  IF start + Len(toks) > MaxSeqLen
    THEN UNCHANGED <<slots, delta, conv>>
    ELSE /\ slots' = WriteKV(slots, toks, start)
         /\ delta' = FoldDelta(delta, toks, zero)
         /\ conv' = ShiftConv(conv, toks)

\* What the row at position n - 1 of a pass is computed from.
Context(s, d, c, n) ==
  [kv |-> [i \in 1 .. n |-> s[i - 1]], delta |-> d, conv |-> c]

\* The context a model without any cache would have for history h.
Taps(h) ==
  [i \in 1 .. 3 |-> IF Len(h) - 3 + i >= 1 THEN h[Len(h) - 3 + i] ELSE Blank]
ExactContext(h) == [kv |-> h, delta |-> h, conv |-> Taps(h)]
=============================================================================
