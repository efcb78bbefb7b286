--------------------------- MODULE Generation_proofs ---------------------------
(***************************************************************************)
(* Proofs about Generation, for every vocabulary, prompt set, sequence     *)
(* limit, chunk size, arena size, draft length and number of calls; first  *)
(* the lemmas about KVCache: what a forward pass does to the cache.        *)
(***************************************************************************)
EXTENDS Generation, TLAPS

-----------------------------------------------------------------------------
(***************************************************************************)
(* Types.                                                                  *)
(***************************************************************************)
LEMMA TripleType ==
  ASSUME NEW x \in Cell, NEW y \in Cell, NEW z \in Cell
  PROVE  <<x, y, z>> \in [1 .. 3 -> Cell]
  OBVIOUS

LEMMA WriteKVType ==
  ASSUME NEW s \in [Position -> Cell], NEW toks \in Seq(Token), NEW start \in Nat
  PROVE  WriteKV(s, toks, start) \in [Position -> Cell]
  <1>1. \A p \in Position : p \in Int
    BY KVCacheAssumption DEF Position
  <1>2. ASSUME NEW p \in Position, p >= start, p < start + Len(toks)
        PROVE  toks[p - start + 1] \in Cell
    <2>1. p - start + 1 \in 1 .. Len(toks)
      BY <1>1, <1>2
    <2> QED BY <2>1 DEF Cell
  <1> QED BY <1>2 DEF WriteKV

LEMMA FoldDeltaType ==
  ASSUME NEW d \in Seq(Token), NEW toks \in Seq(Token), NEW zero \in BOOLEAN
  PROVE  FoldDelta(d, toks, zero) \in Seq(Token)
  BY DEF FoldDelta

LEMMA SmallOrLong ==
  ASSUME NEW n \in Nat
  PROVE  /\ n = 0 \/ n = 1 \/ n = 2 \/ n > 2
         /\ n > 2 => n # 0 /\ n # 1 /\ n # 2
  OBVIOUS

LEMMA LongShift ==
  ASSUME NEW c, NEW toks \in Seq(Token), Len(toks) > 2
  PROVE  ShiftConv(c, toks)
           = <<toks[Len(toks) - 2], toks[Len(toks) - 1], toks[Len(toks)]>>
  <1>1. Len(toks) # 0 /\ Len(toks) # 1 /\ Len(toks) # 2
    BY SmallOrLong
  <1> QED BY <1>1 DEF ShiftConv

LEMMA ShiftConvType ==
  ASSUME NEW c \in [1 .. 3 -> Cell], NEW toks \in Seq(Token)
  PROVE  ShiftConv(c, toks) \in [1 .. 3 -> Cell]
  <1> DEFINE n == Len(toks)
  <1>0. n \in Nat /\ \A i \in 1 .. n : toks[i] \in Cell
    BY DEF Cell
  <1>1. CASE n = 0
    BY <1>1 DEF ShiftConv
  <1>2. CASE n = 1
    <2>1. c[2] \in Cell /\ c[3] \in Cell /\ toks[1] \in Cell
      BY <1>0, <1>2
    <2> QED BY <1>2, <2>1, TripleType DEF ShiftConv
  <1>3. CASE n = 2
    <2>1. c[3] \in Cell /\ toks[1] \in Cell /\ toks[2] \in Cell
      BY <1>0, <1>3
    <2> QED BY <1>3, <2>1, TripleType DEF ShiftConv
  <1>4. CASE n > 2
    <2>1. n - 2 \in 1 .. n /\ n - 1 \in 1 .. n /\ n \in 1 .. n
      BY <1>0, <1>4
    <2>2. ShiftConv(c, toks) = <<toks[n - 2], toks[n - 1], toks[n]>>
      BY <1>4, LongShift
    <2>3. toks[n - 2] \in Cell /\ toks[n - 1] \in Cell /\ toks[n] \in Cell
      BY <1>0, <2>1
    <2> QED BY <2>2, <2>3, TripleType
  <1>5. n = 0 \/ n = 1 \/ n = 2 \/ n > 2
    BY <1>0, SmallOrLong
  <1> QED BY <1>1, <1>2, <1>3, <1>4, <1>5

LEMMA ForwardPassType ==
  ASSUME KVTypeOK, NEW toks \in Seq(Token), NEW start \in Nat, NEW zero \in BOOLEAN,
         ForwardPass(toks, start, zero)
  PROVE  /\ slots' \in [Position -> Cell]
         /\ delta' \in Seq(Token)
         /\ conv' \in [1 .. 3 -> Cell]
  <1>1. CASE start + Len(toks) > MaxSeqLen
    BY <1>1 DEF KVTypeOK, ForwardPass
  <1>2. CASE ~(start + Len(toks) > MaxSeqLen)
    <2>1. /\ slots' = WriteKV(slots, toks, start)
          /\ delta' = FoldDelta(delta, toks, zero)
          /\ conv' = ShiftConv(conv, toks)
      BY <1>2 DEF ForwardPass
    <2> QED BY <2>1, WriteKVType, FoldDeltaType, ShiftConvType DEF KVTypeOK
  <1> QED BY <1>1, <1>2

-----------------------------------------------------------------------------
(***************************************************************************)
(* A pass extends the context it finds by exactly its own tokens.          *)
(***************************************************************************)
\* The cache holds history h and nothing else of it.
Covers(h) == Context(slots, delta, conv, Len(h)) = ExactContext(h)

LEMMA TapsType ==
  ASSUME NEW h \in Seq(Token)
  PROVE  Taps(h) \in [1 .. 3 -> Cell]
  <1>1. ASSUME NEW i \in 1 .. 3, Len(h) - 3 + i >= 1
        PROVE  h[Len(h) - 3 + i] \in Token
    <2>1. Len(h) - 3 + i \in 1 .. Len(h)
      BY <1>1
    <2> QED BY <2>1
  <1> QED BY <1>1 DEF Taps, Cell

LEMMA TapsShift ==
  ASSUME NEW h \in Seq(Token), NEW toks \in Seq(Token)
  PROVE  Taps(h \o toks) = ShiftConv(Taps(h), toks)
  <1> DEFINE n == Len(toks)
             m == Len(h)
             g == h \o toks
  <1>0. /\ n \in Nat /\ m \in Nat /\ Len(g) = m + n
        /\ \A i \in 1 .. m : g[i] = h[i]
        /\ \A i \in 1 .. n : g[m + i] = toks[i]
    OBVIOUS
  <1>1. Taps(g) = <<Taps(g)[1], Taps(g)[2], Taps(g)[3]>>
    <2>1. g \in Seq(Token)
      OBVIOUS
    <2>2. Taps(g) \in [1 .. 3 -> Cell]
      BY <2>1, TapsType
    <2> QED BY <2>2
  <1>2. \A i \in 1 .. 3 :
          /\ Taps(g)[i] = IF m + n - 3 + i >= 1 THEN g[m + n - 3 + i] ELSE Blank
          /\ Taps(h)[i] = IF m - 3 + i >= 1 THEN h[m - 3 + i] ELSE Blank
    BY <1>0 DEF Taps
  <1>3. CASE n = 0
    <2>1. g = h
      BY <1>3
    <2> QED BY <1>3, <2>1 DEF ShiftConv
  <1>4. CASE n = 1
    <2>1. Taps(g)[1] = Taps(h)[2] /\ Taps(g)[2] = Taps(h)[3] /\ Taps(g)[3] = toks[1]
      BY <1>0, <1>2, <1>4
    <2> QED BY <1>1, <1>4, <2>1 DEF ShiftConv
  <1>5. CASE n = 2
    <2>1. Taps(g)[1] = Taps(h)[3] /\ Taps(g)[2] = toks[1] /\ Taps(g)[3] = toks[2]
      BY <1>0, <1>2, <1>5
    <2> QED BY <1>1, <1>5, <2>1 DEF ShiftConv
  <1>6. CASE n > 2
    <2>1. /\ Taps(g)[1] = toks[n - 2] /\ Taps(g)[2] = toks[n - 1]
          /\ Taps(g)[3] = toks[n]
      <3>1. /\ m + n - 3 + 1 = m + (n - 2) /\ n - 2 \in 1 .. n
            /\ m + n - 3 + 2 = m + (n - 1) /\ n - 1 \in 1 .. n
            /\ m + n - 3 + 3 = m + n /\ n \in 1 .. n
        BY <1>0, <1>6
      <3>2. m + (n - 2) >= 1 /\ m + (n - 1) >= 1 /\ m + n >= 1
        BY <1>0, <1>6
      <3>3. /\ g[m + (n - 2)] = toks[n - 2] /\ g[m + (n - 1)] = toks[n - 1]
            /\ g[m + n] = toks[n]
        BY <1>0, <3>1
      <3> HIDE DEF n, m, g
      <3> QED BY <1>2, <3>1, <3>2, <3>3
    <2>2. ShiftConv(Taps(h), toks) = <<toks[n - 2], toks[n - 1], toks[n]>>
      BY <1>6, LongShift
    <2> QED BY <1>1, <2>1, <2>2
  <1>7. n = 0 \/ n = 1 \/ n = 2 \/ n > 2
    BY <1>0, SmallOrLong
  <1> QED BY <1>3, <1>4, <1>5, <1>6, <1>7

\* A pass over toks right after history h, with the recurrent state zeroed
\* at most when there is no history, leaves the context of h \o toks.
LEMMA PassExtendsContext ==
  ASSUME NEW h \in Seq(Token), NEW toks \in Seq(Token), NEW zero \in BOOLEAN,
         KVTypeOK, Covers(h), zero => h = << >>,
         Len(h) + Len(toks) <= MaxSeqLen, ForwardPass(toks, Len(h), zero)
  PROVE  Context(slots', delta', conv', Len(h \o toks)) = ExactContext(h \o toks)
  <1> DEFINE m == Len(h)
             n == Len(toks)
             g == h \o toks
  <1>0. /\ n \in Nat /\ m \in Nat /\ Len(g) = m + n /\ g \in Seq(Token)
        /\ \A i \in 1 .. m : g[i] = h[i]
        /\ \A i \in 1 .. n : g[m + i] = toks[i]
    OBVIOUS
  <1>1. /\ slots' = WriteKV(slots, toks, m)
        /\ delta' = FoldDelta(delta, toks, zero)
        /\ conv' = ShiftConv(conv, toks)
    <2>1. ~(m + n > MaxSeqLen)
      BY <1>0, KVCacheAssumption
    <2> QED BY <2>1 DEF ForwardPass
  <1>2. delta = h /\ conv = Taps(h) /\ [i \in 1 .. m |-> slots[i - 1]] = h
    BY DEF Covers, Context, ExactContext
  <1>3. conv' = Taps(g)
    BY <1>1, <1>2, TapsShift
  <1>4. delta' = g
    BY <1>1, <1>2 DEF FoldDelta
  <1>5. [i \in 1 .. m + n |-> slots'[i - 1]] = g
    <2>1. ASSUME NEW i \in 1 .. m + n PROVE slots'[i - 1] = g[i]
      <3>1. i - 1 \in Position /\ m + n <= MaxSeqLen
        BY <1>0, KVCacheAssumption DEF Position
      <3>2. CASE i <= m
        <4>1. slots'[i - 1] = slots[i - 1]
          BY <1>0, <1>1, <3>1, <3>2 DEF WriteKV
        <4>2. i \in 1 .. m /\ slots[i - 1] = h[i]
          BY <1>0, <1>2, <3>2
        <4> QED BY <1>0, <4>1, <4>2
      <3>3. CASE i > m
        <4>1. /\ i - 1 >= m /\ i - 1 < m + n /\ (i - 1) - m + 1 = i - m
              /\ i - m \in 1 .. n /\ m + (i - m) = i
          BY <1>0, <3>3
        <4>2. slots'[i - 1] = toks[i - m]
          BY <1>1, <3>1, <4>1 DEF WriteKV
        <4> QED BY <1>0, <4>1, <4>2
      <3> QED BY <1>0, <3>2, <3>3
    <2> HIDE DEF g
    <2>2. g = [i \in 1 .. m + n |-> g[i]]
      <3>1. g = [i \in 1 .. Len(g) |-> g[i]]
        BY <1>0
      <3> QED BY <1>0, <3>1
    <2> QED BY <2>1, <2>2
  <1>6. Context(slots', delta', conv', Len(g)) = ExactContext(g)
    BY <1>0, <1>3, <1>4, <1>5 DEF Context, ExactContext
  <1> QED BY <1>6

-----------------------------------------------------------------------------
(***************************************************************************)
(* The pass the engine is about to run.                                    *)
(***************************************************************************)
PassOK ==
  /\ NextPass.toks \in Seq(Token) /\ NextPass.start \in Nat
  /\ NextPass.zero \in BOOLEAN
  /\ NextPass.start + Len(NextPass.toks) <= MaxSeqLen

LEMMA SubSeqType ==
  ASSUME NEW S, NEW s \in Seq(S), NEW m \in Nat, NEW n \in Nat, m <= n, n <= Len(s)
  PROVE  /\ SubSeq(s, m + 1, n) \in Seq(S)
         /\ Len(SubSeq(s, m + 1, n)) = n - m
         /\ \A i \in 1 .. n - m : SubSeq(s, m + 1, n)[i] = s[m + i]
  OBVIOUS

LEMMA HeadTail ==
  ASSUME NEW S, NEW s \in Seq(S), s # << >>
  PROVE  /\ Head(s) \in S /\ Head(s) = s[1]
         /\ Tail(s) \in Seq(S) /\ Len(Tail(s)) = Len(s) - 1
         /\ Len(s) # 1 => Tail(s) # << >>
  <1>1. Head(s) \in S /\ Head(s) = s[1]
    OBVIOUS
  <1>2. Tail(s) \in Seq(S) /\ Len(Tail(s)) = Len(s) - 1
    OBVIOUS
  <1>3. Len(s) # 1 => Tail(s) # << >>
    <2> DEFINE u == Tail(s)
               n == Len(s)
    <2>1. Len(u) = n - 1 /\ n \in Nat
      BY <1>2
    <2> HIDE DEF u, n
    <2>2. u = << >> => Len(u) = 0
      OBVIOUS
    <2>3. u = << >> => n = 1
      BY <2>1, <2>2
    <2> QED BY <2>3 DEF u, n
  <1> QED BY <1>1, <1>2, <1>3

LEMMA AppendLast ==
  ASSUME NEW S, NEW s \in Seq(S), NEW x \in S
  PROVE  /\ Append(s, x) \in Seq(S) /\ Len(Append(s, x)) = Len(s) + 1
         /\ Append(s, x) # << >> /\ LastOf(Append(s, x)) = x
  BY DEF LastOf

LEMMA VocabularyPrompt ==
  ASSUME TypeOK, InVocabulary(prompt)
  PROVE  prompt \in Seq(Token)
  <1>1. \A i \in 1 .. Len(prompt) : prompt[i] \in Token
    BY DEF TypeOK, InVocabulary
  <1> QED BY <1>1 DEF TypeOK

LEMMA Numbers ==
  ASSUME TypeOK
  PROVE  /\ Len(prompt) \in Nat /\ Len(token_ids) \in Nat /\ Len(draft) \in Nat
         /\ Len(pending) \in Nat /\ max_new_tokens \in Nat /\ prefix_len \in Nat
         /\ seqLen \in Nat /\ seqLen <= MaxSeqLen /\ prefix_len <= MaxSeqLen
         /\ MaxSeqLen \in Nat
  <1>1. /\ Len(prompt) \in Nat /\ Len(token_ids) \in Nat /\ Len(draft) \in Nat
        /\ Len(pending) \in Nat
    BY DEF TypeOK
  <1> QED BY <1>1, KVCacheAssumption, GenerationAssumption DEF TypeOK, KVTypeOK

LEMMA ChunkPass ==
  ASSUME TypeOK, Accounting, pc = "chunk"
  PROVE  /\ ChunkLen \in Nat /\ offset + ChunkLen <= Len(prompt)
         /\ offset < Len(prompt) => ChunkLen > 0
         /\ NextPass.toks = SubSeq(prompt, offset + 1, offset + ChunkLen)
         /\ NextPass.start = offset /\ NextPass.zero = (offset = 0)
         /\ Len(NextPass.toks) = ChunkLen
         /\ PassOK
  <1>1. /\ offset \in Nat /\ offset <= Len(prompt) /\ Len(prompt) \in Nat
        /\ prompt \in Seq(Token) /\ Len(prompt) <= MaxSeqLen /\ MaxSeqLen \in Nat
    BY VocabularyPrompt, KVCacheAssumption DEF TypeOK, Accounting, Admitted
  <1>2. /\ ChunkLen \in Nat /\ offset + ChunkLen <= Len(prompt)
        /\ offset < Len(prompt) => ChunkLen > 0
    BY <1>1, GenerationAssumption DEF ChunkLen, Min2
  <1>3. NextPass = [toks |-> SubSeq(prompt, offset + 1, offset + ChunkLen),
                    start |-> offset, zero |-> offset = 0]
    BY DEF NextPass, ChunkStart
  <1>4. /\ SubSeq(prompt, offset + 1, offset + ChunkLen) \in Seq(Token)
        /\ Len(SubSeq(prompt, offset + 1, offset + ChunkLen)) = ChunkLen
    BY <1>1, <1>2, SubSeqType
  <1> QED BY <1>1, <1>2, <1>3, <1>4 DEF PassOK

LEMMA LoopPass ==
  ASSUME TypeOK, Accounting, pc = "loop"
  PROVE  /\ NextPass = [toks |-> <<current_tok>>, start |-> seqLen, zero |-> FALSE]
         /\ current_tok \in Token /\ seqLen < MaxSeqLen
         /\ PassOK
  <1>1. current_tok \in Token
    <2>1. token_ids \in Seq(Token) /\ token_ids # << >> /\ Len(token_ids) \in 1 .. Len(token_ids)
      BY DEF TypeOK, Accounting
    <2> QED BY <2>1 DEF Accounting, LastOf
  <1>2. /\ seqLen \in Nat /\ seqLen < MaxSeqLen /\ MaxSeqLen \in Nat
    BY KVCacheAssumption DEF TypeOK, KVTypeOK, Accounting, Admitted, Emitted
  <1>3. NextPass = [toks |-> <<current_tok>>, start |-> seqLen, zero |-> FALSE]
    BY DEF NextPass
  <1>4. <<current_tok>> \in Seq(Token) /\ Len(<<current_tok>>) = 1
    BY <1>1
  <1> QED BY <1>1, <1>2, <1>3, <1>4 DEF PassOK

LEMMA DraftPass ==
  ASSUME TypeOK, Accounting, pc = "draft"
  PROVE  /\ Len(draft) < cur_draft_n =>
              /\ NextPass = [toks |-> <<IF draft = << >> THEN current_tok
                                        ELSE LastOf(draft)>>,
                             start |-> seqLen, zero |-> FALSE]
              /\ seqLen < MaxSeqLen
         /\ ~(Len(draft) < cur_draft_n) =>
              NextPass = [toks |-> draft, start |-> prefix_len, zero |-> FALSE]
         /\ prefix_len + cur_draft_n <= MaxSeqLen
         /\ PassOK
  <1>1. /\ draft \in Seq(Token) /\ cur_draft_n \in Nat /\ prefix_len \in Nat
        /\ MaxSeqLen \in Nat /\ seqLen = prefix_len + Len(draft) /\ Len(draft) \in Nat
        /\ prefix_len + cur_draft_n <= MaxSeqLen /\ Len(draft) <= cur_draft_n
    <2>1. draft \in Seq(Token) /\ cur_draft_n \in Nat
      BY DEF TypeOK
    <2>2. /\ Len(draft) <= cur_draft_n /\ cur_draft_n + Len(token_ids) < max_new_tokens
          /\ prefix_len = Len(prompt) + Len(token_ids) - 1
          /\ seqLen = prefix_len + Len(draft)
          /\ Len(prompt) + max_new_tokens <= MaxSeqLen
      BY DEF Accounting, Admitted, Emitted
    <2> QED BY <2>1, <2>2, Numbers
  <1>2. CASE Len(draft) < cur_draft_n
    <2> DEFINE in == IF draft = << >> THEN current_tok ELSE LastOf(draft)
    <2>1. in \in Token
      <3>1. draft # << >> => Len(draft) \in 1 .. Len(draft)
        BY <1>1
      <3> QED BY <1>1, <3>1 DEF Accounting, LastOf
    <2>2. NextPass = [toks |-> <<in>>, start |-> seqLen, zero |-> FALSE]
      BY <1>2 DEF NextPass
    <2>3. <<in>> \in Seq(Token) /\ Len(<<in>>) = 1
      BY <2>1
    <2> HIDE DEF in
    <2>4. seqLen \in Nat /\ seqLen + 1 <= MaxSeqLen
      BY <1>1, <1>2
    <2>5. PassOK
      BY <2>2, <2>3, <2>4 DEF PassOK
    <2> QED BY <1>1, <1>2, <2>2, <2>4, <2>5 DEF in
  <1>3. CASE ~(Len(draft) < cur_draft_n)
    <2>1. NextPass = [toks |-> draft, start |-> prefix_len, zero |-> FALSE]
      BY <1>3 DEF NextPass, VerifyStart
    <2> QED BY <1>1, <1>3, <2>1 DEF PassOK
  <1> QED BY <1>2, <1>3

-----------------------------------------------------------------------------
(***************************************************************************)
(* Types and accounting, action by action.                                 *)
(***************************************************************************)
GenInv == TypeOK /\ Accounting /\ LengthMeansBudgetSpent

LEMMA GenInit0 == Init => GenInv
  <1> SUFFICES ASSUME Init PROVE GenInv
    OBVIOUS
  <1> USE DEF Init, KVInit, GenInit
  <1>1. KVTypeOK
    <2>1. ZeroConv \in [1 .. 3 -> Cell]
      BY TripleType DEF ZeroConv, Cell
    <2>2. << >> \in Seq(Token) /\ 0 \in 0 .. MaxSeqLen
      BY KVCacheAssumption
    <2>3. [delta |-> << >>, conv |-> ZeroConv] \in [delta : Seq(Token), conv : [1 .. 3 -> Cell]]
      BY <2>1, <2>2
    <2>4. [p \in Position |-> Blank] \in [Position -> Cell]
      BY DEF Cell
    <2> QED BY <2>1, <2>2, <2>3, <2>4 DEF KVTypeOK
  <1>2. TypeOK
    <2>1. /\ 0 \in 0 .. MaxNew /\ 0 \in 0 .. MaxSeqLen /\ 0 \in 0 .. ArenaRows
          /\ 0 \in 0 .. MaxCalls /\ Blank \in Cell
      BY KVCacheAssumption, GenerationAssumption DEF Cell
    <2>2. \A S : << >> \in Seq(S)
      OBVIOUS
    <2> QED BY <1>1, <2>1, <2>2 DEF TypeOK
  <1>3. Accounting /\ LengthMeansBudgetSpent
    BY DEF Accounting, LengthMeansBudgetSpent
  <1> QED BY <1>2, <1>3 DEF GenInv

LEMMA ClearType ==
  ASSUME KVTypeOK, clear
  PROVE  KVTypeOK'
  <1>1. ZeroConv \in [1 .. 3 -> Cell]
    BY TripleType DEF ZeroConv, Cell
  <1>2. << >> \in Seq(Token) /\ 0 \in 0 .. MaxSeqLen
    BY KVCacheAssumption
  <1> QED BY <1>1, <1>2 DEF KVTypeOK, clear

LEMMA GenerateInv ==
  ASSUME GenInv, NEW p \in Prompts, NEW m \in 0 .. MaxNew, NEW s \in Sampling,
         generate(p, m, s)
  PROVE  GenInv'
  <1> USE DEF GenInv
  <1>1. /\ prompt' = p /\ max_new_tokens' = m /\ token_ids' = << >>
        /\ finish_reason' = "stop" /\ outcome' = Verdict(p, m, s)
        /\ pc' = IF Verdict(p, m, s) = "ok" THEN "prefill" ELSE "idle"
        /\ p \in Seq(Token \cup Alien) /\ m \in Nat
    BY GenerationAssumption DEF generate
  <1>2. Verdict(p, m, s) = "ok" => m > 0 /\ p # << >> /\ Len(p) + m <= MaxSeqLen
    BY <1>1 DEF Verdict, Sampling, validate_tokens
  <1>3. Verdict(p, m, s) \in ErrorCodes \cup {"ok"}
    BY DEF Verdict, ErrorCodes
  <1>4. TypeOK'
    BY <1>1, <1>3, GenerationAssumption
       DEF TypeOK, KVTypeOK, generate, kvVars, draftVars, outVars, memVars
  <1>5. Accounting'
    BY <1>1, <1>2 DEF Accounting, Admitted
  <1>6. LengthMeansBudgetSpent'
    BY <1>1 DEF LengthMeansBudgetSpent
  <1> QED BY <1>4, <1>5, <1>6

LEMMA PrefillInv ==
  ASSUME GenInv, prefill_prompt
  PROVE  GenInv'
  <1> USE DEF GenInv
  <1>1. /\ UNCHANGED <<prompt, max_new_tokens, calls, token_ids, current_tok,
                       finish_reason, draft, cur_draft_n, prefix_len, pending,
                       speculated, arenaUsed>>
        /\ pc = "prefill"
    BY DEF prefill_prompt, reqVars, resVars, draftVars, outVars
  <1>2. CASE pc' = "chunk"
    <2>1. /\ clear /\ offset' = 0 /\ UNCHANGED outcome /\ InVocabulary(prompt)
          /\ logitRows' \in Nat
      BY <1>2 DEF prefill_prompt, throw, TypeOK
    <2>2. KVTypeOK'
      BY <2>1, ClearType DEF TypeOK
    <2>3. TypeOK'
      BY <1>1, <1>2, <2>1, <2>2 DEF TypeOK
    <2>4. Accounting' /\ LengthMeansBudgetSpent'
      BY <1>1, <1>2, <2>1, Numbers
         DEF Accounting, Admitted, InVocabulary, LengthMeansBudgetSpent
    <2> QED BY <2>3, <2>4
  <1>3. CASE pc' # "chunk"
    <2>1. /\ UNCHANGED <<kvVars, logitRows, offset>>
          /\ \/ pc' = "catch" /\ outcome' = "context_length_exceeded"
             \/ pc' = "catch" /\ outcome' = "internal_error"
             \/ pc' = "idle" /\ outcome' = "prefill_failed"
      BY <1>3 DEF prefill_prompt, throw
    <2>2. TypeOK'
      BY <1>1, <2>1 DEF TypeOK, KVTypeOK, kvVars, ErrorCodes
    <2>3. Accounting' /\ LengthMeansBudgetSpent'
      BY <1>1, <2>1 DEF Accounting, LengthMeansBudgetSpent
    <2> QED BY <2>2, <2>3
  <1> QED BY <1>2, <1>3

LEMMA ChunkInv ==
  ASSUME GenInv, forward_chunk
  PROVE  GenInv'
  <1> USE DEF GenInv
  <1>1. /\ UNCHANGED <<prompt, max_new_tokens, calls, token_ids, current_tok,
                       finish_reason, draft, cur_draft_n, prefix_len, pending,
                       speculated, logitRows, seqLen, ckpt, hasCheckpoint>>
        /\ pc = "chunk"
    BY DEF forward_chunk, reqVars, resVars, draftVars, outVars
  <1>2. CASE ArenaFits(0, ChunkLen)
    <2>1. /\ RunPass /\ arenaUsed' = ChunkLen /\ offset' = offset + ChunkLen
          /\ UNCHANGED <<pc, outcome>>
      BY <1>2 DEF forward_chunk
    <2>2. /\ offset \in Nat /\ offset' \in Nat /\ arenaUsed' \in 0 .. ArenaRows
          /\ offset' <= Len(prompt)
      BY <1>1, <1>2, <2>1, ChunkPass, GenerationAssumption DEF ArenaFits, TypeOK
    <2>3. slots' \in [Position -> Cell] /\ delta' \in Seq(Token)
            /\ conv' \in [1 .. 3 -> Cell]
      BY <1>1, <2>1, ChunkPass, ForwardPassType DEF RunPass, PassOK, TypeOK
    <2>4. TypeOK'
      BY <1>1, <2>1, <2>2, <2>3 DEF TypeOK, KVTypeOK
    <2>5. Accounting' /\ LengthMeansBudgetSpent'
      BY <1>1, <2>1, <2>2 DEF Accounting, Admitted, InVocabulary, LengthMeansBudgetSpent
    <2> QED BY <2>4, <2>5
  <1>3. CASE ~ArenaFits(0, ChunkLen)
    <2>1. /\ pc' = "catch" /\ outcome' = "bad_alloc" /\ arenaUsed' = 0
          /\ UNCHANGED <<slots, delta, conv, offset>>
      BY <1>3 DEF forward_chunk, throw
    <2>2. TypeOK'
      BY <1>1, <2>1, GenerationAssumption DEF TypeOK, KVTypeOK, ErrorCodes
    <2>3. Accounting' /\ LengthMeansBudgetSpent'
      BY <1>1, <2>1 DEF Accounting, LengthMeansBudgetSpent
    <2> QED BY <2>2, <2>3
  <1> QED BY <1>2, <1>3

LEMMA ContextTyped ==
  ASSUME NEW s \in [Position -> Cell], NEW d \in Seq(Token),
         NEW c \in [1 .. 3 -> Cell], NEW n \in 0 .. MaxSeqLen
  PROVE  Context(s, d, c, n) \in ContextType
  <1>1. \A i \in 1 .. n : i - 1 \in Position
    BY KVCacheAssumption DEF Position
  <1>2. [i \in 1 .. n |-> s[i - 1]] \in Seq(Cell)
    <2>1. n \in Nat
      BY KVCacheAssumption
    <2> QED BY <1>1, <2>1
  <1> QED BY <1>2 DEF Context, ContextType

LEMMA SampleInv ==
  ASSUME GenInv, NEW t \in Token, prefill_sample(t)
  PROVE  GenInv'
  <1> USE DEF GenInv
  <1>1. /\ UNCHANGED <<prompt, max_new_tokens, calls, token_ids, current_tok,
                       finish_reason, draft, cur_draft_n, prefix_len, arenaUsed,
                       logitRows, offset, slots, delta, conv, ckpt, hasCheckpoint>>
        /\ pc = "chunk"
    BY DEF prefill_sample, reqVars, resVars, draftVars, memVars
  <1>2. /\ Len(prompt) \in 0 .. MaxSeqLen /\ seqLen' = Len(prompt)
        /\ token_ids = << >> /\ max_new_tokens > 0
    BY <1>1, Numbers DEF prefill_sample, set_seq_len, Accounting, Admitted
  <1>3. CASE Stop = {}
    <2>1. pc' = "idle" /\ outcome' = "missing_eos_token" /\ UNCHANGED outVars
      BY <1>3 DEF prefill_sample
    <2>2. TypeOK'
      BY <1>1, <1>2, <2>1 DEF TypeOK, KVTypeOK, outVars, ErrorCodes
    <2>3. Accounting' /\ LengthMeansBudgetSpent'
      BY <1>1, <2>1 DEF Accounting, LengthMeansBudgetSpent
    <2> QED BY <2>2, <2>3
  <1>4. CASE Stop # {}
    <2> DEFINE x == [tok |-> t, ctx |-> Context(slots, delta, conv, Len(prompt))]
    <2>1. pc' = "emit" /\ pending' = <<x>> /\ speculated' = FALSE /\ UNCHANGED outcome
      BY <1>4 DEF prefill_sample
    <2>2. x \in [tok : Token, ctx : ContextType]
      BY <1>2, ContextTyped DEF TypeOK, KVTypeOK
    <2> HIDE DEF x
    <2>3. pending' \in Seq([tok : Token, ctx : ContextType]) /\ Len(pending') = 1
            /\ pending' # << >>
      BY <2>1, <2>2
    <2>4. TypeOK'
      BY <1>1, <1>2, <2>1, <2>3 DEF TypeOK, KVTypeOK
    <2>5. Accounting'
      BY <1>1, <1>2, <2>1, <2>3, Numbers DEF Accounting, Admitted, Emitted, InVocabulary
    <2>6. LengthMeansBudgetSpent'
      BY <1>1, <2>1 DEF LengthMeansBudgetSpent
    <2> QED BY <2>4, <2>5, <2>6
  <1> QED BY <1>3, <1>4

LEMMA LoopExitInv ==
  ASSUME GenInv, loop_exit
  PROVE  GenInv'
  <1> USE DEF GenInv
  <1>1. /\ pc = "loop" /\ pc' = "idle"
        /\ UNCHANGED <<kvVars, prompt, max_new_tokens, calls, token_ids, current_tok,
                       finish_reason, draft, cur_draft_n, prefix_len, pending,
                       speculated, arenaUsed, logitRows, offset, outcome>>
    BY DEF loop_exit, genVars, reqVars, resVars, draftVars, outVars, memVars
  <1>2. TypeOK'
    BY <1>1 DEF TypeOK, KVTypeOK, kvVars
  <1>3. Accounting'
    BY <1>1 DEF Accounting
  <1>4. Len(token_ids) = max_new_tokens
    <2>1. seqLen < MaxSeqLen
      BY <1>1, LoopPass
    <2> QED BY <1>1, <2>1, Numbers DEF loop_exit, Remaining, Accounting
  <1>5. LengthMeansBudgetSpent'
    BY <1>1, <1>4, Numbers DEF LengthMeansBudgetSpent
  <1> QED BY <1>2, <1>3, <1>5

LEMMA DecodeInv ==
  ASSUME GenInv, NEW t \in Token, decode_step(t)
  PROVE  GenInv'
  <1> USE DEF GenInv
  <1>1. /\ UNCHANGED <<prompt, max_new_tokens, calls, token_ids, current_tok,
                       finish_reason, draft, cur_draft_n, prefix_len, logitRows,
                       offset, outcome, ckpt, hasCheckpoint>>
        /\ pc = "loop" /\ Remaining > 0 /\ RunPass
    BY DEF decode_step, LoopBody, reqVars, resVars, draftVars
  <1>2. /\ advance_ok(1) /\ seqLen' = seqLen + 1 /\ seqLen + 1 \in 0 .. MaxSeqLen
    BY <1>1, LoopPass, Numbers DEF decode_step, advance, advance_ok
  <1>3. slots' \in [Position -> Cell] /\ delta' \in Seq(Token)
          /\ conv' \in [1 .. 3 -> Cell]
    BY <1>1, LoopPass, ForwardPassType DEF RunPass, PassOK, TypeOK
  <1> DEFINE x == [tok |-> t, ctx |-> Context(slots', delta', conv', seqLen + 1)]
  <1>4. pc' = "emit" /\ pending' = <<x>> /\ speculated' = FALSE
    BY <1>2 DEF decode_step
  <1>5. x \in [tok : Token, ctx : ContextType]
    BY <1>2, <1>3, ContextTyped
  <1> HIDE DEF x
  <1>6. pending' \in Seq([tok : Token, ctx : ContextType]) /\ Len(pending') = 1
          /\ pending' # << >>
    BY <1>4, <1>5
  <1>7. arenaUsed' \in 0 .. ArenaRows
    BY GenerationAssumption DEF decode_step, TypeOK
  <1>8. TypeOK'
    BY <1>1, <1>2, <1>3, <1>4, <1>6, <1>7 DEF TypeOK, KVTypeOK
  <1>9. Accounting'
    BY <1>1, <1>2, <1>4, <1>6, Numbers
       DEF Accounting, Admitted, Emitted, InVocabulary, Remaining
  <1>10. LengthMeansBudgetSpent'
    BY <1>1, <1>4 DEF LengthMeansBudgetSpent
  <1> QED BY <1>8, <1>9, <1>10

LEMMA ProcessInv ==
  ASSUME GenInv, NEW halt \in BOOLEAN, process_token(halt)
  PROVE  GenInv'
  <1> USE DEF GenInv
  <1> DEFINE t == Head(pending).tok
  <1>1. /\ UNCHANGED <<prompt, max_new_tokens, calls, draft, cur_draft_n, prefix_len,
                       arenaUsed, logitRows, offset, outcome, slots, delta, conv, ckpt,
                       hasCheckpoint, speculated>>
        /\ pc = "emit"
        /\ token_ids' = IF t \in Stop THEN token_ids ELSE Append(token_ids, t)
    BY DEF process_token, reqVars, draftVars, memVars
  <1>2. /\ pending \in Seq([tok : Token, ctx : ContextType]) /\ pending # << >>
        /\ token_ids \in Seq(Token)
    BY <1>1 DEF TypeOK, Accounting
  <1>3. t \in Token
    <2>1. Head(pending) \in [tok : Token, ctx : ContextType]
      BY <1>2, HeadTail
    <2> QED BY <2>1
  <1>4. /\ Len(token_ids) + Len(pending) <= max_new_tokens /\ Len(pending) > 0
        /\ seqLen + (IF speculated THEN 1 ELSE 0)
             = Len(prompt) + Len(token_ids) + Len(pending) - 1
        /\ Admitted /\ InVocabulary(prompt)
    BY <1>1, <1>2 DEF Accounting, Emitted
  <1>5. /\ Append(token_ids, t) \in Seq(Token)
        /\ Len(Append(token_ids, t)) = Len(token_ids) + 1
        /\ Append(token_ids, t) # << >> /\ LastOf(Append(token_ids, t)) = t
    BY <1>2, <1>3, AppendLast
  <1>6. /\ Tail(pending) \in Seq([tok : Token, ctx : ContextType])
        /\ Len(Tail(pending)) = Len(pending) - 1
        /\ Len(pending) # 1 => Tail(pending) # << >>
    BY <1>2, HeadTail
  <1>7. CASE t \in Stop \/ halt
    <2>1. /\ finish_reason' = "stop" /\ pc' = "idle" /\ pending' = << >>
          /\ UNCHANGED <<seqLen, current_tok>>
      BY <1>7 DEF process_token
    <2>2. token_ids' \in Seq(Token) /\ Len(token_ids') <= max_new_tokens
      BY <1>1, <1>2, <1>4, <1>5, Numbers
    <2>3. TypeOK'
      BY <1>1, <2>1, <2>2 DEF TypeOK, KVTypeOK
    <2>4. Accounting' /\ LengthMeansBudgetSpent'
      BY <1>1, <2>1, <2>2 DEF Accounting, LengthMeansBudgetSpent
    <2> QED BY <2>3, <2>4
  <1>8. CASE ~(t \in Stop \/ halt)
    <2> DEFINE last == Len(pending) = 1
    <2>1. /\ finish_reason' = "length" /\ current_tok' = t /\ pending' = Tail(pending)
          /\ token_ids' = Append(token_ids, t)
      BY <1>1, <1>8 DEF process_token
    <2>2. last /\ speculated => seqLen + 1 <= MaxSeqLen
      BY <1>4, Numbers DEF Admitted
    <2>3. /\ seqLen' = IF last /\ speculated THEN seqLen + 1 ELSE seqLen
          /\ pc' = IF last THEN "loop" ELSE "emit"
      BY <1>8, <2>2 DEF process_token, advance, advance_ok
    <2>4. seqLen' \in 0 .. MaxSeqLen /\ current_tok' \in Cell
      BY <1>3, <2>1, <2>2, <2>3, Numbers DEF Cell
    <2>5. TypeOK'
      BY <1>1, <1>5, <1>6, <2>1, <2>3, <2>4 DEF TypeOK, KVTypeOK
    <2>6. /\ Len(token_ids') = Len(token_ids) + 1 /\ Len(token_ids') <= max_new_tokens
          /\ Len(pending') = Len(pending) - 1
      BY <1>4, <1>5, <1>6, <2>1, Numbers
    <2>7. Admitted' /\ InVocabulary(prompt')
      BY <1>1, <1>4 DEF Admitted, InVocabulary
    <2>8. CASE last
      <3>1. pc' = "loop" /\ seqLen' = Len(prompt) + Len(token_ids')  - 1
        BY <1>4, <2>3, <2>6, <2>8, Numbers
      <3>2. token_ids' # << >> /\ current_tok' = LastOf(token_ids)'
        BY <1>5, <2>1 DEF LastOf
      <3> QED
        BY <1>1, <2>1, <2>5, <2>6, <2>7, <3>1, <3>2
           DEF Accounting, Emitted, LengthMeansBudgetSpent, InVocabulary
    <2>9. CASE ~last
      <3>1. /\ pc' = "emit" /\ pending' # << >>
            /\ Len(token_ids') + Len(pending') <= max_new_tokens
            /\ seqLen' + (IF speculated THEN 1 ELSE 0)
                 = Len(prompt) + Len(token_ids') + Len(pending') - 1
        BY <1>4, <1>6, <2>1, <2>3, <2>6, <2>9, Numbers
      <3> QED
        BY <1>1, <2>5, <2>6, <2>7, <3>1
           DEF Accounting, Emitted, LengthMeansBudgetSpent, InVocabulary
    <2> QED BY <2>8, <2>9
  <1> QED BY <1>7, <1>8

LEMMA StartDraftInv ==
  ASSUME GenInv, start_draft
  PROVE  GenInv'
  <1> USE DEF GenInv
  <1>1. /\ UNCHANGED <<prompt, max_new_tokens, calls, token_ids, current_tok,
                       finish_reason, pending, speculated, arenaUsed, logitRows,
                       offset, outcome, seqLen, slots, delta, conv>>
        /\ pc = "loop" /\ pc' = "draft" /\ draft' = << >> /\ prefix_len' = seqLen
        /\ cur_draft_n' = DraftBudget /\ UseSpeculative /\ hasCheckpoint' = TRUE
        /\ ckpt' = [delta |-> delta, conv |-> conv]
    BY DEF start_draft, LoopBody, checkpoint_recurrent_state, reqVars, resVars,
           outVars, memVars
  <1>2. /\ DraftBudget \in Nat /\ DraftBudget > 0
        /\ DraftBudget + Len(token_ids) < max_new_tokens
    BY <1>1, Numbers, GenerationAssumption
       DEF DraftBudget, Min2, UseSpeculative, Remaining
  <1>3. draft' \in Seq(Token) /\ Len(draft') = 0
    BY <1>1
  <1>4. TypeOK'
    BY <1>1, <1>2, <1>3 DEF TypeOK, KVTypeOK
  <1>5. current_tok \in Token
    BY <1>1, LoopPass
  <1>6. Accounting'
    BY <1>1, <1>2, <1>3, <1>5, Numbers DEF Accounting, Admitted, Emitted, InVocabulary
  <1>7. LengthMeansBudgetSpent'
    BY <1>1 DEF LengthMeansBudgetSpent
  <1> QED BY <1>4, <1>6, <1>7

LEMMA DraftStepInv ==
  ASSUME GenInv, NEW t \in Token, draft_decode_step(t)
  PROVE  GenInv'
  <1> USE DEF GenInv
  <1>1. /\ UNCHANGED <<prompt, max_new_tokens, calls, token_ids, current_tok,
                       finish_reason, pending, speculated, arenaUsed, logitRows,
                       offset, outcome, ckpt, hasCheckpoint, pc, cur_draft_n,
                       prefix_len>>
        /\ pc = "draft" /\ Len(draft) < cur_draft_n /\ RunPass
        /\ draft' = Append(draft, t)
    BY DEF draft_decode_step, reqVars, resVars, outVars, memVars
  <1>2. seqLen' = seqLen + 1 /\ seqLen + 1 \in 0 .. MaxSeqLen
    BY <1>1, DraftPass, Numbers DEF draft_decode_step, advance, advance_ok
  <1>3. slots' \in [Position -> Cell] /\ delta' \in Seq(Token)
          /\ conv' \in [1 .. 3 -> Cell]
    BY <1>1, DraftPass, ForwardPassType DEF RunPass, PassOK, TypeOK
  <1>4. draft' \in Seq(Token) /\ Len(draft') = Len(draft) + 1
    BY <1>1, AppendLast DEF TypeOK
  <1>5. TypeOK'
    BY <1>1, <1>2, <1>3, <1>4 DEF TypeOK, KVTypeOK
  <1>6. cur_draft_n \in Nat
    BY DEF TypeOK
  <1>7. Accounting'
    BY <1>1, <1>2, <1>4, <1>6, Numbers DEF Accounting, Admitted, Emitted, InVocabulary
  <1>8. LengthMeansBudgetSpent'
    BY <1>1 DEF LengthMeansBudgetSpent
  <1> QED BY <1>5, <1>7, <1>8

LEMMA VerifyInv ==
  ASSUME GenInv, NEW a \in 0 .. DraftN, NEW x \in Token, forward_verify(a, x)
  PROVE  GenInv'
  <1> USE DEF GenInv
  <1> DEFINE n == Len(draft)
             W == WriteKV(slots, draft, prefix_len)
             D == FoldDelta(delta, draft, FALSE)
             C == ShiftConv(conv, draft)
             row(i) == [tok |-> IF i <= a THEN draft[i] ELSE x,
                        ctx |-> VerifyContext(Min2(i, n))]
  <1>0. EmitsExtra(a) = TRUE
    <2>1. Len(draft) + Len(token_ids) < max_new_tokens
            /\ Len(draft) \in Nat /\ Len(token_ids) \in Nat
      BY Numbers DEF forward_verify, DraftDone, Accounting, TypeOK
    <2> QED BY <2>1 DEF EmitsExtra
  <1>1. /\ UNCHANGED <<prompt, max_new_tokens, calls, token_ids, current_tok,
                       finish_reason, draft, cur_draft_n, prefix_len, logitRows,
                       offset, outcome>>
        /\ pc = "draft" /\ n = cur_draft_n /\ pc' = "emit" /\ speculated' = TRUE
        /\ ArenaFits(arenaUsed, n) /\ arenaUsed' = arenaUsed + n
        /\ a \in 0 .. n /\ slots' = W
        /\ pending' = [i \in 1 .. a + 1 |-> row(i)]
    BY <1>0 DEF forward_verify, DraftDone, reqVars, resVars, draftVars, speculative_accept_reject
  <1>2. /\ draft \in Seq(Token) /\ n \in Nat /\ a \in Nat /\ a <= n /\ n > 0
        /\ slots \in [Position -> Cell] /\ delta \in Seq(Token)
        /\ conv \in [1 .. 3 -> Cell] /\ prefix_len \in Nat
        /\ seqLen = prefix_len + n /\ prefix_len + n <= MaxSeqLen
    BY <1>1, DraftPass, Numbers DEF TypeOK, KVTypeOK, Accounting
  <1>3. W \in [Position -> Cell] /\ D \in Seq(Token) /\ C \in [1 .. 3 -> Cell]
    BY <1>2, WriteKVType, FoldDeltaType, ShiftConvType
  <1>4. /\ seqLen' = prefix_len + a
        /\ delta' \in Seq(Token) /\ conv' \in [1 .. 3 -> Cell]
        /\ ckpt' = ckpt /\ hasCheckpoint' \in BOOLEAN
    <2>0. ckpt.delta \in Seq(Token) /\ ckpt.conv \in [1 .. 3 -> Cell]
            /\ hasCheckpoint \in BOOLEAN
      BY DEF TypeOK, KVTypeOK
    <2>1. CASE a < n
      <3>1. rollback(n - a, D, C)
        BY <2>1 DEF forward_verify
      <3> HIDE DEF D, C, n
      <3>2. delta' \in Seq(Token) /\ conv' \in [1 .. 3 -> Cell]
        BY <1>3, <2>0, <3>1 DEF rollback
      <3>3. ckpt' = ckpt /\ hasCheckpoint' = FALSE /\ seqLen' = seqLen - (n - a)
        BY <3>1 DEF rollback
      <3>4. seqLen' = prefix_len + a
        BY <1>2, <3>3, Numbers
      <3> QED BY <3>2, <3>3, <3>4
    <2>2. CASE ~(a < n)
      <3>1. delta' = D /\ conv' = C /\ UNCHANGED <<seqLen, ckpt, hasCheckpoint>>
        BY <2>2 DEF forward_verify
      <3> HIDE DEF D, C, n
      <3>2. a = n
        BY <1>2, <2>2
      <3> QED BY <1>2, <1>3, <2>0, <3>1, <3>2
    <2> QED BY <2>1, <2>2
  <1>5. \A i \in 1 .. a + 1 : row(i) \in [tok : Token, ctx : ContextType]
    <2> TAKE i \in 1 .. a + 1
    <2> DEFINE j == Min2(i, n)
               toks == SubSeq(draft, 1, j)
    <2>1. j \in 0 .. n /\ (i <= a => i \in 1 .. n)
      BY <1>2 DEF Min2
    <2>2. toks \in Seq(Token)
      <3>1. j \in Nat /\ j <= Len(draft)
        BY <2>1, <1>2
      <3> HIDE DEF j
      <3> QED BY <1>2, <3>1, SubSeqType
    <2>3. /\ FoldDelta(delta, toks, FALSE) \in Seq(Token)
          /\ ShiftConv(conv, toks) \in [1 .. 3 -> Cell]
      BY <1>2, <2>2, FoldDeltaType, ShiftConvType
    <2>4. prefix_len + j \in 0 .. MaxSeqLen
      BY <1>2, <2>1, Numbers
    <2>5. VerifyContext(j) \in ContextType
      <3> HIDE DEF W, j, toks
      <3>1. VerifyContext(j) = Context(W, FoldDelta(delta, toks, FALSE),
                                       ShiftConv(conv, toks), prefix_len + j)
        BY DEF VerifyContext, W, toks
      <3> DEFINE d == FoldDelta(delta, toks, FALSE)
                 c == ShiftConv(conv, toks)
                 k == prefix_len + j
      <3>2. W \in [Position -> Cell] /\ d \in Seq(Token)
              /\ c \in [1 .. 3 -> Cell] /\ k \in 0 .. MaxSeqLen
        BY <1>3, <2>3, <2>4
      <3>3. VerifyContext(j) = Context(W, d, c, k)
        BY <3>1
      <3> HIDE DEF d, c, k
      <3>4. Context(W, d, c, k) \in ContextType
        BY <3>2, ContextTyped
      <3> QED BY <3>3, <3>4
    <2>6. (IF i <= a THEN draft[i] ELSE x) \in Token
      BY <1>2, <2>1
    <2> HIDE DEF j
    <2> QED BY <2>5, <2>6 DEF j
  <1> HIDE DEF n, W, D, C, row
  <1>6. /\ pending' \in Seq([tok : Token, ctx : ContextType])
        /\ Len(pending') = a + 1 /\ pending' # << >>
    <2>1. a + 1 \in Nat /\ a + 1 > 0
      BY <1>2
    <2> DEFINE S == [tok : Token, ctx : ContextType]
    <2> HIDE DEF S
    <2>2. \A i \in 1 .. a + 1 : row(i) \in S
      BY <1>5 DEF S
    <2>3. pending' \in Seq(S) /\ Len(pending') = a + 1
      BY <1>1, <2>1, <2>2
    <2>4. pending' # << >>
      BY <2>1, <2>3
    <2> QED BY <2>3, <2>4 DEF S
  <1>7. arenaUsed' \in 0 .. ArenaRows
    BY <1>1, <1>2, GenerationAssumption DEF ArenaFits, TypeOK
  <1>8. seqLen' \in 0 .. MaxSeqLen
    BY <1>2, <1>4, Numbers
  <1>9. TypeOK'
    BY <1>1, <1>3, <1>4, <1>6, <1>7, <1>8 DEF TypeOK, KVTypeOK
  <1>10. /\ Len(token_ids) + Len(pending') <= max_new_tokens
         /\ seqLen' + 1 = Len(prompt) + Len(token_ids) + Len(pending') - 1
    <2>1. n + Len(token_ids) < max_new_tokens
            /\ prefix_len = Len(prompt) + Len(token_ids) - 1
      BY <1>1 DEF Accounting, Emitted
    <2>2. seqLen' = prefix_len + a /\ Len(pending') = a + 1 /\ a \in Nat /\ a <= n
      BY <1>2, <1>4, <1>6
    <2>3. /\ n \in Nat /\ prefix_len \in Nat /\ Len(token_ids) \in Nat
          /\ Len(prompt) \in Nat /\ max_new_tokens \in Nat
      BY <1>2, Numbers
    <2> QED BY <2>1, <2>2, <2>3
  <1>11. Accounting'
    BY <1>1, <1>6, <1>10, Numbers DEF Accounting, Admitted, Emitted, InVocabulary
  <1>12. LengthMeansBudgetSpent'
    BY <1>1 DEF LengthMeansBudgetSpent
  <1> QED BY <1>9, <1>11, <1>12

LEMMA VerifyThrowsInv ==
  ASSUME GenInv, forward_verify_throws
  PROVE  GenInv'
  <1> USE DEF GenInv
  <1>1. /\ pc' = "catch" /\ outcome' \in {"internal_error", "bad_alloc"}
        /\ UNCHANGED <<kvVars, prompt, max_new_tokens, calls, token_ids, current_tok,
                       finish_reason, draft, cur_draft_n, prefix_len, pending,
                       speculated, arenaUsed, logitRows, offset>>
    BY DEF forward_verify_throws, throw, reqVars, resVars, draftVars, outVars, memVars
  <1>2. TypeOK'
    BY <1>1 DEF TypeOK, KVTypeOK, kvVars, ErrorCodes
  <1>3. Accounting' /\ LengthMeansBudgetSpent'
    BY <1>1 DEF Accounting, LengthMeansBudgetSpent
  <1> QED BY <1>2, <1>3

LEMMA DeviceThrowsInv ==
  ASSUME GenInv, device_throws
  PROVE  GenInv'
  <1> USE DEF GenInv
  <1>1. /\ pc' = "catch" /\ outcome' = "sycl_exception"
        /\ pc \in {"prefill", "chunk", "loop", "draft"}
        /\ UNCHANGED <<seqLen, ckpt, hasCheckpoint, prompt, max_new_tokens, calls,
                       token_ids, current_tok, finish_reason, draft, cur_draft_n,
                       prefix_len, pending, speculated, arenaUsed, logitRows, offset>>
        /\ UNCHANGED <<slots, delta, conv>> \/ (pc # "prefill" /\ RunPass)
    BY DEF device_throws, throw, reqVars, resVars, draftVars, outVars, memVars
  <1>2. slots' \in [Position -> Cell] /\ delta' \in Seq(Token)
          /\ conv' \in [1 .. 3 -> Cell]
    <2>1. CASE UNCHANGED <<slots, delta, conv>>
      BY <2>1 DEF TypeOK, KVTypeOK
    <2>2. CASE pc # "prefill" /\ RunPass
      <3>1. PassOK
        BY <1>1, <2>2, ChunkPass, LoopPass, DraftPass
      <3> QED BY <2>2, <3>1, ForwardPassType DEF RunPass, PassOK, TypeOK
    <2> QED BY <1>1, <2>1, <2>2
  <1>3. TypeOK'
    BY <1>1, <1>2 DEF TypeOK, KVTypeOK, ErrorCodes
  <1>4. Accounting' /\ LengthMeansBudgetSpent'
    BY <1>1 DEF Accounting, LengthMeansBudgetSpent
  <1> QED BY <1>3, <1>4

LEMMA ResetInv ==
  ASSUME GenInv, catch_reset \/ catch_reset_throws \/ Engine_reset
  PROVE  GenInv'
  <1> USE DEF GenInv
  <1>1. /\ UNCHANGED <<prompt, max_new_tokens, calls, token_ids, current_tok,
                       finish_reason, draft, cur_draft_n, prefix_len, pending,
                       speculated, logitRows, offset>>
        /\ arenaUsed' \in {0, arenaUsed} /\ pc' = "idle"
        /\ clear \/ UNCHANGED kvVars
        /\ \/ pc = "catch" /\ outcome' \in {outcome, "escaped"}
           \/ pc = "idle" /\ outcome' = outcome
    BY DEF catch_reset, catch_reset_throws, Engine_reset, reset, reqVars, resVars,
           draftVars, outVars, memVars
  <1>2. KVTypeOK'
    <2>1. CASE clear
      BY <2>1, ClearType DEF TypeOK
    <2>2. CASE UNCHANGED kvVars
      BY <2>2 DEF TypeOK, KVTypeOK, kvVars
    <2> QED BY <1>1, <2>1, <2>2
  <1>3. TypeOK'
    BY <1>1, <1>2, GenerationAssumption DEF TypeOK, ErrorCodes
  <1>4. Accounting'
    BY <1>1 DEF Accounting
  <1>5. LengthMeansBudgetSpent'
    BY <1>1 DEF LengthMeansBudgetSpent, Accounting
  <1> QED BY <1>3, <1>4, <1>5

LEMMA GenNext == GenInv /\ [Next]_vars => GenInv'
  <1> SUFFICES ASSUME GenInv, [Next]_vars PROVE GenInv'
    OBVIOUS
  <1>1. ASSUME NEW p \in Prompts, NEW m \in 0 .. MaxNew, NEW s \in Sampling,
               generate(p, m, s)
        PROVE  GenInv'
    BY <1>1, GenerateInv
  <1>2. CASE Step
    BY <1>2, PrefillInv, ChunkInv, SampleInv, LoopExitInv, DecodeInv, ProcessInv,
       StartDraftInv, DraftStepInv, VerifyInv, VerifyThrowsInv, ResetInv DEF Step
  <1>3. CASE device_throws
    BY <1>3, DeviceThrowsInv
  <1>4. CASE catch_reset_throws \/ Engine_reset
    BY <1>4, ResetInv
  <1>5. CASE UNCHANGED vars
    <2> USE <1>5 DEF GenInv, vars, genVars, reqVars, resVars, draftVars, outVars, memVars
    <2>1. TypeOK'
      BY DEF TypeOK, KVTypeOK, kvVars
    <2>2. Accounting'
      BY DEF Accounting, Admitted, Emitted, InVocabulary, LastOf, kvVars
    <2>3. LengthMeansBudgetSpent'
      BY DEF LengthMeansBudgetSpent
    <2> QED BY <2>1, <2>2, <2>3
  <1> QED BY <1>1, <1>2, <1>3, <1>4, <1>5 DEF Next

\* GenInv (the types, Accounting and the budget) is an invariant of generate.
THEOREM GenInvariant == Spec => []GenInv
  BY GenInit0, GenNext, PTL DEF Spec

\* The engine's state always has its type: no length, row or buffer count
\* leaves its range, with or without speculation.
THEOREM GenTypeCorrect == Spec => []TypeOK
  <1>1. GenInv => TypeOK
    BY DEF GenInv
  <1> QED BY <1>1, GenInvariant, PTL

\* No pass ever reaches past max_seq_len.
THEOREM PassesFit == Spec => []PassFits
  <1>1. GenInv => PassFits
    <2> SUFFICES ASSUME GenInv, pc \in {"chunk", "draft"} \/ LoopBody PROVE PassOK
      BY DEF PassFits, PassOK
    <2> QED BY ChunkPass, LoopPass, DraftPass DEF GenInv, LoopBody
  <1> QED BY <1>1, GenInvariant, PTL

\* finish_reason "length" means that exactly max_new_tokens were generated,
\* with or without speculation.
THEOREM LengthIsBudget == Spec => []LengthMeansBudgetSpent
  <1>1. GenInv => LengthMeansBudgetSpent
    BY DEF GenInv
  <1> QED BY <1>1, GenInvariant, PTL

-----------------------------------------------------------------------------
(***************************************************************************)
(* Without speculation the cache is exact.                                 *)
(***************************************************************************)
LEMMA PrefixFacts ==
  ASSUME NEW s \in Seq(Token), NEW n \in Nat, n <= Len(s)
  PROVE  /\ SubSeq(s, 1, n) \in Seq(Token) /\ Len(SubSeq(s, 1, n)) = n
         /\ n = 0 => SubSeq(s, 1, n) = << >>
         /\ n = Len(s) => SubSeq(s, 1, n) = s
  OBVIOUS

LEMMA JoinFacts ==
  ASSUME NEW a \in Seq(Token), NEW b \in Seq(Token)
  PROVE  /\ a \o b \in Seq(Token) /\ Len(a \o b) = Len(a) + Len(b)
         /\ \A i \in 1 .. Len(a) : (a \o b)[i] = a[i]
         /\ \A i \in 1 .. Len(b) : (a \o b)[Len(a) + i] = b[i]
  OBVIOUS

LEMMA PrefixJoin ==
  ASSUME NEW s \in Seq(Token), NEW m \in Nat, NEW n \in Nat, m <= n, n <= Len(s)
  PROVE  SubSeq(s, 1, m) \o SubSeq(s, m + 1, n) = SubSeq(s, 1, n)
  <1> DEFINE a == SubSeq(s, 1, m)
             b == SubSeq(s, m + 1, n)
             c == SubSeq(s, 1, n)
  <1>1. /\ a \in Seq(Token) /\ Len(a) = m /\ \A i \in 1 .. m : a[i] = s[i]
        /\ c \in Seq(Token) /\ Len(c) = n /\ \A i \in 1 .. n : c[i] = s[i]
    OBVIOUS
  <1>2. b \in Seq(Token) /\ Len(b) = n - m /\ \A i \in 1 .. n - m : b[i] = s[m + i]
    BY SubSeqType
  <1> HIDE DEF a, b, c
  <1>3. /\ a \o b \in Seq(Token) /\ Len(a \o b) = n
        /\ \A i \in 1 .. m : (a \o b)[i] = a[i]
        /\ \A i \in 1 .. n - m : (a \o b)[m + i] = b[i]
    <2>1. /\ a \o b \in Seq(Token) /\ Len(a \o b) = Len(a) + Len(b)
          /\ \A i \in 1 .. Len(a) : (a \o b)[i] = a[i]
          /\ \A i \in 1 .. Len(b) : (a \o b)[Len(a) + i] = b[i]
      BY <1>1, <1>2, JoinFacts
    <2>2. Len(a) + Len(b) = n
      BY <1>1, <1>2
    <2> QED BY <1>1, <1>2, <2>1, <2>2
  <1>4. ASSUME NEW i \in 1 .. n PROVE (a \o b)[i] = c[i]
    <2>1. CASE i <= m
      <3>1. i \in 1 .. m /\ i \in 1 .. n
        BY <2>1
      <3>2. (a \o b)[i] = a[i]
        BY <1>3, <3>1
      <3>3. a[i] = s[i]
        BY <1>1, <3>1
      <3>4. c[i] = s[i]
        BY <1>1, <3>1
      <3> QED BY <3>2, <3>3, <3>4
    <2>2. CASE ~(i <= m)
      <3>1. i - m \in 1 .. n - m /\ m + (i - m) = i
        BY <2>2
      <3>2. (a \o b)[m + (i - m)] = b[i - m]
        BY <1>3, <3>1
      <3>3. b[i - m] = s[m + (i - m)]
        BY <1>2, <3>1
      <3>4. c[i] = s[i]
        BY <1>1
      <3> QED BY <3>1, <3>2, <3>3, <3>4
    <2> QED BY <2>1, <2>2
  <1>5. a \o b = c
    BY <1>1, <1>3, <1>4
  <1> QED BY <1>5 DEF a, b, c

LEMMA AppendPrefix ==
  ASSUME NEW s \in Seq(Token), NEW x \in Token
  PROVE  SubSeq(Append(s, x), 1, Len(s)) = s
  <1> DEFINE u == Append(s, x)
             v == SubSeq(u, 1, Len(s))
  <1>1. /\ u \in Seq(Token) /\ Len(u) = Len(s) + 1 /\ Len(s) \in Nat
        /\ \A i \in 1 .. Len(s) : u[i] = s[i]
    OBVIOUS
  <1> HIDE DEF u
  <1>2. v \in Seq(Token) /\ Len(v) = Len(s) /\ \A i \in 1 .. Len(s) : v[i] = u[i]
    BY <1>1
  <1> HIDE DEF v
  <1>3. v = s
    BY <1>1, <1>2
  <1> QED BY <1>3 DEF u, v

LEMMA AppendJoin ==
  ASSUME NEW a \in Seq(Token), NEW b \in Seq(Token), NEW x \in Token
  PROVE  a \o Append(b, x) = Append(a \o b, x)
  OBVIOUS

LEMMA HistoryFacts ==
  ASSUME TypeOK, InVocabulary(prompt)
  PROVE  History \in Seq(Token) /\ Len(History) = Len(prompt) + Len(token_ids)
  BY VocabularyPrompt DEF TypeOK, History

ExactInv == GenInv /\ CacheExact

LEMMA ExactPrefill ==
  ASSUME ExactInv, prefill_prompt
  PROVE  CacheExact'
  <1>1. CASE pc' = "chunk"
    <2>1. offset' = 0 /\ delta' = << >> /\ conv' = ZeroConv /\ prompt' = prompt
            /\ InVocabulary(prompt)
      BY <1>1 DEF prefill_prompt, throw, clear, reqVars
    <2>2. SubSeq(prompt, 1, 0) = << >>
      BY VocabularyPrompt, PrefixFacts, <2>1, Numbers DEF ExactInv, GenInv
    <2>3. Taps(<< >>) = ZeroConv
      <3>1. Taps(<< >>) = [i \in 1 .. 3 |-> Blank]
        BY DEF Taps
      <3>2. ZeroConv = [i \in 1 .. 3 |-> Blank]
        BY DEF ZeroConv
      <3> QED BY <3>1, <3>2
    <2>4. [i \in 1 .. 0 |-> slots'[i - 1]] = << >>
      OBVIOUS
    <2>5. Context(slots', delta', conv', 0) = ExactContext(<< >>)
      BY <2>1, <2>3, <2>4 DEF Context, ExactContext
    <2> QED BY <1>1, <2>1, <2>2, <2>5 DEF CacheExact
  <1>2. CASE pc' # "chunk"
    <2>1. pc' \in {"catch", "idle"}
      BY <1>2 DEF prefill_prompt, throw
    <2> QED BY <2>1 DEF CacheExact
  <1> QED BY <1>1, <1>2

LEMMA ExactChunk ==
  ASSUME ExactInv, forward_chunk
  PROVE  CacheExact'
  <1> USE DEF ExactInv, GenInv
  <1>1. CASE ArenaFits(0, ChunkLen)
    <2> DEFINE P == SubSeq(prompt, 1, offset)
               toks == NextPass.toks
    <2>1. /\ pc = "chunk" /\ pc' = "chunk" /\ prompt' = prompt
          /\ offset' = offset + ChunkLen
          /\ ForwardPass(toks, offset, offset = 0)
      BY <1>1, ChunkPass DEF forward_chunk, RunPass, reqVars
    <2>2. /\ prompt \in Seq(Token) /\ offset \in Nat /\ ChunkLen \in Nat
          /\ offset + ChunkLen <= Len(prompt) /\ toks \in Seq(Token)
          /\ toks = SubSeq(prompt, offset + 1, offset + ChunkLen)
          /\ Len(toks) = ChunkLen /\ offset + Len(toks) <= MaxSeqLen
      BY <2>1, ChunkPass, VocabularyPrompt DEF PassOK, Accounting, TypeOK
    <2>3. P \in Seq(Token) /\ Len(P) = offset /\ (offset = 0 => P = << >>)
      <3>1. offset <= Len(prompt)
        BY <2>1 DEF Accounting
      <3> QED BY <2>2, <3>1, PrefixFacts
    <2>4. Covers(P)
      BY <2>1, <2>3 DEF CacheExact, Covers
    <2> HIDE DEF P, toks
    <2>5. Context(slots', delta', conv', Len(P \o toks)) = ExactContext(P \o toks)
      <3>1. (offset = 0) \in BOOLEAN
        OBVIOUS
      <3> QED BY <2>1, <2>2, <2>3, <2>4, <3>1, PassExtendsContext DEF TypeOK
    <2>6. P \o toks = SubSeq(prompt, 1, offset') /\ Len(P \o toks) = offset'
      <3>1. P \o toks = SubSeq(prompt, 1, offset + ChunkLen)
        BY <2>2, PrefixJoin DEF P
      <3>2. Len(P \o toks) = offset + ChunkLen
        BY <2>2, <2>3
      <3> QED BY <2>1, <3>1, <3>2
    <2>7. Context(slots', delta', conv', offset')
            = ExactContext(SubSeq(prompt', 1, offset'))
      BY <2>1, <2>5, <2>6
    <2> QED BY <2>1, <2>7 DEF CacheExact
  <1>2. CASE ~ArenaFits(0, ChunkLen)
    <2>1. pc' = "catch"
      BY <1>2 DEF forward_chunk, throw
    <2> QED BY <2>1 DEF CacheExact
  <1> QED BY <1>1, <1>2
LEMMA ExactSample ==
  ASSUME ExactInv, NEW t \in Token, prefill_sample(t)
  PROVE  CacheExact'
  <1> USE DEF ExactInv, GenInv
  <1>1. CASE pc' = "emit"
    <2>1. /\ pc = "chunk" /\ offset >= Len(prompt)
          /\ pending' = <<[tok |-> t, ctx |-> Context(slots, delta, conv, Len(prompt))]>>
          /\ speculated' = FALSE
          /\ UNCHANGED <<slots, delta, conv, prompt, token_ids>>
      BY <1>1 DEF prefill_sample, reqVars, resVars
    <2>2. /\ token_ids = << >> /\ offset <= Len(prompt) /\ prompt \in Seq(Token)
          /\ offset \in Nat /\ Len(prompt) \in Nat
      BY <2>1, VocabularyPrompt DEF Accounting, TypeOK
    <2>3. offset = Len(prompt)
      BY <2>1, <2>2
    <2>4. SubSeq(prompt, 1, offset) = prompt
      BY <2>2, <2>3, PrefixFacts
    <2>5. Context(slots, delta, conv, Len(prompt)) = ExactContext(prompt)
      BY <2>1, <2>3, <2>4 DEF CacheExact
    <2>6. History' = prompt
      <3>1. History' = prompt \o << >>
        BY <2>1, <2>2 DEF History
      <3> QED BY <3>1, <2>2
    <2>7. Len(pending') = 1 /\ pending'[1].ctx = Context(slots, delta, conv, Len(prompt))
      BY <2>1
    <2> QED BY <1>1, <2>1, <2>5, <2>6, <2>7 DEF CacheExact
  <1>2. CASE pc' # "emit"
    <2>1. pc' = "idle"
      BY <1>2 DEF prefill_sample
    <2> QED BY <2>1 DEF CacheExact
  <1> QED BY <1>1, <1>2

LEMMA LastJoin ==
  ASSUME NEW s \in Seq(Token), s # << >>
  PROVE  SubSeq(s, 1, Len(s) - 1) \o <<LastOf(s)>> = s
  <1>1. Len(s) \in Nat /\ Len(s) - 1 \in Nat /\ Len(s) \in 1 .. Len(s)
    OBVIOUS
  <1>2. SubSeq(s, 1, Len(s) - 1) \o SubSeq(s, Len(s), Len(s)) = s
    <2>1. Len(s) - 1 + 1 = Len(s) /\ Len(s) - 1 <= Len(s)
      BY <1>1
    <2>2. SubSeq(s, 1, Len(s) - 1) \o SubSeq(s, Len(s) - 1 + 1, Len(s)) = SubSeq(s, 1, Len(s))
      BY <1>1, <2>1, PrefixJoin
    <2>3. SubSeq(s, 1, Len(s)) = s
      BY <1>1, PrefixFacts
    <2> QED BY <2>1, <2>2, <2>3
  <1>3. SubSeq(s, Len(s), Len(s)) = <<s[Len(s)]>>
    <2> DEFINE b == SubSeq(s, Len(s) - 1 + 1, Len(s))
    <2>1. Len(s) - 1 + 1 = Len(s) /\ Len(s) - (Len(s) - 1) = 1 /\ Len(s) - 1 <= Len(s)
      BY <1>1
    <2>2. /\ b \in Seq(Token) /\ Len(b) = Len(s) - (Len(s) - 1)
          /\ \A i \in 1 .. Len(s) - (Len(s) - 1) : b[i] = s[Len(s) - 1 + i]
      BY <1>1, <2>1, SubSeqType
    <2>3. b = SubSeq(s, Len(s), Len(s))
      BY <2>1
    <2> HIDE DEF b
    <2>4. b \in Seq(Token) /\ Len(b) = 1 /\ b[1] = s[Len(s)]
      BY <2>1, <2>2
    <2>5. b = <<b[1]>>
      BY <2>4
    <2> QED BY <2>3, <2>4, <2>5
  <1> QED BY <1>2, <1>3 DEF LastOf

LEMMA LoopHistory ==
  ASSUME GenInv, pc = "loop"
  PROVE  /\ History \in Seq(Token) /\ seqLen = Len(History) - 1 /\ seqLen \in Nat
         /\ History # << >> /\ current_tok = LastOf(History)
         /\ Len(History) <= MaxSeqLen
  <1> USE DEF GenInv
  <1>1. /\ prompt \in Seq(Token) /\ token_ids \in Seq(Token) /\ token_ids # << >>
        /\ current_tok = LastOf(token_ids)
    BY VocabularyPrompt DEF Accounting, TypeOK
  <1>2. /\ History \in Seq(Token) /\ Len(History) = Len(prompt) + Len(token_ids)
        /\ \A i \in 1 .. Len(token_ids) : History[Len(prompt) + i] = token_ids[i]
    BY <1>1, JoinFacts DEF History
  <1>3. Len(token_ids) \in 1 .. Len(token_ids) /\ Len(token_ids) > 0
    BY <1>1
  <1>4. LastOf(History) = LastOf(token_ids)
    BY <1>2, <1>3 DEF LastOf
  <1>5. /\ seqLen = Len(prompt) + Len(token_ids) - 1
        /\ Len(token_ids) <= max_new_tokens
        /\ Len(prompt) + max_new_tokens <= MaxSeqLen
    BY DEF Accounting, Emitted, Admitted
  <1>6. seqLen = Len(History) - 1 /\ Len(History) <= MaxSeqLen /\ Len(History) > 0
    BY <1>2, <1>3, <1>5, Numbers
  <1>7. History # << >>
    <2>1. History = << >> => Len(History) = 0
      OBVIOUS
    <2> QED BY <1>6, <2>1
  <1> QED BY <1>1, <1>2, <1>4, <1>6, <1>7, Numbers

LEMMA ExactDecode ==
  ASSUME ExactInv, NEW t \in Token, decode_step(t)
  PROVE  CacheExact'
  <1> USE DEF ExactInv, GenInv
  <1>1. CASE pc' = "emit"
    <2> DEFINE P == SubSeq(History, 1, seqLen)
    <2>1. /\ pc = "loop" /\ UNCHANGED <<prompt, token_ids>>
          /\ pending' = <<[tok |-> t, ctx |-> Context(slots', delta', conv', seqLen + 1)]>>
          /\ speculated' = FALSE /\ RunPass
      BY <1>1 DEF decode_step, LoopBody, reqVars, resVars
    <2>2. ForwardPass(<<current_tok>>, seqLen, FALSE)
      <3>1. NextPass = [toks |-> <<current_tok>>, start |-> seqLen, zero |-> FALSE]
        BY <2>1, LoopPass
      <3>2. /\ NextPass.toks = <<current_tok>> /\ NextPass.start = seqLen
            /\ NextPass.zero = FALSE
        BY <3>1
      <3> QED BY <2>1, <3>2 DEF RunPass
    <2>3. /\ History \in Seq(Token) /\ seqLen = Len(History) - 1 /\ seqLen \in Nat
          /\ History # << >> /\ current_tok = LastOf(History)
          /\ Len(History) <= MaxSeqLen
      BY <2>1, LoopHistory
    <2>4. Len(History) = seqLen + 1 /\ seqLen <= Len(History)
      BY <2>3
    <2>5. P \in Seq(Token) /\ Len(P) = seqLen
      BY <2>3, <2>4, PrefixFacts
    <2>6. P \o <<current_tok>> = History
      BY <2>3, LastJoin
    <2>7. Covers(P)
      BY <2>1, <2>5 DEF CacheExact, Covers
    <2>8. <<current_tok>> \in Seq(Token) /\ Len(<<current_tok>>) = 1
      BY <2>1, LoopPass
    <2> HIDE DEF P
    <2>9. Context(slots', delta', conv', Len(P \o <<current_tok>>))
            = ExactContext(P \o <<current_tok>>)
      <3>1. Len(P) + Len(<<current_tok>>) <= MaxSeqLen
        BY <2>3, <2>4, <2>5, <2>8
      <3>2. ForwardPass(<<current_tok>>, Len(P), FALSE) /\ KVTypeOK
        BY <2>2, <2>5 DEF TypeOK
      <3> QED BY <2>5, <2>7, <2>8, <3>1, <3>2, PassExtendsContext
    <2>10. Context(slots', delta', conv', Len(History)) = ExactContext(History)
      BY <2>6, <2>9
    <2>11. History' = History
      BY <2>1 DEF History
    <2>12. Len(pending') = 1 /\ pending'[1].ctx = Context(slots', delta', conv', seqLen + 1)
      BY <2>1
    <2> QED BY <1>1, <2>1, <2>4, <2>10, <2>11, <2>12 DEF CacheExact
  <1>2. CASE pc' # "emit"
    <2>1. pc' = "idle"
      BY <1>2 DEF decode_step
    <2> QED BY <2>1 DEF CacheExact
  <1> QED BY <1>1, <1>2

LEMMA ExactProcess ==
  ASSUME ExactInv, NEW halt \in BOOLEAN, process_token(halt)
  PROVE  CacheExact'
  <1> USE DEF ExactInv, GenInv
  <1> DEFINE t == Head(pending).tok
  <1>1. pc = "emit" /\ Len(pending) = 1 /\ ~speculated
    BY DEF process_token, CacheExact
  <1>2. CASE pc' = "loop"
    <2>1. /\ token_ids' = Append(token_ids, t)
          /\ UNCHANGED <<prompt, slots, delta, conv, seqLen>>
      BY <1>1, <1>2 DEF process_token, reqVars
    <2>2. /\ prompt \in Seq(Token) /\ token_ids \in Seq(Token) /\ t \in Token
          /\ History \in Seq(Token)
      <3>1. pending \in Seq([tok : Token, ctx : ContextType]) /\ pending # << >>
        BY <1>1 DEF TypeOK, Accounting
      <3>2. Head(pending) \in [tok : Token, ctx : ContextType]
        BY <3>1, HeadTail
      <3> QED BY <1>1, <3>2, VocabularyPrompt, HistoryFacts DEF TypeOK, Accounting
    <2>3. Len(History) = Emitted /\ seqLen = Emitted /\ Emitted \in Nat
      <3>1. Len(History) = Len(prompt) + Len(token_ids)
        BY <1>1, HistoryFacts DEF Accounting
      <3>2. seqLen + 0 = Len(prompt) + Len(token_ids) + 1 - 1
        BY <1>1 DEF Accounting, Emitted
      <3> QED BY <3>1, <3>2, Numbers DEF Emitted
    <2>4. SubSeq(History', 1, Len(History)) = History
      <3>1. History' = prompt \o Append(token_ids, t)
        BY <2>1 DEF History
      <3>2. prompt \o Append(token_ids, t) = Append(History, t)
        <4> HIDE DEF t
        <4> QED BY <2>2, AppendJoin DEF History
      <3> HIDE DEF t
      <3> QED BY <2>2, <3>1, <3>2, AppendPrefix
    <2>5. Context(slots', delta', conv', seqLen') = ExactContext(History)
      BY <1>1, <2>1, <2>3 DEF CacheExact
    <2> QED BY <1>2, <2>1, <2>3, <2>4, <2>5 DEF CacheExact
  <1>3. CASE pc' # "loop"
    <2>1. pc' = "idle"
      BY <1>1, <1>3 DEF process_token
    <2> QED BY <2>1 DEF CacheExact
  <1> QED BY <1>2, <1>3

LEMMA ExactNext ==
  DraftN = 0 => (ExactInv /\ [Next]_vars => ExactInv')
  <1> SUFFICES ASSUME DraftN = 0, ExactInv, [Next]_vars PROVE ExactInv'
    OBVIOUS
  <1> SUFFICES CacheExact'
    BY GenNext DEF ExactInv
  <1>1. ASSUME NEW p \in Prompts, NEW m \in 0 .. MaxNew, NEW s \in Sampling,
               generate(p, m, s)
        PROVE  CacheExact'
    <2>1. pc' \in {"idle", "prefill"}
      BY <1>1 DEF generate
    <2> QED BY <2>1 DEF CacheExact
  <1>2. CASE prefill_prompt
    BY <1>2, ExactPrefill
  <1>3. CASE forward_chunk
    BY <1>3, ExactChunk
  <1>4. ASSUME NEW t \in Token, prefill_sample(t) PROVE CacheExact'
    BY <1>4, ExactSample
  <1>5. ASSUME NEW t \in Token, decode_step(t) PROVE CacheExact'
    BY <1>5, ExactDecode
  <1>6. ASSUME NEW halt \in BOOLEAN, process_token(halt) PROVE CacheExact'
    BY <1>6, ExactProcess
  <1>7. CASE loop_exit \/ catch_reset \/ device_throws \/ catch_reset_throws
               \/ Engine_reset \/ forward_verify_throws
    <2>1. pc' \in {"idle", "catch"}
      BY <1>7 DEF loop_exit, catch_reset, device_throws, catch_reset_throws,
         Engine_reset, forward_verify_throws, throw
    <2> QED BY <2>1 DEF CacheExact
  <1>8. ~start_draft
    BY DEF start_draft, UseSpeculative
  <1>9. /\ \A t \in Token : ~draft_decode_step(t)
        /\ \A a \in 0 .. DraftN, t \in Token : ~forward_verify(a, t)
    BY DEF ExactInv, CacheExact, draft_decode_step, forward_verify, DraftDone
  <1>10. CASE UNCHANGED vars
    BY <1>10 DEF ExactInv, CacheExact, History, vars, genVars, reqVars, resVars,
       draftVars, outVars, memVars, kvVars
  <1> QED BY <1>1, <1>2, <1>3, <1>4, <1>5, <1>6, <1>7, <1>8, <1>9, <1>10 DEF Next, Step

LEMMA ExactInit == Init => ExactInv
  <1>1. Init => CacheExact
    BY DEF Init, GenInit, CacheExact
  <1> QED BY <1>1, GenInit0 DEF ExactInv

\* Without speculation every token is sampled from exactly the history
\* before it: the K/V rows, the delta-rule state and the conv taps agree with
\* prompt + token_ids for every chunk size, prompt, earlier call and failure.
THEOREM SampledExactly == DraftN = 0 => (Spec => []SampledFromHistory)
  <1> SUFFICES ASSUME DraftN = 0 PROVE Spec => []SampledFromHistory
    OBVIOUS
  <1>1. ExactInv /\ [Next]_vars => ExactInv'
    BY ExactNext
  <1>2. ExactInv => SampledFromHistory
    <2> SUFFICES ASSUME ExactInv, pc = "emit"
                 PROVE  Head(pending).ctx = ExactContext(History)
      BY DEF SampledFromHistory
    <2>1. pending \in Seq([tok : Token, ctx : ContextType]) /\ pending # << >>
      BY DEF ExactInv, GenInv, TypeOK, Accounting
    <2>2. Head(pending) = pending[1]
      BY <2>1, HeadTail
    <2> QED BY <2>2 DEF ExactInv, CacheExact
  <1> QED BY <1>1, <1>2, ExactInit, PTL DEF Spec

\* Without speculation the cache between two decode steps covers the history
\* up to, and not including, current_tok.
THEOREM CacheAlwaysCovers == DraftN = 0 => (Spec => []CacheCoversHistory)
  <1> SUFFICES ASSUME DraftN = 0 PROVE Spec => []CacheCoversHistory
    OBVIOUS
  <1>1. ExactInv /\ [Next]_vars => ExactInv'
    BY ExactNext
  <1>2. ExactInv => CacheCoversHistory
    <2> SUFFICES ASSUME ExactInv, pc = "loop"
                 PROVE  /\ token_ids # << >> /\ current_tok = LastOf(token_ids)
                        /\ seqLen = Len(History) - 1
                        /\ Context(slots, delta, conv, seqLen)
                             = ExactContext(SubSeq(History, 1, seqLen))
      BY DEF CacheCoversHistory
    <2>1. seqLen = Len(History) - 1
      BY LoopHistory DEF ExactInv
    <2> QED BY <2>1 DEF ExactInv, GenInv, Accounting, CacheExact
  <1> QED BY <1>1, <1>2, ExactInit, PTL DEF Spec

-----------------------------------------------------------------------------
(***************************************************************************)
(* What a call that ended in a catch clause leaves behind.                 *)
(***************************************************************************)
CatchCodes == {"internal_error", "bad_alloc", "sycl_exception"}

LEMMA CatchNext == GenInv /\ CatchLeavesEngineReset /\ [Next]_vars
                     => CatchLeavesEngineReset'
  <1> SUFFICES ASSUME GenInv, CatchLeavesEngineReset, [Next]_vars
               PROVE  CatchLeavesEngineReset'
    OBVIOUS
  <1> DEFINE Clean == pc' # "idle" \/ outcome' \notin CatchCodes
  <1>1. Clean => CatchLeavesEngineReset'
    BY DEF CatchLeavesEngineReset, CatchCodes
  <1>2. pc \notin {"idle", "catch"} => outcome = "ok"
    BY DEF GenInv, Accounting, Admitted
  <1>3. ASSUME NEW p \in Prompts, NEW m \in 0 .. MaxNew, NEW s \in Sampling,
               generate(p, m, s)
        PROVE  Clean
    <2>1. Verdict(p, m, s) \notin CatchCodes
      BY DEF Verdict, CatchCodes
    <2> QED BY <1>3, <2>1 DEF generate
  <1>4. prefill_prompt \/ forward_chunk => Clean
    BY DEF prefill_prompt, forward_chunk, throw, CatchCodes
  <1>5. ASSUME NEW t \in Token, prefill_sample(t) PROVE Clean
    BY <1>5 DEF prefill_sample, CatchCodes
  <1>6. loop_exit => Clean
    BY <1>2 DEF loop_exit, genVars, CatchCodes
  <1>7. ASSUME NEW t \in Token, decode_step(t) PROVE Clean
    BY <1>2, <1>7 DEF decode_step, LoopBody, CatchCodes
  <1>8. ASSUME NEW halt \in BOOLEAN, process_token(halt) PROVE Clean
    BY <1>2, <1>8 DEF process_token, CatchCodes
  <1>9. start_draft \/ forward_verify_throws \/ device_throws => Clean
    BY DEF start_draft, forward_verify_throws, device_throws, throw
  <1>10. ASSUME NEW t \in Token, draft_decode_step(t) PROVE Clean
    BY <1>10 DEF draft_decode_step
  <1>11. ASSUME NEW a \in 0 .. DraftN, NEW t \in Token, forward_verify(a, t)
         PROVE  Clean
    BY <1>11 DEF forward_verify
  <1>12. catch_reset_throws => Clean
    BY DEF catch_reset_throws, CatchCodes
  <1>13. catch_reset \/ Engine_reset => CatchLeavesEngineReset'
    BY DEF catch_reset, Engine_reset, reset, clear, CatchLeavesEngineReset
  <1>14. UNCHANGED vars => CatchLeavesEngineReset'
    BY DEF CatchLeavesEngineReset, vars, genVars, kvVars, memVars
  <1> QED
    BY <1>1, <1>3, <1>4, <1>5, <1>6, <1>7, <1>8, <1>9, <1>10, <1>11, <1>12,
       <1>13, <1>14 DEF Next, Step

\* A call that ended in one of generate's catch clauses leaves an empty cache
\* and an empty arena, with or without speculation and wherever it failed.
THEOREM CatchResets == Spec => []CatchLeavesEngineReset
  <1>1. Init => CatchLeavesEngineReset
    BY DEF Init, GenInit, CatchLeavesEngineReset
  <1> QED BY <1>1, GenInit0, GenNext, CatchNext, PTL DEF Spec

-----------------------------------------------------------------------------
(***************************************************************************)
(* The refinement: without speculation every step of generate is a step of *)
(* RecomputeDecode or leaves its variables alone.                          *)
(***************************************************************************)
Caller == <<prompt, max_new_tokens, token_ids>>

LEMMA EmitAsksHistory ==
  ExactInv => (pc = "emit" => AskedHistory(Head(pending).ctx) = prompt \o token_ids)
  <1> SUFFICES ASSUME ExactInv, pc = "emit"
               PROVE  AskedHistory(Head(pending).ctx) = prompt \o token_ids
    OBVIOUS
  <1>1. pending \in Seq([tok : Token, ctx : ContextType]) /\ pending # << >>
    BY DEF ExactInv, GenInv, TypeOK, Accounting
  <1>2. Head(pending).ctx = ExactContext(History)
    BY <1>1, HeadTail DEF ExactInv, CacheExact
  <1>3. ExactContext(History).kv = History
    BY DEF ExactContext
  <1> QED BY <1>2, <1>3 DEF AskedHistory, History

LEMMA QuietStep ==
  ASSUME UNCHANGED Caller, pc \notin {"idle", "emit"}, pc' \notin {"idle", "emit"}
  PROVE  UNCHANGED Recompute!vars
  BY DEF Caller, Recompute!vars

LEMMA FailStep ==
  ASSUME UNCHANGED Caller, pc # "idle", pc' = "idle", outcome' # "ok"
  PROVE  Recompute!Fail
  BY DEF Caller, Recompute!Fail

LEMMA AskStep ==
  ASSUME UNCHANGED Caller, pc \notin {"idle", "emit"}, pc' = "emit", ExactInv',
         Len(token_ids) < max_new_tokens
  PROVE  Recompute!Ask
  <1>1. AskedHistory(Head(pending').ctx) = prompt \o token_ids
    <2>1. (ExactInv => (pc = "emit" => AskedHistory(Head(pending).ctx)
                                         = prompt \o token_ids))'
      BY EmitAsksHistory, PTL
    <2> QED BY <2>1 DEF Caller
  <1> QED BY <1>1 DEF Caller, Recompute!Ask

LEMMA CallStep ==
  ASSUME NEW p \in Prompts, NEW m \in 0 .. MaxNew, NEW s \in Sampling,
         generate(p, m, s)
  PROVE  Recompute!Call
  <1>1. /\ pc = "idle" /\ token_ids' = << >> /\ max_new_tokens' = m
        /\ outcome' = Verdict(p, m, s)
        /\ pc' = IF Verdict(p, m, s) = "ok" THEN "prefill" ELSE "idle"
    BY DEF generate
  <1>2. Verdict(p, m, s) = "ok" => m > 0
    <2>1. m \in Nat
      BY GenerationAssumption
    <2> QED BY <2>1 DEF Verdict
  <1>3. CASE Verdict(p, m, s) = "ok"
    BY <1>1, <1>2, <1>3 DEF Recompute!Call
  <1>4. CASE Verdict(p, m, s) # "ok"
    BY <1>1, <1>4 DEF Recompute!Call
  <1> QED BY <1>3, <1>4

LEMMA SampleStep ==
  ASSUME ExactInv, ExactInv', NEW t \in Token, prefill_sample(t)
  PROVE  Recompute!Next
  <1>1. UNCHANGED Caller /\ pc = "chunk"
    BY DEF prefill_sample, reqVars, resVars, Caller
  <1>2. CASE Stop = {}
    <2>1. pc' = "idle" /\ outcome' = "missing_eos_token"
      BY <1>2 DEF prefill_sample
    <2> QED BY <1>1, <2>1, FailStep DEF Recompute!Next
  <1>3. CASE Stop # {}
    <2>1. pc' = "emit"
      BY <1>3 DEF prefill_sample
    <2>2. Len(token_ids) < max_new_tokens
      <3>1. token_ids = << >> /\ max_new_tokens > 0
        BY <1>1 DEF ExactInv, GenInv, Accounting, Admitted
      <3> QED BY <3>1
    <2> QED BY <1>1, <2>1, <2>2, AskStep DEF Recompute!Next
  <1> QED BY <1>2, <1>3

LEMMA DecodeStep ==
  ASSUME ExactInv, ExactInv', NEW t \in Token, decode_step(t)
  PROVE  Recompute!Next
  <1>1. UNCHANGED Caller /\ pc = "loop" /\ Remaining > 0 /\ seqLen < MaxSeqLen
    BY DEF decode_step, LoopBody, reqVars, resVars, Caller
  <1>2. Len(token_ids) < max_new_tokens /\ advance_ok(1)
    BY <1>1, Numbers DEF ExactInv, GenInv, Remaining, advance_ok
  <1>3. pc' = "emit"
    BY <1>2 DEF decode_step
  <1> QED BY <1>1, <1>2, <1>3, AskStep DEF Recompute!Next

\* A token ends a call of generate with "stop", or the loop goes on.
LEMMA ProcessStep ==
  ASSUME ExactInv, NEW halt \in BOOLEAN, process_token(halt)
  PROVE  Recompute!Next
  <1> DEFINE t == Head(pending).tok
  <1>1. /\ pc = "emit" /\ Len(pending) = 1 /\ ~speculated /\ outcome = "ok"
        /\ pending # << >>
    BY DEF process_token, ExactInv, CacheExact, GenInv, Accounting, Admitted
  <1>2. t \in Token
    <2>1. Head(pending) \in [tok : Token, ctx : ContextType]
      BY <1>1, HeadTail DEF ExactInv, GenInv, TypeOK
    <2> QED BY <2>1
  <1>3. outcome' = outcome /\ UNCHANGED <<prompt, max_new_tokens>>
    BY DEF process_token, reqVars
  <1>4. /\ t \in Stop => token_ids' = token_ids
        /\ t \notin Stop => token_ids' = Append(token_ids, t)
        /\ t \in Stop \/ halt => finish_reason' = "stop" /\ pc' = "idle"
        /\ ~(t \in Stop \/ halt) => pc' = "loop"
    BY <1>1 DEF process_token
  <1> HIDE DEF t
  <1>5. CASE t \in Stop
    BY <1>1, <1>3, <1>4, <1>5 DEF Recompute!Next, Recompute!StopToken
  <1>6. CASE t \notin Stop /\ halt
    BY <1>1, <1>2, <1>3, <1>4, <1>6 DEF Recompute!Next, Recompute!Emit
  <1>7. CASE t \notin Stop /\ ~halt
    BY <1>1, <1>2, <1>3, <1>4, <1>7 DEF Recompute!Next, Recompute!Emit
  <1> QED BY <1>5, <1>6, <1>7

LEMMA ExitStep ==
  ASSUME ExactInv, ExactInv', loop_exit
  PROVE  Recompute!Next
  <1>1. /\ pc = "loop" /\ pc' = "idle"
        /\ UNCHANGED <<prompt, max_new_tokens, token_ids, finish_reason, outcome>>
    BY DEF loop_exit, genVars, reqVars, resVars
  <1>2. outcome = "ok" /\ finish_reason = "length"
    BY <1>1 DEF ExactInv, GenInv, Accounting, Admitted
  <1>3. Len(token_ids) = max_new_tokens
    BY <1>1, <1>2 DEF ExactInv, GenInv, LengthMeansBudgetSpent
  <1> QED BY <1>1, <1>2, <1>3 DEF Recompute!Next, Recompute!BudgetSpent

LEMMA PrefillStep ==
  ASSUME prefill_prompt
  PROVE  Recompute!Next \/ UNCHANGED Recompute!vars
  <1>1. UNCHANGED Caller /\ pc = "prefill"
    BY DEF prefill_prompt, reqVars, resVars, Caller
  <1>2. \/ pc' \in {"catch", "chunk"}
        \/ pc' = "idle" /\ outcome' = "prefill_failed"
    BY DEF prefill_prompt, throw
  <1>3. CASE pc' \in {"catch", "chunk"}
    BY <1>1, <1>3, QuietStep
  <1>4. CASE pc' = "idle" /\ outcome' = "prefill_failed"
    BY <1>1, <1>4, FailStep DEF Recompute!Next
  <1> QED BY <1>2, <1>3, <1>4

LEMMA CatchStep ==
  ASSUME ExactInv, catch_reset \/ catch_reset_throws
  PROVE  Recompute!Next
  <1>1. UNCHANGED Caller /\ pc = "catch" /\ pc' = "idle"
    BY DEF catch_reset, catch_reset_throws, reqVars, resVars, Caller
  <1>2. outcome' # "ok"
    BY <1>1 DEF catch_reset, catch_reset_throws, ExactInv, GenInv, Accounting
  <1> QED BY <1>1, <1>2, FailStep DEF Recompute!Next

LEMMA ResetStep ==
  ASSUME Engine_reset
  PROVE  UNCHANGED Recompute!vars
  BY DEF Engine_reset, reqVars, resVars, outVars, Recompute!vars

LEMMA RefineNext ==
  DraftN = 0 => (ExactInv /\ ExactInv' /\ [Next]_vars
                   => [Recompute!Next]_(Recompute!vars))
  <1> SUFFICES ASSUME DraftN = 0, ExactInv, ExactInv', [Next]_vars
               PROVE  Recompute!Next \/ UNCHANGED Recompute!vars
    OBVIOUS
  <1>1. ASSUME NEW p \in Prompts, NEW m \in 0 .. MaxNew, NEW s \in Sampling,
               generate(p, m, s)
        PROVE  Recompute!Next
    BY <1>1, CallStep DEF Recompute!Next
  <1>2. CASE prefill_prompt
    BY <1>2, PrefillStep
  <1>3. CASE forward_chunk \/ device_throws
    <2>1. UNCHANGED Caller
      BY <1>3 DEF forward_chunk, device_throws, reqVars, resVars, Caller
    <2>2. pc \notin {"idle", "emit"} /\ pc' \notin {"idle", "emit"}
      BY <1>3 DEF forward_chunk, device_throws, throw
    <2> QED BY <2>1, <2>2, QuietStep
  <1>4. ASSUME NEW t \in Token, prefill_sample(t) PROVE Recompute!Next
    BY <1>4, SampleStep
  <1>5. CASE loop_exit
    BY <1>5, ExitStep
  <1>6. ASSUME NEW t \in Token, decode_step(t) PROVE Recompute!Next
    BY <1>6, DecodeStep
  <1>7. ASSUME NEW halt \in BOOLEAN, process_token(halt) PROVE Recompute!Next
    BY <1>7, ProcessStep
  <1>8. /\ ~start_draft /\ ~forward_verify_throws
        /\ \A t \in Token : ~draft_decode_step(t)
        /\ \A a \in 0 .. DraftN, t \in Token : ~forward_verify(a, t)
    BY DEF start_draft, UseSpeculative, ExactInv, CacheExact, DraftDone,
       draft_decode_step, forward_verify, forward_verify_throws
  <1>9. CASE catch_reset \/ catch_reset_throws
    BY <1>9, CatchStep
  <1>10. CASE Engine_reset
    BY <1>10, ResetStep
  <1>11. CASE UNCHANGED vars
    BY <1>11 DEF vars, genVars, reqVars, resVars, outVars, Recompute!vars
  <1> QED
    BY <1>1, <1>2, <1>3, <1>4, <1>5, <1>6, <1>7, <1>8, <1>9, <1>10, <1>11
       DEF Next, Step

\* Without speculation generate behaves as if the model were run on the whole
\* history before every token: chunked prefill, the KV cache, the recurrent
\* states, graph replay, failures and earlier calls are invisible, for every
\* chunk size, arena size and sequence limit.
THEOREM GenerateRefinesRecompute == DraftN = 0 => (Spec => ImplementsRecompute)
  <1> SUFFICES ASSUME DraftN = 0 PROVE Spec => ImplementsRecompute
    OBVIOUS
  <1>1. Init => Recompute!Init
    BY DEF Init, GenInit, Recompute!Init
  <1>2. ExactInv /\ [Next]_vars => ExactInv'
    BY ExactNext
  <1>3. ExactInv /\ ExactInv' /\ [Next]_vars => [Recompute!Next]_(Recompute!vars)
    BY RefineNext
  <1> QED BY <1>1, <1>2, <1>3, ExactInit, PTL DEF Spec, ImplementsRecompute, Recompute!Spec
=============================================================================
