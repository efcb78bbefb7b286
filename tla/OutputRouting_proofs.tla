------------------------- MODULE OutputRouting_proofs -------------------------
(***************************************************************************)
(* Type correctness of the output routing; that no closing think tag is    *)
(* left in the text; that the stream carries every piece; and that a       *)
(* completion is split at its tags, for completions of every length.       *)
(***************************************************************************)
EXTENDS OutputRouting, WellFoundedInduction, FiniteSetTheorems, TLAPS

\* A non-empty set of natural numbers has a least element.
LEMMA LeastElement ==
  ASSUME NEW S \in SUBSET Nat, S # {}
  PROVE  \E n \in S : \A m \in S : n <= m
  <1> DEFINE R == {ss \in Nat \X Nat : ss[1] < ss[2]}
  <1>1. IsWellFoundedOn(R, Nat)
    BY NatLessThanWellFounded, Zenon DEF OpToRel
  <1>2. \E x \in S : \A y \in S : ~(<<y, x>> \in R)
    <2> HIDE DEF R
    <2> QED BY <1>1, WFMin, Zenon
  <1>3. PICK x \in S : \A y \in S : ~(<<y, x>> \in R)
    BY <1>2
  <1>4. ASSUME NEW m \in S PROVE x <= m
    <2>1. x \in Nat /\ m \in Nat
      OBVIOUS
    <2>2. ~(<<m, x>> \in R)
      BY <1>3
    <2>3. ~(m < x)
      BY <2>1, <2>2
    <2> QED BY <2>1, <2>3
  <1> QED BY <1>4

LEMMA SubSeqPieces ==
  ASSUME NEW s \in Seq(Piece), NEW m \in Int, NEW n \in Int,
         1 <= m, n <= Len(s)
  PROVE  SubSeq(s, m, n) \in Seq(Piece)
  OBVIOUS

\* std::string::find returns a position of the string that holds the tag.
LEMMA FindFacts ==
  ASSUME NEW s \in Seq(Piece), NEW tag, Has(s, tag)
  PROVE  /\ Find(s, tag) \in 1 .. Len(s) - 1
         /\ IsAt(s, tag, Find(s, tag))
  <1> DEFINE S == {k \in 1 .. Len(s) : IsAt(s, tag, k)}
  <1>1. S \in SUBSET Nat /\ S # {}
    BY DEF Has
  <1>2. PICK i \in S : \A m \in S : i <= m
    BY <1>1, LeastElement
  <1>3. ASSUME NEW j \in 1 .. i - 1
        PROVE  ~IsAt(s, tag, j)
    <2>1. i \in 1 .. Len(s) /\ j \in 1 .. Len(s) /\ ~(i <= j)
      BY <1>2
    <2> QED BY <1>2, <2>1
  <1>4. \E k \in 1 .. Len(s) : IsAt(s, tag, k) /\ \A j \in 1 .. k - 1 : ~IsAt(s, tag, j)
    BY <1>2, <1>3
  <1>5. IsAt(s, tag, Find(s, tag))
    BY <1>4 DEF Find
  <1> QED BY <1>5 DEF IsAt

LEMMA FirstTextFacts ==
  ASSUME NEW s \in Seq(Piece), \E i \in 1 .. Len(s) : s[i] # Break
  PROVE  FirstText(s) \in 1 .. Len(s)
  <1> DEFINE S == {k \in 1 .. Len(s) : s[k] # Break}
  <1>1. S \in SUBSET Nat /\ S # {}
    OBVIOUS
  <1>2. PICK i \in S : \A m \in S : i <= m
    BY <1>1, LeastElement
  <1>3. ASSUME NEW j \in 1 .. i - 1
        PROVE  s[j] = Break
    <2>1. i \in 1 .. Len(s) /\ j \in 1 .. Len(s) /\ ~(i <= j)
      BY <1>2
    <2> QED BY <1>2, <2>1
  <1>4. \E k \in 1 .. Len(s) : s[k] # Break /\ \A j \in 1 .. k - 1 : s[j] = Break
    BY <1>2, <1>3
  <1> QED BY <1>4 DEF FirstText

LEMMA ErasePieces ==
  ASSUME NEW s \in Seq(Piece), NEW i \in 1 .. Len(s), NEW j \in 1 .. Len(s)
  PROVE  Erase(s, i, j) \in Seq(Piece)
  <1>1. SubSeq(s, 1, i - 1) \in Seq(Piece)
    BY SubSeqPieces
  <1>2. SubSeq(s, j + 1, Len(s)) \in Seq(Piece)
    BY SubSeqPieces
  <1> QED BY <1>1, <1>2 DEF Erase

LEMMA TrimPieces ==
  ASSUME NEW s \in Seq(Piece)
  PROVE  TrimBreaks(s) \in Seq(Piece)
  <1>1. CASE \E i \in 1 .. Len(s) : s[i] # Break
    <2>1. FirstText(s) \in 1 .. Len(s)
      BY <1>1, FirstTextFacts
    <2>2. SubSeq(s, FirstText(s), Len(s)) \in Seq(Piece)
      BY <2>1, SubSeqPieces
    <2> QED BY <1>1, <2>2 DEF TrimBreaks
  <1>2. CASE ~\E i \in 1 .. Len(s) : s[i] # Break
    BY <1>2 DEF TrimBreaks
  <1> QED BY <1>1, <1>2

\* Trimming cannot bring two halves of a tag together.
LEMMA TrimKeepsOut ==
  ASSUME NEW s \in Seq(Piece), NEW tag, ~Has(s, tag)
  PROVE  ~Has(TrimBreaks(s), tag)
  <1>1. CASE \E i \in 1 .. Len(s) : s[i] # Break
    <2> DEFINE f == FirstText(s)
               u == SubSeq(s, f, Len(s))
    <2>1. f \in 1 .. Len(s)
      BY <1>1, FirstTextFacts
    <2> HIDE DEF f
    <2>2. Len(u) = Len(s) - f + 1 /\ \A i \in 1 .. Len(u) : u[i] = s[f + i - 1]
      BY <2>1
    <2>3. ASSUME NEW i \in 1 .. Len(u), IsAt(u, tag, i)
          PROVE  FALSE
      <3>1. i \in 1 .. Len(u) - 1 /\ u[i] = tag[1] /\ u[i + 1] = tag[2]
        BY <2>3 DEF IsAt
      <3>2. /\ f + i - 1 \in 1 .. Len(s) - 1 /\ f + i - 1 \in 1 .. Len(s)
            /\ s[f + i - 1] = tag[1] /\ s[(f + i - 1) + 1] = tag[2]
        <4> HIDE DEF u
        <4> QED BY <2>1, <2>2, <3>1
      <3>3. IsAt(s, tag, f + i - 1)
        BY <3>2 DEF IsAt
      <3> QED BY <3>2, <3>3 DEF Has
    <2>4. ~Has(u, tag)
      BY <2>3 DEF Has
    <2> QED BY <1>1, <2>4 DEF TrimBreaks, f
  <1>2. CASE ~\E i \in 1 .. Len(s) : s[i] # Break
    <2>1. TrimBreaks(s) = << >>
      BY <1>2 DEF TrimBreaks
    <2> QED BY <2>1 DEF Has, IsAt
  <1> QED BY <1>1, <1>2

-----------------------------------------------------------------------------
\* Until a token is processed there is no text, which the early returns of
\* generate rely on when they skip the post-processing.
NothingYet == phase = "tokens" /\ tokens = << >> => text = << >>

RoutingInv == TypeOK /\ NothingYet /\ NoCloseTagLeaks

LEMMA InitRouting == Init => RoutingInv
  <1> SUFFICES ASSUME Init PROVE RoutingInv
    OBVIOUS
  <1>1. << >> \in Seq(Piece \cup Tag) /\ << >> \in Seq(Piece) /\ << >> \in Seq(Chunk)
    OBVIOUS
  <1>2. TypeOK
    BY <1>1, Zenon DEF Init, TypeOK
  <1>3. NothingYet /\ NoCloseTagLeaks
    BY DEF Init, NothingYet, NoCloseTagLeaks
  <1> QED BY <1>2, <1>3 DEF RoutingInv

LEMMA TokenRouting ==
  ASSUME RoutingInv, NEW tok \in Piece \cup Tag, NEW ok \in BOOLEAN,
         process_token(tok, ok)
  PROVE  RoutingInv'
  <1> USE DEF RoutingInv
  <1>1. /\ phase = "tokens" /\ streaming' = streaming
        /\ tokens' = Append(tokens, tok) /\ halted' = ~ok
        /\ tokens \in Seq(Piece \cup Tag)
    BY DEF process_token, TypeOK
  <1>2. tokens' \in Seq(Piece \cup Tag) /\ tokens' # << >>
    BY <1>1
  <1>3. phase' \in {"tokens", "extract", "done"}
          /\ (phase' = "done" => tokens = << >> /\ ~ok)
    BY DEF process_token
  <1>4. in_thinking' \in BOOLEAN
    BY DEF process_token, TypeOK
  <1>5. text' \in Seq(Piece) /\ reasoning_content' \in Seq(Piece)
          /\ (text' = text \/ text' = Append(text, tok))
    <2>1. text \in Seq(Piece) /\ reasoning_content \in Seq(Piece)
      BY DEF TypeOK
    <2>2. tok \in Piece => /\ Append(text, tok) \in Seq(Piece)
                           /\ Append(reasoning_content, tok) \in Seq(Piece)
      BY <2>1
    <2>3. CASE IsTag(tok)
      BY <2>1, <2>3, Zenon DEF process_token
    <2>4. CASE ~IsTag(tok)
      <3>1. tok \in Piece
        BY <2>4 DEF IsTag
      <3>2. /\ text' = IF in_thinking THEN text ELSE Append(text, tok)
            /\ reasoning_content' = IF in_thinking
                                      THEN Append(reasoning_content, tok)
                                      ELSE reasoning_content
        BY <2>4, Zenon DEF process_token
      <3> QED BY <2>1, <2>2, <3>1, <3>2, Zenon
    <2> QED BY <2>3, <2>4
  <1>6. stream_in_thinking' \in BOOLEAN /\ sent' \in Seq(Chunk)
    <2>1. CASE ~IsTag(tok) /\ streaming /\ ok
      <3>1. token_callback(tok) /\ tok \in Piece
        BY <2>1 DEF process_token, IsTag
      <3>2. [field |-> IF stream_in_thinking THEN "reasoning_content"
                                             ELSE "content",
             piece |-> tok] \in Chunk
        BY <3>1 DEF Chunk
      <3>3. sent \in Seq(Chunk) /\ stream_in_thinking \in BOOLEAN
        BY DEF TypeOK
      <3>4. /\ stream_in_thinking' = stream_in_thinking
            /\ sent' = Append(sent,
                              [field |-> IF stream_in_thinking
                                           THEN "reasoning_content"
                                           ELSE "content",
                               piece |-> tok])
        BY <2>1, <3>1, Zenon DEF token_callback, IsTag
      <3> QED BY <3>2, <3>3, <3>4
    <2>2. CASE ~(~IsTag(tok) /\ streaming /\ ok)
      BY <2>2 DEF process_token, TypeOK
    <2> QED BY <2>1, <2>2
  <1>7. TypeOK'
    BY <1>1, <1>2, <1>3, <1>4, <1>5, <1>6 DEF TypeOK
  <1>8. NothingYet'
    BY <1>2 DEF NothingYet
  <1>9. NoCloseTagLeaks'
    <2>1. SUFFICES ASSUME phase' = "done" PROVE ~Has(text', CloseTag)
      BY DEF NoCloseTagLeaks
    <2>2. text = << >>
      BY <1>1, <1>3, <2>1 DEF NothingYet
    <2>3. Len(text') <= 1 /\ Len(text') \in Nat
      <3>1. << >> \in Seq(Piece \cup Tag) /\ Len(<< >>) = 0
        OBVIOUS
      <3>2. Len(Append(<< >>, tok)) = 1
        BY <3>1
      <3>3. text' = << >> \/ text' = Append(<< >>, tok)
        BY <1>5, <2>2
      <3>4. Len(text') = 0 \/ Len(text') = 1
        BY <3>1, <3>2, <3>3, Zenon
      <3>5. \A n : n = 0 \/ n = 1 => n <= 1 /\ n \in Nat
        OBVIOUS
      <3> QED BY <3>4, <3>5, Zenon
    <2> QED BY <2>3 DEF Has, IsAt
  <1> QED BY <1>7, <1>8, <1>9

LEMMA ExtractRouting ==
  ASSUME RoutingInv, extract_block
  PROVE  RoutingInv'
  <1> USE DEF RoutingInv
  <1> DEFINE s == Find(text, OpenTag)
             e == Find(text, CloseTag)
             closed == Has(text, CloseTag) /\ e >= s
             block == IF closed THEN SubSeq(text, s + 2, e - 1)
                                ELSE SubSeq(text, s + 2, Len(text))
  <1>1. /\ phase' = "stray"
        /\ UNCHANGED <<streaming, halted, tokens, in_thinking,
                       stream_in_thinking, sent>>
        /\ text \in Seq(Piece) /\ reasoning_content \in Seq(Piece)
    BY DEF extract_block, TypeOK
  <1>2. text' \in Seq(Piece) /\ reasoning_content' \in Seq(Piece)
    <2>1. CASE ~Has(text, OpenTag)
      BY <1>1, <2>1 DEF extract_block
    <2>2. CASE Has(text, OpenTag)
      <3>1. s \in 1 .. Len(text) - 1
        BY <1>1, <2>2, FindFacts
      <3>2. Has(text, CloseTag) => e \in 1 .. Len(text) - 1
        BY <1>1, FindFacts
      <3>3. /\ reasoning_content' = IF reasoning_content = << >>
                                      THEN block ELSE reasoning_content
            /\ text' = IF closed THEN Erase(text, s, e + 1) ELSE UnclosedText(s)
        BY <2>2 DEF extract_block
      <3> HIDE DEF s, e
      <3>4. block \in Seq(Piece)
        <4>1. closed => SubSeq(text, s + 2, e - 1) \in Seq(Piece)
          BY <1>1, <3>1, <3>2, SubSeqPieces
        <4>2. SubSeq(text, s + 2, Len(text)) \in Seq(Piece)
          BY <1>1, <3>1, SubSeqPieces
        <4> QED BY <4>1, <4>2
      <3>5. closed => Erase(text, s, e + 1) \in Seq(Piece)
        <4>1. closed => s \in 1 .. Len(text) /\ e + 1 \in 1 .. Len(text)
          BY <1>1, <3>1, <3>2
        <4> HIDE DEF closed
        <4> QED BY <1>1, <4>1, ErasePieces
      <3>6. UnclosedText(s) \in Seq(Piece)
        BY <1>1, <3>1, SubSeqPieces DEF UnclosedText
      <3> HIDE DEF block, closed
      <3> QED BY <1>1, <3>3, <3>4, <3>5, <3>6
    <2> QED BY <2>1, <2>2
  <1> QED BY <1>1, <1>2 DEF TypeOK, NothingYet, NoCloseTagLeaks

LEMMA StrayRouting ==
  ASSUME RoutingInv, strip_stray
  PROVE  RoutingInv' /\ Len(text') = Len(text) - 2
  <1> USE DEF RoutingInv
  <1> DEFINE e == Find(text, CloseTag)
  <1>1. /\ phase = "stray" /\ Has(text, CloseTag) /\ text' = Erase(text, e, e + 1)
        /\ UNCHANGED <<phase, streaming, halted, tokens, in_thinking,
                       reasoning_content, stream_in_thinking, sent>>
        /\ text \in Seq(Piece)
    BY DEF strip_stray, TypeOK
  <1>2. e \in 1 .. Len(text) - 1
    BY <1>1, FindFacts
  <1> HIDE DEF e
  <1>3. text' \in Seq(Piece)
    BY <1>1, <1>2, ErasePieces
  <1>4. Len(text') = Len(text) - 2
    <2>1. /\ SubSeq(text, 1, e - 1) \in Seq(Piece)
          /\ SubSeq(text, e + 2, Len(text)) \in Seq(Piece)
      BY <1>1, <1>2, SubSeqPieces
    <2>2. Len(SubSeq(text, 1, e - 1)) = e - 1
      BY <1>1, <1>2
    <2>3. Len(SubSeq(text, e + 2, Len(text))) = Len(text) - e - 1
      BY <1>1, <1>2
    <2>4. text' = SubSeq(text, 1, e - 1) \o SubSeq(text, e + 2, Len(text))
      <3>1. (e + 1) + 1 = e + 2
        BY <1>2
      <3>2. text' = SubSeq(text, 1, e - 1) \o SubSeq(text, (e + 1) + 1, Len(text))
        BY <1>1, Zenon DEF Erase
      <3> QED BY <3>1, <3>2
    <2>5. Len(text') = (e - 1) + (Len(text) - e - 1)
      BY <2>1, <2>2, <2>3, <2>4
    <2> QED BY <1>1, <1>2, <2>5
  <1>5. RoutingInv'
    BY <1>1, <1>3 DEF TypeOK, NothingYet, NoCloseTagLeaks
  <1> QED BY <1>4, <1>5

LEMMA TrimRouting ==
  ASSUME RoutingInv, trim_text
  PROVE  RoutingInv'
  <1> USE DEF RoutingInv
  <1>1. /\ phase' = "done" /\ ~Has(text, CloseTag) /\ text \in Seq(Piece)
        /\ UNCHANGED <<streaming, halted, tokens, in_thinking,
                       reasoning_content, stream_in_thinking, sent>>
        /\ text' = text \/ text' = TrimBreaks(text)
    BY DEF trim_text, TypeOK
  <1>2. text' \in Seq(Piece)
    BY <1>1, TrimPieces
  <1>3. ~Has(text', CloseTag)
    BY <1>1, TrimKeepsOut
  <1> QED BY <1>1, <1>2, <1>3 DEF TypeOK, NothingYet, NoCloseTagLeaks

LEMMA FinishRouting ==
  ASSUME RoutingInv, finish
  PROVE  RoutingInv'
  <1> USE DEF RoutingInv
  <1>1. /\ UNCHANGED <<streaming, halted, tokens, in_thinking, text,
                       reasoning_content, stream_in_thinking, sent>>
        /\ phase' \in {"extract", "done"}
        /\ phase' = "done" => text = << >>
    BY DEF finish, NothingYet
  <1>2. ~Has(<< >>, CloseTag)
    BY DEF Has, IsAt
  <1> QED BY <1>1, <1>2 DEF TypeOK, NothingYet, NoCloseTagLeaks

LEMMA ThrowRouting ==
  ASSUME RoutingInv, generate_throws
  PROVE  RoutingInv'
  <1> USE DEF RoutingInv
  <1>1. /\ UNCHANGED <<streaming, halted, tokens, in_thinking, text,
                       reasoning_content, stream_in_thinking, sent>>
        /\ phase' = "failed"
    BY DEF generate_throws
  <1> QED BY <1>1 DEF TypeOK, NothingYet, NoCloseTagLeaks

LEMMA NextRouting == RoutingInv /\ [Next]_vars => RoutingInv'
  <1> SUFFICES ASSUME RoutingInv, [Next]_vars PROVE RoutingInv'
    OBVIOUS
  <1>1. CASE UNCHANGED vars
    BY <1>1 DEF vars, RoutingInv, TypeOK, NothingYet, NoCloseTagLeaks
  <1>2. CASE Next
    BY <1>2, TokenRouting, FinishRouting, ThrowRouting, ExtractRouting, StrayRouting,
       TrimRouting DEF Next, Post
  <1> QED BY <1>1, <1>2

-----------------------------------------------------------------------------
\* The routing state of generate and of the SSE callback keeps its types: in
\* particular neither think token ever enters the text, the reasoning or a
\* chunk of the stream.
THEOREM RoutingTypeCorrect == Spec => []TypeOK
  <1>1. RoutingInv => TypeOK
    BY DEF RoutingInv
  <1> QED BY <1>1, InitRouting, NextRouting, PTL DEF Spec

\* However long the completion and however its halves nest, generate's loop
\* over stray tags leaves no closing tag in the text.
THEOREM NoCloseTag == Spec => []NoCloseTagLeaks
  <1>1. RoutingInv => NoCloseTagLeaks
    BY DEF RoutingInv
  <1> QED BY <1>1, InitRouting, NextRouting, PTL DEF Spec

\* Every iteration of that loop shortens the text by one tag, so it runs at
\* most Len(text) \div 2 times (the bound PostProcessEnds rests on).
THEOREM StrayLoopShrinks ==
  Spec => [][strip_stray => Len(text') = Len(text) - 2]_vars
  <1>1. RoutingInv /\ [Next]_vars
          => [strip_stray => Len(text') = Len(text) - 2]_vars
    BY StrayRouting
  <1> QED BY <1>1, InitRouting, NextRouting, PTL DEF Spec

-----------------------------------------------------------------------------
(***************************************************************************)
(* The stream: chunk n carries the n-th token that is no tag.              *)
(***************************************************************************)
LEMMA OrdinaryFinite ==
  ASSUME NEW s, NEW k \in Nat
  PROVE  IsFiniteSet(Ordinary(s, k)) /\ Cardinality(Ordinary(s, k)) \in Nat
  <1>1. 1 \in Int /\ k \in Int
    OBVIOUS
  <1>2. IsFiniteSet(1 .. k)
    BY <1>1, FS_Interval
  <1>3. Ordinary(s, k) \subseteq 1 .. k
    BY DEF Ordinary
  <1>4. IsFiniteSet(Ordinary(s, k))
    BY <1>2, <1>3, FS_Subset
  <1> QED BY <1>4, FS_CardinalityType

LEMMA OrdinarySubset ==
  ASSUME NEW s, NEW k \in Nat, NEW i \in 1 .. k
  PROVE  Cardinality(Ordinary(s, i)) <= Cardinality(Ordinary(s, k))
  <1>1. Ordinary(s, i) \subseteq Ordinary(s, k)
    BY DEF Ordinary
  <1> QED BY <1>1, OrdinaryFinite, FS_Subset

\* What appending x to s, giving t, does to the ordinary positions.
Appends(s, x, t) ==
  /\ \A k \in 0 .. Len(s) : Ordinary(t, k) = Ordinary(s, k)
  /\ x \in Tag => Ordinary(t, Len(t)) = Ordinary(s, Len(s))
  /\ x \notin Tag =>
       /\ Ordinary(t, Len(t)) = Ordinary(s, Len(s)) \cup {Len(t)}
       /\ Cardinality(Ordinary(t, Len(t))) = Cardinality(Ordinary(s, Len(s))) + 1

LEMMA OrdinaryAppend ==
  ASSUME NEW S, NEW s \in Seq(S), NEW x \in S, NEW t, t = Append(s, x)
  PROVE  Appends(s, x, t)
  <1>1. /\ Len(s) \in Nat /\ Len(t) = Len(s) + 1 /\ t[Len(s) + 1] = x
        /\ \A i \in 1 .. Len(s) : t[i] = s[i]
    OBVIOUS
  <1>2. \A k \in 0 .. Len(s) : Ordinary(t, k) = Ordinary(s, k)
    BY <1>1 DEF Ordinary
  <1>3. x \in Tag => Ordinary(t, Len(t)) = Ordinary(s, Len(s))
    BY <1>1 DEF Ordinary
  <1>4. ASSUME x \notin Tag
        PROVE  Ordinary(t, Len(t)) = Ordinary(s, Len(s)) \cup {Len(t)}
    BY <1>1, <1>4 DEF Ordinary
  <1>5. Len(t) \notin Ordinary(s, Len(s))
    BY <1>1 DEF Ordinary
  <1>6. Cardinality(Ordinary(s, Len(s)) \cup {Len(t)}) = Cardinality(Ordinary(s, Len(s))) + 1
    BY <1>1, <1>5, OrdinaryFinite, FS_AddElement
  <1> QED BY <1>2, <1>3, <1>4, <1>6 DEF Appends

\* A send that fails ends the tokens, so every token before it was delivered.
StreamInv == RoutingInv /\ (phase = "tokens" => ~halted) /\ StreamCarriesEveryPiece

LEMMA TokenStream ==
  ASSUME StreamInv, NEW tok \in Piece \cup Tag, NEW ok \in BOOLEAN,
         process_token(tok, ok)
  PROVE  (phase' = "tokens" => ~halted') /\ StreamCarriesEveryPiece'
  <1> DEFINE T == Append(tokens, tok)
             L == Len(tokens)
  <1>1. /\ phase = "tokens" /\ ~halted /\ streaming' = streaming
        /\ tokens' = T /\ halted' = ~ok /\ tokens \in Seq(Piece \cup Tag)
        /\ (~ok => ~IsTag(tok)) /\ (phase' = "tokens" => ok)
    BY DEF process_token, StreamInv, RoutingInv, TypeOK
  <1>2. L \in Nat /\ Len(T) = L + 1 /\ T[L + 1] = tok /\ \A i \in 1 .. L : T[i] = tokens[i]
    BY <1>1
  <1>3. Delivered = L
    BY <1>1, <1>2 DEF Delivered
  <1>4. /\ \A k \in 0 .. L : Ordinary(T, k) = Ordinary(tokens, k)
        /\ tok \in Tag => Ordinary(T, Len(T)) = Ordinary(tokens, L)
        /\ tok \notin Tag =>
             /\ Ordinary(T, Len(T)) = Ordinary(tokens, L) \cup {Len(T)}
             /\ Cardinality(Ordinary(T, Len(T))) = Cardinality(Ordinary(tokens, L)) + 1
    <2> DEFINE S == Piece \cup Tag
    <2>1. tokens \in Seq(S) /\ tok \in S /\ T = Append(tokens, tok)
      BY <1>1
    <2> HIDE DEF S, T
    <2>2. Appends(tokens, tok, T)
      BY <2>1, OrdinaryAppend
    <2> QED BY <2>2 DEF Appends
  <1>a. /\ ok => Delivered' = Len(tokens')
        /\ ~ok => Delivered' = Len(tokens') - 1
    <2>1. Delivered' = Len(tokens') - (IF halted' THEN 1 ELSE 0)
      BY Zenon DEF Delivered
    <2>2. /\ ok => (IF halted' THEN 1 ELSE 0) = 0
          /\ ~ok => (IF halted' THEN 1 ELSE 0) = 1
      BY <1>1, Zenon
    <2>3. Len(tokens') \in Nat
      BY <1>1, <1>2
    <2> HIDE DEF T
    <2>4. ASSUME ok PROVE Delivered' = Len(tokens')
      <3>1. Delivered' = Len(tokens') - 0
        BY <2>1, <2>2, <2>4, Zenon
      <3> QED BY <2>3, <3>1
    <2>5. ASSUME ~ok PROVE Delivered' = Len(tokens') - 1
      BY <2>1, <2>2, <2>5, Zenon
    <2> QED BY <2>4, <2>5
  <1> HIDE DEF T
  <1>5. SUFFICES ASSUME streaming
                 PROVE  /\ Len(sent') = Cardinality(Ordinary(T, Delivered'))
                        /\ \A i \in Ordinary(T, Delivered') :
                             sent'[Cardinality(Ordinary(T, i))].piece = T[i]
    BY <1>1 DEF StreamCarriesEveryPiece
  <1>6. /\ Len(sent) = Cardinality(Ordinary(tokens, L))
        /\ \A i \in Ordinary(tokens, L) :
             sent[Cardinality(Ordinary(tokens, i))].piece = tokens[i]
    BY <1>3, <1>5 DEF StreamInv, StreamCarriesEveryPiece
  <1>7. \A i \in Ordinary(tokens, L) :
          /\ i \in 1 .. L /\ Ordinary(T, i) = Ordinary(tokens, i) /\ T[i] = tokens[i]
    BY <1>2, <1>4 DEF Ordinary
  <1>8. CASE tok \in Tag \/ ~ok
    <2>1. sent' = sent
      BY <1>1, <1>8 DEF process_token, IsTag
    <2>2. Ordinary(T, Delivered') = Ordinary(tokens, L)
      <3>1. CASE tok \in Tag /\ ok
        BY <1>a, <1>1, <1>2, <1>4, <3>1
      <3>2. CASE ~ok
        <4>1. Delivered' = L
          BY <1>a, <1>1, <1>2, <3>2
        <4> QED BY <1>2, <1>4, <4>1
      <3> QED BY <1>8, <3>1, <3>2
    <2> QED BY <1>6, <1>7, <2>1, <2>2
  <1>9. CASE tok \notin Tag /\ ok
    <2> DEFINE x == [field |-> IF stream_in_thinking THEN "reasoning_content" ELSE "content",
                     piece |-> tok]
    <2>1. token_callback(tok)
      BY <1>5, <1>9 DEF process_token, IsTag
    <2>2. sent' = Append(sent, x)
      BY <1>9, <2>1, Zenon DEF token_callback
    <2>3. sent \in Seq(Chunk) /\ x \in Chunk /\ x.piece = tok
      <3>1. tok \in Piece
        BY <1>9
      <3> QED BY <3>1 DEF Chunk, StreamInv, RoutingInv, TypeOK
    <2> HIDE DEF x
    <2>4. /\ Len(sent') = Len(sent) + 1 /\ sent'[Len(sent) + 1] = x
          /\ \A n \in 1 .. Len(sent) : sent'[n] = sent[n]
      BY <2>2, <2>3
    <2>5. Delivered' = Len(T)
      BY <1>a, <1>1, <1>9
    <2>6. /\ Ordinary(T, Delivered') = Ordinary(tokens, L) \cup {Len(T)}
          /\ Cardinality(Ordinary(T, Len(T))) = Len(sent) + 1
      BY <1>4, <1>6, <1>9, <2>5
    <2>7. ASSUME NEW i \in Ordinary(tokens, L)
          PROVE  sent'[Cardinality(Ordinary(T, i))].piece = T[i]
      <3> DEFINE n == Cardinality(Ordinary(tokens, i))
      <3>1. i \in 1 .. L /\ i \in Ordinary(tokens, i) /\ i \in Nat
        BY <1>7, <1>2, <2>7 DEF Ordinary
      <3>2. n \in Nat /\ n <= Len(sent)
        BY <1>2, <1>6, <3>1, OrdinaryFinite, OrdinarySubset
      <3>3. n # 0
        BY <3>1, OrdinaryFinite, FS_EmptySet
      <3> HIDE DEF n
      <3>4. n \in 1 .. Len(sent)
        BY <2>3, <3>2, <3>3
      <3>5. sent'[n] = sent[n]
        BY <2>4, <3>4
      <3> QED BY <1>6, <1>7, <3>5 DEF n
    <2>8. sent'[Cardinality(Ordinary(T, Len(T)))].piece = T[Len(T)]
      BY <1>2, <2>3, <2>4, <2>6
    <2> QED BY <2>4, <2>5, <2>6, <2>7, <2>8
  <1>10. phase' = "tokens" => ~halted'
    BY <1>1
  <1> QED BY <1>8, <1>9, <1>10

\* Every chunk the SSE callback sends carries one piece, in the order the
\* pieces were sampled and none left out, for completions of every length
\* and wherever a send fails.
THEOREM StreamIsComplete == Spec => []StreamCarriesEveryPiece
  <1>1. Init => StreamInv
    <2> SUFFICES ASSUME Init PROVE StreamInv
      OBVIOUS
    <2>1. tokens = << >> /\ sent = << >> /\ ~halted
      BY DEF Init
    <2>2. Ordinary(tokens, Delivered) = {} /\ Len(sent) = 0
      BY <2>1 DEF Ordinary, Delivered
    <2>3. StreamCarriesEveryPiece
      BY <2>2, FS_EmptySet DEF StreamCarriesEveryPiece
    <2> QED BY <2>1, <2>3, InitRouting DEF StreamInv
  <1>2. StreamInv /\ [Next]_vars => StreamInv'
    <2> SUFFICES ASSUME StreamInv, [Next]_vars
                 PROVE  (phase' = "tokens" => ~halted') /\ StreamCarriesEveryPiece'
      BY NextRouting DEF StreamInv
    <2>1. ASSUME NEW tok \in Piece \cup Tag, NEW ok \in BOOLEAN, process_token(tok, ok)
          PROVE  (phase' = "tokens" => ~halted') /\ StreamCarriesEveryPiece'
      BY <2>1, TokenStream
    <2>2. CASE finish \/ generate_throws \/ Post \/ UNCHANGED vars
      <3>1. UNCHANGED <<streaming, halted, tokens, sent>>
        BY <2>2 DEF finish, generate_throws, Post, extract_block, strip_stray, trim_text, vars
      <3>2. phase' = "tokens" => phase = "tokens"
        BY <2>2 DEF finish, generate_throws, Post, extract_block, strip_stray, trim_text, vars
      <3>3. Delivered' = Delivered
        BY <3>1 DEF Delivered
      <3> QED BY <3>1, <3>2, <3>3 DEF StreamInv, StreamCarriesEveryPiece
    <2> QED BY <2>1, <2>2 DEF Next
  <1>3. StreamInv => StreamCarriesEveryPiece
    BY DEF StreamInv
  <1> QED BY <1>1, <1>2, <1>3, PTL DEF Spec

-----------------------------------------------------------------------------
(***************************************************************************)
(* Selecting the elements of a sequence at a set of positions, in order.   *)
(***************************************************************************)

\* The k-th position is there for every k, and no other has its rank.
Listed(P) == \A k \in 1 .. Cardinality(P) : \E i \in P : Rank(P, i) = k

LEMMA RankBound ==
  ASSUME NEW n \in Nat, NEW P, P \subseteq 1 .. n, NEW i
  PROVE  /\ IsFiniteSet(P) /\ Cardinality(P) \in Nat
         /\ Rank(P, i) \in Nat /\ Rank(P, i) <= Cardinality(P)
  <1>1. IsFiniteSet(1 .. n)
    BY FS_Interval
  <1>2. IsFiniteSet(P)
    BY <1>1, FS_Subset
  <1>3. {j \in P : j <= i} \subseteq P
    OBVIOUS
  <1> QED BY <1>2, <1>3, FS_Subset, FS_CardinalityType DEF Rank

\* A last position more: the ranks below it stay, and it has the highest.
RanksGrow(n, P, Q) ==
  /\ Cardinality(Q) = Cardinality(P) + 1
  /\ \A i \in P : Rank(Q, i) = Rank(P, i)
  /\ Rank(Q, n + 1) = Cardinality(Q)

LEMMA RankAdd ==
  ASSUME NEW n \in Nat, NEW P, P \subseteq 1 .. n, NEW Q, Q = P \cup {n + 1}
  PROVE  RanksGrow(n, P, Q)
  <1>1. n + 1 \notin P
    OBVIOUS
  <1>2. Cardinality(Q) = Cardinality(P) + 1
    BY <1>1, RankBound, FS_AddElement
  <1>3. ASSUME NEW i \in P PROVE Rank(Q, i) = Rank(P, i)
    <2>1. {j \in Q : j <= i} = {j \in P : j <= i}
      OBVIOUS
    <2> QED BY <2>1 DEF Rank
  <1>4. {j \in Q : j <= n + 1} = Q
    <2>1. \A j \in Q : j <= n + 1
      OBVIOUS
    <2> QED BY <2>1
  <1> QED BY <1>2, <1>3, <1>4 DEF Rank, RanksGrow

LEMMA ListedAdd ==
  ASSUME NEW n \in Nat, NEW P, P \subseteq 1 .. n, Listed(P)
  PROVE  Listed(P \cup {n + 1})
  <1> DEFINE Q == P \cup {n + 1}
  <1>1. /\ Cardinality(Q) = Cardinality(P) + 1
        /\ \A i \in P : Rank(Q, i) = Rank(P, i)
        /\ Rank(Q, n + 1) = Cardinality(Q)
    <2>1. RanksGrow(n, P, Q)
      BY RankAdd
    <2> QED BY <2>1, Zenon DEF RanksGrow
  <1>2. Cardinality(P) \in Nat
    BY RankBound
  <1>3. n + 1 \in Q /\ P \subseteq Q
    OBVIOUS
  <1> HIDE DEF Q
  <1>4. ASSUME NEW k \in 1 .. Cardinality(Q) PROVE \E i \in Q : Rank(Q, i) = k
    <2>1. CASE k = Cardinality(Q)
      BY <1>1, <1>3, <2>1
    <2>2. CASE k # Cardinality(Q)
      <3>1. k \in 1 .. Cardinality(P)
        BY <1>1, <1>2, <2>2
      <3>2. PICK i \in P : Rank(P, i) = k
        BY <3>1 DEF Listed
      <3> QED BY <1>1, <1>3, <3>2
    <2> QED BY <2>1, <2>2
  <1> QED BY <1>4 DEF Listed, Q

LEMMA EverySetListed ==
  ASSUME NEW n \in Nat, NEW P, P \subseteq 1 .. n
  PROVE  Listed(P)
  <1> DEFINE C(m) == P \cap (1 .. m)
             Bad == {m \in Nat : ~Listed(C(m))}
  <1>1. SUFFICES ASSUME Bad # {} PROVE FALSE
    <2>1. C(n) = P
      OBVIOUS
    <2> QED BY <1>1, <2>1
  <1>2. PICK m \in Bad : \A k \in Bad : m <= k
    <2>1. Bad \in SUBSET Nat
      OBVIOUS
    <2> HIDE DEF Bad
    <2> QED BY <1>1, <2>1, LeastElement
  <1>3. m \in Nat /\ ~Listed(C(m))
    OBVIOUS
  <1>4. m # 0
    <2>1. SUFFICES ASSUME m = 0 PROVE FALSE
      OBVIOUS
    <2>2. C(m) = {}
      BY <2>1
    <2> HIDE DEF C
    <2>3. Cardinality(C(m)) = 0
      BY <2>2, FS_EmptySet
    <2> QED BY <1>3, <2>3 DEF Listed
  <1>5. m - 1 \in Nat /\ Listed(C(m - 1))
    <2>1. m - 1 \in Nat /\ m - 1 \notin Bad
      BY <1>2, <1>3, <1>4
    <2> QED BY <2>1
  <1>6. CASE m \in P
    <2>1. C(m) = C(m - 1) \cup {(m - 1) + 1} /\ C(m - 1) \subseteq 1 .. (m - 1)
      BY <1>3, <1>4, <1>6
    <2> HIDE DEF C
    <2> QED BY <1>3, <1>5, <2>1, ListedAdd
  <1>7. CASE m \notin P
    <2>1. C(m) = C(m - 1)
      BY <1>3, <1>4, <1>7
    <2> HIDE DEF C
    <2> QED BY <1>3, <1>5, <2>1
  <1> QED BY <1>6, <1>7

\* The k-th position of P.
Nth(P, k) == CHOOSE i \in P : Rank(P, i) = k

LEMMA NthFacts ==
  ASSUME NEW n \in Nat, NEW P, P \subseteq 1 .. n, NEW k \in 1 .. Cardinality(P)
  PROVE  Nth(P, k) \in P /\ Rank(P, Nth(P, k)) = k
  <1>1. \E i \in P : Rank(P, i) = k
    BY EverySetListed DEF Listed
  <1> QED BY <1>1, Zenon DEF Nth

LEMMA SelectedIs ==
  ASSUME NEW s, NEW P
  PROVE  Selected(s, P) = [k \in 1 .. Cardinality(P) |-> s[Nth(P, k)]]
  BY DEF Selected, Nth

LEMMA SelectedType ==
  ASSUME NEW S, NEW s \in Seq(S), NEW P, P \subseteq 1 .. Len(s)
  PROVE  /\ Selected(s, P) \in Seq(S)
         /\ Len(Selected(s, P)) = Cardinality(P)
         /\ \A k \in 1 .. Cardinality(P) : Selected(s, P)[k] = s[Nth(P, k)]
  <1> DEFINE c == Cardinality(P)
  <1> DEFINE n == Len(s)
  <1>0. n \in Nat /\ \A i \in 1 .. n : s[i] \in S
    OBVIOUS
  <1> HIDE DEF n
  <1>1. P \subseteq 1 .. n /\ c \in Nat
    <2>1. P \subseteq 1 .. n
      BY DEF n
    <2> QED BY <1>0, <2>1, RankBound
  <1>2. \A k \in 1 .. c : Nth(P, k) \in P
    BY <1>0, <1>1, NthFacts
  <1>3. \A k \in 1 .. c : s[Nth(P, k)] \in S
    BY <1>0, <1>1, <1>2
  <1>4. Selected(s, P) = [k \in 1 .. c |-> s[Nth(P, k)]]
    BY SelectedIs
  <1> HIDE DEF c
  <1>5. Selected(s, P) \in Seq(S) /\ Len(Selected(s, P)) = c
    BY <1>1, <1>3, <1>4
  <1> QED BY <1>4, <1>5 DEF c

\* A token more, wanted or not.
SelectsNext(s, x, t, P) ==
  /\ Selected(t, P) = Selected(s, P)
  /\ Selected(t, P \cup {Len(s) + 1}) = Append(Selected(s, P), x)

LEMMA SelectedAppend ==
  ASSUME NEW S, NEW s \in Seq(S), NEW x \in S, NEW t, t = Append(s, x),
         NEW P, P \subseteq 1 .. Len(s)
  PROVE  SelectsNext(s, x, t, P)
  <1> DEFINE n == Len(s)
             Q == P \cup {n + 1}
             c == Cardinality(P)
  <1>1. n \in Nat /\ t \in Seq(S) /\ Len(t) = n + 1 /\ t[n + 1] = x /\ \A i \in 1 .. n : t[i] = s[i]
    OBVIOUS
  <1>2. c \in Nat /\ \A k \in 1 .. c : Nth(P, k) \in P
    BY <1>1, RankBound, NthFacts
  <1>3. P \subseteq 1 .. n /\ Q \subseteq 1 .. n + 1
    <2>1. P \subseteq 1 .. n
      OBVIOUS
    <2> HIDE DEF n
    <2> QED BY <1>1, <2>1
  <1>4. /\ Cardinality(Q) = c + 1
        /\ \A i \in P : Rank(Q, i) = Rank(P, i)
        /\ Rank(Q, n + 1) = Cardinality(Q)
    <2>1. RanksGrow(n, P, Q)
      BY <1>1, RankAdd
    <2> QED BY <2>1, Zenon DEF RanksGrow
  <1>5. \A k \in 1 .. c : t[Nth(P, k)] = s[Nth(P, k)]
    BY <1>1, <1>2
  <1>6. Selected(t, P) = Selected(s, P)
    BY <1>5, SelectedIs
  <1>7. ASSUME NEW k \in 1 .. c PROVE Nth(Q, k) = Nth(P, k)
    <2>1. \A i : (i \in Q /\ Rank(Q, i) = k) <=> (i \in P /\ Rank(P, i) = k)
      <3>1. k # Cardinality(Q)
        BY <1>2, <1>4
      <3> HIDE DEF c
      <3> QED BY <1>4, <3>1
    <2> QED BY <2>1, Zenon DEF Nth
  <1>8. Nth(Q, c + 1) = n + 1
    <2>1. c + 1 \in 1 .. Cardinality(Q) /\ n + 1 \in Nat /\ Q \subseteq 1 .. n + 1
      BY <1>1, <1>2, <1>3, <1>4
    <2>2. Nth(Q, c + 1) \in Q /\ Rank(Q, Nth(Q, c + 1)) = c + 1
      BY <2>1, NthFacts
    <2>3. \A i \in P : Rank(Q, i) # c + 1
      <3>1. \A i \in P : Rank(P, i) \in Nat /\ Rank(P, i) <= c
        BY <1>1, RankBound
      <3> HIDE DEF c, Q
      <3> QED BY <1>2, <1>4, <3>1
    <2> QED BY <2>2, <2>3
  <1> DEFINE u == Selected(s, P)
             v == Selected(t, Q)
  <1>9. /\ u \in Seq(S) /\ Len(u) = c /\ \A k \in 1 .. c : u[k] = s[Nth(P, k)]
        /\ v \in Seq(S) /\ Len(v) = c + 1 /\ \A k \in 1 .. c + 1 : v[k] = t[Nth(Q, k)]
    <2>1. Q \subseteq 1 .. Len(t)
      BY <1>1, <1>3
    <2>2. u \in Seq(S) /\ Len(u) = c /\ \A k \in 1 .. c : u[k] = s[Nth(P, k)]
      BY SelectedType, Zenon
    <2> HIDE DEF Q
    <2>3. /\ v \in Seq(S) /\ Len(v) = Cardinality(Q)
          /\ \A k \in 1 .. Cardinality(Q) : v[k] = t[Nth(Q, k)]
      BY <1>1, <2>1, SelectedType, Zenon
    <2> QED BY <1>4, <2>2, <2>3, Zenon
  <1>10. v = Append(u, x)
    <2> HIDE DEF Q, c, n, u, v
    <2>1. ASSUME NEW k \in 1 .. c PROVE v[k] = u[k]
      <3>1. k \in 1 .. c + 1
        BY <1>2
      <3>2. v[k] = t[Nth(Q, k)] /\ u[k] = s[Nth(P, k)]
        BY <1>9, <3>1
      <3> QED BY <1>5, <1>7, <3>2
    <2>2. v[c + 1] = x
      BY <1>1, <1>2, <1>8, <1>9
    <2> QED BY <1>2, <1>9, <2>1, <2>2
  <1> QED BY <1>6, <1>10 DEF SelectsNext

LEMMA CardOfRange ==
  ASSUME NEW a \in Int, NEW b \in Int, a <= b + 1
  PROVE  IsFiniteSet(a .. b) /\ Cardinality(a .. b) = b - a + 1
  <1>1. IsFiniteSet(a .. b) /\ Cardinality(a .. b) = IF a > b THEN 0 ELSE b - a + 1
    BY FS_Interval
  <1>2. CASE a > b
    BY <1>1, <1>2
  <1>3. CASE ~(a > b)
    BY <1>1, <1>3
  <1> QED BY <1>2, <1>3

\* Two ranges, of which the first or the second may be empty.
Apart(a, b, c, d) ==
  /\ a \in Nat /\ b \in Nat /\ c \in Nat /\ d \in Nat
  /\ 1 <= a /\ a <= b + 1 /\ b < c /\ c <= d + 1

LEMMA CardOfRanges ==
  ASSUME NEW a, NEW b, NEW c, NEW d, Apart(a, b, c, d)
  PROVE  Cardinality((a .. b) \cup (c .. d)) = (b - a + 1) + (d - c + 1)
  <1>1. /\ IsFiniteSet(a .. b) /\ Cardinality(a .. b) = b - a + 1
        /\ IsFiniteSet(c .. d) /\ Cardinality(c .. d) = d - c + 1
    <2>1. a \in Int /\ b \in Int /\ a <= b + 1 /\ c \in Int /\ d \in Int /\ c <= d + 1
      BY DEF Apart
    <2> QED BY <2>1, CardOfRange
  <1>2. (a .. b) \cap (c .. d) = {}
    BY DEF Apart
  <1>3. Cardinality((a .. b) \cup (c .. d)) = Cardinality(a .. b) + Cardinality(c .. d)
    <2>1. Cardinality((a .. b) \cup (c .. d))
            = Cardinality(a .. b) + Cardinality(c .. d) - Cardinality((a .. b) \cap (c .. d))
      BY <1>1, FS_Union, Zenon
    <2>2. Cardinality((a .. b) \cap (c .. d)) = 0
      BY <1>2, FS_EmptySet, Zenon
    <2>3. b - a + 1 \in Int /\ d - c + 1 \in Int
      BY DEF Apart
    <2> QED BY <1>1, <2>1, <2>2, <2>3
  <1> QED BY <1>1, <1>3

LEMMA RankInRanges ==
  ASSUME NEW a, NEW b, NEW c, NEW d, Apart(a, b, c, d), NEW W, W = (a .. b) \cup (c .. d)
  PROVE  /\ \A i \in a .. b : Rank(W, i) = i - a + 1
         /\ \A i \in c .. d : Rank(W, i) = (b - a + 1) + (i - c + 1)
  <1>1. ASSUME NEW i \in a .. b PROVE Rank(W, i) = i - a + 1
    <2>1. {j \in W : j <= i} = a .. i
      BY DEF Apart
    <2>2. a \in Int /\ i \in Int /\ a <= i + 1
      BY DEF Apart
    <2>3. Cardinality(a .. i) = i - a + 1
      BY <2>2, CardOfRange
    <2> QED BY <2>1, <2>3 DEF Rank
  <1>2. ASSUME NEW i \in c .. d PROVE Rank(W, i) = (b - a + 1) + (i - c + 1)
    <2>1. {j \in W : j <= i} = (a .. b) \cup (c .. i)
      BY DEF Apart
    <2>2. Apart(a, b, c, i)
      BY DEF Apart
    <2> QED BY <2>1, <2>2, CardOfRanges DEF Rank
  <1> QED BY <1>1, <1>2

TwoRanges(W, a, b, c, d, n) ==
  Apart(a, b, c, d) /\ W = (a .. b) \cup (c .. d) /\ d <= n

\* The elements in two ranges of positions are two substrings.
LEMMA SelectedRanges ==
  ASSUME NEW S, NEW s \in Seq(S), NEW W, NEW a, NEW b, NEW c, NEW d,
         TwoRanges(W, a, b, c, d, Len(s))
  PROVE  Selected(s, W) = SubSeq(s, a, b) \o SubSeq(s, c, d)
  <1> DEFINE n == Len(s)
             p == b - a + 1
             m == Cardinality(W)
             u == Selected(s, W)
             v == SubSeq(s, a, b) \o SubSeq(s, c, d)
             at(k) == IF k <= p THEN a + k - 1 ELSE c + (k - p) - 1
  <1>1. /\ a \in Nat /\ b \in Nat /\ c \in Nat /\ d \in Nat
        /\ 1 <= a /\ a <= b + 1 /\ b < c /\ c <= d + 1 /\ n \in Nat /\ d <= n
        /\ Apart(a, b, c, d) /\ W = (a .. b) \cup (c .. d)
    BY DEF Apart, TwoRanges
  <1>2. m = p + (d - c + 1)
    BY <1>1, CardOfRanges
  <1>3. /\ \A i \in a .. b : Rank(W, i) = i - a + 1
        /\ \A i \in c .. d : Rank(W, i) = p + (i - c + 1)
    BY <1>1, RankInRanges
  <1>4. W \subseteq 1 .. n
    <2> HIDE DEF n
    <2> QED BY <1>1
  <1>5. p \in Nat /\ m \in Nat
    BY <1>1, <1>2
  <1>6. ASSUME NEW k \in 1 .. m PROVE Nth(W, k) = at(k)
    <2>1. Nth(W, k) \in W /\ Rank(W, Nth(W, k)) = k
      <3> HIDE DEF n, m
      <3>1. k \in 1 .. Cardinality(W)
        BY DEF m
      <3> QED BY <1>1, <1>4, <3>1, NthFacts
    <2> DEFINE i == Nth(W, k)
    <2>2. CASE i \in a .. b
      <3>1. k = i - a + 1 /\ k <= p
        <4>1. k = i - a + 1
          BY <1>3, <2>1, <2>2
        <4> HIDE DEF i, m
        <4> QED BY <1>1, <2>2, <4>1
      <3>2. i = at(k)
        <4>1. i = a + k - 1
          <5> HIDE DEF i, p, m
          <5> QED BY <1>1, <2>2, <3>1
        <4> QED BY <3>1, <4>1
      <3> QED BY <3>2, Zenon
    <2>3. CASE i \in c .. d
      <3>1. k = p + (i - c + 1)
        BY <1>3, <2>1, <2>3
      <3>2. i = at(k)
        <4> HIDE DEF i, p, m
        <4>1. ~(k <= p)
          BY <1>1, <1>5, <2>3, <3>1
        <4>2. i = c + (k - p) - 1
          BY <1>1, <1>5, <2>3, <3>1
        <4> QED BY <4>1, <4>2
      <3> QED BY <3>2, Zenon
    <2>4. i \in (a .. b) \cup (c .. d)
      BY <1>1, <2>1
    <2> QED BY <2>2, <2>3, <2>4
  <1>7. u \in Seq(S) /\ Len(u) = m /\ \A k \in 1 .. m : u[k] = s[Nth(W, k)]
    <2>1. W \subseteq 1 .. Len(s)
      BY <1>4
    <2> QED BY <2>1, SelectedType
  <1>8. v \in Seq(S) /\ Len(v) = m /\ \A k \in 1 .. m : v[k] = s[at(k)]
    <2> DEFINE x == SubSeq(s, a, b)
               y == SubSeq(s, c, d)
    <2>1. x \in Seq(S) /\ Len(x) = p /\ \A k \in 1 .. p : x[k] = s[a + k - 1]
      BY <1>1
    <2>2. y \in Seq(S) /\ Len(y) = d - c + 1 /\ \A k \in 1 .. (d - c + 1) : y[k] = s[c + k - 1]
      BY <1>1
    <2>3. v = x \o y
      OBVIOUS
    <2> HIDE DEF x, y, v, p, m
    <2>4. v \in Seq(S) /\ Len(v) = m
      <3>1. v \in Seq(S) /\ Len(v) = Len(x) + Len(y)
        <4>1. x \in Seq(S) /\ y \in Seq(S)
          BY <2>1, <2>2
        <4> QED BY <2>3, <4>1
      <3> QED BY <1>2, <2>1, <2>2, <3>1
    <2>5. ASSUME NEW k \in 1 .. m PROVE v[k] = s[at(k)]
      <3>1. CASE k <= p
        <4>1. k \in 1 .. p
          BY <1>5, <3>1
        <4>2. v[k] = x[k]
          BY <2>1, <2>2, <2>3, <4>1
        <4> QED BY <2>1, <3>1, <4>1, <4>2
      <3>2. CASE ~(k <= p)
        <4>1. k - p \in 1 .. (d - c + 1)
          BY <1>1, <1>2, <1>5, <3>2
        <4>2. v[k] = y[k - p]
          BY <1>2, <1>5, <2>1, <2>2, <2>3, <3>2
        <4> QED BY <2>2, <3>2, <4>1, <4>2
      <3> QED BY <3>1, <3>2
    <2> QED BY <2>4, <2>5
  <1>9. \A k \in 1 .. m : u[k] = v[k]
    <2> HIDE DEF u, v, m, at
    <2> QED BY <1>6, <1>7, <1>8
  <1>10. u = v
    <2> HIDE DEF u, v, m
    <2> QED BY <1>7, <1>8, <1>9
  <1> QED BY <1>10

LEMMA SelectedRange ==
  ASSUME NEW S, NEW s \in Seq(S), NEW a \in Nat, NEW b \in Nat,
         1 <= a, a <= b + 1, b <= Len(s)
  PROVE  Selected(s, a .. b) = SubSeq(s, a, b)
  <1> DEFINE c == b + 1
             W == a .. b
  <1>1. TwoRanges(W, a, b, c, b, Len(s))
    BY DEF Apart, TwoRanges
  <1>2. SubSeq(s, a, b) \o SubSeq(s, c, b) = SubSeq(s, a, b)
    <2>1. SubSeq(s, c, b) = << >>
      OBVIOUS
    <2>2. SubSeq(s, a, b) \in Seq(S)
      OBVIOUS
    <2> HIDE DEF c
    <2> QED BY <2>1, <2>2
  <1> HIDE DEF c, W
  <1>4. Selected(s, W) = SubSeq(s, a, b) \o SubSeq(s, c, b)
    <2>1. \A V, u, v, x, y : TwoRanges(V, u, v, x, y, Len(s)) =>
            Selected(s, V) = SubSeq(s, u, v) \o SubSeq(s, x, y)
      BY SelectedRanges
    <2> QED BY <1>1, <2>1
  <1> QED BY <1>2, <1>4 DEF W

-----------------------------------------------------------------------------
(***************************************************************************)
(* Tags that are tokens.                                                   *)
(***************************************************************************)
LEMMA TagTokensAre ==
  ASSUME NEW t \in Seq(Piece \cup Tag), TagTokensOnly(t)
  PROVE  /\ Opens(t) = {i \in 1 .. Len(t) : t[i] = Open}
         /\ Closes(t) = {i \in 1 .. Len(t) : t[i] = Close}
         /\ TagCells(t) = {i \in 1 .. Len(t) : t[i] \in Tag}
  <1>1. \A i \in 1 .. Len(t) : ~IsAt(t, OpenTag, i) /\ ~IsAt(t, CloseTag, i)
    BY DEF TagTokensOnly, Halves, IsAt
  <1>2. Opens(t) = {i \in 1 .. Len(t) : t[i] = Open}
    BY <1>1 DEF Opens, TagsAt
  <1>3. Closes(t) = {i \in 1 .. Len(t) : t[i] = Close}
    BY <1>1 DEF Closes, TagsAt
  <1>4. Opens(t) \cup Closes(t) = {i \in 1 .. Len(t) : t[i] \in Tag}
    BY <1>2, <1>3 DEF Tag
  <1>5. TagCells(t) = {i \in 1 .. Len(t) : t[i] \in Tag}
    BY <1>4 DEF TagCells
  <1> QED BY <1>2, <1>3, <1>5

\* in_thinking: whether the next token is inside a block.
Thinks(s) == Inside(s, Len(s) + 1)

\* What is before the new token does not change.
LEMMA InsideAppend ==
  ASSUME NEW s \in Seq(Piece \cup Tag), NEW x \in Piece \cup Tag, NEW t, t = Append(s, x),
         TagTokensOnly(t)
  PROVE  /\ TagTokensOnly(s)
         /\ \A i \in 1 .. Len(s) + 1 : Inside(t, i) <=> Inside(s, i)
         /\ x \notin Tag => (Thinks(t) <=> Thinks(s))
         /\ x \in Tag => (Thinks(t) <=> x = Open)
  <1> DEFINE n == Len(s)
  <1>1. /\ n \in Nat /\ Len(t) = n + 1 /\ t[n + 1] = x /\ \A i \in 1 .. n : t[i] = s[i]
        /\ t \in Seq(Piece \cup Tag)
    OBVIOUS
  <1>2. TagTokensOnly(s)
    BY <1>1 DEF TagTokensOnly
  <1> DEFINE so == {i \in 1 .. n : s[i] = Open}
             sc == {i \in 1 .. n : s[i] = Close}
             to == {i \in 1 .. n + 1 : t[i] = Open}
             tc == {i \in 1 .. n + 1 : t[i] = Close}
  <1>3. Opens(s) = so /\ Closes(s) = sc
    BY <1>2, TagTokensAre
  <1>4. Opens(t) = to /\ Closes(t) = tc
    BY <1>1, TagTokensAre
  <1>5. /\ so \subseteq 1 .. n /\ sc \subseteq 1 .. n
        /\ to = so \cup (IF x = Open THEN {n + 1} ELSE {})
        /\ tc = sc \cup (IF x = Close THEN {n + 1} ELSE {})
    BY <1>1
  <1> HIDE DEF n, so, sc, to, tc
  <1>6. ASSUME NEW i \in 1 .. n + 1 PROVE Inside(t, i) <=> Inside(s, i)
    <2>1. Inside(t, i) <=> \E o \in to : o < i /\ \A c \in tc : ~(o < c /\ c < i)
      BY <1>4 DEF Inside
    <2>2. Inside(s, i) <=> \E o \in so : o < i /\ \A c \in sc : ~(o < c /\ c < i)
      BY <1>3 DEF Inside
    <2>3. \A o \in to : o < i => o \in so
      BY <1>1, <1>5
    <2>4. \A c \in tc : c < i => c \in sc
      BY <1>1, <1>5
    <2>5. so \subseteq to /\ sc \subseteq tc
      BY <1>5
    <2> QED BY <2>1, <2>2, <2>3, <2>4, <2>5, Zenon
  <1>7. Thinks(s) <=> \E o \in so : \A c \in sc : ~(o < c)
    <2>1. Thinks(s) <=> \E o \in so : o < n + 1 /\ \A c \in sc : ~(o < c /\ c < n + 1)
      BY <1>3 DEF Thinks, Inside, n
    <2> QED BY <1>1, <1>5, <2>1
  <1>8. Thinks(t) <=> \E o \in to : \A c \in tc : ~(o < c)
    <2>1. Thinks(t) <=> \E o \in to : o < n + 2 /\ \A c \in tc : ~(o < c /\ c < n + 2)
      BY <1>1, <1>4 DEF Thinks, Inside
    <2> QED BY <1>1, <1>5, <2>1
  <1>9. ASSUME x \notin Tag PROVE Thinks(t) <=> Thinks(s)
    <2>1. to = so /\ tc = sc
      BY <1>5, <1>9 DEF Tag
    <2> QED BY <1>7, <1>8, <2>1
  <1>10. ASSUME x = Open PROVE Thinks(t)
    <2>1. n + 1 \in to
      BY <1>5, <1>10
    <2>2. \A c \in tc : ~(n + 1 < c)
      BY <1>1, <1>5
    <2> QED BY <1>8, <2>1, <2>2
  <1>11. ASSUME x \in Tag, x # Open PROVE ~Thinks(t)
    <2>1. n + 1 \in tc /\ to = so
      BY <1>5, <1>11 DEF Tag
    <2>2. \A o \in to : o < n + 1
      BY <1>1, <1>5, <2>1
    <2> QED BY <1>8, <2>1, <2>2
  <1> QED BY <1>2, <1>6, <1>9, <1>10, <1>11 DEF n

LEMMA WantedAppend ==
  ASSUME NEW s \in Seq(Piece \cup Tag), NEW x \in Piece \cup Tag, NEW t, t = Append(s, x),
         TagTokensOnly(t), NEW b \in BOOLEAN
  PROVE  Wanted(t, b) = IF x \notin Tag /\ (Thinks(s) <=> b)
                          THEN Wanted(s, b) \cup {Len(s) + 1} ELSE Wanted(s, b)
  <1> DEFINE n == Len(s)
  <1>1. /\ n \in Nat /\ Len(t) = n + 1 /\ t[n + 1] = x /\ \A i \in 1 .. n : t[i] = s[i]
        /\ t \in Seq(Piece \cup Tag)
    OBVIOUS
  <1>2. TagTokensOnly(s) /\ \A i \in 1 .. n + 1 : Inside(t, i) <=> Inside(s, i)
    BY InsideAppend
  <1>3. /\ TagCells(s) = {i \in 1 .. n : s[i] \in Tag}
        /\ TagCells(t) = {i \in 1 .. n + 1 : t[i] \in Tag}
    BY <1>1, <1>2, TagTokensAre
  <1>4. Wanted(s, b) = {i \in 1 .. n : s[i] \notin Tag /\ (Inside(s, i) <=> b)}
    BY <1>3 DEF Wanted
  <1>5. Wanted(t, b) = {i \in 1 .. n + 1 : t[i] \notin Tag /\ (Inside(s, i) <=> b)}
    BY <1>1, <1>2, <1>3 DEF Wanted
  <1>6. Thinks(s) <=> Inside(s, n + 1)
    BY DEF Thinks
  <1> HIDE DEF n
  <1> DEFINE G(i) == Inside(s, i) <=> b
  <1>7. /\ Wanted(s, b) = {i \in 1 .. n : s[i] \notin Tag /\ G(i)}
        /\ Wanted(t, b) = {i \in 1 .. n + 1 : t[i] \notin Tag /\ G(i)}
        /\ (Thinks(s) <=> b) <=> G(n + 1)
    BY <1>4, <1>5, <1>6
  <1> HIDE DEF G
  <1>8. Wanted(t, b) = IF x \notin Tag /\ G(n + 1)
                         THEN Wanted(s, b) \cup {n + 1} ELSE Wanted(s, b)
    BY <1>1, <1>7
  <1> QED BY <1>7, <1>8 DEF n

LEMMA WantedPositions ==
  ASSUME NEW s, NEW b PROVE Wanted(s, b) \subseteq 1 .. Len(s)
  BY DEF Wanted

\* One token more, and no half of a tag among them.
LEMMA PiecesAppend ==
  ASSUME NEW s \in Seq(Piece \cup Tag), NEW x \in Piece \cup Tag, NEW t, t = Append(s, x),
         TagTokensOnly(t), NEW b \in BOOLEAN
  PROVE  Pieces(t, b) = IF x \notin Tag /\ (Thinks(s) <=> b)
                          THEN Append(Pieces(s, b), x) ELSE Pieces(s, b)
  <1> DEFINE S == Piece \cup Tag
             P == Wanted(s, b)
  <1>1. P \subseteq 1 .. Len(s) /\ s \in Seq(S) /\ x \in S
    BY WantedPositions
  <1>2. Wanted(t, b) = IF x \notin Tag /\ (Thinks(s) <=> b) THEN P \cup {Len(s) + 1} ELSE P
    BY WantedAppend
  <1> HIDE DEF S, P
  <1>3. SelectsNext(s, x, t, P)
    BY <1>1, SelectedAppend
  <1> QED BY <1>2, <1>3, Zenon DEF Pieces, SelectsNext, P

\* Pieces that are no halves of tags, and the two halves of a closing tag.
Clean == Piece \ Halves
Stray == <<CloseTag[1], CloseTag[2]>>

\* While tokens come: with tags as tokens the completion so far is split at them, and
\* with tags spelled out it is all in the text.
TagsSplit ==
  TagTokensOnly(tokens) =>
    /\ text = Pieces(tokens, FALSE) /\ reasoning_content = Pieces(tokens, TRUE)
    /\ text \in Seq(Clean)
    /\ in_thinking <=> Thinks(tokens)

SpelledSplit ==
  SpelledOnly(tokens) => text = tokens /\ reasoning_content = << >> /\ ~in_thinking

\* After the block is extracted the text is right but for one closing tag.
OneStray ==
  \E p, q \in Seq(Clean) :
    /\ Pieces(tokens, FALSE) = p \o q
    /\ text = p \o q \/ text = (p \o Stray) \o q

SplitInv ==
  /\ RoutingInv
  /\ phase \in {"tokens", "extract"} => TagsSplit /\ SpelledSplit
  /\ phase = "stray" /\ PlainTags(tokens) =>
       reasoning_content = Pieces(tokens, TRUE) /\ OneStray
  /\ ResultSplitsAtTags

\* The halves of the tags are four different pieces.
LEMMA AtMostThree ==
  ASSUME NEW a, NEW b, NEW c
  PROVE  Cardinality({a, b, c}) \in Nat /\ Cardinality({a, b, c}) <= 3
  <1>1. IsFiniteSet({a}) /\ Cardinality({a}) = 1
    BY FS_Singleton
  <1>2. /\ IsFiniteSet({a} \cup {b}) /\ Cardinality({a} \cup {b}) \in Nat
        /\ Cardinality({a} \cup {b}) <= 2
    <2>1. /\ IsFiniteSet({a} \cup {b})
          /\ Cardinality({a} \cup {b}) = IF b \in {a} THEN Cardinality({a}) ELSE Cardinality({a}) + 1
      BY <1>1, FS_AddElement, Zenon
    <2> QED BY <1>1, <2>1
  <1>3. /\ Cardinality(({a} \cup {b}) \cup {c}) \in Nat
        /\ Cardinality(({a} \cup {b}) \cup {c}) <= 3
    BY <1>2, FS_AddElement
  <1>4. ({a} \cup {b}) \cup {c} = {a, b, c}
    OBVIOUS
  <1> QED BY <1>3, <1>4

LEMMA FourDiffer ==
  ASSUME NEW a, NEW b, NEW c, NEW d, Cardinality({a, b, c, d}) = 4
  PROVE  a # b /\ a # c /\ a # d /\ b # c /\ b # d /\ c # d
  <1>1. ASSUME NEW x, NEW y, NEW z, {a, b, c, d} = {x, y, z} PROVE FALSE
    <2>1. Cardinality({x, y, z}) = 4
      BY <1>1
    <2>2. Cardinality({x, y, z}) \in Nat /\ Cardinality({x, y, z}) <= 3
      BY AtMostThree
    <2> QED BY <2>1, <2>2
  <1>2. a # b
    <2>1. a = b => {a, b, c, d} = {a, c, d}
      OBVIOUS
    <2> QED BY <1>1, <2>1
  <1>3. a # c
    <2>1. a = c => {a, b, c, d} = {a, b, d}
      OBVIOUS
    <2> QED BY <1>1, <2>1
  <1>4. a # d
    <2>1. a = d => {a, b, c, d} = {a, b, c}
      OBVIOUS
    <2> QED BY <1>1, <2>1
  <1>5. b # c
    <2>1. b = c => {a, b, c, d} = {a, b, d}
      OBVIOUS
    <2> QED BY <1>1, <2>1
  <1>6. b # d
    <2>1. b = d => {a, b, c, d} = {a, b, c}
      OBVIOUS
    <2> QED BY <1>1, <2>1
  <1>7. c # d
    <2>1. c = d => {a, b, c, d} = {a, b, c}
      OBVIOUS
    <2> QED BY <1>1, <2>1
  <1> QED BY <1>2, <1>3, <1>4, <1>5, <1>6, <1>7

HalvesDiffer ==
  /\ OpenTag[1] # OpenTag[2] /\ OpenTag[1] # CloseTag[1] /\ OpenTag[1] # CloseTag[2]
  /\ OpenTag[2] # CloseTag[1] /\ OpenTag[2] # CloseTag[2] /\ CloseTag[1] # CloseTag[2]

LEMMA HalvesAreFour == HalvesDiffer
  <1>1. Cardinality({OpenTag[1], OpenTag[2], CloseTag[1], CloseTag[2]}) = 4
    BY OutputRoutingAssumption DEF Halves
  <1> QED BY <1>1, FourDiffer DEF HalvesDiffer

LEMMA NothingSelected ==
  ASSUME NEW b PROVE Pieces(<< >>, b) = << >>
  <1>1. Wanted(<< >>, b) = {}
    BY DEF Wanted
  <1>2. Cardinality(Wanted(<< >>, b)) = 0
    BY <1>1, FS_EmptySet
  <1>3. Pieces(<< >>, b) = [k \in 1 .. 0 |-> << >>[Nth(Wanted(<< >>, b), k)]]
    BY <1>2, SelectedIs DEF Pieces
  <1> QED BY <1>3

LEMMA InitSplit ==
  ASSUME Init
  PROVE  TagsSplit /\ SpelledSplit
  <1>1. /\ tokens = << >> /\ text = << >> /\ reasoning_content = << >> /\ ~in_thinking
    BY DEF Init
  <1>2. text = Pieces(tokens, FALSE) /\ reasoning_content = Pieces(tokens, TRUE)
    BY <1>1, NothingSelected
  <1>3. text \in Seq(Clean)
    BY <1>1
  <1>4. ~Thinks(tokens)
    <2>1. Opens(tokens) = {}
      BY <1>1 DEF Opens, TagsAt
    <2> QED BY <2>1 DEF Thinks, Inside
  <1> QED BY <1>1, <1>2, <1>3, <1>4 DEF TagsSplit, SpelledSplit

LEMMA TokenTagsSplit ==
  ASSUME TypeOK, TagsSplit,
         NEW tok \in Piece \cup Tag, NEW ok \in BOOLEAN, process_token(tok, ok)
  PROVE  TagsSplit'
  <1> SUFFICES ASSUME TagTokensOnly(tokens')
               PROVE  /\ text' = Pieces(tokens', FALSE)
                      /\ reasoning_content' = Pieces(tokens', TRUE)
                      /\ text' \in Seq(Clean)
                      /\ in_thinking' <=> Thinks(tokens')
    BY DEF TagsSplit
  <1> DEFINE t == Append(tokens, tok)
  <1>1. tokens' = t /\ tokens \in Seq(Piece \cup Tag)
    BY DEF process_token, TypeOK
  <1>2. TagTokensOnly(t)
    BY <1>1
  <1>3. /\ TagTokensOnly(tokens)
        /\ tok \notin Tag => (Thinks(t) <=> Thinks(tokens))
        /\ tok \in Tag => (Thinks(t) <=> tok = Open)
    BY <1>1, <1>2, InsideAppend
  <1>4. /\ text = Pieces(tokens, FALSE) /\ reasoning_content = Pieces(tokens, TRUE)
        /\ text \in Seq(Clean)
        /\ in_thinking <=> Thinks(tokens)
    BY <1>3 DEF TagsSplit
  <1>5. \A b \in BOOLEAN :
          Pieces(t, b) = IF tok \notin Tag /\ (Thinks(tokens) <=> b)
                           THEN Append(Pieces(tokens, b), tok) ELSE Pieces(tokens, b)
    BY <1>1, <1>2, PiecesAppend
  <1>6. tok \notin Halves
    <2>1. Len(t) \in 1 .. Len(t) /\ t[Len(t)] = tok
      BY <1>1
    <2> QED BY <1>2, <2>1 DEF TagTokensOnly
  <1> HIDE DEF t
  <1>7. CASE tok \in Tag
    <2>1. text' = text /\ reasoning_content' = reasoning_content /\ in_thinking' = (tok = Open)
      BY <1>7, Zenon DEF process_token, IsTag
    <2> QED BY <1>1, <1>3, <1>4, <1>5, <1>7, <2>1, Zenon
  <1>8. CASE tok \notin Tag
    <2>1. /\ text' = IF in_thinking THEN text ELSE Append(text, tok)
          /\ reasoning_content' = IF in_thinking THEN Append(reasoning_content, tok)
                                                 ELSE reasoning_content
          /\ in_thinking' = in_thinking
      BY <1>8, Zenon DEF process_token, IsTag
    <2>2. text' \in Seq(Clean)
      <3>1. tok \in Clean
        BY <1>6, <1>8 DEF Clean
      <3>2. Append(text, tok) \in Seq(Clean)
        <4>1. text \in Seq(Clean)
          BY <1>4
        <4> HIDE DEF Clean
        <4> QED BY <3>1, <4>1
      <3> QED BY <1>4, <2>1, <3>2, Zenon
    <2>3. Pieces(t, FALSE) = IF in_thinking THEN text ELSE Append(text, tok)
      BY <1>4, <1>5, <1>8, Zenon
    <2>4. Pieces(t, TRUE) = IF in_thinking THEN Append(reasoning_content, tok)
                                           ELSE reasoning_content
      BY <1>4, <1>5, <1>8, Zenon
    <2>5. in_thinking' <=> Thinks(t)
      BY <1>3, <1>4, <1>8, <2>1, Zenon
    <2> QED BY <1>1, <2>1, <2>2, <2>3, <2>4, <2>5, Zenon
  <1> QED BY <1>7, <1>8

LEMMA TokenSpelledSplit ==
  ASSUME TypeOK, SpelledSplit,
         NEW tok \in Piece \cup Tag, NEW ok \in BOOLEAN, process_token(tok, ok)
  PROVE  SpelledSplit'
  <1> SUFFICES ASSUME SpelledOnly(tokens')
               PROVE  text' = tokens' /\ reasoning_content' = << >> /\ ~in_thinking'
    BY DEF SpelledSplit
  <1>1. tokens' = Append(tokens, tok) /\ tokens \in Seq(Piece \cup Tag)
    BY DEF process_token, TypeOK
  <1>2. /\ Len(tokens') = Len(tokens) + 1 /\ tokens'[Len(tokens) + 1] = tok
        /\ \A i \in 1 .. Len(tokens) : tokens'[i] = tokens[i]
    BY <1>1
  <1>3. SpelledOnly(tokens) /\ tok \notin Tag
    BY <1>1, <1>2 DEF SpelledOnly
  <1>4. text = tokens /\ reasoning_content = << >> /\ ~in_thinking
    BY <1>3 DEF SpelledSplit
  <1>5. /\ text' = IF in_thinking THEN text ELSE Append(text, tok)
        /\ reasoning_content' = IF in_thinking THEN Append(reasoning_content, tok)
                                               ELSE reasoning_content
        /\ in_thinking' = in_thinking
    BY <1>3, Zenon DEF process_token, IsTag
  <1> QED BY <1>1, <1>4, <1>5, Zenon

\* The early returns, which skip the post-processing.
LEMMA OneTokenSplit ==
  ASSUME SplitInv, tokens = << >>, phase = "tokens",
         NEW tok \in Piece \cup Tag, tokens' = <<tok>>, TagsSplit', SpelledSplit',
         tok \notin Tag, phase' = "done"
  PROVE  ResultSplitsAtTags'
  <1> SUFFICES ASSUME PlainTags(tokens')
               PROVE  /\ text' = (IF Pieces(tokens', TRUE) # << >>
                                    THEN TrimBreaks(Pieces(tokens', FALSE))
                                    ELSE Pieces(tokens', FALSE))
                      /\ reasoning_content' = Pieces(tokens', TRUE)
    BY Zenon DEF ResultSplitsAtTags, RefText, RefReasoning
  <1> DEFINE t == <<tok>>
  <1>1. Len(t) = 1 /\ t[1] = tok /\ \A i \in 1 .. 1 : i = 1
    OBVIOUS
  <1>2. SpelledOnly(t)
    BY <1>1 DEF SpelledOnly
  <1>3. TagTokensOnly(t)
    <2>1. \A i, tag : ~IsAt(t, tag, i)
      BY <1>1 DEF IsAt
    <2>2. Opens(t) = {} /\ Closes(t) = {}
      BY <1>1, <1>2, <2>1 DEF Opens, Closes, TagsAt, Tag, SpelledOnly
    <2>3. TagCells(t) = {}
      BY <2>2 DEF TagCells
    <2> QED BY <2>3 DEF PlainTags, TagTokensOnly
  <1>4. text' = Pieces(t, FALSE) /\ reasoning_content' = Pieces(t, TRUE)
    BY <1>3 DEF TagsSplit
  <1>5. reasoning_content' = << >>
    BY <1>2 DEF SpelledSplit
  <1> QED BY <1>4, <1>5

-----------------------------------------------------------------------------
(***************************************************************************)
(* One block spelled out: where its tags can be, and what is selected.     *)
(***************************************************************************)
SpelledFacts(t) ==
  /\ Opens(t) \subseteq 1 .. Len(t) - 1 /\ Closes(t) \subseteq 1 .. Len(t) - 1
  /\ \A i \in Opens(t) : t[i] = OpenTag[1] /\ t[i + 1] = OpenTag[2]
  /\ \A i \in Closes(t) : t[i] = CloseTag[1] /\ t[i + 1] = CloseTag[2]
  /\ \A i, j \in Opens(t) : i = j
  /\ \A i, j \in Closes(t) : i = j
  /\ \A i \in 1 .. Len(t) :
       \/ i \in Opens(t) \cup Closes(t) \/ i - 1 \in Opens(t) \cup Closes(t)
       \/ t[i] \in Clean
  /\ \A i : IsAt(t, OpenTag, i) <=> i \in Opens(t)
  /\ \A i : IsAt(t, CloseTag, i) <=> i \in Closes(t)
  /\ \A s \in Opens(t), c \in Closes(t) : s + 1 < c \/ c + 1 < s
  /\ \A b : Wanted(t, b) = {i \in 1 .. Len(t) :
                              /\ i \notin Opens(t) \cup Closes(t)
                              /\ i - 1 \notin Opens(t) \cup Closes(t)
                              /\ Inside(t, i) <=> b}
  /\ \A i : Inside(t, i) <=>
       \E o \in Opens(t) : o < i /\ \A c \in Closes(t) : ~(o < c /\ c < i)

LEMMA AtMostOne ==
  ASSUME NEW S, IsFiniteSet(S), Cardinality(S) <= 1
  PROVE  \A i, j \in S : i = j
  <1> SUFFICES ASSUME NEW i \in S, NEW j \in S, i # j PROVE FALSE
    OBVIOUS
  <1>1. IsFiniteSet({i}) /\ Cardinality({i}) = 1
    BY FS_Singleton
  <1>2. Cardinality({i} \cup {j}) = 2
    <2>1. j \notin {i}
      OBVIOUS
    <2>2. Cardinality({i} \cup {j}) = Cardinality({i}) + 1
      BY <1>1, <2>1, FS_AddElement, Zenon
    <2> QED BY <1>1, <2>2
  <1>3. {i} \cup {j} \in SUBSET S
    OBVIOUS
  <1>4. Cardinality({i} \cup {j}) <= Cardinality(S) /\ Cardinality(S) \in Nat
    BY <1>3, FS_Subset, FS_CardinalityType
  <1> QED BY <1>2, <1>4

LEMMA SpelledHas ==
  ASSUME NEW t \in Seq(Piece \cup Tag), SpelledOnly(t), PlainTags(t), ~TagTokensOnly(t)
  PROVE  SpelledFacts(t)
  <1> DEFINE n == Len(t)
  <1>0. n \in Nat /\ \A i \in 1 .. n : t[i] \in Piece \cup Tag
    OBVIOUS
  <1>1. /\ \A i \in 1 .. n : t[i] \in Halves => i \in TagCells(t)
        /\ Cardinality(Opens(t)) <= 1 /\ Cardinality(Closes(t)) <= 1
    BY DEF PlainTags
  <1>2. \A i \in 1 .. n : t[i] # Open /\ t[i] # Close
    BY DEF SpelledOnly, Tag
  <1>3. /\ Opens(t) = {i \in 1 .. n : IsAt(t, OpenTag, i)}
        /\ Closes(t) = {i \in 1 .. n : IsAt(t, CloseTag, i)}
    BY <1>2 DEF Opens, Closes, TagsAt
  <1>4. \A i : /\ IsAt(t, OpenTag, i) <=> i \in Opens(t)
               /\ IsAt(t, CloseTag, i) <=> i \in Closes(t)
    BY <1>0, <1>3 DEF IsAt
  <1>5. Opens(t) \subseteq 1 .. n - 1 /\ Closes(t) \subseteq 1 .. n - 1
    BY <1>4 DEF IsAt
  <1>6. /\ \A i \in Opens(t) : t[i] = OpenTag[1] /\ t[i + 1] = OpenTag[2]
        /\ \A i \in Closes(t) : t[i] = CloseTag[1] /\ t[i + 1] = CloseTag[2]
    BY <1>4 DEF IsAt
  <1>7. (\A i, j \in Opens(t) : i = j) /\ (\A i, j \in Closes(t) : i = j)
    <2>1. IsFiniteSet(1 .. n - 1)
      BY <1>0, FS_Interval
    <2>2. IsFiniteSet(Opens(t)) /\ IsFiniteSet(Closes(t))
      BY <1>5, <2>1, FS_Subset
    <2> QED BY <1>1, <2>2, AtMostOne
  <1>8. TagCells(t) = {i \in 1 .. n : i \in Opens(t) \cup Closes(t)
                                        \/ i - 1 \in Opens(t) \cup Closes(t)}
    <2>1. \A i \in Opens(t) \cup Closes(t) : t[i] \notin Tag
      BY <1>0, <1>5 DEF SpelledOnly
    <2> QED BY <2>1 DEF TagCells
  <1>9. \A i \in 1 .. n :
          \/ i \in Opens(t) \cup Closes(t) \/ i - 1 \in Opens(t) \cup Closes(t)
          \/ t[i] \in Clean
    BY <1>0, <1>1, <1>8 DEF SpelledOnly, Clean
  <1>10. \A s \in Opens(t), c \in Closes(t) : s + 1 < c \/ c + 1 < s
    <2> SUFFICES ASSUME NEW s \in Opens(t), NEW c \in Closes(t)
                 PROVE  s + 1 < c \/ c + 1 < s
      OBVIOUS
    <2>1. s # c /\ s + 1 # c /\ c + 1 # s
      BY <1>6, HalvesAreFour DEF HalvesDiffer
    <2>2. s \in Nat /\ c \in Nat
      BY <1>5
    <2> QED BY <2>1, <2>2
  <1>11. \A b : Wanted(t, b) = {i \in 1 .. n :
                                 /\ i \notin Opens(t) \cup Closes(t)
                                 /\ i - 1 \notin Opens(t) \cup Closes(t)
                                 /\ Inside(t, i) <=> b}
    BY <1>8, Zenon DEF Wanted
  <1>12. \A i : Inside(t, i) <=>
           \E o \in Opens(t) : o < i /\ \A c \in Closes(t) : ~(o < c /\ c < i)
    BY DEF Inside
  <1> QED BY <1>4, <1>5, <1>6, <1>7, <1>9, <1>10, <1>11, <1>12 DEF SpelledFacts

\* A range without a tag.
LEMMA CleanRange ==
  ASSUME NEW t \in Seq(Piece \cup Tag), NEW a \in Int, NEW b \in Int, 1 <= a, b <= Len(t),
         \A i \in a .. b : t[i] \in Clean
  PROVE  SubSeq(t, a, b) \in Seq(Clean)
  <1> DEFINE S == Clean
  <1>1. \A i \in a .. b : t[i] \in S
    OBVIOUS
  <1> HIDE DEF S
  <1>2. SubSeq(t, a, b) \in Seq(S)
    BY <1>1
  <1> QED BY <1>2 DEF S

LEMMA SelectedNone ==
  ASSUME NEW t, NEW P, P = {} PROVE Selected(t, P) = << >>
  <1>1. Cardinality(P) = 0
    BY FS_EmptySet
  <1>2. Selected(t, P) = [k \in 1 .. 0 |-> t[Nth(P, k)]]
    BY <1>1, SelectedIs
  <1> QED BY <1>2

OneRange(W, a, b, n) ==
  a \in Nat /\ b \in Nat /\ 1 <= a /\ a <= b + 1 /\ b <= n /\ W = a .. b

LEMMA SelectedInRange ==
  ASSUME NEW S, NEW t \in Seq(S), NEW W, NEW a, NEW b, OneRange(W, a, b, Len(t))
  PROVE  Selected(t, W) = SubSeq(t, a, b)
  <1>1. a \in Nat /\ b \in Nat /\ 1 <= a /\ a <= b + 1 /\ b <= Len(t) /\ W = a .. b
    BY DEF OneRange
  <1> QED BY <1>1, SelectedRange

CatFacts(S, a, b, ab) ==
  /\ ab \in Seq(S) /\ Len(ab) = Len(a) + Len(b)
  /\ \A i \in 1 .. Len(a) : ab[i] = a[i]
  /\ \A i \in Len(a) + 1 .. Len(a) + Len(b) : ab[i] = b[i - Len(a)]

LEMMA CatIs ==
  ASSUME NEW S, NEW a \in Seq(S), NEW b \in Seq(S), NEW ab, ab = a \o b
  PROVE  CatFacts(S, a, b, ab)
  BY DEF CatFacts

SameCells(S, u, v) ==
  u \in Seq(S) /\ v \in Seq(S) /\ Len(u) = Len(v) /\ \A i \in 1 .. Len(u) : u[i] = v[i]

LEMMA SameSeq ==
  ASSUME NEW S, NEW u, NEW v, SameCells(S, u, v)
  PROVE  u = v
  BY DEF SameCells

LEMMA AroundTag ==
  ASSUME NEW S, NEW t \in Seq(S), NEW n \in Nat, n <= Len(t), NEW c \in 1 .. n - 1,
         NEW x, NEW y, t[c] = x, t[c + 1] = y
  PROVE  SubSeq(t, 1, n) = (SubSeq(t, 1, c - 1) \o <<x, y>>) \o SubSeq(t, c + 2, n)
  <1> DEFINE p == SubSeq(t, 1, c - 1)
             q == SubSeq(t, c + 2, n)
             m == <<x, y>>
             w == SubSeq(t, 1, n)
             v == (p \o m) \o q
  <1>1. /\ p \in Seq(S) /\ Len(p) = c - 1 /\ \A i \in 1 .. c - 1 : p[i] = t[i]
        /\ q \in Seq(S) /\ Len(q) = n - (c + 2) + 1
        /\ \A i \in 1 .. n - (c + 2) + 1 : q[i] = t[(c + 2) + i - 1]
        /\ w \in Seq(S) /\ Len(w) = n /\ \A i \in 1 .. n : w[i] = t[i]
    OBVIOUS
  <1>2. m \in Seq(S) /\ Len(m) = 2 /\ m[1] = x /\ m[2] = y
    <2>1. x \in S /\ y \in S
      OBVIOUS
    <2> QED BY <2>1
  <1>3. v = (p \o m) \o q
    OBVIOUS
  <1> HIDE DEF p, q, m, w, v
  <1> DEFINE pm == p \o m
  <1>4. pm \in Seq(S) /\ Len(pm) = c + 1 /\ \A i \in 1 .. c + 1 : pm[i] = t[i]
    <2>1. CatFacts(S, p, m, pm)
      BY <1>1, <1>2, CatIs
    <2> HIDE DEF pm
    <2>2. pm \in Seq(S) /\ Len(pm) = c + 1
      BY <1>1, <1>2, <2>1 DEF CatFacts
    <2>3. \A i \in 1 .. c - 1 : pm[i] = t[i]
      BY <1>1, <2>1 DEF CatFacts
    <2>4. pm[c] = x /\ pm[c + 1] = y
      <3>1. c \in Len(p) + 1 .. Len(p) + Len(m) /\ c + 1 \in Len(p) + 1 .. Len(p) + Len(m)
        BY <1>1, <1>2
      <3>2. pm[c] = m[c - Len(p)] /\ pm[c + 1] = m[(c + 1) - Len(p)]
        BY <2>1, <3>1 DEF CatFacts
      <3>3. c - Len(p) = 1 /\ (c + 1) - Len(p) = 2
        BY <1>1
      <3> QED BY <1>2, <3>2, <3>3
    <2>5. \A i \in 1 .. c + 1 : i \in 1 .. c - 1 \/ i = c \/ i = c + 1
      OBVIOUS
    <2> QED BY <2>2, <2>3, <2>4, <2>5
  <1>5. CatFacts(S, pm, q, v)
    <2>1. v = pm \o q
      BY <1>3
    <2> HIDE DEF pm
    <2> QED BY <1>1, <1>4, <2>1, CatIs
  <1> HIDE DEF pm
  <1>6. v \in Seq(S) /\ Len(v) = n
    BY <1>1, <1>4, <1>5 DEF CatFacts
  <1>7. ASSUME NEW i \in 1 .. n PROVE v[i] = t[i]
    <2>1. CASE i <= c + 1
      <3>1. i \in 1 .. Len(pm) /\ i \in 1 .. c + 1
        BY <1>4, <2>1
      <3> QED BY <1>4, <1>5, <3>1 DEF CatFacts
    <2>2. CASE ~(i <= c + 1)
      <3>1. i \in Len(pm) + 1 .. Len(pm) + Len(q)
        BY <1>1, <1>4, <2>2
      <3>2. v[i] = q[i - Len(pm)]
        BY <1>5, <3>1 DEF CatFacts
      <3>3. /\ i - Len(pm) \in 1 .. n - (c + 2) + 1
            /\ (c + 2) + (i - Len(pm)) - 1 = i
        BY <1>4, <2>2
      <3>4. q[i - Len(pm)] = t[(c + 2) + (i - Len(pm)) - 1]
        BY <1>1, <3>3
      <3> QED BY <3>2, <3>3, <3>4
    <2> QED BY <2>1, <2>2
  <1>8. w = v
    <2>1. w \in Seq(S) /\ v \in Seq(S) /\ Len(w) = Len(v) /\ Len(w) = n
      BY <1>1, <1>6
    <2>2. \A i \in 1 .. n : w[i] = v[i]
      BY <1>1, <1>7
    <2>3. SameCells(S, w, v)
      BY <2>1, <2>2 DEF SameCells
    <2> QED BY <2>3, SameSeq
  <1> QED BY <1>3, <1>8 DEF w, p, q, m, v

\* No block: only a closing tag, or none. The text loses it, and nothing is reasoning.
LEMMA NoBlock ==
  ASSUME NEW t \in Seq(Piece \cup Tag), SpelledFacts(t), Opens(t) = {}
  PROVE  /\ Pieces(t, TRUE) = << >>
         /\ \E p, q \in Seq(Clean) :
              Pieces(t, FALSE) = p \o q /\ (t = p \o q \/ t = (p \o Stray) \o q)
  <1> DEFINE n == Len(t)
  <1>0. n \in Nat /\ t \in Seq(Piece \cup Tag)
    OBVIOUS
  <1>1. \A i : ~Inside(t, i)
    BY DEF SpelledFacts
  <1>2. Wanted(t, TRUE) = {}
    BY <1>1 DEF SpelledFacts
  <1>3. Pieces(t, TRUE) = << >>
    <2> DEFINE W == Wanted(t, TRUE)
    <2>1. Selected(t, W) = << >>
      BY <1>2, SelectedNone
    <2> QED BY <2>1 DEF Pieces
  <1>4. Wanted(t, FALSE) = {i \in 1 .. n : i \notin Closes(t) /\ i - 1 \notin Closes(t)}
    BY <1>1 DEF SpelledFacts
  <1>5. CASE Closes(t) = {}
    <2>1. Wanted(t, FALSE) = 1 .. n
      BY <1>4, <1>5
    <2>2. Pieces(t, FALSE) = SubSeq(t, 1, n)
      <3>1. OneRange(Wanted(t, FALSE), 1, n, Len(t))
        <4>1. n <= Len(t) /\ 1 <= n + 1 /\ 1 <= 1 /\ 1 \in Nat
          BY <1>0
        <4> QED BY <1>0, <2>1, <4>1, Zenon DEF OneRange
      <3>2. \A V, u, v : OneRange(V, u, v, Len(t)) => Selected(t, V) = SubSeq(t, u, v)
        BY SelectedInRange
      <3> QED BY <3>1, <3>2 DEF Pieces
    <2>3. SubSeq(t, 1, n) = t /\ t \o << >> = t
      OBVIOUS
    <2>4. \A i \in 1 .. n : t[i] \in Clean
      BY <1>5 DEF SpelledFacts
    <2>5. t \in Seq(Clean) /\ << >> \in Seq(Clean)
      <3>1. SubSeq(t, 1, n) \in Seq(Clean)
        BY <1>0, <2>4, CleanRange
      <3> QED BY <2>3, <3>1
    <2> QED BY <1>3, <2>2, <2>3, <2>5
  <1>6. CASE Closes(t) # {}
    <2>1. PICK c \in Closes(t) : Closes(t) = {c}
      BY <1>6 DEF SpelledFacts
    <2>2. c \in 1 .. n - 1 /\ t[c] = CloseTag[1] /\ t[c + 1] = CloseTag[2]
      BY DEF SpelledFacts
    <2> DEFINE p == SubSeq(t, 1, c - 1)
               q == SubSeq(t, c + 2, n)
               e == c - 1
               f == c + 2
    <2>3. Wanted(t, FALSE) = (1 .. e) \cup (f .. n)
      <3>1. \A i \in 1 .. n : (i \notin Closes(t) /\ i - 1 \notin Closes(t)) <=>
                                 (i \in (1 .. e) \cup (f .. n))
        <4> HIDE DEF n
        <4> QED BY <1>0, <2>1, <2>2
      <3>2. (1 .. e) \cup (f .. n) \subseteq 1 .. n
        <4> HIDE DEF n
        <4> QED BY <1>0, <2>2
      <3> HIDE DEF n, e, f
      <3> QED BY <1>4, <3>1, <3>2
    <2>4. TwoRanges(Wanted(t, FALSE), 1, e, f, n, Len(t))
      <3>1. Apart(1, e, f, n)
        <4> HIDE DEF n
        <4> QED BY <1>0, <2>2 DEF Apart
      <3>2. n <= n
        BY <1>0
      <3> QED BY <2>3, <3>1, <3>2, Zenon DEF TwoRanges
    <2>5. Pieces(t, FALSE) = p \o q
      <3> HIDE DEF e, f
      <3>1. \A V, u, v, x, y : TwoRanges(V, u, v, x, y, Len(t)) =>
              Selected(t, V) = SubSeq(t, u, v) \o SubSeq(t, x, y)
        BY SelectedRanges
      <3>2. Pieces(t, FALSE) = SubSeq(t, 1, e) \o SubSeq(t, f, n)
        BY <2>4, <3>1 DEF Pieces
      <3> QED BY <3>2 DEF e, f
    <2>6. (\A i \in 1 .. c - 1 : t[i] \in Clean) /\ (\A i \in c + 2 .. n : t[i] \in Clean)
      BY <1>0, <2>1, <2>2 DEF SpelledFacts
    <2>7. p \in Seq(Clean) /\ q \in Seq(Clean)
      <3>1. c - 1 \in Int /\ c + 2 \in Int /\ 1 <= c + 2 /\ c - 1 <= n
        BY <1>0, <2>2
      <3> QED BY <1>0, <2>6, <3>1, CleanRange
    <2>8. t = (p \o Stray) \o q
      <3>1. \A k \in Nat, j \in Nat : k <= Len(t) /\ j \in 1 .. k - 1 =>
              SubSeq(t, 1, k)
                = (SubSeq(t, 1, j - 1) \o <<t[j], t[j + 1]>>) \o SubSeq(t, j + 2, k)
        BY AroundTag
      <3>2. SubSeq(t, 1, n) = t /\ n <= Len(t) /\ c \in Nat
        BY <1>0, <2>2
      <3> HIDE DEF n
      <3>3. SubSeq(t, 1, n)
              = (SubSeq(t, 1, c - 1) \o <<t[c], t[c + 1]>>) \o SubSeq(t, c + 2, n)
        BY <1>0, <2>2, <3>1, <3>2
      <3> QED BY <2>2, <3>2, <3>3 DEF Stray
    <2> QED BY <1>3, <2>5, <2>7, <2>8
  <1> QED BY <1>5, <1>6

LEMMA PiecesTwo ==
  ASSUME NEW t \in Seq(Piece \cup Tag), NEW b
  PROVE  \A u, v, x, y : TwoRanges(Wanted(t, b), u, v, x, y, Len(t)) =>
           Pieces(t, b) = SubSeq(t, u, v) \o SubSeq(t, x, y)
  <1>1. \A V, u, v, x, y : TwoRanges(V, u, v, x, y, Len(t)) =>
          Selected(t, V) = SubSeq(t, u, v) \o SubSeq(t, x, y)
    BY SelectedRanges
  <1> QED BY <1>1, Zenon DEF Pieces

LEMMA PiecesOne ==
  ASSUME NEW t \in Seq(Piece \cup Tag), NEW b
  PROVE  \A u, v : OneRange(Wanted(t, b), u, v, Len(t)) => Pieces(t, b) = SubSeq(t, u, v)
  <1>1. \A V, u, v : OneRange(V, u, v, Len(t)) => Selected(t, V) = SubSeq(t, u, v)
    BY SelectedInRange
  <1> QED BY <1>1, Zenon DEF Pieces

\* Wanted of a block that is closed, and of one that is not.
ClosedBlock(t, s, c) ==
  Opens(t) = {s} /\ Closes(t) = {c} /\ s < c

OpenBlock(t, s) ==
  Opens(t) = {s} /\ \A c \in Closes(t) : c < s

LEMMA ClosedSplit ==
  ASSUME NEW t \in Seq(Piece \cup Tag), SpelledFacts(t), NEW s, NEW c, ClosedBlock(t, s, c)
  PROVE  /\ Pieces(t, TRUE) = SubSeq(t, s + 2, c - 1)
         /\ Pieces(t, FALSE) = SubSeq(t, 1, s - 1) \o SubSeq(t, c + 2, Len(t))
         /\ SubSeq(t, 1, s - 1) \in Seq(Clean) /\ SubSeq(t, c + 2, Len(t)) \in Seq(Clean)
  <1> DEFINE n == Len(t)
             e == s - 1
             f == c + 2
             g == s + 2
             h == c - 1
  <1>0. n \in Nat
    OBVIOUS
  <1>1. Opens(t) = {s} /\ Closes(t) = {c}
    BY DEF ClosedBlock
  <1>2. s \in 1 .. n - 1 /\ c \in 1 .. n - 1 /\ s + 1 < c
    <2>1. s \in 1 .. n - 1 /\ c \in 1 .. n - 1 /\ (s + 1 < c \/ c + 1 < s)
      BY <1>1 DEF SpelledFacts
    <2> HIDE DEF n
    <2> QED BY <1>0, <2>1 DEF ClosedBlock
  <1>3. \A i : Inside(t, i) <=> (s < i /\ ~(s < c /\ c < i))
    BY <1>1 DEF SpelledFacts
  <1>4. \A b : Wanted(t, b) = {i \in 1 .. n : /\ i \notin {s, c} /\ i - 1 \notin {s, c}
                                              /\ Inside(t, i) <=> b}
    BY <1>1 DEF SpelledFacts
  <1>5. \A i \in 1 .. n : i \in {s, c} \/ i - 1 \in {s, c} \/ t[i] \in Clean
    BY <1>1 DEF SpelledFacts
  <1>6. Wanted(t, TRUE) = g .. h
    <2>1. \A i \in 1 .. n : (/\ i \notin {s, c} /\ i - 1 \notin {s, c}
                             /\ Inside(t, i) <=> TRUE) <=> i \in g .. h
      <3> HIDE DEF n
      <3> QED BY <1>0, <1>2, <1>3
    <2>2. g .. h \subseteq 1 .. n
      <3> HIDE DEF n
      <3> QED BY <1>0, <1>2
    <2> HIDE DEF n, g, h
    <2> QED BY <1>4, <2>1, <2>2
  <1>7. Wanted(t, FALSE) = (1 .. e) \cup (f .. n)
    <2>1. \A i \in 1 .. n : (/\ i \notin {s, c} /\ i - 1 \notin {s, c}
                             /\ Inside(t, i) <=> FALSE) <=> i \in (1 .. e) \cup (f .. n)
      <3> HIDE DEF n
      <3> QED BY <1>0, <1>2, <1>3
    <2>2. (1 .. e) \cup (f .. n) \subseteq 1 .. n
      <3> HIDE DEF n
      <3> QED BY <1>0, <1>2
    <2> HIDE DEF n, e, f
    <2> QED BY <1>4, <2>1, <2>2
  <1>8. OneRange(Wanted(t, TRUE), g, h, Len(t))
    <2>1. g \in Nat /\ h \in Nat /\ 1 <= g /\ g <= h + 1 /\ h <= Len(t)
      BY <1>0, <1>2
    <2> QED BY <1>6, <2>1, Zenon DEF OneRange
  <1>9. TwoRanges(Wanted(t, FALSE), 1, e, f, n, Len(t))
    <2>1. Apart(1, e, f, n)
      <3> HIDE DEF n
      <3> QED BY <1>0, <1>2 DEF Apart
    <2>2. n <= Len(t)
      BY <1>0
    <2> QED BY <1>7, <2>1, <2>2, Zenon DEF TwoRanges
  <1>10. SubSeq(t, 1, e) \in Seq(Clean) /\ SubSeq(t, f, n) \in Seq(Clean)
    <2>1. /\ \A i \in 1 .. e : t[i] \in Clean
          /\ \A i \in f .. n : t[i] \in Clean
      <3> HIDE DEF n
      <3> QED BY <1>0, <1>2, <1>5
    <2>2. e \in Int /\ f \in Int /\ 1 <= f /\ e <= Len(t) /\ n <= Len(t)
      BY <1>0, <1>2
    <2> QED BY <1>0, <2>1, <2>2, CleanRange
  <1> HIDE DEF n, e, f, g, h
  <1>11. Pieces(t, TRUE) = SubSeq(t, g, h)
    BY <1>8, PiecesOne
  <1>12. Pieces(t, FALSE) = SubSeq(t, 1, e) \o SubSeq(t, f, n)
    <2>1. \A u, v, x, y : TwoRanges(Wanted(t, FALSE), u, v, x, y, Len(t)) =>
            Pieces(t, FALSE) = SubSeq(t, u, v) \o SubSeq(t, x, y)
      BY PiecesTwo
    <2> QED BY <1>9, <2>1
  <1> QED BY <1>10, <1>11, <1>12 DEF n, e, f, g, h

LEMMA OpenSplit ==
  ASSUME NEW t \in Seq(Piece \cup Tag), SpelledFacts(t), NEW s, OpenBlock(t, s)
  PROVE  /\ Pieces(t, TRUE) = SubSeq(t, s + 2, Len(t))
         /\ \E p, q \in Seq(Clean) :
              /\ Pieces(t, FALSE) = p \o q
              /\ SubSeq(t, 1, s - 1) = p \o q \/ SubSeq(t, 1, s - 1) = (p \o Stray) \o q
  <1> DEFINE n == Len(t)
             d == s - 1
             g == s + 2
  <1>0. n \in Nat /\ t \in Seq(Piece \cup Tag)
    OBVIOUS
  <1>1. Opens(t) = {s} /\ \A c \in Closes(t) : c \in 1 .. n - 1 /\ c + 1 < s
    <2>1. Opens(t) = {s} /\ \A c \in Closes(t) : c < s
      BY DEF OpenBlock
    <2>2. s \in 1 .. n - 1
      BY <2>1 DEF SpelledFacts
    <2>3. \A c \in Closes(t) : c \in 1 .. n - 1 /\ (s + 1 < c \/ c + 1 < s)
      BY <2>1 DEF SpelledFacts
    <2> HIDE DEF n
    <2> QED BY <1>0, <2>1, <2>2, <2>3
  <1>2. s \in 1 .. n - 1
    BY <1>1 DEF SpelledFacts
  <1>3. \A i : Inside(t, i) <=> (s < i /\ \A c \in Closes(t) : ~(s < c /\ c < i))
    BY <1>1 DEF SpelledFacts
  <1>4. \A i \in 1 .. n : Inside(t, i) <=> s < i
    <2> HIDE DEF n
    <2> QED BY <1>0, <1>1, <1>2, <1>3
  <1>5. \A b : Wanted(t, b) = {i \in 1 .. n : /\ i # s /\ i - 1 # s
                                              /\ i \notin Closes(t) /\ i - 1 \notin Closes(t)
                                              /\ Inside(t, i) <=> b}
    BY <1>1 DEF SpelledFacts
  <1>6. \A i \in 1 .. n : i = s \/ i - 1 = s \/ i \in Closes(t) \/ i - 1 \in Closes(t)
                            \/ t[i] \in Clean
    BY <1>1 DEF SpelledFacts
  <1>7. Pieces(t, TRUE) = SubSeq(t, g, n)
    <2>1. \A i \in 1 .. n : (/\ i # s /\ i - 1 # s
                             /\ i \notin Closes(t) /\ i - 1 \notin Closes(t)
                             /\ Inside(t, i) <=> TRUE) <=> i \in g .. n
      <3> HIDE DEF n
      <3> QED BY <1>0, <1>1, <1>2, <1>4
    <2>2. g .. n \subseteq 1 .. n
      <3> HIDE DEF n
      <3> QED BY <1>0, <1>2
    <2>3. Wanted(t, TRUE) = g .. n
      <3> HIDE DEF n, g
      <3> QED BY <1>5, <2>1, <2>2
    <2>4. g \in Nat /\ n \in Nat /\ 1 <= g /\ g <= n + 1 /\ n <= Len(t)
      BY <1>0, <1>2
    <2>5. OneRange(Wanted(t, TRUE), g, n, Len(t))
      BY <2>3, <2>4, Zenon DEF OneRange
    <2> HIDE DEF n, g
    <2> QED BY <2>5, PiecesOne
  <1>8. CASE Closes(t) = {}
    <2>1. \A i \in 1 .. n : (/\ i # s /\ i - 1 # s
                             /\ i \notin Closes(t) /\ i - 1 \notin Closes(t)
                             /\ Inside(t, i) <=> FALSE) <=> i \in 1 .. d
      <3> HIDE DEF n
      <3> QED BY <1>0, <1>2, <1>4, <1>8
    <2>2. 1 .. d \subseteq 1 .. n
      <3> HIDE DEF n
      <3> QED BY <1>0, <1>2
    <2>3. Wanted(t, FALSE) = 1 .. d
      <3> HIDE DEF n, d
      <3> QED BY <1>5, <2>1, <2>2
    <2>4. 1 \in Nat /\ d \in Nat /\ 1 <= 1 /\ 1 <= d + 1 /\ d <= Len(t)
      BY <1>0, <1>2
    <2>5. OneRange(Wanted(t, FALSE), 1, d, Len(t))
      BY <2>3, <2>4, Zenon DEF OneRange
    <2>6. \A i \in 1 .. d : t[i] \in Clean
      <3> HIDE DEF n
      <3> QED BY <1>0, <1>2, <1>6, <1>8
    <2> DEFINE p == SubSeq(t, 1, d)
    <2>7. p \in Seq(Clean)
      BY <1>0, <2>4, <2>6, CleanRange
    <2>8. Pieces(t, FALSE) = p
      <3> HIDE DEF d
      <3> QED BY <2>5, PiecesOne
    <2>9. p = p \o << >> /\ << >> \in Seq(Clean)
      <3> HIDE DEF p, Clean
      <3> QED BY <2>7
    <2> QED BY <1>7, <2>7, <2>8, <2>9
  <1>9. CASE Closes(t) # {}
    <2>1. PICK c \in Closes(t) : Closes(t) = {c}
      BY <1>9 DEF SpelledFacts
    <2>2. /\ c \in 1 .. n - 1 /\ c + 1 < s
          /\ t[c] = CloseTag[1] /\ t[c + 1] = CloseTag[2]
      BY <1>1 DEF SpelledFacts
    <2> DEFINE e == c - 1
               f == c + 2
    <2>3. \A i \in 1 .. n : (/\ i # s /\ i - 1 # s
                             /\ i \notin Closes(t) /\ i - 1 \notin Closes(t)
                             /\ Inside(t, i) <=> FALSE) <=> i \in (1 .. e) \cup (f .. d)
      <3> HIDE DEF n
      <3> QED BY <1>0, <1>2, <1>4, <2>1, <2>2
    <2>4. (1 .. e) \cup (f .. d) \subseteq 1 .. n
      <3> HIDE DEF n
      <3> QED BY <1>0, <1>2, <2>2
    <2>5. Wanted(t, FALSE) = (1 .. e) \cup (f .. d)
      <3> HIDE DEF n, d, e, f
      <3> QED BY <1>5, <2>3, <2>4
    <2>6. Apart(1, e, f, d)
      <3> HIDE DEF n
      <3> QED BY <1>0, <1>2, <2>2 DEF Apart
    <2>7. d <= Len(t)
      BY <1>0, <1>2
    <2>8. TwoRanges(Wanted(t, FALSE), 1, e, f, d, Len(t))
      BY <2>5, <2>6, <2>7, Zenon DEF TwoRanges
    <2> DEFINE p == SubSeq(t, 1, e)
               q == SubSeq(t, f, d)
    <2>9. Pieces(t, FALSE) = p \o q
      <3> HIDE DEF d, e, f
      <3>1. \A u, v, x, y : TwoRanges(Wanted(t, FALSE), u, v, x, y, Len(t)) =>
            Pieces(t, FALSE) = SubSeq(t, u, v) \o SubSeq(t, x, y)
        BY PiecesTwo
      <3> QED BY <2>8, <3>1
    <2>10. (\A i \in 1 .. e : t[i] \in Clean) /\ (\A i \in f .. d : t[i] \in Clean)
      <3> HIDE DEF n
      <3> QED BY <1>0, <1>2, <1>6, <2>1, <2>2
    <2>11. p \in Seq(Clean) /\ q \in Seq(Clean)
      <3>1. /\ e \in Int /\ f \in Int /\ d \in Int
            /\ 1 <= f /\ e <= Len(t) /\ d <= Len(t)
        BY <1>0, <1>2, <2>2
      <3> QED BY <1>0, <2>10, <3>1, CleanRange
    <2>12. SubSeq(t, 1, d) = (p \o Stray) \o q
      <3>1. \A k \in Nat, j \in Nat : k <= Len(t) /\ j \in 1 .. k - 1 =>
              SubSeq(t, 1, k)
                = (SubSeq(t, 1, j - 1) \o <<t[j], t[j + 1]>>) \o SubSeq(t, j + 2, k)
        BY AroundTag
      <3>2. d \in Nat /\ d <= Len(t) /\ c \in Nat /\ c \in 1 .. d - 1
        BY <1>0, <1>2, <2>2
      <3> HIDE DEF n, d
      <3>3. SubSeq(t, 1, d)
              = (SubSeq(t, 1, c - 1) \o <<t[c], t[c + 1]>>) \o SubSeq(t, c + 2, d)
        BY <3>1, <3>2
      <3> QED BY <2>2, <3>3 DEF Stray
    <2> QED BY <1>7, <2>9, <2>11, <2>12
  <1> QED BY <1>8, <1>9

LEMMA CleanHasNoTag ==
  ASSUME NEW s \in Seq(Clean)
  PROVE  ~Has(s, OpenTag) /\ ~Has(s, CloseTag)
  <1>1. \A i \in 1 .. Len(s) : s[i] \in Clean
    OBVIOUS
  <1>2. \A i \in 1 .. Len(s) : s[i] # OpenTag[1] /\ s[i] # CloseTag[1]
    BY <1>1 DEF Clean, Halves
  <1> QED BY <1>2 DEF Has, IsAt

\* A closing tag between clean pieces is found there, and erasing it joins them.
StrayBetween(p, q, w) ==
  /\ Len(p) \in Nat
  /\ IsAt(w, CloseTag, Len(p) + 1)
  /\ \A i : IsAt(w, CloseTag, i) => i = Len(p) + 1
  /\ SubSeq(w, 1, Len(p)) = p /\ SubSeq(w, Len(p) + 3, Len(w)) = q

LEMMA StrayIsBetween ==
  ASSUME NEW p \in Seq(Clean), NEW q \in Seq(Clean), NEW w, w = (p \o Stray) \o q
  PROVE  StrayBetween(p, q, w)
  <1> DEFINE S == Clean \cup Halves
             n == Len(p)
             ps == p \o Stray
             m == Len(q)
  <1>1. /\ n \in Nat /\ m \in Nat /\ p \in Seq(S) /\ q \in Seq(S)
        /\ Stray \in Seq(S) /\ Len(Stray) = 2
        /\ Stray[1] = CloseTag[1] /\ Stray[2] = CloseTag[2]
    <2>1. CloseTag[1] \in S /\ CloseTag[2] \in S
      BY DEF Halves
    <2>2. Clean \subseteq S
      OBVIOUS
    <2> HIDE DEF S
    <2>3. Stray \in Seq(S) /\ Len(Stray) = 2
      BY <2>1 DEF Stray
    <2>4. Stray[1] = CloseTag[1] /\ Stray[2] = CloseTag[2]
      BY DEF Stray
    <2>5. p \in Seq(S) /\ q \in Seq(S)
      BY <2>2
    <2> QED BY <2>3, <2>4, <2>5
  <1>2. \A i \in 1 .. n : p[i] \in Clean
    OBVIOUS
  <1>3. \A i \in 1 .. m : q[i] \in Clean
    OBVIOUS
  <1>4. \A x \in Clean : x # CloseTag[1]
    BY DEF Clean, Halves
  <1>5. CloseTag[2] # CloseTag[1]
    BY HalvesAreFour DEF HalvesDiffer
  <1> HIDE DEF S
  <1>6. CatFacts(S, p, Stray, ps)
    BY <1>1, CatIs
  <1>7. ps \in Seq(S) /\ Len(ps) = n + 2
    <2> HIDE DEF ps
    <2> QED BY <1>1, <1>6 DEF CatFacts
  <1>8. CatFacts(S, ps, q, w)
    <2>1. w = ps \o q
      OBVIOUS
    <2> HIDE DEF ps
    <2> QED BY <1>1, <1>7, <2>1, CatIs
  <1> HIDE DEF ps
  <1>9. w \in Seq(S) /\ Len(w) = n + 2 + m
    BY <1>1, <1>7, <1>8 DEF CatFacts
  <1>10. ASSUME NEW i \in 1 .. n PROVE w[i] = p[i]
    <2>1. i \in 1 .. Len(ps) /\ i \in 1 .. Len(p)
      BY <1>1, <1>7
    <2>2. w[i] = ps[i] /\ ps[i] = p[i]
      BY <1>6, <1>8, <2>1 DEF CatFacts
    <2> QED BY <2>2
  <1>11. w[n + 1] = CloseTag[1] /\ w[n + 2] = CloseTag[2]
    <2>1. n + 1 \in 1 .. Len(ps) /\ n + 2 \in 1 .. Len(ps)
      BY <1>1, <1>7
    <2>2. w[n + 1] = ps[n + 1] /\ w[n + 2] = ps[n + 2]
      BY <1>8, <2>1 DEF CatFacts
    <2>3. /\ n + 1 \in Len(p) + 1 .. Len(p) + Len(Stray)
          /\ n + 2 \in Len(p) + 1 .. Len(p) + Len(Stray)
      BY <1>1
    <2>4. ps[n + 1] = Stray[(n + 1) - Len(p)] /\ ps[n + 2] = Stray[(n + 2) - Len(p)]
      BY <1>6, <2>3 DEF CatFacts
    <2>5. (n + 1) - Len(p) = 1 /\ (n + 2) - Len(p) = 2
      BY <1>1
    <2> QED BY <1>1, <2>2, <2>4, <2>5
  <1>12. ASSUME NEW i \in 1 .. m PROVE w[n + 2 + i] = q[i]
    <2>1. n + 2 + i \in Len(ps) + 1 .. Len(ps) + Len(q) /\ (n + 2 + i) - Len(ps) = i
      BY <1>1, <1>7
    <2>2. w[n + 2 + i] = q[(n + 2 + i) - Len(ps)]
      BY <1>8, <2>1 DEF CatFacts
    <2> QED BY <2>1, <2>2
  <1>13. IsAt(w, CloseTag, n + 1)
    <2>1. n + 1 \in 1 .. Len(w) - 1 /\ (n + 1) + 1 = n + 2
      BY <1>1, <1>9
    <2> QED BY <1>11, <2>1 DEF IsAt
  <1>14. ASSUME NEW i, IsAt(w, CloseTag, i) PROVE i = n + 1
    <2>1. i \in 1 .. n + 1 + m /\ w[i] = CloseTag[1]
      BY <1>1, <1>9, <1>14 DEF IsAt
    <2>2. ~(i \in 1 .. n)
      BY <1>2, <1>4, <1>10, <2>1
    <2>3. i # n + 2
      BY <1>5, <1>11, <2>1
    <2>4. ~(i > n + 2)
      <3> SUFFICES ASSUME i > n + 2 PROVE FALSE
        OBVIOUS
      <3>1. i - (n + 2) \in 1 .. m /\ n + 2 + (i - (n + 2)) = i
        BY <1>1, <2>1
      <3>2. w[i] = q[i - (n + 2)]
        BY <1>12, <3>1
      <3> QED BY <1>3, <1>4, <2>1, <3>1, <3>2
    <2> HIDE DEF n, m
    <2> QED BY <1>1, <2>1, <2>2, <2>3, <2>4
  <1>15. SubSeq(w, 1, n) = p
    <2> DEFINE u == SubSeq(w, 1, n)
    <2>1. u \in Seq(S) /\ Len(u) = n /\ \A i \in 1 .. n : u[i] = w[i]
      BY <1>1, <1>9
    <2> HIDE DEF u
    <2>2. SameCells(S, u, p)
      BY <1>1, <1>10, <2>1 DEF SameCells
    <2>3. u = p
      BY <2>2, SameSeq
    <2> QED BY <2>3 DEF u
  <1>16. SubSeq(w, n + 3, Len(w)) = q
    <2> DEFINE u == SubSeq(w, n + 3, Len(w))
    <2>1. u \in Seq(S) /\ Len(u) = m /\ \A i \in 1 .. m : u[i] = w[n + 2 + i]
      <3> DEFINE k == n + 3
      <3>1. k \in Nat /\ 1 <= k /\ k <= Len(w) + 1 /\ Len(w) \in Nat
        BY <1>1, <1>9
      <3>2. w \in Seq(S)
        BY <1>9
      <3>3. Len(w) - k + 1 = m /\ \A i \in 1 .. m : k + i - 1 = n + 2 + i
        BY <1>1, <1>9
      <3> HIDE DEF k
      <3>4. /\ SubSeq(w, k, Len(w)) \in Seq(S) /\ Len(SubSeq(w, k, Len(w))) = Len(w) - k + 1
            /\ \A i \in 1 .. Len(w) - k + 1 : SubSeq(w, k, Len(w))[i] = w[k + i - 1]
        BY <3>1, <3>2
      <3>5. u = SubSeq(w, k, Len(w))
        BY DEF k
      <3> HIDE DEF u
      <3> QED BY <3>3, <3>4, <3>5
    <2> HIDE DEF u
    <2>2. SameCells(S, u, q)
      BY <1>1, <1>12, <2>1 DEF SameCells
    <2>3. u = q
      BY <2>2, SameSeq
    <2> QED BY <2>3 DEF u
  <1> QED BY <1>1, <1>13, <1>14, <1>15, <1>16 DEF StrayBetween

\* extract_block leaves the right reasoning, and a text that is right but for one tag.
LEMMA ExtractSplit ==
  ASSUME TypeOK, TagsSplit, SpelledSplit, PlainTags(tokens), extract_block
  PROVE  /\ reasoning_content' = Pieces(tokens, TRUE)
         /\ \E p, q \in Seq(Clean) :
              /\ Pieces(tokens, FALSE) = p \o q
              /\ text' = p \o q \/ text' = (p \o Stray) \o q
  <1>0. /\ tokens \in Seq(Piece \cup Tag) /\ text \in Seq(Piece)
        /\ ~Has(text, OpenTag) => text' = text /\ reasoning_content' = reasoning_content
    BY Zenon DEF TypeOK, extract_block
  <1>1. CASE TagTokensOnly(tokens)
    <2>1. /\ text = Pieces(tokens, FALSE) /\ reasoning_content = Pieces(tokens, TRUE)
          /\ text \in Seq(Clean)
      BY <1>1 DEF TagsSplit
    <2>2. text' = text /\ reasoning_content' = reasoning_content
      BY <1>0, <2>1, CleanHasNoTag
    <2>3. text = text \o << >> /\ << >> \in Seq(Clean)
      <3> HIDE DEF Clean
      <3> QED BY <2>1
    <2> QED BY <2>1, <2>2, <2>3
  <1>2. CASE ~TagTokensOnly(tokens)
    <2>1. SpelledOnly(tokens)
      BY <1>2 DEF PlainTags
    <2>2. text = tokens /\ reasoning_content = << >>
      BY <2>1 DEF SpelledSplit
    <2>3. SpelledFacts(tokens)
      BY <1>0, <1>2, <2>1, SpelledHas
    <2>4. /\ \A i : IsAt(text, OpenTag, i) <=> i \in Opens(tokens)
          /\ \A i : IsAt(text, CloseTag, i) <=> i \in Closes(tokens)
          /\ Opens(tokens) \subseteq 1 .. Len(text) - 1
          /\ Closes(tokens) \subseteq 1 .. Len(text) - 1
          /\ \A i, j \in Opens(tokens) : i = j
          /\ \A i, j \in Closes(tokens) : i = j
      BY <2>2, <2>3 DEF SpelledFacts
    <2>5. CASE Opens(tokens) = {}
      <3>1. ~Has(text, OpenTag)
        BY <2>4, <2>5 DEF Has
      <3>2. text' = tokens /\ reasoning_content' = << >>
        BY <1>0, <2>2, <3>1
      <3>3. /\ Pieces(tokens, TRUE) = << >>
            /\ \E p, q \in Seq(Clean) :
                 /\ Pieces(tokens, FALSE) = p \o q
                 /\ tokens = p \o q \/ tokens = (p \o Stray) \o q
        BY <1>0, <2>3, <2>5, NoBlock
      <3> QED BY <3>2, <3>3
    <2>6. CASE Opens(tokens) # {}
      <3> DEFINE s == Find(text, OpenTag)
                 e == Find(text, CloseTag)
                 closed == Has(text, CloseTag) /\ e >= s
                 block == IF closed THEN SubSeq(text, s + 2, e - 1)
                                    ELSE SubSeq(text, s + 2, Len(text))
      <3>1. Has(text, OpenTag)
        BY <2>4, <2>6 DEF Has, IsAt
      <3>2. s \in Opens(tokens) /\ Opens(tokens) = {s}
        <4>1. IsAt(text, OpenTag, s)
          BY <1>0, <3>1, FindFacts
        <4> HIDE DEF s
        <4> QED BY <2>4, <4>1
      <3>3. /\ reasoning_content' = block
            /\ text' = IF closed THEN Erase(text, s, e + 1) ELSE UnclosedText(s)
        BY <2>2, <3>1, Zenon DEF extract_block
      <3>4. Has(text, CloseTag) => e \in Closes(tokens) /\ Closes(tokens) = {e}
        <4> SUFFICES ASSUME Has(text, CloseTag)
                     PROVE  e \in Closes(tokens) /\ Closes(tokens) = {e}
          OBVIOUS
        <4>1. IsAt(text, CloseTag, e)
          BY <1>0, FindFacts
        <4> HIDE DEF e
        <4> QED BY <2>4, <4>1
      <3>5. CASE closed
        <4>1. ClosedBlock(tokens, s, e)
          <5>1. Opens(tokens) = {s} /\ Closes(tokens) = {e} /\ e >= s
            BY <3>2, <3>4, <3>5
          <5>2. s + 1 < e \/ e + 1 < s
            BY <2>3, <5>1 DEF SpelledFacts
          <5>3. s \in Nat /\ e \in Nat
            <6> HIDE DEF s, e
            <6> QED BY <2>4, <5>1
          <5>4. s < e
            <6> HIDE DEF s, e
            <6> QED BY <5>1, <5>2, <5>3
          <5> QED BY <5>1, <5>4, Zenon DEF ClosedBlock
        <4> HIDE DEF s, e
        <4>2. /\ Pieces(tokens, TRUE) = SubSeq(tokens, s + 2, e - 1)
              /\ Pieces(tokens, FALSE)
                   = SubSeq(tokens, 1, s - 1) \o SubSeq(tokens, e + 2, Len(tokens))
              /\ SubSeq(tokens, 1, s - 1) \in Seq(Clean)
              /\ SubSeq(tokens, e + 2, Len(tokens)) \in Seq(Clean)
          BY <1>0, <2>3, <4>1, ClosedSplit
        <4>3. /\ reasoning_content' = SubSeq(tokens, s + 2, e - 1)
              /\ text' = Erase(tokens, s, e + 1)
          BY <2>2, <3>3, <3>5
        <4>4. (e + 1) + 1 = e + 2
          BY <2>4, <3>4, <3>5
        <4>5. Erase(tokens, s, e + 1)
                = SubSeq(tokens, 1, s - 1) \o SubSeq(tokens, e + 2, Len(tokens))
          BY <4>4 DEF Erase
        <4> QED BY <4>2, <4>3, <4>5
      <3>6. CASE ~closed
        <4>1. OpenBlock(tokens, s)
          <5>1. ASSUME NEW c \in Closes(tokens) PROVE c < s
            <6>1. Has(text, CloseTag)
              BY <2>4 DEF Has, IsAt
            <6>2. c = e /\ ~(e >= s)
              BY <3>4, <3>6, <6>1
            <6>3. c \in Nat /\ s \in Nat
              <7> HIDE DEF s
              <7> QED BY <2>4, <3>2
            <6> HIDE DEF s, e
            <6> QED BY <6>2, <6>3
          <5> HIDE DEF s
          <5> QED BY <3>2, <5>1 DEF OpenBlock
        <4>2. /\ reasoning_content' = SubSeq(tokens, s + 2, Len(tokens))
              /\ text' = SubSeq(tokens, 1, s - 1)
          BY <2>2, <3>3, <3>6 DEF UnclosedText
        <4> HIDE DEF s, e
        <4>3. /\ Pieces(tokens, TRUE) = SubSeq(tokens, s + 2, Len(tokens))
              /\ \E p, q \in Seq(Clean) :
                   /\ Pieces(tokens, FALSE) = p \o q
                   /\ SubSeq(tokens, 1, s - 1) = p \o q
                      \/ SubSeq(tokens, 1, s - 1) = (p \o Stray) \o q
          BY <1>0, <2>3, <4>1, OpenSplit
        <4> QED BY <4>2, <4>3
      <3> QED BY <3>5, <3>6
    <2> QED BY <2>5, <2>6
  <1> QED BY <1>1, <1>2

\* One iteration of the loop over stray tags, and the end of it.
LEMMA StrayFound ==
  ASSUME TypeOK, OneStray, Has(text, CloseTag)
  PROVE  \E p, q \in Seq(Clean) :
           /\ Pieces(tokens, FALSE) = p \o q /\ text = (p \o Stray) \o q
           /\ Erase(text, Find(text, CloseTag), Find(text, CloseTag) + 1) = p \o q
  <1>1. PICK p \in Seq(Clean), q \in Seq(Clean) :
          Pieces(tokens, FALSE) = p \o q /\ (text = p \o q \/ text = (p \o Stray) \o q)
    BY DEF OneStray
  <1>2. p \o q \in Seq(Clean)
    <2> DEFINE S == Clean
    <2>1. p \in Seq(S) /\ q \in Seq(S)
      OBVIOUS
    <2> HIDE DEF S
    <2>2. p \o q \in Seq(S)
      BY <2>1
    <2> QED BY <2>2 DEF S
  <1>3. text = (p \o Stray) \o q
    BY <1>1, <1>2, CleanHasNoTag
  <1>4. StrayBetween(p, q, text)
    BY <1>3, StrayIsBetween
  <1> DEFINE k == Find(text, CloseTag)
  <1>5. IsAt(text, CloseTag, k)
    BY FindFacts DEF TypeOK
  <1>6. k = Len(p) + 1
    BY <1>4, <1>5 DEF StrayBetween
  <1> HIDE DEF k
  <1>7. k - 1 = Len(p) /\ (k + 1) + 1 = Len(p) + 3
    BY <1>4, <1>6 DEF StrayBetween
  <1>8. Erase(text, k, k + 1) = p \o q
    BY <1>4, <1>7, Zenon DEF Erase, StrayBetween
  <1> QED BY <1>1, <1>3, <1>8 DEF k

LEMMA NoStrayLeft ==
  ASSUME TypeOK, OneStray, ~Has(text, CloseTag)
  PROVE  text = Pieces(tokens, FALSE)
  <1>1. PICK p \in Seq(Clean), q \in Seq(Clean) :
          Pieces(tokens, FALSE) = p \o q /\ (text = p \o q \/ text = (p \o Stray) \o q)
    BY DEF OneStray
  <1>2. text # (p \o Stray) \o q
    <2> SUFFICES ASSUME text = (p \o Stray) \o q PROVE FALSE
      OBVIOUS
    <2>1. StrayBetween(p, q, text)
      BY StrayIsBetween
    <2>2. IsAt(text, CloseTag, Len(p) + 1)
      BY <2>1 DEF StrayBetween
    <2>3. Len(p) + 1 \in 1 .. Len(text)
      BY <2>2 DEF IsAt, TypeOK
    <2> QED BY <2>2, <2>3 DEF Has
  <1> QED BY <1>1, <1>2

LEMMA NextSplit ==
  ASSUME SplitInv, [Next]_vars
  PROVE  SplitInv'
  <1>0. TypeOK /\ RoutingInv'
    BY NextRouting DEF SplitInv, RoutingInv
  <1> USE DEF SplitInv
  <1>1. ASSUME NEW tok \in Piece \cup Tag, NEW ok \in BOOLEAN, process_token(tok, ok)
        PROVE  SplitInv'
    <2>1. phase = "tokens" /\ TagsSplit /\ SpelledSplit /\ (tokens = << >> => tokens' = <<tok>>)
      <3>1. phase = "tokens" /\ tokens' = Append(tokens, tok)
        BY <1>1, Zenon DEF process_token
      <3>2. tokens = << >> => Append(tokens, tok) = <<tok>>
        OBVIOUS
      <3> QED BY <3>1, <3>2
    <2>2. TagsSplit' /\ SpelledSplit'
      BY <1>0, <1>1, <2>1, TokenTagsSplit, TokenSpelledSplit
    <2>3. phase' \in {"tokens", "extract"} \/ (phase' = "done" /\ ~ok /\ tokens = << >>)
      BY <1>1, Zenon DEF process_token
    <2>4. CASE phase' \in {"tokens", "extract"}
      BY <1>0, <2>2, <2>4 DEF ResultSplitsAtTags
    <2>5. CASE phase' = "done" /\ ~ok /\ tokens = << >>
      <3>1. tok \notin Tag
        BY <1>1, <2>5 DEF process_token, IsTag
      <3>2. ResultSplitsAtTags'
        BY <2>1, <2>2, <2>5, <3>1, OneTokenSplit
      <3> QED BY <1>0, <2>5, <3>2
    <2> QED BY <2>3, <2>4, <2>5
  <1>2. CASE finish
    <2>1. /\ phase = "tokens" /\ TagsSplit /\ SpelledSplit
          /\ UNCHANGED <<tokens, text, reasoning_content, in_thinking>>
          /\ phase' = IF tokens = << >> THEN "done" ELSE "extract"
      BY <1>2 DEF finish
    <2>2. TagsSplit' /\ SpelledSplit'
      BY <2>1 DEF TagsSplit, SpelledSplit
    <2>3. CASE tokens # << >>
      BY <1>0, <2>1, <2>2, <2>3 DEF ResultSplitsAtTags
    <2>4. CASE tokens = << >>
      <3>1. SpelledOnly(tokens) /\ text = << >> /\ reasoning_content = << >>
        BY <2>1, <2>4 DEF SpelledOnly, SpelledSplit
      <3>2. Pieces(tokens, TRUE) = << >> /\ Pieces(tokens, FALSE) = << >>
        BY <2>4, NothingSelected
      <3>3. ResultSplitsAtTags'
        BY <2>1, <3>1, <3>2 DEF ResultSplitsAtTags, RefText, RefReasoning
      <3> QED BY <1>0, <2>1, <2>4, <3>3
    <2> QED BY <2>3, <2>4
  <1>7. CASE generate_throws
    <2>1. /\ phase = "tokens" /\ TagsSplit /\ phase' = "failed"
          /\ UNCHANGED <<tokens, text, reasoning_content>>
      BY <1>7 DEF generate_throws
    <2>2. TagTokensOnly(tokens)
            => text = Pieces(tokens, FALSE) /\ reasoning_content = Pieces(tokens, TRUE)
      BY <2>1 DEF TagsSplit
    <2>3. ResultSplitsAtTags'
      BY <2>1, <2>2 DEF ResultSplitsAtTags, RefReasoning
    <2> QED BY <1>0, <2>1, <2>3
  <1>3. CASE extract_block
    <2>1. /\ phase = "extract" /\ phase' = "stray" /\ tokens' = tokens
          /\ TagsSplit /\ SpelledSplit
      BY <1>3 DEF extract_block
    <2>2. ASSUME PlainTags(tokens)
          PROVE  reasoning_content' = Pieces(tokens, TRUE) /\ OneStray'
      BY <1>0, <1>3, <2>1, <2>2, ExtractSplit DEF OneStray
    <2> QED BY <1>0, <2>1, <2>2 DEF ResultSplitsAtTags
  <1>4. CASE strip_stray
    <2>1. /\ phase = "stray" /\ phase' = "stray" /\ Has(text, CloseTag)
          /\ text' = Erase(text, Find(text, CloseTag), Find(text, CloseTag) + 1)
          /\ UNCHANGED <<tokens, reasoning_content>>
      BY <1>4 DEF strip_stray
    <2>2. ASSUME PlainTags(tokens)
          PROVE  reasoning_content' = Pieces(tokens, TRUE) /\ OneStray'
      <3>1. reasoning_content = Pieces(tokens, TRUE) /\ OneStray
        BY <2>1, <2>2
      <3>2. PICK p \in Seq(Clean), q \in Seq(Clean) :
              Pieces(tokens, FALSE) = p \o q /\ text' = p \o q
        BY <1>0, <2>1, <3>1, StrayFound
      <3> QED BY <2>1, <3>1, <3>2 DEF OneStray
    <2> QED BY <1>0, <2>1, <2>2 DEF ResultSplitsAtTags
  <1>5. CASE trim_text
    <2>1. /\ phase = "stray" /\ phase' = "done" /\ ~Has(text, CloseTag)
          /\ text' = IF reasoning_content # << >> THEN TrimBreaks(text) ELSE text
          /\ UNCHANGED <<tokens, reasoning_content>>
      BY <1>5 DEF trim_text
    <2>2. ASSUME PlainTags(tokens)
          PROVE  text = Pieces(tokens, FALSE) /\ reasoning_content = Pieces(tokens, TRUE)
      BY <1>0, <2>1, <2>2, NoStrayLeft
    <2>3. ResultSplitsAtTags'
      BY <2>1, <2>2, Zenon DEF ResultSplitsAtTags, RefText, RefReasoning
    <2> QED BY <1>0, <2>1, <2>3
  <1>6. CASE UNCHANGED vars
    <2>1. TagsSplit' <=> TagsSplit
      BY <1>6 DEF vars, TagsSplit
    <2>2. SpelledSplit' <=> SpelledSplit
      BY <1>6 DEF vars, SpelledSplit
    <2>3. OneStray' <=> OneStray
      BY <1>6 DEF vars, OneStray
    <2>4. ResultSplitsAtTags' <=> ResultSplitsAtTags
      BY <1>6 DEF vars, ResultSplitsAtTags, RefText, RefReasoning
    <2> QED BY <1>0, <1>6, <2>1, <2>2, <2>3, <2>4 DEF vars
  <1> QED BY <1>1, <1>2, <1>3, <1>4, <1>5, <1>6, <1>7 DEF Next, Post

\* A completion of any length is split at the think tags of the blocks it opens, tokens
\* or one block spelled out, on every exit of generate, the early returns and the catch
\* clauses included, whatever the prompt was.
THEOREM CompletionIsSplit == Spec => []ResultSplitsAtTags
  <1>1. Init => SplitInv
    <2> SUFFICES ASSUME Init PROVE SplitInv
      OBVIOUS
    <2>1. RoutingInv /\ TagsSplit /\ SpelledSplit
      BY InitRouting, InitSplit
    <2>2. phase = "tokens"
      BY DEF Init
    <2> QED BY <2>1, <2>2 DEF SplitInv, ResultSplitsAtTags
  <1>2. SplitInv /\ [Next]_vars => SplitInv'
    BY NextSplit
  <1>3. SplitInv => ResultSplitsAtTags
    BY DEF SplitInv
  <1> QED BY <1>1, <1>2, <1>3, PTL DEF Spec
=============================================================================
