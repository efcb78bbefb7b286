---------------------------- MODULE OutputRouting ----------------------------
(***************************************************************************)
(* Where the text of a completion goes: generate's process_token and its   *)
(* post-processing (src/runtime/engine.cpp), and the SSE token callback    *)
(* the server passes to it (src/serve/server.cpp).                         *)
(*                                                                         *)
(* A token stands for its decoded piece.  The two think tags are tokens of *)
(* their own; a model may also spell a tag from ordinary pieces, here two  *)
(* halves, which process_token does not recognise and the post-processing  *)
(* looks for in the text.  generate never looks at the prompt: a block the *)
(* template has opened there (enable_thinking, the default) is not one of  *)
(* its blocks, and in_thinking starts FALSE.                               *)
(***************************************************************************)
EXTENDS Integers, Sequences, FiniteSets

CONSTANTS
  Open, Close,      \* think_start_tok, think_end_tok
  OpenTag, CloseTag,\* the pieces that spell "<think>" and "</think>"
  Break,            \* a piece of line ends
  Word,             \* any other text
  MaxTokens         \* bound on tokens sampled

Halves == {OpenTag[1], OpenTag[2], CloseTag[1], CloseTag[2]}
Piece == Halves \cup {Break, Word}
Tag == {Open, Close}

ASSUME OutputRoutingAssumption ==
  /\ Len(OpenTag) = 2 /\ Len(CloseTag) = 2
  /\ Cardinality(Halves) = 4 /\ Cardinality(Piece \cup Tag) = 8
  /\ MaxTokens \in Nat

VARIABLES
  phase,                \* "tokens", "extract", "stray" (closing tags), "done",
                        \* "failed" (success = false)
  streaming,            \* req.stream: generate is given the SSE callback
  halted,               \* a send failed and the callback returned FALSE
  tokens,               \* result.token_ids
  in_thinking,
  text,                 \* result.text
  reasoning_content,    \* result.reasoning_content
  stream_in_thinking,
  sent                  \* delta chunks the client received

vars == <<phase, streaming, halted, tokens, in_thinking, text,
          reasoning_content, stream_in_thinking, sent>>

Chunk == [field : {"content", "reasoning_content"}, piece : Piece]

Init ==
  /\ phase = "tokens"
  /\ streaming \in BOOLEAN
  /\ halted = FALSE
  /\ tokens = << >>
  /\ in_thinking = FALSE /\ stream_in_thinking = FALSE
  /\ text = << >> /\ reasoning_content = << >>
  /\ sent = << >>

-----------------------------------------------------------------------------
(***************************************************************************)
(* std::string::find and erase, on sequences of pieces.                    *)
(***************************************************************************)
IsAt(s, tag, i) ==
  i \in 1 .. Len(s) - 1 /\ s[i] = tag[1] /\ s[i + 1] = tag[2]

Has(s, tag) == \E i \in 1 .. Len(s) : IsAt(s, tag, i)

\* The first occurrence, for a tag that occurs.
Find(s, tag) ==
  CHOOSE i \in 1 .. Len(s) :
    IsAt(s, tag, i) /\ \A j \in 1 .. i - 1 : ~IsAt(s, tag, j)

Erase(s, first, last) == SubSeq(s, 1, first - 1) \o SubSeq(s, last + 1, Len(s))

-----------------------------------------------------------------------------
\* Mutant: reasoning is not streamed.
token_callback_HidesReasoning(tok) ==
  /\ sent' = IF in_thinking THEN sent
             ELSE Append(sent, [field |-> "content", piece |-> tok])
  /\ UNCHANGED stream_in_thinking

\* The SSE callback, with a filter of its own for the tags; a chunk whose
\* send succeeds reaches the client.
token_callback(tok) ==
  IF tok \in Tag
    THEN /\ stream_in_thinking' = (tok = Open)
         /\ UNCHANGED sent
    ELSE /\ sent' = Append(sent, [field |-> IF stream_in_thinking
                                              THEN "reasoning_content"
                                              ELSE "content",
                                  piece |-> tok])
         /\ UNCHANGED stream_in_thinking

IsTag(tok) == tok \in Tag

\* A tag is recorded and switches the destination; it never reaches the
\* callback.  A FALSE from the callback ends the call, on the first token
\* without the post-processing.
process_token(tok, ok) ==
  /\ phase = "tokens" /\ Len(tokens) < MaxTokens
  /\ ok \/ (streaming /\ ~IsTag(tok))
  /\ tokens' = Append(tokens, tok)
  /\ IF IsTag(tok)
       THEN /\ in_thinking' = (tok = Open)
            /\ UNCHANGED <<text, reasoning_content, stream_in_thinking, sent>>
       ELSE /\ text' = IF in_thinking THEN text ELSE Append(text, tok)
            /\ reasoning_content' = IF in_thinking
                                      THEN Append(reasoning_content, tok)
                                      ELSE reasoning_content
            /\ IF streaming /\ ok
                 THEN token_callback(tok)
                 ELSE UNCHANGED <<stream_in_thinking, sent>>
            /\ UNCHANGED in_thinking
  /\ halted' = ~ok
  /\ phase' = CASE ok -> "tokens"
                [] ~ok /\ tokens = << >> -> "done"
                [] ~ok /\ tokens # << >> -> "extract"
  /\ UNCHANGED streaming

\* A stop token or the end of the budget; a stop token sampled first returns
\* without the post-processing.
finish ==
  /\ phase = "tokens"
  /\ phase' = IF tokens = << >> THEN "done" ELSE "extract"
  /\ UNCHANGED <<streaming, halted, tokens, in_thinking, text,
                 reasoning_content, stream_in_thinking, sent>>

\* An exception of a forward pass: the catch clauses return what there is so
\* far, without the post-processing.
generate_throws ==
  /\ phase = "tokens"
  /\ phase' = "failed"
  /\ UNCHANGED <<streaming, halted, tokens, in_thinking, text,
                 reasoning_content, stream_in_thinking, sent>>

\* Mutant: an unclosed block keeps its text.
UnclosedText_Kept(s) == text

UnclosedText(s) == SubSeq(text, 1, s - 1)

\* The first spelled block moves to reasoning_content, unless that has
\* content already: then it is dropped.  A close tag before the first open
\* tag counts as none.
extract_block ==
  LET s == Find(text, OpenTag)
      e == Find(text, CloseTag)
      closed == Has(text, CloseTag) /\ e >= s
      block == IF closed THEN SubSeq(text, s + 2, e - 1)
                         ELSE SubSeq(text, s + 2, Len(text))
  IN
  /\ phase = "extract"
  /\ IF Has(text, OpenTag)
       THEN /\ reasoning_content' = IF reasoning_content = << >>
                                      THEN block ELSE reasoning_content
            /\ text' = IF closed THEN Erase(text, s, e + 1) ELSE UnclosedText(s)
       ELSE UNCHANGED <<text, reasoning_content>>
  /\ phase' = "stray"
  /\ UNCHANGED <<streaming, halted, tokens, in_thinking, stream_in_thinking, sent>>

\* Mutant: stray tags are stripped in one pass.
strip_stray_Once ==
  /\ phase = "stray" /\ Has(text, CloseTag)
  /\ text' = Erase(text, Find(text, CloseTag), Find(text, CloseTag) + 1)
  /\ phase' = "done"
  /\ UNCHANGED <<streaming, halted, tokens, in_thinking, reasoning_content,
                 stream_in_thinking, sent>>

\* Mutant: the search is repeated without erasing what it found.
strip_stray_NoErase ==
  /\ phase = "stray" /\ Has(text, CloseTag)
  /\ UNCHANGED vars

\* One iteration of the loop over stray closing tags.
strip_stray ==
  /\ phase = "stray" /\ Has(text, CloseTag)
  /\ text' = Erase(text, Find(text, CloseTag), Find(text, CloseTag) + 1)
  /\ UNCHANGED <<phase, streaming, halted, tokens, in_thinking,
                 reasoning_content, stream_in_thinking, sent>>

\* find_first_not_of("\r\n"), when there is something else.
FirstText(s) == CHOOSE i \in 1 .. Len(s) :
                  s[i] # Break /\ \A j \in 1 .. i - 1 : s[j] = Break

TrimBreaks(s) ==
  IF \E i \in 1 .. Len(s) : s[i] # Break
    THEN SubSeq(s, FirstText(s), Len(s))
    ELSE << >>

\* Line ends that followed the reasoning are removed, and generate returns.
trim_text ==
  /\ phase = "stray" /\ ~Has(text, CloseTag)
  /\ text' = IF reasoning_content # << >> THEN TrimBreaks(text) ELSE text
  /\ phase' = "done"
  /\ UNCHANGED <<streaming, halted, tokens, in_thinking, reasoning_content,
                 stream_in_thinking, sent>>

-----------------------------------------------------------------------------
Post == extract_block \/ strip_stray \/ trim_text

Next ==
  \/ \E tok \in Piece \cup Tag, ok \in BOOLEAN : process_token(tok, ok)
  \/ finish \/ generate_throws
  \/ Post

Spec == Init /\ [][Next]_vars
FairSpec == Spec /\ WF_vars(Post)

-----------------------------------------------------------------------------
\* Types of the routing state.
TypeOK ==
  /\ phase \in {"tokens", "extract", "stray", "done", "failed"}
  /\ streaming \in BOOLEAN /\ halted \in BOOLEAN
  /\ tokens \in Seq(Piece \cup Tag)
  /\ in_thinking \in BOOLEAN /\ stream_in_thinking \in BOOLEAN
  /\ text \in Seq(Piece) /\ reasoning_content \in Seq(Piece)
  /\ sent \in Seq(Chunk)

(***************************************************************************)
(* The reference: which sampled pieces lie inside a block that the         *)
(* completion opens, by position.                                          *)
(***************************************************************************)
TagsAt(s, tag, spelling) ==
  {i \in 1 .. Len(s) : s[i] = tag \/ IsAt(s, spelling, i)}
Opens(s) == TagsAt(s, Open, OpenTag)
Closes(s) == TagsAt(s, Close, CloseTag)

\* Positions taken by tags.
TagCells(s) ==
  LET tags == Opens(s) \cup Closes(s)
  IN {i \in 1 .. Len(s) : i \in tags \/ (i - 1 \in tags /\ s[i - 1] \notin Tag)}

\* The last tag before i opened a block.
Inside(s, i) ==
  \E o \in Opens(s) : o < i /\ \A c \in Closes(s) : ~(o < c /\ c < i)

\* The elements of s at the positions P, in order.
Rank(P, i) == Cardinality({j \in P : j <= i})
Selected(s, P) ==
  [k \in 1 .. Cardinality(P) |-> s[CHOOSE i \in P : Rank(P, i) = k]]

\* The sampled pieces inside blocks, or outside them, in order.
Wanted(s, inside) == {i \in 1 .. Len(s) \ TagCells(s) : Inside(s, i) <=> inside}
Pieces(s, inside) == Selected(s, Wanted(s, inside))

RefReasoning == Pieces(tokens, TRUE)
RefText == IF RefReasoning # << >> THEN TrimBreaks(Pieces(tokens, FALSE))
                                   ELSE Pieces(tokens, FALSE)

\* Tags are tokens throughout, or one block at most is spelled out, with no
\* half of a tag left over.
TagTokensOnly(s) == \A i \in 1 .. Len(s) : s[i] \notin Halves
SpelledOnly(s) == \A i \in 1 .. Len(s) : s[i] \notin Tag
PlainTags(s) ==
  \/ TagTokensOnly(s)
  \/ /\ SpelledOnly(s)
     /\ \A i \in 1 .. Len(s) : s[i] \in Halves => i \in TagCells(s)
     /\ Cardinality(Opens(s)) <= 1 /\ Cardinality(Closes(s)) <= 1

\* A completion is split at the think tags of the blocks it opens in the same way
\* whether the model emits them as tokens or spells one block out, on every exit of
\* generate that reports success, the early returns that skip the post-processing
\* included. A closing tag without such a block, as after a prompt that opened one,
\* is dropped, and what comes before it stays in the text. A call that failed
\* returns what the tag tokens so far separate, untrimmed (process_token, the
\* post-processing and the catch clauses against the tags' positions).
ResultSplitsAtTags ==
  /\ phase = "done" /\ PlainTags(tokens)
       => text = RefText /\ reasoning_content = RefReasoning
  /\ phase = "failed" /\ TagTokensOnly(tokens)
       => text = Pieces(tokens, FALSE) /\ reasoning_content = RefReasoning

\* No closing tag is left in the text of a call that succeeds, even one that forms when the tag
\* between its halves is erased (the loop over stray tags).
NoCloseTagLeaks == phase = "done" => ~Has(text, CloseTag)

\* The positions of the first k tokens that are no think tags.
Ordinary(s, k) == {i \in 1 .. k : s[i] \notin Tag}

\* Tokens whose send, if they had one, succeeded.
Delivered == Len(tokens) - IF halted THEN 1 ELSE 0

\* A streaming client receives every piece of the completion, once and in
\* order, up to the send that failed: the n-th chunk carries the n-th token
\* that is no tag, and there is no other chunk (token_callback).
StreamCarriesEveryPiece ==
  streaming =>
    /\ Len(sent) = Cardinality(Ordinary(tokens, Delivered))
    /\ \A i \in Ordinary(tokens, Delivered) :
         sent[Cardinality(Ordinary(tokens, i))].piece = tokens[i]

\* The loop over stray tags ends, and with it the call.
PostProcessEnds == phase = "extract" ~> phase = "done"
=============================================================================
