------------------------------ MODULE Tokenizer ------------------------------
(* QwenTokenizer (src/src/targets/qwen3_8/tokenizer.cpp): loading the tables of *)
(* tokenizer.json, and encode(), step by step: the text is cut at the special   *)
(* tokens, each segment is cut by split_qwen35 (a hand-written matcher of the   *)
(* regular expression in the comment above it), and each piece is turned into   *)
(* byte symbols and merged pair by pair, through the memoization cache.         *)
(* A character is an opaque code point with a category, an encoding in bytes    *)
(* and, for the code points byte_to_unicode_ uses, the byte it stands for.      *)
(* encode() is const but bpe_cache_ is mutable, and the server's workers run     *)
(* count_tokens (server.cpp:685) outside engine_mutex_: the calls of one thread  *)
(* are followed here, among other threads that use the cache without a lock.     *)
EXTENDS Integers, Sequences, FiniteSetsExt, SequencesExt

CONSTANTS
  CodePoint,    \* the characters of the texts and of the byte symbols
  Category,     \* CodePoint -> {"L", "M", "N", "Z", "P", "O"}
  LowerCase,    \* the upper case ASCII letters in use -> their lower case
  Utf8,         \* CodePoint -> its sequence of bytes (codepoint_to_utf8)
  ByteSymbol,   \* byte -> the code point that stands for it (byte_to_unicode_)
  EndOfText, ImStart, ImEnd,  \* the three special tokens load requires
  Documents,    \* Documents[n]: the tokenizer.json files load_from_file() may get in
                \* the n-th call of the tokenizer: [added, vocab, merges], and eos,
                \* the "eos_token_id" values of the config.json beside it
  EmptyLoads,   \* bound: the calls that may be a load of an empty buffer
  Texts,        \* Texts[n]: the texts encode() may get in the n-th call;
                \* Len(Texts) bounds the calls
  Others,       \* the other threads that run encode()
  OtherPieces   \* OtherPieces[n]: the pieces they may have to merge from the n-th
                \* call on, to the next one

VARIABLES
  vocab, id_to_token, bpe_ranks, bpe_cache, special_tokens, load_ok,
  calls, phase, text, pos, match, tokens,   \* encode()
  seg, cur, offsets,                          \* split_qwen35
  chunk, piece, word,                         \* bpe_merge
  other           \* of each other thread: <<>>, or the piece and word of its bpe_merge

tables == <<vocab, id_to_token, bpe_ranks, special_tokens, load_ok>>
outer == <<calls, text, pos, match, tokens>>
split == <<seg, cur, offsets>>
merge == <<chunk, piece, word>>
vars == <<tables, bpe_cache, phase, outer, split, merge, other>>

NoId == -1
Empty == [k \in {} |-> NoId]

-----------------------------------------------------------------------------
(* load_from_json_buffer *)

\* Later entries of an unordered_map overwrite earlier ones with the same key.
Table(entries) ==
  [k \in {entries[i][1] : i \in DOMAIN entries} |->
     entries[Max({i \in DOMAIN entries : entries[i][1] = k})][2]]

Inverse1(entries) == [i \in DOMAIN entries |-> <<entries[i][2], entries[i][1]>>]

Ranks(merges) == Table([i \in DOMAIN merges |-> <<merges[i], i - 1>>])

\* Mutant: the special tokens stay in the order of the file.
UnsortedSpecials(added) == {added}

\* The orders std::sort may leave: by length, longest first, equal ones in any order.
SortSpecials(added) ==
  LET place == DOMAIN added
      orders == {[i \in place |-> added[p[i]]] : p \in Bijection(place, place)}
  IN {t \in orders : \A i, j \in place : i < j => Len(t[i][1]) >= Len(t[j][1])}

\* An id comes from added_tokens, or else from the vocabulary.
MarkerId(d, name) ==
  LET added == Table(d.added)  all == Table(d.vocab)
  IN IF name \in DOMAIN added THEN added[name]
     ELSE IF name \in DOMAIN all THEN all[name] ELSE NoId

\* validate_against_config: no config, or one of its values is <|endoftext|>.
ConfigAgrees(d) == d.eos = <<>> \/ MarkerId(d, EndOfText) \in Range(d.eos)

LoadSucceeds(d) ==
  /\ Len(d.added) + Len(d.vocab) > 0
  /\ Len(d.merges) > 0
  /\ \A name \in {EndOfText, ImStart, ImEnd} : MarkerId(d, name) # NoId
  /\ ConfigAgrees(d)

\* Mutant: the cache survives a load.
KeptCache == bpe_cache

ClearedCache == Empty

\* The workers start after the load: none of them is in encode() yet.
OthersIdle == \A t \in Others : other[t] = <<>>

\* The tables are replaced before anything is checked: a load that fails leaves
\* them filled.
Load(d) ==
  /\ phase \in {"idle", "done"} /\ calls < Len(Texts) /\ OthersIdle
  /\ vocab' = Table(d.added \o d.vocab)
  /\ id_to_token' = Table(Inverse1(d.added \o d.vocab))
  /\ bpe_ranks' = Ranks(d.merges)
  /\ special_tokens' \in SortSpecials(d.added)
  /\ bpe_cache' = ClearedCache
  /\ load_ok' = LoadSucceeds(d)
  /\ calls' = calls + 1
  /\ phase' = "idle"
  /\ UNCHANGED <<text, pos, match, tokens, split, merge, other>>

\* An empty buffer is refused before the tables are cleared.
LoadEmptyBuffer ==
  /\ phase \in {"idle", "done"} /\ calls < Len(Texts) /\ OthersIdle
  /\ load_ok' = FALSE
  /\ calls' = calls + 1
  /\ phase' = "idle"
  /\ UNCHANGED <<vocab, id_to_token, bpe_ranks, special_tokens, bpe_cache>>
  /\ UNCHANGED <<text, pos, match, tokens, split, merge, other>>

-----------------------------------------------------------------------------
(* encode: cutting the text at the special tokens *)

OccursAt(t, s, i) == i + Len(s) <= Len(t) + 1 /\ SubSeq(t, i, i + Len(s) - 1) = s

\* text.find(s, p); 0 stands for npos.
Find(t, s, p) ==
  LET at == {i \in p..(Len(t) - Len(s) + 1) : OccursAt(t, s, i)}
  IN IF at = {} THEN 0 ELSE Min(at)

\* The first special token, in the sorted order, among those found nearest.
Nearest(p) ==
  LET place(s) == Find(text, special_tokens[s][1], p)
      found == {s \in DOMAIN special_tokens : place(s) # 0}
      before(s, r) == place(s) < place(r) \/ (place(s) = place(r) /\ s <= r)
  IN IF found = {} THEN 0 ELSE CHOOSE s \in found : \A r \in found : before(s, r)

Encode(t) ==
  /\ phase \in {"idle", "done"} /\ calls < Len(Texts)
  /\ calls' = calls + 1
  /\ text' = t /\ pos' = 1 /\ match' = 0 /\ tokens' = <<>>
  /\ phase' = IF t = <<>> \/ vocab = Empty THEN "done" ELSE "scan"
  /\ UNCHANGED <<other, tables, bpe_cache, split, merge>>

\* One turn of the loop over the text, up to the call of encode_segment.
Scan ==
  /\ phase = "scan" /\ pos <= Len(text)
  /\ match' = Nearest(pos)
  /\ pos' = IF match' = 0 THEN Len(text) + 1 ELSE Find(text, special_tokens[match'][1], pos)
  /\ seg' = SubSeq(text, pos, pos' - 1)
  /\ cur' = 1 /\ offsets' = <<>>
  /\ phase' = IF seg' = <<>> THEN "special" ELSE "split"
  /\ UNCHANGED <<other, tables, bpe_cache, calls, text, tokens, merge>>

PushSpecial ==
  /\ phase = "special"
  /\ IF match = 0 THEN UNCHANGED <<tokens, pos>>
     ELSE /\ tokens' = Append(tokens, special_tokens[match][2])
          /\ pos' = pos + Len(special_tokens[match][1])
  /\ match' = 0
  /\ phase' = "scan"
  /\ UNCHANGED <<other, tables, bpe_cache, calls, text, split, merge>>

Finish ==
  /\ phase = "scan" /\ pos > Len(text)
  /\ phase' = "done"
  /\ UNCHANGED <<other, tables, bpe_cache, outer, split, merge>>

-----------------------------------------------------------------------------
(* split_qwen35: one action per branch of its loop *)

Of(cats) == {c \in CodePoint : Category[c] \in cats}
LetterMark == Of({"L", "M"})
White == Of({"Z"})
NewLine == {"\r", "\n"}
Solid == Of({"P"})     \* valid, and neither space, letter, mark nor number

Within(i, S) == i <= Len(seg) /\ seg[i] \in S

\* The first index at or after i whose character is not in S.
RunEnd(i, S) == Min({j \in i..(Len(seg) + 1) : ~ Within(j, S)})

Lower(c) == IF c \in DOMAIN LowerCase THEN LowerCase[c] ELSE c

\* The texts and the tables are sequences of code points. get_unicode_category gives
\* every code point one category, and blanks and line ends are white space; lower
\* case maps letters to letters; init_byte_encoder gives every byte a symbol of its
\* own. An empty special token would be found everywhere.
ASSUME TokenizerAssumption ==
  /\ Category \in [CodePoint -> {"L", "M", "N", "Z", "P", "O"}]
  /\ (NewLine \cup {" "}) \cap CodePoint \subseteq White
  /\ \A c \in DOMAIN LowerCase : c # "'" /\ LowerCase[c] # "'"
  /\ Utf8 \in [CodePoint -> Seq(DOMAIN ByteSymbol) \ {<<>>}]
  /\ ByteSymbol \in [DOMAIN ByteSymbol -> CodePoint] /\ IsInjective(ByteSymbol)
  /\ Len(Texts) \in Nat /\ DOMAIN Texts = 1..Len(Texts)
  /\ \A n \in DOMAIN Texts : Texts[n] \subseteq Seq(CodePoint)
  /\ \A n \in DOMAIN Texts : \A d \in Documents[n] :
       /\ d.added \in Seq(Seq(CodePoint) \X Int)
       /\ \A i \in DOMAIN d.added : d.added[i][1] # <<>>
       /\ d.vocab \in Seq(Seq(CodePoint) \X Int)
       /\ d.merges \in Seq(Seq(CodePoint) \X Seq(CodePoint))
  /\ \A n \in 0..Len(Texts) : OtherPieces[n] \subseteq Seq(Range(ByteSymbol))

\* 's 't 'm 'd, or 're 've 'll, in either case; 0 when there is none.
Contraction(i) ==
  LET two == i + 1 <= Len(seg) /\ Lower(seg[i + 1]) \in {"s", "t", "m", "d"}
      three == /\ i + 2 <= Len(seg)
               /\ <<Lower(seg[i + 1]), Lower(seg[i + 2])>>
                    \in {<<"r", "e">>, <<"v", "e">>, <<"l", "l">>}
  IN IF seg[i] # "'" THEN 0 ELSE IF two THEN 2 ELSE IF three THEN 3 ELSE 0

\* Mutant: a word may start at any character.
WordAtAnyStart(i) == Within(i, LetterMark) \/ Within(i + 1, LetterMark)

WordAt(i) ==
  /\ seg[i] \notin NewLine \cup Of({"N"})
  /\ Within(i, LetterMark) \/ Within(i + 1, LetterMark)

NumberAt(i) == seg[i] \in Of({"N"})

\* flags2 looks behind a space; a space at the end of the text passes too.
SymbolsAt(i) ==
  LET j == IF seg[i] = " " THEN i + 1 ELSE i
  IN ~ Within(j, Of({"Z", "L", "M", "N"})) /\ Category[seg[i]] # "O"

SpacesEnd(i) == RunEnd(i, White)

LastNewLine(i) ==
  LET at == {j \in i..(SpacesEnd(i) - 1) : seg[j] \in NewLine}
  IN IF at = {} THEN 0 ELSE Max(at)

AddToken(end) ==
  /\ offsets' = IF end > cur THEN Append(offsets, <<cur, end>>) ELSE offsets
  /\ cur' = end
  /\ UNCHANGED <<other, tables, bpe_cache, phase, outer, seg, merge>>

Splitting == phase = "split" /\ cur <= Len(seg)

BeforeSymbols == Splitting /\ Contraction(cur) = 0 /\ ~ WordAt(cur) /\ ~ NumberAt(cur)
InSpaces == BeforeSymbols /\ ~ SymbolsAt(cur)

SplitContraction == Splitting /\ Contraction(cur) > 0 /\ AddToken(cur + Contraction(cur))

SplitWord ==
  /\ Splitting /\ Contraction(cur) = 0 /\ WordAt(cur)
  /\ AddToken(RunEnd(cur + 1, LetterMark))

SplitNumber ==
  /\ Splitting /\ Contraction(cur) = 0 /\ ~ WordAt(cur) /\ NumberAt(cur)
  /\ AddToken(cur + 1)

SplitSymbols ==
  /\ BeforeSymbols /\ SymbolsAt(cur)
  /\ LET first == IF seg[cur] = " " THEN cur + 1 ELSE cur
     IN AddToken(RunEnd(RunEnd(first, Solid), NewLine))

SplitNewLines == InSpaces /\ LastNewLine(cur) > 0 /\ AddToken(LastNewLine(cur) + 1)

\* The last space is left to the word behind it.
SplitSpacesBefore ==
  /\ InSpaces /\ LastNewLine(cur) = 0
  /\ SpacesEnd(cur) > cur + 1 /\ SpacesEnd(cur) <= Len(seg)
  /\ AddToken(SpacesEnd(cur) - 1)

SplitSpaces ==
  /\ InSpaces /\ LastNewLine(cur) = 0
  /\ SpacesEnd(cur) > cur /\ ~ (SpacesEnd(cur) > cur + 1 /\ SpacesEnd(cur) <= Len(seg))
  /\ AddToken(SpacesEnd(cur))

\* Mutant: an unknown character does not advance.
SplitOtherStays == InSpaces /\ SpacesEnd(cur) = cur /\ AddToken(cur)

\* Only a CAT_OTHER character gets here.
SplitOther == InSpaces /\ SpacesEnd(cur) = cur /\ AddToken(cur + 1)

SplitDone ==
  /\ phase = "split" /\ cur > Len(seg)
  /\ phase' = "chunk" /\ chunk' = 1
  /\ UNCHANGED <<other, tables, bpe_cache, outer, split, piece, word>>

Split ==
  \/ SplitContraction \/ SplitWord \/ SplitNumber \/ SplitSymbols
  \/ SplitNewLines \/ SplitSpacesBefore \/ SplitSpaces \/ SplitOther \/ SplitDone

-----------------------------------------------------------------------------
(* encode_segment's loop over the pieces, and bpe_merge *)

Bytes(t) == FlattenSeq([i \in DOMAIN t |-> Utf8[t[i]]])
Symbols(t) == [i \in DOMAIN Bytes(t) |-> ByteSymbol[Bytes(t)[i]]]

Pairs(w) == {<<w[i], w[i + 1]>> : i \in 1..(Len(w) - 1)} \cap DOMAIN bpe_ranks

BestPair(w) ==
  LET pairs == Pairs(w)
  IN CHOOSE p \in pairs : \A q \in pairs : bpe_ranks[p] <= bpe_ranks[q]

\* What a scan from left to right yields from each place on: made[i] at place i,
\* before it goes on at next[i].
ScanFrom(n, made, next) ==
  LET from[i \in 1..(n + 1)] == IF i > n THEN <<>> ELSE made[i] \o from[next[i]]
  IN from

PairAt(w, p, i) == i < Len(w) /\ <<w[i], w[i + 1]>> = p

\* Mutant: the scan for the pair stops one short.
MergeAllButLast(w, p) ==
  ScanFrom(Len(w),
    [i \in DOMAIN w |-> IF i = Len(w) THEN <<>>
                        ELSE <<IF PairAt(w, p, i) THEN w[i] \o w[i + 1] ELSE w[i]>>],
    [i \in DOMAIN w |-> IF PairAt(w, p, i) THEN i + 2 ELSE i + 1])[1]

\* Every occurrence of the pair, from left to right.
MergeAll(w, p) ==
  ScanFrom(Len(w),
    [i \in DOMAIN w |-> <<IF PairAt(w, p, i) THEN w[i] \o w[i + 1] ELSE w[i]>>],
    [i \in DOMAIN w |-> IF PairAt(w, p, i) THEN i + 2 ELSE i + 1])[1]

Letters(t) == [i \in DOMAIN t |-> <<t[i]>>]

NextChunk ==
  /\ phase = "chunk" /\ chunk <= Len(offsets)
  /\ piece' = Symbols(SubSeq(seg, offsets[chunk][1], offsets[chunk][2] - 1))
  /\ IF piece' \in DOMAIN bpe_cache
     THEN word' = bpe_cache[piece'] /\ phase' = "emit"
     ELSE word' = Letters(piece') /\ phase' = "merge"
  /\ UNCHANGED <<other, tables, bpe_cache, outer, split, chunk>>

MergeStep ==
  /\ phase = "merge" /\ Pairs(word) # {}
  /\ \E p \in {BestPair(word)} : word' = MergeAll(word, p)
  /\ UNCHANGED <<other, tables, bpe_cache, phase, outer, split, chunk, piece>>

MergeEnd ==
  /\ phase = "merge" /\ Pairs(word) = {}
  /\ bpe_cache' = [p \in DOMAIN bpe_cache \cup {piece} |->
                     IF p = piece THEN word ELSE bpe_cache[p]]
  /\ phase' = "emit"
  /\ UNCHANGED <<other, tables, outer, split, merge>>

-----------------------------------------------------------------------------
(* bpe_merge on the other threads. One access to the cache, a find or an          *)
(* insertion, is one step as long as no other thread is at one of its own.       *)

\* The piece is not in the cache. One that is changes nothing.
OtherLookup(t, p) ==
  /\ phase # "torn" /\ other[t] = <<>>
  /\ vocab # Empty /\ p \notin DOMAIN bpe_cache
  /\ other' = [other EXCEPT ![t] = <<p, Letters(p)>>]
  /\ UNCHANGED <<tables, bpe_cache, phase, outer, split, merge>>

OtherMerge(t) ==
  /\ phase # "torn" /\ other[t] # <<>> /\ Pairs(other[t][2]) # {}
  /\ \E p \in {BestPair(other[t][2])} :
       other' = [other EXCEPT ![t] = <<other[t][1], MergeAll(other[t][2], p)>>]
  /\ UNCHANGED <<tables, bpe_cache, phase, outer, split, merge>>

OtherInsert(t) ==
  /\ phase # "torn" /\ other[t] # <<>> /\ Pairs(other[t][2]) = {}
  /\ bpe_cache' = [p \in DOMAIN bpe_cache \cup {other[t][1]} |->
                     IF p = other[t][1] THEN other[t][2] ELSE bpe_cache[p]]
  /\ other' = [other EXCEPT ![t] = <<>>]
  /\ UNCHANGED <<tables, phase, outer, split, merge>>

OwnReads == phase = "chunk" /\ chunk <= Len(offsets)
OwnInserts == phase = "merge" /\ Pairs(word) = {}
Reads(t) == other[t] = <<>> /\ vocab # Empty /\ OtherPieces[calls] # {}
Inserts(t) == other[t] # <<>> /\ Pairs(other[t][2]) = {}

\* An insertion meets another access: a data race on the unordered_map. What the
\* program does from here on is undefined, and nothing is claimed of it.
Tear ==
  /\ phase # "torn"
  /\ \/ OwnReads /\ \E t \in Others : Inserts(t)
     \/ OwnInserts /\ \E t \in Others : Inserts(t) \/ Reads(t)
     \/ \E t \in Others : Inserts(t) /\ \E u \in Others \ {t} : Inserts(u) \/ Reads(u)
  /\ phase' = "torn"
  /\ UNCHANGED <<tables, bpe_cache, outer, split, merge, other>>

-----------------------------------------------------------------------------
(* The ids of a word's pieces *)

\* A piece outside the vocabulary falls back to one token per byte of its own
\* UTF-8 form; a byte without a token is dropped.
IdsOf(p) ==
  IF p \in DOMAIN vocab THEN <<vocab[p]>>
  ELSE FlattenSeq([i \in DOMAIN Bytes(p) |->
         LET symbol == <<ByteSymbol[Bytes(p)[i]]>>
         IN IF symbol \in DOMAIN vocab THEN <<vocab[symbol]>> ELSE <<>>])

Emit ==
  /\ phase = "emit"
  /\ tokens' = tokens \o FlattenSeq([i \in DOMAIN word |-> IdsOf(word[i])])
  /\ chunk' = chunk + 1
  /\ phase' = "chunk"
  /\ UNCHANGED <<other, tables, bpe_cache, calls, text, pos, match, split, piece, word>>

ChunksDone ==
  /\ phase = "chunk" /\ chunk > Len(offsets)
  /\ phase' = "special"
  /\ seg' = <<>> /\ cur' = 1 /\ offsets' = <<>>
  /\ chunk' = 1 /\ piece' = <<>> /\ word' = <<>>
  /\ UNCHANGED <<other, tables, bpe_cache, outer>>

-----------------------------------------------------------------------------
(* decode *)

SymbolByte(c) == CHOOSE b \in DOMAIN ByteSymbol : ByteSymbol[b] = c

DecodeToken(id) ==
  IF id \notin DOMAIN id_to_token \/ id_to_token[id] \in {EndOfText, ImStart, ImEnd}
  THEN <<>>
  ELSE FlattenSeq([i \in DOMAIN id_to_token[id] |->
         LET c == id_to_token[id][i]
         IN IF c \in Range(ByteSymbol) THEN <<SymbolByte(c)>> ELSE Utf8[c]])

Decode(ids) == FlattenSeq([i \in DOMAIN ids |-> DecodeToken(ids[i])])

-----------------------------------------------------------------------------
Init ==
  /\ vocab = Empty /\ id_to_token = Empty /\ bpe_ranks = Empty /\ bpe_cache = Empty
  /\ special_tokens = <<>> /\ load_ok = FALSE
  /\ phase = "idle" /\ calls = 0
  /\ text = <<>> /\ pos = 1 /\ match = 0 /\ tokens = <<>>
  /\ seg = <<>> /\ cur = 1 /\ offsets = <<>>
  /\ chunk = 1 /\ piece = <<>> /\ word = <<>>
  /\ other = [t \in Others |-> <<>>]

Step ==
  \/ Scan \/ PushSpecial \/ Finish
  \/ Split
  \/ NextChunk \/ MergeStep \/ MergeEnd \/ Emit \/ ChunksDone

OtherStep ==
  \/ \E t \in Others : \E p \in OtherPieces[calls] : OtherLookup(t, p)
  \/ \E t \in Others : OtherMerge(t)
  \/ \E t \in Others : OtherInsert(t)
  \/ Tear

Next ==
  \/ calls < Len(Texts) /\ \E d \in Documents[calls + 1] : Load(d)
  \/ calls + 1 \in EmptyLoads /\ LoadEmptyBuffer
  \/ calls < Len(Texts) /\ \E t \in Texts[calls + 1] : Encode(t)
  \/ Step
  \/ OtherStep

Spec == Init /\ [][Next]_vars

\* A call of encode() waits for nobody: the loops of the thread that makes it keep
\* running. Nothing is assumed of the other threads.
FairSpec == Spec /\ WF_vars(Step)
-----------------------------------------------------------------------------
(* The regular expression of the comment above split_qwen35, alternative by     *)
(* alternative, with one change. [^\s\p{L}\p{M}\p{N}] in the fourth takes any     *)
(* other character; here it takes the Solid ones only, as the code does. One of *)
(* CAT_OTHER, in no table of unicode_table.h (U+200D and the other format       *)
(* characters, controls, unassigned ones), is matched by none but the second.   *)
(* All(s, S) is a run of characters of S.                                       *)

All(s, S) == \A i \in DOMAIN s : s[i] \in S

Matches(n, s, behind) ==
  LET lower == [i \in DOMAIN s |-> Lower(s[i])]
      tail == Tail(s)
  IN CASE n = 1 -> lower \in {<<"'", c>> : c \in {"s", "t", "m", "d"}}
                     \cup {<<"'", "r", "e">>, <<"'", "v", "e">>, <<"'", "l", "l">>}
       [] n = 2 -> \/ All(s, LetterMark)
                   \/ /\ s[1] \notin NewLine \cup Of({"L", "N"})
                      /\ tail # <<>> /\ All(tail, LetterMark)
       [] n = 3 -> Len(s) = 1 /\ s[1] \in Of({"N"})
       [] n = 4 -> \E a \in {0, 1} : \E b \in (a + 1)..Len(s) :
                     /\ a = 1 => s[1] = " "
                     /\ All(SubSeq(s, a + 1, b), Solid)
                     /\ All(SubSeq(s, b + 1, Len(s)), NewLine)
       [] n = 5 -> \E b \in DOMAIN s :
                     All(SubSeq(s, 1, b - 1), White) /\ All(SubSeq(s, b, Len(s)), NewLine)
       [] n = 6 -> All(s, White) /\ (behind = <<>> \/ behind[1] \in White)
       [] n = 7 -> All(s, White)

\* The end of the match at i: the first alternative that matches, greedily. A character
\* at which none does is a piece of its own.
RegexEnd(t, i) ==
  LET ends(n) == {j \in (i + 1)..(Len(t) + 1) :
                    Matches(n, SubSeq(t, i, j - 1), SubSeq(t, j, Len(t)))}
      alternatives == {n \in 1..7 : ends(n) # {}}
  IN IF alternatives = {} THEN i + 1 ELSE Max(ends(Min(alternatives)))

SplitsAsRegex == \A k \in DOMAIN offsets : offsets[k][2] = RegexEnd(seg, offsets[k][1])

(* The usual definition of byte pair encoding: one pair at a time, the one of    *)
(* lowest rank, the leftmost of those.                                          *)
MergeFirst(w, p) ==
  LET i == Min({k \in 1..(Len(w) - 1) : <<w[k], w[k + 1]>> = p})
  IN SubSeq(w, 1, i - 1) \o <<w[i] \o w[i + 1]>> \o SubSeq(w, i + 2, Len(w))

ReferenceBpe(p) ==
  LET w == Letters(p)
      run[n \in 0..Len(w)] ==
        IF n = 0 THEN w
        ELSE LET last == run[n - 1]
             IN IF Pairs(last) = {} THEN last ELSE MergeFirst(last, BestPair(last))
  IN run[Len(w)]

\* Each merge joins single symbols or results of earlier merges, and makes a token no
\* other merge makes, as in a trained table.
TrainedRanks ==
  /\ \A p \in DOMAIN bpe_ranks : \A side \in {p[1], p[2]} :
       Len(side) = 1 \/ \E q \in DOMAIN bpe_ranks :
                          q[1] \o q[2] = side /\ bpe_ranks[q] < bpe_ranks[p]
  /\ \A p, q \in DOMAIN bpe_ranks : p[1] \o p[2] = q[1] \o q[2] => p = q

(* Leftmost-longest occurrences of the special tokens, as a set of <<place, index>>. *)
Longest(i) ==
  LET here == {s \in DOMAIN special_tokens : OccursAt(text, special_tokens[s][1], i)}
  IN CHOOSE s \in here : \A r \in here : Len(special_tokens[r][1]) <= Len(special_tokens[s][1])

Occurs(i) == \E s \in DOMAIN special_tokens : OccursAt(text, special_tokens[s][1], i)

NextCut ==
  [i \in DOMAIN text |-> IF Occurs(i) THEN i + Len(special_tokens[Longest(i)][1]) ELSE i + 1]

\* The special tokens from each place of the text on, and the text outside of the
\* three markers.
CutIds ==
  ScanFrom(Len(text),
    [i \in DOMAIN text |-> IF Occurs(i) THEN <<special_tokens[Longest(i)][2]>> ELSE <<>>],
    NextCut)

CutText ==
  ScanFrom(Len(text),
    [i \in DOMAIN text |->
       IF ~ Occurs(i) THEN <<text[i]>>
       ELSE LET name == special_tokens[Longest(i)][1]
            IN IF name \in {EndOfText, ImStart, ImEnd} THEN <<>> ELSE name],
    NextCut)

IsSpecialId(id) == \E s \in DOMAIN special_tokens : special_tokens[s][2] = id

SpecialIds(ids) ==
  FlattenSeq([i \in DOMAIN ids |-> IF IsSpecialId(ids[i]) THEN <<ids[i]>> ELSE <<>>])

\* What bpe_merge cuts a piece into: the symbols of bytes and the results of merges.
Atoms ==
  {<<ByteSymbol[b]>> : b \in DOMAIN ByteSymbol} \cup {p[1] \o p[2] : p \in DOMAIN bpe_ranks}

\* None of these has the id of a special token, and a special token has one id.
SpecialsApart ==
  /\ \A a \in Atoms \cap DOMAIN vocab : ~ IsSpecialId(vocab[a])
  /\ \A s, r \in DOMAIN special_tokens :
       special_tokens[s][1] = special_tokens[r][1] => special_tokens[s][2] = special_tokens[r][2]

Spells(id, t) == id \in DOMAIN id_to_token /\ id_to_token[id] = t

\* Each of these is a token, no marker, and no two tokens have one id; a character in
\* the name of a special token that stands for a byte stands for its own.
ClosedVocabulary ==
  /\ \A a \in Atoms :
       a \in DOMAIN vocab /\ Spells(vocab[a], a) /\ a \notin {EndOfText, ImStart, ImEnd}
  /\ \A s \in DOMAIN special_tokens :
       /\ Spells(special_tokens[s][2], special_tokens[s][1])
       /\ \A c \in Range(special_tokens[s][1]) \cap Range(ByteSymbol) :
            Utf8[c] = <<SymbolByte(c)>>

-----------------------------------------------------------------------------
(* Properties *)

\* Type invariant.
TypeOK ==
  /\ phase \in {"idle", "scan", "special", "split", "chunk", "merge", "emit", "done",
               "torn"}
  /\ calls \in 0..Len(Texts) /\ load_ok \in BOOLEAN
  /\ pos \in 1..(Len(text) + 1) /\ cur \in 1..(Len(seg) + 1)
  /\ match \in 0..Len(special_tokens)
  /\ chunk \in 1..(Len(offsets) + 1)
  /\ \A i \in DOMAIN offsets : offsets[i] \in (1..Len(seg)) \X (2..(Len(seg) + 1))

\* The hand-written branches of split_qwen35 cut a text without CAT_OTHER characters exactly
\* where the regular expression of its comment does. In any other text they cut where that
\* expression would if its fourth alternative did not take such a character: one at which no
\* alternative matches becomes a piece of its own, and ends a run of symbols. There the code
\* departs from its comment: an emoji sequence joined by U+200D is one match of the quoted
\* expression and several pieces of the code.
SplitFollowsRegex == phase = "chunk" => SplitsAsRegex

\* The word bpe_merge returns, merging every occurrence of the best pair at once or
\* taking it from the cache, where an earlier piece, an earlier call or another thread
\* left it, is the one that merging one pair at a time gives with the table loaded now.
\* This is claimed while the threads' accesses to the cache do not overlap: nothing in the
\* code keeps them apart, and after a race (Tear) it may return anything.
MergesFollowRanks == phase = "emit" /\ TrainedRanks => word = ReferenceBpe(piece)

\* The special tokens encode() emits are the leftmost ones of the text, and of those
\* that start at one place the longest, where no other token has the id of one. A call
\* during which two accesses to the cache raced is not covered.
SpecialsAreLeftmostLongest ==
  phase = "done" /\ vocab # Empty /\ SpecialsApart => SpecialIds(tokens) = CutIds[1]

\* With a closed vocabulary, decode() of what encode() returns is the text again,
\* without the three markers decode_token drops. A call during which two accesses to the
\* cache raced is not covered.
DecodeInvertsEncode ==
  phase = "done" /\ ClosedVocabulary => Decode(tokens) = Bytes(CutText[1])

\* Every call of encode() returns, whatever the other threads do, unless two accesses to
\* the cache race: each branch of the splitter and each merge makes progress.
EncodeReturns == (phase = "scan") ~> (phase \in {"done", "torn"})
=============================================================================
