----------------------------- MODULE MC_Tokenizer -----------------------------
(* Model-checking instances of Tokenizer: characters of every category, a letter, *)
(* a combining mark, a symbol and a format character (outside the unicode table,  *)
(* such as U+200D) of two bytes each, and two merge tables.                       *)
EXTENDS Tokenizer

CONSTANT MaxLen    \* bound: the length of the texts of the second call

Printable == <<"'", "s", "S", "l", "1", "<">>
Blank == <<" ", "\n">>
Ascii == Range(Printable \o Blank)
Wide == {"e-acute", "mark", "format", "bulb"}
HighBytes == <<"c3", "a9", "cc", "81", "e2", "8d", "c4", "80">>
Unprintable == Range(Blank \o HighBytes)

MCByteSymbol == [b \in Ascii \cup Unprintable |->
                   IF b \in Unprintable THEN "u-" \o b ELSE b]

MCCodePoint == Ascii \cup Wide \cup {MCByteSymbol[b] : b \in Unprintable}

MCCategory ==
  [c \in MCCodePoint |->
     CASE c \in {"'", "<", "bulb"} -> "P"
       [] c \in {" ", "\n"} -> "Z"
       [] c = "mark" -> "M"
       [] c = "1" -> "N"
       [] c = "format" -> "O"
       [] OTHER -> "L"]

MCLowerCase == [c \in {"S"} |-> "s"]

\* The symbols of the unprintable bytes take two bytes themselves; which ones only
\* the fallback of encode() sees.
MCUtf8 == [c \in MCCodePoint |->
             CASE c = "e-acute" -> <<"c3", "a9">>
               [] c = "mark" -> <<"cc", "81">>
               [] c = "format" -> <<"e2", "8d">>
               [] c \in Ascii -> <<c>>
               [] OTHER -> <<"c4", "80">>]

MCImStart == <<"<", "s">>
MCImEnd == <<"<", "s", "s">>
MCEndOfText == <<"<", "l">>
\* A special token of one character; the others have two or three.
Think == <<"bulb">>

\* <|im_end|> is declared after a prefix of it: the sort must bring it forward.
Added == <<<<MCImStart, 100>>, <<Think, 101>>, <<MCEndOfText, 102>>, <<MCImEnd, 103>>>>

Sym(b) == <<MCByteSymbol[b]>>
ByteVocab ==
  LET bytes == Printable \o Blank \o HighBytes
  IN [i \in DOMAIN bytes |-> <<Sym(bytes[i]), i>>]

\* e-acute, ss, sss and e-acute s; the second table ranks them otherwise.
Merges1 == <<<<Sym("c3"), Sym("a9")>>, <<Sym("s"), Sym("s")>>,
             <<Sym("s") \o Sym("s"), Sym("s")>>, <<Sym("c3") \o Sym("a9"), Sym("s")>>>>
Merges2 == <<<<Sym("s"), Sym("s")>>, <<Sym("a9"), Sym("s")>>, <<Sym("s"), Sym("l")>>>>

Results(merges) ==
  [i \in DOMAIN merges |-> <<merges[i][1] \o merges[i][2], 50 + i>>]

Document1 == [added |-> Added, vocab |-> ByteVocab \o Results(Merges1),
              merges |-> Merges1, eos |-> <<>>]
Document2 == [added |-> Added, vocab |-> ByteVocab \o Results(Merges2),
              merges |-> Merges2, eos |-> <<103, 102>>]
\* A vocabulary without the results of its merges: encode() falls back to bytes.
OpenDocument == [added |-> Added, vocab |-> ByteVocab, merges |-> Merges1, eos |-> <<103>>]
\* Without <|im_start|>, and without any table.
NoStart == [added |-> Tail(Added), vocab |-> ByteVocab, merges |-> Merges2,
            eos |-> <<>>]
NoTables == [added |-> <<>>, vocab |-> <<>>, merges |-> <<>>, eos |-> <<>>]

\* Any text in the second call; then a second load, and two calls for texts whose pieces
\* the cache held for the first table.
MCDocuments ==
  <<{Document1, Document2, OpenDocument, NoStart, NoTables}, {}, {Document2}, {}, {}>>

Alphabet == {"'", "s", "S", "l", "e-acute", "mark", "1", " ", "\n", "<", "format", "bulb"}

MCTexts ==
  LET few == {<<"s", "s", "s">>, <<"e-acute", "s", "<", "s", "s">>}
  IN <<few, BoundedSeq(Alphabet, MaxLen), {}, few, few>>

\* From the first of these on two more threads merge pieces, the pieces of the texts among
\* them.
MCOtherPieces ==
  [n \in 0..Len(MCTexts) |->
     IF n < 4 THEN {} ELSE {Symbols(<<"s", "s", "s">>), Symbols(<<"e-acute", "s">>)}]
=============================================================================
