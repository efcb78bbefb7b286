----------------------------- MODULE MC_Artifact -----------------------------
(* Model-checking instance of Artifact: a name and a long one that is truncated   *)
(* to it, sections of no, one and two cells, and faults in    *)
(* every kind of cell.                                                            *)
EXTENDS Artifact

Cell(n) == [data |-> n]

MCNames == {"a", "a long"}
MCLongNames == {"a long"}
MCTruncated == [n \in MCLongNames |-> "a"]
MCPayloads == {<<>>, <<Cell(1)>>, <<Cell(2), Cell(1)>>}
MCMetadata == {<<Cell(3)>>}

\* Other bytes as a table entry: one of a real name, and one whose offset and size
\* wrap around to a place in the file.
MCGarbage ==
  {[name |-> "a", offset |-> 0, size |-> 1, sum |-> <<Cell(1)>>],
   [name |-> "?", offset |-> Wrap - 1, size |-> 3, sum |-> <<>>]}

MCDamaged(c) ==
  IF IsHeader(c)
  THEN {[c EXCEPT !.magic = ~ @], [c EXCEPT !.total = @ - 1], [c EXCEPT !.total = @ + 1],
        [c EXCEPT !.msize = 1 - @], [c EXCEPT !.moff = Wrap - 1, !.msize = 2],
        [c EXCEPT !.toff = @ - 1], [c EXCEPT !.count = 0],
        [c EXCEPT !.count = @ + 1]}
  ELSE IF IsFooter(c) THEN {[c EXCEPT !.foot = ~ @], [c EXCEPT !.crc = <<Cell(9)>>]}
  ELSE IF "offset" \in DOMAIN c THEN {[c EXCEPT !.name = "?"], [c EXCEPT !.offset = Wrap - 1, !.size = 2]}
  ELSE {Cell(9)}
=============================================================================
