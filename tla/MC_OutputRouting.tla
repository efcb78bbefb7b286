--------------------------- MODULE MC_OutputRouting ---------------------------
(* Model-checking instances of OutputRouting. *)
EXTENDS OutputRouting, TLC

CONSTANTS o1, o2, c1, c2

MCOpenTag == <<o1, o2>>
MCCloseTag == <<c1, c2>>
=============================================================================
