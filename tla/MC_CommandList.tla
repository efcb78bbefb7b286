---------------------------- MODULE MC_CommandList ----------------------------
(* Model-checking instance of CommandList.                                        *)
EXTENDS CommandList

CONSTANTS w1, w2, copy, barrier

MCWrappers == {w1, w2}
MCCommands == {copy}
=============================================================================
