---------------------------- MODULE MC_Generation ----------------------------
(* Model-checking instances of Generation. *)
EXTENDS Generation, TLC

CONSTANTS a, b, eos, think, pad, alien

MCToken == {a, b, eos, think, pad}

\* Prompts of one to three chunks, an empty one, one too long for any
\* completion, one with a visual placeholder, one with an unknown token.
MCPrompts ==
  {<< >>, <<a>>, <<b, a>>, <<a, b, eos>>, <<b, b, a, think>>, <<a, pad>>,
   <<a, alien>>, <<a, b, a, b, a, b>>}
=============================================================================
