---------------------------- MODULE MC_HttpServer ----------------------------
(***************************************************************************)
(* Small instances of HttpServer.                                          *)
(***************************************************************************)
EXTENDS HttpServer, TLC

CONSTANTS w1, w2, c1, c2, c3

TwoWorkers == {w1, w2}
TwoClients == {c1, c2}
ThreeClients == {c1, c2, c3}

\* Workers and clients are interchangeable; used by the safety runs only.
Symmetry2 == Permutations(TwoWorkers) \cup Permutations(TwoClients)
Symmetry3 == Permutations(TwoWorkers) \cup Permutations(ThreeClients)
=============================================================================
