-------------------------- MODULE MCTorrentSession --------------------------
(* An instance of SessionPlays for TLC: two handlers, one infohash.         *)
EXTENDS SessionPlays, TLC

CONSTANTS i1, a1, a2, k1

OneHash == {i1}
TwoThreads == {a1, a2}
OneSigner == {k1}
Symmetry == Permutations(TwoThreads)
=============================================================================
