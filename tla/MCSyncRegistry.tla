--------------------------- MODULE MCSyncRegistry ---------------------------
(* Instances of SyncRegistry for TLC. *)
EXTENDS SyncRegistry, TLC

CONSTANTS x1, x2, x3, s1, s2, s3, s4, h1, h2

TwoTx == {x1, x2}
ThirdTx == {x3}
FourSessions == {s1, s2, s3, s4}
TwoHandlers == {h1, h2}

Symmetry == Permutations(FourSessions) \cup Permutations(TwoHandlers) \cup Permutations(TwoTx)
=============================================================================
