------------------------ MODULE MCCompanionFollower ------------------------
(* Instances of CompanionFollower for TLC. *)
EXTENDS CompanionFollower, TLC

CONSTANTS p1, p2, k1, k2

OnePub == {p1}
TwoPubs == {p1, p2}
OneHandler == {k1}
TwoHandlers == {k1, k2}
=============================================================================
