------------------------ MODULE MCCompanionPublisher ------------------------
(* Instances of CompanionPublisher for TLC. *)
EXTENDS CompanionPublisher, TLC

CONSTANTS c1, c2, MaxGen

TwoContents == {c1, c2}

\* Bound: the timestamps a behaviour hands out.
StampBound == lastGeneratedAt <= MaxGen
=============================================================================
