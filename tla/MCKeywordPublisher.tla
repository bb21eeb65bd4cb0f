------------------------- MODULE MCKeywordPublisher -------------------------
(* Instances of KeywordPublisher for TLC. *)
EXTENDS KeywordPublisher, TLC

CONSTANTS i1, i2, i3, kw1, kw2

ThreeHashes == {i1, i2, i3}
TwoKeywords == {kw1, kw2}

\* Three torrents that share a keyword.
SharedName == [i \in ThreeHashes |-> IF i = i1 THEN {kw1, kw2} ELSE {kw1}]

\* A first start, and a node that has one of them.
NoManifest == [k \in TwoKeywords |-> None]
OldManifest == (kw1 :> <<i3>>) @@ (kw2 :> None)
=============================================================================
