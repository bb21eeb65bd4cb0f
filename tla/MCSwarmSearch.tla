---------------------------- MODULE MCSwarmSearch ----------------------------
(* Instances of SwarmSearch for TLC. *)
EXTENDS SwarmSearch

CONSTANTS h, n, i1, i2

BothPeers == {h, n}
OneHonest == {h}
TwoInfohashes == {i1, i2}

Doc(ih, kind, rank) == [ih |-> ih, doc |-> kind, rank |-> rank]
SomeResults == {<<>>, <<Doc(i1, "content", 2), Doc(i2, "name", 3), Doc(i1, "name", 1)>>}
Share(content) == [local |-> 2, content |-> content, file |-> FALSE]
SharesContent == {Share(TRUE)}
SharesEither == {Share(TRUE), Share(FALSE)}
=============================================================================
