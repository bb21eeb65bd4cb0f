--------------------------- MODULE CompanionFeed ---------------------------
(***************************************************************************)
(* What a companion publisher promises its followers: the BEP-46 pointer   *)
(* names nothing, or a snapshot of the corpus, and a new snapshot carries  *)
(* a later GeneratedAt than the one it replaces.  Followers reject a       *)
(* snapshot whose GeneratedAt went back, so a publisher that breaks the    *)
(* promise loses them silently.                                            *)
(*                                                                         *)
(* The promise is a running publisher's.  One that starts again with a     *)
(* clock that is not past its pointer is behind, until it has replaced the *)
(* pointer once.                                                           *)
(***************************************************************************)
EXTENDS Naturals

CONSTANTS Contents,     \* corpora a publisher may have, told apart by fingerprint
          None          \* no snapshot

Snapshots == [content : Contents, gen : Nat \ {0}]

VARIABLES pointer,      \* what a get of the publisher's pointer returns
          behind        \* the publisher has started with a clock that is not past the pointer

feedVars == <<pointer, behind>>

Init == pointer = None /\ behind = FALSE

\* A snapshot replaces an earlier one, or the one a former process left.
Publish ==
    /\ pointer' \in Snapshots /\ behind' = FALSE
    /\ pointer # None /\ ~behind => pointer'.gen > pointer.gen

\* The publisher starts again, beside a pointer of an earlier process.
Start ==
    /\ pointer # None /\ behind' \in BOOLEAN
    /\ UNCHANGED pointer

Spec == Init /\ [][Publish \/ Start]_feedVars
=============================================================================
