--------------------------- MODULE MCSyncExchange ---------------------------
(* Instances of SyncExchange for TLC. *)
EXTENDS SyncExchange

\* Frames are lost and handled twice, and the caller closes early.
Hostile == [iOnly |-> {3}, rOnly |-> {1}, common |-> FALSE, maxBatches |-> 3, floor |-> 2,
            byteBudget |-> 2, workers |-> 2, lossy |-> TRUE, dups |-> TRUE, closes |-> TRUE]
\* A connection that loses nothing, differences of every size and every prefix that looks whole.
Sound == [iOnly |-> {3, 4}, rOnly |-> {1, 2}, common |-> FALSE, maxBatches |-> 6, floor |-> 3,
          byteBudget |-> 3, workers |-> 4, lossy |-> FALSE, dups |-> FALSE, closes |-> FALSE]
TwoPlays == {Hostile, Sound}
=============================================================================
