-------------------------- MODULE MCDownloadQueue --------------------------
(* Instances of DownloadQueue for TLC. *)
EXTENDS DownloadQueue

CONSTANTS t1, t2, g1, f1

TwoTorrents == {t1, t2}
OneGoroutine == {g1}
OneFile == {f1}

\* What frees a slot, and what the cap must withstand.
TwoPlays == {[may |-> {"pause", "remove", "deselect"}, left |-> 2],
             [may |-> {"resume", "restore", "front", "back", "setcap", "select"}, left |-> 1]}

=============================================================================
