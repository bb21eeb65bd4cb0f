---------------------------- MODULE SessionPlays ----------------------------
(***************************************************************************)
(* TorrentSession in two plays: handlers and a failing disk race over      *)
(* unsigned torrents, or handlers come one at a time, over torrents added  *)
(* from files that may be signed, and the disk is sound.  A crash may come *)
(* at any step of either.  Magnets are left out of the second play: their  *)
(* upgrade goroutine is a writer of its own, which no order of the         *)
(* handlers keeps from overwriting or deleting a newer copy.               *)
(***************************************************************************)
EXTENDS TorrentSession

VARIABLE play

Unsigned == \A t \in Threads : th[t].by = None

Busy(t) == ~At(t, "idle")
OneByOne == \A s, t \in Threads : Busy(s) /\ Busy(t) => s = t

\* upgradeMagnetSession has passed its check, then writes its bytes over a signed add's.
NoMagnets == \A t \in Threads : th[t].kind # "magnet"
CopiesWritten == \A t \in Threads : th[t].pc \in {"persistAdd", "resign"} => th[t].file
Orderly == ~dirty /\ OneByOne /\ NoMagnets /\ CopiesWritten

PlayInit == Init /\ play \in {"race", "orderly"}
PlayNext == Next /\ UNCHANGED play /\ IF play = "race" THEN Unsigned' ELSE Orderly'
PlaySpec == PlayInit /\ [][PlayNext]_<<vars, play>>

\* What a node that adds its torrents from files, by handlers that do not
\* overlap, on a disk that does not fail, always has on disk: a row for every torrent it manages, a copy for every
\* row that names one, at any point where a crash may come, and bytes that
\* back the signature both the row and the handle claim.
OrderlySessionWhole ==
    play = "orderly" => RowHasCopy /\ ManagedHasRow /\ StoredBytesBackSignature /\ SignerAgrees
=============================================================================
