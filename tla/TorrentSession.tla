--------------------------- MODULE TorrentSession ---------------------------
(***************************************************************************)
(* The engine's torrent set and its persistence: e.handles (guarded by     *)
(* e.mu), the session rows (session.go, guarded by s.mu), session.json and *)
(* the .torrent copies on disk, with the handlers that add, remove, pause  *)
(* and resume torrents (add.go, engine.go), the upgradeMagnetSession       *)
(* goroutine of each magnet, save errors, and crashes followed by          *)
(* RestoreSession (restore.go).                                            *)
(*                                                                         *)
(* A handler holds e.mu or s.mu for one step at a time: between two of its *)
(* steps any other handler or goroutine may run.  The name of the copy is  *)
(* the infohash, so a row says only whether it names one.                  *)
(***************************************************************************)
EXTENDS Integers, FiniteSets

CONSTANTS InfoHashes,
          Threads,      \* concurrent handlers (HTTP, GUI, CLI)
          Signers,      \* publishers whose signature a .torrent may carry
          MaxGen,       \* bound: handles created for an infohash between restarts
          Kinds,        \* how torrents are added: subset of {"file", "magnet"}
          UserOps,      \* other operations: subset of {"remove", "pause", "crash"}
          IoFails,      \* TRUE: a save or a copy may fail (ENOSPC, read-only disk)
          None

ASSUME SessionAssumption ==
    /\ MaxGen \in Nat \ {0}
    /\ Kinds \subseteq {"file", "magnet"}
    /\ UserOps \subseteq {"remove", "pause", "crash"}
    /\ IoFails \in BOOLEAN
    /\ None \notin Signers \cup Kinds \cup {"file", "magnet"}

\* A handle: the infohash and how many handles it had since the start.
Handles == InfoHashes \X (1..MaxGen)

ASSUME HandlesAssumption == None \notin Handles

\* What a .torrent copy holds: the bytes a publisher signed, original bytes
\* without a signature, or the metainfo upgradeMagnetSession re-marshalled.
Remarshal == "remarshal"
Bytes == Signers \cup {"unsigned", Remarshal}

ASSUME BytesAssumption == None \notin Bytes /\ {"unsigned", Remarshal} \cap Signers = {}

\* sessionEntry.
Rows == [via : {"file", "magnet"}, file : BOOLEAN, paused : BOOLEAN,
         signedBy : Signers \cup {None}]

ASSUME RowAssumption == None \notin Rows

VARIABLES
    handle,     \* e.handles: infohash -> handle or None
    gen,        \* handles created for each infohash since the start
    removed,    \* handles whose removed channel is closed
    paused,     \* handles with the paused flag
    signedBy,   \* Handle.signedBy
    info,       \* handles whose metadata is known
    rows,       \* session.entries
    disk,       \* session.json
    dirty,      \* the last save failed
    copy,       \* torrents/<infohash>.torrent
    th,         \* the handlers
    upg         \* the upgradeMagnetSession goroutines, one per handle

mem == <<handle, gen, removed, paused, signedBy, info>>
store == <<rows, disk, dirty, copy>>
vars == <<mem, store, th, upg>>

Idle == [pc |-> "idle", h |-> None, kind |-> None, by |-> None, file |-> FALSE]
Local(l, h, v) == [pc |-> l, h |-> h, kind |-> None, by |-> None, file |-> v]
At(t, l) == th[t].pc = l
Done(t) == th' = [th EXCEPT ![t] = Idle]
Goto(t, l) == th' = [th EXCEPT ![t].pc = l]

UpgLabels == {"none", "wait", "check", "write", "update", "orphan", "done"}
ThreadLabels == {"idle", "setSigned", "copy", "persistAdd", "spawn",
                 "cas", "recopy", "resign",
                 "drop", "sessRemove", "rmCopy", "persistState"}

ThreadRecs == [pc : ThreadLabels, h : Handles \cup {None},
               kind : {"file", "magnet", None},
               by : Signers \cup {None}, file : BOOLEAN]

TypeOK ==
    /\ handle \in [InfoHashes -> Handles \cup {None}]
    /\ gen \in [InfoHashes -> 0..MaxGen]
    /\ removed \subseteq Handles /\ paused \subseteq Handles /\ info \subseteq Handles
    /\ signedBy \in [Handles -> Signers \cup {None}]
    /\ rows \in [InfoHashes -> Rows \cup {None}]
    /\ disk \in [InfoHashes -> Rows \cup {None}]
    /\ dirty \in BOOLEAN
    /\ copy \in [InfoHashes -> Bytes \cup {None}]
    /\ th \in [Threads -> ThreadRecs]
    /\ upg \in [Handles -> UpgLabels]

Init ==
    /\ handle = [i \in InfoHashes |-> None]
    /\ gen = [i \in InfoHashes |-> 0]
    /\ removed = {} /\ paused = {} /\ info = {}
    /\ signedBy = [h \in Handles |-> None]
    /\ rows = [i \in InfoHashes |-> None] /\ disk = rows /\ dirty = FALSE
    /\ copy = [i \in InfoHashes |-> None]
    /\ th = [t \in Threads |-> Idle]
    /\ upg = [h \in Handles |-> "none"]

(***************************************************************************)
(* session.go: every mutation rewrites session.json whole, atomically      *)
(* (tmp + rename), or fails and leaves the file as it was.                 *)
(***************************************************************************)
saveLocked ==
    \/ disk' = rows' /\ dirty' = FALSE
    \/ IoFails /\ disk' = disk /\ dirty' = TRUE

put(i, row) == rows' = [rows EXCEPT ![i] = row] /\ saveLocked

\* updateExisting: a row that is gone stays gone, and nothing is saved.
updateExisting(i, row) ==
    IF rows[i] = None THEN UNCHANGED <<rows, disk, dirty>> ELSE put(i, row)

\* The row updateGuarded starts from: the one there is, or a zero one.
rowOf(i) ==
    IF rows[i] # None THEN rows[i]
    ELSE [via |-> "file", file |-> FALSE, paused |-> FALSE, signedBy |-> None]

\* persistAdd's mutation: copy name and signature only when there is one.
addRow(h, kind, hasFile) ==
    [via |-> kind,
     file |-> hasFile \/ rowOf(h[1]).file,
     paused |-> h \in paused,
     signedBy |-> IF signedBy[h] # None THEN signedBy[h] ELSE rowOf(h[1]).signedBy]

BytesOf(by) == IF by = None THEN "unsigned" ELSE by

(***************************************************************************)
(* Adding.  Registration is atomic under e.mu; a duplicate add returns the *)
(* existing handle.                                                        *)
(***************************************************************************)
Add(t, i, kind, by) ==
    /\ At(t, "idle") /\ kind \in Kinds
    /\ kind = "magnet" => by = None
    /\ IF handle[i] # None
       THEN /\ kind = "file" /\ by # None     \* upgradeSignedBy; else a no-op
            /\ th' = [th EXCEPT ![t] = [pc |-> "cas", h |-> handle[i], kind |-> kind,
                                         by |-> by, file |-> FALSE]]
            /\ UNCHANGED <<mem, upg>>
       ELSE /\ gen[i] < MaxGen
            /\ LET h == <<i, gen[i] + 1>> IN
                /\ gen' = [gen EXCEPT ![i] = @ + 1]
                /\ handle' = [handle EXCEPT ![i] = h]
                /\ info' = IF kind = "file" THEN info \cup {h} ELSE info
                /\ th' = [th EXCEPT ![t] =
                    [pc |-> IF kind = "magnet" THEN "persistAdd"
                            ELSE IF by # None THEN "setSigned" ELSE "copy",
                     h |-> h, kind |-> kind, by |-> by, file |-> FALSE]]
            /\ UNCHANGED <<removed, paused, signedBy, upg>>
    /\ UNCHANGED store

setSignedBy(t) ==
    /\ At(t, "setSigned")
    /\ signedBy' = [signedBy EXCEPT ![th[t].h] = th[t].by]
    /\ Goto(t, "copy")
    /\ UNCHANGED <<handle, gen, removed, paused, info, store, upg>>

\* writeTorrentCopy: on failure the row will name no copy.
WriteCopy(t, from, to) ==
    /\ At(t, from)
    /\ \/ /\ copy' = [copy EXCEPT ![th[t].h[1]] = BytesOf(th[t].by)]
          /\ th' = [th EXCEPT ![t].pc = to, ![t].file = TRUE]
       \/ IoFails /\ Goto(t, to) /\ UNCHANGED copy
    /\ UNCHANGED <<mem, rows, disk, dirty, upg>>

writeTorrentCopy(t) == WriteCopy(t, "copy", "persistAdd")

\* Mutant of persistAdd: the removal of the handle is not checked.
PersistUnguarded(t) ==
    LET h == th[t].h IN
    /\ At(t, "persistAdd")
    /\ put(h[1], addRow(h, th[t].kind, th[t].file))
    /\ IF th[t].kind = "magnet" THEN Goto(t, "spawn") ELSE Done(t)
    /\ UNCHANGED <<mem, copy, upg>>

\* Mutant of persistAdd: the row is updated, never created.
PersistExisting(t) ==
    LET h == th[t].h IN
    /\ At(t, "persistAdd")
    /\ updateExisting(h[1], addRow(h, th[t].kind, th[t].file))
    /\ IF th[t].kind = "magnet" THEN Goto(t, "spawn") ELSE Done(t)
    /\ UNCHANGED <<mem, copy, upg>>

\* persistAdd: updateGuarded checks the handle's removal under s.mu.
persistAdd(t) ==
    LET h == th[t].h IN
    /\ At(t, "persistAdd")
    /\ IF h \in removed THEN UNCHANGED <<rows, disk, dirty>>
       ELSE put(h[1], addRow(h, th[t].kind, th[t].file))
    /\ IF th[t].kind = "magnet" THEN Goto(t, "spawn") ELSE Done(t)
    /\ UNCHANGED <<mem, copy, upg>>

SpawnUpgrade(t) ==
    /\ At(t, "spawn")
    /\ upg' = [upg EXCEPT ![th[t].h] = "wait"]
    /\ Done(t)
    /\ UNCHANGED <<mem, store>>

\* upgradeSignedBy on a duplicate add: only the first attribution wins, and
\* the winner refreshes the copy and the row.
setSignedByIfEmpty(t) ==
    /\ At(t, "cas")
    /\ IF signedBy[th[t].h] # None THEN Done(t) /\ UNCHANGED signedBy
       ELSE signedBy' = [signedBy EXCEPT ![th[t].h] = th[t].by] /\ Goto(t, "recopy")
    /\ UNCHANGED <<handle, gen, removed, paused, info, store, upg>>

\* Mutant of RefreshCopy: the stored bytes stay the first add's.
KeepCopy(t) ==
    /\ At(t, "recopy")
    /\ th' = [th EXCEPT ![t].pc = "resign", ![t].file = TRUE]
    /\ UNCHANGED <<mem, store, upg>>

RefreshCopy(t) == WriteCopy(t, "recopy", "resign")

\* Mutant of RefreshRow: the row learns of the copy, not of the signer.
RefreshUnsigned(t) ==
    LET i == th[t].h[1] IN
    /\ At(t, "resign")
    /\ updateExisting(i, [rowOf(i) EXCEPT !.file = @ \/ th[t].file])
    /\ Done(t)
    /\ UNCHANGED <<mem, copy, upg>>

RefreshRow(t) ==
    LET i == th[t].h[1] IN
    /\ At(t, "resign")
    /\ updateExisting(i, [rowOf(i) EXCEPT !.signedBy = th[t].by, !.file = @ \/ th[t].file])
    /\ Done(t)
    /\ UNCHANGED <<mem, copy, upg>>

(***************************************************************************)
(* upgradeMagnetSession: wait for the metadata (or give up), check the     *)
(* removal and the row, write the re-marshalled copy, update the row, and  *)
(* delete the copy again when the row is gone.                             *)
(***************************************************************************)
GotInfo(h) ==
    /\ upg[h] = "wait" /\ h \notin info
    /\ info' = info \cup {h}
    /\ UNCHANGED <<handle, gen, removed, paused, signedBy, store, th, upg>>

UpgTo(h, l) == upg' = [upg EXCEPT ![h] = l]

UpgradeWait(h) ==
    /\ upg[h] = "wait"
    /\ \/ h \in info /\ h \notin removed /\ UpgTo(h, "check")
       \/ UpgTo(h, "done")
    /\ UNCHANGED <<mem, store, th>>

UpgradeCheck(h) ==
    /\ upg[h] = "check"
    /\ LET skip == rows[h[1]] # None /\ (rows[h[1]].file \/ rows[h[1]].via = "file")
       IN UpgTo(h, IF skip THEN "done" ELSE "write")
    /\ UNCHANGED <<mem, store, th>>

UpgradeWrite(h) ==
    /\ upg[h] = "write"
    /\ \/ copy' = [copy EXCEPT ![h[1]] = Remarshal] /\ UpgTo(h, "update")
       \/ IoFails /\ UpgTo(h, "done") /\ UNCHANGED copy
    /\ UNCHANGED <<mem, rows, disk, dirty, th>>

UpgradeUpdate(h) ==
    /\ upg[h] = "update"
    /\ updateExisting(h[1], [rowOf(h[1]) EXCEPT !.file = TRUE])
    /\ UpgTo(h, IF rows[h[1]] = None THEN "orphan" ELSE "done")
    /\ UNCHANGED <<mem, copy, th>>

UpgradeOrphan(h) ==
    /\ upg[h] = "orphan"
    /\ copy' = [copy EXCEPT ![h[1]] = None]
    /\ UpgTo(h, "done")
    /\ UNCHANGED <<mem, rows, disk, dirty, th>>

(***************************************************************************)
(* RemoveTorrent: mark the handle, drop the torrent and delete the handle  *)
(* by infohash, delete the row and save, and only then, outside s.mu,      *)
(* delete the copy the row named.                                          *)
(***************************************************************************)
RemoveTorrent(t, i) ==
    /\ "remove" \in UserOps /\ At(t, "idle") /\ handle[i] # None
    /\ removed' = removed \cup {handle[i]}
    /\ th' = [th EXCEPT ![t] = Local("drop", handle[i], FALSE)]
    /\ UNCHANGED <<handle, gen, paused, signedBy, info, store, upg>>

\* Mutant of RemoveHandle: the copy is deleted ahead of the row.
RemoveCopyFirst(t) ==
    /\ At(t, "drop")
    /\ handle' = [handle EXCEPT ![th[t].h[1]] = None]
    /\ copy' = [copy EXCEPT ![th[t].h[1]] = None]
    /\ Goto(t, "sessRemove")
    /\ UNCHANGED <<gen, removed, paused, signedBy, info, rows, disk, dirty, upg>>

RemoveHandle(t) ==
    /\ At(t, "drop")
    /\ handle' = [handle EXCEPT ![th[t].h[1]] = None]
    /\ Goto(t, "sessRemove")
    /\ UNCHANGED <<gen, removed, paused, signedBy, info, store, upg>>

\* Mutant of sessionRemove: the deletion is not saved.
RemoveUnsaved(t) ==
    LET i == th[t].h[1] IN
    /\ At(t, "sessRemove")
    /\ rows' = [rows EXCEPT ![i] = None]
    /\ IF rows[i] # None /\ rows[i].file THEN Goto(t, "rmCopy") ELSE Done(t)
    /\ UNCHANGED <<mem, disk, dirty, copy, upg>>

sessionRemove(t) ==
    LET i == th[t].h[1] IN
    /\ At(t, "sessRemove")
    /\ put(i, None)
    /\ IF rows[i] # None /\ rows[i].file THEN Goto(t, "rmCopy") ELSE Done(t)
    /\ UNCHANGED <<mem, copy, upg>>

RemoveCopy(t) ==
    /\ At(t, "rmCopy")
    /\ copy' = [copy EXCEPT ![th[t].h[1]] = None]
    /\ Done(t)
    /\ UNCHANGED <<mem, rows, disk, dirty, upg>>

(***************************************************************************)
(* PauseTorrent / ResumeTorrent: flip the flag, then persistState, which   *)
(* reads the flag again under s.mu.  (th.file keeps the value asked for.)  *)
(***************************************************************************)
SetPaused(t, i, v) ==
    /\ "pause" \in UserOps /\ At(t, "idle") /\ handle[i] # None
    /\ (handle[i] \in paused) # v
    /\ paused' = IF v THEN paused \cup {handle[i]} ELSE paused \ {handle[i]}
    /\ th' = [th EXCEPT ![t] = Local("persistState", handle[i], v)]
    /\ UNCHANGED <<handle, gen, removed, signedBy, info, store, upg>>

\* Mutant of persistState: writes the value its caller set, not the flag.
PersistRequested(t) ==
    LET h == th[t].h IN
    /\ At(t, "persistState")
    /\ updateExisting(h[1], [rowOf(h[1]) EXCEPT !.paused = th[t].file])
    /\ Done(t)
    /\ UNCHANGED <<mem, copy, upg>>

persistState(t) ==
    LET h == th[t].h IN
    /\ At(t, "persistState")
    /\ updateExisting(h[1], [rowOf(h[1]) EXCEPT !.paused = h \in paused])
    /\ Done(t)
    /\ UNCHANGED <<mem, copy, upg>>

(***************************************************************************)
(* A crash loses everything in memory.  On the next start loadSession      *)
(* reads the rows back and RestoreSession re-adds each torrent before any  *)
(* handler runs; a row whose copy is missing is skipped.                   *)
(***************************************************************************)
Restorable(i) == disk[i] # None /\ (disk[i].file => copy[i] # None)
First(i) == <<i, 1>>

CrashAndRestore ==
    /\ "crash" \in UserOps
    /\ rows' = disk /\ dirty' = FALSE
    /\ gen' = [i \in InfoHashes |-> IF Restorable(i) THEN 1 ELSE 0]
    /\ handle' = [i \in InfoHashes |-> IF Restorable(i) THEN First(i) ELSE None]
    /\ removed' = {}
    /\ paused' = {First(i) : i \in {j \in InfoHashes : Restorable(j) /\ disk[j].paused}}
    /\ info' = {First(i) : i \in {j \in InfoHashes : Restorable(j) /\ disk[j].file}}
    /\ signedBy' = [h \in Handles |-> IF h[2] = 1 /\ Restorable(h[1])
                                      THEN disk[h[1]].signedBy ELSE None]
    /\ th' = [t \in Threads |-> Idle]
    /\ upg' = [h \in Handles |->
                IF h[2] = 1 /\ Restorable(h[1]) /\ disk[h[1]].via # "file"
                THEN "wait" ELSE "none"]
    /\ UNCHANGED <<disk, copy>>

Handler(t) ==
    \/ setSignedBy(t) \/ writeTorrentCopy(t) \/ persistAdd(t) \/ SpawnUpgrade(t)
    \/ setSignedByIfEmpty(t) \/ RefreshCopy(t) \/ RefreshRow(t)
    \/ RemoveHandle(t) \/ sessionRemove(t) \/ RemoveCopy(t) \/ persistState(t)

Request(t, i) ==
    \/ \E kind \in {"file", "magnet"}, by \in Signers \cup {None} : Add(t, i, kind, by)
    \/ RemoveTorrent(t, i)
    \/ \E v \in BOOLEAN : SetPaused(t, i, v)

Upgrade(h) ==
    \/ GotInfo(h) \/ UpgradeWait(h) \/ UpgradeCheck(h) \/ UpgradeWrite(h)
    \/ UpgradeUpdate(h) \/ UpgradeOrphan(h)

Next ==
    \/ \E t \in Threads : Handler(t)
    \/ \E t \in Threads, i \in InfoHashes : Request(t, i)
    \/ \E h \in Handles : Upgrade(h)
    \/ CrashAndRestore

Spec == Init /\ [][Next]_vars

(***************************************************************************)
(* Properties.                                                             *)
(***************************************************************************)
Born(i) == {h \in Handles : h[1] = i /\ h[2] <= gen[i]}

\* What the handlers rely on, and the proofs build on: a handler at work has
\* the handle of an add since the start, e.handles maps an infohash to one
\* of its own handles, and only handles that exist are marked removed.
ThreadsBorn ==
    \A t \in Threads : th[t].pc # "idle" =>
        /\ th[t].h \in Handles /\ th[t].h[2] <= gen[th[t].h[1]]
        /\ th[t].pc \in {"setSigned", "copy", "persistAdd"} => th[t].kind # None
HandlesBorn == \A i \in InfoHashes : handle[i] # None => handle[i] \in Born(i)
RemovedBorn == \A h \in removed : h[2] <= gen[h[1]]

\* RemoveTorrent(h) is under way and has yet to delete h's row.
Removing(h) == \E t \in Threads : th[t].h = h /\ th[t].pc \in {"drop", "sessRemove"}

\* A torrent the user removed does not come back: a session row exists only
\* for an infohash with a handle nobody removed, or while the removal that
\* will delete it is still under way.  Adds, pauses, signature upgrades and
\* magnet upgrades may write at any moment of a concurrent RemoveTorrent
\* (session.go: "a create here can never resurrect an entry").
NoResurrection ==
    \A i \in InfoHashes : rows[i] # None /\ gen[i] > 0 =>
        \E h \in Born(i) : h \notin removed \/ Removing(h)

\* The inductive strengthening of NoResurrection.
SessionInv == TypeOK /\ ThreadsBorn /\ HandlesBorn /\ RemovedBorn /\ NoResurrection

\* The same across a restart: unless the last save failed, session.json is
\* the rows, so a removed torrent is not restored after a crash either.
SavedMeansDurable == ~dirty => disk = rows

\* Nothing is under way for the infohash.
Quiet(i) ==
    /\ \A t \in Threads : th[t].h # None => th[t].h[1] # i
    /\ \A h \in Handles : h[1] = i => upg[h] \in {"none", "wait", "done"}

\* Pausing and resuming are persisted whatever their order: once the
\* handlers are done, the row of an infohash with a single handle says
\* paused exactly when the handle is.
PausePersisted ==
    \A i \in InfoHashes : Quiet(i) /\ gen[i] = 1 /\ rows[i] # None /\ <<i, 1>> \notin removed =>
        rows[i].paused = (<<i, 1>> \in paused)

\* A row on disk never names a copy that is not there, at any point where a
\* crash may come: restoreEntry gives up on such a row, even when it also
\* has a magnet URI.
RowHasCopy == \A i \in InfoHashes : disk[i] # None /\ disk[i].file => copy[i] # None

\* session.go: "session persists the torrent set": a torrent the engine
\* manages, and whose add is over, has a row.
ManagedHasRow == \A i \in InfoHashes : Quiet(i) /\ handle[i] # None => rows[i] # None

\* upgradeSignedBy: "the stored bytes always back the claimed signature".
StoredBytesBackSignature ==
    \A i \in InfoHashes : Quiet(i) /\ rows[i] # None /\ rows[i].signedBy # None =>
        copy[i] = rows[i].signedBy

\* setSignedByIfEmpty: "concurrent signed adds cannot leave the handle and
\* session disagreeing".
SignerAgrees ==
    \A i \in InfoHashes : Quiet(i) /\ handle[i] # None /\ rows[i] # None =>
        rows[i].signedBy = signedBy[handle[i]]

\* upgradeMagnetSession "must NEVER run for file or metainfo entries": the
\* row of a .torrent add keeps the original bytes.
FileRowKeepsBytes ==
    \A i \in InfoHashes : rows[i] # None /\ rows[i].via = "file" => copy[i] # Remarshal
=============================================================================
