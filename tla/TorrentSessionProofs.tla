------------------------ MODULE TorrentSessionProofs ------------------------
(***************************************************************************)
(* Proofs about TorrentSession, for any set of infohashes, any number of   *)
(* concurrent handlers and any number of handles per infohash.             *)
(***************************************************************************)
EXTENDS SessionPlays, TLAPS

(***************************************************************************)
(* Type correctness.                                                       *)
(***************************************************************************)
\* saveLocked keeps the disk a function of rows.
LEMMA SaveType ==
    ASSUME TypeOK, rows' \in [InfoHashes -> Rows \cup {None}], saveLocked
    PROVE  disk' \in [InfoHashes -> Rows \cup {None}] /\ dirty' \in BOOLEAN
  BY DEF TypeOK, saveLocked

\* Writing one row keeps the three session variables well typed.
LEMMA PutType ==
    ASSUME TypeOK, NEW i \in InfoHashes, NEW row \in Rows \cup {None}, put(i, row)
    PROVE  /\ rows' \in [InfoHashes -> Rows \cup {None}]
           /\ disk' \in [InfoHashes -> Rows \cup {None}]
           /\ dirty' \in BOOLEAN
  <1>1. rows' \in [InfoHashes -> Rows \cup {None}]
    BY DEF TypeOK, put
  <1> QED
    BY <1>1, SaveType DEF put

LEMMA UpdateType ==
    ASSUME TypeOK, NEW i \in InfoHashes, NEW row \in Rows, updateExisting(i, row)
    PROVE  /\ rows' \in [InfoHashes -> Rows \cup {None}]
           /\ disk' \in [InfoHashes -> Rows \cup {None}]
           /\ dirty' \in BOOLEAN
  BY PutType DEF TypeOK, updateExisting

LEMMA RowType ==
    ASSUME TypeOK, NEW i \in InfoHashes
    PROVE  rowOf(i) \in Rows
  BY DEF TypeOK, rowOf, Rows

LEMMA AddRowType ==
    ASSUME TypeOK, NEW h \in Handles, NEW kind \in {"file", "magnet"}, NEW f \in BOOLEAN
    PROVE  addRow(h, kind, f) \in Rows
  <1>1. h[1] \in InfoHashes
    BY DEF Handles
  <1> QED
    BY <1>1, RowType DEF TypeOK, addRow, Rows

(***************************************************************************)
(* Bookkeeping: types, and where the handles in use come from.             *)
(***************************************************************************)
Book == TypeOK /\ ThreadsBorn /\ HandlesBorn /\ RemovedBorn

LEMMA IdleType == Idle \in ThreadRecs
  BY DEF Idle, ThreadRecs, ThreadLabels

LEMMA BookInit ==
    ASSUME Init
    PROVE  Book
  <1> USE SessionAssumption, BytesAssumption, RowAssumption
  <1>1. TypeOK
    <2>1. 0 \in 0..MaxGen
      BY SessionAssumption
    <2>2. "none" \in UpgLabels
      BY DEF UpgLabels
    <2> QED
      BY <2>1, <2>2, IdleType DEF Init, TypeOK
  <1> QED
    BY <1>1 DEF Book, Init, ThreadsBorn, HandlesBorn, RemovedBorn, Idle

LEMMA BookAdd ==
    ASSUME Book, NEW t \in Threads, NEW i \in InfoHashes,
           NEW kind \in {"file", "magnet"}, NEW by \in Signers \cup {None},
           Add(t, i, kind, by)
    PROVE  Book'
  <1> USE SessionAssumption, BytesAssumption, RowAssumption DEF Book
  <1>1. CASE handle[i] # None
    <2> DEFINE r == [pc |-> "cas", h |-> handle[i], kind |-> kind, by |-> by, file |-> FALSE]
    <2>1. handle[i] \in Handles /\ handle[i][1] = i /\ handle[i][2] <= gen[i]
      BY <1>1 DEF HandlesBorn, Born
    <2>2. th' = [th EXCEPT ![t] = r] /\ UNCHANGED <<mem, store, upg>>
      BY <1>1 DEF Add, Idle
    <2>3. r \in ThreadRecs
      BY <2>1 DEF ThreadRecs, ThreadLabels
    <2>4. TypeOK'
      BY <2>2, <2>3 DEF TypeOK, mem, store
    <2>5. ThreadsBorn'
      BY <2>1, <2>2 DEF TypeOK, ThreadsBorn, mem
    <2>6. HandlesBorn' /\ RemovedBorn'
      BY <2>2 DEF HandlesBorn, RemovedBorn, Born, mem
    <2> QED
      BY <2>4, <2>5, <2>6
  <1>2. CASE handle[i] = None
    <2> DEFINE h == <<i, gen[i] + 1>>
    <2>1. h \in Handles /\ gen[i] \in Nat /\ gen[i] + 1 \in 0..MaxGen
      BY <1>2 DEF Add, TypeOK, Handles
    <2>2. /\ gen' = [gen EXCEPT ![i] = @ + 1]
          /\ handle' = [handle EXCEPT ![i] = h]
          /\ info' \in {info, info \cup {h}}
          /\ \E l \in {"persistAdd", "setSigned", "copy"} : th' = [th EXCEPT ![t] =
                [pc |-> l, h |-> h, kind |-> kind, by |-> by, file |-> FALSE]]
          /\ UNCHANGED <<removed, paused, signedBy, upg, rows, disk, dirty, copy>>
      BY <1>2 DEF Add, store
    <2> HIDE DEF h
    <2>3. TypeOK'
      BY <2>1, <2>2 DEF TypeOK, ThreadRecs, ThreadLabels
    <2>4. ThreadsBorn'
      <3> SUFFICES ASSUME NEW u \in Threads, th'[u].pc # "idle"
                   PROVE  /\ th'[u].h \in Handles /\ th'[u].h[2] <= gen'[th'[u].h[1]]
                          /\ th'[u].pc \in {"setSigned", "copy", "persistAdd"} =>
                                 th'[u].kind # None
        BY DEF ThreadsBorn
      <3>1. CASE u = t
        BY <2>1, <2>2, <3>1 DEF TypeOK, h
      <3>2. CASE u # t
        <4>1. th'[u] = th[u]
          BY <2>2, <3>2 DEF TypeOK
        <4>2. th[u].h \in Handles /\ th[u].h[2] <= gen[th[u].h[1]]
          BY <4>1 DEF ThreadsBorn
        <4>3. th[u].h[1] \in InfoHashes
          BY <4>2 DEF Handles
        <4>4. \A j \in InfoHashes : gen[j] \in Nat /\ gen[j] <= gen'[j] /\ gen'[j] \in Nat
          BY <2>2 DEF TypeOK
        <4> QED
          BY <4>1, <4>2, <4>3, <4>4 DEF ThreadsBorn, Handles
      <3> QED
        BY <3>1, <3>2
    <2>5. HandlesBorn' /\ RemovedBorn'
      BY <2>1, <2>2 DEF TypeOK, HandlesBorn, RemovedBorn, Born, h, Handles
    <2> QED
      BY <2>3, <2>4, <2>5
  <1> QED
    BY <1>1, <1>2

\* A handler that goes on with the handle it has, or comes to rest, keeps
\* the handlers' handles in order, as long as no handle is forgotten.
LEMMA MoveBorn ==
    ASSUME Book, NEW t \in Threads, NEW r \in ThreadRecs,
           th' = [th EXCEPT ![t] = r], gen' = gen,
           r.pc # "idle" => /\ th[t].pc # "idle" /\ r.h = th[t].h
                            /\ r.pc \in {"setSigned", "copy", "persistAdd"} => r.kind # None
    PROVE  ThreadsBorn'
  BY DEF Book, TypeOK, ThreadsBorn

\* The thread record a handler at work has.
LEMMA AtWork ==
    ASSUME Book, NEW t \in Threads, th[t].pc # "idle"
    PROVE  /\ th[t] \in ThreadRecs /\ th[t].h \in Handles
           /\ th[t].h[1] \in InfoHashes /\ th[t].h[2] <= gen[th[t].h[1]]
  BY DEF Book, TypeOK, ThreadsBorn, Handles

LEMMA GotoRec ==
    ASSUME Book, NEW t \in Threads, NEW l \in ThreadLabels, NEW f \in BOOLEAN
    PROVE  /\ [th[t] EXCEPT !.pc = l] \in ThreadRecs
           /\ [th[t] EXCEPT !.pc = l].pc = l
           /\ [th[t] EXCEPT !.pc = l].h = th[t].h
           /\ [th[t] EXCEPT !.pc = l].kind = th[t].kind
           /\ [th[t] EXCEPT !.pc = l, !.file = f] \in ThreadRecs
           /\ [th[t] EXCEPT !.pc = l, !.file = f].pc = l
           /\ [th[t] EXCEPT !.pc = l, !.file = f].h = th[t].h
           /\ [th[t] EXCEPT !.pc = l, !.file = f].kind = th[t].kind
  BY DEF Book, TypeOK, ThreadRecs

\* Goto and Done are moves.
LEMMA GotoBorn ==
    ASSUME Book, NEW t \in Threads, NEW l \in ThreadLabels, th[t].pc # "idle",
           Goto(t, l), gen' = gen,
           l \in {"setSigned", "copy", "persistAdd"} => th[t].kind # None
    PROVE  ThreadsBorn' /\ th' \in [Threads -> ThreadRecs]
  <1> DEFINE r == [th[t] EXCEPT !.pc = l]
  <1>1. th' = [th EXCEPT ![t] = r]
    BY DEF Goto, Book, TypeOK
  <1>2. r \in ThreadRecs /\ r.pc = l /\ r.h = th[t].h /\ r.kind = th[t].kind
    BY GotoRec
  <1> HIDE DEF r
  <1>3. ThreadsBorn'
    BY <1>1, <1>2, MoveBorn
  <1> QED
    BY <1>1, <1>2, <1>3 DEF Book, TypeOK

LEMMA DoneBorn ==
    ASSUME Book, NEW t \in Threads, Done(t), gen' = gen
    PROVE  ThreadsBorn' /\ th' \in [Threads -> ThreadRecs]
  <1>1. Idle.pc = "idle"
    BY DEF Idle
  <1> QED
    BY <1>1, IdleType, MoveBorn DEF Done, Book, TypeOK

\* Steps that write the copy on disk.
LEMMA BookWriteCopy ==
    ASSUME Book, NEW t \in Threads,
           writeTorrentCopy(t) \/ RefreshCopy(t)
    PROVE  Book'
  <1>1. PICK from \in {"copy", "recopy"}, to \in {"persistAdd", "resign"} :
            WriteCopy(t, from, to) /\ (from = "copy" <=> to = "persistAdd")
    BY DEF writeTorrentCopy, RefreshCopy
  <1>2. th[t].pc = from /\ th[t].pc # "idle" /\ to \in ThreadLabels
        /\ (to \in {"setSigned", "copy", "persistAdd"} => th[t].kind # None)
    BY <1>1 DEF WriteCopy, At, ThreadLabels, Book, ThreadsBorn
  <1>3. UNCHANGED <<mem, rows, disk, dirty, upg>>
    BY <1>1 DEF WriteCopy
  <1>4. ThreadsBorn' /\ th' \in [Threads -> ThreadRecs]
    <2>1. CASE th' = [th EXCEPT ![t].pc = to, ![t].file = TRUE]
      <3> DEFINE r == [th[t] EXCEPT !.pc = to, !.file = TRUE]
      <3>1. th' = [th EXCEPT ![t] = r]
        BY <2>1 DEF Book, TypeOK
      <3>2. r \in ThreadRecs /\ r.pc = to /\ r.h = th[t].h /\ r.kind = th[t].kind
        BY <1>2, GotoRec
      <3> HIDE DEF r
      <3>3. ThreadsBorn'
        BY <1>2, <1>3, <3>1, <3>2, MoveBorn DEF mem
      <3> QED
        BY <3>1, <3>2, <3>3 DEF Book, TypeOK
    <2>2. CASE Goto(t, to)
      BY <1>2, <1>3, <2>2, GotoBorn DEF mem
    <2> QED
      BY <1>1, <2>1, <2>2 DEF WriteCopy
  <1>5. copy' \in [InfoHashes -> Bytes \cup {None}]
    <2>1. BytesOf(th[t].by) \in Bytes
      BY DEF Book, TypeOK, ThreadRecs, BytesOf, Bytes
    <2> QED
      BY <1>1, <2>1 DEF WriteCopy, Book, TypeOK
  <1> QED
    BY <1>3, <1>4, <1>5 DEF Book, TypeOK, HandlesBorn, RemovedBorn, Born, mem

\* Steps that write a row and end, or go on to another label.
LEMMA BookPersistAdd ==
    ASSUME Book, NEW t \in Threads, persistAdd(t)
    PROVE  Book'
  <1>1. th[t].pc = "persistAdd" /\ th[t].pc # "idle"
    BY DEF persistAdd, At
  <1>2. /\ th[t] \in ThreadRecs /\ th[t].h \in Handles /\ th[t].h[1] \in InfoHashes
        /\ th[t].kind \in {"file", "magnet"} /\ th[t].file \in BOOLEAN
    BY <1>1, AtWork DEF Book, ThreadsBorn, ThreadRecs
  <1>3. UNCHANGED <<mem, copy, upg>>
    BY DEF persistAdd
  <1>4. addRow(th[t].h, th[t].kind, th[t].file) \in Rows
    BY <1>2, AddRowType DEF Book
  <1>5. /\ rows' \in [InfoHashes -> Rows \cup {None}]
        /\ disk' \in [InfoHashes -> Rows \cup {None}]
        /\ dirty' \in BOOLEAN
    BY <1>2, <1>4, PutType DEF persistAdd, Book, TypeOK
  <1>6. ThreadsBorn' /\ th' \in [Threads -> ThreadRecs]
    <2>1. "spawn" \in ThreadLabels
      BY DEF ThreadLabels
    <2>2. CASE Goto(t, "spawn")
      BY <1>1, <1>3, <2>1, <2>2, GotoBorn DEF mem
    <2>3. CASE Done(t)
      BY <1>3, <2>3, DoneBorn DEF mem
    <2> QED
      BY <2>2, <2>3 DEF persistAdd
  <1> QED
    BY <1>3, <1>5, <1>6 DEF Book, TypeOK, HandlesBorn, RemovedBorn, Born, mem

LEMMA BookUpdateRow ==
    ASSUME Book, NEW t \in Threads, RefreshRow(t) \/ persistState(t)
    PROVE  Book'
  <1>1. th[t].pc # "idle"
    BY DEF RefreshRow, persistState, At
  <1>2. /\ th[t] \in ThreadRecs /\ th[t].h \in Handles /\ th[t].h[1] \in InfoHashes
    BY <1>1, AtWork
  <1>3. UNCHANGED <<mem, copy, upg>> /\ Done(t)
    BY DEF RefreshRow, persistState
  <1>4. rowOf(th[t].h[1]) \in Rows
    BY <1>2, RowType DEF Book
  <1>5. PICK row \in Rows : updateExisting(th[t].h[1], row)
    <2>1. CASE RefreshRow(t)
      <3> DEFINE row == [rowOf(th[t].h[1]) EXCEPT !.signedBy = th[t].by, !.file = @ \/ th[t].file]
      <3>1. row \in Rows
        BY <1>2, <1>4, <2>1 DEF Rows, ThreadRecs, RefreshRow, setSignedByIfEmpty
      <3> QED
        BY <2>1, <3>1 DEF RefreshRow
    <2>2. CASE persistState(t)
      <3> DEFINE row == [rowOf(th[t].h[1]) EXCEPT !.paused = th[t].h \in paused]
      <3>1. row \in Rows
        <4>1. \A q \in Rows : \A b \in BOOLEAN : [q EXCEPT !.paused = b] \in Rows
          BY DEF Rows
        <4>2. CASE th[t].h \in paused
          <5>1. (th[t].h \in paused) = TRUE
            BY <4>2
          <5> QED
            BY <1>4, <4>1, <5>1
        <4>3. CASE th[t].h \notin paused
          <5>1. (th[t].h \in paused) = FALSE
            BY <4>3
          <5> QED
            BY <1>4, <4>1, <5>1
        <4> QED
          BY <4>2, <4>3
      <3> QED
        BY <2>2, <3>1 DEF persistState
    <2> QED
      BY <2>1, <2>2
  <1>6. /\ rows' \in [InfoHashes -> Rows \cup {None}]
        /\ disk' \in [InfoHashes -> Rows \cup {None}]
        /\ dirty' \in BOOLEAN
    BY <1>2, <1>5, UpdateType DEF Book
  <1>7. ThreadsBorn' /\ th' \in [Threads -> ThreadRecs]
    BY <1>3, DoneBorn DEF mem
  <1> QED
    BY <1>3, <1>6, <1>7 DEF Book, TypeOK, HandlesBorn, RemovedBorn, Born, mem

\* Steps of an add that write the handle's signature or spawn a goroutine.
LEMMA BookSigned ==
    ASSUME Book, NEW t \in Threads,
           setSignedBy(t) \/ setSignedByIfEmpty(t) \/ SpawnUpgrade(t)
    PROVE  Book'
  <1>1. th[t].pc # "idle" /\ th[t] \in ThreadRecs
    BY DEF setSignedBy, setSignedByIfEmpty, SpawnUpgrade, At, Book, TypeOK
  <1>2. UNCHANGED <<handle, gen, removed, paused, info, store>>
    BY DEF setSignedBy, setSignedByIfEmpty, SpawnUpgrade, mem
  <1>3. /\ signedBy' \in [Handles -> Signers \cup {None}]
        /\ upg' \in [Handles -> UpgLabels]
    BY <1>1 DEF setSignedBy, setSignedByIfEmpty, SpawnUpgrade, mem, Book, TypeOK,
                ThreadRecs, UpgLabels
  <1>4. ThreadsBorn' /\ th' \in [Threads -> ThreadRecs]
    <2>1. {"copy", "recopy"} \subseteq ThreadLabels
      BY DEF ThreadLabels
    <2>2. CASE Done(t)
      BY <1>2, <2>2, DoneBorn
    <2>3. CASE Goto(t, "recopy")
      BY <1>1, <1>2, <2>1, <2>3, GotoBorn
    <2>4. CASE setSignedBy(t)
      <3>1. Goto(t, "copy") /\ th[t].kind # None
        BY <2>4 DEF setSignedBy, At, Book, ThreadsBorn
      <3> QED
        BY <1>1, <1>2, <2>1, <3>1, GotoBorn
    <2> QED
      BY <2>2, <2>3, <2>4 DEF setSignedByIfEmpty, SpawnUpgrade
  <1> QED
    BY <1>2, <1>3, <1>4 DEF Book, TypeOK, HandlesBorn, RemovedBorn, Born, store

\* The steps of RemoveTorrent after the first.
LEMMA BookRemove ==
    ASSUME Book, NEW t \in Threads,
           RemoveHandle(t) \/ sessionRemove(t) \/ RemoveCopy(t)
    PROVE  Book'
  <1>1. th[t].pc # "idle"
    BY DEF RemoveHandle, sessionRemove, RemoveCopy, At
  <1>2. th[t].h \in Handles /\ th[t].h[1] \in InfoHashes
    BY <1>1, AtWork
  <1>3. UNCHANGED <<gen, removed, paused, signedBy, info, upg>>
    BY DEF RemoveHandle, sessionRemove, RemoveCopy, mem
  <1>4. /\ handle' \in [InfoHashes -> Handles \cup {None}]
        /\ copy' \in [InfoHashes -> Bytes \cup {None}]
        /\ \A i \in InfoHashes : handle'[i] # None => handle'[i] = handle[i]
    BY DEF RemoveHandle, sessionRemove, RemoveCopy, mem, store, Book, TypeOK
  <1>5. /\ rows' \in [InfoHashes -> Rows \cup {None}]
        /\ disk' \in [InfoHashes -> Rows \cup {None}]
        /\ dirty' \in BOOLEAN
    <2>1. CASE sessionRemove(t)
      BY <1>2, <2>1, PutType DEF sessionRemove, Book
    <2>2. CASE RemoveHandle(t) \/ RemoveCopy(t)
      BY <2>2 DEF RemoveHandle, RemoveCopy, store, Book, TypeOK
    <2> QED
      BY <2>1, <2>2
  <1>6. ThreadsBorn' /\ th' \in [Threads -> ThreadRecs]
    <2>1. {"sessRemove", "rmCopy"} \subseteq ThreadLabels
      BY DEF ThreadLabels
    <2>2. CASE Done(t)
      BY <1>3, <2>2, DoneBorn
    <2>3. CASE Goto(t, "sessRemove")
      BY <1>1, <1>3, <2>1, <2>3, GotoBorn
    <2>4. CASE Goto(t, "rmCopy")
      BY <1>1, <1>3, <2>1, <2>4, GotoBorn
    <2> QED
      BY <2>2, <2>3, <2>4 DEF RemoveHandle, sessionRemove, RemoveCopy
  <1>7. HandlesBorn'
    BY <1>3, <1>4 DEF Book, HandlesBorn, Born
  <1> QED
    BY <1>3, <1>4, <1>5, <1>6, <1>7 DEF Book, TypeOK, RemovedBorn

\* The first steps of RemoveTorrent, PauseTorrent and ResumeTorrent: the
\* handler takes the handle of e.handles and flips one of its flags.
LEMMA BookRequest ==
    ASSUME Book, NEW t \in Threads, NEW i \in InfoHashes, NEW v \in BOOLEAN,
           RemoveTorrent(t, i) \/ SetPaused(t, i, v)
    PROVE  Book'
  <1>1. handle[i] # None /\ handle[i] \in Handles /\ handle[i][1] = i /\ handle[i][2] <= gen[i]
    BY DEF RemoveTorrent, SetPaused, Book, HandlesBorn, Born
  <1>2. PICK l \in {"drop", "persistState"}, f \in BOOLEAN :
            th' = [th EXCEPT ![t] = Local(l, handle[i], f)]
    BY DEF RemoveTorrent, SetPaused
  <1>3. Local(l, handle[i], f) \in ThreadRecs
    BY <1>1 DEF Local, ThreadRecs, ThreadLabels
  <1>4. /\ UNCHANGED <<handle, gen, signedBy, info, store, upg>>
        /\ removed' \in {removed, removed \cup {handle[i]}}
        /\ paused' \subseteq paused \cup {handle[i]}
    BY DEF RemoveTorrent, SetPaused
  <1>5. TypeOK'
    BY <1>1, <1>2, <1>3, <1>4 DEF Book, TypeOK, store
  <1>6. ThreadsBorn'
    BY <1>1, <1>2, <1>4 DEF Book, TypeOK, ThreadsBorn, Local
  <1>7. HandlesBorn' /\ RemovedBorn'
    BY <1>1, <1>4 DEF Book, HandlesBorn, RemovedBorn, Born
  <1> QED
    BY <1>5, <1>6, <1>7 DEF Book

LEMMA BookUpgrade ==
    ASSUME Book, NEW h \in Handles, Upgrade(h)
    PROVE  Book'
  <1>1. h[1] \in InfoHashes
    BY DEF Handles
  <1>2. UNCHANGED <<handle, gen, removed, paused, signedBy, th>>
    BY DEF Upgrade, GotInfo, UpgradeWait, UpgradeCheck, UpgradeWrite, UpgradeUpdate,
           UpgradeOrphan, mem
  <1>3. /\ info' \subseteq Handles
        /\ upg' \in [Handles -> UpgLabels]
        /\ copy' \in [InfoHashes -> Bytes \cup {None}]
    BY DEF Upgrade, GotInfo, UpgradeWait, UpgradeCheck, UpgradeWrite, UpgradeUpdate,
           UpgradeOrphan, UpgTo, mem, store, Book, TypeOK, UpgLabels, Bytes
  <1>4. /\ rows' \in [InfoHashes -> Rows \cup {None}]
        /\ disk' \in [InfoHashes -> Rows \cup {None}]
        /\ dirty' \in BOOLEAN
    <2>1. CASE UpgradeUpdate(h)
      <3>1. [rowOf(h[1]) EXCEPT !.file = TRUE] \in Rows
        BY <1>1, RowType DEF Rows, Book
      <3> QED
        BY <1>1, <2>1, <3>1, UpdateType DEF UpgradeUpdate, Book
    <2>2. CASE ~UpgradeUpdate(h)
      BY <2>2 DEF Upgrade, GotInfo, UpgradeWait, UpgradeCheck, UpgradeWrite, UpgradeOrphan,
                  store, Book, TypeOK
    <2> QED
      BY <2>1, <2>2
  <1> QED
    BY <1>2, <1>3, <1>4 DEF Book, TypeOK, ThreadsBorn, HandlesBorn, RemovedBorn, Born

LEMMA BookCrash ==
    ASSUME Book, CrashAndRestore
    PROVE  Book'
  <1>1. \A i \in InfoHashes : First(i) \in Handles /\ First(i)[1] = i /\ First(i)[2] = 1
    BY SessionAssumption DEF First, Handles
  <1>2. gen' \in [InfoHashes -> 0..MaxGen]
    BY SessionAssumption DEF CrashAndRestore
  <1>3. handle' \in [InfoHashes -> Handles \cup {None}]
    BY <1>1 DEF CrashAndRestore
  <1>4. removed' \subseteq Handles /\ paused' \subseteq Handles /\ info' \subseteq Handles
    BY <1>1 DEF CrashAndRestore
  <1>5. signedBy' \in [Handles -> Signers \cup {None}]
    <2>1. \A h \in Handles : Restorable(h[1]) =>
              disk[h[1]].signedBy \in Signers \cup {None}
      BY DEF Book, TypeOK, Restorable, Handles, Rows
    <2> QED
      BY <2>1 DEF CrashAndRestore
  <1>6. /\ rows' \in [InfoHashes -> Rows \cup {None}]
        /\ disk' \in [InfoHashes -> Rows \cup {None}]
        /\ dirty' \in BOOLEAN /\ copy' \in [InfoHashes -> Bytes \cup {None}]
    BY DEF CrashAndRestore, Book, TypeOK
  <1>7. th' \in [Threads -> ThreadRecs] /\ \A t \in Threads : th'[t].pc = "idle"
    BY IdleType DEF CrashAndRestore, Idle
  <1>8. upg' \in [Handles -> UpgLabels]
    BY DEF CrashAndRestore, UpgLabels
  <1>9. HandlesBorn' /\ RemovedBorn'
    BY <1>1 DEF CrashAndRestore, HandlesBorn, RemovedBorn, Born
  <1> QED
    BY <1>2, <1>3, <1>4, <1>5, <1>6, <1>7, <1>8, <1>9 DEF Book, TypeOK, ThreadsBorn

LEMMA BookNext ==
    ASSUME Book, [Next]_vars
    PROVE  Book'
  <1>1. CASE UNCHANGED vars
    BY <1>1 DEF Book, TypeOK, ThreadsBorn, HandlesBorn, RemovedBorn, Born, vars, mem, store
  <1>2. ASSUME NEW t \in Threads, Handler(t) PROVE Book'
    BY <1>2, BookWriteCopy, BookPersistAdd, BookUpdateRow, BookSigned, BookRemove DEF Handler
  <1>3. ASSUME NEW t \in Threads, NEW i \in InfoHashes, Request(t, i) PROVE Book'
    BY <1>3, BookAdd, BookRequest DEF Request
  <1>4. ASSUME NEW h \in Handles, Upgrade(h) PROVE Book'
    BY <1>4, BookUpgrade
  <1>5. CASE CrashAndRestore
    BY <1>5, BookCrash
  <1> QED
    BY <1>1, <1>2, <1>3, <1>4, <1>5 DEF Next

\* Type correctness of the session: every handler, goroutine and restart
\* keeps the engine's maps, the rows and the disk well formed.
THEOREM TypeCorrect == Spec => []TypeOK
  <1>1. Init => Book
    BY BookInit
  <1>2. Book /\ [Next]_vars => Book'
    BY BookNext
  <1>3. Book => TypeOK
    BY DEF Book
  <1> QED
    BY <1>1, <1>2, <1>3, PTL DEF Spec

(***************************************************************************)
(* No resurrection.                                                        *)
(***************************************************************************)
\* A step that creates no row, marks no handle and ends no removal.
LEMMA KeepRows ==
    ASSUME NoResurrection, gen' = gen, removed' = removed,
           \A i \in InfoHashes : rows'[i] # None => rows[i] # None,
           \A h \in Handles : Removing(h) => Removing(h)'
    PROVE  NoResurrection'
  BY DEF NoResurrection, Born

\* A handler's step moves no other handler.
LEMMA OnlySelf ==
    ASSUME Book, NEW t \in Threads, Handler(t)
    PROVE  \A u \in Threads \ {t} : th'[u] = th[u]
  BY DEF Handler, setSignedBy, writeTorrentCopy, persistAdd, SpawnUpgrade, setSignedByIfEmpty,
         RefreshCopy, RefreshRow, RemoveHandle, sessionRemove, RemoveCopy, persistState,
         WriteCopy, Goto, Done, Book, TypeOK

\* A handler that is not removing a handle's row ends no removal.
LEMMA KeepRemoving ==
    ASSUME Book, NEW t \in Threads, \A u \in Threads \ {t} : th'[u] = th[u],
           th[t].pc \notin {"drop", "sessRemove"},
           NEW h \in Handles, Removing(h)
    PROVE  Removing(h)'
  BY DEF Removing

\* updateExisting creates no row.
LEMMA UpdateCreatesNone ==
    ASSUME TypeOK, NEW i \in InfoHashes, NEW row \in Rows, updateExisting(i, row)
    PROVE  \A j \in InfoHashes : rows'[j] # None => rows[j] # None
  BY DEF TypeOK, updateExisting, put

LEMMA ResurrectAdd ==
    ASSUME Book, NoResurrection, NEW t \in Threads, NEW i \in InfoHashes,
           NEW kind \in {"file", "magnet"}, NEW by \in Signers \cup {None},
           Add(t, i, kind, by)
    PROVE  NoResurrection'
  <1>1. /\ th[t].pc = "idle" /\ rows' = rows /\ removed' = removed
        /\ \A u \in Threads \ {t} : th'[u] = th[u]
    BY DEF Add, At, store, mem, Book, TypeOK
  <1>2. \A h \in Handles : Removing(h) => Removing(h)'
    BY <1>1, KeepRemoving
  <1>3. CASE handle[i] # None
    BY <1>1, <1>2, <1>3, KeepRows DEF Add, mem
  <1>4. CASE handle[i] = None
    <2> DEFINE h == <<i, gen[i] + 1>>
    <2>1. /\ gen[i] \in Nat /\ h \in Handles /\ h[1] = i /\ h[2] = gen[i] + 1
          /\ gen' = [gen EXCEPT ![i] = gen[i] + 1]
      <3>1. gen[i] \in 0..MaxGen /\ gen[i] < MaxGen
            /\ gen' = [gen EXCEPT ![i] = gen[i] + 1]
        BY <1>4 DEF Add, Book, TypeOK
      <3>2. gen[i] \in Nat /\ gen[i] + 1 \in 1..MaxGen
        BY <3>1, SessionAssumption
      <3> QED
        BY <3>1, <3>2 DEF Handles
    <2> HIDE DEF h
    <2>2. h \notin removed'
      BY <1>1, <2>1 DEF Book, RemovedBorn
    <2>3. h \in Born(i)'
      BY <2>1 DEF Born, Book, TypeOK
    <2>4. ASSUME NEW j \in InfoHashes, rows'[j] # None, gen'[j] > 0, j # i
          PROVE  \E w \in Born(j)' : w \notin removed' \/ Removing(w)'
      <3>1. gen'[j] = gen[j]
        BY <2>1, <2>4 DEF Book, TypeOK
      <3>2. PICK w \in Born(j) : w \notin removed \/ Removing(w)
        BY <1>1, <2>4, <3>1 DEF NoResurrection
      <3> QED
        BY <1>1, <1>2, <3>1, <3>2 DEF Born
    <2> QED
      BY <2>2, <2>3, <2>4 DEF NoResurrection
  <1> QED
    BY <1>3, <1>4

LEMMA ResurrectPersistAdd ==
    ASSUME Book, NoResurrection, NEW t \in Threads, persistAdd(t)
    PROVE  NoResurrection'
  <1>1. th[t].pc = "persistAdd" /\ gen' = gen /\ removed' = removed
    BY DEF persistAdd, At, mem
  <1>2. /\ th[t].h \in Handles /\ th[t].h[1] \in InfoHashes
        /\ th[t].h[2] <= gen[th[t].h[1]]
    BY <1>1, AtWork
  <1>3. \A h \in Handles : Removing(h) => Removing(h)'
    BY <1>1, OnlySelf, KeepRemoving DEF Handler
  <1>4. CASE th[t].h \in removed
    BY <1>1, <1>3, <1>4, KeepRows DEF persistAdd
  <1>5. CASE th[t].h \notin removed
    <2>1. \A j \in InfoHashes : j # th[t].h[1] => rows'[j] = rows[j]
      BY <1>5 DEF persistAdd, put, Book, TypeOK
    <2>2. th[t].h \in Born(th[t].h[1])
      BY <1>2 DEF Born
    <2> QED
      BY <1>1, <1>3, <1>5, <2>1, <2>2 DEF NoResurrection, Born
  <1> QED
    BY <1>4, <1>5

\* The steps of an add or a pause that create no row.
LEMMA ResurrectOther ==
    ASSUME Book, NoResurrection, NEW t \in Threads,
           \/ setSignedBy(t) \/ writeTorrentCopy(t) \/ SpawnUpgrade(t)
           \/ setSignedByIfEmpty(t) \/ RefreshCopy(t) \/ RemoveCopy(t)
           \/ RefreshRow(t) \/ persistState(t)
    PROVE  NoResurrection'
  <1>1. th[t].pc \notin {"idle", "drop", "sessRemove"} /\ gen' = gen /\ removed' = removed
    BY DEF setSignedBy, writeTorrentCopy, SpawnUpgrade, setSignedByIfEmpty, RefreshCopy,
           RemoveCopy, RefreshRow, persistState, WriteCopy, At, mem
  <1>2. \A h \in Handles : Removing(h) => Removing(h)'
    BY <1>1, OnlySelf, KeepRemoving DEF Handler
  <1>3. th[t].h[1] \in InfoHashes
    BY <1>1, AtWork
  <1>4. \A i \in InfoHashes : rows'[i] # None => rows[i] # None
    BY <1>3 DEF setSignedBy, writeTorrentCopy, SpawnUpgrade, setSignedByIfEmpty, RefreshCopy,
           RemoveCopy, RefreshRow, persistState, WriteCopy, store, Book, TypeOK,
           updateExisting, put
  <1> QED
    BY <1>1, <1>2, <1>4, KeepRows

LEMMA ResurrectRemoveHandle ==
    ASSUME Book, NoResurrection, NEW t \in Threads, RemoveHandle(t)
    PROVE  NoResurrection'
  <1>1. gen' = gen /\ removed' = removed /\ rows' = rows
    BY DEF RemoveHandle, store
  <1>2. /\ th'[t].pc = "sessRemove" /\ th'[t].h = th[t].h
        /\ \A u \in Threads \ {t} : th'[u] = th[u]
    BY DEF RemoveHandle, Goto, Book, TypeOK, ThreadRecs
  <1>3. \A h \in Handles : Removing(h) => Removing(h)'
    BY <1>2 DEF Removing
  <1> QED
    BY <1>1, <1>3, KeepRows

LEMMA ResurrectSessionRemove ==
    ASSUME Book, NoResurrection, NEW t \in Threads, sessionRemove(t)
    PROVE  NoResurrection'
  <1>1. gen' = gen /\ removed' = removed /\ th[t].pc = "sessRemove"
    BY DEF sessionRemove, At, mem
  <1>2. th[t].h[1] \in InfoHashes /\ rows' = [rows EXCEPT ![th[t].h[1]] = None]
    BY <1>1, AtWork DEF sessionRemove, put
  <1>3. \A u \in Threads \ {t} : th'[u] = th[u]
    BY OnlySelf DEF Handler
  <1>4. ASSUME NEW h \in Handles, h[1] # th[t].h[1], Removing(h) PROVE Removing(h)'
    BY <1>3, <1>4 DEF Removing
  <1>5. ASSUME NEW j \in InfoHashes, rows'[j] # None, gen'[j] > 0
        PROVE  \E w \in Born(j)' : w \notin removed' \/ Removing(w)'
    <2>1. j # th[t].h[1] /\ rows[j] # None
      BY <1>2, <1>5 DEF Book, TypeOK
    <2>2. PICK w \in Born(j) : w \notin removed \/ Removing(w)
      BY <1>1, <1>5, <2>1 DEF NoResurrection
    <2> QED
      BY <1>1, <1>4, <2>1, <2>2 DEF Born
  <1> QED
    BY <1>5 DEF NoResurrection

LEMMA ResurrectRequest ==
    ASSUME Book, NoResurrection, NEW t \in Threads, NEW i \in InfoHashes, NEW v \in BOOLEAN,
           RemoveTorrent(t, i) \/ SetPaused(t, i, v)
    PROVE  NoResurrection'
  <1>1. /\ gen' = gen /\ rows' = rows /\ th[t].pc = "idle"
        /\ handle[i] \in Handles
        /\ removed' \in {removed, removed \cup {handle[i]}}
        /\ \A u \in Threads \ {t} : th'[u] = th[u]
    BY DEF RemoveTorrent, SetPaused, At, store, Book, TypeOK, HandlesBorn, Born
  <1>2. \A h \in Handles : Removing(h) => Removing(h)'
    BY <1>1, KeepRemoving
  <1>3. CASE removed' = removed
    BY <1>1, <1>2, <1>3, KeepRows
  <1>4. CASE RemoveTorrent(t, i)
    <2>1. th'[t].pc = "drop" /\ th'[t].h = handle[i]
      BY <1>4 DEF RemoveTorrent, Local, Book, TypeOK
    <2>2. ASSUME NEW w \in Handles, w = handle[i] PROVE Removing(w)'
      BY <2>1, <2>2 DEF Removing
    <2>3. ASSUME NEW w \in Handles, w \notin removed \/ Removing(w)
          PROVE  w \notin removed' \/ Removing(w)'
      <3>1. CASE w = handle[i]
        BY <2>2, <3>1
      <3>2. CASE w # handle[i]
        BY <1>1, <1>2, <2>3, <3>2
      <3> QED
        BY <3>1, <3>2
    <2>4. ASSUME NEW j \in InfoHashes, rows'[j] # None, gen'[j] > 0
          PROVE  \E w \in Born(j)' : w \notin removed' \/ Removing(w)'
      <3>1. PICK w \in Born(j) : w \notin removed \/ Removing(w)
        BY <1>1, <2>4 DEF NoResurrection
      <3>2. w \in Handles /\ w \in Born(j)'
        BY <1>1, <3>1 DEF Born
      <3> QED
        BY <2>3, <3>1, <3>2
    <2> QED
      BY <2>4 DEF NoResurrection
  <1> QED
    BY <1>3, <1>4 DEF SetPaused

LEMMA ResurrectUpgrade ==
    ASSUME Book, NoResurrection, NEW h \in Handles, Upgrade(h)
    PROVE  NoResurrection'
  <1>1. gen' = gen /\ removed' = removed /\ th' = th
    BY DEF Upgrade, GotInfo, UpgradeWait, UpgradeCheck, UpgradeWrite, UpgradeUpdate,
           UpgradeOrphan, mem
  <1>2. h[1] \in InfoHashes
    BY DEF Handles
  <1>3. \A i \in InfoHashes : rows'[i] # None => rows[i] # None
    BY <1>2 DEF Upgrade, GotInfo, UpgradeWait, UpgradeCheck, UpgradeWrite, UpgradeUpdate,
           UpgradeOrphan, store, updateExisting, put, Book, TypeOK
  <1> QED
    BY <1>1, <1>3, KeepRows DEF Removing

LEMMA ResurrectCrash ==
    ASSUME Book, CrashAndRestore
    PROVE  NoResurrection'
  <1>1. \A i \in InfoHashes : gen'[i] > 0 => First(i) \in Born(i)' /\ First(i) \notin removed'
    BY SessionAssumption DEF CrashAndRestore, Born, First, Handles
  <1> QED
    BY <1>1 DEF NoResurrection

LEMMA NoResurrectionNext ==
    ASSUME Book, NoResurrection, [Next]_vars
    PROVE  NoResurrection'
  <1>1. CASE UNCHANGED vars
    BY <1>1 DEF NoResurrection, Born, Removing, vars, mem, store
  <1>2. ASSUME NEW t \in Threads, Handler(t) PROVE NoResurrection'
    BY <1>2, ResurrectPersistAdd, ResurrectOther, ResurrectRemoveHandle,
       ResurrectSessionRemove DEF Handler
  <1>3. ASSUME NEW t \in Threads, NEW i \in InfoHashes, Request(t, i) PROVE NoResurrection'
    BY <1>3, ResurrectAdd, ResurrectRequest DEF Request
  <1>4. ASSUME NEW h \in Handles, Upgrade(h) PROVE NoResurrection'
    BY <1>4, ResurrectUpgrade
  <1>5. CASE CrashAndRestore
    BY <1>5, ResurrectCrash
  <1> QED
    BY <1>1, <1>2, <1>3, <1>4, <1>5 DEF Next

LEMMA SessionInvNext ==
    ASSUME SessionInv, [Next]_vars
    PROVE  SessionInv'
  <1>1. Book /\ NoResurrection
    BY DEF SessionInv, Book
  <1>2. Book' /\ NoResurrection'
    BY <1>1, BookNext, NoResurrectionNext
  <1> QED
    BY <1>2 DEF SessionInv, Book

\* A removed torrent never comes back, for any number of infohashes and of
\* concurrent adds, removals, pauses, upgrades, failed saves and crashes:
\* the guarded upsert of persistAdd and the update-only writes of everything
\* else suffice, because RemoveTorrent marks the handle before it deletes
\* the row.
THEOREM NeverResurrected == Spec => []NoResurrection
  <1>1. Init => SessionInv
    BY BookInit DEF SessionInv, Book, Init, NoResurrection
  <1>2. SessionInv /\ [Next]_vars => SessionInv'
    BY SessionInvNext
  <1>3. SessionInv => NoResurrection
    BY DEF SessionInv
  <1> QED
    BY <1>1, <1>2, <1>3, PTL DEF Spec

(***************************************************************************)
(* Durability.                                                             *)
(***************************************************************************)
\* Unless the last save failed, session.json holds exactly the rows: every
\* step that touches a row saves, and one successful save makes good every
\* earlier failure.
THEOREM SavedRowsDurable == Spec => []SavedMeansDurable
  <1>1. Init => SavedMeansDurable
    BY DEF Init, SavedMeansDurable
  <1>2. ASSUME SavedMeansDurable, [Next]_vars PROVE SavedMeansDurable'
    <2> USE <1>2 DEF SavedMeansDurable
    <2>1. CASE UNCHANGED <<rows, disk, dirty>>
      BY <2>1
    <2>2. CASE saveLocked
      BY <2>2 DEF saveLocked
    <2>3. CASE CrashAndRestore
      BY <2>3 DEF CrashAndRestore
    <2>4. UNCHANGED vars => UNCHANGED <<rows, disk, dirty>>
      BY DEF vars, store
    <2>5. ASSUME NEW t \in Threads, Handler(t)
          PROVE  UNCHANGED <<rows, disk, dirty>> \/ saveLocked
      BY <2>5 DEF Handler, setSignedBy, writeTorrentCopy, persistAdd, SpawnUpgrade,
             setSignedByIfEmpty, RefreshCopy, RefreshRow, RemoveHandle, sessionRemove,
             RemoveCopy, persistState, WriteCopy, store, updateExisting, put
    <2>6. ASSUME NEW t \in Threads, NEW i \in InfoHashes, Request(t, i)
          PROVE  UNCHANGED <<rows, disk, dirty>>
      BY <2>6 DEF Request, Add, RemoveTorrent, SetPaused, store
    <2>7. ASSUME NEW h \in Handles, Upgrade(h)
          PROVE  UNCHANGED <<rows, disk, dirty>> \/ saveLocked
      BY <2>7 DEF Upgrade, GotInfo, UpgradeWait, UpgradeCheck, UpgradeWrite, UpgradeUpdate,
             UpgradeOrphan, store, updateExisting, put
    <2> QED
      BY <2>1, <2>2, <2>3, <2>4, <2>5, <2>6, <2>7 DEF Next
  <1> QED
    BY <1>1, <1>2, PTL DEF Spec

(***************************************************************************)
(* Pauses.                                                                 *)
(***************************************************************************)
\* The handler that will bring the row of the only handle up to date.
Persisting == {"setSigned", "copy", "persistAdd", "persistState"}
WillPersist(h) == \E t \in Threads : th[t].h = h /\ th[t].pc \in Persisting
PauseKept(i) ==
    gen[i] = 1 /\ rows[i] # None /\ First(i) \notin removed =>
        (rows[i].paused <=> First(i) \in paused) \/ WillPersist(First(i))
PauseInv == \A i \in InfoHashes : PauseKept(i)

LEMMA PauseSame ==
    ASSUME NEW i, PauseKept(i), gen'[i] = gen[i], removed \subseteq removed', paused' = paused,
           rows'[i] # None => rows[i] # None /\ rows'[i].paused = rows[i].paused,
           WillPersist(First(i)) => WillPersist(First(i))'
    PROVE  PauseKept(i)'
  BY DEF PauseKept, First

\* A handler that has nothing to persist ends nobody's duty to.
LEMMA DutyStays ==
    ASSUME NEW t \in Threads, \A u \in Threads \ {t} : th'[u] = th[u], NEW h,
           \/ th[t].pc \notin Persisting
           \/ th[t].h # h
           \/ th'[t].h = th[t].h /\ th'[t].pc \in Persisting
    PROVE  WillPersist(h) => WillPersist(h)'
  BY DEF WillPersist

LEMMA PauseRowKept ==
    ASSUME Book, NEW i \in InfoHashes, NEW j \in InfoHashes, NEW by \in Signers \cup {None}, NEW f \in BOOLEAN,
           \/ updateExisting(j, [rowOf(j) EXCEPT !.signedBy = by, !.file = @ \/ f])
           \/ updateExisting(j, [rowOf(j) EXCEPT !.file = TRUE])
    PROVE  rows'[i] # None => rows[i] # None /\ rows'[i].paused = rows[i].paused
  <1>1. CASE rows[j] = None
    BY <1>1 DEF updateExisting
  <1>2. CASE rows[j] # None
    <2>1. rows[j] \in Rows /\ rowOf(j) = rows[j] /\ rows \in [InfoHashes -> Rows \cup {None}]
      BY <1>2 DEF Book, TypeOK, rowOf
    <2>2. \E row : rows' = [rows EXCEPT ![j] = row] /\ row.paused = rows[j].paused
      <3>1. [rowOf(j) EXCEPT !.signedBy = by, !.file = @ \/ f].paused = rows[j].paused
        BY <2>1 DEF Rows
      <3>2. [rowOf(j) EXCEPT !.file = TRUE].paused = rows[j].paused
        BY <2>1 DEF Rows
      <3> QED BY <1>2, <3>1, <3>2 DEF updateExisting, put
    <2> QED BY <1>2, <2>1, <2>2
  <1> QED BY <1>1, <1>2

LEMMA PauseHandler ==
    ASSUME Book, PauseInv, NEW t \in Threads, Handler(t), ~persistAdd(t), ~persistState(t)
    PROVE  PauseInv'
  <1> SUFFICES ASSUME NEW i \in InfoHashes PROVE PauseKept(i)'
    BY DEF PauseInv
  <1>0. PauseKept(i) /\ th[t] \in ThreadRecs
    BY DEF PauseInv, Book, TypeOK
  <1>1. \A u \in Threads \ {t} : th'[u] = th[u]
    BY OnlySelf
  <1>2. gen' = gen /\ removed' = removed /\ paused' = paused /\ th[t].pc # "idle"
    BY DEF Handler, setSignedBy, writeTorrentCopy, SpawnUpgrade, setSignedByIfEmpty, RefreshCopy,
           RemoveCopy, RefreshRow, RemoveHandle, sessionRemove, WriteCopy, At, mem
  <1>3. th[t].h \in Handles /\ th[t].h[1] \in InfoHashes /\ th[t].by \in Signers \cup {None} /\ th[t].file \in BOOLEAN
    BY <1>2, AtWork DEF ThreadRecs
  <1>4. WillPersist(First(i)) => WillPersist(First(i))'
    <2>1. CASE setSignedBy(t) \/ writeTorrentCopy(t)
      <3>1. th'[t].h = th[t].h /\ th'[t].pc \in Persisting
        BY <1>0, <2>1 DEF setSignedBy, writeTorrentCopy, WriteCopy, Goto, Persisting, Book, TypeOK, ThreadRecs
      <3> QED BY <1>1, <3>1, DutyStays
    <2>2. CASE ~(setSignedBy(t) \/ writeTorrentCopy(t))
      <3>1. th[t].pc \notin Persisting
        BY <2>2 DEF Handler, SpawnUpgrade, setSignedByIfEmpty, RefreshCopy, RemoveCopy, RefreshRow, RemoveHandle,
                    sessionRemove, WriteCopy, At, Persisting
      <3> QED BY <1>1, <3>1, DutyStays
    <2> QED BY <2>1, <2>2
  <1>5. rows'[i] # None => rows[i] # None /\ rows'[i].paused = rows[i].paused
    <2>1. CASE RefreshRow(t)
      BY <1>3, <2>1, PauseRowKept DEF RefreshRow
    <2>2. CASE sessionRemove(t)
      BY <1>3, <2>2 DEF sessionRemove, put, Book, TypeOK
    <2>3. CASE ~RefreshRow(t) /\ ~sessionRemove(t)
      <3>1. rows' = rows
        BY <2>3 DEF Handler, setSignedBy, writeTorrentCopy, SpawnUpgrade, setSignedByIfEmpty, RefreshCopy,
                    RemoveCopy, RemoveHandle, WriteCopy, store
      <3> QED BY <3>1
    <2> QED BY <2>1, <2>2, <2>3
  <1> QED BY <1>0, <1>2, <1>4, <1>5, PauseSame

\* The row is written from the flag as it is when s.mu is held.
LEMMA PausePersist ==
    ASSUME Book, PauseInv, NEW t \in Threads, persistAdd(t) \/ persistState(t)
    PROVE  PauseInv'
  <1> SUFFICES ASSUME NEW i \in InfoHashes PROVE PauseKept(i)'
    BY DEF PauseInv
  <1> DEFINE h == th[t].h
  <1>0. PauseKept(i) /\ rows \in [InfoHashes -> Rows \cup {None}] /\ gen[i] \in Nat
    BY SessionAssumption DEF PauseInv, Book, TypeOK
  <1>1. \A u \in Threads \ {t} : th'[u] = th[u]
    BY OnlySelf DEF Handler
  <1>2. gen' = gen /\ removed' = removed /\ paused' = paused /\ th[t].pc # "idle"
    BY DEF persistAdd, persistState, At, mem
  <1>3. h \in Handles /\ h[1] \in InfoHashes /\ h[2] <= gen[h[1]]
    BY <1>2, AtWork
  <1>4. \E row : /\ rows' = rows \/ rows' = [rows EXCEPT ![h[1]] = row]
                 /\ row.paused <=> h \in paused
                 /\ rows' = rows => h \in removed \/ rows[h[1]] = None \/ rows' = [rows EXCEPT ![h[1]] = row]
    <2>1. CASE persistAdd(t)
      <3> DEFINE row == addRow(h, th[t].kind, th[t].file)
      <3>1. row.paused <=> h \in paused
        BY DEF addRow
      <3>2. (rows' = rows /\ h \in removed) \/ rows' = [rows EXCEPT ![h[1]] = row]
        BY <2>1 DEF persistAdd, put
      <3> QED BY <3>1, <3>2
    <2>2. CASE persistState(t)
      <3> DEFINE row == [rowOf(h[1]) EXCEPT !.paused = h \in paused]
      <3>1. row.paused <=> h \in paused
        BY <1>3, RowType DEF Rows, Book
      <3>2. (rows' = rows /\ rows[h[1]] = None) \/ rows' = [rows EXCEPT ![h[1]] = row]
        BY <2>2 DEF persistState, updateExisting, put
      <3> QED BY <3>1, <3>2
    <2> QED BY <2>1, <2>2
  <1>5. CASE i = h[1]
    <2>1. ASSUME gen[i] = 1 PROVE First(i) = h
      BY <1>3, <1>5, <2>1, SessionAssumption DEF Handles, First
    <2> QED BY <1>0, <1>2, <1>4, <1>5, <2>1 DEF PauseKept, First
  <1>6. CASE i # h[1]
    <2>1. rows'[i] = rows[i] /\ First(i) # h
      BY <1>0, <1>4, <1>6 DEF First
    <2>2. WillPersist(First(i)) => WillPersist(First(i))'
      BY <1>1, <2>1, DutyStays
    <2> QED BY <1>0, <1>2, <2>1, <2>2, PauseSame
  <1> QED BY <1>5, <1>6

LEMMA PauseRequest ==
    ASSUME Book, PauseInv, NEW t \in Threads, NEW i \in InfoHashes, Request(t, i)
    PROVE  PauseInv'
  <1> SUFFICES ASSUME NEW j \in InfoHashes PROVE PauseKept(j)'
    BY DEF PauseInv
  <1>0. PauseKept(j) /\ rows' = rows /\ th[t].pc = "idle" /\ gen[i] \in Nat /\ handle[i] \in Handles \cup {None}
    <2>1. rows' = rows /\ th[t].pc = "idle"
      BY DEF Request, Add, RemoveTorrent, SetPaused, store, At
    <2>2. gen[i] \in Nat /\ handle[i] \in Handles \cup {None}
      BY DEF Book, TypeOK
    <2> QED BY <2>1, <2>2 DEF PauseInv
  <1>1. /\ \A u \in Threads \ {t} : th'[u] = th[u]
        /\ removed \subseteq removed' /\ th \in [Threads -> ThreadRecs]
    BY DEF Request, Add, RemoveTorrent, SetPaused, mem, Book, TypeOK
  <1>2. WillPersist(First(j)) => WillPersist(First(j))'
    BY <1>0, <1>1, DutyStays DEF Persisting
  <1>3. CASE gen' = gen /\ paused' = paused
    BY <1>0, <1>1, <1>2, <1>3, PauseSame
  <1>4. ASSUME NEW kind \in {"file", "magnet"}, NEW by \in Signers \cup {None}, Add(t, i, kind, by) PROVE PauseKept(j)'
    <2>1. CASE handle[i] # None
      BY <1>3, <1>4, <2>1 DEF Add, mem
    <2>2. CASE handle[i] = None
      <3>1. /\ gen' = [gen EXCEPT ![i] = gen[i] + 1] /\ paused' = paused
            /\ th'[t].h = <<i, gen[i] + 1>> /\ th'[t].pc \in Persisting
        BY <1>1, <1>4, <2>2 DEF Add, Persisting
      <3>2. CASE j # i
        <4>1. gen'[j] = gen[j]
          BY <3>1, <3>2 DEF Book, TypeOK
        <4> QED BY <1>0, <1>1, <1>2, <3>1, <4>1, PauseSame
      <3>3. ASSUME j = i, gen'[j] = 1 PROVE WillPersist(First(j))'
        <4>1. gen[i] = 0
          BY <1>0, <3>1, <3>3 DEF Book, TypeOK
        <4> QED BY <3>1, <3>3, <4>1 DEF WillPersist, First, Persisting
      <3> QED BY <3>2, <3>3 DEF PauseKept
    <2> QED BY <2>1, <2>2
  <1>5. CASE RemoveTorrent(t, i)
    BY <1>3, <1>5 DEF RemoveTorrent
  <1>6. ASSUME NEW v \in BOOLEAN, SetPaused(t, i, v) PROVE PauseKept(j)'
    <2>1. /\ gen' = gen /\ handle[i] # None /\ paused' \in {paused \cup {handle[i]}, paused \ {handle[i]}}
          /\ th'[t].h = handle[i] /\ th'[t].pc \in Persisting
      BY <1>1, <1>6 DEF SetPaused, Local, Persisting
    <2>2. CASE First(j) = handle[i]
      BY <2>1, <2>2 DEF PauseKept, WillPersist, First, Persisting
    <2>3. CASE First(j) # handle[i]
      BY <1>0, <1>1, <1>2, <2>1, <2>3 DEF PauseKept, First
    <2> QED BY <2>2, <2>3
  <1> QED BY <1>4, <1>5, <1>6 DEF Request

LEMMA PauseUpgrade ==
    ASSUME Book, PauseInv, NEW h \in Handles, Upgrade(h)
    PROVE  PauseInv'
  <1> SUFFICES ASSUME NEW i \in InfoHashes PROVE PauseKept(i)'
    BY DEF PauseInv
  <1>1. gen' = gen /\ removed' = removed /\ paused' = paused /\ th' = th /\ h[1] \in InfoHashes
    BY DEF Upgrade, GotInfo, UpgradeWait, UpgradeCheck, UpgradeWrite, UpgradeUpdate, UpgradeOrphan, mem, Handles
  <1>2. rows'[i] # None => rows[i] # None /\ rows'[i].paused = rows[i].paused
    <2>1. CASE UpgradeUpdate(h)
      BY <1>1, <2>1, PauseRowKept DEF UpgradeUpdate
    <2>2. CASE ~UpgradeUpdate(h)
      BY <2>2 DEF Upgrade, GotInfo, UpgradeWait, UpgradeCheck, UpgradeWrite, UpgradeOrphan, store
    <2> QED BY <2>1, <2>2
  <1>3. WillPersist(First(i)) => WillPersist(First(i))'
    BY <1>1 DEF WillPersist
  <1> QED BY <1>1, <1>2, <1>3, PauseSame DEF PauseInv

LEMMA PauseCrash ==
    ASSUME Book, CrashAndRestore
    PROVE  PauseInv'
  <1> SUFFICES ASSUME NEW i \in InfoHashes, gen'[i] = 1
               PROVE  rows'[i].paused <=> First(i) \in paused'
    BY DEF PauseInv, PauseKept, First
  <1>1. Restorable(i) /\ rows'[i] = disk[i]
    BY DEF CrashAndRestore
  <1>2. \A j \in InfoHashes : First(j) = First(i) => j = i
    BY DEF First
  <1> QED BY <1>1, <1>2 DEF CrashAndRestore

\* Whatever the order of concurrent pauses, resumes, adds, upgrades and crashes, for any number of
\* them: once the handlers are done, the row of an infohash with a single handle says paused exactly
\* when the handle is, because persistState and persistAdd read the flag under s.mu and whoever
\* flips it persists it after (PauseTorrent, ResumeTorrent).
THEOREM PausesPersisted == Spec => []PausePersisted
  <1> DEFINE Inv == Book /\ PauseInv
  <1>1. Init => Inv
    BY BookInit DEF Init, PauseInv, PauseKept
  <1>2. Inv /\ [Next]_vars => Inv'
    <2> SUFFICES ASSUME Book, PauseInv, [Next]_vars PROVE PauseInv'
      BY BookNext
    <2>1. CASE UNCHANGED vars
      BY <2>1 DEF vars, mem, store, PauseInv, PauseKept, WillPersist, First
    <2>2. ASSUME NEW t \in Threads, Handler(t) PROVE PauseInv'
      BY <2>2, PauseHandler, PausePersist
    <2>3. ASSUME NEW t \in Threads, NEW i \in InfoHashes, Request(t, i) PROVE PauseInv'
      BY <2>3, PauseRequest
    <2>4. ASSUME NEW h \in Handles, Upgrade(h) PROVE PauseInv'
      BY <2>4, PauseUpgrade
    <2>5. CASE CrashAndRestore
      BY <2>5, PauseCrash
    <2> QED BY <2>1, <2>2, <2>3, <2>4, <2>5 DEF Next
  <1>3. Inv => PausePersisted
    <2> SUFFICES ASSUME Book, PauseInv, NEW i \in InfoHashes, Quiet(i), gen[i] = 1, rows[i] # None,
                        <<i, 1>> \notin removed
                 PROVE  rows[i].paused = (<<i, 1>> \in paused)
      BY DEF PausePersisted
    <2>1. ~WillPersist(First(i))
      <3> SUFFICES ASSUME NEW t \in Threads, th[t].h = First(i) PROVE FALSE
        BY DEF WillPersist
      <3>1. First(i) \in Handles /\ First(i)[1] = i
        BY SessionAssumption DEF First, Handles
      <3>2. th[t].h # None /\ th[t].h[1] = i
        BY <3>1, HandlesAssumption
      <3> QED BY <3>2 DEF Quiet
    <2>2. rows[i].paused <=> <<i, 1>> \in paused
      BY <2>1 DEF PauseInv, PauseKept, First
    <2>3. rows[i].paused \in BOOLEAN
      BY DEF Book, TypeOK, Rows
    <2> QED BY <2>2, <2>3
  <1> QED BY <1>1, <1>2, <1>3, PTL DEF Spec


(***************************************************************************)
(* Handlers one at a time.  A crash may come between any two steps of one, *)
(* so what it has done so far must be whole on disk, and what it will do   *)
(* must not break what is there.                                           *)
(***************************************************************************)
\* The row of i on disk is backed by the copy, at every step.
Stored(i) ==
    rows[i] # None =>
        /\ rows[i].via = "file" /\ rows[i].file /\ copy[i] # None
        /\ rows[i].signedBy # None => copy[i] = rows[i].signedBy

\* Handle and row of i agree: so it is when no handler works on i.
Agrees(i) ==
    /\ handle[i] # None <=> rows[i] # None
    /\ handle[i] # None => handle[i] \notin removed /\ rows[i].signedBy = signedBy[handle[i]]

WorkedOn(i) == \E t \in Threads : Busy(t) /\ th[t].h[1] = i

\* How far a handler is with the infohash of its handle.
Halfway(t) ==
    LET h == th[t].h
        i == h[1]
    IN  /\ ~At(t, "spawn")
        /\ th[t].pc \in {"setSigned", "copy", "cas", "recopy"} => ~th[t].file
        /\ th[t].pc \in {"setSigned", "copy", "persistAdd"} =>
            handle[i] = h /\ h \notin removed /\ rows[i] = None
        /\ At(t, "copy") \/ At(t, "persistAdd") => signedBy[h] = th[t].by
        /\ At(t, "persistAdd") => copy[i] = BytesOf(th[t].by)
        /\ At(t, "cas") \/ At(t, "persistState") => handle[i] = h /\ Agrees(i)
        /\ th[t].pc \in {"cas", "recopy", "resign"} => th[t].by # None
        /\ At(t, "recopy") \/ At(t, "resign") =>
            /\ handle[i] = h /\ h \notin removed /\ rows[i] # None
            /\ signedBy[h] = th[t].by /\ rows[i].signedBy = None
        /\ At(t, "resign") => copy[i] = th[t].by
        /\ At(t, "sessRemove") \/ At(t, "rmCopy") => handle[i] = None
        /\ At(t, "rmCopy") => rows[i] = None

\* A handle that does not exist yet has no signer.
Unclaimed(i) == \A h \in Handles : h[1] = i /\ h[2] > gen[i] => signedBy[h] = None

InOrder(i) == Stored(i) /\ Unclaimed(i) /\ (~WorkedOn(i) => Agrees(i))

OrderlyInv ==
    /\ Book /\ Orderly /\ disk = rows
    /\ \A h \in Handles : upg[h] = "none"
    /\ \A i \in InfoHashes : InOrder(i)
    /\ \A t \in Threads : Busy(t) => Halfway(t)


\* A step of handler t that touches only the infohash i.
LEMMA OrderlyTouch ==
    ASSUME OrderlyInv, Book', Orderly', SavedMeansDurable', upg' = upg,
           NEW t \in Threads, NEW i \in InfoHashes,
           \A s \in Threads \ {t} : th'[s] = th[s] /\ ~Busy(s),
           Busy(t) => th[t].h[1] = i, Busy(t)' => th'[t].h[1] = i,
           \A j \in InfoHashes \ {i} : /\ rows'[j] = rows[j] /\ copy'[j] = copy[j]
                                       /\ handle'[j] = handle[j] /\ gen'[j] = gen[j],
           \A h \in Handles : h[1] # i => /\ signedBy'[h] = signedBy[h]
                                          /\ (h \in removed' <=> h \in removed),
           Stored(i)', Unclaimed(i)', Busy(t)' => Halfway(t)', ~Busy(t)' => Agrees(i)'
    PROVE  OrderlyInv'
  <1>1. disk' = rows'
    BY DEF SavedMeansDurable, Orderly
  <1>2. \A s \in Threads : Busy(s)' => s = t
    BY DEF Busy, At
  <1>3. \A s \in Threads : Busy(s)' => Halfway(s)'
    BY <1>2
  <1>4. ASSUME NEW j \in InfoHashes, j # i PROVE InOrder(j)'
    <2>1. ~WorkedOn(j)
      BY <1>4 DEF WorkedOn, OrderlyInv, Orderly, OneByOne
    <2>2. Stored(j) /\ Unclaimed(j) /\ Agrees(j)
      BY <2>1 DEF OrderlyInv, InOrder
    <2>3. handle[j] # None => handle[j] \in Handles /\ handle[j][1] = j
      BY DEF OrderlyInv, Book, HandlesBorn, Born
    <2>4. Stored(j)' /\ Agrees(j)'
      BY <1>4, <2>2, <2>3 DEF Stored, Agrees
    <2>5. Unclaimed(j)'
      BY <1>4, <2>2 DEF Unclaimed
    <2> QED BY <2>4, <2>5 DEF InOrder
  <1>5. InOrder(i)'
    <2>1. ~WorkedOn(i)' => ~Busy(t)'
      BY DEF WorkedOn
    <2> QED BY <2>1 DEF InOrder
  <1>6. \A j \in InfoHashes : InOrder(j)'
    BY <1>4, <1>5
  <1>7. \A h \in Handles : upg'[h] = "none"
    BY DEF OrderlyInv
  <1> QED BY <1>1, <1>3, <1>6, <1>7 DEF OrderlyInv

\* What a handler at work can rely on.
LEMMA OrderlyWork ==
    ASSUME OrderlyInv, NEW t \in Threads, Busy(t)
    PROVE  /\ th[t] \in ThreadRecs /\ th[t].h \in Handles /\ th[t].h[1] \in InfoHashes
           /\ \A s \in Threads \ {t} : ~Busy(s)
           /\ Halfway(t) /\ Stored(th[t].h[1]) /\ Unclaimed(th[t].h[1])
           /\ th[t].h[2] <= gen[th[t].h[1]]
           /\ th[t].kind # "magnet"
           /\ th \in [Threads -> ThreadRecs]
  <1>1. th[t].pc # "idle"
    BY DEF Busy, At
  <1>2. Book /\ Orderly
    BY DEF OrderlyInv
  <1>3. th[t] \in ThreadRecs /\ th[t].h \in Handles /\ th[t].h[1] \in InfoHashes /\ th[t].h[2] <= gen[th[t].h[1]]
    BY <1>1, <1>2, AtWork
  <1>4. \A s \in Threads \ {t} : ~Busy(s)
    BY <1>2 DEF Orderly, OneByOne
  <1>5. Halfway(t) /\ InOrder(th[t].h[1])
    BY <1>3 DEF OrderlyInv
  <1> QED BY <1>2, <1>3, <1>4, <1>5 DEF InOrder, Orderly, NoMagnets, Book, TypeOK

LEMMA DoneFacts ==
    ASSUME NEW t \in Threads, th \in [Threads -> ThreadRecs], Done(t)
    PROVE  ~Busy(t)' /\ \A s \in Threads \ {t} : th'[s] = th[s]
  BY DEF Done, Idle, Busy, At

LEMMA GotoFacts ==
    ASSUME NEW t \in Threads, th \in [Threads -> ThreadRecs], NEW l \in ThreadLabels, Goto(t, l)
    PROVE  /\ th'[t].pc = l /\ th'[t].h = th[t].h /\ th'[t].by = th[t].by /\ th'[t].file = th[t].file
           /\ \A s \in Threads \ {t} : th'[s] = th[s]
  BY DEF Goto, ThreadRecs

LEMMA OrderlyPersistAdd ==
    ASSUME OrderlyInv, Book', Orderly', SavedMeansDurable', NEW t \in Threads, persistAdd(t)
    PROVE  OrderlyInv'
  <1>1. Busy(t) /\ At(t, "persistAdd")
    BY DEF persistAdd, Busy, At
  <1> SUFFICES ASSUME NEW h \in Handles, NEW i \in InfoHashes, th[t].h = h, h[1] = i PROVE OrderlyInv'
    BY <1>1, OrderlyWork
  <1>2. /\ th[t] \in ThreadRecs /\ \A s \in Threads \ {t} : ~Busy(s)
        /\ Halfway(t) /\ Unclaimed(i) /\ th[t].kind # "magnet" /\ th \in [Threads -> ThreadRecs]
    BY <1>1, OrderlyWork
  <1>3. handle[i] = h /\ h \notin removed /\ rows[i] = None /\ signedBy[h] = th[t].by
        /\ copy[i] = BytesOf(th[t].by)
    BY <1>1, <1>2 DEF Halfway, At
  <1>4. th[t].kind = "file" /\ th[t].file
    BY <1>1, <1>2 DEF OrderlyInv, Book, ThreadsBorn, Orderly, CopiesWritten, At, Busy, ThreadRecs
  <1>5. put(i, addRow(h, "file", TRUE)) /\ Done(t) /\ UNCHANGED <<mem, copy, upg>>
    <2>1. th[t].file = TRUE
      BY <1>2, <1>4 DEF ThreadRecs
    <2> QED BY <1>3, <1>4, <2>1 DEF persistAdd
  <1>6. addRow(h, "file", TRUE).via = "file" /\ addRow(h, "file", TRUE).file
        /\ addRow(h, "file", TRUE).signedBy = th[t].by
    BY <1>3 DEF addRow, rowOf
  <1>7. addRow(h, "file", TRUE) \in Rows
    BY AddRowType DEF OrderlyInv, Book
  <1>8. rows'[i] = addRow(h, "file", TRUE) /\ \A j \in InfoHashes \ {i} : rows'[j] = rows[j]
    BY <1>5 DEF put, OrderlyInv, Book, TypeOK
  <1>9. ~Busy(t)' /\ \A s \in Threads \ {t} : th'[s] = th[s]
    BY <1>2, <1>5, DoneFacts
  <1>10. UNCHANGED <<handle, gen, removed, signedBy, copy, upg>>
    BY <1>5 DEF mem
  <1>11. Stored(i)'
    BY <1>2, <1>3, <1>6, <1>8, <1>10, BytesAssumption DEF Stored, BytesOf, ThreadRecs, Bytes
  <1>12. Agrees(i)'
    BY <1>3, <1>6, <1>7, <1>8, <1>10, RowAssumption, HandlesAssumption DEF Agrees
  <1>13. Unclaimed(i)'
    BY <1>2, <1>10 DEF Unclaimed
  <1> QED BY <1>2, <1>8, <1>9, <1>10, <1>11, <1>12, <1>13, OrderlyTouch


LEMMA OrderlySetSigned ==
    ASSUME OrderlyInv, Book', Orderly', SavedMeansDurable', NEW t \in Threads, setSignedBy(t)
    PROVE  OrderlyInv'
  <1>1. Busy(t) /\ At(t, "setSigned")
    BY DEF setSignedBy, Busy, At
  <1> SUFFICES ASSUME NEW h \in Handles, NEW i \in InfoHashes, th[t].h = h, h[1] = i PROVE OrderlyInv'
    BY <1>1, OrderlyWork
  <1>2. /\ th[t] \in ThreadRecs /\ \A s \in Threads \ {t} : ~Busy(s)
        /\ Halfway(t) /\ Stored(i) /\ Unclaimed(i) /\ th \in [Threads -> ThreadRecs]
        /\ h[2] <= gen[i] /\ gen[i] \in Int /\ h[2] \in Int
    <2>1. gen[i] \in Int /\ h[2] \in Int
      BY SessionAssumption DEF OrderlyInv, Book, TypeOK, Handles
    <2> QED BY <1>1, <2>1, OrderlyWork
  <1>3. handle[i] = h /\ h \notin removed /\ rows[i] = None /\ ~th[t].file
    BY <1>1, <1>2 DEF Halfway, At
  <1>4. UNCHANGED <<handle, gen, removed, rows, copy, upg>> /\ signedBy' = [signedBy EXCEPT ![h] = th[t].by]
    BY DEF setSignedBy, store
  <1>5. /\ th'[t].pc = "copy" /\ th'[t].h = th[t].h /\ th'[t].by = th[t].by /\ th'[t].file = th[t].file
        /\ \A s \in Threads \ {t} : th'[s] = th[s]
    BY <1>2, GotoFacts DEF setSignedBy, ThreadLabels
  <1>6. signedBy'[h] = th[t].by /\ \A k \in Handles : k # h => signedBy'[k] = signedBy[k]
    BY <1>4 DEF OrderlyInv, Book, TypeOK
  <1>7. Halfway(t)' /\ Busy(t)'
    BY <1>3, <1>4, <1>5, <1>6 DEF Halfway, At, Busy
  <1>8. Stored(i)'
    BY <1>3, <1>4 DEF Stored
  <1>9. Unclaimed(i)'
    BY <1>2, <1>4, <1>6 DEF Unclaimed
  <1> QED BY <1>2, <1>4, <1>5, <1>6, <1>7, <1>8, <1>9, OrderlyTouch

LEMMA OrderlyWriteCopy ==
    ASSUME OrderlyInv, Book', Orderly', SavedMeansDurable', NEW t \in Threads, writeTorrentCopy(t)
    PROVE  OrderlyInv'
  <1>1. Busy(t) /\ At(t, "copy")
    BY DEF writeTorrentCopy, WriteCopy, Busy, At
  <1> SUFFICES ASSUME NEW h \in Handles, NEW i \in InfoHashes, th[t].h = h, h[1] = i PROVE OrderlyInv'
    BY <1>1, OrderlyWork
  <1>2. /\ th[t] \in ThreadRecs /\ \A s \in Threads \ {t} : ~Busy(s)
        /\ Halfway(t) /\ Stored(i) /\ Unclaimed(i) /\ th \in [Threads -> ThreadRecs]
        /\ h[2] <= gen[i] /\ gen[i] \in Int /\ h[2] \in Int
    <2>1. gen[i] \in Int /\ h[2] \in Int
      BY SessionAssumption DEF OrderlyInv, Book, TypeOK, Handles
    <2> QED BY <1>1, <2>1, OrderlyWork
  <1>3. handle[i] = h /\ h \notin removed /\ rows[i] = None /\ signedBy[h] = th[t].by /\ ~th[t].file
    BY <1>1, <1>2 DEF Halfway, At
  <1>4. UNCHANGED <<handle, gen, removed, signedBy, rows, upg>>
    BY DEF writeTorrentCopy, WriteCopy, mem
  <1>5. /\ th'[t].pc = "persistAdd" /\ th'[t].h = th[t].h /\ th'[t].by = th[t].by
        /\ copy' = [copy EXCEPT ![i] = BytesOf(th[t].by)] \/ th'[t].file = th[t].file
        /\ \A s \in Threads \ {t} : th'[s] = th[s]
    BY <1>2 DEF writeTorrentCopy, WriteCopy, Goto, ThreadRecs
  <1>6. copy' = [copy EXCEPT ![i] = BytesOf(th[t].by)]
    BY <1>3, <1>5 DEF Orderly, CopiesWritten
  <1>7. copy'[i] = BytesOf(th[t].by) /\ copy'[i] # None /\ \A j \in InfoHashes \ {i} : copy'[j] = copy[j]
    BY <1>2, <1>6, BytesAssumption DEF OrderlyInv, Book, TypeOK, BytesOf, Bytes, ThreadRecs
  <1>8. Halfway(t)' /\ Busy(t)'
    BY <1>3, <1>4, <1>5, <1>7 DEF Halfway, At, Busy, BytesOf
  <1>9. Stored(i)'
    BY <1>2, <1>3, <1>4, <1>7 DEF Stored
  <1>10. Unclaimed(i)'
    BY <1>2, <1>4 DEF Unclaimed
  <1> QED BY <1>2, <1>4, <1>5, <1>7, <1>8, <1>9, <1>10, OrderlyTouch

LEMMA OrderlyRefreshCopy ==
    ASSUME OrderlyInv, Book', Orderly', SavedMeansDurable', NEW t \in Threads, RefreshCopy(t)
    PROVE  OrderlyInv'
  <1>1. Busy(t) /\ At(t, "recopy")
    BY DEF RefreshCopy, WriteCopy, Busy, At
  <1> SUFFICES ASSUME NEW h \in Handles, NEW i \in InfoHashes, th[t].h = h, h[1] = i PROVE OrderlyInv'
    BY <1>1, OrderlyWork
  <1>2. /\ th[t] \in ThreadRecs /\ \A s \in Threads \ {t} : ~Busy(s)
        /\ Halfway(t) /\ Stored(i) /\ Unclaimed(i) /\ th \in [Threads -> ThreadRecs]
        /\ h[2] <= gen[i] /\ gen[i] \in Int /\ h[2] \in Int
    <2>1. gen[i] \in Int /\ h[2] \in Int
      BY SessionAssumption DEF OrderlyInv, Book, TypeOK, Handles
    <2> QED BY <1>1, <2>1, OrderlyWork
  <1>3. handle[i] = h /\ h \notin removed /\ rows[i] # None /\ signedBy[h] = th[t].by
        /\ th[t].by # None /\ rows[i].signedBy = None /\ ~th[t].file
    BY <1>1, <1>2 DEF Halfway, At
  <1>4. UNCHANGED <<handle, gen, removed, signedBy, rows, upg>>
    BY DEF RefreshCopy, WriteCopy, mem
  <1>5. /\ th'[t].pc = "resign" /\ th'[t].h = th[t].h /\ th'[t].by = th[t].by
        /\ copy' = [copy EXCEPT ![i] = BytesOf(th[t].by)] \/ th'[t].file = th[t].file
        /\ \A s \in Threads \ {t} : th'[s] = th[s]
    BY <1>2 DEF RefreshCopy, WriteCopy, Goto, ThreadRecs
  <1>6. copy' = [copy EXCEPT ![i] = BytesOf(th[t].by)]
    BY <1>3, <1>5 DEF Orderly, CopiesWritten
  <1>7. copy'[i] = BytesOf(th[t].by) /\ copy'[i] # None /\ \A j \in InfoHashes \ {i} : copy'[j] = copy[j]
    BY <1>2, <1>6, BytesAssumption DEF OrderlyInv, Book, TypeOK, BytesOf, Bytes, ThreadRecs
  <1>8. Halfway(t)' /\ Busy(t)'
    BY <1>3, <1>4, <1>5, <1>7 DEF Halfway, At, Busy, BytesOf
  <1>9. Stored(i)'
    BY <1>2, <1>3, <1>4, <1>7 DEF Stored
  <1>10. Unclaimed(i)'
    BY <1>2, <1>4 DEF Unclaimed
  <1> QED BY <1>2, <1>4, <1>5, <1>7, <1>8, <1>9, <1>10, OrderlyTouch

LEMMA OrderlyClaim ==
    ASSUME OrderlyInv, Book', Orderly', SavedMeansDurable', NEW t \in Threads, setSignedByIfEmpty(t)
    PROVE  OrderlyInv'
  <1>1. Busy(t) /\ At(t, "cas")
    BY DEF setSignedByIfEmpty, Busy, At
  <1> SUFFICES ASSUME NEW h \in Handles, NEW i \in InfoHashes, th[t].h = h, h[1] = i PROVE OrderlyInv'
    BY <1>1, OrderlyWork
  <1>2. /\ th[t] \in ThreadRecs /\ \A s \in Threads \ {t} : ~Busy(s)
        /\ Halfway(t) /\ Stored(i) /\ Unclaimed(i) /\ th \in [Threads -> ThreadRecs]
        /\ h[2] <= gen[i] /\ gen[i] \in Int /\ h[2] \in Int
    <2>1. gen[i] \in Int /\ h[2] \in Int
      BY SessionAssumption DEF OrderlyInv, Book, TypeOK, Handles
    <2> QED BY <1>1, <2>1, OrderlyWork
  <1>3. handle[i] = h /\ Agrees(i) /\ th[t].by # None /\ ~th[t].file
    BY <1>1, <1>2 DEF Halfway, At
  <1>4. UNCHANGED <<handle, gen, removed, rows, copy, upg>>
    BY DEF setSignedByIfEmpty, store
  <1>5. Stored(i)'
    BY <1>2, <1>4 DEF Stored
  <1>6. CASE signedBy[h] # None
    <2>1. Done(t) /\ signedBy' = signedBy
      BY <1>6 DEF setSignedByIfEmpty
    <2>2. ~Busy(t)' /\ \A s \in Threads \ {t} : th'[s] = th[s]
      BY <1>2, <2>1, DoneFacts
    <2>3. Agrees(i)' /\ Unclaimed(i)'
      BY <1>2, <1>3, <1>4, <2>1 DEF Agrees, Unclaimed
    <2> QED BY <1>2, <1>4, <1>5, <2>1, <2>2, <2>3, OrderlyTouch
  <1>7. CASE signedBy[h] = None
    <2>1. Goto(t, "recopy") /\ signedBy' = [signedBy EXCEPT ![h] = th[t].by]
      BY <1>7 DEF setSignedByIfEmpty
    <2>2. /\ th'[t].pc = "recopy" /\ th'[t].h = th[t].h /\ th'[t].by = th[t].by /\ th'[t].file = th[t].file
          /\ \A s \in Threads \ {t} : th'[s] = th[s]
      BY <1>2, <2>1, GotoFacts DEF ThreadLabels
    <2>3. signedBy'[h] = th[t].by /\ \A k \in Handles : k # h => signedBy'[k] = signedBy[k]
      BY <2>1 DEF OrderlyInv, Book, TypeOK
    <2>4. h \notin removed /\ rows[i] # None /\ rows[i].signedBy = None
      BY <1>3, <1>7, HandlesAssumption DEF Agrees
    <2>5. Halfway(t)' /\ Busy(t)'
      BY <1>3, <1>4, <2>2, <2>3, <2>4 DEF Halfway, At, Busy
    <2>6. Unclaimed(i)'
      BY <1>2, <1>4, <2>3 DEF Unclaimed
    <2> QED BY <1>2, <1>4, <1>5, <2>2, <2>3, <2>5, <2>6, OrderlyTouch
  <1> QED BY <1>6, <1>7

LEMMA OrderlyRefreshRow ==
    ASSUME OrderlyInv, Book', Orderly', SavedMeansDurable', NEW t \in Threads, RefreshRow(t)
    PROVE  OrderlyInv'
  <1>1. Busy(t) /\ At(t, "resign")
    BY DEF RefreshRow, Busy, At
  <1> SUFFICES ASSUME NEW h \in Handles, NEW i \in InfoHashes, th[t].h = h, h[1] = i PROVE OrderlyInv'
    BY <1>1, OrderlyWork
  <1>2. /\ th[t] \in ThreadRecs /\ \A s \in Threads \ {t} : ~Busy(s)
        /\ Halfway(t) /\ Stored(i) /\ Unclaimed(i) /\ th \in [Threads -> ThreadRecs]
        /\ h[2] <= gen[i] /\ gen[i] \in Int /\ h[2] \in Int
    <2>1. gen[i] \in Int /\ h[2] \in Int
      BY SessionAssumption DEF OrderlyInv, Book, TypeOK, Handles
    <2> QED BY <1>1, <2>1, OrderlyWork
  <1>3. handle[i] = h /\ h \notin removed /\ rows[i] # None /\ signedBy[h] = th[t].by
        /\ th[t].by # None /\ copy[i] = th[t].by
    BY <1>1, <1>2 DEF Halfway, At
  <1> DEFINE row == [rowOf(i) EXCEPT !.signedBy = th[t].by, !.file = @ \/ th[t].file]
  <1>4. put(i, row) /\ Done(t) /\ UNCHANGED <<mem, copy, upg>>
    BY <1>3 DEF RefreshRow, updateExisting
  <1>5. rows[i] \in Rows /\ rowOf(i) = rows[i]
    BY <1>3 DEF OrderlyInv, Book, TypeOK, rowOf
  <1>6. row \in Rows /\ row.via = "file" /\ row.file /\ row.signedBy = th[t].by
    <2>1. row \in Rows /\ row.via = rows[i].via /\ row.file = (rows[i].file \/ th[t].file)
          /\ row.signedBy = th[t].by
      BY <1>2, <1>5 DEF Rows, ThreadRecs
    <2> QED BY <1>2, <1>3, <2>1 DEF Stored
  <1> HIDE DEF row
  <1>7. rows' = [rows EXCEPT ![i] = row]
    BY <1>4 DEF put
  <1>8. rows'[i].via = "file" /\ rows'[i].file /\ rows'[i].signedBy = th[t].by /\ rows'[i] # None
        /\ \A j \in InfoHashes \ {i} : rows'[j] = rows[j]
    BY <1>6, <1>7, RowAssumption DEF OrderlyInv, Book, TypeOK
  <1>9. ~Busy(t)' /\ \A s \in Threads \ {t} : th'[s] = th[s]
    BY <1>2, <1>4, DoneFacts
  <1>10. UNCHANGED <<handle, gen, removed, signedBy, copy, upg>>
    BY <1>4 DEF mem
  <1>11. Stored(i)'
    BY <1>3, <1>8, <1>10 DEF Stored
  <1>12. Agrees(i)'
    BY <1>3, <1>8, <1>10, HandlesAssumption DEF Agrees
  <1>13. Unclaimed(i)'
    BY <1>2, <1>10 DEF Unclaimed
  <1> QED BY <1>2, <1>8, <1>9, <1>10, <1>11, <1>12, <1>13, OrderlyTouch

LEMMA OrderlyPersistState ==
    ASSUME OrderlyInv, Book', Orderly', SavedMeansDurable', NEW t \in Threads, persistState(t)
    PROVE  OrderlyInv'
  <1>1. Busy(t) /\ At(t, "persistState")
    BY DEF persistState, Busy, At
  <1> SUFFICES ASSUME NEW h \in Handles, NEW i \in InfoHashes, th[t].h = h, h[1] = i PROVE OrderlyInv'
    BY <1>1, OrderlyWork
  <1>2. /\ th[t] \in ThreadRecs /\ \A s \in Threads \ {t} : ~Busy(s)
        /\ Halfway(t) /\ Stored(i) /\ Unclaimed(i) /\ th \in [Threads -> ThreadRecs]
        /\ h[2] <= gen[i] /\ gen[i] \in Int /\ h[2] \in Int
    <2>1. gen[i] \in Int /\ h[2] \in Int
      BY SessionAssumption DEF OrderlyInv, Book, TypeOK, Handles
    <2> QED BY <1>1, <2>1, OrderlyWork
  <1>3. handle[i] = h /\ Agrees(i) /\ rows[i] # None
    BY <1>1, <1>2, HandlesAssumption DEF Halfway, At, Agrees
  <1> DEFINE row == [rowOf(i) EXCEPT !.paused = h \in paused]
  <1>4. put(i, row) /\ Done(t) /\ UNCHANGED <<mem, copy, upg>>
    BY <1>3 DEF persistState, updateExisting
  <1>5. rows[i] \in Rows /\ rowOf(i) = rows[i]
    BY <1>3 DEF OrderlyInv, Book, TypeOK, rowOf
  <1>6. row \in Rows /\ row.via = rows[i].via /\ row.file = rows[i].file /\ row.signedBy = rows[i].signedBy
    <2>1. (h \in paused) \in BOOLEAN
      OBVIOUS
    <2> QED BY <1>5, <2>1, Zenon DEF Rows
  <1> HIDE DEF row
  <1>7. rows' = [rows EXCEPT ![i] = row]
    BY <1>4 DEF put
  <1>8. rows'[i] = row /\ rows'[i] # None /\ \A j \in InfoHashes \ {i} : rows'[j] = rows[j]
    BY <1>6, <1>7, RowAssumption DEF OrderlyInv, Book, TypeOK
  <1>9. ~Busy(t)' /\ \A s \in Threads \ {t} : th'[s] = th[s]
    BY <1>2, <1>4, DoneFacts
  <1>10. UNCHANGED <<handle, gen, removed, signedBy, copy, upg>>
    BY <1>4 DEF mem
  <1>11. Stored(i)'
    BY <1>2, <1>3, <1>6, <1>8, <1>10 DEF Stored
  <1>12. Agrees(i)'
    BY <1>3, <1>6, <1>8, <1>10 DEF Agrees
  <1>13. Unclaimed(i)'
    BY <1>2, <1>10 DEF Unclaimed
  <1> QED BY <1>2, <1>8, <1>9, <1>10, <1>11, <1>12, <1>13, OrderlyTouch

LEMMA OrderlyRemoveHandle ==
    ASSUME OrderlyInv, Book', Orderly', SavedMeansDurable', NEW t \in Threads, RemoveHandle(t)
    PROVE  OrderlyInv'
  <1>1. Busy(t) /\ At(t, "drop")
    BY DEF RemoveHandle, Busy, At
  <1> SUFFICES ASSUME NEW h \in Handles, NEW i \in InfoHashes, th[t].h = h, h[1] = i PROVE OrderlyInv'
    BY <1>1, OrderlyWork
  <1>2. /\ th[t] \in ThreadRecs /\ \A s \in Threads \ {t} : ~Busy(s)
        /\ Halfway(t) /\ Stored(i) /\ Unclaimed(i) /\ th \in [Threads -> ThreadRecs]
        /\ h[2] <= gen[i] /\ gen[i] \in Int /\ h[2] \in Int
    <2>1. gen[i] \in Int /\ h[2] \in Int
      BY SessionAssumption DEF OrderlyInv, Book, TypeOK, Handles
    <2> QED BY <1>1, <2>1, OrderlyWork
  <1>3. UNCHANGED <<gen, removed, signedBy, rows, copy, upg>> /\ handle' = [handle EXCEPT ![i] = None]
    BY DEF RemoveHandle, store
  <1>4. handle'[i] = None /\ \A j \in InfoHashes \ {i} : handle'[j] = handle[j]
    BY <1>3 DEF OrderlyInv, Book, TypeOK
  <1>5. /\ th'[t].pc = "sessRemove" /\ th'[t].h = th[t].h
        /\ \A s \in Threads \ {t} : th'[s] = th[s]
    BY <1>2, GotoFacts DEF RemoveHandle, ThreadLabels
  <1>6. Halfway(t)' /\ Busy(t)'
    BY <1>4, <1>5 DEF Halfway, At, Busy
  <1>7. Stored(i)' /\ Unclaimed(i)'
    BY <1>2, <1>3 DEF Stored, Unclaimed
  <1> QED BY <1>2, <1>3, <1>4, <1>5, <1>6, <1>7, OrderlyTouch

LEMMA OrderlySessionRemove ==
    ASSUME OrderlyInv, Book', Orderly', SavedMeansDurable', NEW t \in Threads, sessionRemove(t)
    PROVE  OrderlyInv'
  <1>1. Busy(t) /\ At(t, "sessRemove")
    BY DEF sessionRemove, Busy, At
  <1> SUFFICES ASSUME NEW h \in Handles, NEW i \in InfoHashes, th[t].h = h, h[1] = i PROVE OrderlyInv'
    BY <1>1, OrderlyWork
  <1>2. /\ th[t] \in ThreadRecs /\ \A s \in Threads \ {t} : ~Busy(s)
        /\ Halfway(t) /\ Stored(i) /\ Unclaimed(i) /\ th \in [Threads -> ThreadRecs]
        /\ h[2] <= gen[i] /\ gen[i] \in Int /\ h[2] \in Int
    <2>1. gen[i] \in Int /\ h[2] \in Int
      BY SessionAssumption DEF OrderlyInv, Book, TypeOK, Handles
    <2> QED BY <1>1, <2>1, OrderlyWork
  <1>3. handle[i] = None
    BY <1>1, <1>2 DEF Halfway, At
  <1>4. /\ rows' = [rows EXCEPT ![i] = None] /\ (Goto(t, "rmCopy") \/ Done(t))
        /\ UNCHANGED <<handle, gen, removed, signedBy, copy, upg>>
    BY DEF sessionRemove, put, mem
  <1>5. rows'[i] = None /\ \A j \in InfoHashes \ {i} : rows'[j] = rows[j]
    BY <1>4 DEF OrderlyInv, Book, TypeOK
  <1>6. /\ Busy(t)' => th'[t].pc = "rmCopy" /\ th'[t].h = th[t].h
        /\ \A s \in Threads \ {t} : th'[s] = th[s]
    BY <1>2, <1>4, GotoFacts, DoneFacts DEF ThreadLabels
  <1>7. Busy(t)' => Halfway(t)'
    BY <1>3, <1>4, <1>5, <1>6 DEF Halfway, At
  <1>8. Stored(i)' /\ Unclaimed(i)' /\ Agrees(i)'
    BY <1>2, <1>3, <1>4, <1>5 DEF Stored, Unclaimed, Agrees
  <1> QED BY <1>2, <1>4, <1>5, <1>6, <1>7, <1>8, OrderlyTouch

LEMMA OrderlyRemoveCopy ==
    ASSUME OrderlyInv, Book', Orderly', SavedMeansDurable', NEW t \in Threads, RemoveCopy(t)
    PROVE  OrderlyInv'
  <1>1. Busy(t) /\ At(t, "rmCopy")
    BY DEF RemoveCopy, Busy, At
  <1> SUFFICES ASSUME NEW h \in Handles, NEW i \in InfoHashes, th[t].h = h, h[1] = i PROVE OrderlyInv'
    BY <1>1, OrderlyWork
  <1>2. /\ th[t] \in ThreadRecs /\ \A s \in Threads \ {t} : ~Busy(s)
        /\ Halfway(t) /\ Stored(i) /\ Unclaimed(i) /\ th \in [Threads -> ThreadRecs]
        /\ h[2] <= gen[i] /\ gen[i] \in Int /\ h[2] \in Int
    <2>1. gen[i] \in Int /\ h[2] \in Int
      BY SessionAssumption DEF OrderlyInv, Book, TypeOK, Handles
    <2> QED BY <1>1, <2>1, OrderlyWork
  <1>3. handle[i] = None /\ rows[i] = None
    BY <1>1, <1>2 DEF Halfway, At
  <1>4. /\ copy' = [copy EXCEPT ![i] = None] /\ Done(t)
        /\ UNCHANGED <<handle, gen, removed, signedBy, rows, upg>>
    BY DEF RemoveCopy, mem
  <1>5. \A j \in InfoHashes \ {i} : copy'[j] = copy[j]
    BY <1>4 DEF OrderlyInv, Book, TypeOK
  <1>6. ~Busy(t)' /\ \A s \in Threads \ {t} : th'[s] = th[s]
    BY <1>2, <1>4, DoneFacts
  <1>7. Stored(i)' /\ Unclaimed(i)' /\ Agrees(i)'
    BY <1>2, <1>3, <1>4 DEF Stored, Unclaimed, Agrees
  <1> QED BY <1>2, <1>4, <1>5, <1>6, <1>7, OrderlyTouch


\* A handler that starts finds nobody at work, and handle and row agreeing.
LEMMA OrderlyStart ==
    ASSUME OrderlyInv, Orderly', NEW t \in Threads, NEW i \in InfoHashes, At(t, "idle"), Busy(t)',
           \A s \in Threads \ {t} : th'[s] = th[s]
    PROVE  /\ \A s \in Threads \ {t} : ~Busy(s)
           /\ Stored(i) /\ Unclaimed(i) /\ Agrees(i)
           /\ handle[i] # None => handle[i] \in Handles /\ handle[i][1] = i
  <1>1. \A s \in Threads \ {t} : ~Busy(s)
    BY DEF Orderly, OneByOne, Busy, At
  <1>2. ~WorkedOn(i)
    BY <1>1 DEF WorkedOn, Busy
  <1>3. handle[i] # None => handle[i] \in Handles /\ handle[i][1] = i
    BY DEF OrderlyInv, Book, HandlesBorn, Born
  <1> QED BY <1>1, <1>2, <1>3 DEF OrderlyInv, InOrder

LEMMA OrderlyAdd ==
    ASSUME OrderlyInv, Book', Orderly', SavedMeansDurable', NEW t \in Threads, NEW i \in InfoHashes,
           NEW kind \in {"file", "magnet"}, NEW by \in Signers \cup {None}, Add(t, i, kind, by)
    PROVE  OrderlyInv'
  <1>1. th \in [Threads -> ThreadRecs] /\ gen[i] \in 0..MaxGen
        /\ handle \in [InfoHashes -> Handles \cup {None}]
    BY DEF OrderlyInv, Book, TypeOK
  <1>2. UNCHANGED <<rows, copy, removed, signedBy, upg>> /\ At(t, "idle") /\ ~Busy(t)
    BY DEF Add, store, mem, Busy
  <1>3. /\ th'[t].kind = kind /\ th'[t].by = by /\ th'[t].file = FALSE /\ Busy(t)'
        /\ \A s \in Threads \ {t} : th'[s] = th[s]
    BY <1>1 DEF Add, Busy, At
  <1>4. kind = "file"
    BY <1>3 DEF Orderly, NoMagnets
  <1>5. /\ \A s \in Threads \ {t} : ~Busy(s)
        /\ Stored(i) /\ Unclaimed(i) /\ Agrees(i)
        /\ handle[i] # None => handle[i] \in Handles /\ handle[i][1] = i
    BY <1>2, <1>3, OrderlyStart
  <1>6. Stored(i)'
    BY <1>2, <1>5 DEF Stored
  <1>7. CASE handle[i] # None
    <2>1. /\ th'[t].pc = "cas" /\ th'[t].h = handle[i] /\ by # None
          /\ UNCHANGED <<handle, gen>>
      BY <1>1, <1>7 DEF Add, mem
    <2>2. Agrees(i)' /\ Unclaimed(i)'
      BY <1>2, <1>5, <2>1 DEF Agrees, Unclaimed
    <2>3. th'[t].h[1] = i /\ handle'[i] = th'[t].h
      BY <1>5, <1>7, <2>1
    <2>4. Halfway(t)'
      BY <1>3, <2>1, <2>2, <2>3 DEF Halfway, At
    <2> QED BY <1>2, <1>3, <1>5, <1>6, <2>1, <2>2, <2>3, <2>4, OrderlyTouch
  <1>8. CASE handle[i] = None
    <2>1. /\ gen[i] < MaxGen /\ gen' = [gen EXCEPT ![i] = @ + 1]
          /\ handle' = [handle EXCEPT ![i] = <<i, gen[i] + 1>>]
          /\ th'[t].pc = (IF by # None THEN "setSigned" ELSE "copy")
          /\ th'[t].h = <<i, gen[i] + 1>>
      BY <1>1, <1>4, <1>8 DEF Add
    <2> DEFINE h == <<i, gen[i] + 1>>
    <2>2. h \in Handles /\ h[1] = i /\ h[2] = gen[i] + 1
      BY <1>1, <2>1, SessionAssumption DEF Handles
    <2>3. h \notin removed /\ signedBy[h] = None
      <3>1. h \notin removed
        BY <1>1, <2>2 DEF OrderlyInv, Book, RemovedBorn
      <3> QED BY <1>1, <1>5, <2>2, <3>1 DEF Unclaimed
    <2>4. rows[i] = None
      BY <1>5, <1>8 DEF Agrees
    <2>5. /\ handle'[i] = h /\ gen'[i] = gen[i] + 1
          /\ \A j \in InfoHashes \ {i} : handle'[j] = handle[j] /\ gen'[j] = gen[j]
      BY <1>1, <2>1 DEF OrderlyInv, Book, TypeOK
    <2>6. Unclaimed(i)'
      <3> SUFFICES ASSUME NEW k \in Handles, k[1] = i, k[2] > gen'[i] PROVE signedBy'[k] = None
        BY DEF Unclaimed
      <3>1. k[2] > gen[i]
        BY <1>1, <2>5 DEF Handles
      <3> QED BY <1>2, <1>5, <3>1 DEF Unclaimed
    <2>7. th'[t].h = h /\ th'[t].h[1] = i
      BY <2>1, <2>2
    <2> HIDE DEF h
    <2>8. handle'[th'[t].h[1]] = th'[t].h /\ th'[t].h \notin removed' /\ rows'[th'[t].h[1]] = None
          /\ signedBy'[th'[t].h] = None
      BY <1>2, <2>3, <2>4, <2>5, <2>7
    <2>9. Halfway(t)'
      BY <1>3, <2>1, <2>8 DEF Halfway, At
    <2> QED BY <1>2, <1>3, <1>5, <1>6, <2>5, <2>6, <2>7, <2>9, OrderlyTouch
  <1> QED BY <1>7, <1>8

LEMMA OrderlyRequest ==
    ASSUME OrderlyInv, Book', Orderly', SavedMeansDurable', NEW t \in Threads, NEW i \in InfoHashes,
           NEW v \in BOOLEAN, RemoveTorrent(t, i) \/ SetPaused(t, i, v)
    PROVE  OrderlyInv'
  <1>1. th \in [Threads -> ThreadRecs]
    BY DEF OrderlyInv, Book, TypeOK
  <1>2. UNCHANGED <<handle, gen, rows, copy, signedBy, upg>> /\ At(t, "idle") /\ ~Busy(t) /\ handle[i] # None
    BY DEF RemoveTorrent, SetPaused, store, Busy
  <1>3. /\ th'[t].h = handle[i] /\ th'[t].by = None /\ Busy(t)'
        /\ th'[t].pc = (IF RemoveTorrent(t, i) THEN "drop" ELSE "persistState")
        /\ \A s \in Threads \ {t} : th'[s] = th[s]
    BY <1>1 DEF RemoveTorrent, SetPaused, Local, Busy, At
  <1>4. /\ \A s \in Threads \ {t} : ~Busy(s)
        /\ Stored(i) /\ Unclaimed(i) /\ Agrees(i)
        /\ handle[i] \in Handles /\ handle[i][1] = i
    BY <1>2, <1>3, OrderlyStart
  <1>5. Stored(i)' /\ Unclaimed(i)'
    BY <1>2, <1>4 DEF Stored, Unclaimed
  <1>6. th'[t].h[1] = i /\ handle'[th'[t].h[1]] = th'[t].h
    BY <1>2, <1>3, <1>4
  <1>7. \A h \in Handles : h[1] # i => (h \in removed' <=> h \in removed)
    BY <1>4 DEF RemoveTorrent, SetPaused
  <1>8. Halfway(t)'
    <2>1. CASE RemoveTorrent(t, i)
      BY <1>3, <2>1 DEF Halfway, At
    <2>2. CASE ~RemoveTorrent(t, i)
      <3>1. removed' = removed
        BY <2>2 DEF SetPaused
      <3>2. Agrees(i)'
        BY <1>2, <1>4, <3>1 DEF Agrees
      <3> QED BY <1>3, <1>6, <2>2, <3>2 DEF Halfway, At
    <2> QED BY <2>1, <2>2
  <1> QED BY <1>2, <1>3, <1>4, <1>5, <1>6, <1>7, <1>8, OrderlyTouch

\* The restart finds a whole row for every torrent, whichever step of which
\* handler the crash came after.
LEMMA OrderlyCrash ==
    ASSUME OrderlyInv, Book', Orderly', CrashAndRestore
    PROVE  OrderlyInv'
  <1>1. disk = rows /\ \A i \in InfoHashes : Stored(i)
    BY DEF OrderlyInv, InOrder
  <1>2. \A i \in InfoHashes : Restorable(i) <=> rows[i] # None
    BY <1>1 DEF Stored, Restorable
  <1>3. rows' = rows /\ disk' = rows' /\ copy' = copy /\ removed' = {}
    BY <1>1 DEF CrashAndRestore
  <1>4. \A t \in Threads : ~Busy(t)'
    BY DEF CrashAndRestore, Busy, At, Idle
  <1>5. \A h \in Handles : upg'[h] = "none"
    <2> SUFFICES ASSUME NEW h \in Handles PROVE upg'[h] = "none"
      OBVIOUS
    <2>1. h[1] \in InfoHashes
      BY DEF Handles
    <2>2. Restorable(h[1]) => disk[h[1]].via = "file"
      BY <1>1, <1>2, <2>1 DEF Stored
    <2> QED BY <2>2 DEF CrashAndRestore
  <1>6. ASSUME NEW i \in InfoHashes PROVE InOrder(i)'
    <2>1. First(i) \in Handles /\ First(i)[1] = i /\ First(i)[2] = 1
      BY SessionAssumption DEF First, Handles
    <2>2. handle'[i] = (IF rows[i] # None THEN First(i) ELSE None)
          /\ gen'[i] = (IF rows[i] # None THEN 1 ELSE 0)
      BY <1>2 DEF CrashAndRestore
    <2>3. rows[i] # None => signedBy'[First(i)] = rows[i].signedBy
      BY <1>1, <1>2, <2>1 DEF CrashAndRestore
    <2>4. Agrees(i)'
      BY <1>3, <2>1, <2>2, <2>3, HandlesAssumption DEF Agrees
    <2>5. Unclaimed(i)'
      <3> SUFFICES ASSUME NEW h \in Handles, h[1] = i, h[2] > gen'[i] PROVE signedBy'[h] = None
        BY DEF Unclaimed
      <3>1. ~(h[2] = 1 /\ Restorable(h[1]))
        BY <1>2, <2>2
      <3> QED BY <3>1 DEF CrashAndRestore
    <2>6. Stored(i)'
      BY <1>1, <1>3 DEF Stored
    <2> QED BY <2>4, <2>5, <2>6 DEF InOrder
  <1> QED BY <1>3, <1>4, <1>5, <1>6 DEF OrderlyInv

LEMMA OrderlyStep ==
    ASSUME OrderlyInv, [Next]_vars, Orderly', SavedMeansDurable'
    PROVE  OrderlyInv'
  <1>1. Book'
    BY BookNext DEF OrderlyInv
  <1>2. CASE UNCHANGED vars
    BY <1>2 DEF vars, mem, store, OrderlyInv, Book, TypeOK, ThreadsBorn, HandlesBorn, RemovedBorn, Born,
           Orderly, OneByOne, NoMagnets, CopiesWritten, Busy, At, InOrder, Stored, Unclaimed, Agrees,
           WorkedOn, Halfway
  <1>3. ASSUME NEW t \in Threads, Handler(t) PROVE OrderlyInv'
    <2>1. ~SpawnUpgrade(t)
      <3> SUFFICES ASSUME At(t, "spawn") PROVE FALSE
        BY DEF SpawnUpgrade
      <3>1. Busy(t)
        BY DEF Busy, At
      <3> QED BY <3>1 DEF OrderlyInv, Halfway
    <2> QED BY <1>1, <1>3, <2>1, OrderlySetSigned, OrderlyWriteCopy, OrderlyPersistAdd, OrderlyClaim,
               OrderlyRefreshCopy, OrderlyRefreshRow, OrderlyRemoveHandle, OrderlySessionRemove,
               OrderlyRemoveCopy, OrderlyPersistState DEF Handler
  <1>4. ASSUME NEW t \in Threads, NEW i \in InfoHashes, Request(t, i) PROVE OrderlyInv'
    BY <1>1, <1>4, OrderlyAdd, OrderlyRequest DEF Request
  <1>5. ASSUME NEW h \in Handles, Upgrade(h) PROVE FALSE
    BY <1>5 DEF OrderlyInv, Upgrade, GotInfo, UpgradeWait, UpgradeCheck, UpgradeWrite, UpgradeUpdate,
           UpgradeOrphan
  <1>6. CASE CrashAndRestore
    BY <1>1, <1>6, OrderlyCrash
  <1> QED BY <1>2, <1>3, <1>4, <1>5, <1>6 DEF Next

LEMMA OrderlyWhole ==
    ASSUME OrderlyInv
    PROVE  RowHasCopy /\ ManagedHasRow /\ StoredBytesBackSignature /\ SignerAgrees
  <1>1. \A i \in InfoHashes : Stored(i)
    BY DEF OrderlyInv, InOrder
  <1>2. ASSUME NEW i \in InfoHashes, Quiet(i) PROVE Agrees(i)
    <2>1. ASSUME NEW t \in Threads, Busy(t) PROVE th[t].h[1] # i
      <3>1. th[t].h # None
        BY <2>1, HandlesAssumption DEF OrderlyInv, Book, ThreadsBorn, Busy, At
      <3> QED BY <1>2, <3>1 DEF Quiet
    <2>2. ~WorkedOn(i)
      BY <2>1 DEF WorkedOn
    <2> QED BY <2>2 DEF OrderlyInv, InOrder
  <1>3. RowHasCopy
    BY <1>1 DEF RowHasCopy, Stored, OrderlyInv
  <1>4. ManagedHasRow /\ SignerAgrees
    BY <1>2 DEF ManagedHasRow, SignerAgrees, Agrees
  <1>5. StoredBytesBackSignature
    BY <1>1 DEF StoredBytesBackSignature, Stored
  <1> QED BY <1>3, <1>4, <1>5

\* OrderlySessionWhole for any infohashes, signers, handlers and handles: as
\* long as handlers do not overlap, the disk does not fail and no torrent is
\* added as a magnet (NoMagnets), a crash after any step of an add, a signature upgrade, a pause or a removal leaves a
\* session that restoreEntry takes back whole, since copies are written
\* before the rows that name them and deleted after them, and
\* upgradeSignedBy rewrites the copy before the row claims the signer.
THEOREM OrderlyWholeAlways == PlaySpec => []OrderlySessionWhole
  <1> DEFINE Inv == play = "orderly" => OrderlyInv
  <1>1. PlayInit => Inv
    <2> SUFFICES ASSUME Init PROVE OrderlyInv
      BY DEF PlayInit
    <2>1. Book
      BY BookInit
    <2>2. \A t \in Threads : th[t] = Idle
      BY DEF Init
    <2>3. Orderly
      BY <2>2, SessionAssumption DEF Init, Orderly, OneByOne, NoMagnets, CopiesWritten, Busy, At, Idle
    <2>4. \A i \in InfoHashes : InOrder(i)
      BY DEF Init, InOrder, Stored, Unclaimed, Agrees
    <2> QED BY <2>1, <2>2, <2>3, <2>4 DEF OrderlyInv, Init, Busy, At, Idle
  <1>2. Inv /\ [PlayNext]_<<vars, play>> /\ SavedMeansDurable' => Inv'
    <2> SUFFICES ASSUME Inv, [PlayNext]_<<vars, play>>, SavedMeansDurable', play' = "orderly" PROVE OrderlyInv'
      OBVIOUS
    <2>1. play = "orderly" /\ OrderlyInv
      BY DEF PlayNext
    <2>2. CASE PlayNext
      BY <2>1, <2>2, OrderlyStep DEF PlayNext
    <2>3. CASE UNCHANGED <<vars, play>>
      <3>1. Orderly' /\ [Next]_vars
        BY <2>1, <2>3 DEF OrderlyInv, Orderly, OneByOne, NoMagnets, CopiesWritten, Busy, At, vars, store
      <3> QED BY <2>1, <3>1, OrderlyStep
    <2> QED BY <2>2, <2>3
  <1>3. Inv => OrderlySessionWhole
    BY OrderlyWhole DEF OrderlySessionWhole
  <1>4. PlaySpec => Spec
    <2>1. PlayInit => Init
      BY DEF PlayInit
    <2>2. [PlayNext]_<<vars, play>> => [Next]_vars
      BY DEF PlayNext
    <2> QED BY <2>1, <2>2, PTL DEF PlaySpec, Spec
  <1> QED BY <1>1, <1>2, <1>3, <1>4, SavedRowsDurable, PTL DEF PlaySpec
=============================================================================
