-------------------------- MODULE KeywordPublisher --------------------------
(***************************************************************************)
(* Layer D, the keyword index in the DHT: the publisher worker             *)
(* (internal/dhtindex/publisher.go), its legacy backend                    *)
(* (legacy_keyword.go) and the persistent manifest (manifest.go), with the *)
(* engine goroutines that submit a torrent when its metadata arrives       *)
(* (internal/engine/index.go, layerd.go) and retract it when it is removed *)
(* (engine.go).                                                            *)
(*                                                                         *)
(* m.mu is held for one step at a time: a retraction may fall between any  *)
(* two steps of the worker.  A hit is its infohash, and every hit has the  *)
(* same size.  Time is abstract: a put makes its keyword fresh (throttled) *)
(* until MinPutInterval has passed, on disk as in memory.                  *)
(***************************************************************************)
EXTENDS Naturals, Sequences, FiniteSets

CONSTANTS Hashes,       \* infohashes
          Keywords,
          Name,         \* infohash -> the keywords token.Tokenize finds in its name
          HitCap,       \* hits that fit MaxValueBytes
          QueueSize,
          None,         \* no entry, no item, no torrent, no keyword
          Restored,     \* the torrents, and the manifest,
          Listed,       \* that the node starts with
          Removable,    \* bound: the torrents the user removes
          MaxAdds,      \* bound: torrents added
          MaxFaults     \* bound: failed puts and saves, lapsed items, restarts

\* Hit lists without a repeated infohash that fit a value.
HitLists == {s \in UNION {[1..n -> Hashes] : n \in 0..HitCap} :
                \A i, j \in DOMAIN s : s[i] = s[j] => i = j}

\* What AddHit and RemoveAllHits leave under a keyword: hits, or no entry.
Announced == (HitLists \ {<<>>}) \cup {None}

ASSUME KeywordAssumption ==
    /\ Name \in [Hashes -> SUBSET Keywords]
    /\ Restored \subseteq Hashes /\ Removable \subseteq Hashes
    /\ {HitCap, QueueSize} \subseteq Nat \ {0}
    /\ {MaxAdds, MaxFaults} \subseteq Nat
    /\ None \notin Hashes \cup Keywords

\* The node starts with a manifest that an earlier run saved.
ASSUME ListedAssumption == Listed \in [Keywords -> Announced]

VARIABLES
    managed,    \* torrents in e.handles, and in the session
    waiting,    \* their autoIndex goroutines that wait for metadata
    submitting, \* torrent -> autoIndex goroutines past the wait
    rm,         \* torrent -> where its RemoveTorrent is
    tasks,      \* the buffered task channel
    manifest,   \* keyword -> hits, oldest first, or None
    fresh,      \* keywords put less than MinPutInterval ago (LastPublished)
    saved,      \* the manifest on disk: [hits, fresh]
    dirty,      \* the last save failed
    w,          \* the worker: [pc, job, ih, todo, kw, snap]
    item,       \* the BEP-44 items: keyword -> hits, or None
    adds, faults

engine == <<managed, waiting, submitting, rm>>
store == <<manifest, fresh>>
file == <<saved, dirty>>
keywordVars == <<engine, tasks, store, file, w, item, adds, faults>>

Entries == HitLists \cup {None}

IdleWorker == [pc |-> "idle", job |-> None, ih |-> None, todo |-> {}, kw |-> None, snap |-> <<>>]

KeywordTypeOK ==
    /\ managed \subseteq Hashes /\ waiting \subseteq managed
    /\ submitting \in [Hashes -> 0..(MaxAdds + 1)]
    /\ rm \in [Hashes -> {"no", "scrub", "save", "drop"}]
    /\ tasks \in UNION {[1..n -> Hashes] : n \in 0..QueueSize}
    /\ manifest \in [Keywords -> Entries] /\ fresh \subseteq Keywords
    /\ saved.hits \in [Keywords -> Entries] /\ saved.fresh \subseteq Keywords
    /\ dirty \in BOOLEAN
    /\ w \in [pc : {"idle", "next", "snap", "put", "mark", "stopped"},
              job : {"publish", "refresh", None}, ih : Hashes \cup {None},
              todo : SUBSET Keywords, kw : Keywords \cup {None}, snap : HitLists]
    /\ item \in [Keywords -> Entries]
    /\ adds \in 0..MaxAdds /\ faults \in 0..MaxFaults

\* A node that was used before, or never.
KeywordInit ==
    /\ managed = Restored /\ waiting = Restored
    /\ submitting = [i \in Hashes |-> 0] /\ rm = [i \in Hashes |-> "no"]
    /\ tasks = <<>>
    /\ manifest = Listed /\ fresh = {}
    /\ saved = [hits |-> Listed, fresh |-> {}] /\ dirty = FALSE
    /\ w = IdleWorker
    /\ item = Listed
    /\ adds = 0 /\ faults = 0

Fault == faults < MaxFaults /\ faults' = faults + 1

\* Save: the whole manifest, atomically, or not at all.
Save ==
    \/ saved' = [hits |-> manifest, fresh |-> fresh] /\ dirty' = FALSE /\ UNCHANGED faults
    \/ Fault /\ dirty' = TRUE /\ UNCHANGED saved

(***************************************************************************)
(* The engine.                                                             *)
(***************************************************************************)
AddTorrent(i) ==
    /\ i \notin managed /\ adds < MaxAdds /\ adds' = adds + 1
    /\ managed' = managed \cup {i} /\ waiting' = waiting \cup {i}
    /\ UNCHANGED <<submitting, rm, tasks, store, file, w, item, faults>>

\* autoIndex: metadata arrives before the torrent is removed ...
autoIndex(i) ==
    /\ i \in waiting
    /\ waiting' = waiting \ {i}
    /\ submitting' = [submitting EXCEPT ![i] = @ + 1]
    /\ UNCHANGED <<managed, rm, tasks, store, file, w, item, adds, faults>>

\* ... and publishTorrent submits it; a full queue drops the task.
publishTorrent(i) ==
    /\ submitting[i] > 0
    /\ submitting' = [submitting EXCEPT ![i] = @ - 1]
    /\ tasks' = IF Len(tasks) < QueueSize THEN Append(tasks, i) ELSE tasks
    /\ UNCHANGED <<managed, waiting, rm, store, file, w, item, adds, faults>>

\* markRemoved releases a waiting autoIndex.
RemoveTorrent(i) ==
    /\ i \in managed \cap Removable /\ rm[i] = "no"
    /\ rm' = [rm EXCEPT ![i] = "scrub"] /\ waiting' = waiting \ {i}
    /\ UNCHANGED <<managed, submitting, tasks, store, file, w, item, adds, faults>>

\* A list without the hit of i, which it holds once.
WithoutHit(s, i) ==
    LET at == CHOOSE n \in DOMAIN s : s[n] = i
    IN  [n \in 1..(Len(s) - 1) |-> s[IF n < at THEN n ELSE n + 1]]
Holding(i) == {k \in Keywords : manifest[k] # None /\ i \in {manifest[k][n] : n \in DOMAIN manifest[k]}}
EmptiedBy(i) == {k \in Holding(i) : WithoutHit(manifest[k], i) = <<>>}

\* Mutant of RemoveAllHits: an emptied entry stays.
ScrubOnly(i) ==
    manifest' = [k \in Keywords |-> IF k \in Holding(i) THEN WithoutHit(manifest[k], i) ELSE manifest[k]]
    /\ UNCHANGED fresh

\* RemoveAllHits drops an emptied entry, and its LastPublished with it.
RemoveAllHits(i) ==
    /\ manifest' = [k \in Keywords |-> IF k \in EmptiedBy(i) THEN None
                                       ELSE IF k \in Holding(i) THEN WithoutHit(manifest[k], i)
                                       ELSE manifest[k]]
    /\ fresh' = fresh \ EmptiedBy(i)

\* Mutant of Retract: only the manifest in memory is scrubbed.
RetractUnsaved(i) ==
    /\ rm[i] = "scrub" /\ RemoveAllHits(i)
    /\ rm' = [rm EXCEPT ![i] = "drop"]
    /\ UNCHANGED <<managed, waiting, submitting, tasks, file, w, item, adds, faults>>

\* Retract runs on the caller's goroutine; it saves if anything was there.
Retract(i) ==
    /\ rm[i] = "scrub" /\ RemoveAllHits(i)
    /\ rm' = [rm EXCEPT ![i] = IF Holding(i) # {} THEN "save" ELSE "drop"]
    /\ UNCHANGED <<managed, waiting, submitting, tasks, file, w, item, adds, faults>>

RetractSave(i) ==
    /\ rm[i] = "save" /\ Save
    /\ rm' = [rm EXCEPT ![i] = "drop"]
    /\ UNCHANGED <<managed, waiting, submitting, tasks, store, w, item, adds>>

\* The handle is deleted, and the session row.
RemoveDone(i) ==
    /\ rm[i] = "drop"
    /\ rm' = [rm EXCEPT ![i] = "no"] /\ managed' = managed \ {i}
    /\ UNCHANGED <<waiting, submitting, tasks, store, file, w, item, adds, faults>>

(***************************************************************************)
(* The worker: one task, or one sweep of the manifest, at a time.          *)
(***************************************************************************)
handleTask ==
    /\ w.pc = "idle" /\ tasks # <<>>
    /\ tasks' = Tail(tasks)
    /\ w' = IF Name[Head(tasks)] = {} THEN w
            ELSE [w EXCEPT !.pc = "next", !.job = "publish", !.ih = Head(tasks), !.todo = Name[Head(tasks)]]
    /\ UNCHANGED <<engine, store, file, item, adds, faults>>

\* Mutant of Refresh: only what was never put is announced.
RefreshUnpublished ==
    /\ w.pc = "idle"
    /\ w' = [w EXCEPT !.pc = "next", !.job = "refresh",
                      !.todo = {k \in Keywords : manifest[k] # None /\ item[k] = None}]
    /\ UNCHANGED <<engine, tasks, store, file, item, adds, faults>>

\* The ticker fires: every entry of the moment is announced again.
Refresh ==
    /\ w.pc = "idle"
    /\ w' = [w EXCEPT !.pc = "next", !.job = "refresh", !.todo = {k \in Keywords : manifest[k] # None}]
    /\ UNCHANGED <<engine, tasks, store, file, item, adds, faults>>

\* AddHit replaces the torrent's hit or appends one, and evicts the oldest
\* that does not fit.
HitsWith(s, i) ==
    LET t == IF s = None THEN <<i>>
             ELSE IF \E n \in DOMAIN s : s[n] = i THEN s
             ELSE Append(s, i)
    IN  IF Len(t) > HitCap THEN Tail(t) ELSE t

AddHit(k) ==
    /\ w.pc = "next" /\ w.job = "publish" /\ k \in w.todo
    /\ manifest' = [manifest EXCEPT ![k] = HitsWith(@, w.ih)]
    /\ w' = [w EXCEPT !.pc = "snap", !.todo = @ \ {k}, !.kw = k]
    /\ UNCHANGED <<engine, tasks, fresh, file, item, adds, faults>>

NextKeyword(k) ==
    /\ w.pc = "next" /\ w.job = "refresh" /\ k \in w.todo
    /\ w' = [w EXCEPT !.pc = "snap", !.todo = @ \ {k}, !.kw = k]
    /\ UNCHANGED <<engine, tasks, store, file, item, adds, faults>>

Resume == [w EXCEPT !.pc = "next", !.kw = None, !.snap = <<>>]

Throttled(k) == k \in fresh

\* publishOne reads the entry: gone or throttled, or it is put.
publishOne ==
    /\ w.pc = "snap"
    /\ w' = IF manifest[w.kw] = None \/ Throttled(w.kw) THEN Resume
            ELSE [w EXCEPT !.pc = "put", !.snap = manifest[w.kw]]
    /\ UNCHANGED <<engine, tasks, store, file, item, adds, faults>>

\* A put that fails (checkPutStats, timeout) may have reached a node.
Put ==
    /\ w.pc = "put"
    /\ \/ item' = [item EXCEPT ![w.kw] = w.snap] /\ w' = [w EXCEPT !.pc = "mark"] /\ UNCHANGED faults
       \/ Fault /\ item' \in {item, [item EXCEPT ![w.kw] = w.snap]} /\ w' = Resume
    /\ UNCHANGED <<engine, tasks, store, file, adds>>

\* MarkPublished, on the entry as it is by now.
MarkPublished ==
    /\ w.pc = "mark"
    /\ fresh' = IF manifest[w.kw] # None THEN fresh \cup {w.kw} ELSE fresh
    /\ w' = Resume
    /\ UNCHANGED <<engine, tasks, manifest, file, item, adds, faults>>

JobDone ==
    /\ w.pc = "next" /\ w.todo = {} /\ Save
    /\ w' = IdleWorker
    /\ UNCHANGED <<engine, tasks, store, item, adds>>

\* Stop: a sweep is abandoned, and the backend's Close saves.
Stop ==
    /\ w.pc = "idle" \/ (w.pc = "next" /\ w.job = "refresh")
    /\ Save
    /\ w' = [IdleWorker EXCEPT !.pc = "stopped"]
    /\ UNCHANGED <<engine, tasks, store, item, adds>>

(***************************************************************************)
(* Time, the DHT and the process.                                          *)
(***************************************************************************)
\* MinPutInterval has passed since the keyword was put.
Unthrottle(k) ==
    /\ k \in fresh \cup saved.fresh
    /\ fresh' = fresh \ {k} /\ saved' = [saved EXCEPT !.fresh = @ \ {k}]
    /\ UNCHANGED <<engine, tasks, manifest, dirty, w, item, adds, faults>>

\* An item that outlived its TTL although its keyword is announced: the
\* sweeps before took too long, or reached other nodes.
Lapse(k) ==
    /\ item[k] # None /\ Fault
    /\ item' = [item EXCEPT ![k] = None]
    /\ UNCHANGED <<engine, tasks, store, file, w, adds>>

\* An item nobody announces again expires.
Expire(k) ==
    /\ item[k] # None /\ manifest[k] = None /\ w.kw # k
    /\ item' = [item EXCEPT ![k] = None]
    /\ UNCHANGED <<engine, tasks, store, file, w, adds, faults>>

\* A restart restores every torrent whose row is still there, and loads the
\* manifest; each restored torrent runs autoIndex again.
RestartPublisher ==
    /\ Fault
    /\ waiting' = managed
    /\ submitting' = [i \in Hashes |-> 0] /\ rm' = [i \in Hashes |-> "no"]
    /\ tasks' = <<>>
    /\ manifest' = saved.hits /\ fresh' = saved.fresh /\ dirty' = FALSE
    /\ w' = IdleWorker
    /\ UNCHANGED <<managed, saved, item, adds>>

Engine(i) ==
    \/ publishTorrent(i) \/ Retract(i) \/ RetractSave(i) \/ RemoveDone(i)

Worker ==
    \/ publishOne \/ Put \/ MarkPublished \/ JobDone
    \/ \E k \in Keywords : AddHit(k) \/ NextKeyword(k)

KeywordNext ==
    \/ \E i \in Hashes : AddTorrent(i) \/ autoIndex(i) \/ RemoveTorrent(i) \/ Engine(i)
    \/ handleTask \/ Refresh \/ Worker \/ Stop
    \/ \E k \in Keywords : Unthrottle(k) \/ Expire(k) \/ Lapse(k)
    \/ RestartPublisher

KeywordSpec == KeywordInit /\ [][KeywordNext]_keywordVars

\* The worker goes on, the ticker fires, time passes; faults are finite.
Fairness ==
    /\ WF_keywordVars(Worker) /\ WF_keywordVars(Refresh)
    /\ \A k \in Keywords : WF_keywordVars(Unthrottle(k)) /\ WF_keywordVars(Expire(k))

FairSpec == KeywordSpec /\ Fairness

(***************************************************************************)
(* Properties.                                                             *)
(***************************************************************************)
HitsOf(e) == IF e = None THEN {} ELSE {e[n] : n \in DOMAIN e}

\* "Refresh never re-announces an empty value": whatever is retracted
\* between the steps of a task or a sweep, no item in the DHT is empty, and
\* none lists a torrent twice.
ItemsWellFormed ==
    \A k \in Keywords : item[k] # None =>
        item[k] # <<>> /\ Cardinality(HitsOf(item[k])) = Len(item[k])

\* With nothing under way the manifest on disk is the one in memory, unless
\* the last save failed: a crash then announces what was announced before.
SavedAtRest ==
    ~dirty /\ w.pc \in {"idle", "stopped"} /\ (\A i \in Hashes : rm[i] # "save") =>
        saved = [hits |-> manifest, fresh |-> fresh]

\* The manifest, its file and the items in the DHT are sound together.
ManifestSound == KeywordTypeOK /\ ItemsWellFormed /\ SavedAtRest

\* "The publisher stops re-announcing stale keywords": with nothing under
\* way, the manifest lists only torrents the node has.
RetractedGone ==
    tasks = <<>> /\ w.pc = "idle" /\ (\A i \in Hashes : submitting[i] = 0 /\ rm[i] = "no") =>
        \A k \in Keywords : HitsOf(manifest[k]) \subseteq managed

\* "Every torrent whose metadata arrives is tokenised and put": with nothing
\* under way, a torrent past its autoIndex is in the manifest under each of
\* its keywords, if the value has room for all.
SubmittedListed ==
    tasks = <<>> /\ w.pc = "idle" /\ (\A i \in Hashes : submitting[i] = 0 /\ rm[i] = "no") =>
        \A i \in managed \ waiting : \A k \in Name[i] : i \in HitsOf(manifest[k])

\* Once torrents stop coming and going and the faults are over, the DHT
\* holds exactly what the manifest holds, for good, unless the worker stops:
\* a hit left out by the throttle, a failed put or a restart becomes
\* discoverable, and a retracted or evicted one leaves the DHT.
Converges == <>[](w.pc = "stopped" \/ item = manifest)
=============================================================================
