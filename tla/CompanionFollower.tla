------------------------- MODULE CompanionFollower -------------------------
(***************************************************************************)
(* The node that follows companion publishers: the SubscriberWorker's      *)
(* sweeps (internal/companion/worker.go), Subscriber.Sync and Forget       *)
(* (subscriber.go), the index entries an import may write                  *)
(* (internal/indexer/indexer.go), and the follow and unfollow handlers     *)
(* that rewrite the follow file (internal/daemon/companion.go).            *)
(*                                                                         *)
(* A snapshot, and so its infohash, is a pair <<author, GeneratedAt>>: the *)
(* publishers keep the promise of CompanionFeed, so the pair determines    *)
(* the payload.  Every snapshot lists the same Torrents: the properties    *)
(* are about who wrote an entry, and when.                                 *)
(***************************************************************************)
EXTENDS Naturals, FiniteSets

CONSTANTS Pubs,         \* publishers that may be followed
          NTorrents,    \* infohashes the snapshots list, in this order
          Handlers,     \* concurrent API calls that follow and unfollow
          None,         \* no snapshot, publisher, handler or entry
          Local,        \* entry written by the node itself, unsigned
          MaxGen,       \* bound: snapshots of a publisher
          MaxCalls,     \* bound: API calls
          MaxFaults,    \* bound: failed steps, stale gets and restarts
          Env           \* what this instance's surroundings do

Torrents == 1..NTorrents
PubSnapshots == Pubs \X (1..MaxGen)
Entries == [by : Pubs \cup {Local}, from : PubSnapshots \cup {None}]

ASSUME FollowerAssumption ==
    /\ MaxGen \in Nat \ {0} /\ NTorrents \in Nat /\ MaxCalls \in Nat /\ MaxFaults \in Nat
    /\ None \notin Pubs \cup Handlers /\ Local \notin Pubs
    /\ None \notin PubSnapshots /\ None \notin Entries
    /\ Env \subseteq {"swap", "local", "unfollow"}

VARIABLES
    pointers,   \* the publishers' BEP-46 items
    follows,    \* w.follows
    lastSync,   \* publishers with a result in w.lastSync
    imported,   \* pubkey -> GeneratedAt of the last import (0: none)
    lastIH,     \* pubkey -> last infohash dealt with
    epoch,      \* pubkey -> number of Forgets
    w,          \* the worker: [pc, todo, pub, epoch, ih, next]
    doc,        \* the index: torrent -> entry or None
    file,       \* the follow file
    dirty,      \* the last write of the follow file failed
    h,          \* the API handlers: [pc, pub, snap]
    followMu,   \* handler that holds a.followMu, or None
    calls,      \* API calls so far
    faults      \* failed steps, stale gets and restarts so far

dedup == <<imported, lastIH, epoch>>
saved == <<file, dirty>>
api == <<h, followMu, calls>>
vars == <<pointers, follows, lastSync, dedup, w, doc, saved, api, faults>>

Fault == faults < MaxFaults /\ faults' = faults + 1

IdleWorker == [pc |-> "idle", todo |-> {}, pub |-> None, epoch |-> 0, ih |-> None, next |-> 1]
IdleCall == [pc |-> "idle", pub |-> None, snap |-> {}]

WorkerStates == [pc : {"idle", "next", "get", "fetch", "ingest", "skip", "done"},
                 todo : SUBSET Pubs, pub : Pubs \cup {None}, epoch : Nat,
                 ih : PubSnapshots \cup {None}, next : 1..NTorrents + 1]
CallStates == [pc : {"idle", "forget", "persist", "write"}, pub : Pubs \cup {None}, snap : SUBSET Pubs]

TypeOK ==
    /\ pointers \in [Pubs -> PubSnapshots \cup {None}]
    /\ follows \subseteq Pubs /\ lastSync \subseteq Pubs /\ file \subseteq Pubs
    /\ dirty \in BOOLEAN
    /\ imported \in [Pubs -> 0..MaxGen]
    /\ lastIH \in [Pubs -> PubSnapshots \cup {None}]
    /\ epoch \in [Pubs -> Nat]
    /\ w \in WorkerStates
    /\ doc \in [Torrents -> Entries \cup {None}]
    /\ h \in [Handlers -> CallStates]
    /\ followMu \in Handlers \cup {None}
    /\ calls \in 0..MaxCalls /\ faults \in 0..MaxFaults

Init ==
    /\ pointers = [p \in Pubs |-> None]
    /\ follows = {} /\ lastSync = {}
    /\ imported = [p \in Pubs |-> 0]
    /\ lastIH = [p \in Pubs |-> None]
    /\ epoch = [p \in Pubs |-> 0]
    /\ w = IdleWorker
    /\ doc = [t \in Torrents |-> None]
    /\ file = {} /\ dirty = FALSE
    /\ h = [c \in Handlers |-> IdleCall] /\ followMu = None /\ calls = 0 /\ faults = 0

(***************************************************************************)
(* The publishers, and the node's own additions to its index.              *)
(***************************************************************************)
Generation(p) == IF pointers[p] # None /\ pointers[p][1] = p THEN pointers[p][2] ELSE 0

Publish(p) ==
    /\ \E g \in (Generation(p) + 1)..MaxGen : pointers' = [pointers EXCEPT ![p] = <<p, g>>]
    /\ UNCHANGED <<follows, lastSync, dedup, w, doc, saved, api, faults>>

\* A pointer to what another publisher authored.
PointElsewhere(p, q) ==
    /\ "swap" \in Env /\ p # q /\ Generation(p) = 0 /\ Generation(q) # 0
    /\ pointers' = [pointers EXCEPT ![p] = pointers[q]]
    /\ UNCHANGED <<follows, lastSync, dedup, w, doc, saved, api, faults>>

\* IndexTorrent of an unsigned local torrent keeps a stored signature.
IndexLocally(t) ==
    /\ "local" \in Env /\ doc[t] = None
    /\ doc' = [doc EXCEPT ![t] = [by |-> Local, from |-> None]]
    /\ UNCHANGED <<pointers, follows, lastSync, dedup, w, saved, api, faults>>

(***************************************************************************)
(* The worker: runOnce sweeps the publishers followed when it starts.      *)
(***************************************************************************)
\* On a tick, or sooner on the trigger that Follow fills.
WakeUp ==
    /\ w.pc = "idle"
    /\ w' = [w EXCEPT !.pc = "next", !.todo = follows]
    /\ UNCHANGED <<pointers, follows, lastSync, dedup, doc, saved, api, faults>>

SweepDone ==
    /\ w.pc = "next" /\ w.todo = {}
    /\ w' = IdleWorker
    /\ UNCHANGED <<pointers, follows, lastSync, dedup, doc, saved, api, faults>>

\* Sync begins: the epoch is read.
SyncStart(p) ==
    /\ w.pc = "next" /\ p \in w.todo
    /\ w' = [w EXCEPT !.pc = "get", !.todo = @ \ {p}, !.pub = p, !.epoch = epoch[p]]
    /\ UNCHANGED <<pointers, follows, lastSync, dedup, doc, saved, api, faults>>

SyncTo(l) == w' = [w EXCEPT !.pc = l]

\* What a get returns: the item, nothing, or an older item from a node that
\* missed the last put.
Stale(p) == IF pointers[p] = None THEN {} ELSE {<<p, g>> : g \in 1..Generation(p)} \ {pointers[p]}

\* The infohash is compared with the last one before anything is fetched.
Got(ih) == w' = [w EXCEPT !.pc = IF lastIH[w.pub] = ih THEN "done" ELSE "fetch", !.ih = ih]

GetPointer ==
    /\ w.pc = "get"
    /\ IF pointers[w.pub] = None THEN SyncTo("done") ELSE Got(pointers[w.pub])
    /\ UNCHANGED <<pointers, follows, lastSync, dedup, doc, saved, api, faults>>

GetStale ==
    /\ w.pc = "get" /\ Fault
    /\ \E ih \in Stale(w.pub) : Got(ih)
    /\ UNCHANGED <<pointers, follows, lastSync, dedup, doc, saved, api>>

\* Mutants of SyncFails: a failed import is remembered like a complete one;
\* its infohash is remembered as dealt with.
FailCommitted ==
    /\ w.pc \in {"get", "fetch", "ingest"} /\ Fault
    /\ w' = IF w.pc = "ingest" THEN [w EXCEPT !.next = NTorrents + 1] ELSE [w EXCEPT !.pc = "done"]
    /\ UNCHANGED <<pointers, follows, lastSync, dedup, doc, saved, api>>
FailSkipped ==
    /\ w.pc \in {"get", "fetch", "ingest"} /\ Fault
    /\ SyncTo(IF w.pc = "get" THEN "done" ELSE "skip")
    /\ UNCHANGED <<pointers, follows, lastSync, dedup, doc, saved, api>>

\* The get, the fetch, the decode or a write of the index fails.
SyncFails ==
    /\ w.pc \in {"get", "fetch", "ingest"} /\ Fault /\ SyncTo("done")
    /\ UNCHANGED <<pointers, follows, lastSync, dedup, doc, saved, api>>

\* Mutant of CheckSnapshot: anybody's snapshot is imported.
CheckRollbackOnly ==
    /\ w.pc = "fetch"
    /\ w' = IF w.ih[2] < imported[w.pub] THEN [w EXCEPT !.pc = "skip"]
            ELSE [w EXCEPT !.pc = "ingest", !.next = 1]
    /\ UNCHANGED <<pointers, follows, lastSync, dedup, doc, saved, api, faults>>

\* FetchCompanionTorrent and decodeFile return.  The author must be the
\* publisher followed; an older snapshot than the last import is a rollback.
CheckSnapshot ==
    /\ w.pc = "fetch"
    /\ w' = IF w.ih[1] # w.pub THEN [w EXCEPT !.pc = "done"]
            ELSE IF w.ih[2] < imported[w.pub] THEN [w EXCEPT !.pc = "skip"]
            ELSE [w EXCEPT !.pc = "ingest", !.next = 1]
    /\ UNCHANGED <<pointers, follows, lastSync, dedup, doc, saved, api, faults>>

\* Mutant of MayWrite: an import may take over any entry.
MayWriteAny(t, p) == TRUE

\* IndexTorrent with PreserveExistingSigner: a new entry, or one's own.
MayWrite(t, p) == doc[t] = None \/ doc[t].by = p

\* One torrent of ingest: ErrForeignTorrent skips it.
IngestTorrent ==
    /\ w.pc = "ingest" /\ w.next \in Torrents
    /\ doc' = IF MayWrite(w.next, w.pub)
              THEN [doc EXCEPT ![w.next] = [by |-> w.pub, from |-> w.ih]] ELSE doc
    /\ w' = [w EXCEPT !.next = @ + 1]
    /\ UNCHANGED <<pointers, follows, lastSync, dedup, saved, api, faults>>

\* Mutant of commitDedup: a rejected rollback also moves the GeneratedAt.
CommitRollback ==
    /\ w.pc = "skip" \/ (w.pc = "ingest" /\ w.next \notin Torrents)
    /\ SyncTo("done")
    /\ IF epoch[w.pub] # w.epoch THEN UNCHANGED <<imported, lastIH>>
       ELSE /\ lastIH' = [lastIH EXCEPT ![w.pub] = w.ih]
            /\ imported' = [imported EXCEPT ![w.pub] = w.ih[2]]
    /\ UNCHANGED <<pointers, follows, lastSync, epoch, doc, saved, api, faults>>

\* After the last torrent, or on a rollback: commitDedup does nothing if a
\* Forget came in between; a rollback moves only the infohash.
commitDedup ==
    /\ w.pc = "skip" \/ (w.pc = "ingest" /\ w.next \notin Torrents)
    /\ SyncTo("done")
    /\ IF epoch[w.pub] # w.epoch THEN UNCHANGED <<imported, lastIH>>
       ELSE /\ lastIH' = [lastIH EXCEPT ![w.pub] = w.ih]
            /\ imported' = IF w.pc = "ingest" THEN [imported EXCEPT ![w.pub] = w.ih[2]]
                           ELSE imported
    /\ UNCHANGED <<pointers, follows, lastSync, epoch, doc, saved, api, faults>>

\* Mutant of SyncDone: the result is kept whoever is followed by now.
KeepResult ==
    /\ w.pc = "done"
    /\ lastSync' = lastSync \cup {w.pub}
    /\ w' = [w EXCEPT !.pc = "next", !.pub = None, !.epoch = 0, !.ih = None, !.next = 1]
    /\ UNCHANGED <<pointers, follows, dedup, doc, saved, api, faults>>

\* Back in runOnce: the result is kept if the publisher still is followed.
SyncDone ==
    /\ w.pc = "done"
    /\ lastSync' = lastSync \cup ({w.pub} \cap follows)
    /\ w' = [w EXCEPT !.pc = "next", !.pub = None, !.epoch = 0, !.ih = None, !.next = 1]
    /\ UNCHANGED <<pointers, follows, dedup, doc, saved, api, faults>>

(***************************************************************************)
(* The API: companionAdapter.Follow and Unfollow, then persistFollows.     *)
(***************************************************************************)
Call(c, p, l) ==
    /\ h[c].pc = "idle" /\ calls < MaxCalls /\ calls' = calls + 1
    /\ h' = [h EXCEPT ![c] = [pc |-> l, pub |-> p, snap |-> {}]]

Follow(c, p) ==
    /\ Call(c, None, "persist")
    /\ follows' = follows \cup {p}
    /\ UNCHANGED <<pointers, lastSync, dedup, w, doc, saved, followMu, faults>>

\* The worker's maps first, the subscriber's in a critical section of its own.
Unfollow(c, p) ==
    /\ "unfollow" \in Env
    /\ Call(c, p, "forget")
    /\ follows' = follows \ {p} /\ lastSync' = lastSync \ {p}
    /\ UNCHANGED <<pointers, dedup, w, doc, saved, followMu, faults>>

Forget(c) ==
    /\ h[c].pc = "forget"
    /\ imported' = [imported EXCEPT ![h[c].pub] = 0]
    /\ lastIH' = [lastIH EXCEPT ![h[c].pub] = None]
    /\ epoch' = [epoch EXCEPT ![h[c].pub] = @ + 1]
    /\ h' = [h EXCEPT ![c].pc = "persist", ![c].pub = None]
    /\ UNCHANGED <<pointers, follows, lastSync, w, doc, saved, followMu, calls, faults>>

\* Mutant of PersistSnapshot: the follow set is read before the lock.
SnapshotUnlocked(c) ==
    /\ h[c].pc = "persist"
    /\ h' = [h EXCEPT ![c].pc = "write", ![c].snap = follows]
    /\ UNCHANGED <<pointers, follows, lastSync, dedup, w, doc, saved, followMu, calls, faults>>

\* persistFollows reads the follow set under followMu, and holds it ...
PersistSnapshot(c) ==
    /\ h[c].pc = "persist" /\ followMu = None /\ followMu' = c
    /\ h' = [h EXCEPT ![c].pc = "write", ![c].snap = follows]
    /\ UNCHANGED <<pointers, follows, lastSync, dedup, w, doc, saved, calls, faults>>

\* ... while it writes the temporary file and renames it, or fails.
PersistWrite(c) ==
    /\ h[c].pc = "write"
    /\ \/ file' = h[c].snap /\ dirty' = FALSE /\ UNCHANGED faults
       \/ Fault /\ dirty' = TRUE /\ UNCHANGED file
    /\ h' = [h EXCEPT ![c] = IdleCall] /\ followMu' = None
    /\ UNCHANGED <<pointers, follows, lastSync, dedup, w, doc, calls>>

\* A restart keeps the follow file and the index; LoadFollowFile follows
\* every row of the file.
Crash ==
    /\ Fault
    /\ follows' = file /\ dirty' = FALSE /\ lastSync' = {}
    /\ imported' = [p \in Pubs |-> 0] /\ lastIH' = [p \in Pubs |-> None]
    /\ epoch' = [p \in Pubs |-> 0]
    /\ w' = IdleWorker
    /\ h' = [c \in Handlers |-> IdleCall] /\ followMu' = None
    /\ UNCHANGED <<pointers, doc, file, calls>>

Sync ==
    \/ SweepDone \/ \E p \in Pubs : SyncStart(p)
    \/ GetPointer \/ CheckSnapshot \/ IngestTorrent \/ commitDedup \/ SyncDone

Handle(c) == Forget(c) \/ PersistSnapshot(c) \/ PersistWrite(c)

Next ==
    \/ WakeUp \/ Sync \/ GetStale \/ SyncFails
    \/ \E c \in Handlers : Handle(c) \/ \E p \in Pubs : Follow(c, p) \/ Unfollow(c, p)
    \/ \E p \in Pubs : Publish(p) \/ \E q \in Pubs : PointElsewhere(p, q)
    \/ \E t \in Torrents : IndexLocally(t)
    \/ Crash

Spec == Init /\ [][Next]_vars

\* The ticker fires, a sync that is under way goes on, and the scheduler
\* runs the handlers.  Faults are finite: the network and the disk work in
\* the end.
Fairness ==
    /\ WF_vars(WakeUp) /\ WF_vars(Sync)
    /\ \A c \in Handlers : WF_vars(Handle(c))

FairSpec == Spec /\ Fairness

(***************************************************************************)
(* Properties.                                                             *)
(***************************************************************************)
\* "Never hijack an existing different attribution": no import of anybody's
\* list changes who an entry of the index is attributed to.
NoHijack == [][\A t \in Torrents : doc[t] # None => doc'[t].by = doc[t].by]_vars

\* "The snapshot MUST be authored by the publisher we follow": an entry
\* attributed to a publisher comes from a snapshot of its own.
AuthoredByFollowed ==
    \A t \in Torrents : doc[t] # None /\ doc[t].by \in Pubs => doc[t].from[1] = doc[t].by

\* What the dedup skips has been imported: a publisher's remembered
\* snapshot left no listed torrent out, however imports failed half way,
\* were repeated, or raced an unfollow.
DedupMeansImported ==
    \A p \in Pubs : imported[p] # 0 /\ lastIH[p] = <<p, imported[p]>> =>
        \A t \in Torrents : doc[t] # None /\ (doc[t].by = p => doc[t].from[2] >= imported[p])

\* Stale gets never take a follower back: while a publisher is followed and
\* the node runs, the GeneratedAt it has imported only grows.
NoRollback == [][Crash \/ \A p \in Pubs : epoch'[p] = epoch[p] => imported'[p] >= imported[p]]_vars

\* "Its result is dropped": a publisher that is not followed has no result.
ResultsOfFollowed == lastSync \subseteq follows

\* The follow file holds the follow set once the handlers are done, in
\* whatever order concurrent follows and unfollows came to persistFollows.
FollowsSaved ==
    ~dirty /\ (\A c \in Handlers : h[c].pc = "idle") => file = follows

\* "An in-flight Sync never resurrects state for a publisher we no longer
\* follow": with nothing under way, dedup state is of followed publishers.
UnfollowedForgotten ==
    w.pc = "idle" /\ (\A c \in Handlers : h[c].pc = "idle") =>
        \A p \in Pubs \ follows : lastIH[p] = None

\* A follower catches up: once the publishers stop publishing, the snapshot
\* a followed publisher advertises is imported, unless it is unfollowed,
\* whatever failed, was stale, or was unfollowed and followed again before.
Behind(p) == p \in follows /\ imported[p] < Generation(p)
CatchesUp == \A p \in Pubs : Behind(p) ~> ~Behind(p)

\* What the follower holds is sound at every step of a sync: every import is
\* the followed publisher's own, complete where the dedup will skip it, and
\* results are kept of followed publishers only.
ImportsSound ==
    TypeOK /\ AuthoredByFollowed /\ DedupMeansImported /\ ResultsOfFollowed

\* Imports only advance: no step changes whom an entry is attributed to, or
\* takes the GeneratedAt of a followed publisher back.
ImportsOnlyAdvance == NoHijack /\ NoRollback
=============================================================================
