------------------------- MODULE CompanionPublisher -------------------------
(***************************************************************************)
(* internal/companion/publisher.go: the worker that rebuilds the companion *)
(* index, seeds it as a torrent and points the publisher's BEP-46 item at  *)
(* it.  refreshOnce is one action per step that can fail or that another   *)
(* node can observe; everything in memory is lost at a restart, while the  *)
(* pointer lives on in the DHT.                                            *)
(*                                                                         *)
(* A snapshot stands for its payload and so for its infohash: the same     *)
(* corpus with the same GeneratedAt is the same torrent.                   *)
(***************************************************************************)
EXTENDS Naturals, FiniteSets

CONSTANTS Contents,     \* corpora, told apart by contentFingerprint
          Empty,        \* the empty local index
          NoSnapshot,   \* no snapshot, no fingerprint
          MaxClock      \* bound: the wall clock's seconds

ASSUME PublisherAssumption ==
    /\ MaxClock \in Nat \ {0}
    /\ Empty \notin Contents /\ NoSnapshot \notin Contents

Snapshots == [content : Contents, gen : Nat \ {0}]
ASSUME SnapshotAssumption == NoSnapshot \notin Snapshots

VARIABLES
    corpus,         \* the local index: what AllTorrentDocs would return
    clock,          \* time.Now().Unix(); may step back
    lastContentFP,  \* fingerprint of the last stamped corpus
    lastGeneratedAt,\* its timestamp, 0 before the first
    lastSeededIH,   \* the snapshot the last acknowledged pointer names
    pc, idx, prev,  \* the worker: its place, the snapshot it builds, the one it replaces
    seeds,          \* companion torrents the engine seeds
    refused,        \* snapshots whose SeedMetaInfo failed
    payload,        \* the one payload file, which every companion torrent serves in place
    lastError,      \* the last refresh failed
    pointer,        \* the BEP-46 item in the DHT
    behind          \* history: the first stamp of this process was not past the pointer, which
                    \* has not been replaced since

stamp == <<lastContentFP, lastGeneratedAt>>
engine == <<seeds, refused>>
feed == <<pointer, behind>>
publisherVars == <<corpus, clock, stamp, lastSeededIH, pc, idx, prev, engine, payload, lastError, feed>>

Labels == {"build", "stamp", "write", "seed", "put", "dropOrphan", "commit",
           "dropPrev", "idle", "stopped"}

PublisherTypeOK ==
    /\ corpus \in Contents \cup {Empty}
    /\ clock \in Nat \ {0}
    /\ lastContentFP \in Contents \cup {NoSnapshot}
    /\ lastGeneratedAt \in Nat
    /\ lastSeededIH \in Snapshots \cup {NoSnapshot}
    /\ pc \in Labels
    /\ idx \in Snapshots \cup {NoSnapshot}
    /\ prev \in Snapshots \cup {NoSnapshot}
    /\ seeds \subseteq Snapshots /\ refused \subseteq Snapshots
    /\ payload \in Snapshots \cup {NoSnapshot} /\ lastError \in BOOLEAN
    /\ pointer \in Snapshots \cup {NoSnapshot} /\ behind \in BOOLEAN

\* Start: the worker builds at once.
PublisherInit ==
    /\ corpus \in Contents \cup {Empty}
    /\ clock = 1
    /\ lastContentFP = NoSnapshot /\ lastGeneratedAt = 0
    /\ lastSeededIH = NoSnapshot
    /\ pc = "build" /\ idx = NoSnapshot /\ prev = NoSnapshot
    /\ seeds = {} /\ refused = {}
    /\ payload = NoSnapshot /\ lastError = FALSE
    /\ pointer = NoSnapshot /\ behind = FALSE

Goto(l) == pc' = l

\* A failure is recorded and the worker goes back to waiting.
recordFailure == Goto("idle") /\ idx' = NoSnapshot /\ lastError' = TRUE

(***************************************************************************)
(* run: wake up on the ticker or on RefreshNow's trigger, or stop.         *)
(***************************************************************************)
\* RefreshNow, when it is not throttled, only brings the next build forward.
WakePublisher ==
    /\ pc = "idle" /\ Goto("build")
    /\ UNCHANGED <<corpus, clock, stamp, lastSeededIH, idx, prev, engine, payload, lastError, feed>>

Stop ==
    /\ pc = "idle" /\ Goto("stopped")
    /\ UNCHANGED <<corpus, clock, stamp, lastSeededIH, idx, prev, engine, payload, lastError, feed>>

(***************************************************************************)
(* refreshOnce.                                                            *)
(***************************************************************************)
\* BuildFromIndex may fail; an empty index is a failure too.
BuildFromIndex ==
    /\ pc = "build"
    /\ \/ /\ corpus # Empty
          /\ idx' = [content |-> corpus, gen |-> clock] /\ Goto("stamp") /\ UNCHANGED lastError
       \/ recordFailure
    /\ UNCHANGED <<corpus, clock, stamp, lastSeededIH, prev, engine, payload, feed>>

\* Mutant of StampOf: the wall clock, whatever was published before.
StampNow == idx.gen

\* GeneratedAt: the old one for an unchanged corpus, else past the old one.
StampOf ==
    IF idx.content = lastContentFP /\ lastGeneratedAt # 0 THEN lastGeneratedAt
    ELSE IF lastGeneratedAt # 0 /\ idx.gen <= lastGeneratedAt THEN lastGeneratedAt + 1
    ELSE idx.gen

\* Remembered before the snapshot is written, seeded or advertised; in memory
\* only, so the first stamp of a process is the clock's.
Stamp ==
    /\ pc = "stamp"
    /\ idx' = [idx EXCEPT !.gen = StampOf]
    /\ lastContentFP' = idx.content /\ lastGeneratedAt' = StampOf
    /\ behind' = IF lastGeneratedAt = 0 THEN pointer # NoSnapshot /\ idx.gen <= pointer.gen ELSE behind
    /\ Goto("write")
    /\ UNCHANGED <<corpus, clock, lastSeededIH, prev, engine, payload, lastError, pointer>>

\* The payload replaces the one before it under the same name; after that
\* companion.torrent may still fail.
WriteCompanionFiles ==
    /\ pc = "write"
    /\ \/ payload' = idx /\ Goto("seed") /\ UNCHANGED <<idx, lastError>>
       \/ payload' \in {payload, idx} /\ recordFailure
    /\ UNCHANGED <<corpus, clock, stamp, lastSeededIH, prev, engine, feed>>

\* An error is logged, and the pointer published regardless.
SeedMetaInfo ==
    /\ pc = "seed" /\ Goto("put")
    /\ \/ seeds' = seeds \cup {idx} /\ refused' = refused \ {idx}
       \/ idx \notin seeds /\ refused' = refused \cup {idx} /\ UNCHANGED seeds
    /\ UNCHANGED <<corpus, clock, stamp, lastSeededIH, idx, prev, payload, lastError, feed>>

\* A put that fails (no node answered, timeout, Stop) may have reached some
\* node all the same.
PutInfohashPointer ==
    /\ pc = "put"
    /\ \/ pointer' = idx /\ Goto("commit")
       \/ pointer' \in {pointer, idx} /\ Goto("dropOrphan")
    /\ behind' = (behind /\ pointer' # idx)
    /\ UNCHANGED <<corpus, clock, stamp, lastSeededIH, idx, prev, engine, payload, lastError>>

\* Mutant of DropOrphan: a snapshot that was not advertised keeps its seed.
KeepOrphan ==
    /\ pc = "dropOrphan"
    /\ recordFailure
    /\ UNCHANGED <<corpus, clock, stamp, lastSeededIH, prev, engine, payload, feed>>

\* Drop what nothing acknowledged names, unless it is still advertised.
DropOrphan ==
    /\ pc = "dropOrphan"
    /\ seeds' = IF idx # lastSeededIH THEN seeds \ {idx} ELSE seeds
    /\ recordFailure
    /\ UNCHANGED <<corpus, clock, stamp, lastSeededIH, prev, refused, payload, feed>>

CommitSeeded ==
    /\ pc = "commit" /\ Goto("dropPrev")
    /\ prev' = lastSeededIH /\ lastSeededIH' = idx
    /\ UNCHANGED <<corpus, clock, stamp, idx, engine, payload, lastError, feed>>

\* Mutant of DropPrev: the snapshot just advertised may be the one dropped.
DropAnyPrev ==
    /\ pc = "dropPrev"
    /\ seeds' = seeds \ {prev}
    /\ Goto("idle") /\ idx' = NoSnapshot /\ prev' = NoSnapshot /\ lastError' = FALSE
    /\ UNCHANGED <<corpus, clock, stamp, lastSeededIH, refused, payload, feed>>

\* DropTorrent of the replaced seed, then recordSuccess.
DropPrev ==
    /\ pc = "dropPrev"
    /\ seeds' = IF prev # idx THEN seeds \ {prev} ELSE seeds
    /\ Goto("idle") /\ idx' = NoSnapshot /\ prev' = NoSnapshot /\ lastError' = FALSE
    /\ UNCHANGED <<corpus, clock, stamp, lastSeededIH, refused, payload, feed>>

(***************************************************************************)
(* The index changes under the publisher, the clock is corrected either    *)
(* way, the process restarts.  Only the payload file and the pointer are   *)
(* not in memory.                                                          *)
(***************************************************************************)
ChangeCorpus ==
    /\ corpus' \in Contents \cup {Empty}
    /\ UNCHANGED <<clock, stamp, lastSeededIH, pc, idx, prev, engine, payload, lastError, feed>>

SetClock(t) ==
    /\ clock' = t
    /\ UNCHANGED <<corpus, stamp, lastSeededIH, pc, idx, prev, engine, payload, lastError, feed>>

Restart ==
    /\ lastContentFP' = NoSnapshot /\ lastGeneratedAt' = 0
    /\ lastSeededIH' = NoSnapshot
    /\ Goto("build") /\ idx' = NoSnapshot /\ prev' = NoSnapshot
    /\ seeds' = {} /\ refused' = {} /\ lastError' = FALSE
    /\ UNCHANGED <<corpus, clock, payload, feed>>

Refresh ==
    \/ BuildFromIndex \/ Stamp \/ WriteCompanionFiles \/ SeedMetaInfo
    \/ PutInfohashPointer \/ DropOrphan \/ CommitSeeded \/ DropPrev

PublisherNext ==
    \/ WakePublisher \/ Stop \/ Refresh
    \/ ChangeCorpus \/ Restart
    \/ \E t \in 1..MaxClock : SetClock(t)

PublisherSpec == PublisherInit /\ [][PublisherNext]_publisherVars

(***************************************************************************)
(* Properties.                                                             *)
(***************************************************************************)
\* "Companion seeds do not accumulate in the engine over the node's
\* lifetime": the engine seeds no companion torrent but the one advertised,
\* the one being published and the one being replaced, whichever of write,
\* seed and put failed in the refreshes before.
SeedsDoNotAccumulate == seeds \subseteq {lastSeededIH, idx, prev}

\* "We must keep seeding it": what the last acknowledged pointer names is in
\* the engine at every moment of the next refreshes, failed ones included
\* (unless the engine had refused to seed it), and the payload file it serves
\* is its own, unless a later refresh, under way or failed, has written
\* another one over it.
AdvertisedKeptSeeded ==
    lastSeededIH # NoSnapshot =>
        /\ lastSeededIH \in seeds \cup refused
        /\ payload = lastSeededIH \/ payload = idx \/ lastError

\* What that exception costs: after a refresh whose put failed, the torrent
\* that the pointer names is seeded without its bytes.  It does not hold.
AdvertisedServed == pc = "idle" /\ lastSeededIH # NoSnapshot => payload = lastSeededIH

\* The inductive strengthening.  Where the worker is, what it holds:
Seeding == {"put", "dropOrphan", "commit", "dropPrev"}
Stamped == {"write", "seed"} \cup Seeding
PublisherHolds ==
    /\ (idx # NoSnapshot) = (pc \in {"stamp"} \cup Stamped)
    /\ pc # "dropPrev" => prev = NoSnapshot
    /\ pc = "dropPrev" => lastSeededIH = idx
    /\ pc \notin Seeding => seeds \subseteq {lastSeededIH}
    /\ pc \in Seeding => idx \in seeds \cup refused
    /\ pc \in {"seed"} \cup Seeding => payload = idx
    /\ pc \notin {"seed"} \cup Seeding /\ lastSeededIH # NoSnapshot => payload = lastSeededIH \/ lastError

\* ... and how its stamps relate to the pointer.
StampsLead ==
    /\ behind => pointer # NoSnapshot
    /\ pc \in Stamped => idx.gen = lastGeneratedAt /\ idx.content = lastContentFP
    /\ pointer # NoSnapshot /\ lastGeneratedAt # 0 /\ ~behind =>
        \/ pointer.gen < lastGeneratedAt
        \/ pointer.gen = lastGeneratedAt /\ pointer.content = lastContentFP

PublisherInv ==
    /\ PublisherTypeOK /\ PublisherHolds /\ StampsLead
    /\ SeedsDoNotAccumulate /\ AdvertisedKeptSeeded

\* "Keep GeneratedAt strictly monotonic across content changes", across
\* failed puts and clock corrections: the publisher implements the feed its
\* followers rely on.  lastGeneratedAt is lost at a restart; the first
\* snapshot of a process is out of order if its clock is not past the
\* pointer's, and no other is.
Feed == INSTANCE CompanionFeed WITH Contents <- Contents, None <- NoSnapshot, pointer <- pointer, behind <- behind
ImplementsFeed == Feed!Spec

\* Every process starts past the pointer.  It does not hold: the clock may
\* have stepped back.
NeverBehind == ~behind
=============================================================================
