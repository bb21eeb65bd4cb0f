-------------------------- MODULE CompanionProofs --------------------------
(***************************************************************************)
(* Theorems about the companion index, for any corpora, publishers,        *)
(* handlers, torrents and bounds: the publisher keeps its seeds and        *)
(* implements CompanionFeed, the promise that the follower relies on; what *)
(* a follower imports is sound, its imports only advance, and its follow   *)
(* file follows.                                                           *)
(*                                                                         *)
(* The publisher: PublisherInv says what the worker holds where it is, and *)
(* how its stamps relate to the pointer.                                   *)
(*                                                                         *)
(* The follower: between two steps of a Sync the worker's locals still     *)
(* tell the truth about the dedup maps (WorkerHolds), because the only     *)
(* other writer of those maps, Forget, moves the epoch; what the import    *)
(* has passed over is in the index (Passed).  The follow file lags the     *)
(* follow set only while a handler stands before its critical section      *)
(* (FileLags).                                                             *)
(***************************************************************************)
EXTENDS CompanionPublisher, CompanionFollower, TLAPS

(***************************************************************************)
(* The publisher.                                                          *)
(***************************************************************************)
\* The stamp is a positive number, past the last one unless the corpus is
\* the one last stamped.
LEMMA StampIsLater ==
    ASSUME idx \in Snapshots, lastGeneratedAt \in Nat
    PROVE  /\ StampOf \in Nat \ {0}
           /\ StampOf >= lastGeneratedAt
           /\ StampOf = lastGeneratedAt => idx.content = lastContentFP
           /\ lastGeneratedAt = 0 => StampOf = idx.gen
  BY DEF StampOf, Snapshots

\* A worker that starts holds nothing, and nothing is published.
LEMMA InitInv == PublisherInit => PublisherInv
  <1> SUFFICES ASSUME PublisherInit PROVE PublisherInv
    OBVIOUS
  <1>1. PublisherTypeOK
    <2>1. lastError \in BOOLEAN /\ behind \in BOOLEAN
      BY DEF PublisherInit
    <2> QED BY <2>1 DEF PublisherInit, PublisherTypeOK, Labels
  <1>2. PublisherHolds
    BY DEF PublisherInit, PublisherHolds, Seeding, Stamped
  <1>3. StampsLead
    BY DEF PublisherInit, StampsLead, Seeding, Stamped
  <1>4. SeedsDoNotAccumulate /\ AdvertisedKeptSeeded
    BY DEF PublisherInit, SeedsDoNotAccumulate, AdvertisedKeptSeeded
  <1> QED BY <1>1, <1>2, <1>3, <1>4 DEF PublisherInv

\* Every step keeps the variables well typed.
LEMMA PublisherTypeStep == PublisherTypeOK /\ PublisherHolds /\ [PublisherNext]_publisherVars => PublisherTypeOK'
  <1> SUFFICES ASSUME PublisherTypeOK, PublisherHolds, [PublisherNext]_publisherVars PROVE PublisherTypeOK'
    OBVIOUS
  <1> USE PublisherAssumption, SnapshotAssumption DEF PublisherTypeOK, Labels, Goto, stamp, engine, feed
  <1>2. CASE WakePublisher
    BY <1>2 DEF WakePublisher
  <1>3. CASE Stop
    BY <1>3 DEF Stop
  <1>4. CASE BuildFromIndex
    <2>1. lastError' \in BOOLEAN
      BY <1>4 DEF BuildFromIndex, recordFailure
    <2> QED BY <1>4, <2>1 DEF BuildFromIndex, recordFailure, Snapshots
  <1>5. CASE Stamp
    <2>1. idx \in Snapshots
      BY <1>5 DEF Stamp, PublisherHolds, Stamped, Seeding
    <2>2. StampOf \in Nat \ {0}
      BY <2>1, StampIsLater
    <2>3. idx' \in Snapshots /\ lastContentFP' \in Contents
      BY <1>5, <2>1, <2>2 DEF Stamp, Snapshots
    <2> QED BY <1>5, <2>2, <2>3 DEF Stamp
  <1>6. CASE WriteCompanionFiles
    BY <1>6 DEF WriteCompanionFiles, recordFailure
  <1>7. CASE SeedMetaInfo
    BY <1>7 DEF SeedMetaInfo, PublisherHolds, Stamped
  <1>8. CASE PutInfohashPointer
    BY <1>8 DEF PutInfohashPointer
  <1>9. CASE DropOrphan
    BY <1>9 DEF DropOrphan, recordFailure
  <1>10. CASE CommitSeeded
    BY <1>10 DEF CommitSeeded
  <1>11. CASE DropPrev
    BY <1>11 DEF DropPrev
  <1>12. CASE ChangeCorpus
    BY <1>12 DEF ChangeCorpus
  <1>13. CASE Restart
    BY <1>13 DEF Restart
  <1>14. ASSUME NEW t \in 1..MaxClock, SetClock(t) PROVE PublisherTypeOK'
    BY <1>14 DEF SetClock
  <1>15. CASE UNCHANGED publisherVars
    BY <1>15 DEF publisherVars
  <1> QED BY <1>2, <1>3, <1>4, <1>5, <1>6, <1>7, <1>8, <1>9, <1>10, <1>11,
             <1>12, <1>13, <1>14, <1>15 DEF PublisherNext, Refresh

\* What the worker holds, and what the engine seeds for it.
LEMMA SeedStep ==
    PublisherInv /\ [PublisherNext]_publisherVars =>
        PublisherHolds' /\ SeedsDoNotAccumulate' /\ AdvertisedKeptSeeded'
  <1> SUFFICES ASSUME PublisherInv, [PublisherNext]_publisherVars
               PROVE PublisherHolds' /\ SeedsDoNotAccumulate' /\ AdvertisedKeptSeeded'
    OBVIOUS
  <1> DEFINE Goal == PublisherHolds' /\ SeedsDoNotAccumulate' /\ AdvertisedKeptSeeded'
  <1> USE SnapshotAssumption DEF PublisherInv, PublisherTypeOK, PublisherHolds, SeedsDoNotAccumulate,
          AdvertisedKeptSeeded, Seeding, Stamped, Goto, stamp, engine, feed
  <1>2. CASE WakePublisher
    BY <1>2 DEF WakePublisher
  <1>3. CASE Stop
    BY <1>3 DEF Stop
  <1>4. CASE BuildFromIndex
    <2>1. [content |-> corpus, gen |-> clock] # NoSnapshot \/ corpus = Empty
      BY DEF Snapshots
    <2> QED BY <1>4, <2>1 DEF BuildFromIndex, recordFailure
  <1>5. CASE Stamp
    <2>1. idx \in Snapshots
      BY <1>5 DEF Stamp
    <2>2. idx' \in Snapshots
      BY <1>5, <2>1, StampIsLater DEF Stamp, Snapshots
    <2> QED BY <1>5, <2>2 DEF Stamp
  <1>6. CASE WriteCompanionFiles
    BY <1>6 DEF WriteCompanionFiles, recordFailure
  <1>7. CASE SeedMetaInfo
    BY <1>7 DEF SeedMetaInfo
  <1>8. CASE PutInfohashPointer
    BY <1>8 DEF PutInfohashPointer
  <1>9. CASE DropOrphan
    BY <1>9 DEF DropOrphan, recordFailure
  <1>10. CASE CommitSeeded
    BY <1>10 DEF CommitSeeded
  <1>11. CASE DropPrev
    BY <1>11 DEF DropPrev
  <1>12. CASE ChangeCorpus
    BY <1>12 DEF ChangeCorpus
  <1>13. CASE Restart
    BY <1>13 DEF Restart
  <1>14. ASSUME NEW t \in 1..MaxClock, SetClock(t) PROVE Goal
    BY <1>14 DEF SetClock
  <1>15. CASE UNCHANGED publisherVars
    BY <1>15 DEF publisherVars
  <1> QED BY <1>2, <1>3, <1>4, <1>5, <1>6, <1>7, <1>8, <1>9, <1>10, <1>11,
             <1>12, <1>13, <1>14, <1>15 DEF PublisherNext, Refresh

\* The stamps stay ahead of the pointer: the part that clock corrections,
\* failed puts and restarts could break.
LEMMA StampStep == PublisherInv /\ [PublisherNext]_publisherVars => StampsLead'
  <1> SUFFICES ASSUME PublisherInv, [PublisherNext]_publisherVars PROVE StampsLead'
    OBVIOUS
  <1> USE SnapshotAssumption DEF PublisherInv, PublisherTypeOK, StampsLead, PublisherHolds, Seeding,
          Stamped, Goto, stamp, engine, feed
  <1>2. CASE WakePublisher
    BY <1>2 DEF WakePublisher
  <1>3. CASE Stop
    BY <1>3 DEF Stop
  <1>4. CASE BuildFromIndex
    BY <1>4 DEF BuildFromIndex, recordFailure
  <1>5. CASE Stamp
    <2>1. idx \in Snapshots
      BY <1>5 DEF Stamp
    <2>2. /\ StampOf \in Nat \ {0}
          /\ StampOf >= lastGeneratedAt
          /\ StampOf = lastGeneratedAt => idx.content = lastContentFP
          /\ lastGeneratedAt = 0 => StampOf = idx.gen
      BY <2>1, StampIsLater
    <2>3. idx'.gen = StampOf /\ idx'.content = idx.content
      BY <1>5, <2>1 DEF Stamp, Snapshots
    <2>4. pointer # NoSnapshot => pointer.gen \in Nat
      BY DEF Snapshots
    <2>5. pc' = "write" /\ pointer' = pointer /\ lastGeneratedAt' = StampOf /\ lastContentFP' = idx.content
      BY <1>5 DEF Stamp
    <2>6. CASE lastGeneratedAt = 0
      <3>1. behind' <=> pointer # NoSnapshot /\ idx.gen <= pointer.gen
        BY <1>5, <2>6 DEF Stamp
      <3>2. pointer # NoSnapshot /\ ~behind' => pointer.gen < idx.gen
        BY <2>1, <2>4, <3>1 DEF Snapshots
      <3> QED BY <2>2, <2>3, <2>5, <2>6, <3>1, <3>2
    <2>7. CASE lastGeneratedAt # 0
      <3>1. behind' = behind
        BY <1>5, <2>7 DEF Stamp
      <3> QED BY <2>2, <2>3, <2>4, <2>5, <2>7, <3>1
    <2> QED BY <2>6, <2>7
  <1>6. CASE WriteCompanionFiles
    BY <1>6 DEF WriteCompanionFiles, recordFailure
  <1>7. CASE SeedMetaInfo
    BY <1>7 DEF SeedMetaInfo
  <1>8. CASE PutInfohashPointer
    <2>1. idx \in Snapshots /\ idx.gen = lastGeneratedAt /\ idx.gen # 0
      BY <1>8 DEF PutInfohashPointer, Snapshots
    <2> QED BY <1>8, <2>1 DEF PutInfohashPointer
  <1>9. CASE DropOrphan
    BY <1>9 DEF DropOrphan, recordFailure
  <1>10. CASE CommitSeeded
    BY <1>10 DEF CommitSeeded
  <1>11. CASE DropPrev
    BY <1>11 DEF DropPrev
  <1>12. CASE ChangeCorpus
    BY <1>12 DEF ChangeCorpus
  <1>13. CASE Restart
    BY <1>13 DEF Restart
  <1>14. ASSUME NEW t \in 1..MaxClock, SetClock(t) PROVE StampsLead'
    BY <1>14 DEF SetClock
  <1>15. CASE UNCHANGED publisherVars
    BY <1>15 DEF publisherVars
  <1> QED BY <1>2, <1>3, <1>4, <1>5, <1>6, <1>7, <1>8, <1>9, <1>10, <1>11,
             <1>12, <1>13, <1>14, <1>15 DEF PublisherNext, Refresh

\* The inductive invariant holds, whatever fails and however the clock is
\* corrected.
LEMMA PublisherSafe == PublisherSpec => []PublisherInv
  <1>1. PublisherInv /\ [PublisherNext]_publisherVars => PublisherInv'
    BY PublisherTypeStep, SeedStep, StampStep DEF PublisherInv
  <1> QED BY InitInv, <1>1, PTL DEF PublisherSpec

\* refreshOnce leaks no companion seed, over any sequence of failed writes,
\* seeds and puts, for any number of corpora.
THEOREM NoSeedLeak == PublisherSpec => []SeedsDoNotAccumulate
  <1>1. PublisherInv => SeedsDoNotAccumulate
    BY DEF PublisherInv
  <1> QED BY PublisherSafe, <1>1, PTL

\* The companion torrent the last acknowledged pointer names stays in the
\* engine through every later refresh, and its payload in place until a later
\* refresh writes its own.
THEOREM AdvertisedSeeded == PublisherSpec => []AdvertisedKeptSeeded
  <1>1. PublisherInv => AdvertisedKeptSeeded
    BY DEF PublisherInv
  <1> QED BY PublisherSafe, <1>1, PTL

\* The publisher implements the feed: whatever the clock does and whichever
\* puts fail, a new snapshot in the pointer carries a later GeneratedAt, so
\* no follower takes it for a replay, but for the first one of a process
\* that started with a clock not past the pointer.
THEOREM PublisherImplementsFeed == PublisherSpec => ImplementsFeed
  <1>1. PublisherInit => Feed!Init
    BY DEF PublisherInit, Feed!Init
  <1>2. PublisherInv /\ [PublisherNext]_publisherVars => [Feed!Publish \/ Feed!Start]_Feed!feedVars
    <2> SUFFICES ASSUME PublisherInv, [PublisherNext]_publisherVars, ~UNCHANGED Feed!feedVars
                 PROVE  Feed!Publish \/ Feed!Start
      OBVIOUS
    <2>0. pointer' # pointer \/ behind' # behind
      BY DEF Feed!feedVars
    <2>1. PutInfohashPointer \/ Stamp
      BY <2>0 DEF PublisherNext, Refresh, publisherVars, WakePublisher, Stop, BuildFromIndex, Stamp,
         WriteCompanionFiles, SeedMetaInfo, DropOrphan, CommitSeeded, DropPrev,
         ChangeCorpus, Restart, SetClock, feed
    <2>2. CASE Stamp
      <3>1. behind' # behind /\ lastGeneratedAt = 0 /\ UNCHANGED pointer
        BY <2>0, <2>2 DEF Stamp
      <3>2. behind' = (pointer # NoSnapshot /\ idx.gen <= pointer.gen)
        BY <2>2, <3>1 DEF Stamp
      <3>3. CASE pointer # NoSnapshot
        BY <3>1, <3>2, <3>3 DEF Feed!Start
      <3>4. CASE pointer = NoSnapshot
        <4>1. ~behind /\ behind \in BOOLEAN
          BY <3>4 DEF PublisherInv, PublisherTypeOK, StampsLead
        <4>2. ~behind' /\ behind' \in BOOLEAN
          BY <3>2, <3>4
        <4> QED BY <3>1, <4>1, <4>2
      <3> QED BY <3>3, <3>4
    <2>3. CASE PutInfohashPointer
      <3>1. idx \in Snapshots /\ pointer' = idx /\ behind' = FALSE
        BY <2>0, <2>3 DEF PutInfohashPointer, PublisherInv, PublisherTypeOK, PublisherHolds, Stamped, Seeding
      <3>2. idx.gen = lastGeneratedAt /\ idx.content = lastContentFP
        BY <2>3 DEF PutInfohashPointer, PublisherInv, StampsLead, Stamped, Seeding
      <3>3. lastGeneratedAt # 0
        BY <3>1, <3>2 DEF Snapshots
      <3>4. ASSUME pointer # NoSnapshot, ~behind PROVE idx.gen > pointer.gen
        <4>1. pointer \in Snapshots /\ pointer # idx
          BY <2>0, <3>1, <3>4 DEF PublisherInv, PublisherTypeOK
        <4>2. pointer.gen # idx.gen \/ pointer.content # idx.content
          BY <3>1, <4>1 DEF Snapshots
        <4>3. pointer.gen < lastGeneratedAt
          BY <3>2, <3>3, <3>4, <4>2 DEF PublisherInv, StampsLead
        <4> QED BY <3>2, <4>1, <4>3 DEF PublisherInv, PublisherTypeOK, Snapshots
      <3> QED BY <3>1, <3>4 DEF Feed!Publish, Feed!Snapshots, Snapshots
    <2> QED BY <2>1, <2>2, <2>3
  <1> QED BY <1>1, <1>2, PublisherSafe, PTL DEF PublisherSpec, ImplementsFeed, Feed!Spec

(***************************************************************************)
(* The follower.                                                           *)
(***************************************************************************)
\* A sync under way is of a publisher; what it checks or imports is a snapshot, and a call that
\* forgets names the publisher.
Named ==
    /\ w.pc \notin {"idle", "next"} => w.pub \in Pubs
    /\ w.pc \in {"fetch", "ingest", "skip"} => w.ih \in PubSnapshots
    /\ \A c \in Handlers : h[c].pc = "forget" => h[c].pub \in Pubs

\* What the worker read is still so, or the epoch has moved on.
WorkerHolds ==
    /\ w.pc \notin {"idle", "next"} => w.epoch <= epoch[w.pub]
    /\ w.pc \in {"ingest", "skip"} => w.ih[1] = w.pub
    /\ w.pc = "ingest" => w.ih[2] >= imported[w.pub]
    /\ w.pc = "skip" => w.ih[2] < imported[w.pub] \/ w.epoch < epoch[w.pub]

\* A torrent the import has passed is in the index, and the publisher's own entry is as new.
Passed ==
    w.pc = "ingest" => \A t \in Torrents : t < w.next =>
        doc[t] # None /\ (doc[t].by = w.pub => doc[t].from[2] >= w.ih[2])

ImportInv == Named /\ WorkerHolds /\ Passed /\ AuthoredByFollowed /\ DedupMeansImported
             /\ ResultsOfFollowed

\* A handler that has still to read the follow set.
Pending == \E c \in Handlers : h[c].pc \in {"forget", "persist"}

\* One handler at most writes the file; what it holds, or else the file, is the follow set once
\* no other handler has still to read it.
FileLags ==
    /\ \A c \in Handlers : h[c].pc = "write" <=> followMu = c
    /\ \A c \in Handlers : h[c].pc = "write" /\ ~Pending => h[c].snap = follows
    /\ followMu = None /\ ~Pending /\ ~dirty => file = follows

-----------------------------------------------------------------------------
(* Types. *)

LEMMA IdleTypes == IdleWorker \in WorkerStates /\ IdleCall \in CallStates
  BY FollowerAssumption DEF IdleWorker, IdleCall, WorkerStates, CallStates

LEMMA InitType == Init => TypeOK
  <1> SUFFICES ASSUME Init PROVE TypeOK
    OBVIOUS
  <1>1. w \in WorkerStates /\ h \in [Handlers -> CallStates]
    BY IdleTypes DEF Init
  <1>2. pointers \in [Pubs -> PubSnapshots \cup {None}] /\ lastIH \in [Pubs -> PubSnapshots \cup {None}]
    BY DEF Init
  <1>3. imported \in [Pubs -> 0..MaxGen] /\ epoch \in [Pubs -> Nat]
    BY FollowerAssumption DEF Init
  <1>4. doc \in [Torrents -> Entries \cup {None}]
    BY DEF Init
  <1>5. calls \in 0..MaxCalls /\ faults \in 0..MaxFaults
    BY FollowerAssumption DEF Init
  <1>6. /\ follows \subseteq Pubs /\ lastSync \subseteq Pubs /\ file \subseteq Pubs /\ dirty \in BOOLEAN
        /\ followMu \in Handlers \cup {None}
    BY DEF Init
  <1> QED BY <1>1, <1>2, <1>3, <1>4, <1>5, <1>6 DEF TypeOK

\* The fields of the worker, of a call and of an entry.
LEMMA Fields ==
    ASSUME TypeOK
    PROVE  /\ w.pc \in {"idle", "next", "get", "fetch", "ingest", "skip", "done"}
           /\ w.todo \in SUBSET Pubs /\ w.pub \in Pubs \cup {None} /\ w.epoch \in Nat
           /\ w.ih \in PubSnapshots \cup {None} /\ w.next \in 1..NTorrents + 1
           /\ \A c \in Handlers : h[c].snap \in SUBSET Pubs
  BY DEF TypeOK, WorkerStates, CallStates

\* What a get may return is a snapshot.
LEMMA StaleSnapshots ==
    ASSUME TypeOK, NEW p \in Pubs
    PROVE  Generation(p) \in 0..MaxGen /\ Stale(p) \subseteq PubSnapshots
  BY FollowerAssumption DEF TypeOK, Generation, Stale, PubSnapshots

\* A step of the worker keeps its locals typed.
LEMMA WorkerTypeStep ==
    ASSUME TypeOK, Named,
           Sync \/ WakeUp \/ GetStale \/ SyncFails
    PROVE  w' \in WorkerStates
  <1> USE FollowerAssumption, Fields DEF TypeOK
  <1>1. 1 \in 1..NTorrents + 1
    OBVIOUS
  <1>2. CASE WakeUp
    BY <1>2 DEF WakeUp, WorkerStates
  <1>3. CASE SweepDone
    BY <1>3, IdleTypes DEF SweepDone
  <1>4. ASSUME NEW p \in Pubs, SyncStart(p) PROVE w' \in WorkerStates
    BY <1>4 DEF SyncStart, WorkerStates
  <1>5. ASSUME NEW ih \in PubSnapshots, Got(ih) PROVE w' \in WorkerStates
    BY <1>5 DEF Got, WorkerStates
  <1>6. ASSUME NEW l \in {"skip", "done"}, SyncTo(l) PROVE w' \in WorkerStates
    BY <1>6 DEF SyncTo, WorkerStates
  <1>7. CASE GetPointer
    BY <1>5, <1>6, <1>7 DEF GetPointer, Named
  <1>8. CASE GetStale
    <2>1. Stale(w.pub) \subseteq PubSnapshots
      BY <1>8, StaleSnapshots DEF GetStale, Named
    <2> QED BY <1>5, <1>8, <2>1 DEF GetStale
  <1>9. CASE SyncFails \/ commitDedup
    BY <1>6, <1>9 DEF SyncFails, commitDedup
  <1>10. CASE CheckSnapshot
    <2>1. \A l \in {"skip", "done"} : [w EXCEPT !.pc = l] \in WorkerStates
      BY DEF WorkerStates
    <2>2. [w EXCEPT !.pc = "ingest", !.next = 1] \in WorkerStates
      BY <1>1 DEF WorkerStates
    <2> QED BY <1>10, <2>1, <2>2 DEF CheckSnapshot
  <1>11. CASE IngestTorrent
    <2>1. w.next + 1 \in 1..NTorrents + 1
      BY <1>11 DEF IngestTorrent, Torrents
    <2> QED BY <1>11, <2>1 DEF IngestTorrent, WorkerStates
  <1>12. CASE SyncDone
    BY <1>1, <1>12 DEF SyncDone, WorkerStates
  <1> QED BY <1>2, <1>3, <1>4, <1>7, <1>8, <1>9, <1>10, <1>11, <1>12 DEF Sync

\* Every step keeps the variables well typed.
LEMMA TypeStep == TypeOK /\ Named /\ [Next]_vars => TypeOK'
  <1> SUFFICES ASSUME TypeOK, Named, [Next]_vars PROVE TypeOK'
    OBVIOUS
  <1> USE FollowerAssumption DEF TypeOK, dedup, saved, api, Fault
  <1>1. CASE WakeUp \/ Sync \/ GetStale \/ SyncFails
    <2>1. w' \in WorkerStates
      BY <1>1, WorkerTypeStep
    <2>2. CASE \/ WakeUp \/ SweepDone \/ GetPointer \/ GetStale \/ SyncFails \/ CheckSnapshot
               \/ \E p \in Pubs : SyncStart(p)
      <3>1. UNCHANGED <<pointers, follows, lastSync, dedup, doc, saved, api>>
        BY <2>2, Zenon DEF WakeUp, SweepDone, GetPointer, GetStale, SyncFails, CheckSnapshot, SyncStart
      <3>2. faults' \in {faults, faults + 1} /\ (faults' = faults \/ faults < MaxFaults)
        BY <2>2 DEF WakeUp, SweepDone, GetPointer, GetStale, SyncFails, CheckSnapshot, SyncStart
      <3> QED BY <2>1, <3>1, <3>2
    <2>3. CASE IngestTorrent
      <3>1. [by |-> w.pub, from |-> w.ih] \in Entries
        BY <2>3 DEF IngestTorrent, Named, Entries
      <3>2. doc' \in [Torrents -> Entries \cup {None}]
        BY <2>3, <3>1 DEF IngestTorrent
      <3> QED BY <2>1, <2>3, <3>2 DEF IngestTorrent
    <2>4. CASE commitDedup
      <3>1. w.pub \in Pubs /\ w.ih \in PubSnapshots /\ w.ih[2] \in 0..MaxGen
        BY <2>4 DEF commitDedup, Named, PubSnapshots
      <3> QED BY <2>1, <2>4, <3>1 DEF commitDedup
    <2>5. CASE SyncDone
      BY <2>1, <2>5 DEF SyncDone
    <2> QED BY <1>1, <2>2, <2>3, <2>4, <2>5 DEF Sync
  <1>2. ASSUME NEW c \in Handlers, NEW p \in Pubs, Follow(c, p) \/ Unfollow(c, p) PROVE TypeOK'
    BY <1>2 DEF Follow, Unfollow, Call, CallStates
  <1>3. ASSUME NEW c \in Handlers, Forget(c) PROVE TypeOK'
    <2>1. [h[c] EXCEPT !.pc = "persist", !.pub = None] \in CallStates
      BY DEF CallStates
    <2>2. h' = [h EXCEPT ![c] = [h[c] EXCEPT !.pc = "persist", !.pub = None]]
      BY <1>3 DEF Forget, CallStates
    <2>3. h' \in [Handlers -> CallStates]
      BY <2>1, <2>2
    <2> QED BY <1>3, <2>3 DEF Forget, Named
  <1>4. ASSUME NEW c \in Handlers, PersistSnapshot(c) PROVE TypeOK'
    <2>1. [h[c] EXCEPT !.pc = "write", !.snap = follows] \in CallStates
      BY DEF CallStates
    <2>2. h' = [h EXCEPT ![c] = [h[c] EXCEPT !.pc = "write", !.snap = follows]]
      BY <1>4 DEF PersistSnapshot, CallStates
    <2> QED BY <1>4, <2>1, <2>2 DEF PersistSnapshot
  <1>5. ASSUME NEW c \in Handlers, PersistWrite(c) PROVE TypeOK'
    <2>1. h[c].snap \in SUBSET Pubs /\ h' \in [Handlers -> CallStates]
      BY <1>5, IdleTypes, Fields DEF PersistWrite
    <2>2. faults' \in 0..MaxFaults /\ file' \subseteq Pubs /\ dirty' \in BOOLEAN
      <3>1. CASE file' = h[c].snap /\ dirty' = FALSE /\ UNCHANGED faults
        BY <2>1, <3>1
      <3>2. CASE Fault /\ dirty' = TRUE /\ UNCHANGED file
        BY <3>2
      <3> QED BY <1>5, <3>1, <3>2 DEF PersistWrite
    <2> QED BY <1>5, <2>1, <2>2 DEF PersistWrite
  <1>6. ASSUME NEW p \in Pubs, Publish(p) PROVE TypeOK'
    <2>1. ASSUME NEW g \in (Generation(p) + 1)..MaxGen PROVE <<p, g>> \in PubSnapshots
      BY StaleSnapshots DEF PubSnapshots
    <2> QED BY <1>6, <2>1 DEF Publish
  <1>7. ASSUME NEW p \in Pubs, NEW q \in Pubs, PointElsewhere(p, q) PROVE TypeOK'
    BY <1>7 DEF PointElsewhere
  <1>8. ASSUME NEW t \in Torrents, IndexLocally(t) PROVE TypeOK'
    <2>1. [by |-> Local, from |-> None] \in Entries
      BY DEF Entries
    <2> QED BY <1>8, <2>1 DEF IndexLocally
  <1>9. CASE Crash
    <2>1. w' \in WorkerStates /\ h' \in [Handlers -> CallStates]
      BY <1>9, IdleTypes DEF Crash
    <2>2. imported' \in [Pubs -> 0..MaxGen] /\ epoch' \in [Pubs -> Nat]
      BY <1>9 DEF Crash
    <2>3. lastIH' \in [Pubs -> PubSnapshots \cup {None}]
      BY <1>9 DEF Crash
    <2>4. /\ follows' \subseteq Pubs /\ lastSync' \subseteq Pubs
          /\ followMu' \in Handlers \cup {None} /\ faults' \in 0..MaxFaults
          /\ UNCHANGED <<pointers, doc, file, calls>>
      BY <1>9 DEF Crash
    <2>5. dirty' \in BOOLEAN
      BY <1>9 DEF Crash
    <2> QED BY <2>1, <2>2, <2>3, <2>4, <2>5
  <1>10. CASE UNCHANGED vars
    BY <1>10 DEF vars
  <1> QED BY <1>1, <1>2, <1>3, <1>4, <1>5, <1>6, <1>7, <1>8, <1>9, <1>10 DEF Next, Handle

-----------------------------------------------------------------------------
(* What is imported. *)

LEMMA InitImport == Init => ImportInv
  <1> SUFFICES ASSUME Init PROVE ImportInv
    OBVIOUS
  <1>1. Named /\ WorkerHolds /\ Passed /\ ResultsOfFollowed
    BY DEF Init, Named, WorkerHolds, Passed, ResultsOfFollowed, IdleWorker, IdleCall
  <1>2. AuthoredByFollowed /\ DedupMeansImported
    BY DEF Init, AuthoredByFollowed, DedupMeansImported
  <1> QED BY <1>1, <1>2 DEF ImportInv

\* Up to the import the worker moves only its locals.
LEMMA LookStep ==
    ASSUME TypeOK, ImportInv,
           WakeUp \/ SweepDone \/ (\E p \in Pubs : SyncStart(p)) \/ GetPointer \/ GetStale
           \/ SyncFails \/ CheckSnapshot \/ SyncDone
    PROVE  ImportInv'
  <1> USE FollowerAssumption, Fields DEF ImportInv
  <1>1. UNCHANGED <<follows, imported, lastIH, epoch, doc, h>>
    BY Zenon DEF WakeUp, SweepDone, SyncStart, GetPointer, GetStale, SyncFails, CheckSnapshot, SyncDone,
                 dedup, api
  <1>2. (AuthoredByFollowed /\ DedupMeansImported)'
    BY <1>1 DEF AuthoredByFollowed, DedupMeansImported
  <1>3. ResultsOfFollowed'
    BY <1>1 DEF ResultsOfFollowed, WakeUp, SweepDone, SyncStart, GetPointer, GetStale, SyncFails,
                CheckSnapshot, SyncDone
  <1>4. (Named /\ WorkerHolds /\ Passed)'
    <2> USE <1>1 DEF Named, WorkerHolds, Passed
    <2>1. CASE WakeUp \/ SweepDone \/ SyncDone
      <3>1. CASE WakeUp
        <4>1. w'.pc = "next"
          BY <3>1 DEF WakeUp, TypeOK, WorkerStates
        <4> QED BY <4>1
      <3>2. CASE SweepDone
        <4>1. w'.pc = "idle"
          BY <3>2 DEF SweepDone, IdleWorker
        <4> QED BY <4>1
      <3>3. CASE SyncDone
        <4>1. w'.pc = "next"
          BY <3>3 DEF SyncDone, TypeOK, WorkerStates
        <4> QED BY <4>1
      <3> QED BY <2>1, <3>1, <3>2, <3>3
    <2>2. ASSUME NEW p \in Pubs, SyncStart(p) PROVE (Named /\ WorkerHolds /\ Passed)'
      <3>1. w'.pc = "get" /\ w'.pub = p /\ w'.epoch = epoch[p] /\ epoch[p] \in Nat
        BY <2>2 DEF SyncStart, TypeOK, WorkerStates
      <3> QED BY <3>1
    <2> USE DEF TypeOK, WorkerStates
    <2>3. CASE GetPointer
      <3>1. /\ w.pc = "get" /\ w'.pub = w.pub /\ w'.epoch = w.epoch
            /\ w'.pc = "done" \/ (w'.pc = "fetch" /\ w'.ih \in PubSnapshots)
        BY <2>3 DEF GetPointer, Got, SyncTo
      <3> QED BY <3>1
    <2>4. CASE GetStale
      <3>1. Stale(w.pub) \subseteq PubSnapshots
        BY <2>4, StaleSnapshots DEF GetStale
      <3> QED BY <2>4, <3>1 DEF GetStale, Got
    <2>5. CASE SyncFails
      BY <2>5 DEF SyncFails, SyncTo
    <2>6. CASE CheckSnapshot
      <3>1. w.ih[2] \in 1..MaxGen /\ imported[w.pub] \in 0..MaxGen
        BY <2>6 DEF CheckSnapshot, PubSnapshots
      <3>2. Named' /\ WorkerHolds'
        BY <2>6, <3>1 DEF CheckSnapshot
      <3>3. Passed'
        BY <2>6 DEF CheckSnapshot, Torrents
      <3> QED BY <3>2, <3>3
    <2> QED BY <2>1, <2>2, <2>3, <2>4, <2>5, <2>6
  <1> QED BY <1>2, <1>3, <1>4

\* One torrent is imported: the entry is the publisher's own, and as new as what the dedup knows.
LEMMA IngestStep ==
    ASSUME TypeOK, ImportInv, IngestTorrent
    PROVE  ImportInv'
  <1> DEFINE t == w.next  p == w.pub  e == [by |-> p, from |-> w.ih]
  <1> USE FollowerAssumption, Fields DEF ImportInv
  <1>1. /\ w.pc = "ingest" /\ t \in Torrents /\ p \in Pubs /\ w.ih \in PubSnapshots
        /\ w.ih[1] = p /\ w.ih[2] >= imported[p] /\ e \in Entries /\ e # None
    BY DEF IngestTorrent, Named, WorkerHolds, Entries
  <1>2. /\ w' = [w EXCEPT !.next = @ + 1]
        /\ UNCHANGED <<follows, lastSync, imported, lastIH, epoch, h>>
        /\ doc' = IF MayWrite(t, p) THEN [doc EXCEPT ![t] = e] ELSE doc
    BY DEF IngestTorrent, dedup, api
  <1>3. /\ doc'[t] # None
        /\ doc'[t] = e \/ (doc'[t] = doc[t] /\ doc[t].by # p)
        /\ \A u \in Torrents \ {t} : doc'[u] = doc[u]
    BY <1>1, <1>2 DEF MayWrite, TypeOK
  <1>4. ResultsOfFollowed'
    BY <1>2 DEF ResultsOfFollowed
  <1>5. Named' /\ WorkerHolds'
    BY <1>1, <1>2 DEF Named, WorkerHolds, TypeOK, WorkerStates
  <1>6. AuthoredByFollowed'
    BY <1>1, <1>3 DEF AuthoredByFollowed
  <1>7. DedupMeansImported'
    <2> SUFFICES ASSUME NEW q \in Pubs, imported[q] # 0, lastIH[q] = <<q, imported[q]>>, NEW u \in Torrents
                 PROVE  doc'[u] # None /\ (doc'[u].by = q => doc'[u].from[2] >= imported[q])
      BY <1>2 DEF DedupMeansImported
    <2>1. doc[u] # None /\ (doc[u].by = q => doc[u].from[2] >= imported[q])
      BY DEF DedupMeansImported
    <2>2. CASE u = t
      BY <1>1, <1>3, <2>1, <2>2
    <2>3. CASE u # t
      BY <1>3, <2>1, <2>3
    <2> QED BY <2>2, <2>3
  <1>8. Passed'
    <2> SUFFICES ASSUME NEW u \in Torrents, u < t + 1
                 PROVE  doc'[u] # None /\ (doc'[u].by = p => doc'[u].from[2] >= w.ih[2])
      BY <1>2 DEF Passed, TypeOK, WorkerStates
    <2>1. CASE u = t
      BY <1>1, <1>3, <2>1 DEF PubSnapshots
    <2>2. CASE u # t
      <3>1. u < t
        BY <1>1, <2>2 DEF Torrents
      <3> QED BY <1>1, <1>3, <2>2, <3>1 DEF Passed
    <2> QED BY <2>1, <2>2
  <1> QED BY <1>4, <1>5, <1>6, <1>7, <1>8

\* commitDedup remembers what is in the index, unless a Forget came in between.
LEMMA CommitStep ==
    ASSUME TypeOK, ImportInv, commitDedup
    PROVE  ImportInv'
  <1> DEFINE p == w.pub
  <1> USE FollowerAssumption, Fields DEF ImportInv
  <1>1. /\ w.pc \in {"skip", "ingest"} /\ p \in Pubs /\ w.ih \in PubSnapshots /\ w.ih[1] = p
        /\ w.ih[2] \in 1..MaxGen /\ w.ih = <<p, w.ih[2]>>
    BY DEF commitDedup, Named, WorkerHolds, PubSnapshots
  <1>2. w' = [w EXCEPT !.pc = "done"] /\ UNCHANGED <<follows, lastSync, epoch, doc, h>>
    BY DEF commitDedup, SyncTo, api
  <1>3. Named' /\ WorkerHolds' /\ Passed'
    <2>1. w'.pc = "done" /\ w'.pub = p /\ w'.epoch = w.epoch
      BY <1>2 DEF TypeOK, WorkerStates
    <2> QED BY <1>1, <1>2, <2>1 DEF Named, WorkerHolds, Passed
  <1>4. AuthoredByFollowed' /\ ResultsOfFollowed'
    BY <1>2 DEF AuthoredByFollowed, ResultsOfFollowed
  <1>5. DedupMeansImported'
    <2>1. CASE epoch[p] # w.epoch
      BY <1>2, <2>1 DEF commitDedup, DedupMeansImported
    <2>2. CASE epoch[p] = w.epoch /\ w.pc = "skip"
      <3>1. w.ih[2] < imported[p]
        BY <1>1, <2>2 DEF WorkerHolds, TypeOK
      <3>2. imported' = imported /\ lastIH' = [lastIH EXCEPT ![p] = w.ih]
        BY <2>2 DEF commitDedup
      <3>3. w.ih # <<p, imported[p]>>
        BY <1>1, <3>1 DEF TypeOK
      <3> QED BY <1>2, <3>2, <3>3 DEF DedupMeansImported, TypeOK
    <2>3. CASE epoch[p] = w.epoch /\ w.pc = "ingest"
      <3>1. imported' = [imported EXCEPT ![p] = w.ih[2]] /\ lastIH' = [lastIH EXCEPT ![p] = w.ih]
        BY <2>3 DEF commitDedup
      <3>2. \A t \in Torrents : t < w.next
        BY <2>3 DEF commitDedup, Torrents
      <3>3. \A t \in Torrents : doc[t] # None /\ (doc[t].by = p => doc[t].from[2] >= w.ih[2])
        BY <2>3, <3>2 DEF Passed
      <3> QED BY <1>1, <1>2, <3>1, <3>3 DEF DedupMeansImported, TypeOK
    <2> QED BY <1>1, <2>1, <2>2, <2>3
  <1> QED BY <1>3, <1>4, <1>5

\* The API moves the epoch when it forgets; the publishers and the node's own torrents leave what
\* the worker holds alone; a restart forgets it.
LEMMA OthersStep ==
    ASSUME TypeOK, ImportInv,
           \/ \E c \in Handlers : Handle(c) \/ \E p \in Pubs : Follow(c, p) \/ Unfollow(c, p)
           \/ \E p \in Pubs : Publish(p) \/ \E q \in Pubs : PointElsewhere(p, q)
           \/ \E t \in Torrents : IndexLocally(t)
           \/ Crash
    PROVE  ImportInv'
  <1> USE FollowerAssumption, Fields DEF ImportInv
  <1>1. ASSUME UNCHANGED <<w, imported, lastIH, epoch, doc>>, Named', ResultsOfFollowed'
        PROVE  ImportInv'
    BY <1>1 DEF Named, WorkerHolds, Passed, AuthoredByFollowed, DedupMeansImported
  <1>2. ASSUME NEW c \in Handlers, NEW p \in Pubs, Follow(c, p) \/ Unfollow(c, p) PROVE ImportInv'
    <2>1. UNCHANGED <<w, imported, lastIH, epoch, doc>>
      BY <1>2 DEF Follow, Unfollow, dedup
    <2>2. ResultsOfFollowed'
      BY <1>2 DEF Follow, Unfollow, ResultsOfFollowed
    <2>3. Named'
      BY <1>2, <2>1 DEF Follow, Unfollow, Call, Named, TypeOK
    <2> QED BY <1>1, <2>1, <2>2, <2>3
  <1>3. ASSUME NEW c \in Handlers, PersistSnapshot(c) \/ PersistWrite(c) PROVE ImportInv'
    <2>1. UNCHANGED <<w, imported, lastIH, epoch, doc, follows, lastSync>>
      BY <1>3 DEF PersistSnapshot, PersistWrite, dedup
    <2>2. h'[c].pc # "forget" /\ \A d \in Handlers \ {c} : h'[d] = h[d]
      BY <1>3 DEF PersistSnapshot, PersistWrite, IdleCall, TypeOK, CallStates
    <2> QED BY <1>1, <2>1, <2>2 DEF Named, ResultsOfFollowed
  <1>4. ASSUME NEW c \in Handlers, Forget(c) PROVE ImportInv'
    <2> DEFINE q == h[c].pub
    <2>1. /\ q \in Pubs /\ UNCHANGED <<w, doc, follows, lastSync>>
          /\ imported' = [imported EXCEPT ![q] = 0] /\ lastIH' = [lastIH EXCEPT ![q] = None]
          /\ epoch' = [epoch EXCEPT ![q] = @ + 1]
      BY <1>4 DEF Forget, Named
    <2>2. h'[c].pc # "forget" /\ \A d \in Handlers \ {c} : h'[d] = h[d]
      BY <1>4 DEF Forget, TypeOK, CallStates
    <2>3. Named'
      BY <2>1, <2>2 DEF Named
    <2>4. WorkerHolds'
      BY <2>1 DEF Named, WorkerHolds, TypeOK, PubSnapshots
    <2>5. Passed' /\ AuthoredByFollowed' /\ ResultsOfFollowed'
      BY <2>1 DEF Passed, AuthoredByFollowed, ResultsOfFollowed
    <2>6. DedupMeansImported'
      BY <2>1 DEF DedupMeansImported, TypeOK
    <2> QED BY <2>3, <2>4, <2>5, <2>6
  <1>5. ASSUME NEW p \in Pubs, NEW q \in Pubs, Publish(p) \/ PointElsewhere(p, q) PROVE ImportInv'
    <2>1. UNCHANGED <<w, imported, lastIH, epoch, doc, follows, lastSync, h>>
      BY <1>5 DEF Publish, PointElsewhere, dedup, api
    <2> QED BY <1>1, <2>1 DEF Named, ResultsOfFollowed
  <1>6. ASSUME NEW t \in Torrents, IndexLocally(t) PROVE ImportInv'
    <2>1. UNCHANGED <<w, imported, lastIH, epoch, follows, lastSync, h>>
      BY <1>6 DEF IndexLocally, dedup, api
    <2>2. /\ doc[t] = None /\ doc'[t].by = Local
          /\ \A u \in Torrents \ {t} : doc'[u] = doc[u]
      BY <1>6 DEF IndexLocally, TypeOK
    <2>3. Named' /\ WorkerHolds' /\ ResultsOfFollowed'
      BY <2>1 DEF Named, WorkerHolds, ResultsOfFollowed
    <2>4. Passed' /\ AuthoredByFollowed' /\ DedupMeansImported'
      BY <2>1, <2>2 DEF Passed, AuthoredByFollowed, DedupMeansImported
    <2> QED BY <2>3, <2>4
  <1>7. CASE Crash
    <2>1. w'.pc = "idle" /\ lastSync' = {} /\ doc' = doc /\ \A c \in Handlers : h'[c].pc = "idle"
      BY <1>7 DEF Crash, IdleWorker, IdleCall
    <2>2. \A p \in Pubs : imported'[p] = 0
      BY <1>7 DEF Crash
    <2>3. Named' /\ WorkerHolds' /\ Passed' /\ ResultsOfFollowed'
      BY <2>1 DEF Named, WorkerHolds, Passed, ResultsOfFollowed
    <2>4. AuthoredByFollowed' /\ DedupMeansImported'
      BY <2>1, <2>2 DEF AuthoredByFollowed, DedupMeansImported
    <2> QED BY <2>3, <2>4
  <1> QED BY <1>2, <1>3, <1>4, <1>5, <1>6, <1>7 DEF Handle

LEMMA ImportStep == TypeOK /\ ImportInv /\ [Next]_vars => ImportInv'
  <1> SUFFICES ASSUME TypeOK, ImportInv, [Next]_vars PROVE ImportInv'
    OBVIOUS
  <1>1. CASE UNCHANGED vars
    <2>1. UNCHANGED <<follows, lastSync, imported, lastIH, epoch, w, doc, h>>
      BY <1>1 DEF vars, dedup, api
    <2> QED BY <2>1 DEF ImportInv, Named, WorkerHolds, Passed, AuthoredByFollowed, DedupMeansImported,
                        ResultsOfFollowed
  <1> QED BY <1>1, LookStep, IngestStep, CommitStep, OthersStep DEF Next, Sync

\* Every step of a sync keeps what the follower holds sound: entries come from their publisher's own
\* snapshots, the dedup skips only what is in the index, results are of followed publishers.
THEOREM FollowerSound == Spec => []ImportsSound
  <1>1. Init => TypeOK /\ ImportInv
    BY InitType, InitImport
  <1>2. TypeOK /\ ImportInv /\ [Next]_vars => TypeOK' /\ ImportInv'
    BY TypeStep, ImportStep DEF ImportInv
  <1>3. TypeOK /\ ImportInv => ImportsSound
    BY DEF ImportInv, ImportsSound
  <1> QED BY <1>1, <1>2, <1>3, PTL DEF Spec

-----------------------------------------------------------------------------
(* Imports only advance. *)

\* Only an import and the node itself write entries: into its own entry, or a free one.
LEMMA HijackStep ==
    ASSUME TypeOK, ImportInv, [Next]_vars, NEW t \in Torrents, doc[t] # None
    PROVE  doc'[t].by = doc[t].by
  <1>1. CASE IngestTorrent
    <2>1. w.next \in Torrents /\ w.pub \in Pubs
      BY <1>1 DEF IngestTorrent, ImportInv, Named
    <2> QED BY <1>1, <2>1 DEF IngestTorrent, MayWrite, TypeOK
  <1>2. ASSUME NEW u \in Torrents, IndexLocally(u) PROVE doc'[t].by = doc[t].by
    BY <1>2 DEF IndexLocally, TypeOK
  <1>3. CASE UNCHANGED doc
    BY <1>3
  <1>4. \/ IngestTorrent \/ UNCHANGED doc \/ \E u \in Torrents : IndexLocally(u)
    BY Zenon DEF Next, Sync, Handle, WakeUp, SweepDone, SyncStart, GetPointer, GetStale, SyncFails,
           CheckSnapshot, commitDedup, SyncDone, Forget, PersistSnapshot, PersistWrite, Follow, Unfollow,
           Publish, PointElsewhere, Crash, vars
  <1> QED BY <1>1, <1>2, <1>3, <1>4

\* Only commitDedup and Forget write what is imported.
LEMMA RollbackStep ==
    ASSUME TypeOK, ImportInv, [Next]_vars, ~Crash, NEW p \in Pubs, epoch'[p] = epoch[p]
    PROVE  imported'[p] >= imported[p]
  <1> USE DEF TypeOK
  <1>1. CASE commitDedup
    <2>1. CASE UNCHANGED imported
      BY <2>1
    <2>2. CASE w.pc = "ingest" /\ imported' = [imported EXCEPT ![w.pub] = w.ih[2]]
      <3>1. w.ih[2] >= imported[w.pub]
        BY <2>2 DEF ImportInv, WorkerHolds
      <3> QED BY <2>2, <3>1
    <2> QED BY <1>1, <2>1, <2>2 DEF commitDedup
  <1>2. ASSUME NEW c \in Handlers, Forget(c) PROVE imported'[p] >= imported[p]
    <2>1. h[c].pub \in Pubs /\ epoch' = [epoch EXCEPT ![h[c].pub] = @ + 1]
      BY <1>2 DEF Forget, ImportInv, Named
    <2>2. p # h[c].pub
      BY <2>1
    <2> QED BY <1>2, <2>2 DEF Forget
  <1>3. CASE UNCHANGED imported
    BY <1>3
  <1>4. \/ commitDedup \/ UNCHANGED imported \/ \E c \in Handlers : Forget(c)
    BY Zenon DEF Next, Sync, Handle, WakeUp, SweepDone, SyncStart, GetPointer, GetStale, SyncFails,
           CheckSnapshot, IngestTorrent, SyncDone, PersistSnapshot, PersistWrite, Follow, Unfollow,
           Publish, PointElsewhere, IndexLocally, vars, dedup
  <1> QED BY <1>1, <1>2, <1>3, <1>4

\* No step changes whom an entry is attributed to, or takes the GeneratedAt of a publisher that is
\* not forgotten back, short of a restart.
THEOREM FollowerAdvances == Spec => ImportsOnlyAdvance
  <1>1. Init => TypeOK /\ ImportInv
    BY InitType, InitImport
  <1>2. TypeOK /\ ImportInv /\ [Next]_vars => TypeOK' /\ ImportInv'
    BY TypeStep, ImportStep DEF ImportInv
  <1>3. TypeOK /\ ImportInv /\ [Next]_vars
            => [\A t \in Torrents : doc[t] # None => doc'[t].by = doc[t].by]_vars
    BY HijackStep
  <1>4. TypeOK /\ ImportInv /\ [Next]_vars
            => [Crash \/ \A p \in Pubs : epoch'[p] = epoch[p] => imported'[p] >= imported[p]]_vars
    BY RollbackStep
  <1> QED BY <1>1, <1>2, <1>3, <1>4, PTL DEF Spec, ImportsOnlyAdvance, NoHijack, NoRollback

-----------------------------------------------------------------------------
(* The follow file. *)

LEMMA InitFile == Init => FileLags
  BY FollowerAssumption DEF Init, FileLags, IdleCall

LEMMA FileStep == TypeOK /\ FileLags /\ [Next]_vars => FileLags'
  <1> SUFFICES ASSUME TypeOK, FileLags, [Next]_vars PROVE FileLags'
    OBVIOUS
  <1> USE FollowerAssumption DEF FileLags, Pending
  <1>1. CASE UNCHANGED <<h, followMu, follows, file, dirty>>
    BY <1>1
  <1>2. ASSUME NEW c \in Handlers, NEW p \in Pubs, Follow(c, p) \/ Unfollow(c, p) PROVE FileLags'
    <2>1. /\ h'[c].pc \in {"forget", "persist"} /\ h[c].pc = "idle"
          /\ \A d \in Handlers \ {c} : h'[d] = h[d]
      BY <1>2 DEF Follow, Unfollow, Call, TypeOK
    <2>2. followMu' = followMu
      BY <1>2 DEF Follow, Unfollow
    <2> QED BY <2>1, <2>2
  <1>3. ASSUME NEW c \in Handlers, Forget(c) PROVE FileLags'
    <2>1. /\ h'[c].pc = "persist" /\ h[c].pc = "forget" /\ followMu' = followMu
          /\ \A d \in Handlers \ {c} : h'[d] = h[d]
      BY <1>3 DEF Forget, TypeOK, CallStates
    <2> QED BY <2>1
  <1>4. ASSUME NEW c \in Handlers, PersistSnapshot(c) PROVE FileLags'
    <2>1. /\ h'[c].pc = "write" /\ h'[c].snap = follows /\ followMu = None /\ followMu' = c
          /\ follows' = follows /\ \A d \in Handlers \ {c} : h'[d] = h[d]
      BY <1>4 DEF PersistSnapshot, TypeOK, CallStates
    <2> QED BY <2>1
  <1>5. ASSUME NEW c \in Handlers, PersistWrite(c) PROVE FileLags'
    <2>1. /\ h'[c].pc = "idle" /\ h[c].pc = "write" /\ followMu = c /\ followMu' = None
          /\ follows' = follows /\ \A d \in Handlers \ {c} : h'[d] = h[d]
      BY <1>5 DEF PersistWrite, IdleCall, TypeOK
    <2>2. (file' = h[c].snap /\ dirty' = FALSE) \/ dirty' = TRUE
      BY <1>5, Zenon DEF PersistWrite
    <2> QED BY <2>1, <2>2
  <1>6. CASE Crash
    <2>1. followMu' = None /\ follows' = file' /\ \A c \in Handlers : h'[c].pc = "idle"
      BY <1>6 DEF Crash, IdleCall
    <2> QED BY <2>1
  <1>7. \/ UNCHANGED <<h, followMu, follows, file, dirty>> \/ Crash
        \/ \E c \in Handlers : Handle(c) \/ \E p \in Pubs : Follow(c, p) \/ Unfollow(c, p)
    BY Zenon DEF Next, Sync, WakeUp, SweepDone, SyncStart, GetPointer, GetStale, SyncFails, CheckSnapshot,
           IngestTorrent, commitDedup, SyncDone, Publish, PointElsewhere, IndexLocally, vars, saved, api
  <1> QED BY <1>1, <1>2, <1>3, <1>4, <1>5, <1>6, <1>7 DEF Handle

\* Once the handlers are done, the follow file holds the follow set, unless its last write failed.
THEOREM FollowFileFollows == Spec => []FollowsSaved
  <1>1. Init => TypeOK /\ ImportInv /\ FileLags
    BY InitType, InitImport, InitFile
  <1>2. TypeOK /\ ImportInv /\ FileLags /\ [Next]_vars => TypeOK' /\ ImportInv' /\ FileLags'
    BY TypeStep, ImportStep, FileStep DEF ImportInv
  <1>3. TypeOK /\ FileLags => FollowsSaved
    BY DEF TypeOK, FileLags, Pending, FollowsSaved
  <1> QED BY <1>1, <1>2, <1>3, PTL DEF Spec
=============================================================================
