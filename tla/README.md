# A TLA+ model of SwartzNet

SwartzNet is a BitTorrent node with distributed search. This directory models the
parts of it where goroutines, peers, failing disks and restarts meet, checks them
with TLC on small instances, and proves the central invariants with TLAPS for every
value of the constants. Paths below are relative to the repository's root.

## 1. The system

| Component | State | Operations | Hard behaviour |
|---|---|---|---|
| Download queue (`internal/engine/queue.go`, `handle.go`, `files.go`) | cap, per handle: paused, queued, queue order; the client's allow/deny gate | queueOrActivate, promoteQueued, activateDownload, pause, resume, remove, move, file priorities, SetMaxActiveDownloads; autoDownload and watchCompletion goroutines | count-then-act over several locks; promotion passes spawned on their own goroutine |
| Torrent set and session (`internal/engine/session.go`, `add.go`, `restore.go`) | `e.handles`, session rows, `session.json`, `.torrent` copies | add (file, magnet, signed), duplicate adds, remove, pause and resume, upgradeMagnetSession, RestoreSession | e.mu and s.mu are never held together: every handler is several critical sections; ENOSPC; crashes |
| Sync registry (`internal/swarmsearch/sync_dispatch.go`, `sync_start.go`) | (peer, txid) → session, the symbol pumps | sync_begin, need, end, reap, StartSync, CloseSync, OnPeerClosed | inbound frames run on concurrent goroutines, against a disconnect and a reconnect |
| Sync exchange (`internal/swarmsearch/sync_session.go`) | phase, decoder position, pending batches, records on both sides | symbols, converge, need, records, end | frames reordered and dropped; early convergence; budgets |
| Companion publisher (`internal/companion/publisher.go`, `build.go`, `torrent.go`) | last fingerprint, last timestamp, last seeded infohash; the BEP-46 pointer | RefreshNow, the ticker, refreshOnce, Stop | each step may fail; the clock may step back; restart |
| Companion follower (`internal/companion/subscriber.go`, `worker.go`, `internal/daemon/companion.go`) | follow set and file, dedup maps, Forget epochs, index entries | sweep, Sync, Forget, Follow, Unfollow, persistFollows | a Sync takes minutes while API handlers follow and unfollow; stale DHT answers |
| DHT keyword publishing (`internal/dhtindex/manifest.go`, `publisher.go`, `legacy_keyword.go`) | manifest of keyword → hits, publication times | Submit, Retract, refresh tick, Save | retraction against a running sweep; bounded queue |
| Aggregate index (`internal/dhtindex/aggregate.go`, `composite.go`, `internal/engine/aggregate_dist.go`, `companion.go`, `contracts/snagg`) | records, tree and its generation, the seeded torrent, the pointer; fetch reference counts | Publish, Retract, Refresh, seed, put; lookup: get, fetch, verify, find, merge | Refresh distributes off-lock; fetchers share a torrent and a file name; page boundaries |
| DHT lookup, reputation, trust (`internal/dhtindex/lookup.go`, `internal/reputation`, `internal/trust`, `internal/engine/reputation.go`) | indexers, scores, attributions, Bloom filter, trust list, their files | Query, NotePublisherSeen, ConfirmHit, FlagHit, Checkpoint, load | every store has its own lock; failed loads and saves; restarts |
| Admission (`internal/admission`) | admitted publishers, endorsements, anchors | AdmitAnchor, IngestEndorsement, CandidateFromCrawl | reads scores that change meanwhile |
| Swarm search (`internal/swarmsearch/protocol.go`, `handler.go`, `query.go`, `misbehavior.go`, `ratelimit.go`) | peers and capabilities, pending queries, scores, bans, buckets | Query, inbound query, result and reject, announcements, disconnect | late and duplicate answers, timeouts, bans, frames handled after the connection is gone |
| Local index and pipeline (`internal/indexer`, `internal/engine/tracker.go`, `index.go`) | piece and file events, submitted marks, documents | IndexTorrent, IndexContent, Submit, rescan, SetTorrentIndexing, ForgetIndex | extraction timeouts; dropped events; removal during extraction |
| Daemon (`internal/daemon/daemon.go`, New and Close of the engine) | parts that run, background jobs | New, goBG, Close | start and shutdown order, joins |
| Shells: `internal/httpapi`, `internal/gui`, `cmd`, `config`; data formats: the other `contracts/*`, `internal/identity`, `internal/signing`, `internal/companion/serialize.go`, most extractors | — | — | out of scope (section 8) |

How they interact: HTTP, GUI and CLI calls run on their own goroutines and enter the
engine, the follower and the registry concurrently; these are the `Threads`, `Pool`
and `Handlers` of the models. The engine calls the torrent client (anacrolix), which
answers through channels (metadata, completion). A companion publisher and its
followers meet only in the DHT pointer and in the torrent it names: `CompanionFeed`
is the contract between `CompanionPublisher` and `CompanionFollower`. Two nodes meet
in a sync session: `SyncExchange` has both ends, `SyncRegistry` one node's table of
sessions. `AggregateIndex` has a publishing and a reading node and is built on
`SnaggTree`; `Admission` extends `Reputation`, whose scores it reads; `IndexPipeline`
extends `TextChunker`, whose chunks its worker writes. `DaemonLifecycle` has all parts
as names: what runs, what is told to stop, what is busy.

What makes each part correct is stated in the properties below; what can go wrong in
each, line by line, is the hazard list in `PROJECT.json`.

## 2. Modules

| Module | Models | Run | Proved in |
|---|---|---|---|
| `DownloadQueue` | the download queue | `queue` | `DownloadQueueProofs` |
| `TorrentSession` | the torrent set and its persistence | `session` | `TorrentSessionProofs` |
| `SessionPlays` | its racing and its orderly play | `session` | `TorrentSessionProofs` |
| `SyncRegistry` | one peer's sync sessions on one node | `sync_registry` | `SyncProofs` |
| `SyncExchange` | one sync session, both ends and the connection | `sync_exchange` | `SyncProofs` |
| `CompanionFeed` | what a companion publisher promises (abstract) | a property of `companion_publish` | `CompanionProofs` |
| `CompanionPublisher` | the publisher's worker | `companion_publish` | `CompanionProofs` |
| `CompanionFollower` | the follower's worker, its dedup state, the follow file | `companion_follow` | `CompanionProofs` |
| `KeywordPublisher` | the keyword publisher's worker, its legacy backend and manifest | `keyword_publish` | `LayerDProofs` |
| `SwarmSearch` | queries, answers, peers, bans and rate limits of one node | `swarm_search` | `SwarmSearchProofs` |
| `Reputation` | DHT lookup, scores, Bloom filter, attribution, trust, confirm and flag | `reputation` | `LayerDProofs` |
| `Admission` | publisher admission, over `Reputation` | `reputation` | `LayerDProofs` |
| `TextChunker` | chunkText, with the reference `FaithfulChunks` | `index_pipeline` | — |
| `IndexPipeline` | file tracking, extraction, documents | `index_pipeline` | `IndexProofs` |
| `SnaggTree` | the aggregate tree: build, open, walk, verify, with the reference `FindsAll` | `aggregate` | — |
| `AggregateIndex` | publishing, distributing, fetching and looking up trees | `aggregate` | `IndexProofs` |
| `DaemonLifecycle` | New and Close of the node | `lifecycle` | `DaemonLifecycleProofs` |

`MC*.tla` name the model values, `MC*.cfg` are the instances. Definitions marked
"Mutant" are wrong variants of the definition they precede; no specification uses them.
They record which bug each property would notice. Components that belong together share a
proof module; where two of them would have the same name for their specification, one has a
longer name (`PublisherSpec`, `RegistrySpec`, `KeywordSpec`, `AggregateSpec`).

A handler that releases a lock between two steps is two actions; whatever it does
under one lock is one action. A program counter per goroutine says where it is. Where a
component has several interesting kinds of behaviour whose product is too large, the
constant `Plays` (`Profiles`, `Budgets`) is a set of budgets and a behaviour follows one
of them from its initial state on.

### DownloadQueue
`g` holds the goroutines: autoDownload and watchCompletion of each torrent, and a
`Pool` of user calls and spawned promotion passes. `mu` is `promoteMu`. The labels
follow queueOrActivate (`QoaCheck`, `QoaLock`, `countActive`, `Enqueue`,
`EnqueueGate`), promoteQueued (`PromoteLock` … `PromoteTally`) and activateDownload
(`ActivateCheck`, `ActivateAllow`, `ActivateFlip`). `allowed` is the client's gate,
`wanted` the file priorities, `ops` what the users may still do, and `ops.woken` that a
torrent was resumed or given files (section 6 says why that matters). A restored handle
takes the next queue order, where the code gives it the persisted one; the moves reach the
other orders. The scan of the orders in QueueMoveToFront/Back is one step.
Writing the flags to the session is in `TorrentSession`.

### TorrentSession
A handle is an infohash and a generation, so that a removed handle and the one that
replaces it are different. `rows` and `disk` are the session in memory and on disk;
a save succeeds or leaves the file alone (`IoFails`). `th` are the handlers and `upg`
the upgradeMagnetSession goroutines. `CrashAndRestore` drops everything in memory and
rebuilds it by restoreEntry's rules. `SessionPlays` restricts it to two plays: handlers
and a failing disk race over unsigned torrents, or handlers come one at a time, over
torrents that may be signed, and the disk is sound. The orderly play has no magnets: the
upgrade of one may overwrite a signed copy (section 6).

### SyncRegistry and SyncExchange
`SyncRegistry` has one peer, the handlers that process its frames and the goroutine
that closes it. A pump either runs or is over. The txids of the two directions are
disjoint (`RemoteTx`, `LocalTx`): their collision is known and deferred in
`DECISIONS.md` (T3-8). `SyncExchange` abstracts the RIBLT decoder to the length `full`
of the prefix that decodes the difference; a shorter prefix may look converged
(`LooksConverged`) and then yields any subset. At the real constants 2000 symbols are
20 batches, fewer than the 32 that may be pending, so the desync abort is reached only
at the model's small bounds.

### CompanionFeed, CompanionPublisher, CompanionFollower
A snapshot stands for its payload, hence for its infohash. In the publisher it is
[content, gen], in the follower <<author, gen>>, since by the feed's promise a later
GeneratedAt is all a follower can rely on. `CompanionPublisher` has one action per step
of refreshOnce that can fail or be observed. A put that failed may have reached some
node all the same. RefreshNow's throttle and trigger only move the next build in time
and are an arbitrary wake-up. `payload` is the one file that every companion torrent of
the publisher serves in place; WriteCompanionFiles overwrites it before the put, so a
refresh that fails later leaves the advertised torrent registered without its bytes
(section 6). The clock steps either way at any time and a restart comes at any step;
`lastGeneratedAt` is in memory only, and `behind` is history: the first stamp of this
process was not past the pointer. `CompanionFeed` excuses that one snapshot and no
other. `CompanionFollower` has the worker `w`, the
handlers `h`, the publishers as environment, a pointer to somebody else's snapshot
("swap"), entries the node indexed itself ("local"), and a budget `MaxFaults` of stale
gets, failed steps and restarts.

### KeywordPublisher
`autoIndex` and `publishTorrent` are a torrent's submission, `RemoveTorrent` …
`RemoveDone` its removal, with `Retract` on the caller's goroutine. `w` is the worker:
`handleTask` or `Refresh` starts a job, and `AddHit` or `NextKeyword`, `publishOne`,
`Put` and `MarkPublished` are the locked steps for each of its keywords, in any order.
A hit is its infohash and `HitCap` of them fit a value: the byte count, the shortening
of a single long name and the counters shown in the status are left out. `fresh` is
"LastPublished is less than MinPutInterval ago". `item` is the value a get finds; it
expires when its keyword is not announced any more, or by bad luck (`Lapse`). A removal
is one at a time for each torrent.

### SwarmSearch
`query[tx]` is a Query call with its pendingQuery: it registers, sends to each target
(a send may fail), collects from its channel until as many answers came as were sent or
the deadline fired, merges, and unregisters after the grace window. Inbound frames wait
in `net` until their goroutine starts and in `work` between the ban check and the
handler, so a frame may be handled after its connection is gone. Honest peers run
`Answer`, the model of handleQuery's replying side, and ask what Query lets them ask, a
query of one letter included; the others send any of `Foreign` and `Noise`. Sync frames
pass the same ban check and rate limit and go to `handleSyncFrame`, which may charge their
sender, honest or not, for instance when the frame overtakes the announcement it depends
on; what it does with the session is in `SyncRegistry`. The ban list keeps the score, the
reason of the last charge, and the end of the ban; time is `BanExpires` and `Refill`. `BelowBurst` keeps an honest peer's queries and sync openings
within its bucket.
Byte layouts are left out; which frames decode (`Decodes`, `PeekMsgType`) is kept.
Announced service bits, the announce worker and the status counters are left out.

### Reputation and Admission
Each store has a lock of its own and each locked section is one step: `Workers` are the
goroutines of confirms, flags, completions and the checkpoint ticker, `Searchers` those
of Lookup.Query, from the choice of the indexers (`QueryBegin`) through their answers in
any order to the merge and the recording of attributions. Scores are integers in
thousandths with the code's formula and clamp; a seed's boost decays by half-lives
(`SeedsAge`). The Bloom filter has its two hashes and odd stride over `BloomM` bits.
`Restart` loses the memory and may fail to load any of the three files. `promised` is
history: infohashes whose confirm, completion or trusted auto-confirm returned with the
filter saved; `claims` which indexer returned which infohash. `Admission` adds the two
locked sections of its engine and reads the scores as they are at the second; nothing of
its state is persisted.

### TextChunker and IndexPipeline
A text is a sequence over "x" and "n". `chunkText` and its helpers are translated as
recursive functions; `FaithfulChunks` is the reference: chunks are non-empty, in order,
at their offsets, within the size limit, and nothing but newlines is left out between
them. Carriage returns, which nextParagraph skips like newlines, are left out.
`IndexPipeline` has one torrent: `tracker` (fileTracker.run: subscription, seeding from
the piece states, piece events), the `ingest` goroutine of each handle, the `rescan`,
the pipeline's `worker`, extractions the watchdog abandoned (`late`), autoIndex and the
user's calls, one after another. The torrent library changes pieces in both directions.
A rescan pass visits the files one by one; the progress counters are left out.

### SnaggTree and AggregateIndex
`SnaggTree` is pure: keys as byte sequences, packing by page size, interior levels, the
layout of pages by piece, separators, the prefix walk and the fingerprint over the
leaves. `FindsAll` says what a tree must answer. `AggregateIndex` has the publishing
node P and the reading node R. A rebuild makes new bytes each time, so a tree is its
records and its generation. `job` is the worker's Refresh with the recheck of the
generation, `look` are the lookups (legacy answer, pointer, fetch with `refs`, verify,
merge). P looks up its own key, which it answers without a fetch, and the key of another
publisher whose pointer names P's own tree: the release of that fetch drops P's seed
(`torn`; section 6). Every tree of a publisher has the same file name,
which `disk` and `have` keep apart from what a pointer names. A finished download
replaces the file in one step. SeedMetaInfo and the drop of the previous seed are one step.
Records are told apart by keyword and infohash: their time stamps, by which a record that
is published again gets a second element id, are left out.

### DaemonLifecycle
`stage` goes through New, with its failures and the parts the configuration leaves
out; `close` through Daemon.Close and Engine.Close, which are one sequence. Workers are
busy and told to stop; Close joins the ones the code joins. The rescan, the pruning and
the announcer (`Unjoined`) are only told: the rescan works on the pipeline and the
client's torrents, the announcer on the client's connections. autoIndex of a restored
torrent may run between any two stages, and after Close; it writes a document only if the
session had the torrent's indexing on (`writes`), and the write may fail. HTTP handlers are
not modelled, and neither are rounds of the pruning, which use no part.

## 3. Runs

All runs pass; each property has a mutant in `PROJECT.json` that breaks it, and a
property that is a conjunction has one for most of its parts.

| Run | Properties |
|---|---|
| `queue` | `CapRespected`: at rest no more torrents download than the cap allows, and a queued torrent is gated in the client. `NoStrandedDownload`: at rest no torrent waits beside a free slot. `QueueDrains`: waiting beside a free slot ends. |
| `session` | `NoResurrection`, `PausePersisted`, `SavedMeansDurable` with two racing handlers, magnet upgrades, failing writes and crashes; `OrderlySessionWhole`: with one handler at a time and no magnets, rows, copies, handles and signatures agree at every point where a crash may come. |
| `sync_registry` | `PumpsAccounted`: no pump runs that nobody can stop (`PumpReachable`), and the per-peer cap holds (`CapHolds`). `ClosedPeerForgotten`. |
| `sync_exchange` | `HonestSession`: the decoder is fed in order, one sync_need is sent, nobody honest is charged. `Reconciled`: both sides end with the union. `Finalizes`. |
| `companion_publish` | `SeedsDoNotAccumulate`; `AdvertisedKeptSeeded`: what is advertised stays seeded, and only a later refresh, under way or failed, overwrites its payload; the refinement `ImplementsFeed`. |
| `companion_follow` | `ImportsSound`: authored by the followed publisher, complete where the dedup skips, results only of followed publishers. `ImportsOnlyAdvance`: no hijacked attribution, no rollback. `FollowsSaved`. `CatchesUp`. |
| `keyword_publish` | `ManifestSound`: no item is empty or lists a torrent twice, and what is announced is what a restart will announce. `Converges`: the DHT comes to hold what the manifest holds. |
| `swarm_search` | `HonestUncharged`: an honest peer is charged for no answer and no rate, only for one-letter queries and by the sync dispatcher (section 6). `QueryAccounted` (every answer counts once, no query waits for nobody, the merge is the sum per torrent up to cap and limit), `NoZombies`, `BanHolds`. |
| `reputation` | `ConfirmedDurable`: a saved confirm survives failed saves, failed loads and restarts. `DocksOnlyClaimers`: flags never reach a trusted key or one that returned nothing, also when the trust list could not be loaded. `LookupSound`: gossip does not displace the operator's indexers, repetition does not make consensus. `RootedAdmission`: no crowd of fresh keys admits itself. |
| `index_pipeline` | `NoMissedFile`, `DocumentsRight` (content of the right file; the document of an indexed torrent written, or its write tried and failed), `ChunksFaithful` over every text of up to eleven characters, `QueuedEventually`. |
| `aggregate` | `AnswersRight` (every set of records of the instance packs into a tree that answers completely; a lookup answers from the committed tree only), `RefreshedIsCurrent` (a successful Refresh leaves no stale or retracted tree advertised), `SeedsHeld` (R holds what its fetches wait for; P keeps the seed of its last tree, unless its own fetch through another publisher's pointer drops it), `Converges`. |
| `lifecycle` | `CloseOrderly` (nothing is closed under a worker that Close joins, the others have been told before; no worker but those is left when New failed or Close returned), `RestoredComplete` (minted, submitted and, with indexing on, its document tried), `CloseReturns`. |

The type invariants are parts of `PumpsAccounted`, `ImportsSound`, `ManifestSound`,
`QueryAccounted` and `RootedAdmission`, and are proved, as are those of `DownloadQueue`,
`TorrentSession`, `CompanionPublisher` and `DaemonLifecycle`.

### Bounds
- *Queue*: two torrents and cap 1 is the least with competition for a slot. One play
  frees slots (two pauses, removals, deselections), the other strains the cap (a resume,
  restore, move, raised cap or selection). With two autoDownload, two watchCompletion,
  a user call and the spawned promotion passes, five goroutines meet at the lock.
- *Session*: two handlers race on one infohash with up to `MaxGen` = 2 handles, so that
  an operation on a removed handle meets its successor. The racing play is unsigned (the
  proof covers signers); the orderly play has a signer and no magnets.
- *Registry*: four sessions, two handlers and the closer, cap 1: enough for a replaced, a
  refused and a reborn session. A behaviour follows one of two `Profiles`: everything but
  a txid begun twice, or a txid begun again with nothing that releases by txid (section 6
  says why not both).
- *Exchange*: one record per frame, so that answers are chunked. The hostile play has
  three batches, losses, duplicates and early closes; the sound one two records on each
  side and six batches with floor three.
- *Publisher*: two corpora (and the empty one), clock values 1..3, timestamps up to 5,
  so the bump past a clock that stepped back happens twice in a row. The clock and the
  restarts are not restricted; behaviours end where a timestamp would exceed the bound.
- *Follower*: two publishers, one listed torrent (they contend for it), two
  generations, two API calls, one fault.
- *Keyword publisher*: a restored torrent whose keyword is in the manifest and two that
  are added, all under one keyword, with room for two hits: evictions, partial and
  complete retractions happen. A queue of one is full at times. One fault (a failed put
  or save, a lapsed item, a restart) may come at any step.
- *Swarm search*: one honest peer and one that is not, one query, three connects, two
  unasked frames; results with a repeated torrent, a rank cap two answers exceed and a
  limit of one; a ban threshold the unasked frames reach; both peers may ask, with a query
  of one letter too, and send sync frames.
- *Reputation*: three keys (self, an anchor, a seeded one), two infohashes whose bits
  overlap, two workers and a searcher; room for one automatic indexer, one attribution
  and one admitted publisher, so that each cap evicts or refuses. Four plays: saves and
  restarts, flags around a restart, gossip and searches, admission.
- *Pipeline*: two files that share a piece, subscription and queue of one. The chunker's
  target is four bytes and the texts have up to eleven, so that a chunk may hold several
  paragraphs or several lines, a paragraph several chunks and a line a hard split. Plays: every
  text; pieces that turn bad; failing writes and toggled indexing; removal; restart.
- *Aggregate*: four keywords, among them one that is a prefix of two others, two
  infohashes, pages of eight bytes: trees of up to three levels. Plays: every record
  set; retractions with faults; two readers of two trees; P's own lookups between and
  during its refreshes.
- *Lifecycle*: one restored torrent, one job, two callers of Close; everything
  configured, no directory for the index, and the index turned off. A part that is asked
  for may fail to come up, which covers the configurations without it; the proofs are for
  every configuration.

### Fairness
`DownloadQueue` and `SyncExchange` assume only that some goroutine that can run does
run (one WF over all of them): no fairness between goroutines, none for users, peers,
metadata or completions. `QueueDrains` needs no completion: it says that a free slot is
taken. `Finalizes` is claimed for a connection that loses and repeats nothing, since the
code does not retransmit. `CatchesUp` assumes that the ticker fires, that a
Sync under way continues (its gets and fetches have timeouts) and that the scheduler
runs a handler; faults and publications are finite. `Converges` of `KeywordPublisher`
assumes that the worker goes on, that the ticker fires and that time passes (the throttle
ends, an item nobody announces expires); that of `AggregateIndex` the worker, whose
puts have timeouts, and the end of a fetch of the node itself, by the 30 seconds a search
may take (`search_adapter.go:17`). `QueuedEventually` assumes the scheduler, the watchdog's timer and
the rescan's ticker; nothing makes an extraction return. `CloseReturns` assumes that the
goroutines of New, Close and the workers run and that a worker's piece of work ends, by
its context or by a timeout of its own.

`CHECK_DEADLOCK FALSE` is where the system may come to rest: all torrents done, all
frames handled, the publisher stopped, the node closed, the bounded calls used up.

## 4. Proofs

Every theorem holds for every value of the constants that satisfies the named ASSUMEs;
each proof module says what its inductive invariant is and why it is needed. The runs
check the same properties on their instances.

`TorrentSessionProofs`, for any infohashes, handlers, signers and bounds:
- `TypeCorrect`: Spec ⇒ □TypeOK.
- `NeverResurrected`: Spec ⇒ □NoResurrection. A row exists only for an infohash that
  has a handle nobody removed, or while the removal that will delete it is under way.
  It is not inductive alone: a step must know that handles in the program counters,
  the table and the removed set have been created already, or a new handle could be
  one that was removed before. `SessionInv` adds `ThreadsBorn`, `HandlesBorn` and
  `RemovedBorn`. The argument: updateGuarded checks the handle's removed channel
  under s.mu, and markRemoved precedes the deletion of the row, so whoever writes a row
  after the mark sees it, and whoever wrote before it is followed by the deletion.
- `SavedRowsDurable`: Spec ⇒ □SavedMeansDurable.
- `PausesPersisted`: Spec ⇒ □PausePersisted. The invariant `PauseInv` also covers the
  moments in between: the row agrees with the flag, or some handler of that handle has
  the duty to persist it (`WillPersist`). It works because persistState and persistAdd
  read the flag under s.mu, and whoever flips it persists after.
- `OrderlyWholeAlways`: PlaySpec ⇒ □OrderlySessionWhole, for torrents added from files
  (the play has no magnets, section 6). The properties hold at every
  step, so the invariant says for each label how far the handler is (`Halfway`): an add
  writes the signer, the copy and then the row, a signed duplicate the handle, the copy
  and then the row, a removal takes the handle, the row and then the copy. An infohash
  nobody works on has its parts in agreement (`Agrees`), and since the disk is sound the
  file is the table, so a crash finds the same. A handle that does not exist yet has no
  signer (`Unclaimed`): without it an add could start with somebody else's.

`DownloadQueueProofs`, for any torrents, files, goroutines, caps and plays:
- `QueueStructured`: Spec ⇒ □Structure. Types, promoteMu held by exactly the goroutines
  between lock and unlock, and what each goroutine may be doing.
- `CapKept`: Spec ∧ □[CapRaised] ⇒ □CapRespected, if no play both deselects and selects
  files (`NoReselect`; section 6 has the case without). SetMaxActiveDownloads promotes but
  stops no torrent, so after a lowered cap the excess goes on: hence `CapRaised`, and the
  run raises the cap. A count under promoteMu reads flags that others write without it.
  What saves it: a torrent that became active without promoteMu has a queueOrActivate of
  its own still to run (`Undecided`); all others (`Settled`) are added to by the holder
  of promoteMu only, and its counter covers those it has passed (`Counted`). `Gated`: a
  waiting torrent that the client may download has a goroutine about to gate or activate
  it.
- `NothingStranded`: Spec ⇒ □NoStrandedDownload. Whatever frees a slot leaves a promotion
  pass to be run (`PassDue`). While none is due, what a pass has counted still occupies a
  slot (`SlotsCounted`), a torrent that waits is ahead of the pass under way
  (`AheadOfPass`), and between passes nobody waits or the slots are taken (`SlotsTaken`).
  The count must include torrents whose autoDownload is about to take a slot
  (`Starting`), or the slot of a torrent added during the pass would look free.

`CompanionProofs`, the publisher, for any corpora and clock:
- `NoSeedLeak`, `AdvertisedSeeded`: PublisherSpec ⇒ □SeedsDoNotAccumulate and
  □AdvertisedKeptSeeded, through `PublisherInv`. `PublisherHolds` says what the worker
  holds at each label, that outside the seeding steps only the advertised snapshot is
  seeded, and whose the payload file is: the worker's from the write on, and otherwise the
  advertised snapshot's unless the last refresh failed.
- `PublisherImplementsFeed`: PublisherSpec ⇒ ImplementsFeed. Initial states map to initial
  states and every step is a `Publish`, a `Start` or leaves the feed alone. It rests on
  `StampsLead`: unless this process started behind the pointer and has not replaced it,
  the pointer is never ahead of the last stamp, and when it is level with it, the content
  is the same, so a repeated put is a stutter.

`CompanionProofs`, the follower, for any publishers, handlers, torrents and generations:
- `FollowerSound`: Spec ⇒ □ImportsSound, and `FollowerAdvances`: Spec ⇒
  ImportsOnlyAdvance. A Sync reads the dedup maps, works for minutes and writes them
  back. `WorkerHolds` says that what it read is still so unless the Forget epoch moved,
  which commitDedup checks, and `Passed` that the torrents behind its cursor are in the
  index.
- `FollowFileFollows`: Spec ⇒ □FollowsSaved. `FileLags`: one handler at most writes the
  file, and what it writes is the follow set unless another handler has yet to read it.

`SyncProofs`, the registry, for any handlers, txids, sessions and cap:
- `CapAlways`: RegistrySpec ⇒ □CapHolds, whatever the peer does.
- `PumpsAlwaysAccounted`, `PeerForgotten`: RegistrySpec ⇒ □PumpsAccounted and
  □ClosedPeerForgotten, under the hypothesis `TxIDsOwned`: a peer that begins a txid
  twice does not release it by name. Both configured profiles satisfy it; without it the
  code loses a session (section 6). `Reach`: a pump that runs or may still be spawned is
  registered, stopped or about to be stopped. A release by name is harmless because its
  txid stands for one session (`Owned`) that will not pump any more (`Releases`).

`SyncProofs`, the exchange, for any record sets, budgets, floors, chunk sizes, numbers of
workers and batches, with and without loss, repetition and early close:
- `SessionHonest`: Spec ⇒ □HonestSession. `Typed` says that every batch in flight or
  buffered is a batch of the one stream, `InPhase` that no frame is in flight to a side
  which would find it premature. With at most MaxPending + 1 batches the buffer then
  cannot overflow (`NoOverflow`, a count over the stream's positions), and `Top` always
  finds the end of the run (`TopFacts`), so `applied` grows by exactly what follows.
- `SessionReconciles`: Spec ⇒ □Reconciled. `Decided`: the initiator decides on a prefix
  that holds the difference if any does. `Flow`: a record that was asked for or pushed
  is in flight or has arrived. It rests on `ChunkCover`: sendRecordsChunked puts every
  record into one of its frames, for every chunk size.

`SwarmSearchProofs`, for any peers, queries, connections, thresholds and bursts:
- `NoZombiesEver`, `BansHold`: Spec ⇒ □NoZombies and Spec ⇒ BanHolds.
- `HonestNeverCharged`: Spec ⇒ □HonestUncharged, under `HonestShareContent` (honest
  peers share content hits; section 6 has the case without). An honest peer is one that
  runs this code, answers within the grace window and keeps its queries and sync openings
  below the burst; it is charged for one-letter queries and by the sync dispatcher alone.
  `HonestInv` ties each frame of an honest peer, on its way or in a handler, to a pending
  query that asked this peer, and its queries and openings to the tokens that pay for them.
- `AnswersCountedOnce`: Spec ⇒ □(TypeOK ∧ AnswersAccounted ∧ WaitsForSomebody), all of
  `QueryAccounted` but `MergedRight`. `CountedIn`: count and channel together hold one
  answer per responder, and fewer than the query waits for have been received.

`LayerDProofs`, for the composition of `Reputation` and `Admission`, any keys,
infohashes, hashes, goroutines, searches and bounds. Each has its own invariant:
- `ConfirmsDurable`: Spec ⇒ □ConfirmedDurable. `Durable`: the filter in memory always
  includes the file, also after a failed load, and a promise is in both.
- `DocksClaimers`: Spec ⇒ □DocksOnlyClaimers. `DocksSound`: attributions at rest, in a
  search and in a flag under way name only indexers that answered.
- `LookupsSound`: Spec ⇒ □LookupSound. `SearchesSound`: the sources of an infohash are
  pairwise different, asked, and returned it.
- `AdmissionRooted`: Spec ⇒ □RootedAdmission. `AdmittedSound`: the roots a decision was
  taken on stay, because counters only grow, so a score that falls later does not matter.

`LayerDProofs`, the keyword publisher, for any torrents, keywords, item and queue sizes:
- `ManifestAlwaysSound`: KeywordSpec ⇒ □ManifestSound. An item is what a snapshot was, the
  snapshot what the manifest was, and the manifest after a restart what the file was;
  `Sound` says that none of them has an empty list or a torrent twice, what the worker
  holds at each label, and that the file lags only while a save is to come or has failed.

`IndexProofs`, the pipeline, for any files, pieces, spans, texts and channel sizes:
- `FilesNeverMissed`: Spec ⇒ □NoMissedFile. The tracker subscribes before it reads the
  piece states, so what it has seen of a piece it has read is so, or an event about the
  piece is in its queue (`ReadIsKnown`), and the last event about a piece is right
  (`LastIsRight`), although pieces go bad as well. A file all of whose pieces it has seen
  is dispatched (`SeenDispatched`), once (`DispatchedOnce`).
- `DocumentsAlwaysRight`: Spec ⇒ □DocumentsRight. The worker writes what it extracted from
  the file it holds (`WritesOwn`), since the result of an abandoned extraction has nowhere
  to go. The torrent document is there, its write has failed (the code logs that and does
  not try again), or somebody is still to write it (`DocOrWriter`);
  for that, a call that forgets a torrent must be known to work on one that is gone
  (`GoneWhileForgetting`), and an autoIndex before the metadata to wait for it.

`IndexProofs`, the aggregate index, for any records, lookups and number of trees, through
`AggregateInv`:
- `SeedsAlwaysHeld`: AggregateSpec ⇒ □SeedsHeld. A generation identifies a tree
  (`GenIsTree`), among the current tree, the one being distributed, the advertised one and
  those being looked up. A reference count is then the number of fetchers that wait for
  its torrent (`FetchInv`), so the last to leave drops it and no other does. P resolves
  its own key without a fetch; what drops its seed before the next is seeded is its fetch of
  another publisher's pointer that names the tree, and the invariant follows the seed
  through that (`torn`).
- `RefreshAlwaysCurrent`: AggregateSpec ⇒ □RefreshedIsCurrent. Refresh distributes without
  the lock. `JobInv`: at the recheck the pointer is the tree it distributed, or there is
  none, and it ends only when the generation is still the current one.

`DaemonLifecycleProofs`, for any restored torrents, jobs, configurations and callers of Close:
- `ClosesInOrder`: Spec ⇒ □CloseOrderly. `Rank` is the order of Close; past the point
  that joins a part it is down (`Joined`), and what a running worker uses is closed at a
  later point than the worker (`Supported`). The rescan and the announcer are not joined;
  they are told before the pipeline or the client goes (`RescanTold`, `Joined`).
- `RestoresWired`: Spec ⇒ □RestoredComplete. `AutoInv` says which of the steps of autoIndex
  are behind a torrent; none is before New restores, when all parts are wired.

Assumptions are the named ASSUMEs, each evaluated in a run: bounds are positive, sets
of torrents, files, peers, keys, txids, lookups and records are finite, pieces are
numbered from 1, "none" values differ from the values they stand beside
(`HandlesAssumption`, `WorkersAssumption`, `JobsAssumption`, `Nobody` and the `Pool` of
the queue), answers and local results are sequences of hits (`HashesAssumption`,
`ResultsAssumption`), and the manifest a node starts with is one that an earlier run of it
can have saved (`ListedAssumption`).

What the proofs changed in the model:
- `WaitsForSomebody` is stronger (a query that waits with an empty channel waits for a peer
  it was sent to that has not responded; the earlier form allowed a second case that never
  happens).
- An honest peer's queries count both those on their way and those in a handler against
  its burst (`PeerAsks`): `HonestUncharged` was not inductive with the first alone.
- `RefreshedIsCurrent` is a property of its own. It was a conjunct beside
  `AnswersAreCommitted`, which depends on what the tree's recursion computes.
- The plays of `TorrentSession` are in a module of their own, to be proved about, and the
  saved manifest of `KeywordPublisher` is a constant with an assumption.
- Some definitions were put in a form the provers can use: what RemoveAllHits leaves
  (`WithoutHit`) and the order of completed files (`InFileOrder`) are said by positions,
  chunkText and the tree by recursive functions.

Only model-checked:
- liveness (`QueueDrains`, `Finalizes`, `CatchesUp`, both `Converges`,
  `QueuedEventually`, `CloseReturns`), which the prover does not handle;
- `MergedRight`, the part of `QueryAccounted` about what the sums and the sorting of
  mergeResponses return; `AnswersRight`, about what the packing, the walk and the
  fingerprint of a tree compute; and `ChunksFaithful`, about what chunkText computes. They
  compare a recursion over data with a reference, and induction over data is out of reach.

## 5. Where the code and its comments disagree

Two of these a user can meet:

- A resumed torrent queues itself beside the slot it freed. ResumeTorrent clears `paused`
  before queueOrActivate counts, and a handle that was active before its pause has
  `queued` clear, so it is among the active it counts (`queue.go:75`; `queue.go:119-121`
  "promotes queued torrents FIFO by queue order while slots are free", `SPEC.md:116`).
  SetFilePriority that raises a file of an unwanted torrent does the same. To reproduce:
  drop `~ops.woken` from `NoStrandedDownload`, with "pause" and "resume" in one play.
- A removed torrent's keywords may stay in the DHT for ever. RemoveTorrent retracts on the
  caller's goroutine; a task still in the queue, or submitted by an autoIndex past its
  wait, adds the hits after that, and handleTask does not look whether the torrent is
  still there (`publisher.go:136`; `engine.go:541-542` "so the publisher stops
  re-announcing stale keywords on the next refresh tick"; `SPEC.md:250`). To reproduce:
  `RetractedGone` as an invariant of `MCKeywordPublish.cfg`.

## 6. Other statements that do not hold

Each can be reproduced by checking the definition named, or by the change given.

*Engine*
- `CapRespected` with a "select" after a "deselect" of the same torrent: SetFilePriority
  raises a file of a torrent whose files were all None without consulting the cap
  (`files.go:99`; `SPEC.md:113`).
- A paused torrent may download: activateDownload checks isPaused, then allows the
  download; a pause in between comes first (`queue.go:104-109`; `SPEC.md:116`).
- `ManagedHasRow`, `RowHasCopy` in the racing play of `MCSession.cfg`: RemoveTorrent
  deletes handle, row and copy in three critical sections by infohash; a re-add between
  them loses its row or its copy (`session.go:151-162`).
- `StoredBytesBackSignature`, `SignerAgrees` with two threads and signers: the first
  add writes its copy and attribution after the handle became visible to a signed
  duplicate (`add.go:132-138`; comment at `add.go:148`, `handle.go:55`).
- `FileRowKeepsBytes` with two threads and kinds file and magnet: a magnet removed and
  re-added as a file while upgradeMagnetSession is about to write gets the re-marshalled
  bytes (`add.go:386-399`; comment at `add.go:349`).
- `StoredBytesBackSignature`, `RowHasCopy`, `SignerAgrees` in the orderly play with
  magnets (`NoMagnets` dropped): upgradeMagnetSession checks row and signature
  (`add.go:373-385`), a signed duplicate of the magnet completes, and writeTorrentCopy
  (`add.go:392`) then overwrites the signed copy with re-marshalled bytes, against
  `add.go:148-149`. No two user calls overlap in it, only a user call and the upgrade.
- A failed write of a torrent document is logged and never tried again before the next
  start or toggle of its indexing (`engine/index.go:122-125`): an indexed torrent without a
  document. `DocWhenIndexing` and `RestoredComplete` count the attempt.
- `DockedOnce` in `MCReputation.cfg` with `AlwaysTrusted` = {}: two concurrent flags of one infohash both read the
  attribution before either forgets it, and dock twice (`reputation.go:160-163`: "so a
  second flag can't double-dock").
- `ForgottenGone` of `IndexPipeline`: an extraction under way when the torrent is removed
  and forgotten writes its content afterwards (`engine/index.go:271-273`). A file left in
  `submitted` by it is skipped by the rescan of a re-added torrent, so the stale entry is
  not harmless (`pipeline.go:44-45`), and the rescan and a file event may both submit one
  file.

*Daemon*
- "Strict reverse startup order" (`daemon.go:321`): the engine is closed before the index,
  which is opened before the engine's restore and after the engine's start. The order the
  code has is the one `CloseOrderly` needs.
- The goroutines of autoIndex, the rescan, the prune loop and the announcer, and HTTP
  handlers that outlast the three seconds of Shutdown, are not joined. indexRescanOnce
  looks at the engine's context only between passes, so the pipeline and the client are
  closed under one that is under way (`engine/index.go:239-269`), as the client is under an
  announcement (`protocol.go:99-102`, `241-251`); an autoIndex past its wait may run after
  Close has returned. goBG has no caller in production
  code; the model has one all the same.

*Sync and swarm search*
- `PumpReachable` in `MCSyncRegistry.cfg` with `"rebegin"` in the first profile: a release
  by (address, txid), after the txid was begun again, releases the new session
  (`sync_dispatch.go:243`).
- `SafeClose` of `SyncExchange`: Finalized is true before the request is sent; a
  caller that closes then loses the answer (`sync_session.go:286-292`).
- `LiveHasEntry` of `SwarmSearch` with `MaxConns` = 2: peers are keyed by address, so the
  end of one of two connections of an address deletes the entry of the other
  (`handler.go:234-236`: "Every LIVE connection already has an entry").
- `HonestUncharged` with `HonestSharing` that contains `Share(FALSE)` and a local result of
  content matches only: the total is counted before hitsToWire withholds the hits, so an
  honest peer that does not share content sends a total without hits, which the asker
  charges as malformed (`handler.go:113`, `query.go:242`). A search for one letter is
  refused by the answering side as too broad and charged (`handler.go:96-97`), while the
  asking side refuses the empty query only (`query.go:122`, `httpapi/search.go:30`): an
  honest user's search is charged by every peer it reaches. A sync frame handled before the
  announcement that carries its sender's reconciliation bit, or after OnPeerClosed deleted
  the sender's entry, is charged too (`sync_dispatch.go:151-156`, `173-175`), although frames
  are handled on concurrent goroutines. A reply later
  than the grace window is charged as stale, as is documented.
- A peer that was asked but whose send failed and that answers all the same ends the
  collection early (`query.go:69-71` says a peer cannot); a peer banned while supported is
  still asked; a frame handled after OnPeerClosed re-creates the bucket or the ban entry of
  its address. All three are in the model; the properties are stated so that they allow
  them.

*Companion, keywords, aggregate*
- `UnfollowedForgotten` in `MCCompanionFollower.cfg`: runOnce works through a copy of the
  follow set, and Sync reads the Forget epoch when it starts. An Unfollow while an earlier
  publisher of the sweep is synced is not noticed: the snapshot is imported and the dedup
  state comes back for a publisher nobody follows (`worker.go:138`; comments at
  `subscriber.go:107-109`, `worker.go:60`).
- `SubmittedListed` in `MCKeywordPublish.cfg`: a full queue drops the task before it
  reached the manifest, and nothing submits the torrent again before a restart
  (`publisher.go:126`; `SPEC.md:246`). A node that restores more torrents than the queue
  holds (64) meets it at every start.
- `AdvertisedServed` in `MCCompanionPublisher.cfg`: the payload file has one name for every
  snapshot of a publisher (`types.go:22`), and WriteCompanionFiles overwrites it
  (`torrent.go:30-31`) before the put; until a later refresh succeeds, the torrent the
  pointer names is seeded without its bytes (`publisher.go:255-274` keeps its seed).
- `NeverBehind` in `MCCompanionPublisher.cfg`: GeneratedAt is to be strictly monotonic, but
  `lastGeneratedAt` starts at zero in every process (`publisher.go:223-230`). After a restart
  with a clock that stepped back, the first snapshot is older than the advertised one, and
  followers that imported that one reject it as a rollback.
- A lookup of another publisher whose pointer names this node's own tree fetches it and, on
  release, drops the node's own seed (`aggregate_dist.go:120-133` guards the node's own key
  only; `engine/companion.go:105-125` spares user torrents, not companion handles,
  `205-215`). The next refresh seeds it again. `AdvertisedStaysSeeded` follows it in `torn`.
- PublishTree drops the previous tree's seed before PutPPMI (`aggregate_dist.go:85-91`);
  between the two, and until the next refresh if the put fails, the pointer names a torrent
  P does not serve. The companion publisher keeps the advertised one. `Converges` holds
  because the next refresh mends it.
- The aggregate's records are in memory only: after a restart they come back with the
  restored torrents' autoIndex. A record signed again has a new time stamp and so another
  element id, which sync does not recognise as the same.

*Admission*
- An anchor first admitted by the crawl is not in the anchor set afterwards and so is
  neither seeded nor exempt from the cap (`admission/engine.go:61-64`, `119-122`). The
  ingest methods have no caller in production code yet.

## 7. Plan

Done: the modules of section 2 and the proofs of section 4; every invariant the runs
check is proved but for the parts that compare a recursion with a reference. Next, if they
come to interact with more than one caller: the record cache, the content of announcements
and the search multiplexer.

## 8. Not modelled, and why

- Parsing, encoding, formats and cryptography (most contracts and extractors, serialize,
  identity, signing): data without interleavings.
- HTTP, GUI, command line and configuration: shells around the components. Their
  concurrency is in the models as concurrent callers.
- The torrent client, the DHT and the search library: external, modelled by how the code
  uses them (metadata arrives, a torrent completes, a put fails or half succeeds, a get
  is stale, an item expires).
- The DHT sampler and crawler: network input without local invariants; what they bring
  in is a candidate of `Admission`.
- The swarm record cache, a bounded map behind one mutex; torrent creation, rate limits
  and read-only snapshots of the engine; the search multiplexer, which has no state.
- In the companion: a node that follows its own key; a follow file that does not load
  (the node then starts without follows, and the next call overwrites the file); a snapshot with GeneratedAt zero,
  which the publisher never writes and the rollback check lets pass. The XOR fingerprint ignores the order of the documents while
  the payload keeps it: a reordered corpus is a new infohash with the same timestamp,
  which followers accept.
