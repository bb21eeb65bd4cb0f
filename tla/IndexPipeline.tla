------------------------------ MODULE IndexPipeline ------------------------------
(***************************************************************************)
(* From finished pieces to searchable text, for one torrent: the file      *)
(* tracker (internal/engine/tracker.go), the goroutines that feed finished *)
(* files to the extraction pipeline (internal/engine/index.go), its worker *)
(* with the extraction watchdog (internal/indexer/pipeline.go) and the     *)
(* documents of the index (internal/indexer).                              *)
(*                                                                         *)
(* The piece states come from the torrent library in any order.  Pieces    *)
(* may turn bad again, events are dropped on full channels, extractors     *)
(* fail or hang, index writes fail, the torrent is removed, forgotten and  *)
(* added again, and the process restarts, with or without its old index.   *)
(* Every add makes a new handle, whose goroutines outlive the handle only  *)
(* while they are busy.  The progress counters are left out, and the calls *)
(* of the user come one after another.                                     *)
(***************************************************************************)
EXTENDS TextChunker, FiniteSets

CONSTANTS
    Files,          \* 1..n
    Pieces,         \* 1..m
    Span,           \* the pieces of each file, none for a zero-length file
    Extractable,    \* the files Dispatch finds an extractor for
    SubBuf,         \* fileTrackerSubBuf, 64 in the code
    InputCap,       \* capacity of Pipeline.input, 64 in the code
    MaxGen,         \* bound on the handles of a behaviour
    Plays           \* the bounds of a run: [infos, flips, fails,
                    \* toggles, removes, restarts], the texts of the files and the pieces on disk at the start

ASSUME FilesAssumption ==
    /\ Files \subseteq Nat \ {0} /\ IsFiniteSet(Files)
    /\ IsFiniteSet(Pieces) /\ Pieces = 1 .. Cardinality(Pieces)
    /\ \A f \in Files : Span[f] \subseteq Pieces
ASSUME CapAssumption == {SubBuf, InputCap, MaxGen} \subseteq Nat \ {0}

Gens == 1 .. MaxGen

VARIABLES
    pieceOK,    \* what the torrent library says of each piece
    handle,     \* [gen, present]: the newest handle, and whether e.handles still holds it
    info,       \* per handle, whether its metadata is known
    indexing,   \* per handle, Handle.indexing
    tracker,    \* the fileTracker of the newest handle: [pc, at, queue, seen, done, replay]
    ingest,     \* per handle, the goroutine of ingestFileEvents: [pc, file, events]
    auto,       \* per handle, the goroutine of autoIndex
    rescan,     \* the goroutine of runIndexRescan: [pc, file]
    input,      \* Pipeline.input
    submitted,  \* Pipeline.submitted
    worker,     \* the goroutine of Pipeline.run: [pc, file, from, chunk]
    late,       \* the files whose extraction was abandoned and still runs
    content,    \* the content documents: [file, chunk, from]
    torrentDoc, \* the torrent document: "none", "written", or "failed" (every write so far failed)
    api,        \* the next step of the user's call
    text,       \* what extraction finds in the files
    left        \* what the bounds leave
vars == <<pieceOK, handle, info, indexing, tracker, ingest, auto, rescan, input, submitted,
          worker, late, content, torrentDoc, api, text, left>>

torrentVars == <<pieceOK, handle, info, indexing>>
pipeVars == <<input, submitted, worker, late, content>>

Spend(b) == left[b] > 0 /\ left' = [left EXCEPT ![b] = @ - 1]
Complete(ok, f) == \A p \in Span[f] : ok[p]
Live(g) == handle.present /\ handle.gen = g

-----------------------------------------------------------------------------
(* The file tracker. *)

freshTracker == [pc |-> "wait", at |-> 1, queue |-> <<>>, seen |-> [p \in Pieces |-> FALSE],
                 done |-> {}, replay |-> <<>>]

\* Mutant: the tracker subscribes after it has read the piece states.
SubscribedAfterSeed(t) == t.pc = "run"

\* SubscribePieceStateChanges comes before the piece states are read.
Subscribed(t) == t.pc \in {"seed", "run"}

\* The torrent library verifies a piece, or finds it bad, and tells the subscriber.
PieceChanges(p) ==
    LET ok == ~pieceOK[p]
    IN  /\ Spend("flips")
        /\ handle.present /\ info[handle.gen]
        /\ pieceOK' = [pieceOK EXCEPT ![p] = ok]
        /\ tracker' = IF Subscribed(tracker) THEN [tracker EXCEPT !.queue = Append(@, [piece |-> p, ok |-> ok])]
                      ELSE tracker
        /\ UNCHANGED <<handle, info, indexing, ingest, auto, rescan, pipeVars, torrentDoc, api, text>>

GotInfo ==
    /\ handle.present /\ ~info[handle.gen]
    /\ Spend("infos")
    /\ info' = [info EXCEPT ![handle.gen] = TRUE]
    /\ UNCHANGED <<pieceOK, handle, indexing, tracker, ingest, auto, rescan, pipeVars, torrentDoc, api, text>>

\* dispatch: into the replay buffer and to the subscriber, whose full channel drops the event.
Fit(q, fs) == SubSeq(q \o fs, 1, IF Len(q \o fs) <= SubBuf THEN Len(q \o fs) ELSE SubBuf)
InFileOrder(fs) == {s \in [1 .. Cardinality(fs) -> fs] : \A i, j \in DOMAIN s : i < j => s[i] < s[j]}
dispatch(t, fs) ==
    \E s \in InFileOrder(fs) :
        /\ tracker' = [t EXCEPT !.done = @ \cup fs, !.replay = @ \o s]
        /\ ingest' = IF ingest[handle.gen].pc \in {"start", "off"} THEN ingest
                     ELSE [ingest EXCEPT ![handle.gen].events = Fit(@, s)]

TrackerStarts ==
    /\ handle.present /\ tracker.pc = "wait" /\ info[handle.gen]
    /\ tracker' = [tracker EXCEPT !.pc = "seed"]
    /\ UNCHANGED <<torrentVars, ingest, auto, rescan, pipeVars, torrentDoc, api, text, left>>

SeedPiece ==
    /\ handle.present /\ tracker.pc = "seed" /\ tracker.at \in Pieces
    /\ tracker' = [tracker EXCEPT !.seen[tracker.at] = pieceOK[tracker.at], !.at = @ + 1]
    /\ UNCHANGED <<torrentVars, ingest, auto, rescan, pipeVars, torrentDoc, api, text, left>>

SeedFiles ==
    /\ handle.present /\ tracker.pc = "seed" /\ tracker.at \notin Pieces
    /\ dispatch([tracker EXCEPT !.pc = "run"], {f \in Files : Complete(tracker.seen, f)})
    /\ UNCHANGED <<torrentVars, auto, rescan, pipeVars, torrentDoc, api, text, left>>

PieceEvent ==
    /\ handle.present /\ tracker.pc = "run" /\ tracker.queue # <<>>
    /\ LET ev == Head(tracker.queue)
           t == [tracker EXCEPT !.queue = Tail(@), !.seen[ev.piece] = ev.ok]
           hit == {f \in Files \ t.done : ev.piece \in Span[f]}
       IN  IF tracker.seen[ev.piece] = ev.ok THEN tracker' = t /\ UNCHANGED ingest
           ELSE dispatch(t, {f \in hit : Complete(t.seen, f)})
    /\ UNCHANGED <<torrentVars, auto, rescan, pipeVars, torrentDoc, api, text, left>>

-----------------------------------------------------------------------------
(* The goroutines that feed the pipeline.  A Submit is two steps, the send *)
(* and the entry in the submitted set.                                     *)

\* SubscribeFileEvents: the replay goes into the new channel first; a closed tracker gives a
\* closed channel, which ends the goroutine.
IngestSubscribes(g) ==
    /\ ingest[g].pc = "start"
    /\ ingest' = [ingest EXCEPT ![g] = IF Live(g)
                     THEN [@ EXCEPT !.pc = "loop", !.events = Fit(<<>>, tracker.replay)]
                     ELSE [@ EXCEPT !.pc = "off"]]
    /\ UNCHANGED <<torrentVars, tracker, auto, rescan, pipeVars, torrentDoc, api, text, left>>

\* What a closed channel still holds may be taken before the removal is noticed.
IngestTakes(g) ==
    /\ ingest[g].pc = "loop" /\ ingest[g].events # <<>>
    /\ ingest' = [ingest EXCEPT ![g] =
           [pc |-> IF indexing[g] THEN "send" ELSE "loop",
            file |-> IF indexing[g] THEN Head(@.events) ELSE 0, events |-> Tail(@.events)]]
    /\ UNCHANGED <<torrentVars, tracker, auto, rescan, pipeVars, torrentDoc, api, text, left>>

IngestStops(g) ==
    /\ ingest[g].pc = "loop" /\ ~Live(g)
    /\ ingest' = [ingest EXCEPT ![g] = [pc |-> "off", file |-> 0, events |-> <<>>]]
    /\ UNCHANGED <<torrentVars, tracker, auto, rescan, pipeVars, torrentDoc, api, text, left>>

Submit(f) == Len(input) < InputCap /\ input' = Append(input, f)

\* Mutant: the rescan trusts the tracker and resubmits only what was never dispatched.
RescanWantsUndispatched(f) == Span[f] # {} /\ Complete(pieceOK, f) /\ f \notin tracker.done

RescanWants(f) == Span[f] # {} /\ Complete(pieceOK, f) /\ f \notin submitted

IngestSends(g) ==
    /\ ingest[g].pc = "send"
    /\ Submit(ingest[g].file)
    /\ ingest' = [ingest EXCEPT ![g].pc = "mark"]
    /\ UNCHANGED <<torrentVars, tracker, auto, rescan, submitted, worker, late, content, torrentDoc, api, text, left>>

IngestMarks(g) ==
    /\ ingest[g].pc = "mark"
    /\ submitted' = submitted \cup {ingest[g].file}
    /\ ingest' = [ingest EXCEPT ![g].pc = "loop", ![g].file = 0]
    /\ UNCHANGED <<torrentVars, tracker, auto, rescan, input, worker, late, content, torrentDoc, api, text, left>>

\* The pass over the files from f on, up to the first one it resubmits.
RescanFrom(f) ==
    LET wanted == {i \in Files : i >= f /\ RescanWants(i)}
    IN  IF wanted = {} THEN [pc |-> "idle", file |-> 0]
        ELSE [pc |-> "send", file |-> CHOOSE i \in wanted : \A j \in wanted : i <= j]

RescanTick ==
    /\ rescan.pc = "idle"
    /\ handle.present /\ indexing[handle.gen] /\ info[handle.gen]
    /\ rescan' = RescanFrom(1)
    /\ UNCHANGED <<torrentVars, tracker, ingest, auto, pipeVars, torrentDoc, api, text, left>>

RescanSends ==
    /\ rescan.pc = "send"
    /\ Submit(rescan.file)
    /\ rescan' = [rescan EXCEPT !.pc = "mark"]
    /\ UNCHANGED <<torrentVars, tracker, ingest, auto, submitted, worker, late, content, torrentDoc, api, text, left>>

RescanMarks ==
    /\ rescan.pc = "mark"
    /\ submitted' = submitted \cup {rescan.file}
    /\ rescan' = RescanFrom(rescan.file + 1)
    /\ UNCHANGED <<torrentVars, tracker, ingest, auto, input, worker, late, content, torrentDoc, api, text, left>>

-----------------------------------------------------------------------------
(* The worker of the pipeline. *)

idleWorker == [pc |-> "idle", file |-> 0, from |-> 0, chunk |-> 0]
Chunks == Len(chunkText(text))

\* handle: a file no extractor claims is skipped.
WorkerTakes ==
    /\ worker.pc = "idle" /\ input # <<>>
    /\ input' = Tail(input)
    /\ worker' = IF Head(input) \in Extractable
                 THEN [idleWorker EXCEPT !.pc = "extract", !.file = Head(input)] ELSE worker
    /\ UNCHANGED <<torrentVars, tracker, ingest, auto, rescan, submitted, late, content, torrentDoc, api, text, left>>

\* Mutant: all extractions answer on one channel.
HearsAny(call) == worker.pc = "extract"

\* The done channel belongs to one call of safeExtract.
Hears(call) == worker.pc = "extract" /\ call = "current"

Extracted(f, found) == IF found /\ Chunks > 0 THEN [worker EXCEPT !.pc = "write", !.from = f, !.chunk = 1]
                       ELSE idleWorker

\* The extraction ends with text, without any, or with an error or a panic.
ExtractReturns(found) ==
    /\ Hears("current")
    /\ worker' = Extracted(worker.file, found)
    /\ UNCHANGED <<torrentVars, tracker, ingest, auto, rescan, input, submitted, late, content, torrentDoc, api, text, left>>

\* extractWatchdog: the worker goes on, the extraction is left running.
Watchdog ==
    /\ worker.pc = "extract"
    /\ late' = late \cup {worker.file}
    /\ worker' = idleWorker
    /\ UNCHANGED <<torrentVars, tracker, ingest, auto, rescan, input, submitted, content, torrentDoc, api, text, left>>

LateReturns(f, found) ==
    /\ f \in late
    /\ late' = late \ {f}
    /\ worker' = IF Hears("abandoned") THEN Extracted(f, found) ELSE worker
    /\ UNCHANGED <<torrentVars, tracker, ingest, auto, rescan, input, submitted, content, torrentDoc, api, text, left>>

\* IndexContent puts or replaces the document of its file and chunk.
IndexContent(d) == {c \in content : <<c.file, c.chunk>> # <<d.file, d.chunk>>} \cup {d}

WriteChunk(ok) ==
    /\ worker.pc = "write"
    /\ IF ok THEN content' = IndexContent([file |-> worker.file, chunk |-> worker.chunk, from |-> worker.from])
                  /\ UNCHANGED left
       ELSE Spend("fails") /\ UNCHANGED content
    /\ worker' = IF worker.chunk = Chunks THEN idleWorker ELSE [worker EXCEPT !.chunk = @ + 1]
    /\ UNCHANGED <<torrentVars, tracker, ingest, auto, rescan, input, submitted, late, torrentDoc, api, text>>

-----------------------------------------------------------------------------
(* The torrent document, and the calls of the user. *)

\* writeTorrentDoc: the flag is read, then the document is written.
IndexTorrent(ok) == IF ok THEN torrentDoc' = "written" /\ UNCHANGED left
                    ELSE Spend("fails") /\ torrentDoc' = IF torrentDoc = "none" THEN "failed" ELSE torrentDoc

AutoIndexReads(g) ==
    /\ auto[g] = "wait" /\ info[g]
    /\ auto' = [auto EXCEPT ![g] = IF indexing[g] THEN "write" ELSE "off"]
    /\ UNCHANGED <<torrentVars, tracker, ingest, rescan, pipeVars, torrentDoc, api, text, left>>

AutoIndexStops(g) ==
    /\ auto[g] = "wait" /\ g <= handle.gen /\ ~Live(g)
    /\ auto' = [auto EXCEPT ![g] = "off"]
    /\ UNCHANGED <<torrentVars, tracker, ingest, rescan, pipeVars, torrentDoc, api, text, left>>

AutoIndexWrites(g, ok) ==
    /\ auto[g] = "write"
    /\ IndexTorrent(ok)
    /\ auto' = [auto EXCEPT ![g] = "off"]
    /\ UNCHANGED <<torrentVars, tracker, ingest, rescan, pipeVars, api, text>>

SetTorrentIndexing(enabled) ==
    /\ api = "idle" /\ handle.present
    /\ Spend("toggles")
    /\ indexing' = [indexing EXCEPT ![handle.gen] = enabled]
    /\ api' = IF enabled THEN "enabled" ELSE "idle"
    /\ UNCHANGED <<pieceOK, handle, info, tracker, ingest, auto, rescan, pipeVars, torrentDoc, text>>

\* Mutant: enabling leaves the document to autoIndex, which may be over.
LeavesItToAutoIndex == FALSE

\* Enabling after the metadata came writes the document autoIndex skipped.
WritesNow == info[handle.gen]

EnableChecks ==
    /\ api = "enabled"
    /\ api' = IF WritesNow THEN "writing" ELSE "idle"
    /\ UNCHANGED <<torrentVars, tracker, ingest, auto, rescan, pipeVars, torrentDoc, text, left>>

EnableWrites(ok) ==
    /\ api = "writing"
    /\ IndexTorrent(ok)
    /\ api' = "idle"
    /\ UNCHANGED <<torrentVars, tracker, ingest, auto, rescan, pipeVars, text>>

\* RemoveTorrent closes the tracker and drops the handle, then forgets what was submitted.
RemoveTorrent ==
    /\ api = "idle" /\ handle.present
    /\ Spend("removes")
    /\ handle' = [handle EXCEPT !.present = FALSE]
    /\ tracker' = freshTracker
    /\ api' = "removed"
    /\ UNCHANGED <<pieceOK, info, indexing, ingest, auto, rescan, pipeVars, torrentDoc, text>>

ForgetSubmitted ==
    /\ api \in {"removed", "forget"}
    /\ submitted' = {}
    /\ api' \in IF api = "removed" THEN {"idle", "forget"} ELSE {"deleteTorrent"}
    /\ UNCHANGED <<torrentVars, tracker, ingest, auto, rescan, input, worker, late, content, torrentDoc, text, left>>

DeleteTorrent ==
    /\ api = "deleteTorrent"
    /\ torrentDoc' = "none"
    /\ api' = "deleteContent"
    /\ UNCHANGED <<torrentVars, tracker, ingest, auto, rescan, pipeVars, text, left>>

DeleteContentForTorrent ==
    /\ api = "deleteContent"
    /\ content' = {}
    /\ api' = "forgotten"
    /\ UNCHANGED <<torrentVars, tracker, ingest, auto, rescan, input, submitted, worker, late, torrentDoc, text, left>>

\* registerLockedRestore: a fresh handle, with a tracker and its goroutines.
Register(withInfo, on) ==
    /\ handle.gen < MaxGen
    /\ handle' = [gen |-> handle.gen + 1, present |-> TRUE]
    /\ info' = [info EXCEPT ![handle.gen + 1] = withInfo]
    /\ indexing' = [indexing EXCEPT ![handle.gen + 1] = on]
    /\ tracker' = freshTracker

AddTorrent(withInfo) ==
    /\ api \in {"idle", "forgotten"} /\ ~handle.present
    /\ Register(withInfo, TRUE)
    /\ ingest' = [ingest EXCEPT ![handle.gen + 1].pc = "start"]
    /\ auto' = [auto EXCEPT ![handle.gen + 1] = "wait"]
    /\ api' = "idle"
    /\ UNCHANGED <<pieceOK, rescan, pipeVars, torrentDoc, text, left>>

offIngest == [pc |-> "off", file |-> 0, events |-> <<>>]

\* The process ends anywhere and starts again: memory is lost, the session brings the torrent
\* back, and Open rebuilds the index when its schema is an old one.
Restart(withInfo, rebuild) ==
    /\ handle.present
    /\ Spend("restarts")
    /\ Register(withInfo, indexing[handle.gen])
    /\ ingest' = [g \in Gens |-> IF g = handle.gen + 1 THEN [offIngest EXCEPT !.pc = "start"] ELSE offIngest]
    /\ auto' = [g \in Gens |-> IF g = handle.gen + 1 THEN "wait" ELSE "off"]
    /\ rescan' = [pc |-> "idle", file |-> 0]
    /\ input' = <<>> /\ submitted' = {} /\ worker' = idleWorker /\ late' = {}
    /\ content' = IF rebuild THEN {} ELSE content
    /\ torrentDoc' = IF rebuild THEN "none" ELSE torrentDoc
    /\ api' = "idle"
    /\ UNCHANGED <<pieceOK, text>>

-----------------------------------------------------------------------------
Init ==
    /\ left \in Plays
    /\ text \in left.texts
    /\ pieceOK = [p \in Pieces |-> p \in left.onDisk]
    /\ handle = [gen |-> 1, present |-> TRUE]
    /\ info = [g \in Gens |-> FALSE]
    /\ indexing = [g \in Gens |-> TRUE]
    /\ tracker = freshTracker
    /\ ingest = [g \in Gens |-> IF g = 1 THEN [offIngest EXCEPT !.pc = "start"] ELSE offIngest]
    /\ auto = [g \in Gens |-> IF g = 1 THEN "wait" ELSE "off"]
    /\ rescan = [pc |-> "idle", file |-> 0]
    /\ input = <<>> /\ submitted = {} /\ worker = idleWorker /\ late = {} /\ content = {}
    /\ torrentDoc = "none" /\ api = "idle"

TrackerStep == TrackerStarts \/ SeedPiece \/ SeedFiles \/ PieceEvent
IngestStep(g) == IngestSubscribes(g) \/ IngestTakes(g) \/ IngestStops(g) \/ IngestSends(g) \/ IngestMarks(g)
RescanStep == RescanTick \/ RescanSends \/ RescanMarks
WorkerStep == WorkerTakes \/ WriteChunk(TRUE)
AutoIndexStep(g) == AutoIndexReads(g) \/ AutoIndexStops(g) \/ AutoIndexWrites(g, TRUE)
ForgetStep == ForgetSubmitted \/ DeleteTorrent \/ DeleteContentForTorrent

Next ==
    \/ \E p \in Pieces : PieceChanges(p)
    \/ GotInfo \/ TrackerStep \/ RescanStep \/ WorkerStep \/ Watchdog \/ WriteChunk(FALSE)
    \/ \E g \in Gens : IngestStep(g) \/ AutoIndexStep(g) \/ AutoIndexWrites(g, FALSE)
    \/ \E found \in BOOLEAN : ExtractReturns(found) \/ \E f \in Files : LateReturns(f, found)
    \/ \E on \in BOOLEAN : SetTorrentIndexing(on) \/ EnableWrites(on) \/ AddTorrent(on)
    \/ EnableChecks \/ RemoveTorrent \/ ForgetStep
    \/ \E withInfo, rebuild \in BOOLEAN : Restart(withInfo, rebuild)

\* The scheduler runs every goroutine that can run, and the timers of the watchdog and of the
\* rescan fire; nothing makes an extraction return.
Fairness ==
    /\ WF_vars(TrackerStep) /\ WF_vars(RescanStep) /\ WF_vars(WorkerStep) /\ WF_vars(Watchdog)
    /\ \A g \in Gens : WF_vars(IngestStep(g))

Spec == Init /\ [][Next]_vars
FairSpec == Spec /\ Fairness

-----------------------------------------------------------------------------
(* Properties. *)

\* Once the tracker has worked off its piece events, every complete file has been dispatched,
\* and none twice, although pieces finish between its subscription and its reading of the
\* piece states ("the reverse order loses pieces", fileTracker.run).
NoMissedFile ==
    handle.present /\ tracker.pc = "run" =>
        /\ tracker.queue = <<>> => \A f \in Files : Complete(pieceOK, f) => f \in tracker.done
        /\ \A i, j \in DOMAIN tracker.replay : tracker.replay[i] = tracker.replay[j] => i = j

\* A content document holds the text of its own file, also when an extraction that the
\* watchdog gave up answers while the next file is being extracted (safeExtract).
ContentIsOwn == \A d \in content : d.from = d.file

\* The document of a torrent that is indexed and whose metadata is known has been written, or the
\* write was tried and failed (writeTorrentDoc logs it and tries no more): no order of autoIndex
\* and SetTorrentIndexing skips it, and an index rebuild has it written again.
DocWhenIndexing ==
    /\ handle.present /\ info[handle.gen] /\ indexing[handle.gen]
    /\ auto[handle.gen] = "off" /\ api = "idle"
    => torrentDoc # "none"

\* The index says what the torrent holds: content of the right file, under a torrent document
\* unless the write of that failed.
DocumentsRight == ContentIsOwn /\ DocWhenIndexing

\* However the text is laid out, its chunks are faithful to it (chunkText).
ChunksFaithful == FaithfulChunks(text)

\* A complete file of an indexed torrent reaches the pipeline in the end, though its event was
\* dropped, the queue is full or an extraction hangs (runIndexRescan, Submit, the watchdog).
QueuedEventually ==
    \A f \in Files : []<>(handle.present /\ info[handle.gen] /\ indexing[handle.gen]
                          /\ Span[f] # {} /\ Complete(pieceOK, f) => f \in submitted)

\* ForgetIndex "deletes a torrent's index documents (torrent + all content)": when it has
\* returned, and the torrent has not been added again, none is left.
ForgottenGone == api = "forgotten" => content = {} /\ torrentDoc = "none"

=============================================================================
