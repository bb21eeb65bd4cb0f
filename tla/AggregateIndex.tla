----------------------------- MODULE AggregateIndex -----------------------------
(***************************************************************************)
(* The Aggregate index between two nodes.  The publishing node P keeps     *)
(* signed records, packs them into a tree, seeds the tree as a companion   *)
(* torrent and puts a pointer to it into the DHT                           *)
(* (internal/dhtindex/aggregate.go, internal/engine/aggregate_dist.go).    *)
(* Lookups of the reading node R, and of P itself, follow the pointer,     *)
(* fetch the torrent with a shared, reference-counted handle               *)
(* (internal/engine/companion.go), verify the tree and merge its hits with *)
(* the legacy backend's (internal/dhtindex/composite.go).  P looks up its  *)
(* own key, or another publisher's whose pointer names P's tree; a lookup  *)
(* that leads to any other tree touches none of P's handles.               *)
(*                                                                         *)
(* Refresh runs off-lock, so records are retracted and trees rebuilt while *)
(* it distributes; writes, seeds and puts fail; pointers expire; all trees *)
(* of a publisher have one file name, at P and at R.  A rebuild makes new  *)
(* bytes each time (the trailer has the time), so a tree is its record set *)
(* and the generation that built it.  The time stamp of a record is left   *)
(* out: a record published again is the same record.                       *)
(***************************************************************************)
EXTENDS SnaggTree

CONSTANTS
    Keywords, Infohashes,   \* of the records
    Fetchers,               \* the lookups of R; P has one, "p"
    MaxTrees,               \* bound on the trees of a behaviour
    AggregatePlays          \* the bounds of a run: [publishes, retracts, fails, expiries, lookups],
                            \* and the keywords a torrent may have

ASSUME FetchersAssumption ==
    IsFiniteSet(Fetchers) /\ "p" \notin Fetchers /\ MaxTrees \in Nat

Nil == [gen |-> 0, recs |-> {}]     \* no tree
Nodes == {"P", "R"}
Lookups == Fetchers \cup {"p"}
NodeOf(f) == IF f = "p" THEN "P" ELSE "R"

VARIABLES
    records,    \* aggregatePPMI.records
    dirty,
    tree,       \* [gen, recs]: the tree built last
    gen,
    job,        \* the publisher's worker: [at, tree, gen, round]
    ended,      \* the generation the last Refresh that succeeded had compared with, 0 if it failed
    lastSeeded, \* aggTreePublisher.lastSeededIH
    pointer,    \* the PPMI item in the DHT
    handles,    \* per node, the trees with a companion handle
    refs,       \* companionFetchRefs of R and P: [node, gen] -> fetches in flight
    torn,       \* P's own fetch dropped the seed of lastSeeded: "no", "self" (of its own key), "other"
    disk,       \* per node, the tree in the file
    have,       \* per node, the trees whose pieces the completion store calls complete
    look,       \* the lookups: [at, own, token, legacy, ptr, hits, opened], legacy as [ok, hits]
    budget      \* what the bounds leave
aggregateVars == <<records, dirty, tree, gen, job, ended, lastSeeded, pointer, handles, refs, torn, disk, have, look, budget>>

recordVars == <<records, dirty, tree, gen>>
seedVars == <<lastSeeded, pointer>>
fetchVars == <<refs, have, look>>
handleVars == <<handles, torn>>

Afford(b) == budget[b] > 0 /\ budget' = [budget EXCEPT ![b] = @ - 1]
idleJob == [at |-> "idle", tree |-> Nil, gen |-> 0, round |-> 0]
freshLook == [at |-> "idle", own |-> FALSE, token |-> <<>>, legacy |-> [ok |-> FALSE, hits |-> {}], ptr |-> Nil, hits |-> {}, opened |-> FALSE]
DropHandle(n, t) == [handles EXCEPT ![n] = @ \ {t}]

-----------------------------------------------------------------------------
(* The record set and its tree. *)

\* rebuildLocked, on the record set rs; dirty is cleared.
Rebuilt(rs, d) == IF d THEN [gen |-> gen + 1, recs |-> rs] ELSE tree
rebuildLocked(rs, d) ==
    /\ d => gen < MaxTrees
    /\ tree' = Rebuilt(rs, d)
    /\ gen' = IF d THEN gen + 1 ELSE gen
    /\ dirty' = FALSE

\* A nil tree: never built, or built from no records.
NilTree(t) == t.recs = {}

\* The worker takes a task: one record per keyword of the name.
Publish(ih, kws) ==
    /\ Afford("publishes")
    /\ job.at = "idle"
    /\ kws # {}
    /\ records' = records \cup {[kw |-> k, ih |-> ih] : k \in kws}
    /\ dirty' = TRUE
    /\ UNCHANGED <<tree, gen, job, ended, seedVars, handleVars, disk, fetchVars>>

\* Retract comes from any goroutine; without a record of the infohash it changes nothing.
Retract(ih) ==
    LET kept == {r \in records : r.ih # ih}
    IN  /\ Afford("retracts")
        /\ kept # records
        /\ records' = kept
        /\ rebuildLocked(kept, TRUE)
        /\ UNCHANGED <<job, ended, seedVars, handleVars, disk, fetchVars>>

\* A lookup of the publisher's own key at its own backend rebuilds too.
LookupSelf ==
    /\ dirty /\ rebuildLocked(records, dirty)
    /\ UNCHANGED <<records, job, ended, seedVars, handleVars, disk, fetchVars, budget>>

-----------------------------------------------------------------------------
(* Refresh and PublishTree. *)

Distribute(t, g, round) ==
    [at |-> IF NilTree(t) THEN "retract" ELSE "write", tree |-> t, gen |-> g, round |-> round]

\* Mutant: only a rebuilt tree is distributed.
DistributesChanged(d) == d

\* Every refresh distributes, changed or not: the pointer has to be put again before it expires.
Distributes(d) == TRUE

\* The tick: rebuild and snapshot under the lock.
Refresh ==
    /\ job.at = "idle"
    /\ rebuildLocked(records, dirty)
    /\ job' = IF Distributes(dirty) THEN Distribute(tree', gen', 1) ELSE idleJob
    /\ ended' = 0
    /\ UNCHANGED <<records, seedVars, handleVars, disk, fetchVars, budget>>

RefreshFails == job' = idleJob /\ ended' = 0 /\ Afford("fails")
\* The end of distribute: the first round is followed by the re-check, the second ends Refresh.
Distributed ==
    /\ job' = IF job.round = 1 THEN [job EXCEPT !.at = "recheck"] ELSE idleJob
    /\ ended' = IF job.round = 1 THEN 0 ELSE job.gen

RetractTree ==
    /\ job.at = "retract"
    /\ lastSeeded' = Nil
    /\ handles' = DropHandle("P", lastSeeded)
    /\ torn' = "no"
    /\ Distributed
    /\ UNCHANGED <<recordVars, pointer, disk, fetchVars, budget>>

\* The file name is the same for every tree.
WriteTree ==
    /\ job.at = "write"
    /\ \/ /\ disk' = [disk EXCEPT !["P"] = job.tree]
          /\ job' = [job EXCEPT !.at = "seed"]
          /\ UNCHANGED <<ended, budget>>
       \/ RefreshFails /\ UNCHANGED disk
    /\ UNCHANGED <<recordVars, seedVars, handleVars, fetchVars>>

\* SeedMetaInfo, then the previous snapshot's seed is dropped, unless it is this one.  A torrent
\* that is attached already keeps its storage: one that P's own fetch holds does not serve the file.
SeedTree ==
    /\ job.at = "seed"
    /\ \/ /\ handles' = [handles EXCEPT !["P"] = (@ \ {lastSeeded}) \cup {job.tree}]
          /\ torn' = IF job.tree = lastSeeded /\ job.tree \in handles["P"] THEN torn ELSE "no"
          /\ lastSeeded' = job.tree
          /\ job' = [job EXCEPT !.at = "put"]
          /\ UNCHANGED <<ended, budget>>
       \/ RefreshFails /\ UNCHANGED <<handleVars, lastSeeded>>
    /\ UNCHANGED <<recordVars, pointer, disk, fetchVars>>

\* A put that fails may have been stored all the same.
PutPPMI ==
    /\ job.at = "put"
    /\ \/ pointer' = job.tree /\ Distributed /\ UNCHANGED budget
       \/ pointer' \in {pointer, job.tree} /\ RefreshFails
    /\ UNCHANGED <<recordVars, lastSeeded, handleVars, disk, fetchVars>>

\* Mutant: Refresh ends after its first round.
ChangedSinceNever(g) == FALSE

ChangedSince(g) == gen # g

\* The generation moved while the tree was distributed: distribute the current one, once.
Recheck ==
    /\ job.at = "recheck"
    /\ job' = IF ChangedSince(job.gen) THEN Distribute(tree, gen, 2) ELSE idleJob
    /\ ended' = IF ChangedSince(job.gen) THEN 0 ELSE gen
    /\ UNCHANGED <<recordVars, seedVars, handleVars, disk, fetchVars, budget>>

PointerExpires ==
    /\ Afford("expiries")
    /\ pointer # Nil
    /\ pointer' = Nil
    /\ UNCHANGED <<recordVars, job, ended, lastSeeded, handleVars, disk, fetchVars>>

-----------------------------------------------------------------------------
(* The companion fetch. *)

\* P's handle of t serves the file in the companion directory.
Seeded(t) == t = lastSeeded /\ t \in handles["P"] /\ torn = "no"
Serves(t) == Seeded(t) /\ disk["P"] = t

retained(n, t, k) == [refs EXCEPT ![n][t.gen] = @ + k]

\* Mutant: the torrent is dropped by every fetcher that leaves.
LastRefAny(n, t) == TRUE

LastRef(n, t) == refs[n][t.gen] <= 1

\* releaseCompanionFetch, deferred on every exit of the fetch.  DropCompanionTorrent spares the
\* handles of user torrents, not the node's own seed.
releaseCompanionFetch(f) ==
    LET n == NodeOf(f)  t == look[f].ptr
    IN  /\ refs' = retained(n, t, -1)
        /\ handles' = IF LastRef(n, t) THEN DropHandle(n, t) ELSE handles
        /\ torn' = IF n = "P" /\ LastRef(n, t) /\ Seeded(t)
                   THEN (IF look[f].own THEN "self" ELSE "other") ELSE torn

\* retainAndAttachCompanion: the reference and the handle in one critical section.
retainAndAttachCompanion(f) ==
    /\ look[f].at = "attach"
    /\ look' = [look EXCEPT ![f].at = "wait"]
    /\ refs' = retained(NodeOf(f), look[f].ptr, 1)
    /\ handles' = [handles EXCEPT ![NodeOf(f)] = @ \cup {look[f].ptr}]
    /\ UNCHANGED <<recordVars, job, ended, seedVars, torn, disk, have, budget>>

\* The download ends: every piece came from P, or the completion store knows them all, whatever
\* the file holds by now.  P has all the pieces of its own seed.
FetchDone(f) ==
    LET n == NodeOf(f)  t == look[f].ptr
    IN  /\ look[f].at = "wait" /\ t \in handles[n]
        /\ \/ (t \in have[n] \/ (n = "P" /\ Seeded(t))) /\ UNCHANGED <<disk, have>>
           \/ /\ n = "R" /\ Serves(t)
              /\ disk' = [disk EXCEPT !["R"] = t]
              /\ have' = [have EXCEPT !["R"] = @ \cup {t}]
        /\ look' = [look EXCEPT ![f].at = "read"]
        /\ releaseCompanionFetch(f)
        /\ UNCHANGED <<recordVars, job, ended, seedVars, budget>>

\* The context ends first, or the info is refused: no tree.
FetchFails(f) ==
    /\ look[f].at = "wait"
    /\ look' = [look EXCEPT ![f].at = "merge"]
    /\ releaseCompanionFetch(f)
    /\ UNCHANGED <<recordVars, job, ended, seedVars, disk, have, budget>>

-----------------------------------------------------------------------------
(* Lookup: the legacy backend first, then the tree. *)

\* Mutant: a lookup of the node's own key is resolved like any other.
ResolvesAny(own) == TRUE

\* ResolveTree answers a lookup of the node's own key with no tree.
Resolves(own) == ~own

LegacyLookup(f, own, k, r) ==
    /\ look[f].at = "idle"
    /\ NodeOf(f) = "R" => ~own
    /\ Afford("lookups")
    /\ look' = [look EXCEPT ![f] = [freshLook EXCEPT !.at = IF Resolves(own) THEN "get" ELSE "merge",
                                                     !.own = own, !.token = k, !.legacy = r]]
    /\ UNCHANGED <<recordVars, job, ended, seedVars, handleVars, disk, refs, have>>

\* The pointer is read, or the get fails and the lookup goes on without a tree.
GetPPMI(f) ==
    /\ look[f].at = "get"
    /\ \/ pointer # Nil /\ look' = [look EXCEPT ![f].at = "attach", ![f].ptr = pointer]
       \/ look' = [look EXCEPT ![f].at = "merge"]
    /\ UNCHANGED <<recordVars, job, ended, seedVars, handleVars, disk, refs, have, budget>>

\* Mutant: the trailer's signature is enough.
CommitMatchesAny(t, ptr) == TRUE

\* The fingerprint of the file is the commit of the pointer.
CommitMatches(t, ptr) == BuildBTree(t.recs).trailer.fingerprint = BuildBTree(ptr.recs).trailer.fingerprint

OpenVerifiedTree(t, ptr) == ~NilTree(t) /\ OpenBTree(BuildBTree(t.recs)) /\ CommitMatches(t, ptr)

\* The path is under DataDir: at P, whose trees lie in the companion directory, no file is there.
FileRead(n) == IF n = "P" THEN Nil ELSE disk[n]

\* ReadFile, OpenVerifiedTree and exactHits.
ReadTree(f) ==
    LET t == FileRead(NodeOf(f))
        opens == OpenVerifiedTree(t, look[f].ptr)
    IN  /\ look[f].at = "read"
        /\ look' = [look EXCEPT ![f].at = "merge", ![f].opened = opens,
                                ![f].hits = IF opens THEN exactHits(BuildBTree(t.recs), look[f].token) ELSE {}]
        /\ UNCHANGED <<recordVars, job, ended, seedVars, handleVars, disk, refs, have, budget>>

\* The tree is the secondary: it never fails the lookup, and an error of the primary keeps its hits.
Merged(l) == (IF l.legacy.ok THEN l.legacy.hits ELSE {}) \cup l.hits
MergeHits(f) ==
    /\ look[f].at = "merge"
    /\ look' = [look EXCEPT ![f].at = "done", ![f].hits = Merged(look[f])]
    /\ UNCHANGED <<recordVars, job, ended, seedVars, handleVars, disk, refs, have, budget>>

\* The caller has its answer.
Returned(f) ==
    /\ look[f].at = "done"
    /\ look' = [look EXCEPT ![f] = freshLook]
    /\ UNCHANGED <<recordVars, job, ended, seedVars, handleVars, disk, refs, have, budget>>

-----------------------------------------------------------------------------
AggregateInit ==
    /\ records = {} /\ dirty = FALSE /\ tree = Nil /\ gen = 0
    /\ job = idleJob /\ ended = 0 /\ lastSeeded = Nil /\ pointer = Nil
    /\ torn = "no" /\ handles = [n \in Nodes |-> {}] /\ have = [n \in Nodes |-> {}]
    /\ refs = [n \in Nodes |-> [g \in 1 .. MaxTrees |-> 0]]
    /\ disk = [n \in Nodes |-> Nil]
    /\ look = [f \in Lookups |-> freshLook]
    /\ budget \in AggregatePlays

LegacyAnswers == {[ok |-> TRUE, hits |-> Infohashes], [ok |-> FALSE, hits |-> {}]}

Worker == Refresh \/ RetractTree \/ WriteTree \/ SeedTree \/ PutPPMI \/ Recheck
Fetch(f) == retainAndAttachCompanion(f) \/ FetchDone(f) \/ FetchFails(f)
Answer(f) == GetPPMI(f) \/ ReadTree(f) \/ MergeHits(f) \/ Returned(f)
AggregateNext ==
    \/ \E ih \in Infohashes : (\E kws \in budget.names : Publish(ih, kws)) \/ Retract(ih)
    \/ LookupSelf \/ Worker \/ PointerExpires
    \/ \E f \in Lookups : \/ \E own \in BOOLEAN, k \in UNION budget.names, r \in LegacyAnswers : LegacyLookup(f, own, k, r)
                           \/ Fetch(f) \/ Answer(f)

AggregateSpec == AggregateInit /\ [][AggregateNext]_aggregateVars

\* The refresh ticker fires for as long as the node runs, and a refresh ends, by an answer or by the
\* put's timeout; a fetch of P ends with its lookup, by the 30 s a search may take.
FairAggregate == AggregateSpec /\ WF_aggregateVars(Worker) /\ WF_aggregateVars(FetchFails("p"))

-----------------------------------------------------------------------------
(* Properties. *)

\* Find guarantees authenticity, not completeness, for trees of others; a tree this code built
\* answers every prefix completely, in key order, and passes the reader's checks: the pages of
\* packInteriorLevel and the walk of walkToLeaves agree on what a separator bounds.
TreeAnswersAll == ~NilTree(tree) => FindsAll(tree.recs, Keywords)

\* A lookup that opened a tree answers with the hits of the tree its pointer committed to, though
\* the file it read has had other trees of the publisher in it; one that did not open a tree
\* answers what the legacy backend had.
AnswersAreCommitted ==
    \A f \in Lookups : look[f].at = "done" =>
        look[f].hits = (IF look[f].legacy.ok THEN look[f].legacy.hits ELSE {})
                       \cup (IF look[f].opened THEN {r.ih : r \in {s \in look[f].ptr.recs : s.kw = look[f].token}}
                             ELSE {})

\* What is found is what was packed and committed to: a tree answers completely, and nobody
\* answers from a tree its pointer did not name.
AnswersRight == TreeAnswersAll /\ AnswersAreCommitted

\* A fetcher that waits for a download has the torrent attached, whichever fetchers of the same
\* torrent came and went; a torrent nobody waits for is dropped.
FetchersKeepTorrent ==
    handles["R"] = {look[f].ptr : f \in {g \in Fetchers : look[g].at = "wait"}}

\* P's tree keeps its companion handle until the next one is seeded, through every lookup of P's
\* own key; P's fetch of a pointer of another publisher that names P's tree is the one thing that
\* drops it (torn, until the next refresh seeds it again).  Between a refresh that succeeded and
\* the next one the file is that tree's.  P has no other handle but the one its own fetch holds.
AdvertisedStaysSeeded ==
    /\ torn # "self"
    /\ torn = "no" /\ lastSeeded # Nil => Seeded(lastSeeded) /\ (ended # 0 => Serves(lastSeeded))
    /\ handles["P"] \subseteq (IF torn = "no" THEN {lastSeeded} \ {Nil} ELSE {})
                            \cup (IF look["p"].at = "wait" THEN {look["p"].ptr} ELSE {})

\* When Refresh has succeeded and nothing has been rebuilt since it compared generations, the
\* pointer names the current tree or has expired: a retraction that came while the old tree was
\* being distributed is not left discoverable.
RefreshedIsCurrent == ended # 0 /\ ended = gen /\ ~NilTree(tree) => pointer \in {tree, Nil}

\* R has a handle of exactly the torrents its fetches wait for; P serves its tree between
\* refreshes, unless its fetch of another publisher's pointer dropped it, and keeps no handle of an
\* older one.  The old tree is gone before the new one's pointer is in the DHT: the file is written
\* and the old handle dropped before the put, as PublishTree has it.
SeedsHeld == FetchersKeepTorrent /\ AdvertisedStaysSeeded

\* Once records and faults stop changing, the pointer names the current tree and P serves it; with
\* no records P serves nothing.
Converges == <>[](IF records = {} THEN handles["P"] = {}
                  ELSE tree.recs = records /\ pointer = tree /\ Serves(tree))

=============================================================================
