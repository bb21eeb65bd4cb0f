------------------------------- MODULE Reputation -------------------------------
(***************************************************************************)
(* Spam resistance of one node: the DHT lookup (internal/dhtindex/         *)
(* lookup.go) with the reputation tracker, the known-good Bloom filter and *)
(* the per-hit attribution (internal/reputation), the trust list           *)
(* (internal/trust) and the one shared confirm / flag path                 *)
(* (internal/engine/reputation.go, internal/daemon/confirm_flag.go).       *)
(*                                                                         *)
(* API calls, torrent events and the checkpoint ticker run on goroutines   *)
(* of their own (Workers), searches on others (Searchers).  Each store has *)
(* its own lock, so every locked section is one step.  A crash loses the   *)
(* memory; a start may fail to load any of the three files.                *)
(***************************************************************************)
EXTENDS Integers, Sequences, FiniteSets, SequencesExt, FiniteSetsExt

CONSTANTS
    Keys,           \* indexer public keys
    Self,           \* this node's own key, added explicitly at every start
    Infohashes,
    Workers,        \* goroutines of API calls, torrent events and the ticker
    Searchers,      \* goroutines of Lookup.Query
    Answers,        \* what an indexer may answer: sequences of infohashes
    AlwaysTrusted,  \* keys of trust.json that are never removed from it
    SeedList,       \* keys of seeds.json
    Hash1, Hash2,   \* the two FNV hashes of an infohash
    BloomM, BloomK, \* bits and hash functions of the filter
    MaxAuto,        \* maxAutoIndexers, 128 in the code
    SourceCap,      \* DefaultSourceCapacity, 10 000 in the code
    MinScore,       \* cfg.MinIndexerScore in thousandths
    MaxAge,         \* bound on the half-lives a seed ages
    Budgets         \* the bounds of a run: [ops, queries, notes, fails, crashes, edits]

ASSUME KeysAssumption ==
    IsFiniteSet(Keys) /\ Self \in Keys /\ AlwaysTrusted \subseteq Keys /\ SeedList \subseteq Keys
ASSUME HashesAssumption ==
    /\ Infohashes # {} /\ \A ans \in Answers : ans \in Seq(Infohashes)
    /\ Hash1 \in [Infohashes -> Nat] /\ Hash2 \in [Infohashes -> Nat]
    /\ BloomM \in Nat \ {0} /\ BloomK \in Nat \ {0}
ASSUME CapAssumption == MaxAuto \in Nat \ {0} /\ SourceCap \in Nat \ {0} /\ MaxAge \in Nat
ASSUME WorkersAssumption == "free" \notin Workers

VARIABLES
    indexers,   \* Lookup.indexers, oldest AddedAt first: [pk, auto]
    records,    \* Tracker.Records (an absent record is the zero one)
    sources,    \* SourceTracker, most recently used first: [ih, pubs]
    bloom,      \* the set bits of the filter
    trusted,    \* trust.Store.entries
    loaded,     \* the files the start could load: "bloom", "tracker", "trust"
    disk,       \* the files: [bloom, records, trust]
    ckpt,       \* the holder of ckptMu, or "free"
    work,       \* the goroutine of each worker
    search,     \* the goroutine of each searcher
    promised,   \* infohashes whose confirm returned with the Bloom saved
    operator,   \* keys added explicitly and not removed since
    claims,     \* <<pk, ih>>: pk answered ih in some search
    left        \* what the bounds leave
rvars == <<indexers, records, sources, bloom, trusted, loaded, disk, ckpt, work, search,
           promised, operator, claims, left>>

Zero == [returned |-> 0, confirmed |-> 0, flagged |-> 0, seeded |-> -1]
Idle == [pc |-> "idle", op |-> "none", ih |-> CHOOSE i \in Infohashes : TRUE, pubs |-> {}, saved |-> TRUE]
NoSearch == [pc |-> "idle", asked |-> {}, answered |-> {}, from |-> [i \in Infohashes |-> <<>>],
             known |-> {}, hits |-> <<>>]
Spend(b) == left[b] > 0 /\ left' = [left EXCEPT ![b] = @ - 1]

Counters == [returned : Nat, confirmed : Nat, flagged : Nat, seeded : -1 .. MaxAge]
Indexers == [pk : Keys, auto : BOOLEAN]
Attributions == [ih : Infohashes, pubs : SUBSET Keys]
Files == [bloom : SUBSET (0 .. (BloomM - 1)), records : [Keys -> Counters], trust : SUBSET Keys]
WorkStates ==
    [pc : {"idle", "sources", "boost", "demote", "forget", "lock", "bloom", "tracker"},
     op : {"none", "confirm", "flag", "auto", "tick"},
     ih : Infohashes, pubs : SUBSET Keys, saved : BOOLEAN]
SearchStates(hits) ==
    [pc : {"idle", "collect", "record"}, asked : SUBSET Keys, answered : SUBSET Keys,
     from : [Infohashes -> Seq(Keys)], known : SUBSET Infohashes, hits : {hits}]

StoresTyped ==
    /\ indexers \in Seq(Indexers)
    /\ records \in [Keys -> Counters]
    /\ sources \in Seq(Attributions) /\ Len(sources) <= SourceCap
    /\ bloom \in SUBSET (0 .. (BloomM - 1)) /\ trusted \in SUBSET Keys
    /\ loaded \in SUBSET {"bloom", "tracker", "trust"}
    /\ disk \in Files
    /\ work \in [Workers -> WorkStates]
    /\ DOMAIN search = Searchers /\ \A q \in Searchers : search[q] \in SearchStates(search[q].hits)
    /\ promised \in SUBSET Infohashes /\ operator \in SUBSET Keys
    /\ claims \in SUBSET (Keys \X Infohashes)

-----------------------------------------------------------------------------
(* The Bloom filter *)

oddStride(ih) == IF Hash2[ih] % 2 = 0 THEN Hash2[ih] + 1 ELSE Hash2[ih]

\* BloomFilter.indices: double hashing with an odd stride.
indices(ih) == {(Hash1[ih] + i * oddStride(ih)) % BloomM : i \in 0 .. (BloomK - 1)}
BloomAdd(ih) == bloom \cup indices(ih)
BloomTest(ih) == indices(ih) \subseteq bloom

(* The reputation tracker; scores are in thousandths *)

Max0(n) == IF n > 0 THEN n ELSE 0
Clamp(n) == IF n > 1000 THEN 1000 ELSE Max0(n)

\* scoreOf: the smoothed ratio and the seed bonus, halved for every half-life.
organic(r) ==
    IF r.returned = 0 /\ r.confirmed = 0 /\ r.flagged = 0 THEN 500
    ELSE LET n == IF r.returned < 1 THEN 1 ELSE r.returned
         IN  (500 * (2 * Max0(r.confirmed - r.flagged) + 5)) \div (n + 5)
scoreOf(r) == Clamp(organic(r) + IF r.seeded < 0 THEN 0 ELSE 450 \div (2 ^ r.seeded))

Score(pk) == IF "tracker" \in loaded THEN scoreOf(records[pk]) ELSE 500
IsSeeded(pk) == "tracker" \in loaded /\ records[pk].seeded >= 0
Threshold(pk) == MinScore <= 0 \/ scoreOf(records[pk]) >= MinScore

RecordReturned(pk, n) == [records EXCEPT ![pk].returned = @ + n]
RecordConfirmed(pks) ==
    [k \in Keys |-> IF k \in pks THEN [records[k] EXCEPT !.confirmed = @ + 1] ELSE records[k]]
RecordFlagged(pks) ==
    [k \in Keys |-> IF k \in pks THEN [records[k] EXCEPT !.flagged = @ + 1] ELSE records[k]]
MarkSeeded(recs, pks) ==
    [k \in Keys |-> IF k \in pks THEN [recs[k] EXCEPT !.seeded = 0] ELSE recs[k]]

(* The attribution of recent hits *)

Entry(ih) == {i \in DOMAIN sources : sources[i].ih = ih}     \* SourceTracker.index: one or none
Sources(ih) == UNION {sources[i].pubs : i \in Entry(ih)}
Place(ih) == CHOOSE i \in Entry(ih) : TRUE
Without(ih) == IF Entry(ih) = {} THEN sources ELSE RemoveAt(sources, Place(ih))
Touched(ih) == IF Entry(ih) = {} THEN sources ELSE <<sources[Place(ih)]>> \o Without(ih)

\* SourceTracker.RecordMany: to the front, and the least recently used entries go.
RecordMany(ih, pks) ==
    LET s == <<[ih |-> ih, pubs |-> Sources(ih) \cup pks]>> \o Without(ih)
    IN  IF Len(s) > SourceCap THEN SubSeq(s, 1, SourceCap) ELSE s
Forget(ih) == Without(ih)

-----------------------------------------------------------------------------
(* The known indexers *)

Known(pk) == \E i \in DOMAIN indexers : indexers[i].pk = pk
Autos(idx) == {i \in DOMAIN idx : idx[i].auto}

\* Mutant: the oldest entry goes, whoever added it.
evictOldest(idx) == IF Cardinality(Autos(idx)) >= MaxAuto THEN RemoveAt(idx, 1) ELSE idx

\* Lookup.evictOldestAutoIfFullLocked
evictOldestAuto(idx) ==
    IF Cardinality(Autos(idx)) >= MaxAuto THEN RemoveAt(idx, Min(Autos(idx))) ELSE idx

\* Lookup.addIndexerLocked: an explicit add promotes, a repeated note changes nothing.
addIndexerLocked(pk, auto) ==
    IF Known(pk)
    THEN [i \in DOMAIN indexers |->
            IF indexers[i].pk = pk /\ ~auto THEN [indexers[i] EXCEPT !.auto = FALSE] ELSE indexers[i]]
    ELSE Append(IF auto THEN evictOldestAuto(indexers) ELSE indexers, [pk |-> pk, auto |-> auto])

AddIndexer(pk) ==
    /\ Spend("notes")
    /\ indexers' = addIndexerLocked(pk, FALSE)
    /\ operator' = operator \cup {pk}
    /\ UNCHANGED <<records, sources, bloom, trusted, loaded, disk, ckpt, work, search, promised, claims>>

\* A publisher key gossiped in a verified sync record.
NotePublisherSeen(pk) ==
    /\ Spend("notes")
    /\ indexers' = addIndexerLocked(pk, TRUE)
    /\ UNCHANGED <<records, sources, bloom, trusted, loaded, disk, ckpt, work, search, promised,
                   operator, claims>>

RemoveIndexer(pk) ==
    /\ Known(pk) /\ Spend("notes")
    /\ indexers' = RemoveAt(indexers, CHOOSE i \in DOMAIN indexers : indexers[i].pk = pk)
    /\ operator' = operator \ {pk}
    /\ UNCHANGED <<records, sources, bloom, trusted, loaded, disk, ckpt, work, search, promised, claims>>

-----------------------------------------------------------------------------
(* Lookup.Query *)

\* The snapshot of the indexers, less those under the reputation cutoff.
Askable == {pk \in {indexers[i].pk : i \in DOMAIN indexers} : "tracker" \notin loaded \/ Threshold(pk)}

QueryBegin(q) ==
    /\ search[q].pc = "idle" /\ Askable # {} /\ Spend("queries")
    /\ search' = [search EXCEPT ![q] = [NoSearch EXCEPT !.pc = "collect", !.asked = Askable]]
    /\ UNCHANGED <<indexers, records, sources, bloom, trusted, loaded, disk, ckpt, work, promised,
                   operator, claims>>

\* Mutant: every repetition of an infohash counts as one more source.
CountRepeats(from, pk, ans) ==
    [i \in Infohashes |-> from[i] \o [n \in 1 .. Cardinality({j \in DOMAIN ans : ans[j] = i}) |-> pk]]

\* One indexer contributes each infohash to the sources at most once.
AddSource(from, pk, ans) ==
    [i \in Infohashes |-> IF i \in Range(ans) THEN Append(from[i], pk) ELSE from[i]]

\* One result taken from the channel after all indexers answered; a failed one is skipped.
QueryResult(q, pk) ==
    /\ search[q].pc = "collect" /\ pk \in search[q].asked \ search[q].answered
    /\ \/ /\ search' = [search EXCEPT ![q].answered = @ \cup {pk}]
          /\ UNCHANGED <<records, claims>>
       \/ \E ans \in Answers :
            /\ records' = IF "tracker" \in loaded THEN RecordReturned(pk, Len(ans)) ELSE records
            /\ search' = [search EXCEPT
                 ![q].answered = @ \cup {pk},
                 ![q].from = AddSource(@, pk, ans),
                 ![q].known = @ \cup {i \in Range(ans) : "bloom" \in loaded /\ BloomTest(i)}]
            /\ claims' = claims \cup ({pk} \X Range(ans))
    /\ UNCHANGED <<indexers, sources, bloom, trusted, loaded, disk, ckpt, work, promised, operator, left>>

Sum(s) == FoldSeq(LAMBDA x, acc : x + acc, 0, s)

\* scoreLookupHit: the mean score, 50 for each further source up to 200, 250 when known good.
scoreLookupHit(from, isKnown) ==
    Clamp(Sum([i \in DOMAIN from |-> Score(from[i])]) \div Len(from)
          + Min({50 * (Len(from) - 1), 200})
          + IF isKnown THEN 250 ELSE 0)

\* The order of the answer: known good, score, number of sources (then the name: any order).
Before(x, y) ==
    \/ x.known /\ ~y.known
    \/ x.known = y.known /\ x.score > y.score
    \/ x.known = y.known /\ x.score = y.score /\ x.sources > y.sources
Ranked(hits) == {s \in SetToSeqs(hits) : \A i, j \in DOMAIN s : i < j => ~Before(s[j], s[i])}

QueryMerge(q) ==
    /\ search[q].pc = "collect" /\ search[q].asked = search[q].answered
    /\ LET s == search[q]
           found == {i \in Infohashes : s.from[i] # <<>>}
           hit(i) == [ih |-> i, known |-> i \in s.known, sources |-> Len(s.from[i]),
                      score |-> scoreLookupHit(s.from[i], i \in s.known)]
       IN  \E hits \in Ranked({hit(i) : i \in found}) :
            search' = [search EXCEPT ![q].pc = IF found = {} THEN "idle" ELSE "record", ![q].hits = hits]
    /\ UNCHANGED <<indexers, records, sources, bloom, trusted, loaded, disk, ckpt, work, promised,
                   operator, claims, left>>

\* The attribution of one infohash; the last one ends the query.
QueryRecord(q, ih) ==
    /\ search[q].pc = "record" /\ search[q].from[ih] # <<>>
    /\ sources' = RecordMany(ih, Range(search[q].from[ih]))
    /\ search' = LET rest == [search[q].from EXCEPT ![ih] = <<>>]
                 IN  [search EXCEPT ![q] = IF \A i \in Infohashes : rest[i] = <<>> THEN NoSearch
                                           ELSE [@ EXCEPT !.from = rest]]
    /\ UNCHANGED <<indexers, records, bloom, trusted, loaded, disk, ckpt, work, promised, operator,
                   claims, left>>

-----------------------------------------------------------------------------
(* Confirm, flag and the automatic confirmations *)

Start(t, op, pc, ih, pubs) ==
    work' = [work EXCEPT ![t] = [pc |-> pc, op |-> op, ih |-> ih, pubs |-> pubs, saved |-> FALSE]]
Goto(t, pc) == work' = [work EXCEPT ![t].pc = pc]

\* Daemon.Confirm / Engine.ConfirmHit: the Bloom first, then the attributed indexers.
ConfirmHit(t, ih) ==
    /\ work[t].pc = "idle" /\ "bloom" \in loaded /\ Spend("ops")
    /\ bloom' = BloomAdd(ih)
    /\ Start(t, "confirm", IF "tracker" \in loaded THEN "sources" ELSE "lock", ih, {})
    /\ UNCHANGED <<indexers, records, sources, trusted, loaded, disk, ckpt, search, promised, operator, claims>>

ConfirmSources(t) ==
    /\ work[t].pc = "sources"
    /\ sources' = Touched(work[t].ih)
    /\ work' = [work EXCEPT ![t].pubs = Sources(work[t].ih),
                            ![t].pc = IF Sources(work[t].ih) = {} THEN "lock" ELSE "boost"]
    /\ UNCHANGED <<indexers, records, bloom, trusted, loaded, disk, ckpt, search, promised, operator, claims, left>>

ConfirmBoost(t) ==
    /\ work[t].pc = "boost"
    /\ records' = RecordConfirmed(work[t].pubs)
    /\ Goto(t, "lock")
    /\ UNCHANGED <<indexers, sources, bloom, trusted, loaded, disk, ckpt, search, promised, operator, claims, left>>

\* Mutant: trust that could not be loaded is taken for trust that is off.
trustIgnored == FALSE

\* Engine.trustDegraded: trust was configured and could not be loaded.
trustDegraded == "trust" \notin loaded

\* Daemon.Flag / Engine.FlagHit: nothing without a tracker, without the trust list or without
\* attribution.
FlagHit(t, ih) ==
    /\ work[t].pc = "idle" /\ "tracker" \in loaded /\ ~trustDegraded /\ Sources(ih) # {} /\ Spend("ops")
    /\ sources' = Touched(ih)
    /\ Start(t, "flag", "demote", ih, Sources(ih))
    /\ UNCHANGED <<indexers, records, bloom, trusted, loaded, disk, ckpt, search, promised, operator, claims>>

FlagDemote(t) ==
    /\ work[t].pc = "demote"
    /\ records' = RecordFlagged({pk \in work[t].pubs : pk \notin trusted})
    /\ Goto(t, "forget")
    /\ UNCHANGED <<indexers, sources, bloom, trusted, loaded, disk, ckpt, search, promised, operator, claims, left>>

FlagForget(t) ==
    /\ work[t].pc = "forget"
    /\ sources' = Forget(work[t].ih)
    /\ Goto(t, "lock")
    /\ UNCHANGED <<indexers, records, bloom, trusted, loaded, disk, ckpt, search, promised, operator, claims, left>>

\* watchCompletion on a finished download: the Bloom only, never the reputation.
Completed(t, ih) ==
    /\ work[t].pc = "idle" /\ "bloom" \in loaded /\ Spend("ops")
    /\ bloom' = BloomAdd(ih)
    /\ Start(t, "auto", "lock", ih, {})
    /\ UNCHANGED <<indexers, records, sources, trusted, loaded, disk, ckpt, search, promised, operator, claims>>

\* trustedPublisherAutoConfirm when the metadata of a torrent signed by pk arrives.
trustedPublisherAutoConfirm(t, ih, pk) ==
    /\ "trust" \in loaded /\ pk \in trusted
    /\ Completed(t, ih)

\* runReputationCheckpoint: the ticker.
Tick(t) ==
    /\ work[t].pc = "idle" /\ Spend("ops")
    /\ Start(t, "tick", "lock", Idle.ih, {})
    /\ UNCHANGED <<indexers, records, sources, bloom, trusted, loaded, disk, ckpt, search, promised, operator, claims>>

(* Engine.Checkpoint: under ckptMu the Bloom, then the tracker.  A Save holds the store's *)
(* read lock from the snapshot to the rename, and a failed one leaves the old file.       *)

Checkpoint(t) ==
    /\ work[t].pc = "lock" /\ ckpt = "free"
    /\ ckpt' = t
    /\ Goto(t, "bloom")
    /\ UNCHANGED <<indexers, records, sources, bloom, trusted, loaded, disk, search, promised, operator, claims, left>>

\* Mutant: a filter that could not be loaded is saved too.
SavesAnyway == TRUE

SavesBloom == "bloom" \in loaded

SaveBloom(t) ==
    /\ work[t].pc = "bloom"
    /\ \/ /\ SavesBloom
          /\ disk' = [disk EXCEPT !.bloom = bloom]
          /\ work' = [work EXCEPT ![t].pc = "tracker", ![t].saved = TRUE]
          /\ UNCHANGED left
       \/ /\ SavesBloom /\ Spend("fails")
          /\ Goto(t, "tracker")
          /\ UNCHANGED disk
       \/ /\ ~SavesBloom
          /\ Goto(t, "tracker")
          /\ UNCHANGED <<disk, left>>
    /\ UNCHANGED <<indexers, records, sources, bloom, trusted, loaded, ckpt, search, promised, operator, claims>>

SaveTracker(t) ==
    /\ work[t].pc = "tracker"
    /\ \/ /\ disk' = IF "tracker" \in loaded THEN [disk EXCEPT !.records = records] ELSE disk
          /\ UNCHANGED left
       \/ /\ "tracker" \in loaded /\ Spend("fails") /\ UNCHANGED disk
    /\ ckpt' = "free"
    /\ promised' = IF work[t].saved /\ work[t].op \in {"confirm", "auto"}
                   THEN promised \cup {work[t].ih} ELSE promised
    /\ work' = [work EXCEPT ![t] = Idle]
    /\ UNCHANGED <<indexers, records, sources, bloom, trusted, loaded, search, operator, claims>>

-----------------------------------------------------------------------------
(* Time, the command line and restarts *)

\* A half-life of the seed bonuses passes.
SeedsAge ==
    /\ Spend("edits")
    /\ \E k \in Keys : records[k].seeded \in 0 .. (MaxAge - 1)
    /\ records' = [k \in Keys |-> IF records[k].seeded \in 0 .. (MaxAge - 1)
                                  THEN [records[k] EXCEPT !.seeded = @ + 1] ELSE records[k]]
    /\ UNCHANGED <<indexers, sources, bloom, trusted, loaded, disk, ckpt, work, search, promised,
                   operator, claims>>

\* Store.save: a temporary file of its own, renamed over trust.json.
saveTrust(entries) == disk' = [disk EXCEPT !.trust = entries]

\* swartznet trust add | remove, a process of its own that rewrites the file.
EditTrust(pk) ==
    /\ pk \notin AlwaysTrusted /\ Spend("edits")
    /\ saveTrust(IF pk \in disk.trust THEN disk.trust \ {pk} ELSE disk.trust \cup {pk})
    /\ UNCHANGED <<indexers, records, sources, bloom, trusted, loaded, ckpt, work, search, promised,
                   operator, claims>>

\* readBloom: a file that fails the header guards is no filter (and is left alone).
LoadBloom(files) == IF "bloom" \in files THEN disk.bloom ELSE {}
\* LoadSeedList marks every well-formed entry seeded again, so its bonus starts anew.
LoadSeedList(recs) == MarkSeeded(recs, SeedList)
LoadTracker(files) == IF "tracker" \in files THEN LoadSeedList(disk.records) ELSE [k \in Keys |-> Zero]
LoadTrust(files) == IF "trust" \in files THEN disk.trust ELSE {}

\* loadSpamResistance and setupLayerDLookup of a new process, given the files it could load.
loadSpamResistance(files) ==
    /\ loaded' = files
    /\ bloom' = LoadBloom(files)
    /\ records' = LoadTracker(files)
    /\ trusted' = LoadTrust(files)
    /\ sources' = <<>>
    /\ indexers' = <<[pk |-> Self, auto |-> FALSE]>>
    /\ operator' = {Self}

Restart(files) ==
    /\ Spend("crashes")
    /\ loadSpamResistance(files)
    /\ ckpt' = "free"
    /\ work' = [t \in Workers |-> Idle]
    /\ search' = [q \in Searchers |-> NoSearch]
    /\ UNCHANGED <<disk, promised, claims>>

-----------------------------------------------------------------------------
RInit ==
    /\ indexers = <<[pk |-> Self, auto |-> FALSE]>>
    /\ records = LoadSeedList([k \in Keys |-> Zero])
    /\ sources = <<>>
    /\ bloom = {}
    /\ trusted = AlwaysTrusted
    /\ loaded = {"bloom", "tracker", "trust"}
    /\ disk = [bloom |-> {}, records |-> [k \in Keys |-> Zero], trust |-> AlwaysTrusted]
    /\ ckpt = "free"
    /\ work = [t \in Workers |-> Idle]
    /\ search = [q \in Searchers |-> NoSearch]
    /\ promised = {} /\ operator = {Self} /\ claims = {}
    /\ left \in Budgets

LookupNext ==
    \/ \E pk \in Keys : AddIndexer(pk) \/ NotePublisherSeen(pk) \/ RemoveIndexer(pk)
    \/ \E q \in Searchers : QueryBegin(q) \/ QueryMerge(q)
    \/ \E q \in Searchers, pk \in Keys : QueryResult(q, pk)
    \/ \E q \in Searchers, ih \in Infohashes : QueryRecord(q, ih)

FeedbackNext ==
    \/ \E t \in Workers, ih \in Infohashes :
         \/ ConfirmHit(t, ih) \/ FlagHit(t, ih) \/ Completed(t, ih)
         \/ \E pk \in Keys : trustedPublisherAutoConfirm(t, ih, pk)
    \/ \E t \in Workers :
         \/ ConfirmSources(t) \/ ConfirmBoost(t) \/ FlagDemote(t) \/ FlagForget(t)
         \/ Tick(t) \/ Checkpoint(t) \/ SaveBloom(t) \/ SaveTracker(t)
    \/ SeedsAge
    \/ \E pk \in Keys : EditTrust(pk)

RNext ==
    \/ LookupNext
    \/ FeedbackNext
    \/ \E files \in SUBSET {"bloom", "tracker", "trust"} : Restart(files)

-----------------------------------------------------------------------------
(* A confirm, a finished download or a trusted publisher's torrent whose checkpoint could  *)
(* write the Bloom filter stays known good on disk whatever later calls, checkpoints,      *)
(* failed saves, failed loads and restarts do (Engine.ConfirmHit, Checkpoint).             *)
ConfirmedDurable == \A ih \in promised : indices(ih) \subseteq disk.bloom

(* Flags demote only indexers that returned a hit, and never one that is on the trust      *)
(* list, not even in a process that could not load the list (Engine.FlagHit: "A nil store  *)
(* must not be mistaken for trust off").                                                   *)
DocksOnlyClaimers ==
    \A pk \in Keys : records[pk].flagged > 0 => pk \notin AlwaysTrusted /\ \E ih \in Infohashes : <<pk, ih>> \in claims

(* However many keys gossip brings, the indexers the operator added stay and the others    *)
(* stay within maxAutoIndexers (Lookup.addIndexerLocked).                                  *)
OperatorKept ==
    /\ \A pk \in operator : \E i \in DOMAIN indexers : indexers[i] = [pk |-> pk, auto |-> FALSE]
    /\ Cardinality(Autos(indexers)) <= MaxAuto

(* "Forget the attribution so a second flag can't double-dock" (FlagHit): with one search,  *)
(* an indexer is demoted at most once for each infohash it returned.                       *)
DockedOnce ==
    \A pk \in Keys : records[pk].flagged <= Cardinality({ih \in Infohashes : <<pk, ih>> \in claims})

(* The number of sources a hit is ranked by is a number of different indexers that         *)
(* returned it: no indexer can fake consensus by repeating itself (Lookup.Query).          *)
ConsensusIsReal ==
    \A q \in Searchers : \A i \in DOMAIN search[q].hits :
        LET h == search[q].hits[i]
        IN  h.sources <= Cardinality({pk \in search[q].asked : <<pk, h.ih>> \in claims})

(* Neither gossip nor repetition buys influence on a lookup: the operator's indexers stay,  *)
(* automatic ones stay within their bound, and a hit's sources are different indexers.     *)
LookupSound == OperatorKept /\ ConsensusIsReal
=============================================================================
