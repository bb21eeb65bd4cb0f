------------------------------ MODULE SwarmSearch ------------------------------
(***************************************************************************)
(* The sn_search peer protocol of one node (internal/swarmsearch:          *)
(* protocol.go, query.go, handler.go, misbehavior.go, ratelimit.go) with   *)
(* the connection callbacks and the sender of internal/engine.             *)
(*                                                                         *)
(* Queries are goroutines that register, send, collect and return; every   *)
(* inbound frame is handled on a goroutine of its own, in any order and    *)
(* also after its connection is gone.  Peers that run this code (Honest)   *)
(* answer what they were asked; the others repeat, mix up and garble.      *)
(***************************************************************************)
EXTENDS Integers, Sequences, FiniteSets, SequencesExt

CONSTANTS
    Peers,          \* remote addresses
    Honest,         \* the ones that run this code
    Infohashes,
    TxIds,          \* 1..n: one per Query call
    LocalResults,   \* what SearchLocal may return: sequences of local hits
    SearchError,    \* or that it failed
    Scopes,         \* "n", "c", "f"
    HonestSharing,  \* the sharing preferences honest peers may have
    OurSharing,     \* the ones SetSharing may give us
    BanThreshold,   \* 100 in the code
    Burst,          \* 10 in the code
    RankCap,        \* 1000 in the code
    Limit,          \* the caller's limit; 0 is none
    MaxConns,       \* connections one address has at a time
    MaxConnects,    \* bound on connections
    MaxUnasked      \* bound on the frames peers send of their own accord

ASSUME PeersAssumption == IsFiniteSet(Peers) /\ Honest \subseteq Peers
ASSUME ResultsAssumption ==
    \A hits \in LocalResults : hits \in Seq([ih : Infohashes, doc : {"name", "content"}, rank : Int])
ASSUME BoundsAssumption ==
    /\ BanThreshold \in Nat \ {0} /\ Burst \in Nat \ {0} /\ RankCap \in Nat \ {0}
    /\ MaxConns \in Nat

VARIABLES
    conns,      \* open connections of each address (the torrent client's)
    closing,    \* addresses in the middle of a PeerConnClosed callback
    peers,      \* the addresses in p.peers
    supported,  \* those whose handshake listed sn_search
    tracker,    \* peerTracker.conns
    ban,        \* banman.m
    bucket,     \* rateLimiter.buckets: the tokens of each address
    query,      \* the Query calls and their pendingQuery, by txid
    asking,     \* queries on their way to an honest peer: <<peer, txid>>
    net,        \* inbound frames whose goroutine has not started
    work,       \* inbound frames past the ban check of HandleMessage
    left        \* what the bounds leave
vars == <<conns, closing, peers, supported, tracker, ban, bucket, query, asking, net, work, left>>

ConnVars == <<conns, closing, peers, supported, tracker>>

-----------------------------------------------------------------------------
(* Misbehavior scores and the rate limit *)

\* A score is what is charged and for how many points.
ScoreBadBencode == [why |-> "bencode", pts |-> 20]
ScoreMalformedResult == [why |-> "malformed", pts |-> 10]
ScoreStaleTxID == [why |-> "stale", pts |-> 10]
ScoreUnexpectedMessage == [why |-> "unexpected", pts |-> 10]
ScoreRateLimited == [why |-> "rate", pts |-> 5]
ScoreQueryTooBroad == [why |-> "broad", pts |-> 5]
ScoreBadRecordSig == [why |-> "signature", pts |-> 20]

\* A charge of handleSyncFrame, whatever it is for
InSync(s) == [s EXCEPT !.why = "sync"]

\* A ban entry; "why" is what was charged last, "until" whether a ban is none, running
\* or over but not read since.  No entry is as good as one without a score.
NoEntry == [score |-> 0, why |-> "none", until |-> "none"]

\* banman.Add.  A score past the threshold is as good as the threshold.
BanAdd(p, s) ==
    LET e == ban[p]
        sum == IF e.score + s.pts > BanThreshold THEN BanThreshold ELSE e.score + s.pts
    IN  [ban EXCEPT ![p] = [score |-> sum, why |-> s.why,
                            until |-> IF sum >= BanThreshold /\ e.until = "none"
                                      THEN "running" ELSE e.until]]

\* banman.IsBanned: its answer, and the reset of a ban that is over.
IsBanned(p) == ban[p].until = "running"
AfterIsBanned(p) ==
    IF ban[p].until = "over" THEN [ban EXCEPT ![p] = [@ EXCEPT !.score = 0, !.why = "none", !.until = "none"]] ELSE ban

\* Mutant: a disconnect forgets a ban too.
ForgetAll(p) == [ban EXCEPT ![p] = NoEntry]

\* banman.Forget
Forget(p) == IF ban[p].until = "none" THEN [ban EXCEPT ![p] = NoEntry] ELSE ban

\* rateLimiter.Allow.  A bucket is created full, so none is as good as a full one.
Allow(p) == bucket[p] >= 1
AfterAllow(p) == [bucket EXCEPT ![p] = IF Allow(p) THEN @ - 1 ELSE @]

\* Time passes: a token is added, or a ban runs out.
Refill(p) ==
    /\ bucket[p] < Burst
    /\ bucket' = [bucket EXCEPT ![p] = @ + 1]
    /\ UNCHANGED <<ConnVars, ban, query, asking, net, work, left>>

BanExpires(p) ==
    /\ ban[p].until = "running"
    /\ ban' = [ban EXCEPT ![p].until = "over"]
    /\ UNCHANGED <<ConnVars, bucket, query, asking, net, work, left>>

-----------------------------------------------------------------------------
(* Connections: the engine's callbacks *)

NotePeerAdded(p) == peers \cup {p}

\* peerTracker.add and remove; get, with which SendExtension resolves a token
trackConn(p) == tracker \cup {p}
untrackConn(p) == tracker \ {p}
resolves(p) == p \in tracker

\* The PeerConnAdded callback
PeerConnAdded(p) ==
    /\ left.connects > 0 /\ conns[p] < MaxConns /\ p \notin closing
    /\ left' = [left EXCEPT !.connects = @ - 1]
    /\ conns' = [conns EXCEPT ![p] = @ + 1]
    /\ peers' = NotePeerAdded(p)
    /\ tracker' = trackConn(p)
    /\ UNCHANGED <<closing, supported, ban, bucket, query, asking, net, work>>

\* OnRemoteHandshake, of a peer that lists sn_search.  The announcement it enqueues to
\* the peer touches nothing we keep, and neither does a handshake without sn_search.
OnRemoteHandshake(p) ==
    /\ conns[p] > 0 /\ p \notin closing
    /\ ban' = AfterIsBanned(p)
    /\ IF IsBanned(p) THEN UNCHANGED <<peers, supported>>
       ELSE peers' = peers \cup {p} /\ supported' = supported \cup {p}
    /\ UNCHANGED <<conns, closing, tracker, bucket, query, asking, net, work, left>>

\* PeerConnClosed: OnPeerClosed deletes the peer, the bucket and the clean ban entry ...
OnPeerClosed(p) ==
    /\ conns[p] > 0 /\ p \notin closing
    /\ conns' = [conns EXCEPT ![p] = @ - 1]
    /\ closing' = closing \cup {p}
    /\ peers' = peers \ {p} /\ supported' = supported \ {p}
    /\ bucket' = [bucket EXCEPT ![p] = Burst]
    /\ ban' = Forget(p)
    /\ UNCHANGED <<tracker, query, asking, net, work, left>>

\* ... then peers.remove
removeConn(p) ==
    /\ p \in closing
    /\ closing' = closing \ {p}
    /\ tracker' = untrackConn(p)
    /\ UNCHANGED <<conns, peers, supported, ban, bucket, query, asking, net, work, left>>

-----------------------------------------------------------------------------
(* Answering: handleQuery, of this node and of the honest peers *)

Frame(p, kind, tx) == [from |-> p, kind |-> kind, tx |-> tx, total |-> 0, hits |-> <<>>,
                       scope |-> "n", short |-> FALSE, ok |-> TRUE]

\* The positions at which a torrent appears for the first time; a set of positions in order.
Firsts(hits) == {i \in DOMAIN hits : \A j \in 1..(i - 1) : hits[j].ih # hits[i].ih}
InOrder(S) == [k \in 1..Cardinality(S) |-> CHOOSE i \in S : Cardinality({j \in S : j < i}) = k - 1]

clampRank(r) == IF r < 0 THEN 0 ELSE IF r > RankCap THEN RankCap ELSE r

\* hitsToWire.  A local hit has a torrent, a kind of document ("name" or
\* "content") and a rank; a wire hit has its matching files and whether they are named.
hitsToWire(hits, caps) ==
    LET Of(i) == {j \in DOMAIN hits : hits[j].ih = hits[i].ih}
        matches(i) == IF caps.content THEN Cardinality({j \in Of(i) : hits[j].doc = "content"}) ELSE 0
        shown == InOrder({i \in Firsts(hits) : caps.content \/ \E j \in Of(i) : hits[j].doc = "name"})
    IN  [k \in DOMAIN shown |->
            LET i == shown[k] IN [ih |-> hits[i].ih, rank |-> hits[i].rank,
                                  matches |-> matches(i), paths |-> caps.file /\ matches(i) > 0]]

EncodeResult(p, tx, total, hits) ==
    [Frame(p, "result", tx) EXCEPT !.total = total,
                                   !.hits = [k \in DOMAIN hits |-> [hits[k] EXCEPT !.rank = clampRank(@)]]]

\* What a search of a node's index may return (indexerSearcher.SearchLocal)
SearchLocal == LocalResults \cup {SearchError}

unsupportedScope(scope, caps) == (scope = "c" /\ ~caps.content) \/ (scope = "f" /\ ~caps.file)

\* handleQuery once the limiter let the query through: the frame that answers f when
\* SearchLocal returns hits, or SearchError.
Answer(p, f, caps, hits) ==
    IF caps.local # 2 \/ unsupportedScope(f.scope, caps) \/ f.short \/ hits = SearchError
    THEN Frame(p, "reject", f.tx)
    ELSE EncodeResult(p, f.tx, Len(hits), hitsToWire(hits, caps))

\* An honest peer answers a query; the query or its reply (gatedReply) may be lost.
PeerAnswers(p, tx) ==
    /\ <<p, tx>> \in asking
    /\ asking' = asking \ {<<p, tx>>}
    /\ \/ \E caps \in HonestSharing, hits \in SearchLocal :
            net' = net \cup {Answer(p, Frame(p, "query", tx), caps, hits)}
       \/ net' = net
    /\ UNCHANGED <<ConnVars, ban, bucket, query, work, left>>

\* What a peer sends out of turn: results and rejects nobody asked it for or that it has
\* sent before (a torrent may be in one twice), announcements, frames that do not decode or have an unknown type.
ForeignHits ==
    {[k \in DOMAIN h |-> [ih |-> h[k].ih, rank |-> h[k].rank, matches |-> 0, paths |-> FALSE]] :
        h \in LocalResults \ {<<>>}}
ForeignResult(p, tx, w, ok) ==
    [Frame(p, "result", tx) EXCEPT !.total = Len(w), !.hits = w, !.ok = ok]
Foreign(p) ==
    {Frame(p, k, 0) : k \in {"announce", "bad", "unknown"}}
    \cup {Frame(p, "reject", tx) : tx \in TxIds}
    \cup {ForeignResult(p, tx, w, ok) : tx \in TxIds, w \in ForeignHits, ok \in BOOLEAN}

Noise(p) ==
    /\ left.unasked > 0 /\ conns[p] > 0 /\ p \notin Honest
    /\ left' = [left EXCEPT !.unasked = @ - 1]
    /\ \E f \in Foreign(p) : net' = net \cup {f}
    /\ UNCHANGED <<ConnVars, ban, bucket, query, asking, work>>

\* The frames the limiter admits or not: queries and the openings of a sync session.
Limited == {"query", "begin"}

\* The limited frames of p that have arrived and wait for the limiter.
Waiting(p, frames) == {f \in frames : f.from = p /\ f.kind \in Limited}

\* Honest peers stay below the burst.
BelowBurst(p) ==
    p \in Honest => bucket[p] > Cardinality(Waiting(p, net)) + Cardinality(Waiting(p, work))

\* A peer queries us: Query refuses the empty string only, so a query may be below the two
\* letters that handleQuery wants.
PeerAsks(p) ==
    /\ left.unasked > 0 /\ conns[p] > 0 /\ BelowBurst(p)
    /\ left' = [left EXCEPT !.unasked = @ - 1]
    /\ \E s \in Scopes, short \in BOOLEAN :
          net' = net \cup {[Frame(p, "query", 0) EXCEPT !.scope = s, !.short = short]}
    /\ UNCHANGED <<ConnVars, ban, bucket, query, asking, work>>

\* A peer opens a sync session with us or sends another frame of one (SyncExchange).
PeerSyncs(p) ==
    /\ left.unasked > 0 /\ conns[p] > 0
    /\ left' = [left EXCEPT !.unasked = @ - 1]
    /\ \E k \in {"begin", "sync"} :
          /\ k = "begin" => BelowBurst(p)
          /\ net' = net \cup {Frame(p, k, 0)}
    /\ UNCHANGED <<ConnVars, ban, bucket, query, asking, work>>

-----------------------------------------------------------------------------
(* Inbound frames: HandleMessage *)

\* The handler semaphore is full, or the connection broke before the frame was read.
Drop(f) ==
    /\ f \in net
    /\ net' = net \ {f}
    /\ UNCHANGED <<ConnVars, ban, bucket, query, asking, work, left>>

\* HandleMessage: the ban check
HandleMessage(f) ==
    /\ f \in net
    /\ net' = net \ {f}
    /\ ban' = AfterIsBanned(f.from)
    /\ work' = IF IsBanned(f.from) THEN work ELSE work \cup {f}
    /\ UNCHANGED <<ConnVars, bucket, query, asking, left>>

\* Whether PeekMsgType and the decoder of the frame's type accept it; "bad" is either failure.
Decodes(f) == f.kind # "bad"
PeekMsgType(f) == IF Decodes(f) THEN f.kind ELSE "error"

Handled(f) == f \in work /\ work' = work \ {f}

Charge(p, s) == ban' = BanAdd(p, s) /\ UNCHANGED query

\* A frame that does not decode, or of an unknown type
BadFrame(f) ==
    /\ Handled(f) /\ PeekMsgType(f) \in {"error", "unknown"}
    /\ Charge(f.from, IF PeekMsgType(f) = "error" THEN ScoreBadBencode ELSE ScoreUnexpectedMessage)
    /\ UNCHANGED <<ConnVars, bucket, asking, net, left>>

\* resultIsMalformed: a total without hits, or (ok = FALSE) a hit with a bad infohash
resultIsMalformed(f) == IF f.hits = <<>> THEN f.total > 0 ELSE ~f.ok

pendingOf(tx) == query[tx].pc \in {"send", "collect", "grace"}

\* Mutant: a repeated frame counts again.
firstFromAlways(tx, p) == TRUE

\* pendingQuery.firstFrom
firstFrom(tx, p) == p \notin query[tx].responded

\* The channel has room for one answer of every peer asked.
ChanCap(tx) == Cardinality(query[tx].asked)

\* The non-blocking send into pend.results
Offer(tx, in) ==
    LET q == query[tx]
    IN  [query EXCEPT ![tx].responded = @ \cup {in.from},
                      ![tx].results = IF Len(@) < ChanCap(tx) THEN Append(@, in) ELSE @]

\* routeResult and routeReject
Route(f) ==
    IF ~pendingOf(f.tx) THEN Charge(f.from, ScoreStaleTxID)
    ELSE IF f.from \notin query[f.tx].asked THEN Charge(f.from, ScoreUnexpectedMessage)
    ELSE /\ UNCHANGED ban
         /\ query' = IF firstFrom(f.tx, f.from)
                     THEN Offer(f.tx, [from |-> f.from, reject |-> f.kind = "reject", hits |-> f.hits])
                     ELSE query

routeResult(f) ==
    /\ Handled(f) /\ f.kind \in {"result", "reject"}
    /\ IF f.kind = "result" /\ resultIsMalformed(f)
       THEN Charge(f.from, ScoreMalformedResult)
       ELSE Route(f)
    /\ UNCHANGED <<ConnVars, bucket, asking, net, left>>

\* Mutant: an announcement creates the entry it does not find.
AnnouncedCreates(p) == peers \cup {p}

\* handlePeerAnnounce: services, version and key are noted in an entry that exists.
Announced(p) == peers

handlePeerAnnounce(f) ==
    /\ Handled(f) /\ f.kind = "announce"
    /\ peers' = Announced(f.from)
    /\ UNCHANGED <<conns, closing, supported, tracker, ban, bucket, query, asking, net, left>>

\* handleQuery: limiter, then the sharing preferences of the moment (SetSharing), then the
\* length.  The answer goes out on the connection the query came by.
handleQuery(f) ==
    /\ Handled(f) /\ f.kind = "query"
    /\ bucket' = AfterAllow(f.from)
    /\ IF ~Allow(f.from)
       THEN ban' = BanAdd(f.from, ScoreRateLimited)
       ELSE \E caps \in OurSharing :
              ban' = IF f.short /\ caps.local = 2 /\ ~unsupportedScope(f.scope, caps)
                     THEN BanAdd(f.from, ScoreQueryTooBroad) ELSE ban
    /\ UNCHANGED <<ConnVars, query, asking, net, left>>

\* What the handlers of the five sync frames charge, as the sessions and the records have it:
\* a session over the cap or one that fails, and a record whose signature is bad (SyncRegistry)
SyncCharges == {ScoreUnexpectedMessage, ScoreBadRecordSig}

\* handleSyncFrame: a frame of a peer without an entry, or whose announcement has not been noted
\* yet, is charged; a session's opening takes a token of the limiter.
handleSyncFrame(f) ==
    /\ Handled(f) /\ f.kind \in {"begin", "sync"}
    /\ \/ ban' = BanAdd(f.from, InSync(ScoreUnexpectedMessage)) /\ UNCHANGED bucket
       \/ /\ f.from \in peers /\ f.kind = "begin" /\ ~Allow(f.from)
          /\ bucket' = AfterAllow(f.from) /\ ban' = BanAdd(f.from, ScoreRateLimited)
       \/ /\ f.from \in peers /\ (f.kind = "begin" => Allow(f.from))
          /\ bucket' = IF f.kind = "begin" THEN AfterAllow(f.from) ELSE bucket
          /\ ban' \in {ban} \cup {BanAdd(f.from, InSync(s)) : s \in SyncCharges}
    /\ UNCHANGED <<ConnVars, query, asking, net, left>>

-----------------------------------------------------------------------------
(* Asking: Query *)

NoQuery == [pc |-> "none", asked |-> {}, todo |-> {}, sentTo |-> {}, responded |-> {},
            results |-> <<>>, got |-> <<>>, end |-> "none", hits |-> <<>>]

supportedTargets == supported

registerPending(tx) ==
    [query EXCEPT ![tx] = [NoQuery EXCEPT !.pc = "send", !.asked = supportedTargets,
                                          !.todo = supportedTargets]]

\* Query up to registerPending.  The frame it sends later is the first anyone hears of tx.
Query(tx) ==
    /\ query[tx].pc = "none" /\ \A t \in TxIds : t < tx => query[t].pc # "none"
    /\ supportedTargets # {}
    /\ query' = registerPending(tx)
    /\ UNCHANGED <<ConnVars, ban, bucket, asking, net, work, left>>

\* One SendExtension: the tracker has no connection any more, the write fails, or the
\* query is on its way.
SendExtension(tx, p) ==
    /\ query[tx].pc = "send" /\ p \in query[tx].todo
    /\ \/ /\ query' = [query EXCEPT ![tx].todo = @ \ {p}]
          /\ UNCHANGED asking
       \/ /\ resolves(p)
          /\ query' = [query EXCEPT ![tx].todo = @ \ {p}, ![tx].sentTo = @ \cup {p}]
          /\ asking' = asking \cup ({p} \cap Honest) \X {tx}
    /\ UNCHANGED <<ConnVars, ban, bucket, net, work, left>>

\* The sends are over; without one the call fails, and the entry stays for the grace.
Sent(tx) ==
    /\ query[tx].pc = "send" /\ query[tx].todo = {}
    /\ query' = [query EXCEPT ![tx].pc = IF query[tx].sentTo = {} THEN "grace" ELSE "collect",
                              ![tx].end = IF query[tx].sentTo = {} THEN "failed" ELSE @]
    /\ UNCHANGED <<ConnVars, ban, bucket, asking, net, work, left>>

\* Mutant: it waits for every target, sent to or not.
ExpectedAll(tx) == Cardinality(query[tx].asked)

\* The answers a query waits for
Expected(tx) == Cardinality(query[tx].sentTo)

\* mergeResponses: every (peer, torrent) pair adds its rank once, up to the cap; the torrents
\* in order of score, equal ones in order of appearance, up to the limit.
Pairs(got) == FoldLeft(LAMBDA acc, r : acc \o [i \in DOMAIN r.hits |-> [from |-> r.from, hit |-> r.hits[i]]],
                       <<>>, got)

\* Mutant: a peer that lists a torrent twice adds its rank twice.
AddRankAgain(m, x) ==
    [m EXCEPT ![x.hit.ih] = [score |-> IF @.score + x.hit.rank > RankCap THEN RankCap ELSE @.score + x.hit.rank,
                             sources |-> @.sources \cup {x.from}]]

AddRank(m, x) ==
    IF x.from \in m[x.hit.ih].sources THEN m
    ELSE [m EXCEPT ![x.hit.ih] =
             [score |-> IF @.score + x.hit.rank > RankCap THEN RankCap ELSE @.score + x.hit.rank,
              sources |-> @.sources \cup {x.from}]]

mergeResponses(got) ==
    LET pairs == Pairs(got)
        byIH == FoldLeft(AddRank, [ih \in Infohashes |-> [score |-> 0, sources |-> {}]], pairs)
        order == InOrder(Firsts([i \in DOMAIN pairs |-> pairs[i].hit]))
        out == SortSeq(order, LAMBDA i, j : \/ byIH[pairs[i].hit.ih].score > byIH[pairs[j].hit.ih].score
                                            \/ /\ byIH[pairs[i].hit.ih].score = byIH[pairs[j].hit.ih].score
                                               /\ i < j)
        kept == IF Limit > 0 /\ Len(out) > Limit THEN SubSeq(out, 1, Limit) ELSE out
    IN  [k \in DOMAIN kept |-> [ih |-> pairs[kept[k]].hit.ih, score |-> byIH[pairs[kept[k]].hit.ih].score,
                                sources |-> byIH[pairs[kept[k]].hit.ih].sources]]

Return(q, end) ==
    [q EXCEPT !.pc = "grace", !.end = end,
              !.hits = mergeResponses(SelectSeq(q.got, LAMBDA r : ~r.reject))]

\* The receive of the collection loop; the last answer ends it.
Collect(tx) ==
    LET q == query[tx]
        next == [q EXCEPT !.results = Tail(@), !.got = Append(@, Head(q.results))]
    IN  /\ q.pc = "collect" /\ Len(q.got) < Expected(tx) /\ q.results # <<>>
        /\ query' = [query EXCEPT ![tx] = IF Len(next.got) < Expected(tx) THEN next
                                          ELSE Return(next, "complete")]
        /\ UNCHANGED <<ConnVars, ban, bucket, asking, net, work, left>>

\* ctx.Done
Deadline(tx) ==
    /\ query[tx].pc = "collect"
    /\ query' = [query EXCEPT ![tx] = Return(@, "deadline")]
    /\ UNCHANGED <<ConnVars, ban, bucket, asking, net, work, left>>

\* The answers of honest peers take less than the grace window.
GraceEnough(tx) ==
    /\ \A p \in Honest : <<p, tx>> \notin asking
    /\ \A f \in net \cup work : f.from \in Honest => f.tx # tx

\* Mutant: the entry goes when Query returns.
unregisterPendingAtOnce(tx) ==
    /\ query[tx].pc = "grace"
    /\ query' = [query EXCEPT ![tx].pc = "gone"]
    /\ UNCHANGED <<ConnVars, ban, bucket, asking, net, work, left>>

\* pendingGrace is over: unregisterPending
unregisterPending(tx) ==
    /\ query[tx].pc = "grace" /\ GraceEnough(tx)
    /\ query' = [query EXCEPT ![tx].pc = "gone"]
    /\ UNCHANGED <<ConnVars, ban, bucket, asking, net, work, left>>

-----------------------------------------------------------------------------
Init ==
    /\ conns = [p \in Peers |-> 0] /\ closing = {}
    /\ peers = {} /\ supported = {} /\ tracker = {}
    /\ ban = [p \in Peers |-> NoEntry] /\ bucket = [p \in Peers |-> Burst]
    /\ query = [tx \in TxIds |-> NoQuery]
    /\ asking = {} /\ net = {} /\ work = {}
    /\ left = [connects |-> MaxConnects, unasked |-> MaxUnasked]

Connections(p) ==
    PeerConnAdded(p) \/ OnRemoteHandshake(p) \/ OnPeerClosed(p) \/ removeConn(p)

Handling(f) ==
    HandleMessage(f) \/ BadFrame(f) \/ routeResult(f) \/ handlePeerAnnounce(f) \/ handleQuery(f)
    \/ handleSyncFrame(f)

Querying(tx) ==
    (\E p \in Peers : SendExtension(tx, p)) \/ Sent(tx) \/ Collect(tx)

Next ==
    \/ \E p \in Peers : Connections(p) \/ Noise(p) \/ PeerAsks(p) \/ PeerSyncs(p) \/ Refill(p) \/ BanExpires(p)
                        \/ \E tx \in TxIds : PeerAnswers(p, tx)
    \/ \E f \in net \cup work : Drop(f) \/ Handling(f)
    \/ \E tx \in TxIds : Query(tx) \/ Querying(tx) \/ Deadline(tx) \/ unregisterPending(tx)

Spec == Init /\ [][Next]_vars

-----------------------------------------------------------------------------
(* Properties *)

\* What a peer may be charged for
Reasons == {"none", "bencode", "malformed", "stale", "unexpected", "rate", "broad", "signature", "sync"}

\* What the variables hold between two steps of the protocol's goroutines.
TypeOK ==
    /\ conns \in [Peers -> 0..MaxConns] /\ closing \subseteq Peers
    /\ peers \subseteq Peers /\ supported \subseteq peers /\ tracker \subseteq Peers
    /\ ban \in [Peers -> [score : 0..BanThreshold, why : Reasons,
                        until : {"none", "running", "over"}]]
    /\ bucket \in [Peers -> 0..Burst]
    /\ \A tx \in TxIds : query[tx].sentTo \cup query[tx].todo \cup query[tx].responded \subseteq query[tx].asked

\* A peer that runs this code, shares content hits (README, section 6), answers within the grace
\* window and stays below the burst with its queries and sync sessions together is charged for two things
\* only: a query of one letter, which Query sends and handleQuery charges, and what handleSyncFrame
\* charges, such as a frame that overtakes the peer's announcement or its close.  None of its answers and
\* no frame for the limiter is ever charged, whatever is lost, late or reordered and however often it
\* reconnects (pendingGrace in Query, routeResult, routeReject, rateLimiter.Allow).
HonestUncharged == \A p \in Honest : ban[p].why \in {"none", "broad", "sync"}

\* While a query collects, its channel and its count hold one answer of every peer that
\* answered: none is lost in the non-blocking send of routeResult and none counts twice.
AnswersAccounted ==
    \A tx \in TxIds : query[tx].pc \in {"send", "collect"} =>
        LET in == query[tx].got \o query[tx].results
        IN  /\ {in[i].from : i \in DOMAIN in} = query[tx].responded
            /\ Len(in) = Cardinality(query[tx].responded)

\* A query that still waits, with nothing to receive, waits for a peer it was sent to that has
\* not answered, even where one whose send failed did (the loop of Query counts up to sent).
WaitsForSomebody ==
    \A tx \in TxIds : (query[tx].pc = "collect" /\ query[tx].results = <<>>) =>
        query[tx].sentTo \ query[tx].responded # {}

\* What mergeResponses returns, said without its loop: a torrent's score is the sum over the
\* peers that answered with it, up to the cap; no torrent comes twice; none that is left out
\* by the limit has a higher score than one that is returned.
Ranks(got, ih) ==
    [i \in {j \in DOMAIN got : ~got[j].reject /\ \E k \in DOMAIN got[j].hits : got[j].hits[k].ih = ih} |->
        got[i].hits[CHOOSE k \in DOMAIN got[i].hits :
            got[i].hits[k].ih = ih /\ \A l \in 1..(k - 1) : got[i].hits[l].ih # ih].rank]
SumOf(f) == FoldFunction(LAMBDA x, y : x + y, 0, f)
Score(got, ih) == LET s == SumOf(Ranks(got, ih)) IN IF s > RankCap THEN RankCap ELSE s
MergedRight ==
    \A tx \in TxIds : query[tx].end \in {"complete", "deadline"} =>
        LET q == query[tx]
            listed == {q.hits[k].ih : k \in DOMAIN q.hits}
            found == {ih \in Infohashes : DOMAIN Ranks(q.got, ih) # {}}
        IN  /\ listed \subseteq found /\ Len(q.hits) = Cardinality(listed)
            /\ Limit = 0 \/ Cardinality(found) <= Limit => listed = found
            /\ \A k \in DOMAIN q.hits : q.hits[k].score = Score(q.got, q.hits[k].ih)
            /\ \A ih \in found \ listed, k \in DOMAIN q.hits : Score(q.got, ih) <= q.hits[k].score

\* A query counts every answer once, never waits for nobody, and returns what the answers say.
QueryAccounted == TypeOK /\ AnswersAccounted /\ WaitsForSomebody /\ MergedRight

\* A peer has an entry only while it is connected: no frame handled after OnPeerClosed
\* brings it back, since nothing would ever delete it again (handlePeerAnnounce).
NoZombies == \A p \in peers : conns[p] > 0

\* "Every LIVE connection already has an entry", as handlePeerAnnounce relies on.
LiveHasEntry == \A p \in Peers : (conns[p] > 0 /\ p \notin closing) => p \in peers

\* A ban ends by time alone; reconnecting does not end it (banman.Forget).
BanHolds == [][\A p \in Peers : IsBanned(p) => ban'[p].until # "none"]_vars

=============================================================================
