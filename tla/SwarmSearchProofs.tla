--------------------------- MODULE SwarmSearchProofs ---------------------------
(***************************************************************************)
(* The sn_search protocol for every number of peers, queries and           *)
(* connections and every threshold, burst and cap: closed peers do not     *)
(* come back, bans outlast reconnects, honest peers are not charged for    *)
(* their answers or their rate and a query counts every answer once.       *)
(*                                                                         *)
(* Over the types (Typed) there are two inductive invariants: HonestInv    *)
(* ties the frames of honest peers, on their way and in a handler, to the  *)
(* pending entry that expects them and to the tokens that pay for them,    *)
(* and AnswersCounted ties a query's channel to the peers that responded.  *)
(***************************************************************************)
EXTENDS SwarmSearch, TLAPS, FiniteSetTheorems

-----------------------------------------------------------------------------
(* Types. *)

BanEntries == [score : 0 .. BanThreshold, why : Reasons, until : {"none", "running", "over"}]
Scores == [why : Reasons, pts : Nat]
Blameless == {"none", "broad", "sync"}
QueryStates(q) ==
    [pc : {"none", "send", "collect", "grace", "gone"}, asked : SUBSET Peers, todo : SUBSET q.asked,
     sentTo : SUBSET q.asked, responded : SUBSET q.asked, results : {q.results}, got : {q.got},
     end : {q.end}, hits : {q.hits}]
Kinds == {"announce", "bad", "unknown", "query", "result", "reject", "begin", "sync"}

ConnsTyped ==
    /\ conns \in [Peers -> 0 .. MaxConns] /\ closing \subseteq Peers
    /\ peers \subseteq Peers /\ supported \subseteq peers /\ tracker \subseteq Peers
BanTyped == ban \in [Peers -> BanEntries]
BucketTyped == bucket \in [Peers -> 0 .. Burst]
QueriesTyped == DOMAIN query = TxIds /\ \A tx \in TxIds : query[tx] \in QueryStates(query[tx])
FrameTyped(f) == f.from \in Peers /\ f.kind \in Kinds /\ (f.kind \in {"result", "reject"} => f.tx \in TxIds)
FramesTyped ==
    /\ \A f \in net \cup work : FrameTyped(f)
    /\ IsFiniteSet(net) /\ IsFiniteSet(work) /\ asking \subseteq Honest \X TxIds
Typed == ConnsTyped /\ BanTyped /\ BucketTyped /\ QueriesTyped /\ FramesTyped

LEMMA InitTyped == Init => Typed
  <1> SUFFICES ASSUME Init PROVE Typed
    OBVIOUS
  <1>1. ConnsTyped
    BY BoundsAssumption DEF Init, ConnsTyped
  <1>2. BanTyped
    BY BoundsAssumption DEF Init, BanTyped, BanEntries, NoEntry, Reasons
  <1>3. BucketTyped
    BY BoundsAssumption DEF Init, BucketTyped
  <1>4. NoQuery \in QueryStates(NoQuery)
    BY DEF NoQuery, QueryStates
  <1>5. QueriesTyped
    BY <1>4 DEF Init, QueriesTyped
  <1>6. FramesTyped
    BY FS_EmptySet DEF Init, FramesTyped
  <1> QED BY <1>1, <1>2, <1>3, <1>5, <1>6 DEF Typed

(* The ban manager and the limiter. *)

LEMMA BanAddFacts ==
    ASSUME BanTyped, NEW p \in Peers, NEW s \in Scores
    PROVE  /\ BanAdd(p, s) \in [Peers -> BanEntries]
           /\ BanAdd(p, s)[p].why = s.why
           /\ \A r \in Peers \ {p} : BanAdd(p, s)[r] = ban[r]
           /\ ban[p].until # "none" => BanAdd(p, s)[p].until = ban[p].until
  <1> DEFINE e == ban[p]
             sum == IF e.score + s.pts > BanThreshold THEN BanThreshold ELSE e.score + s.pts
             n == [score |-> sum, why |-> s.why,
                   until |-> IF sum >= BanThreshold /\ e.until = "none" THEN "running" ELSE e.until]
  <1>1. e \in BanEntries /\ s.why \in Reasons /\ s.pts \in Nat
    BY DEF BanTyped, Scores
  <1>2. e.score \in 0 .. BanThreshold /\ e.until \in {"none", "running", "over"}
    BY <1>1 DEF BanEntries
  <1>3. sum \in 0 .. BanThreshold
    BY <1>1, <1>2, BoundsAssumption
  <1> HIDE DEF sum, e
  <1>4. n \in BanEntries /\ n.why = s.why /\ (e.until # "none" => n.until = e.until)
    BY <1>1, <1>2, <1>3 DEF BanEntries
  <1>5. BanAdd(p, s) = [ban EXCEPT ![p] = n]
    BY DEF BanAdd, sum, e
  <1> HIDE DEF n
  <1> QED BY <1>4, <1>5 DEF BanTyped, e

LEMMA AfterIsBannedFacts ==
    ASSUME BanTyped, NEW p \in Peers
    PROVE  /\ AfterIsBanned(p) \in [Peers -> BanEntries]
           /\ \A r \in Peers : /\ AfterIsBanned(p)[r].why \in {"none", ban[r].why}
                               /\ ban[r].until = "running" => AfterIsBanned(p)[r].until = "running"
  <1>1. CASE ban[p].until = "over"
    <2> DEFINE n == [ban[p] EXCEPT !.score = 0, !.why = "none", !.until = "none"]
    <2>1. ban[p] \in BanEntries
      BY DEF BanTyped
    <2>0. 0 \in 0 .. BanThreshold /\ "none" \in Reasons
      BY BoundsAssumption DEF Reasons
    <2>2. n \in BanEntries /\ n.why = "none"
      BY <2>0, <2>1 DEF BanEntries
    <2>3. AfterIsBanned(p) = [ban EXCEPT ![p] = n]
      BY <1>1, <2>1 DEF AfterIsBanned, BanTyped
    <2> HIDE DEF n
    <2> QED BY <1>1, <2>2, <2>3 DEF BanTyped
  <1>2. CASE ban[p].until # "over"
    BY <1>2 DEF AfterIsBanned, BanTyped
  <1> QED BY <1>1, <1>2

LEMMA ForgetFacts ==
    ASSUME BanTyped, NEW p \in Peers
    PROVE  /\ Forget(p) \in [Peers -> BanEntries]
           /\ \A r \in Peers : /\ Forget(p)[r].why \in {"none", ban[r].why}
                               /\ ban[r].until = "running" => Forget(p)[r].until = "running"
  <1>1. NoEntry \in BanEntries /\ NoEntry.why = "none"
    BY BoundsAssumption DEF NoEntry, BanEntries, Reasons
  <1> QED BY <1>1 DEF Forget, BanTyped

LEMMA ExpiryFacts ==
    ASSUME BanTyped, NEW p \in Peers, BanExpires(p)
    PROVE  /\ ban' \in [Peers -> BanEntries]
           /\ \A r \in Peers : ban'[r].why = ban[r].why
           /\ \A r \in Peers : ban[r].until = "running" => ban'[r].until # "none"
  <1>1. ban[p] \in BanEntries
    BY DEF BanTyped
  <1> DEFINE n == [ban[p] EXCEPT !.until = "over"]
  <1>2. n \in BanEntries /\ n.why = ban[p].why /\ n.until = "over"
    BY <1>1 DEF BanEntries
  <1>3. ban' = [ban EXCEPT ![p] = n]
    BY <1>1 DEF BanExpires, BanTyped, BanEntries
  <1> HIDE DEF n
  <1> QED BY <1>2, <1>3 DEF BanTyped

LEMMA AllowFacts ==
    ASSUME BucketTyped, NEW p \in Peers
    PROVE  /\ AfterAllow(p) \in [Peers -> 0 .. Burst]
           /\ \A r \in Peers \ {p} : AfterAllow(p)[r] = bucket[r]
           /\ AfterAllow(p)[p] = IF Allow(p) THEN bucket[p] - 1 ELSE bucket[p]
  <1>1. bucket[p] \in 0 .. Burst
    BY DEF BucketTyped
  <1>2. (IF Allow(p) THEN bucket[p] - 1 ELSE bucket[p]) \in 0 .. Burst
    BY <1>1, BoundsAssumption DEF Allow
  <1> QED BY <1>2 DEF AfterAllow, BucketTyped

(* What each step does to the queries. *)

\* One query changes; a pending one stays pending and keeps whom it asked.
QueryMoves(tx, q) == query' = [query EXCEPT ![tx] = q]

LEMMA QueryTypedStep ==
    ASSUME QueriesTyped, NEW tx \in TxIds, NEW q, q \in QueryStates(q), QueryMoves(tx, q)
    PROVE  QueriesTyped' /\ query'[tx] = q /\ \A t \in TxIds \ {tx} : query'[t] = query[t]
  BY DEF QueriesTyped, QueryMoves

LEMMA RegisterFacts ==
    ASSUME ConnsTyped, QueriesTyped, NEW tx \in TxIds, Query(tx)
    PROVE  \E q : /\ QueryMoves(tx, q) /\ q \in QueryStates(q)
                  /\ q.pc = "send" /\ q.got = <<>> /\ q.results = <<>> /\ q.responded = {}
  <1> DEFINE q == [NoQuery EXCEPT !.pc = "send", !.asked = supportedTargets, !.todo = supportedTargets]
  <1>1. supportedTargets \in SUBSET Peers
    BY DEF ConnsTyped, supportedTargets
  <1>2. /\ q.pc = "send" /\ q.got = <<>> /\ q.results = <<>> /\ q.responded = {}
        /\ q.asked = supportedTargets
    BY DEF NoQuery
  <1>3. q \in QueryStates(q)
    BY <1>1 DEF NoQuery, QueryStates
  <1>4. QueryMoves(tx, q)
    BY DEF QueryMoves, Query, registerPending
  <1> QED BY <1>2, <1>3, <1>4

LEMMA OfferFacts ==
    ASSUME QueriesTyped, NEW tx \in TxIds, NEW in, in.from \in query[tx].asked, query' = Offer(tx, in)
    PROVE  \E q : /\ QueryMoves(tx, q) /\ q \in QueryStates(q)
                  /\ q.pc = query[tx].pc /\ q.asked = query[tx].asked /\ q.sentTo = query[tx].sentTo
                  /\ q.got = query[tx].got /\ q.responded = query[tx].responded \cup {in.from}
                  /\ q.results = IF Len(query[tx].results) < ChanCap(tx)
                                 THEN Append(query[tx].results, in) ELSE query[tx].results
  <1> DEFINE R == IF Len(query[tx].results) < ChanCap(tx) THEN Append(query[tx].results, in) ELSE query[tx].results
             q == [query[tx] EXCEPT !.responded = @ \cup {in.from}, !.results = R]
  <1>1. query[tx] \in QueryStates(query[tx])
    BY DEF QueriesTyped
  <1>2. QueryMoves(tx, q)
    BY <1>1 DEF QueryMoves, Offer, QueriesTyped, QueryStates
  <1> HIDE DEF R
  <1>3. /\ q.pc = query[tx].pc /\ q.asked = query[tx].asked /\ q.sentTo = query[tx].sentTo /\ q.got = query[tx].got
        /\ q.responded = query[tx].responded \cup {in.from} /\ q.results = R
    BY <1>1 DEF QueryStates
  <1>4. q \in QueryStates(q)
    BY <1>1, <1>3 DEF QueryStates
  <1> QED BY <1>2, <1>3, <1>4 DEF R

LEMMA SendFacts ==
    ASSUME QueriesTyped, NEW tx \in TxIds, NEW p \in Peers, SendExtension(tx, p)
    PROVE  \E q : /\ QueryMoves(tx, q) /\ q \in QueryStates(q)
                  /\ q.pc = "send" /\ q.asked = query[tx].asked /\ q.responded = query[tx].responded
                  /\ q.got = query[tx].got /\ q.results = query[tx].results
  <1>1. query[tx] \in QueryStates(query[tx]) /\ query[tx].pc = "send" /\ p \in query[tx].asked
    BY DEF QueriesTyped, QueryStates, SendExtension
  <1>2. CASE query' = [query EXCEPT ![tx].todo = @ \ {p}]
    <2> DEFINE q == [query[tx] EXCEPT !.todo = @ \ {p}]
    <2>1. QueryMoves(tx, q)
      BY <1>1, <1>2 DEF QueryMoves, QueriesTyped, QueryStates
    <2>2. /\ q.pc = "send" /\ q.asked = query[tx].asked /\ q.responded = query[tx].responded
          /\ q.got = query[tx].got /\ q.results = query[tx].results
      BY <1>1 DEF QueryStates
    <2>3. q \in QueryStates(q)
      BY <1>1 DEF QueryStates
    <2> QED BY <2>1, <2>2, <2>3
  <1>3. CASE query' = [query EXCEPT ![tx].todo = @ \ {p}, ![tx].sentTo = @ \cup {p}]
    <2> DEFINE q == [query[tx] EXCEPT !.todo = @ \ {p}, !.sentTo = @ \cup {p}]
    <2>1. QueryMoves(tx, q)
      BY <1>1, <1>3 DEF QueryMoves, QueriesTyped, QueryStates
    <2>2. /\ q.pc = "send" /\ q.asked = query[tx].asked /\ q.responded = query[tx].responded
          /\ q.got = query[tx].got /\ q.results = query[tx].results
      BY <1>1 DEF QueryStates
    <2>3. q \in QueryStates(q)
      BY <1>1 DEF QueryStates
    <2> QED BY <2>1, <2>2, <2>3
  <1> QED BY <1>2, <1>3 DEF SendExtension

LEMMA SentFacts ==
    ASSUME QueriesTyped, NEW tx \in TxIds, Sent(tx)
    PROVE  \E q : /\ QueryMoves(tx, q) /\ q \in QueryStates(q)
                  /\ q.pc = IF query[tx].sentTo = {} THEN "grace" ELSE "collect"
                  /\ q.asked = query[tx].asked /\ q.responded = query[tx].responded
                  /\ q.got = query[tx].got /\ q.results = query[tx].results /\ q.sentTo = query[tx].sentTo
  <1> DEFINE c == IF query[tx].sentTo = {} THEN "grace" ELSE "collect"
             e == IF query[tx].sentTo = {} THEN "failed" ELSE query[tx].end
             q == [query[tx] EXCEPT !.pc = c, !.end = e]
  <1>1. query[tx] \in QueryStates(query[tx]) /\ c \in {"grace", "collect"}
    BY DEF QueriesTyped
  <1>2. QueryMoves(tx, q)
    BY <1>1 DEF QueryMoves, QueriesTyped, QueryStates, Sent
  <1> HIDE DEF c, e
  <1>3. /\ q.pc = c /\ q.asked = query[tx].asked /\ q.responded = query[tx].responded
        /\ q.got = query[tx].got /\ q.results = query[tx].results /\ q.sentTo = query[tx].sentTo
    BY <1>1 DEF QueryStates
  <1>4. q \in QueryStates(q)
    BY <1>1 DEF QueryStates
  <1> QED BY <1>2, <1>3, <1>4 DEF c

LEMMA ReturnFacts ==
    ASSUME NEW q, q \in QueryStates(q), NEW end
    PROVE  /\ Return(q, end) \in QueryStates(Return(q, end))
           /\ Return(q, end).pc = "grace" /\ Return(q, end).asked = q.asked
  BY DEF Return, QueryStates

LEMMA CollectFacts ==
    ASSUME QueriesTyped, NEW tx \in TxIds, Collect(tx)
    PROVE  \E q : /\ QueryMoves(tx, q) /\ q \in QueryStates(q) /\ q.asked = query[tx].asked
                  /\ \/ q.pc = "grace"
                     \/ /\ q.pc = "collect" /\ q.responded = query[tx].responded /\ q.sentTo = query[tx].sentTo
                        /\ q.results = Tail(query[tx].results)
                        /\ q.got = Append(query[tx].got, Head(query[tx].results))
                        /\ Len(q.got) < Expected(tx)
  <1> DEFINE n == [query[tx] EXCEPT !.results = Tail(@), !.got = Append(@, Head(query[tx].results))]
  <1>1. query[tx] \in QueryStates(query[tx]) /\ query[tx].pc = "collect"
    BY DEF QueriesTyped, Collect
  <1>2. /\ n.pc = "collect" /\ n.responded = query[tx].responded /\ n.results = Tail(query[tx].results)
        /\ n.got = Append(query[tx].got, Head(query[tx].results)) /\ n.asked = query[tx].asked
        /\ n.sentTo = query[tx].sentTo
    BY <1>1 DEF QueryStates
  <1>3. n \in QueryStates(n)
    BY <1>1, <1>2 DEF QueryStates
  <1>4. QueryMoves(tx, IF Len(n.got) < Expected(tx) THEN n ELSE Return(n, "complete"))
    BY DEF Collect, QueryMoves
  <1> HIDE DEF n
  <1>5. CASE Len(n.got) < Expected(tx)
    BY <1>2, <1>3, <1>4, <1>5
  <1>6. CASE ~(Len(n.got) < Expected(tx))
    <2>1. QueryMoves(tx, Return(n, "complete"))
      BY <1>4, <1>6
    <2> QED BY <1>2, <1>3, <2>1, ReturnFacts
  <1> QED BY <1>5, <1>6

LEMMA DeadlineFacts ==
    ASSUME QueriesTyped, NEW tx \in TxIds, Deadline(tx)
    PROVE  \E q : QueryMoves(tx, q) /\ q \in QueryStates(q) /\ q.pc = "grace" /\ q.asked = query[tx].asked
  <1>1. query[tx] \in QueryStates(query[tx]) /\ QueryMoves(tx, Return(query[tx], "deadline"))
    BY DEF QueriesTyped, Deadline, QueryMoves
  <1> QED BY <1>1, ReturnFacts

LEMMA UnregisterFacts ==
    ASSUME QueriesTyped, NEW tx \in TxIds, unregisterPending(tx)
    PROVE  \E q : QueryMoves(tx, q) /\ q \in QueryStates(q) /\ q.pc = "gone"
  <1> DEFINE q == [query[tx] EXCEPT !.pc = "gone"]
  <1>1. query[tx] \in QueryStates(query[tx])
    BY DEF QueriesTyped
  <1>2. QueryMoves(tx, q)
    BY <1>1 DEF unregisterPending, QueryMoves, QueriesTyped, QueryStates
  <1>3. q \in QueryStates(q) /\ q.pc = "gone"
    BY <1>1 DEF QueryStates
  <1> QED BY <1>2, <1>3

(* The frames peers send. *)

\* The order of a set of positions has a place for each of them.
LEMMA InOrderNonempty ==
    ASSUME NEW S, IsFiniteSet(S), S # {} PROVE 1 \in DOMAIN InOrder(S)
  <1>1. Cardinality(S) \in Nat /\ Cardinality(S) # 0
    BY FS_CardinalityType, FS_EmptySet
  <1> QED BY <1>1 DEF InOrder

\* A peer that shares its content names every torrent it found: no total without hits.
LEMMA WireNonempty ==
    ASSUME NEW hits \in LocalResults, Len(hits) # 0, NEW caps, caps.content
    PROVE  hitsToWire(hits, caps) # <<>>
  <1> DEFINE Of(i) == {j \in DOMAIN hits : hits[j].ih = hits[i].ih}
             matches(i) == IF caps.content THEN Cardinality({j \in Of(i) : hits[j].doc = "content"}) ELSE 0
             S == {i \in Firsts(hits) : caps.content \/ \E j \in Of(i) : hits[j].doc = "name"}
             wire(i) == [ih |-> hits[i].ih, rank |-> hits[i].rank, matches |-> matches(i), paths |-> caps.file /\ matches(i) > 0]
  <1>1. hitsToWire(hits, caps) = [k \in DOMAIN InOrder(S) |-> wire(InOrder(S)[k])]
    BY DEF hitsToWire
  <1>2. Len(hits) \in Nat /\ DOMAIN hits = 1 .. Len(hits)
    BY ResultsAssumption
  <1>3. 1 \in S /\ S \subseteq 1 .. Len(hits)
    BY <1>2 DEF Firsts
  <1> HIDE DEF S, wire
  <1>4. IsFiniteSet(S)
    <2>1. 1 \in Int /\ Len(hits) \in Int
      BY <1>2
    <2>2. IsFiniteSet(1 .. Len(hits))
      BY <2>1, FS_Interval
    <2> QED BY <1>3, <2>2, FS_Subset
  <1>5. 1 \in DOMAIN InOrder(S)
    BY <1>3, <1>4, InOrderNonempty
  <1>6. DOMAIN hitsToWire(hits, caps) = DOMAIN InOrder(S)
    BY <1>1
  <1> QED BY <1>5, <1>6

LEMMA AnswerFacts ==
    ASSUME NEW p \in Peers, NEW tx \in TxIds, NEW caps, NEW hits \in SearchLocal
    PROVE  LET a == Answer(p, Frame(p, "query", tx), caps, hits)
           IN  /\ a.from = p /\ a.tx = tx /\ a.kind \in {"result", "reject"}
               /\ caps.content /\ a.kind = "result" => ~resultIsMalformed(a)
  <1> DEFINE a == Answer(p, Frame(p, "query", tx), caps, hits)
  <1>0. Frame(p, "query", tx).tx = tx
    BY DEF Frame
  <1>1. CASE a = Frame(p, "reject", tx)
    BY <1>1 DEF Frame
  <1>2. CASE a = EncodeResult(p, tx, Len(hits), hitsToWire(hits, caps)) /\ hits # SearchError
    <2> DEFINE w == hitsToWire(hits, caps)
               v == [k \in DOMAIN w |-> [w[k] EXCEPT !.rank = clampRank(@)]]
    <2>1. a = [Frame(p, "result", tx) EXCEPT !.total = Len(hits), !.hits = v]
      BY <1>2 DEF EncodeResult
    <2> HIDE DEF w, v
    <2>2. /\ a.from = p /\ a.tx = tx /\ a.kind = "result" /\ a.total = Len(hits) /\ a.hits = v /\ a.ok = TRUE
      BY <2>1 DEF Frame
    <2>3. hits \in LocalResults
      BY <1>2 DEF SearchLocal
    <2>4. Len(hits) \in Nat
      BY <2>3, ResultsAssumption
    <2>5. ASSUME caps.content, v = <<>> PROVE Len(hits) = 0
      <3>1. DOMAIN v = DOMAIN w
        BY DEF v
      <3>2. w = [k \in DOMAIN w |-> w[k]]
        BY DEF w, hitsToWire
      <3>3. DOMAIN w = {}
        BY <2>5, <3>1
      <3>4. w = <<>>
        BY <3>2, <3>3
      <3> QED BY <2>3, <2>5, <3>4, WireNonempty DEF w
    <2>6. caps.content => ~resultIsMalformed(a)
      BY <2>2, <2>4, <2>5 DEF resultIsMalformed
    <2> QED BY <2>2, <2>6
  <1>3. a = Frame(p, "reject", tx) \/ (a = EncodeResult(p, tx, Len(hits), hitsToWire(hits, caps)) /\ hits # SearchError)
    BY <1>0 DEF Answer
  <1> QED BY <1>1, <1>2, <1>3

LEMMA ForeignFacts ==
    ASSUME NEW p \in Peers, NEW f \in Foreign(p)
    PROVE  FrameTyped(f) /\ f.from = p /\ f.kind \notin Limited
  <1>1. CASE f \in {Frame(p, k, 0) : k \in {"announce", "bad", "unknown"}}
    BY <1>1 DEF Frame, FrameTyped, Kinds, Limited
  <1>2. CASE f \in {Frame(p, "reject", tx) : tx \in TxIds}
    BY <1>2 DEF Frame, FrameTyped, Kinds, Limited
  <1>3. CASE \E tx \in TxIds, w \in ForeignHits, ok \in BOOLEAN : f = ForeignResult(p, tx, w, ok)
    <2>1. PICK tx \in TxIds, w \in ForeignHits, ok \in BOOLEAN : f = ForeignResult(p, tx, w, ok)
      BY <1>3
    <2> QED BY <2>1 DEF Frame, FrameTyped, Kinds, Limited, ForeignResult
  <1> QED BY <1>1, <1>2, <1>3 DEF Foreign

LEMMA AskFacts ==
    ASSUME NEW p \in Peers, NEW s, NEW short
    PROVE  LET f == [Frame(p, "query", 0) EXCEPT !.scope = s, !.short = short]
           IN  f.from = p /\ f.kind = "query" /\ f.short = short /\ FrameTyped(f)
  BY DEF Frame, FrameTyped, Kinds

-----------------------------------------------------------------------------
(* The types are kept. *)

LEMMA ArrivalTyped ==
    ASSUME FramesTyped, NEW f, FrameTyped(f), net' = net \cup {f}, work' = work, asking' \subseteq asking
    PROVE  FramesTyped'
  <1>1. IsFiniteSet(net')
    BY FS_AddElement DEF FramesTyped
  <1> QED BY <1>1 DEF FramesTyped, FrameTyped

LEMMA HandledTyped ==
    ASSUME FramesTyped, NEW f \in work, Handled(f), UNCHANGED <<net, asking>>
    PROVE  FramesTyped'
  <1>1. IsFiniteSet(work')
    BY FS_RemoveElement DEF FramesTyped, Handled
  <1> QED BY <1>1 DEF FramesTyped, FrameTyped, Handled

LEMMA ScoresTyped ==
    /\ ScoreBadBencode \in Scores /\ ScoreMalformedResult \in Scores /\ ScoreStaleTxID \in Scores
    /\ ScoreUnexpectedMessage \in Scores /\ ScoreRateLimited \in Scores /\ ScoreQueryTooBroad \in Scores
    /\ \A s \in SyncCharges \cup {ScoreUnexpectedMessage} : InSync(s) \in Scores /\ InSync(s).why = "sync"
    /\ ScoreQueryTooBroad.why = "broad"
  BY DEF ScoreBadBencode, ScoreMalformedResult, ScoreStaleTxID, ScoreUnexpectedMessage, ScoreRateLimited, ScoreQueryTooBroad,
         ScoreBadRecordSig, SyncCharges, InSync, Scores, Reasons

\* A sync frame is charged as such or not at all, except where it finds no token.
LEMMA SyncCases ==
    ASSUME NEW f, handleSyncFrame(f)
    PROVE  /\ ban' = ban \/ \E s \in Scores : ban' = BanAdd(f.from, s) /\ (s.why = "sync" \/ (f.kind = "begin" /\ ~Allow(f.from)))
           /\ bucket' = bucket \/ (bucket' = AfterAllow(f.from) /\ f.kind = "begin")
  <1>1. CASE ban' = BanAdd(f.from, InSync(ScoreUnexpectedMessage)) /\ UNCHANGED bucket
    BY <1>1, ScoresTyped
  <1>2. CASE f.kind = "begin" /\ ~Allow(f.from) /\ bucket' = AfterAllow(f.from) /\ ban' = BanAdd(f.from, ScoreRateLimited)
    BY <1>2, ScoresTyped
  <1>3. CASE /\ bucket' = IF f.kind = "begin" THEN AfterAllow(f.from) ELSE bucket
             /\ ban' \in {ban} \cup {BanAdd(f.from, InSync(s)) : s \in SyncCharges}
    <2>1. ban' = ban \/ \E s \in SyncCharges : ban' = BanAdd(f.from, InSync(s))
      BY <1>3
    <2> QED BY <1>3, <2>1, ScoresTyped
  <1> QED BY <1>1, <1>2, <1>3 DEF handleSyncFrame

\* A result or a reject is charged, offered to the query that expects it, or ignored.
LEMMA RouteCases ==
    ASSUME FramesTyped, NEW f \in work, routeResult(f)
    PROVE  /\ f.tx \in TxIds /\ f.from \in Peers
           /\ \/ /\ query' = query /\ \E s \in Scores : ban' = BanAdd(f.from, s)
                 /\ \/ f.kind = "result" /\ resultIsMalformed(f)
                    \/ ~pendingOf(f.tx) \/ f.from \notin query[f.tx].asked
              \/ /\ ban' = ban /\ pendingOf(f.tx) /\ f.from \in query[f.tx].asked /\ firstFrom(f.tx, f.from)
                 /\ query' = Offer(f.tx, [from |-> f.from, reject |-> f.kind = "reject", hits |-> f.hits])
              \/ ban' = ban /\ query' = query
  <1>1. f.tx \in TxIds /\ f.from \in Peers
    BY DEF FramesTyped, FrameTyped, routeResult
  <1>2. CASE f.kind = "result" /\ resultIsMalformed(f)
    BY <1>1, <1>2, ScoresTyped DEF routeResult, Charge
  <1>3. CASE ~(f.kind = "result" /\ resultIsMalformed(f))
    <2>1. Route(f)
      BY <1>3 DEF routeResult
    <2>2. CASE ~pendingOf(f.tx) \/ f.from \notin query[f.tx].asked
      BY <1>1, <2>1, <2>2, ScoresTyped DEF Route, Charge
    <2>3. CASE pendingOf(f.tx) /\ f.from \in query[f.tx].asked
      BY <1>1, <2>1, <2>3 DEF Route
    <2> QED BY <2>2, <2>3
  <1> QED BY <1>2, <1>3

LEMMA QueryStepTyped ==
    ASSUME ConnsTyped, QueriesTyped, NEW tx \in TxIds, Query(tx) \/ Querying(tx) \/ Deadline(tx) \/ unregisterPending(tx)
    PROVE  QueriesTyped'
  <1>1. \E q : QueryMoves(tx, q) /\ q \in QueryStates(q)
    <2>1. CASE Query(tx)
      BY <2>1, RegisterFacts
    <2>2. CASE \E p \in Peers : SendExtension(tx, p)
      BY <2>2, SendFacts
    <2>3. CASE Sent(tx)
      BY <2>3, SentFacts
    <2>4. CASE Collect(tx)
      BY <2>4, CollectFacts
    <2>5. CASE Deadline(tx)
      BY <2>5, DeadlineFacts
    <2>6. CASE unregisterPending(tx)
      BY <2>6, UnregisterFacts
    <2> QED BY <2>1, <2>2, <2>3, <2>4, <2>5, <2>6 DEF Querying
  <1> QED BY <1>1, QueryTypedStep

LEMMA TypedStep == Typed /\ [Next]_vars => Typed'
  <1> SUFFICES ASSUME Typed, [Next]_vars PROVE Typed'
    OBVIOUS
  <1>0. ConnsTyped /\ BanTyped /\ BucketTyped /\ QueriesTyped /\ FramesTyped
    BY DEF Typed
  <1> USE <1>0
  <1>1. ASSUME NEW p \in Peers, PeerConnAdded(p) \/ OnRemoteHandshake(p) \/ OnPeerClosed(p) \/ removeConn(p)
        PROVE  Typed'
    <2>1. CASE PeerConnAdded(p)
      <3>1. conns' \in [Peers -> 0 .. MaxConns]
        BY <2>1, BoundsAssumption DEF PeerConnAdded, ConnsTyped
      <3>2. ConnsTyped'
        BY <2>1, <3>1 DEF PeerConnAdded, ConnsTyped, NotePeerAdded, trackConn
      <3> QED BY <2>1, <3>2 DEF PeerConnAdded, Typed, BanTyped, BucketTyped, QueriesTyped, FramesTyped
    <2>2. CASE OnRemoteHandshake(p)
      <3>1. BanTyped'
        BY <2>2, AfterIsBannedFacts DEF OnRemoteHandshake, BanTyped
      <3>2. ConnsTyped'
        BY <2>2 DEF OnRemoteHandshake, ConnsTyped
      <3> QED BY <2>2, <3>1, <3>2 DEF OnRemoteHandshake, Typed, BucketTyped, QueriesTyped, FramesTyped
    <2>3. CASE OnPeerClosed(p)
      <3>1. BanTyped'
        BY <2>3, ForgetFacts DEF OnPeerClosed, BanTyped
      <3>2. conns' \in [Peers -> 0 .. MaxConns]
        BY <2>3, BoundsAssumption DEF OnPeerClosed, ConnsTyped
      <3>3. ConnsTyped'
        BY <2>3, <3>2 DEF OnPeerClosed, ConnsTyped
      <3>4. BucketTyped'
        BY <2>3, BoundsAssumption DEF OnPeerClosed, BucketTyped
      <3> QED BY <2>3, <3>1, <3>3, <3>4 DEF OnPeerClosed, Typed, QueriesTyped, FramesTyped
    <2>4. CASE removeConn(p)
      <3>1. ConnsTyped'
        BY <2>4 DEF removeConn, ConnsTyped, untrackConn
      <3> QED BY <2>4, <3>1 DEF removeConn, Typed, BanTyped, BucketTyped, QueriesTyped, FramesTyped
    <2> QED BY <1>1, <2>1, <2>2, <2>3, <2>4
  <1>2. ASSUME NEW p \in Peers, Noise(p) PROVE Typed'
    <2>1. PICK f \in Foreign(p) : net' = net \cup {f}
      BY <1>2 DEF Noise
    <2>2. FramesTyped'
      BY <1>2, <2>1, ForeignFacts, ArrivalTyped DEF Noise
    <2> QED BY <1>2, <2>2 DEF Noise, Typed, ConnVars, ConnsTyped, BanTyped, BucketTyped, QueriesTyped
  <1>3. ASSUME NEW p \in Peers, PeerAsks(p) PROVE Typed'
    <2>1. PICK s, short : net' = net \cup {[Frame(p, "query", 0) EXCEPT !.scope = s, !.short = short]}
      BY <1>3 DEF PeerAsks
    <2>2. FramesTyped'
      <3> DEFINE f == [Frame(p, "query", 0) EXCEPT !.scope = s, !.short = short]
      <3>1. FrameTyped(f)
        BY AskFacts
      <3>2. net' = net \cup {f} /\ work' = work /\ asking' \subseteq asking
        BY <1>3, <2>1 DEF PeerAsks
      <3> HIDE DEF f
      <3> QED BY <3>1, <3>2, ArrivalTyped
    <2> QED BY <1>3, <2>2 DEF PeerAsks, Typed, ConnVars, ConnsTyped, BanTyped, BucketTyped, QueriesTyped
  <1>31. ASSUME NEW p \in Peers, PeerSyncs(p) PROVE Typed'
    <2>1. PICK k \in {"begin", "sync"} : net' = net \cup {Frame(p, k, 0)}
      BY <1>31 DEF PeerSyncs
    <2>2. FramesTyped'
      <3> DEFINE f == Frame(p, k, 0)
      <3>1. FrameTyped(f)
        BY DEF Frame, FrameTyped, Kinds
      <3>2. net' = net \cup {f} /\ work' = work /\ asking' \subseteq asking
        BY <1>31, <2>1 DEF PeerSyncs
      <3> HIDE DEF f
      <3> QED BY <3>1, <3>2, ArrivalTyped
    <2> QED BY <1>31, <2>2 DEF PeerSyncs, Typed, ConnVars, ConnsTyped, BanTyped, BucketTyped, QueriesTyped
  <1>4. ASSUME NEW p \in Peers, NEW tx \in TxIds, PeerAnswers(p, tx) PROVE Typed'
    <2>1. UNCHANGED <<ConnVars, ban, bucket, query, work>> /\ asking' \subseteq asking
      BY <1>4 DEF PeerAnswers
    <2>2. CASE net' = net
      BY <2>1, <2>2 DEF Typed, ConnVars, ConnsTyped, BanTyped, BucketTyped, QueriesTyped, FramesTyped
    <2>3. ASSUME NEW caps, NEW hits \in SearchLocal, net' = net \cup {Answer(p, Frame(p, "query", tx), caps, hits)}
          PROVE  Typed'
      <3>1. FrameTyped(Answer(p, Frame(p, "query", tx), caps, hits))
        BY AnswerFacts DEF FrameTyped, Kinds
      <3>2. FramesTyped'
        BY <2>1, <2>3, <3>1, ArrivalTyped
      <3> QED BY <2>1, <3>2 DEF Typed, ConnVars, ConnsTyped, BanTyped, BucketTyped, QueriesTyped
    <2> QED BY <1>4, <2>2, <2>3 DEF PeerAnswers
  <1>5. ASSUME NEW p \in Peers, Refill(p) PROVE Typed'
    <2>1. BucketTyped'
      BY <1>5, BoundsAssumption DEF Refill, BucketTyped
    <2> QED BY <1>5, <2>1 DEF Refill, Typed, ConnVars, ConnsTyped, BanTyped, QueriesTyped, FramesTyped
  <1>6. ASSUME NEW p \in Peers, BanExpires(p) PROVE Typed'
    <2>1. BanTyped'
      BY <1>6, ExpiryFacts DEF BanTyped
    <2> QED BY <1>6, <2>1 DEF BanExpires, Typed, ConnVars, ConnsTyped, BucketTyped, QueriesTyped, FramesTyped
  <1>7. ASSUME NEW f \in net \cup work, Drop(f) \/ HandleMessage(f) PROVE Typed'
    <2>1. f.from \in Peers
      BY DEF FramesTyped, FrameTyped
    <2>2. BanTyped'
      BY <1>7, <2>1, AfterIsBannedFacts DEF Drop, HandleMessage, BanTyped
    <2>3. IsFiniteSet(net') /\ IsFiniteSet(work')
      BY <1>7, FS_RemoveElement, FS_AddElement DEF Drop, HandleMessage, FramesTyped
    <2>4. FramesTyped'
      BY <1>7, <2>3 DEF Drop, HandleMessage, FramesTyped, FrameTyped
    <2> QED BY <1>7, <2>2, <2>4 DEF Drop, HandleMessage, Typed, ConnVars, ConnsTyped, BucketTyped, QueriesTyped
  <1>8. ASSUME NEW f \in net \cup work, BadFrame(f) PROVE Typed'
    <2>1. f \in work /\ f.from \in Peers
      BY <1>8 DEF FramesTyped, FrameTyped, BadFrame, Handled
    <2>2. FramesTyped'
      BY <1>8, <2>1, HandledTyped DEF BadFrame
    <2>3. BanTyped'
      BY <1>8, <2>1, BanAddFacts, ScoresTyped DEF BadFrame, Charge, BanTyped
    <2> QED BY <1>8, <2>2, <2>3 DEF BadFrame, Charge, Typed, ConnVars, ConnsTyped, BucketTyped, QueriesTyped
  <1>9. ASSUME NEW f \in net \cup work, routeResult(f) PROVE Typed'
    <2>1. f \in work
      BY <1>9 DEF routeResult, Handled
    <2>2. FramesTyped'
      BY <1>9, <2>1, HandledTyped DEF routeResult
    <2>3. BanTyped'
      <3>1. f.from \in Peers /\ (ban' = ban \/ \E s \in Scores : ban' = BanAdd(f.from, s))
        BY <1>9, <2>1, RouteCases
      <3> QED BY <3>1, BanAddFacts DEF BanTyped
    <2>4. QueriesTyped'
      <3>1. CASE query' = query
        BY <3>1 DEF QueriesTyped
      <3>2. CASE query' # query
        <4> DEFINE in == [from |-> f.from, reject |-> f.kind = "reject", hits |-> f.hits]
        <4>1. query' = Offer(f.tx, in) /\ in.from \in query[f.tx].asked /\ f.tx \in TxIds
          BY <1>9, <2>1, <3>2, RouteCases
        <4> HIDE DEF in
        <4> QED BY <4>1, OfferFacts, QueryTypedStep
      <3> QED BY <3>1, <3>2
    <2> QED BY <1>9, <2>2, <2>3, <2>4 DEF routeResult, Typed, ConnVars, ConnsTyped, BucketTyped
  <1>10. ASSUME NEW f \in net \cup work, handlePeerAnnounce(f) PROVE Typed'
    <2>1. f \in work
      BY <1>10 DEF handlePeerAnnounce, Handled
    <2>2. FramesTyped'
      BY <1>10, <2>1, HandledTyped DEF handlePeerAnnounce
    <2>3. ConnsTyped'
      BY <1>10 DEF handlePeerAnnounce, Announced, ConnsTyped
    <2> QED BY <1>10, <2>2, <2>3 DEF handlePeerAnnounce, Typed, BanTyped, BucketTyped, QueriesTyped
  <1>11. ASSUME NEW f \in net \cup work, handleQuery(f) PROVE Typed'
    <2>1. f \in work /\ f.from \in Peers
      BY <1>11 DEF handleQuery, Handled, FramesTyped, FrameTyped
    <2>2. FramesTyped'
      BY <1>11, <2>1, HandledTyped DEF handleQuery
    <2>3. BucketTyped'
      BY <1>11, <2>1, AllowFacts DEF handleQuery, BucketTyped
    <2>4. ban' = ban \/ \E s \in Scores : ban' = BanAdd(f.from, s)
      BY <1>11, ScoresTyped DEF handleQuery
    <2>5. BanTyped'
      BY <2>1, <2>4, BanAddFacts DEF BanTyped
    <2> QED BY <1>11, <2>2, <2>3, <2>5 DEF handleQuery, Typed, ConnVars, ConnsTyped, QueriesTyped
  <1>111. ASSUME NEW f \in net \cup work, handleSyncFrame(f) PROVE Typed'
    <2>1. f \in work /\ f.from \in Peers
      BY <1>111 DEF handleSyncFrame, Handled, FramesTyped, FrameTyped
    <2>2. FramesTyped'
      BY <1>111, <2>1, HandledTyped DEF handleSyncFrame
    <2>3. BucketTyped'
      BY <1>111, <2>1, AllowFacts, SyncCases DEF BucketTyped
    <2>4. ban' = ban \/ \E s \in Scores : ban' = BanAdd(f.from, s)
      BY <1>111, SyncCases
    <2>5. BanTyped'
      BY <2>1, <2>4, BanAddFacts DEF BanTyped
    <2> QED BY <1>111, <2>2, <2>3, <2>5 DEF handleSyncFrame, Typed, ConnVars, ConnsTyped, QueriesTyped
  <1>12. ASSUME NEW tx \in TxIds, Query(tx) \/ Querying(tx) \/ Deadline(tx) \/ unregisterPending(tx) PROVE Typed'
    <2>1. QueriesTyped'
      BY <1>12, QueryStepTyped
    <2>2. UNCHANGED <<ConnVars, ban, bucket, net, work, left>>
      BY <1>12 DEF Query, Querying, SendExtension, Sent, Collect, Deadline, unregisterPending
    <2>3. asking' \subseteq Honest \X TxIds
      BY <1>12 DEF Query, Querying, SendExtension, Sent, Collect, Deadline, unregisterPending, FramesTyped
    <2> QED BY <2>1, <2>2, <2>3 DEF Typed, ConnVars, ConnsTyped, BanTyped, BucketTyped, FramesTyped
  <1>13. CASE UNCHANGED vars
    BY <1>13 DEF vars, Typed, ConnsTyped, BanTyped, BucketTyped, QueriesTyped, FramesTyped
  <1> QED BY <1>1, <1>2, <1>3, <1>31, <1>4, <1>5, <1>6, <1>7, <1>8, <1>9, <1>10, <1>11, <1>111, <1>12, <1>13
          DEF Next, Connections, Handling

LEMMA AlwaysTyped == Spec => []Typed
  BY InitTyped, TypedStep, PTL DEF Spec


-----------------------------------------------------------------------------
(* Entries and bans. *)

\* No frame handled after a disconnect brings the peer's entry back, for any number of peers and
\* connections: handlePeerAnnounce only writes to entries that exist, and OnRemoteHandshake runs on
\* an open connection.
THEOREM NoZombiesEver == Spec => []NoZombies
  <1>1. Init => NoZombies
    BY DEF Init, NoZombies
  <1>2. Typed /\ NoZombies /\ [Next]_vars => NoZombies'
    <2> SUFFICES ASSUME Typed, NoZombies, [Next]_vars PROVE NoZombies'
      OBVIOUS
    <2>0. conns \in [Peers -> Nat] /\ peers \subseteq Peers
      BY DEF Typed, ConnsTyped
    <2>1. ASSUME NEW p \in Peers, PeerConnAdded(p) PROVE NoZombies'
      BY <2>0, <2>1 DEF PeerConnAdded, NotePeerAdded, NoZombies
    <2>2. ASSUME NEW p \in Peers, OnRemoteHandshake(p) PROVE NoZombies'
      BY <2>0, <2>2 DEF OnRemoteHandshake, NoZombies
    <2>3. ASSUME NEW p \in Peers, OnPeerClosed(p) PROVE NoZombies'
      BY <2>0, <2>3 DEF OnPeerClosed, NoZombies
    <2>4. CASE UNCHANGED <<conns, peers>>
      BY <2>4 DEF NoZombies
    <2>5. ASSUME NEW p \in Peers, removeConn(p) \/ Noise(p) \/ PeerAsks(p) \/ PeerSyncs(p) \/ Refill(p) \/ BanExpires(p)
                                  \/ \E tx \in TxIds : PeerAnswers(p, tx)
          PROVE  NoZombies'
      BY <2>4, <2>5 DEF removeConn, Noise, PeerAsks, PeerSyncs, Refill, BanExpires, PeerAnswers, ConnVars
    <2>6. ASSUME NEW f \in net \cup work, Drop(f) \/ Handling(f) PROVE NoZombies'
      BY <2>4, <2>6 DEF Drop, Handling, HandleMessage, BadFrame, routeResult, handlePeerAnnounce, Announced, handleQuery, handleSyncFrame, ConnVars
    <2>7. ASSUME NEW tx \in TxIds, Query(tx) \/ Querying(tx) \/ Deadline(tx) \/ unregisterPending(tx) PROVE NoZombies'
      BY <2>4, <2>7 DEF Query, Querying, SendExtension, Sent, Collect, Deadline, unregisterPending, ConnVars
    <2> QED BY <2>1, <2>2, <2>3, <2>4, <2>5, <2>6, <2>7 DEF Next, Connections, vars
  <1> QED BY <1>1, <1>2, AlwaysTyped, PTL DEF Spec

\* A ban ends by time alone: neither a charge, a reconnect, a handshake nor the reading of another
\* ban takes it back, for any threshold (banman.Add, IsBanned, Forget).
THEOREM BansHold == Spec => BanHolds
  <1>1. Typed /\ [Next]_vars => [\A p \in Peers : IsBanned(p) => ban'[p].until # "none"]_vars
    <2> SUFFICES ASSUME Typed, Next, NEW b \in Peers, IsBanned(b) PROVE ban'[b].until # "none"
      OBVIOUS
    <2>0. BanTyped /\ FramesTyped /\ ban[b].until = "running"
      BY DEF Typed, IsBanned
    <2>1. CASE ban' = ban
      BY <2>0, <2>1
    <2>2. ASSUME NEW p \in Peers, ban' = AfterIsBanned(p) \/ ban' = Forget(p) \/ BanExpires(p)
          PROVE  ban'[b].until # "none"
      <3>1. CASE ban' = AfterIsBanned(p)
        BY <2>0, <3>1, AfterIsBannedFacts
      <3>2. CASE ban' = Forget(p)
        BY <2>0, <3>2, ForgetFacts
      <3>3. CASE BanExpires(p)
        BY <2>0, <3>3, ExpiryFacts
      <3> QED BY <2>2, <3>1, <3>2, <3>3
    <2>3. ASSUME NEW p \in Peers, NEW s \in Scores, ban' = BanAdd(p, s) PROVE ban'[b].until # "none"
      <3>1. CASE b = p
        BY <2>0, <2>3, <3>1, BanAddFacts
      <3>2. CASE b # p
        BY <2>0, <2>3, <3>2, BanAddFacts
      <3> QED BY <3>1, <3>2
    <2>4. ASSUME NEW p \in Peers, Connections(p) \/ Noise(p) \/ PeerAsks(p) \/ PeerSyncs(p) \/ Refill(p) \/ BanExpires(p)
                                  \/ \E tx \in TxIds : PeerAnswers(p, tx)
          PROVE  ban'[b].until # "none"
      BY <2>1, <2>2, <2>4 DEF Connections, PeerConnAdded, OnRemoteHandshake, OnPeerClosed, removeConn, Noise, PeerAsks, PeerSyncs, Refill, PeerAnswers
    <2>5. ASSUME NEW f \in net \cup work, Drop(f) \/ HandleMessage(f) \/ handlePeerAnnounce(f) PROVE ban'[b].until # "none"
      <3>1. f.from \in Peers
        BY <2>0 DEF FramesTyped, FrameTyped
      <3> QED BY <2>1, <2>2, <2>5, <3>1 DEF Drop, HandleMessage, handlePeerAnnounce
    <2>6. ASSUME NEW f \in net \cup work, BadFrame(f) \/ routeResult(f) \/ handleQuery(f) \/ handleSyncFrame(f)
          PROVE  ban'[b].until # "none"
      <3>1. f \in work /\ f.from \in Peers
        BY <2>0, <2>6 DEF FramesTyped, FrameTyped, BadFrame, routeResult, handleQuery, handleSyncFrame, Handled
      <3>2. ban' = ban \/ \E s \in Scores : ban' = BanAdd(f.from, s)
        <4>1. CASE BadFrame(f)
          BY <4>1, ScoresTyped DEF BadFrame, Charge
        <4>2. CASE routeResult(f)
          BY <2>0, <3>1, <4>2, RouteCases
        <4>3. CASE handleQuery(f)
          BY <4>3, ScoresTyped DEF handleQuery
        <4>4. CASE handleSyncFrame(f)
          BY <4>4, SyncCases
        <4> QED BY <2>6, <4>1, <4>2, <4>3, <4>4
      <3> QED BY <2>1, <2>3, <3>1, <3>2
    <2>7. ASSUME NEW tx \in TxIds, Query(tx) \/ Querying(tx) \/ Deadline(tx) \/ unregisterPending(tx)
          PROVE  ban'[b].until # "none"
      BY <2>1, <2>7 DEF Query, Querying, SendExtension, Sent, Collect, Deadline, unregisterPending
    <2> QED BY <2>4, <2>5, <2>6, <2>7 DEF Next, Handling
  <1> QED BY <1>1, AlwaysTyped, PTL DEF Spec, BanHolds


-----------------------------------------------------------------------------
(* Honest peers. *)

\* The sharing preference without which a node reports totals of hits it does not list.
HonestShareContent == \A caps \in HonestSharing : caps.content

Expecting(p, tx) == pendingOf(tx) /\ p \in query[tx].asked
HonestFrame(f) ==
    /\ f.kind \in {"query", "result", "reject", "begin", "sync"}
    /\ f.kind = "result" => ~resultIsMalformed(f)
    /\ f.kind \in {"result", "reject"} => Expecting(f.from, f.tx)
HonestFrames ==
    /\ \A f \in net \cup work : f.from \in Honest => HonestFrame(f)
    /\ \A p \in Honest, tx \in TxIds : <<p, tx>> \in asking => Expecting(p, tx)
TokensPay == \A p \in Honest : Cardinality(Waiting(p, net)) + Cardinality(Waiting(p, work)) <= bucket[p]
HonestInv == HonestUncharged /\ HonestFrames /\ TokensPay

\* A pending entry stays, with those it asked, until its grace is over.
LEMMA ExpectingStays ==
    ASSUME Typed, Next, NEW p, NEW tx \in TxIds, Expecting(p, tx), ~unregisterPending(tx)
    PROVE  Expecting(p, tx)'
  <1>0. ConnsTyped /\ QueriesTyped /\ FramesTyped
    BY DEF Typed
  <1>1. CASE query' = query
    BY <1>1 DEF Expecting, pendingOf
  <1>2. ASSUME NEW t \in TxIds, NEW q, QueryMoves(t, q), q \in QueryStates(q),
               t = tx => q.pc \in {"send", "collect", "grace"} /\ q.asked = query[tx].asked
        PROVE  Expecting(p, tx)'
    <2>1. query'[t] = q /\ (t # tx => query'[tx] = query[tx])
      BY <1>0, <1>2, QueryTypedStep
    <2> QED BY <1>2, <2>1 DEF Expecting, pendingOf
  <1>3. ASSUME NEW t \in TxIds, Query(t) PROVE Expecting(p, tx)'
    <2>1. t # tx
      BY <1>3 DEF Query, Expecting, pendingOf
    <2> QED BY <1>0, <1>2, <1>3, <2>1, RegisterFacts
  <1>4. ASSUME NEW t \in TxIds, NEW r \in Peers, SendExtension(t, r) PROVE Expecting(p, tx)'
    BY <1>0, <1>2, <1>4, SendFacts
  <1>5. ASSUME NEW t \in TxIds, Sent(t) PROVE Expecting(p, tx)'
    <2>1. PICK q : QueryMoves(t, q) /\ q \in QueryStates(q) /\ q.asked = query[t].asked
                   /\ q.pc = IF query[t].sentTo = {} THEN "grace" ELSE "collect"
      BY <1>0, <1>5, SentFacts
    <2>2. q.pc \in {"send", "collect", "grace"}
      BY <2>1
    <2> QED BY <1>2, <2>1, <2>2
  <1>6. ASSUME NEW t \in TxIds, Collect(t) PROVE Expecting(p, tx)'
    <2>1. PICK q : QueryMoves(t, q) /\ q \in QueryStates(q) /\ q.asked = query[t].asked
                   /\ q.pc \in {"grace", "collect"}
      BY <1>0, <1>6, CollectFacts
    <2> QED BY <1>2, <2>1
  <1>7. ASSUME NEW t \in TxIds, Deadline(t) PROVE Expecting(p, tx)'
    BY <1>0, <1>2, <1>7, DeadlineFacts
  <1>8. ASSUME NEW t \in TxIds, unregisterPending(t) PROVE Expecting(p, tx)'
    <2>1. t # tx
      BY <1>8
    <2> QED BY <1>0, <1>2, <1>8, <2>1, UnregisterFacts
  <1>9. ASSUME NEW f \in net \cup work, routeResult(f) PROVE Expecting(p, tx)'
    <2>1. f \in work
      BY <1>9 DEF routeResult, Handled
    <2>2. CASE query' # query
      <3> DEFINE in == [from |-> f.from, reject |-> f.kind = "reject", hits |-> f.hits]
      <3>1. query' = Offer(f.tx, in) /\ in.from \in query[f.tx].asked /\ f.tx \in TxIds /\ pendingOf(f.tx)
        BY <1>0, <1>9, <2>1, <2>2, RouteCases
      <3> HIDE DEF in
      <3>2. PICK q : QueryMoves(f.tx, q) /\ q \in QueryStates(q) /\ q.asked = query[f.tx].asked /\ q.pc = query[f.tx].pc
        BY <1>0, <3>1, OfferFacts
      <3> QED BY <1>2, <3>1, <3>2 DEF pendingOf
    <2> QED BY <1>1, <2>2
  <1>10. ASSUME NEW r \in Peers, Connections(r) \/ Noise(r) \/ PeerAsks(r) \/ PeerSyncs(r) \/ Refill(r) \/ BanExpires(r)
                                 \/ \E t \in TxIds : PeerAnswers(r, t)
         PROVE  Expecting(p, tx)'
    BY <1>1, <1>10 DEF Connections, PeerConnAdded, OnRemoteHandshake, OnPeerClosed, removeConn, Noise, PeerAsks, PeerSyncs, Refill,
                       BanExpires, PeerAnswers
  <1>11. ASSUME NEW f \in net \cup work, Drop(f) \/ HandleMessage(f) \/ BadFrame(f) \/ handlePeerAnnounce(f) \/ handleQuery(f)
                                          \/ handleSyncFrame(f)
         PROVE  Expecting(p, tx)'
    BY <1>1, <1>11 DEF Drop, HandleMessage, BadFrame, Charge, handlePeerAnnounce, handleQuery, handleSyncFrame
  <1> QED BY <1>3, <1>4, <1>5, <1>6, <1>7, <1>8, <1>9, <1>10, <1>11 DEF Next, Handling, Querying

\* What a frame of an honest peer, or a query on its way to one, expects is still there after a step.
LEMMA HonestFrameStays ==
    ASSUME Typed, HonestFrames, Next
    PROVE  /\ \A f \in net \cup work : f.from \in Honest => HonestFrame(f)'
           /\ \A p \in Honest, tx \in TxIds : <<p, tx>> \in asking => Expecting(p, tx)'
  <1>1. ASSUME NEW f \in net \cup work, f.from \in Honest PROVE HonestFrame(f)'
    <2>1. HonestFrame(f) /\ FrameTyped(f)
      BY <1>1 DEF HonestFrames, Typed, FramesTyped
    <2>2. CASE f.kind \notin {"result", "reject"}
      BY <2>1, <2>2 DEF HonestFrame, resultIsMalformed
    <2>3. CASE f.kind \in {"result", "reject"}
      <3>1. f.tx \in TxIds /\ Expecting(f.from, f.tx)
        BY <2>1, <2>3 DEF HonestFrame, FrameTyped
      <3>2. ~unregisterPending(f.tx)
        BY <1>1 DEF unregisterPending, GraceEnough
      <3>3. PICK p \in Peers, tx \in TxIds : p = f.from /\ tx = f.tx
        BY <2>1, <3>1 DEF FrameTyped
      <3>4. Expecting(p, tx)'
        BY <3>1, <3>2, <3>3, ExpectingStays
      <3> QED BY <2>1, <3>3, <3>4 DEF HonestFrame, resultIsMalformed
    <2> QED BY <2>2, <2>3
  <1>2. ASSUME NEW p \in Honest, NEW tx \in TxIds, <<p, tx>> \in asking PROVE Expecting(p, tx)'
    <2>1. Expecting(p, tx)
      BY <1>2 DEF HonestFrames
    <2>2. ~unregisterPending(tx)
      BY <1>2 DEF unregisterPending, GraceEnough
    <2> QED BY <2>1, <2>2, ExpectingStays
  <1> QED BY <1>1, <1>2


LEMMA HonestFramesStep ==
    ASSUME Typed, HonestFrames, Next, HonestShareContent
    PROVE  HonestFrames'
  <1>0. /\ FramesTyped /\ QueriesTyped
        /\ \A f \in net \cup work : f.from \in Honest => HonestFrame(f)'
        /\ \A p \in Honest, tx \in TxIds : <<p, tx>> \in asking => Expecting(p, tx)'
    BY HonestFrameStays DEF Typed
  <1>1. CASE net' \cup work' \subseteq net \cup work /\ asking' \subseteq asking
    BY <1>0, <1>1 DEF HonestFrames
  <1>2. ASSUME NEW p \in Peers, Noise(p) PROVE HonestFrames'
    <2>1. PICK f \in Foreign(p) : net' = net \cup {f}
      BY <1>2 DEF Noise
    <2>2. f.from \notin Honest
      BY <1>2, ForeignFacts DEF Noise
    <2>3. work' = work /\ asking' = asking
      BY <1>2 DEF Noise
    <2> QED BY <1>0, <2>1, <2>2, <2>3 DEF HonestFrames
  <1>3. ASSUME NEW p \in Peers, PeerAsks(p) PROVE HonestFrames'
    <2>1. PICK s \in Scopes, short \in BOOLEAN :
            net' = net \cup {[Frame(p, "query", 0) EXCEPT !.scope = s, !.short = short]}
      BY <1>3 DEF PeerAsks
    <2>2. PICK f : f = [Frame(p, "query", 0) EXCEPT !.scope = s, !.short = short]
      OBVIOUS
    <2>3. f.from = p /\ f.kind = "query"
      BY <2>2 DEF Frame
    <2>4. f.from \in Honest => HonestFrame(f)'
      BY <2>1, <2>3 DEF HonestFrame
    <2>5. net' = net \cup {f} /\ work' = work /\ asking' = asking
      BY <1>3, <2>1, <2>2 DEF PeerAsks
    <2> QED BY <1>0, <2>4, <2>5 DEF HonestFrames
  <1>31. ASSUME NEW p \in Peers, PeerSyncs(p) PROVE HonestFrames'
    <2>1. PICK f : \E k \in {"begin", "sync"} : f = Frame(p, k, 0) /\ net' = net \cup {f}
      BY <1>31 DEF PeerSyncs
    <2>2. f.from \in Honest => HonestFrame(f)'
      BY <2>1 DEF HonestFrame, Frame
    <2>3. work' = work /\ asking' = asking
      BY <1>31 DEF PeerSyncs
    <2> QED BY <1>0, <2>1, <2>2, <2>3 DEF HonestFrames
  <1>4. ASSUME NEW p \in Peers, NEW tx \in TxIds, PeerAnswers(p, tx) PROVE HonestFrames'
    <2>1. work' = work /\ asking' \subseteq asking /\ <<p, tx>> \in asking
      BY <1>4 DEF PeerAnswers
    <2>2. CASE net' = net
      BY <1>1, <2>1, <2>2
    <2>3. ASSUME NEW caps \in HonestSharing, NEW hits \in SearchLocal,
                 net' = net \cup {Answer(p, Frame(p, "query", tx), caps, hits)}
          PROVE  HonestFrames'
      <3>1. PICK f : f = Answer(p, Frame(p, "query", tx), caps, hits)
        OBVIOUS
      <3>2. /\ f.from = p /\ f.tx = tx /\ f.kind \in {"result", "reject"}
            /\ f.kind = "result" => ~resultIsMalformed(f)
        BY <3>1, AnswerFacts DEF HonestShareContent
      <3>3. p \in Honest
        BY <1>0, <2>1 DEF FramesTyped
      <3>4. Expecting(p, tx)'
        BY <1>0, <2>1, <3>3
      <3>5. HonestFrame(f)'
        BY <3>2, <3>4 DEF HonestFrame, resultIsMalformed
      <3> QED BY <1>0, <2>1, <2>3, <3>1, <3>5 DEF HonestFrames
    <2> QED BY <1>4, <2>2, <2>3 DEF PeerAnswers
  <1>5. ASSUME NEW t \in TxIds, NEW r \in Peers, SendExtension(t, r) PROVE HonestFrames'
    <2>1. net' = net /\ work' = work /\ asking' \subseteq asking \cup {<<r, t>>}
      BY <1>5 DEF SendExtension
    <2>2. Expecting(r, t)
      BY <1>0, <1>5 DEF SendExtension, Expecting, pendingOf, QueriesTyped, QueryStates
    <2>3. ~unregisterPending(t)
      BY <1>5 DEF SendExtension, unregisterPending
    <2>4. Expecting(r, t)'
      BY <2>2, <2>3, ExpectingStays
    <2> QED BY <1>0, <2>1, <2>4 DEF HonestFrames
  <1>6. ASSUME NEW p \in Peers, Connections(p) \/ Refill(p) \/ BanExpires(p) PROVE HonestFrames'
    BY <1>1, <1>6 DEF Connections, PeerConnAdded, OnRemoteHandshake, OnPeerClosed, removeConn, Refill, BanExpires
  <1>7. ASSUME NEW f \in net \cup work, Drop(f) \/ Handling(f) PROVE HonestFrames'
    BY <1>1, <1>7 DEF Drop, Handling, HandleMessage, BadFrame, routeResult, handlePeerAnnounce, handleQuery, handleSyncFrame, Handled
  <1>8. ASSUME NEW tx \in TxIds, Query(tx) \/ Sent(tx) \/ Collect(tx) \/ Deadline(tx) \/ unregisterPending(tx) PROVE HonestFrames'
    BY <1>1, <1>8 DEF Query, Sent, Collect, Deadline, unregisterPending
  <1> QED BY <1>2, <1>3, <1>31, <1>4, <1>5, <1>6, <1>7, <1>8 DEF Next, Querying

\* The limited frames of a peer in a set of frames, when a frame comes or goes.
LEMMA WaitingFacts ==
    ASSUME NEW p, NEW S, IsFiniteSet(S)
    PROVE  /\ IsFiniteSet(Waiting(p, S)) /\ Cardinality(Waiting(p, S)) \in Nat
           /\ \A f : Cardinality(Waiting(p, S \cup {f})) <=
                       Cardinality(Waiting(p, S)) + IF f.from = p /\ f.kind \in Limited THEN 1 ELSE 0
           /\ \A f \in S : Cardinality(Waiting(p, S \ {f})) =
                       Cardinality(Waiting(p, S)) - IF f.from = p /\ f.kind \in Limited THEN 1 ELSE 0
  <1>1. Waiting(p, S) \in SUBSET S
    BY DEF Waiting
  <1>2. IsFiniteSet(Waiting(p, S)) /\ Cardinality(Waiting(p, S)) \in Nat
    BY <1>1, FS_Subset, FS_CardinalityType
  <1>3. ASSUME NEW f
        PROVE  Cardinality(Waiting(p, S \cup {f})) <=
                 Cardinality(Waiting(p, S)) + IF f.from = p /\ f.kind \in Limited THEN 1 ELSE 0
    <2>1. CASE f.from = p /\ f.kind \in Limited
      <3>1. Waiting(p, S \cup {f}) = Waiting(p, S) \cup {f}
        BY <2>1 DEF Waiting
      <3>2. \/ Cardinality(Waiting(p, S) \cup {f}) = Cardinality(Waiting(p, S)) + 1
            \/ Cardinality(Waiting(p, S) \cup {f}) = Cardinality(Waiting(p, S))
        BY <1>2, FS_AddElement
      <3>3. Cardinality(Waiting(p, S \cup {f})) <= Cardinality(Waiting(p, S)) + 1
        <4> DEFINE c == Cardinality(Waiting(p, S))
                   e == Cardinality(Waiting(p, S) \cup {f})
        <4>1. c \in Nat /\ (e = c + 1 \/ e = c)
          BY <1>2, <3>2
        <4> HIDE DEF c, e
        <4>2. e <= c + 1
          BY <4>1
        <4> QED BY <3>1, <4>2 DEF c, e
      <3> QED BY <2>1, <3>3
    <2>2. CASE ~(f.from = p /\ f.kind \in Limited)
      <3>1. Waiting(p, S \cup {f}) = Waiting(p, S)
        BY <2>2 DEF Waiting
      <3> QED BY <1>2, <2>2, <3>1
    <2> QED BY <2>1, <2>2
  <1>4. ASSUME NEW f \in S
        PROVE  Cardinality(Waiting(p, S \ {f})) =
                 Cardinality(Waiting(p, S)) - IF f.from = p /\ f.kind \in Limited THEN 1 ELSE 0
    <2>1. CASE f.from = p /\ f.kind \in Limited
      <3>1. Waiting(p, S \ {f}) = Waiting(p, S) \ {f} /\ f \in Waiting(p, S)
        BY <2>1 DEF Waiting
      <3>2. Cardinality(Waiting(p, S) \ {f}) = Cardinality(Waiting(p, S)) - 1
        BY <1>2, <3>1, FS_RemoveElement
      <3>3. Cardinality(Waiting(p, S \ {f})) = Cardinality(Waiting(p, S)) - 1
        BY <3>1, <3>2
      <3> QED BY <2>1, <3>3
    <2>2. CASE ~(f.from = p /\ f.kind \in Limited)
      <3>1. Waiting(p, S \ {f}) = Waiting(p, S)
        BY <2>2 DEF Waiting
      <3> QED BY <1>2, <2>2, <3>1
    <2> QED BY <2>1, <2>2
  <1> QED BY <1>2, <1>3, <1>4


\* Every limited frame of an honest peer that waits has a token waiting for it.
LEMMA TokensPayStep ==
    ASSUME Typed, TokensPay, Next PROVE TokensPay'
  <1>0. BucketTyped /\ FramesTyped /\ IsFiniteSet(net) /\ IsFiniteSet(work)
    BY DEF Typed, FramesTyped
  <1> DEFINE N(p) == Cardinality(Waiting(p, net))
             W(p) == Cardinality(Waiting(p, work))
  <1>1. \A p \in Honest : p \in Peers /\ N(p) \in Nat /\ W(p) \in Nat /\ bucket[p] \in 0 .. Burst /\ N(p) + W(p) <= bucket[p]
    BY <1>0, WaitingFacts, PeersAssumption DEF TokensPay, BucketTyped
  <1>2. ASSUME \A p \in Honest : /\ Cardinality(Waiting(p, net')) \in Nat /\ Cardinality(Waiting(p, net')) <= N(p)
                                 /\ Cardinality(Waiting(p, work')) \in Nat /\ Cardinality(Waiting(p, work')) <= W(p)
                                 /\ bucket'[p] \in Nat /\ bucket'[p] >= bucket[p]
        PROVE  TokensPay'
    <2> SUFFICES ASSUME NEW p \in Honest
                 PROVE  Cardinality(Waiting(p, net')) + Cardinality(Waiting(p, work')) <= bucket'[p]
      BY DEF TokensPay, Waiting
    <2> HIDE DEF N, W
    <2> QED BY <1>1, <1>2, BoundsAssumption
  <1>3. CASE UNCHANGED <<net, work, bucket>>
    <2>1. \A p \in Honest : bucket'[p] = bucket[p]
      BY <1>3
    <2>2. \A p \in Honest : Waiting(p, net') = Waiting(p, net) /\ Waiting(p, work') = Waiting(p, work)
      BY <1>3
    <2> QED BY <1>1, <1>2, <2>1, <2>2, BoundsAssumption
  <1>4. ASSUME NEW p \in Peers, Refill(p) PROVE TokensPay'
    <2>1. UNCHANGED <<net, work>> /\ bucket' = [bucket EXCEPT ![p] = @ + 1] /\ bucket[p] \in 0 .. Burst /\ bucket[p] < Burst
      BY <1>0, <1>4 DEF Refill, BucketTyped
    <2>2. ASSUME NEW r \in Honest PROVE bucket'[r] \in Nat /\ bucket'[r] >= bucket[r]
      <3>1. CASE r = p
        <4>1. bucket'[r] = bucket[r] + 1
          BY <1>0, <2>1, <3>1 DEF BucketTyped
        <4> QED BY <2>1, <3>1, <4>1, BoundsAssumption
      <3>2. CASE r # p
        <4>1. bucket'[r] = bucket[r]
          BY <1>0, <2>1, <3>2, PeersAssumption DEF BucketTyped
        <4> QED BY <1>1, <4>1, BoundsAssumption
      <3> QED BY <3>1, <3>2
    <2>3. \A r \in Honest : Waiting(r, net') = Waiting(r, net) /\ Waiting(r, work') = Waiting(r, work)
      BY <2>1
    <2> QED BY <1>1, <1>2, <2>2, <2>3
  <1>5. ASSUME NEW p \in Peers, OnPeerClosed(p) PROVE TokensPay'
    <2>1. UNCHANGED <<net, work>> /\ bucket' = [bucket EXCEPT ![p] = Burst]
      BY <1>5 DEF OnPeerClosed
    <2>2. ASSUME NEW r \in Honest PROVE bucket'[r] \in Nat /\ bucket'[r] >= bucket[r]
      <3>1. bucket'[r] = Burst \/ bucket'[r] = bucket[r]
        BY <1>0, <1>1, <2>1 DEF BucketTyped
      <3> QED BY <1>1, <3>1, BoundsAssumption
    <2>3. \A r \in Honest : Waiting(r, net') = Waiting(r, net) /\ Waiting(r, work') = Waiting(r, work)
      BY <2>1
    <2> QED BY <1>1, <1>2, <2>2, <2>3
  <1>6. ASSUME UNCHANGED bucket, work' = work, NEW f, net' = net \cup {f},
               f.kind \in Limited /\ f.from \in Honest => N(f.from) + W(f.from) < bucket[f.from]
        PROVE  TokensPay'
    <2> SUFFICES ASSUME NEW p \in Honest
                 PROVE  Cardinality(Waiting(p, net')) + Cardinality(Waiting(p, work')) <= bucket'[p]
      BY DEF TokensPay, Waiting
    <2>1. bucket'[p] = bucket[p] /\ Cardinality(Waiting(p, work')) = W(p)
      BY <1>6
    <2>2. IsFiniteSet(net')
      BY <1>0, <1>6, FS_AddElement
    <2>3. Cardinality(Waiting(p, net')) \in Nat
      BY <2>2, WaitingFacts
    <2>4. Cardinality(Waiting(p, net')) <= N(p) + IF f.from = p /\ f.kind \in Limited THEN 1 ELSE 0
      BY <1>0, <1>6, WaitingFacts
    <2>5. f.from = p /\ f.kind \in Limited => N(p) + W(p) < bucket[p]
      BY <1>6
    <2> HIDE DEF N, W
    <2> QED BY <1>1, <2>1, <2>3, <2>4, <2>5, BoundsAssumption
  <1>7. ASSUME NEW p \in Peers, Noise(p) PROVE TokensPay'
    <2>1. PICK f \in Foreign(p) : net' = net \cup {f}
      BY <1>7 DEF Noise
    <2>2. f.kind \notin Limited /\ UNCHANGED <<bucket, work>>
      BY <1>7, ForeignFacts DEF Noise
    <2> QED BY <1>6, <2>1, <2>2
  <1>8. ASSUME NEW p \in Peers, PeerAsks(p) PROVE TokensPay'
    <2>0. p \in Honest => N(p) + W(p) < bucket[p]
      BY <1>1, <1>8 DEF PeerAsks, BelowBurst
    <2>1. PICK s, short : net' = net \cup {[Frame(p, "query", 0) EXCEPT !.scope = s, !.short = short]}
      BY <1>8 DEF PeerAsks
    <2>2. PICK f : f = [Frame(p, "query", 0) EXCEPT !.scope = s, !.short = short]
      OBVIOUS
    <2>3. f.from = p
      BY <2>2 DEF Frame
    <2>4. UNCHANGED bucket /\ work' = work /\ net' = net \cup {f}
      BY <1>8, <2>1, <2>2 DEF PeerAsks
    <2> HIDE DEF N, W
    <2> QED BY <1>6, <2>0, <2>3, <2>4
  <1>81. ASSUME NEW p \in Peers, PeerSyncs(p) PROVE TokensPay'
    <2>1. PICK k \in {"begin", "sync"} : (k = "begin" => BelowBurst(p)) /\ net' = net \cup {Frame(p, k, 0)}
      BY <1>81 DEF PeerSyncs
    <2>2. PICK f : f = Frame(p, k, 0)
      OBVIOUS
    <2>3. f.from = p /\ f.kind = k
      BY <2>2 DEF Frame
    <2>4. UNCHANGED bucket /\ work' = work /\ net' = net \cup {f}
      BY <1>81, <2>1, <2>2 DEF PeerSyncs
    <2>5. f.kind \in Limited /\ f.from \in Honest => N(f.from) + W(f.from) < bucket[f.from]
      BY <1>1, <2>1, <2>3 DEF BelowBurst, Limited
    <2> HIDE DEF N, W
    <2> QED BY <1>6, <2>4, <2>5
  <1>9. ASSUME NEW p \in Peers, NEW tx \in TxIds, PeerAnswers(p, tx) PROVE TokensPay'
    <2>1. UNCHANGED <<bucket, work>>
      BY <1>9 DEF PeerAnswers
    <2>2. ASSUME NEW caps, NEW hits \in SearchLocal, net' = net \cup {Answer(p, Frame(p, "query", tx), caps, hits)}
          PROVE  TokensPay'
      <3>1. PICK f : f = Answer(p, Frame(p, "query", tx), caps, hits)
        OBVIOUS
      <3>2. f.kind \notin Limited
        BY <3>1, AnswerFacts DEF Limited
      <3> QED BY <1>6, <2>1, <2>2, <3>1, <3>2
    <2> QED BY <1>3, <1>9, <2>1, <2>2 DEF PeerAnswers
  <1>10. ASSUME NEW f \in net \cup work, Drop(f) \/ BadFrame(f) \/ routeResult(f) \/ handlePeerAnnounce(f) PROVE TokensPay'
    <2>1. UNCHANGED bucket /\ net' \subseteq net /\ work' \subseteq work
      BY <1>10 DEF Drop, BadFrame, routeResult, handlePeerAnnounce, Handled
    <2>2. ASSUME NEW p, NEW S, NEW T \in SUBSET S, IsFiniteSet(S)
          PROVE  Cardinality(Waiting(p, T)) \in Nat /\ Cardinality(Waiting(p, T)) <= Cardinality(Waiting(p, S))
      <3>1. IsFiniteSet(Waiting(p, S)) /\ Waiting(p, T) \in SUBSET Waiting(p, S)
        BY <2>2, WaitingFacts DEF Waiting
      <3> QED BY <3>1, FS_Subset, FS_CardinalityType
    <2>3. \A p \in Honest : bucket'[p] \in Nat /\ bucket'[p] >= bucket[p]
      <3>1. \A p \in Honest : bucket'[p] = bucket[p]
        BY <2>1
      <3> QED BY <1>1, <3>1, BoundsAssumption
    <2>4. \A p \in Honest : /\ Cardinality(Waiting(p, net')) \in Nat /\ Cardinality(Waiting(p, net')) <= N(p)
                            /\ Cardinality(Waiting(p, work')) \in Nat /\ Cardinality(Waiting(p, work')) <= W(p)
      BY <1>0, <2>1, <2>2
    <2> HIDE DEF N, W
    <2> QED BY <1>2, <2>3, <2>4
  <1>11. ASSUME NEW f \in net \cup work, HandleMessage(f) PROVE TokensPay'
    <2> SUFFICES ASSUME NEW p \in Honest
                 PROVE  Cardinality(Waiting(p, net')) + Cardinality(Waiting(p, work')) <= bucket'[p]
      BY DEF TokensPay, Waiting
    <2> DEFINE d == IF f.from = p /\ f.kind \in Limited THEN 1 ELSE 0
    <2>1. f \in net /\ net' = net \ {f} /\ (work' = work \/ work' = work \cup {f})
      BY <1>11 DEF HandleMessage
    <2>2. bucket'[p] = bucket[p]
      BY <1>11 DEF HandleMessage
    <2>3. Cardinality(Waiting(p, net')) = N(p) - d
      BY <1>0, <2>1, WaitingFacts
    <2>4. Cardinality(Waiting(p, work')) <= W(p) + d
      <3>1. CASE work' = work
        <4>1. Cardinality(Waiting(p, work')) = W(p) /\ d \in {0, 1}
          BY <3>1
        <4> HIDE DEF W, d
        <4> QED BY <1>1, <4>1
      <3>2. CASE work' = work \cup {f}
        BY <1>0, <3>2, WaitingFacts
      <3> QED BY <2>1, <3>1, <3>2
    <2>5. Cardinality(Waiting(p, work')) \in Nat
      <3>1. IsFiniteSet(work')
        BY <1>0, <2>1, FS_AddElement
      <3> QED BY <3>1, WaitingFacts
    <2>6. d \in {0, 1}
      OBVIOUS
    <2> HIDE DEF N, W, d
    <2> QED BY <1>1, <2>2, <2>3, <2>4, <2>5, <2>6
  <1>12. ASSUME NEW f \in net \cup work, handleQuery(f) \/ handleSyncFrame(f) PROVE TokensPay'
    <2> SUFFICES ASSUME NEW p \in Honest
                 PROVE  Cardinality(Waiting(p, net')) + Cardinality(Waiting(p, work')) <= bucket'[p]
      BY DEF TokensPay, Waiting
    <2> DEFINE d == IF f.from = p /\ f.kind \in Limited THEN 1 ELSE 0
    <2>1. f \in work /\ net' = net /\ work' = work \ {f} /\ f.from \in Peers
      BY <1>0, <1>12 DEF handleQuery, handleSyncFrame, Handled, FramesTyped, FrameTyped
    <2>0. bucket' = bucket \/ (bucket' = AfterAllow(f.from) /\ f.kind \in Limited)
      <3>1. CASE handleQuery(f)
        BY <3>1 DEF handleQuery, Limited
      <3>2. CASE handleSyncFrame(f)
        BY <3>2, SyncCases DEF Limited
      <3> QED BY <1>12, <3>1, <3>2
    <2>2. Cardinality(Waiting(p, net')) = N(p) /\ Cardinality(Waiting(p, work')) = W(p) - d
      BY <1>0, <2>1, WaitingFacts
    <2>4. d \in {0, 1}
      OBVIOUS
    <2>3. bucket'[p] >= bucket[p] - d /\ bucket'[p] \in Int
      <3>0. CASE bucket' = bucket
        <4> HIDE DEF d, N, W
        <4> QED BY <1>1, <2>4, <3>0, BoundsAssumption
      <3>1. CASE bucket' = AfterAllow(f.from) /\ f.kind \in Limited /\ f.from = p
        <4>1. bucket'[p] = IF Allow(p) THEN bucket[p] - 1 ELSE bucket[p]
          BY <1>0, <2>1, <3>1, AllowFacts
        <4>2. d = 1
          BY <3>1
        <4> HIDE DEF d, N, W
        <4> QED BY <1>1, <4>1, <4>2, BoundsAssumption
      <3>2. CASE bucket' = AfterAllow(f.from) /\ f.from # p
        <4>1. bucket'[p] = bucket[p]
          BY <1>0, <1>1, <2>1, <3>2, AllowFacts
        <4> HIDE DEF d, N, W
        <4> QED BY <1>1, <2>4, <4>1, BoundsAssumption
      <3> QED BY <2>0, <3>0, <3>1, <3>2
    <2> HIDE DEF N, W, d
    <2> QED BY <1>1, <2>2, <2>3, <2>4, BoundsAssumption
  <1>13. ASSUME NEW p \in Peers, PeerConnAdded(p) \/ OnRemoteHandshake(p) \/ removeConn(p) \/ BanExpires(p) PROVE TokensPay'
    BY <1>3, <1>13 DEF PeerConnAdded, OnRemoteHandshake, removeConn, BanExpires
  <1>14. ASSUME NEW tx \in TxIds, Query(tx) \/ Querying(tx) \/ Deadline(tx) \/ unregisterPending(tx) PROVE TokensPay'
    BY <1>3, <1>14 DEF Query, Querying, SendExtension, Sent, Collect, Deadline, unregisterPending
  <1> QED BY <1>4, <1>5, <1>7, <1>8, <1>81, <1>9, <1>10, <1>11, <1>12, <1>13, <1>14 DEF Next, Connections, Handling


\* No handler charges a frame of an honest peer, but as one of sync or as a query of one letter: it
\* decodes, is expected and has its token.
LEMMA UnchargedStep ==
    ASSUME Typed, HonestInv, Next PROVE HonestUncharged'
  <1>0. BanTyped /\ BucketTyped /\ FramesTyped /\ IsFiniteSet(net) /\ IsFiniteSet(work)
    BY DEF Typed, FramesTyped
  <1> SUFFICES ASSUME NEW h \in Honest PROVE ban'[h].why \in Blameless
    BY DEF HonestUncharged, Blameless
  <1>1. h \in Peers /\ ban[h].why \in Blameless
    BY PeersAssumption DEF HonestInv, HonestUncharged, Blameless
  <1>2. CASE ban' = ban
    BY <1>1, <1>2
  <1>3. ASSUME NEW p \in Peers, Connections(p) \/ Noise(p) \/ PeerAsks(p) \/ PeerSyncs(p) \/ Refill(p) \/ BanExpires(p)
                                \/ \E tx \in TxIds : PeerAnswers(p, tx)
        PROVE  ban'[h].why \in Blameless
    <2>1. CASE ban' = AfterIsBanned(p)
      BY <1>0, <1>1, <2>1, AfterIsBannedFacts DEF Blameless
    <2>2. CASE ban' = Forget(p)
      BY <1>0, <1>1, <2>2, ForgetFacts DEF Blameless
    <2>3. CASE BanExpires(p)
      BY <1>0, <1>1, <2>3, ExpiryFacts
    <2> QED BY <1>2, <1>3, <2>1, <2>2, <2>3
            DEF Connections, PeerConnAdded, OnRemoteHandshake, OnPeerClosed, removeConn, Noise, PeerAsks, PeerSyncs, Refill, PeerAnswers
  <1>4. ASSUME NEW f \in net \cup work, Drop(f) \/ HandleMessage(f) \/ handlePeerAnnounce(f) PROVE ban'[h].why \in Blameless
    <2>1. f.from \in Peers
      BY <1>0 DEF FramesTyped, FrameTyped
    <2>2. CASE ban' = AfterIsBanned(f.from)
      BY <1>0, <1>1, <2>1, <2>2, AfterIsBannedFacts DEF Blameless
    <2> QED BY <1>2, <1>4, <2>2 DEF Drop, HandleMessage, handlePeerAnnounce
  <1>5. ASSUME NEW f \in work, NEW s \in Scores, ban' = BanAdd(f.from, s), f.from # h PROVE ban'[h].why \in Blameless
    <2>1. f.from \in Peers
      BY <1>0 DEF FramesTyped, FrameTyped
    <2>2. ban'[h] = ban[h]
      BY <1>0, <1>1, <1>5, <2>1, BanAddFacts
    <2> QED BY <1>1, <2>2
  <1>6. ASSUME NEW f \in net \cup work, BadFrame(f) PROVE ban'[h].why \in Blameless
    <2>1. f \in work /\ f.from # h
      BY <1>6 DEF BadFrame, Handled, PeekMsgType, Decodes, HonestInv, HonestFrames, HonestFrame
    <2>2. \E s \in Scores : ban' = BanAdd(f.from, s)
      BY <1>6, ScoresTyped DEF BadFrame, Charge
    <2> QED BY <1>5, <2>1, <2>2
  <1>7. ASSUME NEW f \in net \cup work, routeResult(f) PROVE ban'[h].why \in Blameless
    <2>1. f \in work
      BY <1>7 DEF routeResult, Handled
    <2>2. CASE ban' # ban
      <3>1. /\ \E s \in Scores : ban' = BanAdd(f.from, s)
            /\ \/ f.kind = "result" /\ resultIsMalformed(f)
               \/ ~pendingOf(f.tx) \/ f.from \notin query[f.tx].asked
        BY <1>0, <1>7, <2>1, <2>2, RouteCases
      <3>2. f.kind \in {"result", "reject"}
        BY <1>7 DEF routeResult
      <3>3. f.from # h
        BY <3>1, <3>2 DEF HonestInv, HonestFrames, HonestFrame, Expecting
      <3> QED BY <1>5, <2>1, <3>1, <3>3
    <2> QED BY <1>2, <2>2
  <1>71. ASSUME NEW f \in work, f.from = h, f.kind \in Limited PROVE Allow(h)
    <2>1. f \in Waiting(h, work)
      BY <1>71 DEF Waiting
    <2>2. /\ Cardinality(Waiting(h, work)) \in Nat /\ Cardinality(Waiting(h, net)) \in Nat
          /\ IsFiniteSet(Waiting(h, work)) /\ bucket[h] \in 0 .. Burst
      BY <1>0, <1>1, WaitingFacts DEF BucketTyped
    <2>3. Cardinality(Waiting(h, work)) # 0
      BY <2>1, <2>2, FS_EmptySet
    <2>4. Cardinality(Waiting(h, net)) + Cardinality(Waiting(h, work)) <= bucket[h]
      BY DEF HonestInv, TokensPay
    <2>5. bucket[h] >= 1
      BY <2>2, <2>3, <2>4, BoundsAssumption
    <2> QED BY <2>5 DEF Allow
  <1>72. ASSUME NEW s \in Scores, ban' = BanAdd(h, s), s.why \in Blameless PROVE ban'[h].why \in Blameless
    BY <1>0, <1>1, <1>72, BanAddFacts
  <1>8. ASSUME NEW f \in net \cup work, handleQuery(f) PROVE ban'[h].why \in Blameless
    <2>1. f \in work /\ f.kind \in Limited
      BY <1>8 DEF handleQuery, Handled, Limited
    <2>2. CASE f.from = h
      <3>1. Allow(h)
        BY <1>71, <2>1, <2>2
      <3>2. ban' = ban \/ ban' = BanAdd(h, ScoreQueryTooBroad)
        BY <1>8, <2>2, <3>1 DEF handleQuery
      <3>3. ScoreQueryTooBroad \in Scores /\ ScoreQueryTooBroad.why \in Blameless
        BY ScoresTyped DEF Blameless
      <3> QED BY <1>2, <1>72, <3>2, <3>3
    <2>3. CASE f.from # h
      <3>1. ban' = ban \/ \E s \in Scores : ban' = BanAdd(f.from, s)
        BY <1>8, ScoresTyped DEF handleQuery
      <3> QED BY <1>2, <1>5, <2>1, <2>3, <3>1
    <2> QED BY <2>2, <2>3
  <1>81. ASSUME NEW f \in net \cup work, handleSyncFrame(f) PROVE ban'[h].why \in Blameless
    <2>1. f \in work
      BY <1>81 DEF handleSyncFrame, Handled
    <2>2. ASSUME ban' # ban PROVE ban'[h].why \in Blameless
      <3>1. PICK s \in Scores : ban' = BanAdd(f.from, s) /\ (s.why = "sync" \/ (f.kind = "begin" /\ ~Allow(f.from)))
        BY <1>81, <2>2, SyncCases
      <3>2. CASE f.from = h
        <4>1. s.why = "sync"
          BY <1>71, <2>1, <3>1, <3>2 DEF Limited
        <4> QED BY <1>72, <3>1, <3>2, <4>1 DEF Blameless
      <3>3. CASE f.from # h
        BY <1>5, <2>1, <3>1, <3>3
      <3> QED BY <3>2, <3>3
    <2> QED BY <1>2, <2>2
  <1>9. ASSUME NEW tx \in TxIds, Query(tx) \/ Querying(tx) \/ Deadline(tx) \/ unregisterPending(tx) PROVE ban'[h].why \in Blameless
    BY <1>2, <1>9 DEF Query, Querying, SendExtension, Sent, Collect, Deadline, unregisterPending
  <1> QED BY <1>3, <1>4, <1>6, <1>7, <1>8, <1>81, <1>9 DEF Next, Handling

LEMMA InitHonest == Init => HonestInv
  <1> SUFFICES ASSUME Init PROVE HonestInv
    OBVIOUS
  <1>1. HonestUncharged
    BY PeersAssumption DEF Init, HonestUncharged, NoEntry
  <1>2. HonestFrames
    BY DEF Init, HonestFrames
  <1>3. \A p \in Honest : Waiting(p, net) = {} /\ Waiting(p, work) = {} /\ bucket[p] = Burst
    BY PeersAssumption DEF Init, Waiting
  <1>4. TokensPay
    BY <1>3, FS_EmptySet, BoundsAssumption DEF TokensPay
  <1> QED BY <1>1, <1>2, <1>4 DEF HonestInv

LEMMA HonestStep ==
    ASSUME HonestShareContent PROVE Typed /\ HonestInv /\ [Next]_vars => HonestInv'
  <1>1. ASSUME Typed, HonestInv, Next PROVE HonestInv'
    <2>1. HonestFrames'
      BY <1>1, HonestFramesStep DEF HonestInv
    <2>2. TokensPay'
      BY <1>1, TokensPayStep DEF HonestInv
    <2>3. HonestUncharged'
      BY <1>1, UnchargedStep
    <2> QED BY <2>1, <2>2, <2>3 DEF HonestInv
  <1>2. ASSUME HonestInv, UNCHANGED vars PROVE HonestInv'
    <2>1. UNCHANGED <<ban, net, work, asking, query, bucket>>
      BY <1>2 DEF vars
    <2>2. HonestUncharged'
      BY <1>2, <2>1 DEF HonestInv, HonestUncharged
    <2>3. HonestFrames'
      BY <1>2, <2>1 DEF HonestInv, HonestFrames, HonestFrame, Expecting, pendingOf, resultIsMalformed
    <2>4. TokensPay'
      BY <1>2, <2>1 DEF HonestInv, TokensPay, Waiting
    <2> QED BY <2>2, <2>3, <2>4 DEF HonestInv
  <1> QED BY <1>1, <1>2

\* A peer that runs this code, shares its content hits (HonestShareContent), answers within the grace
\* window (GraceEnough) and stays below the burst with its queries and sync sessions (BelowBurst) is
\* charged for nothing but queries of one letter and what handleSyncFrame charges, for any number of
\* peers, queries and connections, any burst and any threshold, whatever is lost, late or reordered
\* (pendingGrace in Query, routeResult, routeReject, rateLimiter.Allow).
THEOREM HonestNeverCharged ==
    ASSUME HonestShareContent PROVE Spec => []HonestUncharged
  <1>1. HonestInv => HonestUncharged
    BY DEF HonestInv
  <1>2. Typed /\ HonestInv /\ [Next]_vars => HonestInv'
    BY HonestStep
  <1> QED BY <1>1, <1>2, InitHonest, AlwaysTyped, PTL DEF Spec

-----------------------------------------------------------------------------
(* Answers are counted once. *)

Froms(s) == {s[i].from : i \in DOMAIN s}
Arrived(q) == q.got \o q.results

\* While the call runs, its count and its channel hold one answer of every peer that responded,
\* and it has received fewer than it waits for.
CountedIn(q) ==
    /\ \E S : q.got \in Seq(S) /\ q.results \in Seq(S)
    /\ Froms(Arrived(q)) = q.responded /\ Len(Arrived(q)) = Cardinality(q.responded)
    /\ q.pc = "send" => q.got = <<>>
    /\ q.pc = "collect" => Len(q.got) < Cardinality(q.sentTo)
Counted(q) == q.pc \in {"send", "collect"} => CountedIn(q)
AnswersCounted == \A tx \in TxIds : Counted(query[tx])

LEMMA AppendFroms ==
    ASSUME NEW S, NEW s \in Seq(S), NEW x
    PROVE  Froms(Append(s, x)) = Froms(s) \cup {x.from} /\ Len(Append(s, x)) = Len(s) + 1
  <1>1. /\ DOMAIN s = 1 .. Len(s) /\ Len(s) \in Nat
        /\ DOMAIN Append(s, x) = 1 .. (Len(s) + 1) /\ Len(Append(s, x)) = Len(s) + 1
        /\ \A i \in 1 .. Len(s) : Append(s, x)[i] = s[i]
        /\ Append(s, x)[Len(s) + 1] = x
    OBVIOUS
  <1>2. \A i \in 1 .. (Len(s) + 1) : i \in 1 .. Len(s) \/ i = Len(s) + 1
    BY <1>1
  <1> QED BY <1>1, <1>2 DEF Froms

LEMMA AppendJoin ==
    ASSUME NEW S, NEW g \in Seq(S), NEW r \in Seq(S), NEW x \in S
    PROVE  g \o Append(r, x) = Append(g \o r, x) /\ g \o r \in Seq(S)
  OBVIOUS

LEMMA TakeJoin ==
    ASSUME NEW S, NEW g \in Seq(S), NEW r \in Seq(S), r # <<>>
    PROVE  Append(g, Head(r)) \o Tail(r) = g \o r /\ Head(r) \in S
  OBVIOUS

LEMMA LargerSeq == ASSUME NEW S, NEW T, S \subseteq T, NEW s \in Seq(S) PROVE s \in Seq(T)
  OBVIOUS

\* The channel has room for whoever answers first.
LEMMA OfferCounted ==
    ASSUME QueriesTyped, NEW tx \in TxIds, NEW in, in.from \in query[tx].asked, in.from \notin query[tx].responded,
           Counted(query[tx]), query' = Offer(tx, in)
    PROVE  \E q : QueryMoves(tx, q) /\ q \in QueryStates(q) /\ Counted(q)
  <1>1. PICK q : /\ QueryMoves(tx, q) /\ q \in QueryStates(q)
                 /\ q.pc = query[tx].pc /\ q.asked = query[tx].asked /\ q.sentTo = query[tx].sentTo
                 /\ q.got = query[tx].got /\ q.responded = query[tx].responded \cup {in.from}
                 /\ q.results = IF Len(query[tx].results) < ChanCap(tx)
                                THEN Append(query[tx].results, in) ELSE query[tx].results
    BY OfferFacts
  <1>2. SUFFICES ASSUME q.pc \in {"send", "collect"} PROVE CountedIn(q)
    BY <1>1 DEF Counted
  <1> DEFINE old == query[tx]
  <1>3. CountedIn(old)
    BY <1>1, <1>2 DEF Counted
  <1>4. PICK S0 : old.got \in Seq(S0) /\ old.results \in Seq(S0)
    BY <1>3 DEF CountedIn
  <1> DEFINE S == S0 \cup {in}
  <1>5. old.got \in Seq(S) /\ old.results \in Seq(S) /\ in \in S
    BY <1>4, LargerSeq
  <1>6. /\ old.asked \in SUBSET Peers /\ old.responded \subseteq old.asked /\ IsFiniteSet(old.asked)
        /\ IsFiniteSet(old.responded)
    <2>1. old \in QueryStates(old)
      BY DEF QueriesTyped
    <2>2. old.asked \in SUBSET Peers /\ old.responded \subseteq old.asked
      BY <2>1 DEF QueryStates
    <2> QED BY <2>2, PeersAssumption, FS_Subset
  <1> HIDE DEF old, S
  <1>7. Cardinality(old.responded) < Cardinality(old.asked) /\ Cardinality(q.responded) = Cardinality(old.responded) + 1
    <2>1. /\ IsFiniteSet(q.responded) /\ Cardinality(q.responded) = Cardinality(old.responded) + 1
          /\ q.responded \subseteq old.asked
      BY <1>1, <1>6, FS_AddElement DEF old
    <2>2. Cardinality(q.responded) <= Cardinality(old.asked)
      BY <1>6, <2>1, FS_Subset
    <2>3. Cardinality(old.responded) \in Nat /\ Cardinality(old.asked) \in Nat
      BY <1>6, FS_CardinalityType
    <2> QED BY <2>1, <2>2, <2>3
  <1>8. Len(old.results) < ChanCap(tx)
    <2>1. Len(Arrived(old)) = Len(old.got) + Len(old.results) /\ Len(old.got) \in Nat /\ Len(old.results) \in Nat
      BY <1>5 DEF Arrived
    <2>2. Len(Arrived(old)) = Cardinality(old.responded)
      BY <1>3 DEF CountedIn
    <2>3. Cardinality(old.responded) \in Nat /\ Cardinality(old.asked) \in Nat
      BY <1>6, FS_CardinalityType
    <2>4. ChanCap(tx) = Cardinality(old.asked)
      BY DEF ChanCap, old
    <2> DEFINE r == Cardinality(old.responded)
               a == Cardinality(old.asked)
               g == Len(old.got)
               c == Len(old.results)
    <2>5. r < a /\ g + c = r /\ r \in Nat /\ a \in Nat /\ g \in Nat /\ c \in Nat
      BY <1>7, <2>1, <2>2, <2>3
    <2> HIDE DEF r, a, g, c
    <2>6. c < a
      BY <2>5
    <2> QED BY <2>4, <2>6 DEF a, c
  <1>9. q.results = Append(old.results, in) /\ q.got = old.got /\ q.results \in Seq(S) /\ q.got \in Seq(S)
    BY <1>1, <1>5, <1>8 DEF old
  <1>10. Arrived(q) = Append(Arrived(old), in) /\ Arrived(old) \in Seq(S)
    <2>1. old.got \o Append(old.results, in) = Append(old.got \o old.results, in) /\ old.got \o old.results \in Seq(S)
      BY <1>5, AppendJoin
    <2> QED BY <1>9, <2>1 DEF Arrived
  <1>11. Froms(Arrived(q)) = Froms(Arrived(old)) \cup {in.from} /\ Len(Arrived(q)) = Len(Arrived(old)) + 1
    BY <1>10, AppendFroms
  <1>12. Froms(Arrived(q)) = q.responded /\ Len(Arrived(q)) = Cardinality(q.responded)
    BY <1>1, <1>3, <1>7, <1>11 DEF CountedIn, old
  <1> QED BY <1>1, <1>3, <1>9, <1>12 DEF CountedIn, old

LEMMA CollectCounted ==
    ASSUME QueriesTyped, NEW tx \in TxIds, Counted(query[tx]), Collect(tx)
    PROVE  \E q : QueryMoves(tx, q) /\ q \in QueryStates(q) /\ Counted(q)
  <1>1. PICK q : /\ QueryMoves(tx, q) /\ q \in QueryStates(q)
                 /\ \/ q.pc = "grace"
                    \/ /\ q.pc = "collect" /\ q.responded = query[tx].responded /\ q.sentTo = query[tx].sentTo
                       /\ q.results = Tail(query[tx].results)
                       /\ q.got = Append(query[tx].got, Head(query[tx].results))
                       /\ Len(q.got) < Expected(tx)
    BY CollectFacts
  <1>2. SUFFICES ASSUME q.pc \in {"send", "collect"} PROVE CountedIn(q)
    BY <1>1 DEF Counted
  <1> DEFINE old == query[tx]
  <1>3. CountedIn(old) /\ old.results # <<>>
    BY DEF Counted, Collect
  <1> HIDE DEF old
  <1>4. PICK S : old.got \in Seq(S) /\ old.results \in Seq(S)
    BY <1>3 DEF CountedIn
  <1>5. Arrived(q) = Arrived(old) /\ Head(old.results) \in S
    BY <1>1, <1>2, <1>3, <1>4, TakeJoin DEF Arrived, old
  <1>6. q.got \in Seq(S) /\ q.results \in Seq(S)
    <2>1. q.results = Tail(old.results) /\ q.got = Append(old.got, Head(old.results))
      BY <1>1, <1>2 DEF old
    <2>2. Tail(old.results) \in Seq(S) /\ Append(old.got, Head(old.results)) \in Seq(S)
      BY <1>3, <1>4, <1>5
    <2> QED BY <2>1, <2>2
  <1> QED BY <1>1, <1>2, <1>3, <1>5, <1>6 DEF CountedIn, Expected, old

LEMMA CountedStep == Typed /\ AnswersCounted /\ [Next]_vars => AnswersCounted'
  <1> SUFFICES ASSUME Typed, AnswersCounted, [Next]_vars PROVE AnswersCounted'
    OBVIOUS
  <1>0. ConnsTyped /\ QueriesTyped /\ FramesTyped
    BY DEF Typed
  <1>1. CASE query' = query
    BY <1>1 DEF AnswersCounted
  <1>2. ASSUME NEW tx \in TxIds, \E q : QueryMoves(tx, q) /\ q \in QueryStates(q) /\ Counted(q) PROVE AnswersCounted'
    <2>1. PICK q : QueryMoves(tx, q) /\ q \in QueryStates(q) /\ Counted(q)
      BY <1>2
    <2>2. query'[tx] = q /\ \A t \in TxIds \ {tx} : query'[t] = query[t]
      BY <1>0, <2>1, QueryTypedStep
    <2> QED BY <2>1, <2>2 DEF AnswersCounted
  <1>3. ASSUME NEW tx \in TxIds, Query(tx) PROVE AnswersCounted'
    <2>1. PICK q : /\ QueryMoves(tx, q) /\ q \in QueryStates(q)
                   /\ q.pc = "send" /\ q.got = <<>> /\ q.results = <<>> /\ q.responded = {}
      BY <1>0, <1>3, RegisterFacts
    <2>2. Arrived(q) = <<>> /\ q.got \in Seq({}) /\ q.results \in Seq({})
      BY <2>1 DEF Arrived
    <2>3. Froms(Arrived(q)) = {} /\ Len(Arrived(q)) = 0
      BY <2>2 DEF Froms
    <2>4. Counted(q)
      BY <2>1, <2>2, <2>3, FS_EmptySet DEF Counted, CountedIn
    <2> QED BY <1>2, <2>1, <2>4
  <1>4. ASSUME NEW tx \in TxIds, NEW p \in Peers, SendExtension(tx, p) PROVE AnswersCounted'
    <2>1. PICK q : /\ QueryMoves(tx, q) /\ q \in QueryStates(q)
                   /\ q.pc = "send" /\ q.asked = query[tx].asked /\ q.responded = query[tx].responded
                   /\ q.got = query[tx].got /\ q.results = query[tx].results
      BY <1>0, <1>4, SendFacts
    <2>2. Counted(query[tx]) /\ query[tx].pc = "send"
      BY <1>4 DEF AnswersCounted, SendExtension
    <2>3. Counted(q)
      BY <2>1, <2>2 DEF Counted, CountedIn, Arrived
    <2> QED BY <1>2, <2>1, <2>3
  <1>5. ASSUME NEW tx \in TxIds, Sent(tx) PROVE AnswersCounted'
    <2>1. PICK q : /\ QueryMoves(tx, q) /\ q \in QueryStates(q)
                   /\ q.pc = IF query[tx].sentTo = {} THEN "grace" ELSE "collect"
                   /\ q.asked = query[tx].asked /\ q.responded = query[tx].responded
                   /\ q.got = query[tx].got /\ q.results = query[tx].results /\ q.sentTo = query[tx].sentTo
      BY <1>0, <1>5, SentFacts
    <2>2. Counted(query[tx]) /\ query[tx].pc = "send"
      BY <1>5 DEF AnswersCounted, Sent
    <2>3. ASSUME query[tx].sentTo # {} PROVE Len(q.got) < Cardinality(q.sentTo)
      <3>1. q.got = <<>>
        BY <2>1, <2>2 DEF Counted, CountedIn
      <3>2. q.sentTo \subseteq Peers /\ q.sentTo # {}
        BY <2>1, <2>3 DEF QueryStates
      <3>3. IsFiniteSet(q.sentTo)
        BY <3>2, PeersAssumption, FS_Subset
      <3>4. Cardinality(q.sentTo) \in Nat /\ Cardinality(q.sentTo) # 0
        BY <3>2, <3>3, FS_CardinalityType, FS_EmptySet
      <3> QED BY <3>1, <3>4
    <2>4. Counted(q)
      BY <2>1, <2>2, <2>3 DEF Counted, CountedIn, Arrived
    <2> QED BY <1>2, <2>1, <2>4
  <1>6. ASSUME NEW tx \in TxIds, Collect(tx) PROVE AnswersCounted'
    BY <1>0, <1>2, <1>6, CollectCounted DEF AnswersCounted
  <1>7. ASSUME NEW tx \in TxIds, Deadline(tx) PROVE AnswersCounted'
    BY <1>0, <1>2, <1>7, DeadlineFacts DEF Counted
  <1>8. ASSUME NEW tx \in TxIds, unregisterPending(tx) PROVE AnswersCounted'
    BY <1>0, <1>2, <1>8, UnregisterFacts DEF Counted
  <1>9. ASSUME NEW f \in net \cup work, routeResult(f) PROVE AnswersCounted'
    <2>1. f \in work
      BY <1>9 DEF routeResult, Handled
    <2>2. CASE query' # query
      <3> DEFINE in == [from |-> f.from, reject |-> f.kind = "reject", hits |-> f.hits]
      <3>1. /\ query' = Offer(f.tx, in) /\ in.from \in query[f.tx].asked /\ in.from \notin query[f.tx].responded
            /\ f.tx \in TxIds
        BY <1>0, <1>9, <2>1, <2>2, RouteCases DEF firstFrom
      <3> HIDE DEF in
      <3>2. Counted(query[f.tx])
        BY <3>1 DEF AnswersCounted
      <3> QED BY <1>0, <1>2, <3>1, <3>2, OfferCounted
    <2> QED BY <1>1, <2>2
  <1>10. ASSUME NEW r \in Peers, Connections(r) \/ Noise(r) \/ PeerAsks(r) \/ PeerSyncs(r) \/ Refill(r) \/ BanExpires(r)
                                 \/ \E t \in TxIds : PeerAnswers(r, t)
         PROVE  AnswersCounted'
    BY <1>1, <1>10 DEF Connections, PeerConnAdded, OnRemoteHandshake, OnPeerClosed, removeConn, Noise, PeerAsks, PeerSyncs, Refill,
                       BanExpires, PeerAnswers
  <1>11. ASSUME NEW f \in net \cup work, Drop(f) \/ HandleMessage(f) \/ BadFrame(f) \/ handlePeerAnnounce(f) \/ handleQuery(f)
                                          \/ handleSyncFrame(f)
         PROVE  AnswersCounted'
    BY <1>1, <1>11 DEF Drop, HandleMessage, BadFrame, Charge, handlePeerAnnounce, handleQuery, handleSyncFrame
  <1>12. CASE UNCHANGED vars
    BY <1>1, <1>12 DEF vars
  <1> QED BY <1>3, <1>4, <1>5, <1>6, <1>7, <1>8, <1>9, <1>10, <1>11, <1>12 DEF Next, Handling, Querying

\* For any number of peers and queries: every peer's answer is in the query's channel or its count,
\* once, with room in the channel for whoever answers first, and a query that waits with an empty
\* channel waits for a peer it was sent to (routeResult, routeReject, firstFrom, the loop of Query).
THEOREM AnswersCountedOnce == Spec => [](TypeOK /\ AnswersAccounted /\ WaitsForSomebody)
  <1>1. Init => AnswersCounted
    BY DEF Init, AnswersCounted, Counted, NoQuery
  <1>2. Typed => TypeOK
    BY DEF Typed, ConnsTyped, BanTyped, BanEntries, BucketTyped, QueriesTyped, QueryStates, TypeOK
  <1>3. AnswersCounted => AnswersAccounted
    BY DEF AnswersCounted, Counted, CountedIn, Arrived, Froms, AnswersAccounted
  <1>4. Typed /\ AnswersCounted => WaitsForSomebody
    <2> SUFFICES ASSUME Typed, AnswersCounted, NEW tx \in TxIds, query[tx].pc = "collect", query[tx].results = <<>>
                 PROVE  query[tx].sentTo \ query[tx].responded # {}
      BY DEF WaitsForSomebody
    <2> DEFINE q == query[tx]
    <2>1. q \in QueryStates(q) /\ CountedIn(q)
      BY DEF Typed, QueriesTyped, AnswersCounted, Counted
    <2>2. q.sentTo \subseteq Peers /\ q.responded \subseteq Peers
      BY <2>1 DEF QueryStates
    <2>3. IsFiniteSet(q.sentTo) /\ IsFiniteSet(q.responded)
      BY <2>2, PeersAssumption, FS_Subset
    <2>4. Cardinality(q.sentTo) \in Nat /\ Cardinality(q.responded) \in Nat
      BY <2>3, FS_CardinalityType
    <2>5. Arrived(q) = q.got
      BY <2>1 DEF CountedIn, Arrived
    <2>6. Cardinality(q.responded) < Cardinality(q.sentTo)
      BY <2>1, <2>5 DEF CountedIn
    <2>7. ~(q.sentTo \subseteq q.responded)
      BY <2>3, <2>4, <2>6, FS_Subset
    <2> QED BY <2>7
  <1> QED BY <1>1, <1>2, <1>3, <1>4, AlwaysTyped, CountedStep, PTL DEF Spec
=============================================================================
