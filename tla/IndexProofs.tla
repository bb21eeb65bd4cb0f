---------------------------- MODULE IndexProofs ----------------------------
(***************************************************************************)
(* Theorems about what a node indexes: the way of a file from its pieces   *)
(* to its documents (IndexPipeline), for any files, pieces, channel sizes  *)
(* and texts, and the trees, seeds and fetches of the Aggregate index      *)
(* (AggregateIndex), for any records, lookups and numbers of trees.        *)
(***************************************************************************)
EXTENDS IndexPipeline, AggregateIndex, TLAPS, FiniteSetTheorems

(***************************************************************************)
(* The file tracker.  At every moment, what the tracker has seen of a      *)
(* piece it has read is so, or an event about it is in its queue, and the  *)
(* last event about a piece is right.                                      *)
(***************************************************************************)
PieceCount == Cardinality(Pieces)
PieceEvents == [piece : Pieces, ok : BOOLEAN]
Trackers == [pc : {"wait", "seed", "run"}, at : 1 .. (PieceCount + 1), queue : Seq(PieceEvents),
             seen : [Pieces -> BOOLEAN], done : SUBSET Files, replay : Seq(Files)]

TrackerTyped ==
    /\ pieceOK \in [Pieces -> BOOLEAN]
    /\ tracker \in Trackers
    /\ tracker.pc = "wait" => tracker.queue = <<>> /\ tracker.at = 1
    /\ tracker.pc # "run" => tracker.done = {} /\ tracker.replay = <<>>

HasEvent(p) == \E k \in DOMAIN tracker.queue : tracker.queue[k].piece = p
IsLast(k) == \A l \in DOMAIN tracker.queue : l > k => tracker.queue[l].piece # tracker.queue[k].piece
LastIsRight ==
    \A k \in DOMAIN tracker.queue : IsLast(k) => tracker.queue[k].ok = pieceOK[tracker.queue[k].piece]
Known(p) == tracker.seen[p] = pieceOK[p] \/ HasEvent(p)
ReadIsKnown ==
    \A p \in Pieces : tracker.pc = "run" \/ (tracker.pc = "seed" /\ p < tracker.at) => Known(p)

\* The files whose pieces the tracker has all seen are dispatched, once.
SeenDispatched == tracker.pc = "run" => \A f \in Files : Complete(tracker.seen, f) => f \in tracker.done
DispatchedOnce ==
    /\ \A i \in DOMAIN tracker.replay : tracker.replay[i] \in tracker.done
    /\ \A i, j \in DOMAIN tracker.replay : tracker.replay[i] = tracker.replay[j] => i = j

TrackerInv == TrackerTyped /\ LastIsRight /\ ReadIsKnown /\ SeenDispatched /\ DispatchedOnce

LEMMA FreshTracker ==
    /\ freshTracker \in Trackers
    /\ freshTracker.pc = "wait" /\ freshTracker.queue = <<>> /\ freshTracker.at = 1
    /\ freshTracker.done = {} /\ freshTracker.replay = <<>>
  <1>1. PieceCount \in Nat
    BY FilesAssumption, FS_CardinalityType DEF PieceCount
  <1>2. 1 \in 1 .. (PieceCount + 1)
    BY <1>1
  <1>3. [p \in Pieces |-> FALSE] \in [Pieces -> BOOLEAN]
    OBVIOUS
  <1>4. <<>> \in Seq(PieceEvents) /\ <<>> \in Seq(Files)
    OBVIOUS
  <1> QED BY <1>2, <1>3, <1>4 DEF freshTracker, Trackers

\* A tracker that has not started yet.
LEMMA TrackerFresh ==
    ASSUME tracker' = freshTracker, pieceOK' \in [Pieces -> BOOLEAN]
    PROVE  TrackerInv'
  <1>1. /\ tracker' \in Trackers /\ tracker'.pc = "wait" /\ tracker'.queue = <<>>
        /\ tracker'.at = 1 /\ tracker'.done = {} /\ tracker'.replay = <<>>
    BY FreshTracker
  <1>2. DOMAIN tracker'.queue = {} /\ DOMAIN tracker'.replay = {}
    BY <1>1
  <1> QED BY <1>1, <1>2 DEF TrackerInv, TrackerTyped, LastIsRight, ReadIsKnown, SeenDispatched, DispatchedOnce

LEMMA TrackerChange ==
    ASSUME TrackerInv, NEW p \in Pieces, PieceChanges(p)
    PROVE  TrackerInv'
  <1> DEFINE ok == ~pieceOK[p]
             ev == [piece |-> p, ok |-> ok]
  <1>1. tracker \in Trackers /\ pieceOK \in [Pieces -> BOOLEAN] /\ pieceOK' = [pieceOK EXCEPT ![p] = ok]
    BY DEF TrackerInv, TrackerTyped, PieceChanges
  <1>2. ok \in BOOLEAN /\ ev \in PieceEvents /\ pieceOK' \in [Pieces -> BOOLEAN] /\ pieceOK'[p] = ok
        /\ \A r \in Pieces : r # p => pieceOK'[r] = pieceOK[r]
    BY <1>1 DEF PieceEvents
  <1>3. CASE ~Subscribed(tracker)
    <2>1. tracker' = tracker /\ tracker.pc = "wait"
      BY <1>1, <1>3 DEF PieceChanges, Subscribed, Trackers
    <2>2. tracker.queue = <<>>
      BY <2>1 DEF TrackerInv, TrackerTyped
    <2>3. LastIsRight' /\ ReadIsKnown' /\ SeenDispatched' /\ DispatchedOnce'
      BY <2>1, <2>2 DEF TrackerInv, LastIsRight, ReadIsKnown, SeenDispatched, DispatchedOnce
    <2> QED BY <1>2, <2>1, <2>3 DEF TrackerInv, TrackerTyped
  <1>4. CASE Subscribed(tracker)
    <2>1. tracker' = [tracker EXCEPT !.queue = Append(@, ev)]
      BY <1>4 DEF PieceChanges
    <2> DEFINE q == tracker.queue
               n == Len(q)
    <2>2. q \in Seq(PieceEvents) /\ n \in Nat /\ DOMAIN q = 1 .. n
      BY <1>1 DEF Trackers
    <2>3. /\ Append(q, ev) \in Seq(PieceEvents) /\ DOMAIN Append(q, ev) = 1 .. (n + 1)
          /\ \A k \in 1 .. n : Append(q, ev)[k] = q[k]
          /\ Append(q, ev)[n + 1] = ev
      BY <1>2, <2>2
    <2>4. /\ tracker' \in Trackers /\ tracker'.queue = Append(q, ev) /\ tracker'.pc = tracker.pc
          /\ tracker'.at = tracker.at /\ tracker'.seen = tracker.seen /\ tracker'.done = tracker.done
          /\ tracker'.replay = tracker.replay /\ tracker.pc # "wait"
      BY <1>1, <1>4, <2>1, <2>3 DEF Trackers, Subscribed
    <2>5. TrackerTyped'
      BY <1>2, <2>4 DEF TrackerInv, TrackerTyped
    <2>6. LastIsRight'
      <3> SUFFICES ASSUME NEW k \in DOMAIN tracker'.queue, IsLast(k)'
                   PROVE  tracker'.queue[k].ok = pieceOK'[tracker'.queue[k].piece]
        BY DEF LastIsRight
      <3>1. CASE k = n + 1
        BY <1>2, <2>3, <2>4, <3>1
      <3>2. CASE k # n + 1
        <4>1. k \in 1 .. n /\ tracker'.queue[k] = q[k] /\ q[k] \in PieceEvents
          BY <2>2, <2>3, <2>4, <3>2
        <4>2. q[k].piece # p
          <5>1. n + 1 \in DOMAIN tracker'.queue /\ n + 1 > k /\ tracker'.queue[n + 1].piece = p
            BY <2>2, <2>3, <2>4, <4>1
          <5> QED BY <4>1, <5>1 DEF IsLast
        <4>3. IsLast(k)
          <5> SUFFICES ASSUME NEW l \in DOMAIN q, l > k PROVE q[l].piece # q[k].piece
            BY DEF IsLast
          <5>1. l \in DOMAIN tracker'.queue /\ tracker'.queue[l] = q[l]
            BY <2>2, <2>3, <2>4
          <5> QED BY <4>1, <5>1 DEF IsLast
        <4>4. q[k].ok = pieceOK[q[k].piece] /\ q[k].piece \in Pieces
          BY <2>2, <4>1, <4>3 DEF TrackerInv, LastIsRight, PieceEvents
        <4> QED BY <1>2, <4>1, <4>2, <4>4
      <3> QED BY <3>1, <3>2
    <2>7. ReadIsKnown'
      <3> SUFFICES ASSUME NEW r \in Pieces,
                          tracker.pc = "run" \/ (tracker.pc = "seed" /\ r < tracker.at)
                   PROVE  Known(r)'
        BY <2>4 DEF ReadIsKnown
      <3>1. Known(r)
        BY DEF TrackerInv, ReadIsKnown
      <3>2. HasEvent(r) => HasEvent(r)'
        BY <2>2, <2>3, <2>4 DEF HasEvent
      <3>3. HasEvent(p)'
        <4>1. n + 1 \in DOMAIN tracker'.queue /\ tracker'.queue[n + 1].piece = p
          BY <2>2, <2>3, <2>4
        <4> QED BY <4>1 DEF HasEvent
      <3>4. CASE r = p
        BY <3>3, <3>4 DEF Known
      <3>5. CASE r # p
        BY <1>2, <2>4, <3>1, <3>2, <3>5 DEF Known
      <3> QED BY <3>4, <3>5
    <2>8. SeenDispatched' /\ DispatchedOnce'
      BY <2>4 DEF TrackerInv, SeenDispatched, DispatchedOnce, Complete
    <2> QED BY <2>5, <2>6, <2>7, <2>8 DEF TrackerInv
  <1> QED BY <1>3, <1>4


LEMMA TrackerSeeds ==
    ASSUME TrackerInv, TrackerStarts \/ SeedPiece
    PROVE  TrackerInv'
  <1>1. tracker \in Trackers /\ pieceOK \in [Pieces -> BOOLEAN] /\ pieceOK' = pieceOK
    BY DEF TrackerInv, TrackerTyped, TrackerStarts, SeedPiece, torrentVars
  <1>2. PieceCount \in Nat /\ Pieces = 1 .. PieceCount
    BY FilesAssumption, FS_CardinalityType DEF PieceCount
  <1>3. CASE TrackerStarts
    <2>1. tracker' = [tracker EXCEPT !.pc = "seed"] /\ tracker.pc = "wait"
      BY <1>3 DEF TrackerStarts
    <2>2. tracker.queue = <<>> /\ tracker.at = 1 /\ tracker.done = {} /\ tracker.replay = <<>>
      BY <2>1 DEF TrackerInv, TrackerTyped
    <2>3. tracker' \in Trackers /\ tracker'.pc = "seed" /\ tracker'.queue = <<>> /\ tracker'.at = 1
          /\ tracker'.done = {} /\ tracker'.replay = <<>>
      BY <1>1, <2>1, <2>2 DEF Trackers
    <2>4. DOMAIN tracker'.queue = {} /\ DOMAIN tracker'.replay = {}
      BY <2>3
    <2> QED BY <1>1, <1>2, <2>3, <2>4
            DEF TrackerInv, TrackerTyped, LastIsRight, ReadIsKnown, SeenDispatched, DispatchedOnce
  <1>4. CASE SeedPiece
    <2> DEFINE p == tracker.at
    <2>1. p \in Pieces /\ tracker.pc = "seed"
          /\ tracker' = [tracker EXCEPT !.seen[p] = pieceOK[p], !.at = @ + 1]
      BY <1>4 DEF SeedPiece
    <2>a. p + 1 \in 1 .. (PieceCount + 1)
      BY <1>2, <2>1
    <2>b. [tracker.seen EXCEPT ![p] = pieceOK[p]] \in [Pieces -> BOOLEAN]
      BY <1>1, <2>1 DEF Trackers
    <2>2. /\ tracker' \in Trackers /\ tracker'.pc = "seed" /\ tracker'.queue = tracker.queue
          /\ tracker'.at = p + 1 /\ tracker'.done = tracker.done /\ tracker'.replay = tracker.replay
          /\ tracker'.seen = [tracker.seen EXCEPT ![p] = pieceOK[p]]
      <3> DEFINE sn == [tracker.seen EXCEPT ![p] = pieceOK[p]]
                 a == p + 1
      <3>1. tracker' = [[tracker EXCEPT !.seen = sn] EXCEPT !.at = a]
        BY <1>1, <2>1 DEF Trackers
      <3>2. sn \in [Pieces -> BOOLEAN] /\ a \in 1 .. (PieceCount + 1)
        BY <2>a, <2>b
      <3> HIDE DEF sn, a
      <3>3. /\ tracker' \in Trackers /\ tracker'.pc = tracker.pc /\ tracker'.queue = tracker.queue
            /\ tracker'.at = a /\ tracker'.done = tracker.done /\ tracker'.replay = tracker.replay
            /\ tracker'.seen = sn
        BY <1>1, <3>1, <3>2 DEF Trackers
      <3> QED BY <2>1, <3>3 DEF sn, a
    <2>3. TrackerTyped'
      BY <1>1, <2>1, <2>2 DEF TrackerInv, TrackerTyped
    <2>4. LastIsRight'
      BY <1>1, <2>2 DEF TrackerInv, LastIsRight, IsLast
    <2>5. ReadIsKnown'
      <3> SUFFICES ASSUME NEW r \in Pieces, r < p + 1 PROVE Known(r)'
        BY <2>2 DEF ReadIsKnown
      <3>1. tracker'.seen[p] = pieceOK[p] /\ \A s \in Pieces : s # p => tracker'.seen[s] = tracker.seen[s]
        BY <1>1, <2>1, <2>2 DEF Trackers
      <3>2. CASE r = p
        BY <1>1, <3>1, <3>2 DEF Known
      <3>3. CASE r # p
        <4>1. r < p
          BY <1>2, <2>1, <3>3
        <4>2. Known(r)
          BY <2>1, <4>1 DEF TrackerInv, ReadIsKnown
        <4> QED BY <1>1, <2>2, <3>1, <3>3, <4>2 DEF Known, HasEvent
      <3> QED BY <3>2, <3>3
    <2>6. SeenDispatched' /\ DispatchedOnce'
      BY <2>2 DEF TrackerInv, SeenDispatched, DispatchedOnce
    <2> QED BY <2>3, <2>4, <2>5, <2>6 DEF TrackerInv
  <1> QED BY <1>3, <1>4

\* dispatch appends files that were not dispatched before, each once.
LEMMA DispatchOnce ==
    ASSUME NEW t \in Trackers, NEW fs \in SUBSET (Files \ t.done), dispatch(t, fs),
           \A i \in DOMAIN t.replay : t.replay[i] \in t.done,
           \A i, j \in DOMAIN t.replay : t.replay[i] = t.replay[j] => i = j
    PROVE  /\ tracker' \in Trackers /\ tracker'.pc = t.pc /\ tracker'.at = t.at
           /\ tracker'.queue = t.queue /\ tracker'.seen = t.seen /\ tracker'.done = t.done \cup fs
           /\ DispatchedOnce'
  <1>1. PICK s \in InFileOrder(fs) : tracker' = [t EXCEPT !.done = @ \cup fs, !.replay = @ \o s]
    BY DEF dispatch
  <1>2. IsFiniteSet(fs) /\ Cardinality(fs) \in Nat
    BY FilesAssumption, FS_Subset, FS_CardinalityType
  <1> DEFINE n == Cardinality(fs)
             q == t.replay
             m == Len(q)
  <1>3. s \in [1 .. n -> fs] /\ \A i, j \in 1 .. n : i < j => s[i] < s[j]
    BY DEF InFileOrder
  <1>4. s \in Seq(Files) /\ Len(s) = n
    BY <1>2, <1>3
  <1>5. \A i, j \in 1 .. n : s[i] = s[j] => i = j
    <2> SUFFICES ASSUME NEW i \in 1 .. n, NEW j \in 1 .. n, i < j PROVE s[i] # s[j]
      BY <1>2
    <2>1. s[i] \in Nat /\ s[j] \in Nat /\ s[i] < s[j]
      BY <1>3, FilesAssumption
    <2> QED BY <2>1
  <1>6. q \in Seq(Files) /\ m \in Nat /\ DOMAIN q = 1 .. m
    BY DEF Trackers
  <1>7. /\ q \o s \in Seq(Files) /\ DOMAIN (q \o s) = 1 .. (m + n)
        /\ \A i \in 1 .. m : (q \o s)[i] = q[i]
        /\ \A i \in 1 .. (m + n) : i > m => (q \o s)[i] = s[i - m]
    BY <1>2, <1>4, <1>6
  <1>8. /\ tracker' \in Trackers /\ tracker'.pc = t.pc /\ tracker'.at = t.at
        /\ tracker'.queue = t.queue /\ tracker'.seen = t.seen /\ tracker'.done = t.done \cup fs
        /\ tracker'.replay = q \o s
    BY <1>1, <1>7 DEF Trackers
  <1>9. ASSUME NEW i \in 1 .. (m + n), i > m PROVE i - m \in 1 .. n /\ (q \o s)[i] \in fs
    <2>1. n \in Nat /\ m \in Nat
      BY <1>2, <1>6
    <2> HIDE DEF n, m
    <2>2. i - m \in 1 .. n
      BY <1>9, <2>1
    <2>3. (q \o s)[i] = s[i - m]
      BY <1>7, <1>9
    <2> QED BY <1>3, <2>2, <2>3
  <1>10. ASSUME NEW i \in 1 .. (m + n), i <= m PROVE i \in 1 .. m /\ (q \o s)[i] \in t.done
    <2>1. n \in Nat /\ m \in Nat
      BY <1>2, <1>6
    <2>2. i \in 1 .. m
      BY <1>10, <2>1
    <2> QED BY <1>6, <1>7, <2>2
  <1>a. ASSUME NEW i \in 1 .. (m + n) PROVE (q \o s)[i] \in t.done \cup fs /\ (i <= m \/ i > m)
    <2>1. i <= m \/ i > m
      BY <1>2, <1>6
    <2> QED BY <2>1, <1>9, <1>10
  <1>11. ASSUME NEW i \in 1 .. (m + n), NEW j \in 1 .. (m + n), (q \o s)[i] = (q \o s)[j] PROVE i = j
    <2>1. CASE i <= m /\ j <= m
      BY <1>6, <1>7, <1>10, <1>11, <2>1
    <2>2. CASE i > m /\ j > m
      <3>1. s[i - m] = s[j - m] /\ i - m \in 1 .. n /\ j - m \in 1 .. n
        BY <1>7, <1>9, <1>11, <2>2
      <3>2. i - m = j - m
        BY <1>5, <3>1
      <3> QED BY <1>2, <1>6, <3>2
    <2>3. CASE i <= m /\ j > m
      <3>1. (q \o s)[i] \in t.done /\ (q \o s)[j] \in fs
        BY <1>9, <1>10, <2>3
      <3> QED BY <1>11, <3>1
    <2>4. CASE i > m /\ j <= m
      <3>1. (q \o s)[j] \in t.done /\ (q \o s)[i] \in fs
        BY <1>9, <1>10, <2>4
      <3> QED BY <1>11, <3>1
    <2> QED BY <1>a, <2>1, <2>2, <2>3, <2>4
  <1>12. DispatchedOnce'
    BY <1>7, <1>8, <1>a, <1>11 DEF DispatchedOnce
  <1> QED BY <1>8, <1>12

LEMMA TrackerSeedFiles ==
    ASSUME TrackerInv, SeedFiles
    PROVE  TrackerInv'
  <1> DEFINE t == [tracker EXCEPT !.pc = "run"]
             fs == {f \in Files : Complete(tracker.seen, f)}
  <1>1. tracker \in Trackers /\ pieceOK \in [Pieces -> BOOLEAN] /\ pieceOK' = pieceOK
        /\ tracker.pc = "seed" /\ tracker.at \notin Pieces /\ dispatch(t, fs)
    BY DEF TrackerInv, TrackerTyped, SeedFiles, torrentVars
  <1>2. tracker.done = {} /\ tracker.replay = <<>>
    BY <1>1 DEF TrackerInv, TrackerTyped
  <1>3. t \in Trackers /\ t.pc = "run" /\ t.at = tracker.at /\ t.queue = tracker.queue
        /\ t.seen = tracker.seen /\ t.done = {} /\ t.replay = <<>>
    BY <1>1, <1>2 DEF Trackers
  <1>4. PieceCount \in Nat /\ Pieces = 1 .. PieceCount /\ tracker.at \in 1 .. (PieceCount + 1)
    BY <1>1, FilesAssumption, FS_CardinalityType DEF PieceCount, Trackers
  <1>5. \A p \in Pieces : p < tracker.at
    BY <1>1, <1>4
  <1>6. fs \in SUBSET (Files \ t.done) /\ DOMAIN t.replay = {}
    BY <1>3
  <1> HIDE DEF t, fs
  <1>7. /\ tracker' \in Trackers /\ tracker'.pc = "run" /\ tracker'.queue = tracker.queue
        /\ tracker'.seen = tracker.seen /\ tracker'.done = fs /\ DispatchedOnce'
    BY <1>1, <1>3, <1>6, DispatchOnce
  <1>8. TrackerTyped'
    BY <1>1, <1>7 DEF TrackerTyped
  <1>9. LastIsRight'
    BY <1>1, <1>7 DEF TrackerInv, LastIsRight, IsLast
  <1>10. ReadIsKnown'
    BY <1>1, <1>5, <1>7 DEF TrackerInv, ReadIsKnown, Known, HasEvent
  <1>11. SeenDispatched'
    BY <1>7 DEF SeenDispatched, fs, Complete
  <1> QED BY <1>7, <1>8, <1>9, <1>10, <1>11 DEF TrackerInv


\* The queue without its first event.
LEMMA QueueTail ==
    ASSUME NEW q \in Seq(PieceEvents), q # <<>>
    PROVE  /\ Head(q) = q[1] /\ q[1] \in PieceEvents /\ 1 \in DOMAIN q
           /\ Tail(q) \in Seq(PieceEvents) /\ Len(q) \in Nat \ {0}
           /\ DOMAIN q = 1 .. Len(q) /\ DOMAIN Tail(q) = 1 .. (Len(q) - 1)
           /\ \A k \in DOMAIN Tail(q) : k + 1 \in DOMAIN q /\ Tail(q)[k] = q[k + 1]
           /\ \A k \in DOMAIN q : k = 1 \/ (k - 1 \in DOMAIN Tail(q) /\ Tail(q)[k - 1] = q[k])
  <1>1. Len(q) \in Nat \ {0} /\ DOMAIN q = 1 .. Len(q) /\ Head(q) = q[1]
    OBVIOUS
  <1>2. 1 \in DOMAIN q /\ q[1] \in PieceEvents
    BY <1>1
  <1>3. Tail(q) \in Seq(PieceEvents) /\ Len(Tail(q)) = Len(q) - 1
    OBVIOUS
  <1>4. DOMAIN Tail(q) = 1 .. (Len(q) - 1)
    BY <1>3
  <1>5. ASSUME NEW k \in 1 .. (Len(q) - 1) PROVE k + 1 \in 1 .. Len(q) /\ Tail(q)[k] = q[k + 1]
    BY <1>1
  <1>6. ASSUME NEW k \in 1 .. Len(q), k # 1 PROVE k - 1 \in 1 .. (Len(q) - 1) /\ Tail(q)[k - 1] = q[k]
    <2>1. k - 1 \in 1 .. (Len(q) - 1) /\ (k - 1) + 1 = k
      BY <1>1, <1>6
    <2> QED BY <1>5, <2>1
  <1> QED BY <1>1, <1>2, <1>3, <1>4, <1>5, <1>6

LEMMA TrackerEvent ==
    ASSUME TrackerInv, PieceEvent
    PROVE  TrackerInv'
  <1> DEFINE q == tracker.queue
             ev == Head(q)
             p == ev.piece
             sn == [tracker.seen EXCEPT ![p] = ev.ok]
             t == [tracker EXCEPT !.queue = Tail(@), !.seen[p] = ev.ok]
             fs == {f \in {f \in Files \ t.done : p \in Span[f]} : Complete(t.seen, f)}
  <1>1. /\ tracker \in Trackers /\ pieceOK \in [Pieces -> BOOLEAN] /\ pieceOK' = pieceOK
        /\ tracker.pc = "run" /\ q \in Seq(PieceEvents) /\ q # <<>>
    BY DEF TrackerInv, TrackerTyped, PieceEvent, torrentVars, Trackers
  <1>2. /\ ev = q[1] /\ ev \in PieceEvents /\ Tail(q) \in Seq(PieceEvents) /\ 1 \in DOMAIN q
        /\ Len(q) \in Nat \ {0} /\ DOMAIN q = 1 .. Len(q)
        /\ DOMAIN Tail(q) = 1 .. (Len(q) - 1)
        /\ \A k \in DOMAIN Tail(q) : k + 1 \in DOMAIN q /\ Tail(q)[k] = q[k + 1]
        /\ \A k \in DOMAIN q : k = 1 \/ (k - 1 \in DOMAIN Tail(q) /\ Tail(q)[k - 1] = q[k])
    BY <1>1, QueueTail
  <1>3. p \in Pieces /\ ev.ok \in BOOLEAN
    BY <1>2 DEF PieceEvents
  <1>4. /\ sn \in [Pieces -> BOOLEAN] /\ sn[p] = ev.ok
        /\ \A r \in Pieces : r # p => sn[r] = tracker.seen[r]
    BY <1>1, <1>3 DEF Trackers
  <1>5. /\ t \in Trackers /\ t.pc = "run" /\ t.at = tracker.at /\ t.queue = Tail(q) /\ t.seen = sn
        /\ t.done = tracker.done /\ t.replay = tracker.replay
    <2> HIDE DEF q, ev, p
    <2>1. t = [[tracker EXCEPT !.queue = Tail(q)] EXCEPT !.seen = sn]
      BY <1>1 DEF Trackers, q
    <2> HIDE DEF sn, t
    <2> QED BY <1>1, <1>2, <1>4, <2>1 DEF Trackers
  <1>6. /\ tracker.seen[p] = ev.ok => tracker' = t
        /\ tracker.seen[p] # ev.ok => dispatch(t, fs)
    BY DEF PieceEvent
  <1>7. fs \in SUBSET (Files \ t.done)
    OBVIOUS
  <1>8. fs = {f \in Files \ tracker.done : p \in Span[f] /\ Complete(sn, f)}
    BY <1>5
  <1>9. /\ \A i \in DOMAIN t.replay : t.replay[i] \in t.done
        /\ \A i, j \in DOMAIN t.replay : t.replay[i] = t.replay[j] => i = j
    BY <1>5 DEF TrackerInv, DispatchedOnce
  <1> HIDE DEF t, fs, ev
  <1>10. /\ tracker' \in Trackers /\ tracker'.pc = "run" /\ tracker'.queue = Tail(q)
         /\ tracker'.seen = sn /\ DispatchedOnce'
         /\ \/ tracker.seen[p] = ev.ok /\ tracker'.done = tracker.done
            \/ tracker.seen[p] # ev.ok /\ tracker'.done = tracker.done \cup fs
    <2>1. CASE tracker.seen[p] = ev.ok
      BY <1>5, <1>6, <1>9, <2>1 DEF DispatchedOnce
    <2>2. CASE tracker.seen[p] # ev.ok
      BY <1>5, <1>6, <1>7, <1>9, <2>2, DispatchOnce
    <2> QED BY <2>1, <2>2
  <1>11. TrackerTyped'
    BY <1>1, <1>10 DEF TrackerTyped
  <1>12. LastIsRight'
    <2> SUFFICES ASSUME NEW k \in DOMAIN Tail(q), IsLast(k)'
                 PROVE  Tail(q)[k].ok = pieceOK[Tail(q)[k].piece]
      BY <1>1, <1>10 DEF LastIsRight
    <2>1. k + 1 \in DOMAIN q /\ Tail(q)[k] = q[k + 1] /\ k \in Nat \ {0}
      BY <1>2
    <2>2. IsLast(k + 1)
      <3> SUFFICES ASSUME NEW l \in DOMAIN q, l > k + 1 PROVE q[l].piece # q[k + 1].piece
        BY DEF IsLast
      <3>1. l # 1 /\ l - 1 > k
        BY <1>2, <2>1
      <3>2. l - 1 \in DOMAIN Tail(q) /\ Tail(q)[l - 1] = q[l]
        BY <1>2, <3>1
      <3> QED BY <1>10, <2>1, <3>1, <3>2 DEF IsLast
    <2> QED BY <2>1, <2>2 DEF TrackerInv, LastIsRight
  <1>13. ReadIsKnown'
    <2> SUFFICES ASSUME NEW r \in Pieces PROVE Known(r)'
      BY DEF ReadIsKnown
    <2>1. ASSUME NEW l \in DOMAIN q, l # 1, q[l].piece = r PROVE HasEvent(r)'
      <3>1. l - 1 \in DOMAIN tracker'.queue /\ tracker'.queue[l - 1].piece = r
        BY <1>2, <1>10, <2>1
      <3> QED BY <3>1 DEF HasEvent
    <2>2. CASE r = p
      <3>1. CASE IsLast(1)
        <4>1. sn[p] = pieceOK[p]
          BY <1>2, <1>4, <3>1 DEF TrackerInv, LastIsRight
        <4> QED BY <1>1, <1>10, <2>2, <4>1 DEF Known
      <3>2. CASE ~IsLast(1)
        <4>1. PICK l \in DOMAIN q : l > 1 /\ q[l].piece = q[1].piece
          BY <3>2 DEF IsLast
        <4> QED BY <1>2, <2>1, <2>2, <4>1 DEF Known
      <3> QED BY <3>1, <3>2
    <2>3. CASE r # p
      <3>1. Known(r)
        BY <1>1 DEF TrackerInv, ReadIsKnown
      <3>2. CASE tracker.seen[r] = pieceOK[r]
        BY <1>1, <1>4, <1>10, <2>3, <3>2 DEF Known
      <3>3. CASE HasEvent(r)
        <4>1. PICK l \in DOMAIN q : q[l].piece = r
          BY <3>3 DEF HasEvent
        <4> QED BY <1>2, <2>1, <2>3, <4>1 DEF Known
      <3> QED BY <3>1, <3>2, <3>3 DEF Known
    <2> QED BY <2>2, <2>3
  <1>14. SeenDispatched'
    <2> SUFFICES ASSUME NEW f \in Files, Complete(sn, f) PROVE f \in tracker'.done
      BY <1>10 DEF SeenDispatched
    <2>1. CASE p \notin Span[f] \/ tracker.seen[p] = ev.ok
      <3>1. Complete(tracker.seen, f)
        BY <1>4, <2>1, FilesAssumption DEF Complete
      <3> QED BY <1>1, <1>10, <3>1 DEF TrackerInv, SeenDispatched
    <2>2. CASE p \in Span[f] /\ tracker.seen[p] # ev.ok
      BY <1>8, <1>10, <2>2
    <2> QED BY <2>1, <2>2
  <1> QED BY <1>10, <1>11, <1>12, <1>13, <1>14 DEF TrackerInv


\* The steps of the goroutines behind the tracker, and the calls that keep the handle.
LEMMA TrackerApart ==
    ASSUME \/ GotInfo \/ RescanStep \/ WorkerStep \/ Watchdog \/ WriteChunk(FALSE)
           \/ \E g \in Gens : IngestStep(g) \/ AutoIndexStep(g) \/ AutoIndexWrites(g, FALSE)
           \/ \E found \in BOOLEAN : ExtractReturns(found) \/ \E f \in Files : LateReturns(f, found)
           \/ \E on \in BOOLEAN : SetTorrentIndexing(on) \/ EnableWrites(on)
           \/ EnableChecks \/ ForgetStep
    PROVE  UNCHANGED <<tracker, pieceOK>>
  <1>1. GotInfo => UNCHANGED <<tracker, pieceOK>>
    BY DEF GotInfo
  <1>2. RescanStep => UNCHANGED <<tracker, pieceOK>>
    BY DEF RescanStep, RescanTick, RescanSends, RescanMarks, torrentVars
  <1>3. WorkerTakes \/ Watchdog => UNCHANGED <<tracker, pieceOK>>
    BY DEF WorkerTakes, Watchdog, torrentVars
  <1>4. ASSUME NEW ok \in BOOLEAN, WriteChunk(ok) PROVE UNCHANGED <<tracker, pieceOK>>
    BY <1>4 DEF WriteChunk, torrentVars
  <1>5. ASSUME NEW g \in Gens, IngestStep(g) PROVE UNCHANGED <<tracker, pieceOK>>
    BY <1>5 DEF IngestStep, IngestSubscribes, IngestTakes, IngestStops, IngestSends, IngestMarks, torrentVars
  <1>6. ASSUME NEW g \in Gens, NEW ok \in BOOLEAN, AutoIndexReads(g) \/ AutoIndexStops(g) \/ AutoIndexWrites(g, ok)
        PROVE  UNCHANGED <<tracker, pieceOK>>
    BY <1>6 DEF AutoIndexReads, AutoIndexStops, AutoIndexWrites, torrentVars
  <1>7. ASSUME NEW found \in BOOLEAN, ExtractReturns(found) \/ \E f \in Files : LateReturns(f, found)
        PROVE  UNCHANGED <<tracker, pieceOK>>
    BY <1>7 DEF ExtractReturns, LateReturns, torrentVars
  <1>8. ASSUME NEW on \in BOOLEAN, SetTorrentIndexing(on) \/ EnableWrites(on)
        PROVE  UNCHANGED <<tracker, pieceOK>>
    BY <1>8 DEF SetTorrentIndexing, EnableWrites, torrentVars
  <1>9. EnableChecks \/ ForgetStep => UNCHANGED <<tracker, pieceOK>>
    BY DEF EnableChecks, ForgetStep, ForgetSubmitted, DeleteTorrent, DeleteContentForTorrent, torrentVars
  <1> QED BY <1>1, <1>2, <1>3, <1>4, <1>5, <1>6, <1>7, <1>8, <1>9 DEF WorkerStep, AutoIndexStep

LEMMA TrackerInit ==
    ASSUME Init
    PROVE  TrackerInv
  <1>1. /\ tracker \in Trackers /\ tracker.pc = "wait" /\ tracker.queue = <<>>
        /\ tracker.at = 1 /\ tracker.done = {} /\ tracker.replay = <<>>
    BY FreshTracker DEF Init
  <1>2. DOMAIN tracker.queue = {} /\ DOMAIN tracker.replay = {}
    BY <1>1
  <1>3. pieceOK \in [Pieces -> BOOLEAN]
    BY DEF Init
  <1> QED BY <1>1, <1>2, <1>3 DEF TrackerInv, TrackerTyped, LastIsRight, ReadIsKnown, SeenDispatched, DispatchedOnce

LEMMA TrackerStutters ==
    ASSUME TrackerInv, UNCHANGED <<tracker, pieceOK>>
    PROVE  TrackerInv'
  BY DEF TrackerInv, TrackerTyped, LastIsRight, IsLast, ReadIsKnown, Known, HasEvent, SeenDispatched, DispatchedOnce

LEMMA TrackerNext ==
    ASSUME TrackerInv, [Next]_vars
    PROVE  TrackerInv'
  <1>1. CASE \E p \in Pieces : PieceChanges(p)
    BY <1>1, TrackerChange
  <1>2. CASE TrackerStep
    BY <1>2, TrackerSeeds, TrackerSeedFiles, TrackerEvent DEF TrackerStep
  <1>3. CASE RemoveTorrent \/ (\E on \in BOOLEAN : AddTorrent(on))
             \/ (\E withInfo, rebuild \in BOOLEAN : Restart(withInfo, rebuild))
    <2>1. tracker' = freshTracker /\ pieceOK' = pieceOK
      BY <1>3 DEF RemoveTorrent, AddTorrent, Restart, Register
    <2>2. pieceOK \in [Pieces -> BOOLEAN]
      BY DEF TrackerInv, TrackerTyped
    <2> QED BY <2>1, <2>2, TrackerFresh
  <1>4. CASE UNCHANGED vars
    <2>1. UNCHANGED <<tracker, pieceOK>>
      BY <1>4 DEF vars
    <2> QED BY <2>1, TrackerStutters
  <1>5. CASE UNCHANGED <<tracker, pieceOK>>
    BY <1>5, TrackerStutters
  <1> QED BY <1>1, <1>2, <1>3, <1>4, <1>5, TrackerApart DEF Next

\* Once the tracker has worked off its queue, it has dispatched every complete file, and none
\* twice (fileTracker.run), in whatever order pieces finish, turn bad and are read.
THEOREM FilesNeverMissed == Spec => []NoMissedFile
  <1>1. TrackerInv => NoMissedFile
    <2> SUFFICES ASSUME TrackerInv, tracker.pc = "run", tracker.queue = <<>>,
                        NEW f \in Files, Complete(pieceOK, f)
                 PROVE  f \in tracker.done
      BY DEF TrackerInv, DispatchedOnce, NoMissedFile
    <2>1. \A p \in Pieces : ~HasEvent(p)
      BY DEF HasEvent
    <2>2. \A p \in Pieces : tracker.seen[p] = pieceOK[p]
      BY <2>1 DEF TrackerInv, ReadIsKnown, Known
    <2>3. Complete(tracker.seen, f)
      BY <2>2, FilesAssumption DEF Complete
    <2> QED BY <2>3 DEF TrackerInv, SeenDispatched
  <1> QED BY <1>1, TrackerInit, TrackerNext, PTL DEF Spec


(***************************************************************************)
(* The documents.  The worker writes the text of the file it holds, and    *)
(* the torrent document is there, or the goroutine or the call that is to  *)
(* write it has not ended.                                                 *)
(***************************************************************************)
WorkerShaped ==
    worker = [pc |-> worker.pc, file |-> worker.file, from |-> worker.from, chunk |-> worker.chunk]
WritesOwn == worker.pc = "write" => worker.from = worker.file
ContentInv == WorkerShaped /\ WritesOwn /\ ContentIsOwn

Forgetting == {"removed", "forget", "deleteTorrent", "deleteContent", "forgotten"}
Enabling == {"enabled", "writing"}
DocTyped ==
    /\ handle \in [gen : Gens, present : BOOLEAN]
    /\ info \in [Gens -> BOOLEAN] /\ indexing \in [Gens -> BOOLEAN]
    /\ auto \in [Gens -> {"wait", "write", "off"}]
AwaitsInfo == handle.present /\ ~info[handle.gen] => auto[handle.gen] = "wait"
GoneWhileForgetting == api \in Forgetting => ~handle.present
DocOrWriter ==
    handle.present /\ info[handle.gen] /\ indexing[handle.gen] /\ auto[handle.gen] = "off"
    => torrentDoc # "none" \/ api \in Enabling
DocInv == DocTyped /\ AwaitsInfo /\ GoneWhileForgetting /\ DocOrWriter

\* An extraction that ends hands its own file to the writer.
LEMMA OwnExtraction ==
    ASSUME ContentInv, NEW found \in BOOLEAN, worker' = Extracted(worker.file, found), content' = content
    PROVE  ContentInv'
  <1>1. CASE worker' = idleWorker
    BY <1>1 DEF ContentInv, WorkerShaped, WritesOwn, ContentIsOwn, idleWorker
  <1>2. CASE worker' = [worker EXCEPT !.pc = "write", !.from = worker.file, !.chunk = 1]
    <2>1. worker' = [pc |-> "write", file |-> worker.file, from |-> worker.file, chunk |-> 1]
      BY <1>2 DEF ContentInv, WorkerShaped
    <2> QED BY <2>1 DEF ContentInv, WorkerShaped, WritesOwn, ContentIsOwn
  <1> QED BY <1>1, <1>2 DEF Extracted

LEMMA OwnChunk ==
    ASSUME ContentInv, NEW ok \in BOOLEAN, WriteChunk(ok)
    PROVE  ContentInv'
  <1>1. worker.from = worker.file
    BY DEF WriteChunk, ContentInv, WritesOwn
  <1>2. ContentIsOwn'
    BY <1>1 DEF WriteChunk, ContentInv, ContentIsOwn, IndexContent
  <1>3. CASE worker' = idleWorker
    BY <1>2, <1>3 DEF ContentInv, WorkerShaped, WritesOwn, idleWorker
  <1>4. CASE worker' = [worker EXCEPT !.chunk = @ + 1]
    <2>1. worker' = [pc |-> worker.pc, file |-> worker.file, from |-> worker.from, chunk |-> worker.chunk + 1]
      BY <1>4 DEF ContentInv, WorkerShaped
    <2> QED BY <1>1, <1>2, <2>1 DEF ContentInv, WorkerShaped, WritesOwn
  <1> QED BY <1>3, <1>4 DEF WriteChunk

LEMMA OwnTake ==
    ASSUME ContentInv, WorkerTakes \/ Watchdog
    PROVE  ContentInv'
  <1>1. content' = content
    BY DEF WorkerTakes, Watchdog
  <1>2. CASE worker' = worker \/ worker' = idleWorker
    BY <1>1, <1>2 DEF ContentInv, WorkerShaped, WritesOwn, ContentIsOwn, idleWorker
  <1>3. CASE worker' = [idleWorker EXCEPT !.pc = "extract", !.file = Head(input)]
    <2>1. worker' = [pc |-> "extract", file |-> Head(input), from |-> 0, chunk |-> 0]
      BY <1>3 DEF idleWorker
    <2> QED BY <1>1, <2>1 DEF ContentInv, WorkerShaped, WritesOwn, ContentIsOwn
  <1> QED BY <1>2, <1>3 DEF WorkerTakes, Watchdog

\* The steps that leave the worker alone; a forgotten or a rebuilt index holds no content.
LEMMA ContentApart ==
    ASSUME \/ \E p \in Pieces : PieceChanges(p)
           \/ GotInfo \/ TrackerStep \/ RescanStep
           \/ \E g \in Gens : IngestStep(g) \/ AutoIndexStep(g) \/ AutoIndexWrites(g, FALSE)
           \/ \E found \in BOOLEAN, f \in Files : LateReturns(f, found)
           \/ \E on \in BOOLEAN : SetTorrentIndexing(on) \/ EnableWrites(on) \/ AddTorrent(on)
           \/ EnableChecks \/ RemoveTorrent \/ ForgetStep
           \/ \E withInfo, rebuild \in BOOLEAN : Restart(withInfo, rebuild)
    PROVE  worker' \in {worker, idleWorker} /\ content' \in {content, {}}
  <1> DEFINE Kept == worker' = worker /\ content' = content
  <1>1. ASSUME NEW p \in Pieces, PieceChanges(p) PROVE Kept
    BY <1>1 DEF PieceChanges, pipeVars
  <1>2. GotInfo \/ TrackerStep \/ RescanStep => Kept
    BY DEF GotInfo, TrackerStep, TrackerStarts, SeedPiece, SeedFiles, PieceEvent, RescanStep,
           RescanTick, RescanSends, RescanMarks, pipeVars
  <1>3. ASSUME NEW g \in Gens, IngestStep(g) PROVE Kept
    BY <1>3 DEF IngestStep, IngestSubscribes, IngestTakes, IngestStops, IngestSends, IngestMarks, pipeVars
  <1>4. ASSUME NEW g \in Gens, NEW ok \in BOOLEAN, AutoIndexReads(g) \/ AutoIndexStops(g) \/ AutoIndexWrites(g, ok)
        PROVE  Kept
    BY <1>4 DEF AutoIndexReads, AutoIndexStops, AutoIndexWrites, pipeVars
  <1>5. ASSUME NEW found \in BOOLEAN, NEW f \in Files, LateReturns(f, found) PROVE Kept
    <2>1. ~Hears("abandoned")
      BY DEF Hears
    <2> QED BY <1>5, <2>1 DEF LateReturns
  <1>6. ASSUME NEW on \in BOOLEAN, SetTorrentIndexing(on) \/ EnableWrites(on) \/ AddTorrent(on) PROVE Kept
    BY <1>6 DEF SetTorrentIndexing, EnableWrites, AddTorrent, pipeVars
  <1>7. EnableChecks \/ RemoveTorrent => Kept
    BY DEF EnableChecks, RemoveTorrent, pipeVars
  <1>8. ForgetStep => worker' = worker /\ content' \in {content, {}}
    BY DEF ForgetStep, ForgetSubmitted, DeleteTorrent, DeleteContentForTorrent, pipeVars
  <1>9. ASSUME NEW withInfo \in BOOLEAN, NEW rebuild \in BOOLEAN, Restart(withInfo, rebuild)
        PROVE  worker' = idleWorker /\ content' \in {content, {}}
    BY <1>9 DEF Restart
  <1> QED BY <1>1, <1>2, <1>3, <1>4, <1>5, <1>6, <1>7, <1>8, <1>9 DEF AutoIndexStep

LEMMA ContentStep ==
    ASSUME ContentInv, [Next]_vars
    PROVE  ContentInv'
  <1>1. CASE WorkerTakes \/ Watchdog
    BY <1>1, OwnTake
  <1>2. CASE WriteChunk(TRUE) \/ WriteChunk(FALSE)
    BY <1>2, OwnChunk
  <1>3. CASE \E found \in BOOLEAN : ExtractReturns(found)
    BY <1>3, OwnExtraction DEF ExtractReturns
  <1>4. CASE worker' \in {worker, idleWorker} /\ content' \in {content, {}}
    BY <1>4 DEF ContentInv, WorkerShaped, WritesOwn, ContentIsOwn, idleWorker
  <1>5. CASE UNCHANGED vars
    BY <1>5 DEF vars, ContentInv, WorkerShaped, WritesOwn, ContentIsOwn
  <1> QED BY <1>1, <1>2, <1>3, <1>4, <1>5, ContentApart DEF Next, WorkerStep


\* The steps that touch neither the torrent document nor what decides about it.
LEMMA DocApart ==
    ASSUME \/ \E p \in Pieces : PieceChanges(p)
           \/ TrackerStep \/ RescanStep \/ WorkerStep \/ Watchdog \/ WriteChunk(FALSE)
           \/ \E g \in Gens : IngestStep(g)
           \/ \E found \in BOOLEAN : ExtractReturns(found) \/ \E f \in Files : LateReturns(f, found)
    PROVE  UNCHANGED <<handle, info, indexing, auto, api, torrentDoc>>
  <1> DEFINE Kept == UNCHANGED <<handle, info, indexing, auto, api, torrentDoc>>
  <1>1. ASSUME NEW p \in Pieces, PieceChanges(p) PROVE Kept
    BY <1>1 DEF PieceChanges
  <1>2. TrackerStep => Kept
    BY DEF TrackerStep, TrackerStarts, SeedPiece, SeedFiles, PieceEvent, torrentVars
  <1>3. RescanStep => Kept
    BY DEF RescanStep, RescanTick, RescanSends, RescanMarks, torrentVars
  <1>4. WorkerTakes \/ Watchdog => Kept
    BY DEF WorkerTakes, Watchdog, torrentVars
  <1>5. ASSUME NEW ok \in BOOLEAN, WriteChunk(ok) PROVE Kept
    BY <1>5 DEF WriteChunk, torrentVars
  <1>6. ASSUME NEW g \in Gens, IngestStep(g) PROVE Kept
    BY <1>6 DEF IngestStep, IngestSubscribes, IngestTakes, IngestStops, IngestSends, IngestMarks, torrentVars
  <1>7. ASSUME NEW found \in BOOLEAN, ExtractReturns(found) \/ \E f \in Files : LateReturns(f, found)
        PROVE  Kept
    BY <1>7 DEF ExtractReturns, LateReturns, torrentVars
  <1> QED BY <1>1, <1>2, <1>3, <1>4, <1>5, <1>6, <1>7 DEF WorkerStep

\* autoIndex: it may end without a document only for a handle that is gone or not indexed.
LEMMA DocAuto ==
    ASSUME DocInv, NEW g \in Gens, NEW ok \in BOOLEAN,
           AutoIndexReads(g) \/ AutoIndexStops(g) \/ AutoIndexWrites(g, ok)
    PROVE  DocInv'
  <1>1. DocTyped /\ AwaitsInfo /\ GoneWhileForgetting /\ DocOrWriter
    BY DEF DocInv
  <1>2. handle' = handle /\ info' = info /\ indexing' = indexing /\ api' = api
    BY DEF AutoIndexReads, AutoIndexStops, AutoIndexWrites, torrentVars
  <1>3. CASE AutoIndexReads(g)
    <2>1. /\ auto' = [auto EXCEPT ![g] = IF indexing[g] THEN "write" ELSE "off"]
          /\ torrentDoc' = torrentDoc /\ info[g]
      BY <1>3 DEF AutoIndexReads
    <2> QED BY <1>1, <1>2, <2>1 DEF DocInv, DocTyped, AwaitsInfo, GoneWhileForgetting, DocOrWriter
  <1>4. CASE AutoIndexStops(g)
    <2>1. auto' = [auto EXCEPT ![g] = "off"] /\ torrentDoc' = torrentDoc /\ ~(handle.present /\ handle.gen = g)
      BY <1>4 DEF AutoIndexStops, Live
    <2> QED BY <1>1, <1>2, <2>1 DEF DocInv, DocTyped, AwaitsInfo, GoneWhileForgetting, DocOrWriter
  <1>5. CASE AutoIndexWrites(g, ok)
    <2>1. auto' = [auto EXCEPT ![g] = "off"] /\ auto[g] = "write" /\ torrentDoc' # "none"
      BY <1>5 DEF AutoIndexWrites, IndexTorrent
    <2> QED BY <1>1, <1>2, <2>1 DEF DocInv, DocTyped, AwaitsInfo, GoneWhileForgetting, DocOrWriter
  <1> QED BY <1>3, <1>4, <1>5

\* The calls of the user, and the metadata.
LEMMA DocCalls ==
    ASSUME DocInv, NEW on \in BOOLEAN,
           GotInfo \/ SetTorrentIndexing(on) \/ EnableChecks \/ EnableWrites(on) \/ RemoveTorrent \/ ForgetStep
    PROVE  DocInv'
  <1>1. DocTyped /\ AwaitsInfo /\ GoneWhileForgetting /\ DocOrWriter
    BY DEF DocInv
  <1> USE DEF DocTyped, AwaitsInfo, GoneWhileForgetting, DocOrWriter, Forgetting, Enabling
  <1>2. CASE GotInfo
    <2>1. info' = [info EXCEPT ![handle.gen] = TRUE] /\ handle.present /\ ~info[handle.gen]
          /\ UNCHANGED <<handle, indexing, auto, api, torrentDoc>>
      BY <1>2 DEF GotInfo
    <2> QED BY <1>1, <2>1 DEF DocInv
  <1>3. CASE SetTorrentIndexing(on)
    <2>1. indexing' = [indexing EXCEPT ![handle.gen] = on] /\ api' = (IF on THEN "enabled" ELSE "idle")
          /\ api = "idle" /\ UNCHANGED <<handle, info, auto, torrentDoc>>
      BY <1>3 DEF SetTorrentIndexing
    <2> QED BY <1>1, <2>1 DEF DocInv
  <1>4. CASE EnableChecks
    <2>1. api' = (IF info[handle.gen] THEN "writing" ELSE "idle") /\ UNCHANGED <<handle, info, indexing, auto, torrentDoc>>
      BY <1>4 DEF EnableChecks, WritesNow, torrentVars
    <2> QED BY <1>1, <2>1 DEF DocInv
  <1>5. CASE EnableWrites(on)
    <2>1. api' = "idle" /\ torrentDoc' # "none" /\ UNCHANGED <<handle, info, indexing, auto>>
      BY <1>5 DEF EnableWrites, IndexTorrent, torrentVars
    <2> QED BY <1>1, <2>1 DEF DocInv
  <1>6. CASE RemoveTorrent
    <2>1. handle' = [handle EXCEPT !.present = FALSE] /\ api' = "removed" /\ UNCHANGED <<info, indexing, auto, torrentDoc>>
      BY <1>6 DEF RemoveTorrent
    <2> QED BY <1>1, <2>1 DEF DocInv
  <1>7. CASE ForgetStep
    <2>1. api \in Forgetting /\ UNCHANGED <<handle, info, indexing, auto>>
      BY <1>7 DEF ForgetStep, ForgetSubmitted, DeleteTorrent, DeleteContentForTorrent, torrentVars
    <2> QED BY <1>1, <2>1 DEF DocInv
  <1> QED BY <1>2, <1>3, <1>4, <1>5, <1>6, <1>7

\* A new handle waits for its metadata.
LEMMA DocRegister ==
    ASSUME DocInv, NEW withInfo \in BOOLEAN, NEW rebuild \in BOOLEAN, AddTorrent(withInfo) \/ Restart(withInfo, rebuild)
    PROVE  DocInv'
  <1>1. DocTyped
    BY DEF DocInv
  <1>2. PICK on \in BOOLEAN : Register(withInfo, on)
    <2>1. AddTorrent(withInfo) => Register(withInfo, TRUE)
      BY DEF AddTorrent
    <2>2. Restart(withInfo, rebuild) => Register(withInfo, indexing[handle.gen])
      BY DEF Restart
    <2>3. indexing[handle.gen] \in BOOLEAN
      BY <1>1 DEF DocTyped
    <2> QED BY <2>1, <2>2, <2>3
  <1> DEFINE g == handle.gen + 1
  <1>3. MaxGen \in Nat \ {0} /\ handle.gen \in 1 .. MaxGen /\ handle.gen < MaxGen
    BY <1>1, <1>2, CapAssumption DEF DocTyped, Gens, Register
  <1>4. g \in Gens
    BY <1>3 DEF Gens
  <1>5. handle' = [gen |-> g, present |-> TRUE] /\ info' = [info EXCEPT ![g] = withInfo]
        /\ indexing' = [indexing EXCEPT ![g] = on]
    BY <1>2 DEF Register
  <1>6. api' = "idle" /\ (auto' = [auto EXCEPT ![g] = "wait"] \/ auto' = [h \in Gens |-> IF h = g THEN "wait" ELSE "off"])
    BY DEF AddTorrent, Restart
  <1> HIDE DEF g
  <1>7. DocTyped' /\ auto'[g] = "wait" /\ handle'.gen = g
    BY <1>1, <1>4, <1>5, <1>6 DEF DocTyped
  <1> QED BY <1>6, <1>7 DEF DocInv, AwaitsInfo, GoneWhileForgetting, DocOrWriter, Forgetting

LEMMA DocStep ==
    ASSUME DocInv, [Next]_vars
    PROVE  DocInv'
  <1>1. CASE UNCHANGED <<handle, info, indexing, auto, api, torrentDoc>>
    BY <1>1 DEF DocInv, DocTyped, AwaitsInfo, GoneWhileForgetting, DocOrWriter
  <1>2. CASE \E g \in Gens : AutoIndexStep(g) \/ AutoIndexWrites(g, FALSE)
    BY <1>2, DocAuto DEF AutoIndexStep
  <1>3. CASE GotInfo \/ (\E on \in BOOLEAN : SetTorrentIndexing(on) \/ EnableWrites(on))
             \/ EnableChecks \/ RemoveTorrent \/ ForgetStep
    BY <1>3, DocCalls
  <1>4. CASE (\E on \in BOOLEAN : AddTorrent(on)) \/ (\E withInfo, rebuild \in BOOLEAN : Restart(withInfo, rebuild))
    BY <1>4, DocRegister
  <1>5. CASE UNCHANGED vars
    BY <1>1, <1>5 DEF vars
  <1> QED BY <1>1, <1>2, <1>3, <1>4, <1>5, DocApart DEF Next

\* The index says what the torrent holds: a content document has the text of its own file though
\* abandoned extractions answer late (safeExtract), and the torrent document of an indexed torrent
\* with known metadata has been written, or its write was tried and failed, once autoIndex and the
\* user's call are over (writeTorrentDoc).
THEOREM DocumentsAlwaysRight == Spec => []DocumentsRight
  <1>1. Init => ContentInv
    BY DEF Init, ContentInv, WorkerShaped, WritesOwn, ContentIsOwn, idleWorker
  <1>2. Init => DocInv
    <2> SUFFICES ASSUME Init PROVE DocInv
      OBVIOUS
    <2>1. 1 \in Gens
      BY CapAssumption DEF Gens
    <2> QED BY <2>1 DEF Init, DocInv, DocTyped, AwaitsInfo, GoneWhileForgetting, DocOrWriter, Forgetting
  <1>3. ContentInv /\ DocInv => DocumentsRight
    BY DEF ContentInv, DocInv, DocOrWriter, Enabling, DocumentsRight, DocWhenIndexing
  <1> QED BY <1>1, <1>2, <1>3, ContentStep, DocStep, PTL DEF Spec


(***************************************************************************)
(* The Aggregate index.  The generation identifies a tree, so counting the *)
(* fetches per generation counts them per torrent.  A refresh that ends    *)
(* compared the generation it distributed with the current one.            *)
(***************************************************************************)
Around == {Nil, tree, job.tree, pointer} \cup {look[f].ptr : f \in Lookups}
GenIsTree ==
    /\ gen \in Nat /\ gen <= MaxTrees /\ tree.gen = gen
    /\ \A t \in Around : t.gen \in 0 .. gen
    /\ \A t, u \in Around : t.gen = u.gen => t = u

Advertising == {"write", "seed", "put"}
JobInv ==
    /\ job = [at |-> job.at, tree |-> job.tree, gen |-> job.gen, round |-> job.round]
    /\ ended \in 0 .. gen
    /\ job.at # "idle" => ended = 0 /\ job.tree.gen = job.gen
    /\ job.at = "retract" => NilTree(job.tree)
    /\ job.at \in Advertising => ~NilTree(job.tree)
    /\ job.at = "recheck" => NilTree(job.tree) \/ pointer \in {job.tree, Nil}

\* The handles of P: the seed unless it is torn, and what P's own fetch holds.
SeedInv ==
    /\ handles = [n \in Nodes |-> handles[n]]
    /\ torn # "self"
    /\ torn = "no" /\ lastSeeded # Nil => lastSeeded \in handles["P"]
    /\ handles["P"] \subseteq (IF torn = "no" THEN {lastSeeded} \ {Nil} ELSE {})
                            \cup (IF look["p"].at = "wait" THEN {look["p"].ptr} ELSE {})

\* The file of P follows the refresh.
FileInv ==
    /\ disk = [n \in Nodes |-> disk[n]]
    /\ job.at = "seed" => disk["P"] = job.tree
    /\ job.at = "put" => disk["P"] = job.tree /\ lastSeeded = job.tree
    /\ job.at = "recheck" \/ ended # 0 => lastSeeded = Nil \/ disk["P"] = lastSeeded

LookRec(a, ow, tk, lg, pt, hs, op) ==
    [at |-> a, own |-> ow, token |-> tk, legacy |-> lg, ptr |-> pt, hits |-> hs, opened |-> op]
Shaped(o) == o = LookRec(o.at, o.own, o.token, o.legacy, o.ptr, o.hits, o.opened)
LookShaped ==
    /\ look = [f \in Lookups |-> look[f]]
    /\ \A f \in Lookups : Shaped(look[f])
Fetching == {"attach", "wait"}
Waiting(g) == {f \in Fetchers : look[f].at = "wait" /\ look[f].ptr.gen = g}
FetchInv ==
    /\ LookShaped
    /\ \A f \in Lookups : look[f].at \in Fetching => look[f].ptr # Nil
    /\ look["p"].own => look["p"].at \in {"idle", "merge", "done"}
    /\ refs \in [Nodes -> [1 .. MaxTrees -> Nat]]
    /\ \A g \in 1 .. MaxTrees : refs["R"][g] = Cardinality(Waiting(g))
    /\ \A g \in 1 .. MaxTrees : refs["P"][g] = IF look["p"].at = "wait" /\ look["p"].ptr.gen = g THEN 1 ELSE 0
    /\ FetchersKeepTorrent

AggregateInv == GenIsTree /\ JobInv /\ RefreshedIsCurrent /\ SeedInv /\ FileInv /\ FetchInv

LEMMA GenKept ==
    ASSUME GenIsTree, tree' = tree, gen' = gen, Around' \subseteq Around
    PROVE  GenIsTree'
  BY DEF GenIsTree

\* A rebuilt tree has a generation no other tree has.
LEMMA GenNew ==
    ASSUME GenIsTree, NEW rs, tree' = [gen |-> gen + 1, recs |-> rs], gen' = gen + 1, gen < MaxTrees,
           Around' \subseteq Around \cup {tree'}
    PROVE  GenIsTree'
  <1>1. gen \in Nat /\ MaxTrees \in Nat /\ tree'.gen = gen'
    BY FetchersAssumption DEF GenIsTree
  <1>2. gen' \in Nat /\ gen' <= MaxTrees /\ gen' > gen
    BY <1>1
  <1>3. ASSUME NEW t \in Around' PROVE t = tree' \/ (t \in Around /\ t.gen \in 0 .. gen)
    BY DEF GenIsTree
  <1>4. ASSUME NEW t \in Around' PROVE t.gen \in 0 .. gen'
    BY <1>1, <1>2, <1>3
  <1>5. ASSUME NEW t \in Around', NEW u \in Around', t.gen = u.gen PROVE t = u
    <2>1. CASE t \in Around /\ u \in Around
      BY <1>5, <2>1 DEF GenIsTree
    <2>2. CASE t = tree' /\ u = tree'
      BY <2>2
    <2>3. CASE t = tree' /\ u \in Around /\ u.gen \in 0 .. gen
      BY <1>1, <1>2, <1>5, <2>3
    <2>4. CASE u = tree' /\ t \in Around /\ t.gen \in 0 .. gen
      BY <1>1, <1>2, <1>5, <2>4
    <2> QED BY <1>3, <2>1, <2>2, <2>3, <2>4
  <1> QED BY <1>1, <1>2, <1>4, <1>5 DEF GenIsTree

LEMMA FetchKept ==
    ASSUME FetchInv, UNCHANGED <<refs, look>>, handles'["R"] = handles["R"]
    PROVE  FetchInv'
  BY DEF FetchInv, LookShaped, Waiting, FetchersKeepTorrent

\* Handles and files, when the step is about something else.
LEMMA SeedKept ==
    ASSUME SeedInv, UNCHANGED <<handles, torn, lastSeeded, look>>
    PROVE  SeedInv'
  BY DEF SeedInv

LEMMA FileKept ==
    ASSUME FileInv, UNCHANGED <<disk, job, ended, lastSeeded>>
    PROVE  FileInv'
  BY DEF FileInv

\* The records change, or a lookup of the publisher's own key rebuilds.
LEMMA AggregateRecords ==
    ASSUME AggregateInv, NEW ih, NEW kws,
           Publish(ih, kws) \/ Retract(ih) \/ LookupSelf
    PROVE  AggregateInv'
  <1>1. UNCHANGED <<job, ended, lastSeeded, pointer, handles, torn, disk, refs, look>>
    BY DEF Publish, Retract, LookupSelf, seedVars, handleVars, fetchVars
  <1>2. SeedInv' /\ FileInv' /\ FetchInv'
    BY <1>1, FetchKept, SeedKept, FileKept DEF AggregateInv
  <1>3. CASE Publish(ih, kws)
    <2>1. tree' = tree /\ gen' = gen
      BY <1>3 DEF Publish
    <2>2. GenIsTree'
      BY <1>1, <2>1, GenKept DEF AggregateInv, Around
    <2>3. JobInv' /\ RefreshedIsCurrent'
      BY <1>1, <2>1 DEF AggregateInv, JobInv, RefreshedIsCurrent, NilTree
    <2> QED BY <1>2, <2>2, <2>3 DEF AggregateInv
  <1>4. CASE Retract(ih) \/ LookupSelf
    <2>1. PICK rs : tree' = [gen |-> gen + 1, recs |-> rs] /\ gen' = gen + 1 /\ gen < MaxTrees
      BY <1>4 DEF Retract, LookupSelf, rebuildLocked, Rebuilt
    <2>2. GenIsTree'
      <3>1. Around' \subseteq Around \cup {tree'}
        BY <1>1 DEF Around
      <3> QED BY <2>1, <3>1, GenNew DEF AggregateInv
    <2>3. gen \in Nat /\ ended \in 0 .. gen
      BY DEF AggregateInv, GenIsTree, JobInv
    <2>4. ended' \in 0 .. gen' /\ ended' # gen'
      BY <1>1, <2>1, <2>3
    <2>5. JobInv' /\ RefreshedIsCurrent'
      BY <1>1, <2>4 DEF AggregateInv, JobInv, RefreshedIsCurrent, NilTree
    <2> QED BY <1>2, <2>2, <2>5 DEF AggregateInv
  <1> QED BY <1>3, <1>4


\* Refresh takes the tree it is to distribute with its generation.
LEMMA AggregateRefresh ==
    ASSUME AggregateInv, Refresh
    PROVE  AggregateInv'
  <1>1. /\ UNCHANGED <<lastSeeded, pointer, handles, torn, disk, refs, look>> /\ ended' = 0
        /\ job' = Distribute(tree', gen', 1)
    BY DEF Refresh, Distributes, seedVars, handleVars, fetchVars
  <1>2. SeedInv' /\ FetchInv'
    BY <1>1, FetchKept, SeedKept DEF AggregateInv
  <1>3. job' = [at |-> IF NilTree(tree') THEN "retract" ELSE "write", tree |-> tree', gen |-> gen', round |-> 1]
    BY <1>1 DEF Distribute
  <1>4. GenIsTree'
    <2>1. job'.tree = tree'
      BY <1>3
    <2>2. CASE dirty
      <3>1. PICK rs : tree' = [gen |-> gen + 1, recs |-> rs] /\ gen' = gen + 1 /\ gen < MaxTrees
        BY <2>2 DEF Refresh, rebuildLocked, Rebuilt
      <3>2. Around' \subseteq Around \cup {tree'}
        BY <1>1, <2>1 DEF Around
      <3> QED BY <3>1, <3>2, GenNew DEF AggregateInv
    <2>3. CASE ~dirty
      <3>1. tree' = tree /\ gen' = gen
        BY <2>3 DEF Refresh, rebuildLocked, Rebuilt
      <3>2. Around' \subseteq Around
        BY <1>1, <2>1, <3>1 DEF Around
      <3> QED BY <3>1, <3>2, GenKept DEF AggregateInv
    <2> QED BY <2>2, <2>3
  <1>5. JobInv'
    <2>1. gen' \in Nat /\ tree'.gen = gen'
      BY <1>4 DEF GenIsTree
    <2>2. ended' \in 0 .. gen'
      BY <1>1, <2>1
    <2>3. job' = [at |-> job'.at, tree |-> job'.tree, gen |-> job'.gen, round |-> job'.round]
          /\ job'.tree = tree' /\ job'.gen = gen'
          /\ job'.at = IF NilTree(tree') THEN "retract" ELSE "write"
      BY <1>3
    <2> QED BY <1>1, <2>1, <2>2, <2>3 DEF JobInv, Advertising, NilTree
  <1>6. RefreshedIsCurrent'
    BY <1>1 DEF RefreshedIsCurrent
  <1>7. FileInv'
    BY <1>1, <1>3 DEF AggregateInv, FileInv
  <1> QED BY <1>2, <1>4, <1>5, <1>6, <1>7 DEF AggregateInv

\* What the steps of a refresh leave alone.
LEMMA GenJob ==
    ASSUME AggregateInv, UNCHANGED <<tree, gen, look>>, pointer' \in {pointer, job.tree, Nil},
           job'.tree \in {job.tree, tree, Nil}
    PROVE  GenIsTree'
  <1>1. Around' \subseteq Around
    BY DEF Around
  <1> QED BY <1>1, GenKept DEF AggregateInv

\* A refresh that fails forgets what it had distributed.
LEMMA JobFails ==
    ASSUME AggregateInv, RefreshFails, gen' = gen, tree' = tree
    PROVE  JobInv' /\ RefreshedIsCurrent' /\ job'.tree = Nil /\ job'.at = "idle" /\ ended' = 0
  <1>1. job' = idleJob /\ ended' = 0 /\ gen \in Nat
    BY DEF RefreshFails, AggregateInv, GenIsTree
  <1>2. ended' \in 0 .. gen'
    BY <1>1
  <1> QED BY <1>1, <1>2 DEF JobInv, RefreshedIsCurrent, idleJob, Advertising

\* A round that ends leaves the pointer at its tree, if it has one.
LEMMA JobDistributed ==
    ASSUME AggregateInv, Distributed, UNCHANGED <<gen, tree>>, job.at # "idle",
           NilTree(job.tree) \/ pointer' = job.tree
    PROVE  JobInv' /\ RefreshedIsCurrent' /\ job'.tree \in {job.tree, Nil} /\ job'.at \in {"idle", "recheck"}
  <1>1. gen \in Nat /\ tree.gen = gen /\ job.tree.gen = job.gen /\ job.gen \in 0 .. gen
        /\ (job.gen = gen => job.tree = tree)
    BY DEF AggregateInv, GenIsTree, JobInv, Around
  <1>2. CASE job.round = 1
    <2>1. job' = [at |-> "recheck", tree |-> job.tree, gen |-> job.gen, round |-> job.round] /\ ended' = 0
      BY <1>2 DEF Distributed, AggregateInv, JobInv
    <2>2. ended' \in 0 .. gen'
      BY <1>1, <2>1
    <2> QED BY <1>1, <2>1, <2>2 DEF JobInv, RefreshedIsCurrent, Advertising, NilTree
  <1>3. CASE job.round # 1
    <2>1. job' = idleJob /\ ended' = job.gen
      BY <1>3 DEF Distributed
    <2> QED BY <1>1, <2>1 DEF JobInv, RefreshedIsCurrent, Advertising, NilTree, idleJob
  <1> QED BY <1>2, <1>3

LEMMA AggregateRetract ==
    ASSUME AggregateInv, RetractTree
    PROVE  AggregateInv'
  <1>1. /\ UNCHANGED <<tree, gen, pointer, disk, refs, look>> /\ lastSeeded' = Nil /\ job.at = "retract" /\ torn' = "no"
        /\ handles' = [handles EXCEPT !["P"] = @ \ {lastSeeded}] /\ Distributed
    BY DEF RetractTree, recordVars, fetchVars, DropHandle
  <1>2. JobInv' /\ RefreshedIsCurrent' /\ job'.tree \in {job.tree, Nil} /\ job'.at \in {"idle", "recheck"}
    BY <1>1, JobDistributed DEF AggregateInv, JobInv
  <1>3. GenIsTree'
    BY <1>1, <1>2, GenJob
  <1>4. handles'["R"] = handles["R"] /\ handles'["P"] = handles["P"] \ {lastSeeded} /\ handles' = [n \in Nodes |-> handles'[n]]
    BY <1>1 DEF AggregateInv, SeedInv, Nodes
  <1>5. SeedInv'
    BY <1>1, <1>4 DEF AggregateInv, SeedInv
  <1>6. FileInv' /\ FetchInv'
    BY <1>1, <1>2, <1>4, FetchKept DEF AggregateInv, FileInv
  <1> QED BY <1>2, <1>3, <1>5, <1>6 DEF AggregateInv

LEMMA AggregateWrite ==
    ASSUME AggregateInv, WriteTree
    PROVE  AggregateInv'
  <1>1. UNCHANGED <<tree, gen, pointer, lastSeeded, handles, torn, refs, look>> /\ job.at = "write"
    BY DEF WriteTree, recordVars, seedVars, handleVars, fetchVars
  <1>2. SeedInv' /\ FetchInv'
    BY <1>1, FetchKept, SeedKept DEF AggregateInv
  <1>3. CASE RefreshFails /\ UNCHANGED disk
    <2>1. FileInv'
      BY <1>1, <1>3, JobFails DEF AggregateInv, FileInv
    <2> QED BY <1>1, <1>2, <1>3, <2>1, JobFails, GenJob DEF AggregateInv
  <1>4. CASE job' = [job EXCEPT !.at = "seed"] /\ ended' = ended /\ disk' = [disk EXCEPT !["P"] = job.tree]
    <2>1. job' = [at |-> "seed", tree |-> job.tree, gen |-> job.gen, round |-> job.round]
      BY <1>4 DEF AggregateInv, JobInv
    <2>2. JobInv' /\ RefreshedIsCurrent'
      BY <1>1, <1>4, <2>1 DEF AggregateInv, JobInv, RefreshedIsCurrent, NilTree, Advertising
    <2>3. GenIsTree'
      BY <1>1, <2>1, GenJob
    <2>4. ended = 0 /\ disk' = [n \in Nodes |-> disk'[n]] /\ disk'["P"] = job.tree
      BY <1>1, <1>4 DEF AggregateInv, JobInv, FileInv, Nodes
    <2>5. FileInv'
      BY <1>4, <2>1, <2>4 DEF FileInv
    <2> QED BY <1>2, <2>2, <2>3, <2>5 DEF AggregateInv
  <1> QED BY <1>3, <1>4 DEF WriteTree

LEMMA AggregateSeed ==
    ASSUME AggregateInv, SeedTree
    PROVE  AggregateInv'
  <1>1. UNCHANGED <<tree, gen, pointer, disk, refs, look>> /\ job.at = "seed"
    BY DEF SeedTree, recordVars, fetchVars
  <1>2. CASE RefreshFails /\ UNCHANGED <<handles, torn, lastSeeded>>
    <2>1. SeedInv' /\ FetchInv'
      BY <1>1, <1>2, FetchKept, SeedKept DEF AggregateInv
    <2>2. FileInv'
      BY <1>1, <1>2, JobFails DEF AggregateInv, FileInv
    <2> QED BY <1>1, <1>2, <2>1, <2>2, JobFails, GenJob DEF AggregateInv
  <1>3. CASE /\ handles' = [handles EXCEPT !["P"] = (@ \ {lastSeeded}) \cup {job.tree}]
             /\ torn' = IF job.tree = lastSeeded /\ job.tree \in handles["P"] THEN torn ELSE "no"
             /\ lastSeeded' = job.tree /\ job' = [job EXCEPT !.at = "put"] /\ ended' = ended
    <2>1. job' = [at |-> "put", tree |-> job.tree, gen |-> job.gen, round |-> job.round]
      BY <1>3 DEF AggregateInv, JobInv
    <2>2. JobInv' /\ RefreshedIsCurrent' /\ ended = 0
      BY <1>1, <1>3, <2>1 DEF AggregateInv, JobInv, RefreshedIsCurrent, NilTree, Advertising
    <2>3. GenIsTree'
      BY <1>1, <2>1, GenJob
    <2>4. job.tree # Nil
      BY <1>1 DEF AggregateInv, JobInv, Advertising, NilTree, Nil
    <2>5. /\ handles'["R"] = handles["R"] /\ handles' = [n \in Nodes |-> handles'[n]]
          /\ handles'["P"] = (handles["P"] \ {lastSeeded}) \cup {job.tree}
      BY <1>3 DEF AggregateInv, SeedInv, Nodes
    <2>6. FetchInv' /\ FileInv'
      BY <1>1, <1>3, <2>1, <2>2, <2>5, FetchKept DEF AggregateInv, FileInv
    <2>7. SeedInv'
      <3>1. CASE job.tree = lastSeeded /\ job.tree \in handles["P"]
        <4>1. handles'["P"] = handles["P"] /\ torn' = torn /\ lastSeeded' = lastSeeded
          BY <1>3, <2>5, <3>1
        <4> QED BY <1>1, <2>5, <4>1 DEF AggregateInv, SeedInv
      <3>2. CASE ~(job.tree = lastSeeded /\ job.tree \in handles["P"])
        <4>1. torn' = "no" /\ lastSeeded' = job.tree
          BY <1>3, <3>2
        <4> QED BY <1>1, <2>4, <2>5, <4>1 DEF AggregateInv, SeedInv
      <3> QED BY <3>1, <3>2
    <2> QED BY <2>2, <2>3, <2>6, <2>7 DEF AggregateInv
  <1> QED BY <1>2, <1>3 DEF SeedTree, handleVars


LEMMA AggregatePut ==
    ASSUME AggregateInv, PutPPMI
    PROVE  AggregateInv'
  <1>1. UNCHANGED <<tree, gen, lastSeeded, handles, torn, disk, refs, look>> /\ job.at = "put"
    BY DEF PutPPMI, recordVars, handleVars, fetchVars
  <1>2. SeedInv' /\ FetchInv'
    BY <1>1, FetchKept, SeedKept DEF AggregateInv
  <1>3. CASE pointer' = job.tree /\ Distributed
    <2>1. JobInv' /\ RefreshedIsCurrent' /\ job'.tree \in {job.tree, Nil} /\ job'.at \in {"idle", "recheck"}
      BY <1>1, <1>3, JobDistributed
    <2>2. FileInv'
      BY <1>1, <2>1 DEF AggregateInv, FileInv
    <2> QED BY <1>1, <1>2, <1>3, <2>1, <2>2, GenJob DEF AggregateInv
  <1>4. CASE pointer' \in {pointer, job.tree} /\ RefreshFails
    <2>1. FileInv'
      BY <1>1, <1>4, JobFails DEF AggregateInv, FileInv
    <2> QED BY <1>1, <1>2, <1>4, <2>1, JobFails, GenJob DEF AggregateInv
  <1> QED BY <1>3, <1>4 DEF PutPPMI

LEMMA AggregateRecheck ==
    ASSUME AggregateInv, Recheck
    PROVE  AggregateInv'
  <1>1. UNCHANGED <<tree, gen, lastSeeded, pointer, handles, torn, disk, refs, look>> /\ job.at = "recheck"
    BY DEF Recheck, recordVars, seedVars, handleVars, fetchVars
  <1>2. SeedInv' /\ FetchInv'
    BY <1>1, FetchKept, SeedKept DEF AggregateInv
  <1>3. gen \in Nat /\ tree.gen = gen /\ job.tree.gen = job.gen
        /\ (job.gen = gen => job.tree = tree) /\ (NilTree(job.tree) \/ pointer \in {job.tree, Nil})
    BY <1>1 DEF AggregateInv, GenIsTree, JobInv, Around
  <1>4. CASE gen = job.gen
    <2>1. job' = idleJob /\ ended' = gen
      BY <1>4 DEF Recheck, ChangedSince
    <2>2. ended' \in 0 .. gen'
      BY <1>1, <1>3, <2>1
    <2>3. JobInv'
      BY <2>1, <2>2 DEF JobInv, idleJob, Advertising
    <2>4. RefreshedIsCurrent'
      BY <1>1, <1>3, <1>4 DEF RefreshedIsCurrent, NilTree
    <2>5. GenIsTree'
      BY <1>1, <2>1, GenJob DEF idleJob
    <2>6. FileInv'
      BY <1>1, <2>1 DEF AggregateInv, FileInv, idleJob
    <2> QED BY <1>2, <2>3, <2>4, <2>5, <2>6 DEF AggregateInv
  <1>5. CASE gen # job.gen
    <2>1. job' = [at |-> IF NilTree(tree) THEN "retract" ELSE "write", tree |-> tree, gen |-> gen, round |-> 2]
          /\ ended' = 0
      BY <1>5 DEF Recheck, ChangedSince, Distribute
    <2>2. ended' \in 0 .. gen'
      BY <1>1, <1>3, <2>1
    <2>3. JobInv'
      BY <1>1, <1>3, <2>1, <2>2 DEF JobInv, Advertising, NilTree
    <2>4. RefreshedIsCurrent'
      BY <2>1 DEF RefreshedIsCurrent
    <2>5. GenIsTree'
      BY <1>1, <2>1, GenJob
    <2>6. FileInv'
      BY <1>1, <2>1 DEF AggregateInv, FileInv
    <2> QED BY <1>2, <2>3, <2>4, <2>5, <2>6 DEF AggregateInv
  <1> QED BY <1>4, <1>5

LEMMA AggregateExpires ==
    ASSUME AggregateInv, PointerExpires
    PROVE  AggregateInv'
  <1>1. UNCHANGED <<tree, gen, job, ended, lastSeeded, handles, torn, disk, refs, look>> /\ pointer' = Nil
    BY DEF PointerExpires, recordVars, handleVars, fetchVars
  <1>2. SeedInv' /\ FileInv' /\ FetchInv'
    BY <1>1, FetchKept, SeedKept, FileKept DEF AggregateInv
  <1>3. JobInv' /\ RefreshedIsCurrent'
    BY <1>1 DEF AggregateInv, JobInv, RefreshedIsCurrent, NilTree
  <1>4. GenIsTree'
    BY <1>1, GenJob
  <1> QED BY <1>2, <1>3, <1>4 DEF AggregateInv

(***************************************************************************)
(* The lookups.                                                            *)
(***************************************************************************)

\* The fields of a lookup.
LEMMA LookFields ==
    ASSUME NEW a, NEW ow, NEW tk, NEW lg, NEW pt, NEW hs, NEW op
    PROVE  /\ Shaped(LookRec(a, ow, tk, lg, pt, hs, op))
           /\ LookRec(a, ow, tk, lg, pt, hs, op).at = a /\ LookRec(a, ow, tk, lg, pt, hs, op).ptr = pt
           /\ LookRec(a, ow, tk, lg, pt, hs, op).own = ow
  BY DEF Shaped, LookRec

\* The ways in which a step changes a lookup.
LEMMA LookEdited ==
    ASSUME NEW o, Shaped(o), NEW v, NEW w
    PROVE  /\ [o EXCEPT !.at = v] = LookRec(v, o.own, o.token, o.legacy, o.ptr, o.hits, o.opened)
           /\ [o EXCEPT !.at = v, !.ptr = w] = LookRec(v, o.own, o.token, o.legacy, w, o.hits, o.opened)
           /\ [o EXCEPT !.at = v, !.hits = w] = LookRec(v, o.own, o.token, o.legacy, o.ptr, w, o.opened)
  <1>1. PICK a, ow, tk, lg, pt, hs, op : /\ o = LookRec(a, ow, tk, lg, pt, hs, op)
           /\ o.at = a /\ o.own = ow /\ o.token = tk /\ o.legacy = lg /\ o.ptr = pt /\ o.hits = hs /\ o.opened = op
    BY DEF Shaped
  <1> DEFINE m == LookRec(v, ow, tk, lg, pt, hs, op)
  <1>2. [o EXCEPT !.at = v] = m
    BY <1>1 DEF LookRec
  <1>3. /\ [o EXCEPT !.at = v, !.ptr = w] = [[o EXCEPT !.at = v] EXCEPT !.ptr = w]
        /\ [o EXCEPT !.at = v, !.hits = w] = [[o EXCEPT !.at = v] EXCEPT !.hits = w]
    OBVIOUS
  <1>4. [m EXCEPT !.ptr = w] = LookRec(v, ow, tk, lg, w, hs, op)
    BY DEF LookRec
  <1>5. [m EXCEPT !.hits = w] = LookRec(v, ow, tk, lg, pt, w, op)
    BY DEF LookRec
  <1> HIDE DEF m
  <1>6. [o EXCEPT !.at = v, !.ptr = w] = LookRec(v, ow, tk, lg, w, hs, op)
    BY <1>2, <1>3, <1>4, Zenon
  <1>7. [o EXCEPT !.at = v, !.hits = w] = LookRec(v, ow, tk, lg, pt, w, op)
    BY <1>2, <1>3, <1>5, Zenon
  <1> QED BY <1>1, <1>2, <1>6, <1>7, Zenon DEF m

LEMMA LookRead ==
    ASSUME NEW o, Shaped(o), NEW w, NEW x
    PROVE  [o EXCEPT !.at = "merge", !.opened = w, !.hits = x] = LookRec("merge", o.own, o.token, o.legacy, o.ptr, x, w)
  <1>1. PICK a, ow, tk, lg, pt, hs, op : /\ o = LookRec(a, ow, tk, lg, pt, hs, op)
           /\ o.at = a /\ o.own = ow /\ o.token = tk /\ o.legacy = lg /\ o.ptr = pt /\ o.hits = hs /\ o.opened = op
    BY DEF Shaped
  <1> DEFINE m == LookRec("merge", ow, tk, lg, pt, hs, op)
             n == LookRec("merge", ow, tk, lg, pt, hs, w)
  <1>2. [o EXCEPT !.at = "merge"] = m
    BY <1>1 DEF LookRec
  <1>3. [m EXCEPT !.opened = w] = n
    BY DEF LookRec
  <1>4. [n EXCEPT !.hits = x] = LookRec("merge", ow, tk, lg, pt, x, w)
    BY DEF LookRec
  <1>5. [o EXCEPT !.at = "merge", !.opened = w, !.hits = x]
        = [[[o EXCEPT !.at = "merge"] EXCEPT !.opened = w] EXCEPT !.hits = x]
    OBVIOUS
  <1> HIDE DEF m, n
  <1> QED BY <1>1, <1>2, <1>3, <1>4, <1>5, Zenon

\* One lookup moves on.
LEMMA LookMoves ==
    ASSUME LookShaped, NEW f \in Lookups, NEW r, look' = [look EXCEPT ![f] = r], Shaped(r)
    PROVE  /\ LookShaped' /\ look'[f] = r
           /\ \A h \in Lookups : h # f => look'[h] = look[h]
  <1>1. look'[f] = r /\ look' = [h \in Lookups |-> look'[h]]
    BY DEF LookShaped
  <1>2. \A h \in Lookups : h # f => look'[h] = look[h]
    BY DEF LookShaped
  <1> QED BY <1>1, <1>2 DEF LookShaped

\* A lookup moves on that neither waited for a download nor begins to.
LEMMA LookApart ==
    ASSUME AggregateInv, UNCHANGED <<tree, gen, job, ended, lastSeeded, pointer, handles, torn, disk, refs>>,
           NEW f \in Lookups, NEW r, look' = [look EXCEPT ![f] = r], Shaped(r),
           look[f].at # "wait", r.at # "wait", r.at = "attach" => r.ptr # Nil, r.ptr \in {look[f].ptr, pointer, Nil},
           f = "p" /\ r.own => r.at \in {"idle", "merge", "done"}
    PROVE  AggregateInv'
  <1>1. LookShaped
    BY DEF AggregateInv, FetchInv
  <1>2. /\ LookShaped' /\ look'[f] = r
        /\ \A h \in Lookups : h # f => look'[h] = look[h]
    BY <1>1, LookMoves
  <1>3. "p" \in Lookups /\ Fetchers \subseteq Lookups
    BY DEF Lookups
  <1>4. GenIsTree'
    <2>1. Around' \subseteq Around
      BY <1>2 DEF Around
    <2> QED BY <2>1, GenKept DEF AggregateInv
  <1>5. JobInv' /\ RefreshedIsCurrent' /\ FileInv'
    BY FileKept DEF AggregateInv, JobInv, RefreshedIsCurrent, NilTree
  <1>12. /\ look'["p"].at = "wait" <=> look["p"].at = "wait"
         /\ look["p"].at = "wait" => look'["p"].ptr = look["p"].ptr
    BY <1>2, <1>3
  <1>13. SeedInv'
    BY <1>12 DEF AggregateInv, SeedInv
  <1>14. \A g \in 1 .. MaxTrees : refs'["P"][g] = IF look'["p"].at = "wait" /\ look'["p"].ptr.gen = g THEN 1 ELSE 0
    BY <1>12 DEF AggregateInv, FetchInv
  <1>6. \A h \in Fetchers : /\ look'[h].at = "wait" <=> look[h].at = "wait"
                            /\ look[h].at = "wait" => look'[h].ptr = look[h].ptr
    BY <1>2, <1>3
  <1>7. \A g : Waiting(g)' = Waiting(g)
    BY <1>6 DEF Waiting
  <1>8. FetchersKeepTorrent'
    <2>1. {look'[h].ptr : h \in {g \in Fetchers : look'[g].at = "wait"}}
          = {look[h].ptr : h \in {g \in Fetchers : look[g].at = "wait"}}
      BY <1>6
    <2> QED BY <2>1 DEF AggregateInv, FetchInv, FetchersKeepTorrent
  <1>9. \A h \in Lookups : look'[h].at \in Fetching => look'[h].ptr # Nil
    BY <1>2 DEF AggregateInv, FetchInv, Fetching
  <1>10. look'["p"].own => look'["p"].at \in {"idle", "merge", "done"}
    BY <1>2, <1>3 DEF AggregateInv, FetchInv
  <1>11. FetchInv'
    BY <1>2, <1>7, <1>8, <1>9, <1>10, <1>14 DEF AggregateInv, FetchInv
  <1> QED BY <1>4, <1>5, <1>11, <1>13 DEF AggregateInv


LEMMA LookSteps ==
    ASSUME AggregateInv, NEW f \in Lookups, NEW b \in BOOLEAN, NEW k, NEW l, LegacyLookup(f, b, k, l) \/ Answer(f)
    PROVE  AggregateInv'
  <1>1. LookShaped /\ (f = "p" /\ look[f].own => look[f].at \in {"idle", "merge", "done"})
    BY DEF AggregateInv, FetchInv
  <1>2. UNCHANGED <<tree, gen, job, ended, lastSeeded, pointer, handles, torn, disk, refs>>
    BY DEF LegacyLookup, Answer, GetPPMI, ReadTree, MergeHits, Returned, recordVars, seedVars, handleVars
  <1> DEFINE o == look[f]
  <1>3. Shaped(o) /\ look = [h \in Lookups |-> look[h]]
    BY <1>1 DEF LookShaped
  <1>4. freshLook = LookRec("idle", FALSE, <<>>, [ok |-> FALSE, hits |-> {}], Nil, {}, FALSE)
        /\ Shaped(freshLook) /\ freshLook.ptr = Nil /\ freshLook.at = "idle"
    BY LookFields DEF freshLook, LookRec
  <1>5. CASE LegacyLookup(f, b, k, l)
    <2> DEFINE a == IF Resolves(b) THEN "get" ELSE "merge"
               r == [freshLook EXCEPT !.at = a, !.own = b, !.token = k, !.legacy = l]
    <2>1. look' = [look EXCEPT ![f] = r] /\ look[f].at = "idle"
      BY <1>5 DEF LegacyLookup
    <2>2. (b => a = "merge") /\ a \in {"get", "merge"}
      BY DEF Resolves
    <2> HIDE DEF a
    <2>3. Shaped(r) /\ r.at = a /\ r.ptr = freshLook.ptr /\ r.own = b
      <3>1. PICK st, ow, tk, lg, pt, hs, op : freshLook = LookRec(st, ow, tk, lg, pt, hs, op) /\ freshLook.ptr = pt
        BY <1>4 DEF Shaped
      <3> DEFINE m == LookRec(a, ow, tk, lg, pt, hs, op)
                 q == LookRec(a, b, tk, lg, pt, hs, op)
                 n == LookRec(a, b, k, lg, pt, hs, op)
      <3>2. [freshLook EXCEPT !.at = a] = m
        BY <3>1 DEF LookRec
      <3>7. [m EXCEPT !.own = b] = q
        BY DEF LookRec
      <3>3. [q EXCEPT !.token = k] = n
        BY DEF LookRec
      <3>4. [n EXCEPT !.legacy = l] = LookRec(a, b, k, l, pt, hs, op)
        BY DEF LookRec
      <3>5. r = [[[[freshLook EXCEPT !.at = a] EXCEPT !.own = b] EXCEPT !.token = k] EXCEPT !.legacy = l]
        OBVIOUS
      <3> HIDE DEF m, q, n, r
      <3>6. r = LookRec(a, b, k, l, pt, hs, op)
        BY <3>2, <3>3, <3>4, <3>5, <3>7, Zenon
      <3> QED BY <3>1, <3>6, LookFields
    <2> HIDE DEF r
    <2> QED BY <1>2, <1>4, <2>1, <2>2, <2>3, LookApart
  <1>6. CASE GetPPMI(f)
    <2>1. o.at = "get" /\ ~(f = "p" /\ o.own)
      BY <1>1, <1>6 DEF GetPPMI
    <2>2. CASE pointer # Nil /\ look' = [look EXCEPT ![f].at = "attach", ![f].ptr = pointer]
      <3> DEFINE r == LookRec("attach", o.own, o.token, o.legacy, pointer, o.hits, o.opened)
      <3>1. look' = [look EXCEPT ![f] = [o EXCEPT !.at = "attach", !.ptr = pointer]]
        BY <1>3, <2>2
      <3>2. look' = [look EXCEPT ![f] = r]
        <4>1. [o EXCEPT !.at = "attach", !.ptr = pointer] = r
          BY <1>3, LookEdited, Zenon
        <4> QED BY <3>1, <4>1, Zenon
      <3>3. Shaped(r) /\ r.at = "attach" /\ r.ptr = pointer /\ r.own = o.own
        BY LookFields
      <3> HIDE DEF r
      <3> QED BY <1>2, <2>1, <2>2, <3>2, <3>3, LookApart
    <2>3. CASE look' = [look EXCEPT ![f].at = "merge"]
      <3> DEFINE r == LookRec("merge", o.own, o.token, o.legacy, o.ptr, o.hits, o.opened)
      <3>1. look' = [look EXCEPT ![f] = [o EXCEPT !.at = "merge"]]
        BY <1>3, <2>3
      <3>2. look' = [look EXCEPT ![f] = r]
        <4>1. [o EXCEPT !.at = "merge"] = r
          BY <1>3, LookEdited, Zenon
        <4> QED BY <3>1, <4>1, Zenon
      <3>3. Shaped(r) /\ r.at = "merge" /\ r.ptr = o.ptr
        BY LookFields
      <3> HIDE DEF r
      <3> QED BY <1>2, <2>1, <3>2, <3>3, LookApart
    <2> QED BY <1>6, <2>2, <2>3 DEF GetPPMI
  <1>7. CASE ReadTree(f)
    <2>1. PICK op, hs : look' = [look EXCEPT ![f].at = "merge", ![f].opened = op, ![f].hits = hs]
      BY <1>7, Zenon DEF ReadTree
    <2> DEFINE r == LookRec("merge", o.own, o.token, o.legacy, o.ptr, hs, op)
    <2>2. look' = [look EXCEPT ![f] = [o EXCEPT !.at = "merge", !.opened = op, !.hits = hs]]
      BY <1>3, <2>1
    <2>3. look' = [look EXCEPT ![f] = r]
      <3>1. [o EXCEPT !.at = "merge", !.opened = op, !.hits = hs] = r
        BY <1>3, LookRead, Zenon
      <3> QED BY <2>2, <3>1, Zenon
    <2>4. Shaped(r) /\ r.at = "merge" /\ r.ptr = o.ptr /\ o.at = "read"
      BY <1>7, LookFields DEF ReadTree
    <2> HIDE DEF r
    <2> QED BY <1>2, <2>3, <2>4, LookApart
  <1>8. CASE MergeHits(f)
    <2>1. PICK hs : look' = [look EXCEPT ![f].at = "done", ![f].hits = hs]
      BY <1>8 DEF MergeHits
    <2> DEFINE r == LookRec("done", o.own, o.token, o.legacy, o.ptr, hs, o.opened)
    <2>2. look' = [look EXCEPT ![f] = [o EXCEPT !.at = "done", !.hits = hs]]
      BY <1>3, <2>1
    <2>3. look' = [look EXCEPT ![f] = r]
      <3>1. [o EXCEPT !.at = "done", !.hits = hs] = r
        BY <1>3, LookEdited, Zenon
      <3> QED BY <2>2, <3>1, Zenon
    <2>4. Shaped(r) /\ r.at = "done" /\ r.ptr = o.ptr /\ o.at = "merge"
      BY <1>8, LookFields DEF MergeHits
    <2> HIDE DEF r
    <2> QED BY <1>2, <2>3, <2>4, LookApart
  <1>9. CASE Returned(f)
    <2>1. look' = [look EXCEPT ![f] = freshLook] /\ look[f].at = "done"
      BY <1>9 DEF Returned
    <2> QED BY <1>2, <1>4, <2>1, LookApart
  <1> QED BY <1>5, <1>6, <1>7, <1>8, <1>9 DEF Answer

\* A lookup of P that fetches is not of its own key; a step of a fetch keeps its pointer.
LEMMA FetchMoves ==
    ASSUME AggregateInv, UNCHANGED <<tree, gen, job, ended, lastSeeded, pointer>>,
           NEW f \in Lookups, look[f].at \in Fetching,
           NEW v \in {"wait", "read", "merge"}, look' = [look EXCEPT ![f].at = v]
    PROVE  /\ ~(f = "p" /\ look[f].own) /\ look[f].ptr # Nil /\ look[f].ptr.gen \in 1 .. MaxTrees
           /\ look'[f].at = v /\ \A h \in Lookups : look'[h].ptr = look[h].ptr
           /\ \A h \in Lookups : h # f => look'[h].at = look[h].at
           /\ LookShaped' /\ (\A h \in Lookups : look'[h].at \in Fetching => look'[h].ptr # Nil)
           /\ (look'["p"].own => look'["p"].at \in {"idle", "merge", "done"})
           /\ GenIsTree' /\ JobInv' /\ RefreshedIsCurrent'
  <1> DEFINE o == look[f]
             r == LookRec(v, o.own, o.token, o.legacy, o.ptr, o.hits, o.opened)
  <1>1. LookShaped /\ (look["p"].own => look["p"].at \in {"idle", "merge", "done"}) /\ o.ptr # Nil
        /\ \A h \in Lookups : look[h].at \in Fetching => look[h].ptr # Nil
    BY DEF AggregateInv, FetchInv
  <1>2. ~(f = "p" /\ o.own) /\ "p" \in Lookups
    BY <1>1 DEF Lookups, Fetching
  <1>3. look' = [look EXCEPT ![f] = r]
    <2>1. Shaped(o) /\ look = [h \in Lookups |-> look[h]]
      BY <1>1 DEF LookShaped
    <2>2. look' = [look EXCEPT ![f] = [o EXCEPT !.at = v]]
      BY <2>1
    <2>3. [o EXCEPT !.at = v] = r
      BY <2>1, LookEdited, Zenon
    <2> QED BY <2>2, <2>3, Zenon
  <1>4. Shaped(r) /\ r.at = v /\ r.ptr = o.ptr /\ r.own = o.own
    BY LookFields
  <1> HIDE DEF r
  <1>5. LookShaped' /\ look'[f] = r /\ \A h \in Lookups : h # f => look'[h] = look[h]
    BY <1>1, <1>3, <1>4, LookMoves
  <1>6. \A h \in Lookups : look'[h].ptr = look[h].ptr
    BY <1>4, <1>5
  <1>7. o.ptr.gen \in 1 .. MaxTrees
    <2>1. o.ptr \in Around /\ Nil \in Around
      BY DEF Around
    <2>2. gen \in Nat /\ gen <= MaxTrees /\ MaxTrees \in Nat /\ o.ptr.gen \in 0 .. gen /\ (o.ptr.gen = Nil.gen => o.ptr = Nil)
      BY <2>1, FetchersAssumption DEF AggregateInv, GenIsTree
    <2>3. o.ptr.gen # 0
      BY <1>1, <2>2 DEF Nil
    <2> QED BY <2>2, <2>3
  <1>8. GenIsTree'
    <2>1. Around' \subseteq Around
      BY <1>6 DEF Around
    <2> QED BY <2>1, GenKept DEF AggregateInv
  <1>9. JobInv' /\ RefreshedIsCurrent'
    BY DEF AggregateInv, JobInv, RefreshedIsCurrent, NilTree
  <1>10. \A h \in Lookups : look'[h].at \in Fetching => look'[h].ptr # Nil
    BY <1>1, <1>5, <1>6
  <1>11. look'["p"].own => look'["p"].at \in {"idle", "merge", "done"}
    BY <1>1, <1>2, <1>4, <1>5
  <1> QED BY <1>1, <1>2, <1>4, <1>5, <1>6, <1>7, <1>8, <1>9, <1>10, <1>11


\* The fetches that wait for a torrent, when one of them moves on.
LEMMA WaitersMove ==
    ASSUME NEW f \in Fetchers, NEW p, p = look[f].ptr.gen, NEW v, look'[f].at = v, \A h \in Fetchers : look'[h].ptr = look[h].ptr,
           \A h \in Fetchers : h # f => look'[h].at = look[h].at
    PROVE  /\ \A g : IsFiniteSet(Waiting(g)) /\ Cardinality(Waiting(g)) \in Nat
           /\ \A g : g # p => Waiting(g)' = Waiting(g)
           /\ v = "wait" => Waiting(p)' = Waiting(p) \cup {f}
           /\ v # "wait" => Waiting(p)' = Waiting(p) \ {f}
  <1>1. \A g : Waiting(g) \subseteq Fetchers
    BY DEF Waiting
  <1>2. \A g : IsFiniteSet(Waiting(g)) /\ Cardinality(Waiting(g)) \in Nat
    BY <1>1, FetchersAssumption, FS_Subset, FS_CardinalityType
  <1>3. ASSUME NEW g, g # p PROVE Waiting(g)' = Waiting(g)
    BY <1>3 DEF Waiting
  <1>4. ASSUME v = "wait" PROVE Waiting(p)' = Waiting(p) \cup {f}
    BY <1>4 DEF Waiting
  <1>5. ASSUME v # "wait" PROVE Waiting(p)' = Waiting(p) \ {f}
    BY <1>5 DEF Waiting
  <1> QED BY <1>2, <1>3, <1>4, <1>5

\* The count of one torrent at one node changes.
LEMMA RefsChange ==
    ASSUME refs \in [Nodes -> [1 .. MaxTrees -> Nat]], NEW n \in Nodes, NEW g \in 1 .. MaxTrees, NEW v \in Nat,
           refs' = [refs EXCEPT ![n][g] = v]
    PROVE  /\ refs' \in [Nodes -> [1 .. MaxTrees -> Nat]] /\ refs'[n][g] = v
           /\ \A k \in 1 .. MaxTrees : k # g => refs'[n][k] = refs[n][k]
           /\ \A m \in Nodes : m # n => refs'[m] = refs[m]
  <1> DEFINE row == [refs[n] EXCEPT ![g] = v]
             D == 1 .. MaxTrees
  <1> HIDE DEF D
  <1>1. refs[n] \in [D -> Nat] /\ g \in D
    BY DEF D
  <1>2. row \in [D -> Nat] /\ row[g] = v /\ \A k \in D : k # g => row[k] = refs[n][k]
    BY <1>1
  <1>3. refs' = [refs EXCEPT ![n] = row]
    OBVIOUS
  <1> HIDE DEF row
  <1>4. refs' \in [Nodes -> [D -> Nat]] /\ refs'[n] = row /\ \A m \in Nodes : m # n => refs'[m] = refs[m]
    BY <1>1, <1>2, <1>3 DEF D
  <1> QED BY <1>2, <1>4 DEF D

\* P fetches what another publisher's pointer names.
LEMMA AttachOwn ==
    ASSUME AggregateInv, retainAndAttachCompanion("p")
    PROVE  AggregateInv'
  <1>0. PICK t, g : t = look["p"].ptr /\ g = t.gen
    OBVIOUS
  <1>1. /\ UNCHANGED <<tree, gen, job, ended, lastSeeded, pointer, torn, disk>> /\ look["p"].at = "attach"
        /\ look' = [look EXCEPT !["p"].at = "wait"] /\ "p" \in Lookups /\ NodeOf("p") = "P" /\ "p" \notin Fetchers
    BY FetchersAssumption DEF retainAndAttachCompanion, recordVars, seedVars, Lookups, NodeOf
  <1>2. /\ t # Nil /\ g \in 1 .. MaxTrees
        /\ look'["p"].at = "wait" /\ \A h \in Lookups : look'[h].ptr = look[h].ptr
        /\ \A h \in Lookups : h # "p" => look'[h].at = look[h].at
        /\ LookShaped' /\ (\A h \in Lookups : look'[h].at \in Fetching => look'[h].ptr # Nil)
        /\ (look'["p"].own => look'["p"].at \in {"idle", "merge", "done"})
        /\ GenIsTree' /\ JobInv' /\ RefreshedIsCurrent'
    BY <1>0, <1>1, FetchMoves DEF Fetching
  <1>3. \A h \in Fetchers : look'[h].at = look[h].at /\ look'[h].ptr = look[h].ptr
    BY <1>1, <1>2 DEF Lookups
  <1>4. /\ refs' = [refs EXCEPT !["P"][g] = @ + 1]
        /\ handles' = [handles EXCEPT !["P"] = @ \cup {t}]
    BY <1>0, <1>1 DEF retainAndAttachCompanion, retained
  <1>5. /\ handles'["R"] = handles["R"] /\ handles'["P"] = handles["P"] \cup {t}
        /\ handles' = [n \in Nodes |-> handles'[n]]
    BY <1>4 DEF AggregateInv, SeedInv, Nodes
  <1>6. SeedInv'
    BY <1>0, <1>1, <1>2, <1>5 DEF AggregateInv, SeedInv
  <1>7. FileInv'
    BY <1>1, FileKept DEF AggregateInv
  <1>8. /\ refs \in [Nodes -> [1 .. MaxTrees -> Nat]]
        /\ \A k \in 1 .. MaxTrees : refs["R"][k] = Cardinality(Waiting(k))
        /\ \A k \in 1 .. MaxTrees : refs["P"][k] = 0
    BY <1>1 DEF AggregateInv, FetchInv
  <1>9. /\ refs' \in [Nodes -> [1 .. MaxTrees -> Nat]] /\ refs'["P"][g] = 1
        /\ \A k \in 1 .. MaxTrees : k # g => refs'["P"][k] = 0
        /\ refs'["R"] = refs["R"]
    <2>0. refs["P"][g] = 0 /\ 0 + 1 = 1
      BY <1>2, <1>8
    <2>3. refs' = [refs EXCEPT !["P"][g] = refs["P"][g] + 1]
      BY <1>4
    <2>1. refs' = [refs EXCEPT !["P"][g] = 1] /\ 1 \in Nat /\ "P" \in Nodes /\ "R" \in Nodes /\ "R" # "P"
      BY <2>0, <2>3 DEF Nodes
    <2>2. /\ refs' \in [Nodes -> [1 .. MaxTrees -> Nat]] /\ refs'["P"][g] = 1
          /\ \A k \in 1 .. MaxTrees : k # g => refs'["P"][k] = refs["P"][k]
          /\ refs'["R"] = refs["R"]
      <3>1. refs \in [Nodes -> [1 .. MaxTrees -> Nat]] /\ g \in 1 .. MaxTrees
        BY <1>2, <1>8
      <3> QED BY <2>1, <3>1, RefsChange, ZenonT(60)
    <2> QED BY <1>8, <2>2
  <1>10. \A k : Waiting(k)' = Waiting(k)
    BY <1>3 DEF Waiting
  <1>11. FetchersKeepTorrent'
    <2>1. {look'[h].ptr : h \in {k \in Fetchers : look'[k].at = "wait"}}
          = {look[h].ptr : h \in {k \in Fetchers : look[k].at = "wait"}}
      BY <1>3
    <2> QED BY <1>5, <2>1 DEF AggregateInv, FetchInv, FetchersKeepTorrent
  <1>12. \A k \in 1 .. MaxTrees : refs'["P"][k] = IF look'["p"].at = "wait" /\ look'["p"].ptr.gen = k THEN 1 ELSE 0
    BY <1>0, <1>1, <1>2, <1>9
  <1>13. FetchInv'
    BY <1>2, <1>8, <1>9, <1>10, <1>11, <1>12 DEF FetchInv
  <1> QED BY <1>2, <1>6, <1>7, <1>13 DEF AggregateInv

\* P's fetch leaves: it was the only one of its torrent at P, and drops the handle, P's own seed
\* included.
LEMMA ReleaseOwn ==
    ASSUME AggregateInv, FetchDone("p") \/ FetchFails("p")
    PROVE  AggregateInv'
  <1>0. PICK t, g : t = look["p"].ptr /\ g = t.gen
    OBVIOUS
  <1>1. /\ UNCHANGED <<tree, gen, job, ended, lastSeeded, pointer, disk>> /\ look["p"].at = "wait"
        /\ releaseCompanionFetch("p") /\ "p" \in Lookups /\ NodeOf("p") = "P" /\ "p" \notin Fetchers
    BY FetchersAssumption DEF FetchDone, FetchFails, recordVars, seedVars, Lookups, NodeOf
  <1>2. PICK v \in {"read", "merge"} : look' = [look EXCEPT !["p"].at = v]
    BY DEF FetchDone, FetchFails
  <1>3. /\ ~look["p"].own /\ t # Nil /\ g \in 1 .. MaxTrees
        /\ look'["p"].at = v /\ \A h \in Lookups : look'[h].ptr = look[h].ptr
        /\ \A h \in Lookups : h # "p" => look'[h].at = look[h].at
        /\ LookShaped' /\ (\A h \in Lookups : look'[h].at \in Fetching => look'[h].ptr # Nil)
        /\ (look'["p"].own => look'["p"].at \in {"idle", "merge", "done"})
        /\ GenIsTree' /\ JobInv' /\ RefreshedIsCurrent'
    BY <1>0, <1>1, <1>2, FetchMoves DEF Fetching
  <1>4. \A h \in Fetchers : look'[h].at = look[h].at /\ look'[h].ptr = look[h].ptr
    BY <1>1, <1>3 DEF Lookups
  <1>5. /\ refs \in [Nodes -> [1 .. MaxTrees -> Nat]]
        /\ \A k \in 1 .. MaxTrees : refs["R"][k] = Cardinality(Waiting(k))
        /\ \A k \in 1 .. MaxTrees : refs["P"][k] = IF k = g THEN 1 ELSE 0
    BY <1>0, <1>1 DEF AggregateInv, FetchInv
  <1>6. /\ refs' = [refs EXCEPT !["P"][g] = @ + (-1)] /\ refs["P"][g] = 1
        /\ handles' = [handles EXCEPT !["P"] = @ \ {t}]
        /\ torn' = IF Seeded(t) THEN "other" ELSE torn
    <2>1. refs["P"][g] = 1 /\ refs["P"][g] <= 1
      BY <1>3, <1>5
    <2>2. LastRef("P", t)
      BY <1>0, <2>1 DEF LastRef
    <2>3. refs' = [refs EXCEPT !["P"][g] = @ + (-1)] /\ handles' = [handles EXCEPT !["P"] = @ \ {t}]
      BY <1>0, <1>1, <2>2 DEF releaseCompanionFetch, retained, DropHandle
    <2>4. torn' = IF Seeded(t) THEN "other" ELSE torn
      BY <1>0, <1>1, <1>3, <2>2 DEF releaseCompanionFetch
    <2> QED BY <2>1, <2>3, <2>4
  <1>7. /\ handles'["R"] = handles["R"] /\ handles'["P"] = handles["P"] \ {t}
        /\ handles' = [n \in Nodes |-> handles'[n]]
    BY <1>6 DEF AggregateInv, SeedInv, Nodes
  <1>8. SeedInv'
    <2>1. CASE Seeded(t)
      BY <1>0, <1>1, <1>3, <1>6, <1>7, <2>1 DEF AggregateInv, SeedInv, Seeded
    <2>2. CASE ~Seeded(t)
      BY <1>0, <1>1, <1>3, <1>6, <1>7, <2>2 DEF AggregateInv, SeedInv, Seeded
    <2> QED BY <2>1, <2>2
  <1>9. FileInv'
    BY <1>1, FileKept DEF AggregateInv
  <1>10. /\ refs' \in [Nodes -> [1 .. MaxTrees -> Nat]]
         /\ \A k \in 1 .. MaxTrees : refs'["P"][k] = 0
         /\ refs'["R"] = refs["R"]
    <2>0. refs["P"][g] + (-1) = 0
      BY <1>6
    <2>3. refs' = [refs EXCEPT !["P"][g] = refs["P"][g] + (-1)]
      BY <1>6
    <2>1. refs' = [refs EXCEPT !["P"][g] = 0] /\ 0 \in Nat /\ "P" \in Nodes /\ "R" \in Nodes /\ "R" # "P"
      BY <2>0, <2>3 DEF Nodes
    <2>2. /\ refs' \in [Nodes -> [1 .. MaxTrees -> Nat]] /\ refs'["P"][g] = 0
          /\ \A k \in 1 .. MaxTrees : k # g => refs'["P"][k] = refs["P"][k]
          /\ refs'["R"] = refs["R"]
      BY <1>3, <1>5, <2>1, RefsChange
    <2> QED BY <1>5, <2>2
  <1>11. \A k : Waiting(k)' = Waiting(k)
    BY <1>4 DEF Waiting
  <1>12. FetchersKeepTorrent'
    <2>1. {look'[h].ptr : h \in {k \in Fetchers : look'[k].at = "wait"}}
          = {look[h].ptr : h \in {k \in Fetchers : look[k].at = "wait"}}
      BY <1>4
    <2> QED BY <1>7, <2>1 DEF AggregateInv, FetchInv, FetchersKeepTorrent
  <1>13. \A k \in 1 .. MaxTrees : refs'["P"][k] = IF look'["p"].at = "wait" /\ look'["p"].ptr.gen = k THEN 1 ELSE 0
    BY <1>3, <1>10
  <1>14. FetchInv'
    BY <1>3, <1>5, <1>10, <1>11, <1>12, <1>13 DEF FetchInv
  <1> QED BY <1>3, <1>8, <1>9, <1>14 DEF AggregateInv

LEMMA AggregateAttach ==
    ASSUME AggregateInv, NEW f \in Fetchers, retainAndAttachCompanion(f)
    PROVE  AggregateInv'
  <1>0. PICK t, g : t = look[f].ptr /\ g = t.gen
    OBVIOUS
  <1>1. /\ UNCHANGED <<tree, gen, job, ended, lastSeeded, pointer, torn, disk>> /\ look[f].at = "attach"
        /\ look' = [look EXCEPT ![f].at = "wait"] /\ f \in Lookups /\ f # "p" /\ NodeOf(f) = "R"
    BY FetchersAssumption DEF retainAndAttachCompanion, recordVars, seedVars, Lookups, NodeOf
  <1>2. /\ t # Nil /\ g \in 1 .. MaxTrees
        /\ look'[f].at = "wait" /\ \A h \in Lookups : look'[h].ptr = look[h].ptr
        /\ \A h \in Lookups : h # f => look'[h].at = look[h].at
        /\ LookShaped' /\ (\A h \in Lookups : look'[h].at \in Fetching => look'[h].ptr # Nil)
        /\ (look'["p"].own => look'["p"].at \in {"idle", "merge", "done"})
        /\ GenIsTree' /\ JobInv' /\ RefreshedIsCurrent'
    BY <1>0, <1>1, FetchMoves DEF Fetching
  <1>3. Fetchers \subseteq Lookups
    BY DEF Lookups
  <1>4. /\ refs' = [refs EXCEPT !["R"][g] = @ + 1]
        /\ handles' = [handles EXCEPT !["R"] = @ \cup {t}]
    BY <1>0, <1>1 DEF retainAndAttachCompanion, retained
  <1>14. /\ handles'["P"] = handles["P"] /\ handles'["R"] = handles["R"] \cup {t}
         /\ handles' = [n \in Nodes |-> handles'[n]]
    BY <1>4 DEF AggregateInv, SeedInv, Nodes
  <1>15. look'["p"].at = look["p"].at /\ look'["p"].ptr = look["p"].ptr
    BY <1>1, <1>2 DEF Lookups
  <1>5. SeedInv' /\ FileInv' /\ handles'["R"] = handles["R"] \cup {t}
    BY <1>1, <1>14, <1>15, FileKept DEF AggregateInv, SeedInv
  <1>6. refs \in [Nodes -> [1 .. MaxTrees -> Nat]]
        /\ \A k \in 1 .. MaxTrees : refs["R"][k] = Cardinality(Waiting(k))
    BY DEF AggregateInv, FetchInv
  <1>7. /\ refs' \in [Nodes -> [1 .. MaxTrees -> Nat]] /\ refs'["R"][g] = refs["R"][g] + 1
        /\ \A k \in 1 .. MaxTrees : k # g => refs'["R"][k] = refs["R"][k]
        /\ refs'["P"] = refs["P"]
    <2>0. refs["R"] \in [1 .. MaxTrees -> Nat]
      BY <1>6 DEF Nodes
    <2>1. refs["R"][g] + 1 \in Nat
      <3>1. refs["R"][g] \in Nat
        BY <1>2, <2>0
      <3> QED BY <3>1
    <2>2. refs' = [refs EXCEPT !["R"][g] = refs["R"][g] + 1] /\ "R" \in Nodes /\ "P" \in Nodes /\ "P" # "R"
      BY <1>4 DEF Nodes
    <2>3. refs \in [Nodes -> [1 .. MaxTrees -> Nat]] /\ g \in 1 .. MaxTrees
      BY <1>2, <1>6
    <2> QED BY <2>1, <2>2, <2>3, RefsChange, ZenonT(60)
  <1>8. /\ IsFiniteSet(Waiting(g)) /\ Waiting(g)' = Waiting(g) \cup {f}
        /\ \A k : k # g => Waiting(k)' = Waiting(k)
    BY <1>0, <1>2, <1>3, WaitersMove
  <1>9. f \notin Waiting(g)
    BY <1>1 DEF Waiting
  <1>10. Cardinality(Waiting(g)') = Cardinality(Waiting(g)) + 1
    BY <1>8, <1>9, FS_AddElement
  <1>11. \A k \in 1 .. MaxTrees : refs'["R"][k] = Cardinality(Waiting(k)')
    <2> SUFFICES ASSUME NEW k \in 1 .. MaxTrees PROVE refs'["R"][k] = Cardinality(Waiting(k)')
      OBVIOUS
    <2>1. CASE k = g
      BY <1>6, <1>7, <1>10, <2>1
    <2>2. CASE k # g
      BY <1>6, <1>7, <1>8, <2>2
    <2> QED BY <2>1, <2>2
  <1>12. FetchersKeepTorrent'
    <2>1. handles["R"] = {look[h].ptr : h \in {k \in Fetchers : look[k].at = "wait"}}
      BY DEF AggregateInv, FetchInv, FetchersKeepTorrent
    <2>2. {look'[h].ptr : h \in {k \in Fetchers : look'[k].at = "wait"}}
          = {look[h].ptr : h \in {k \in Fetchers : look[k].at = "wait"}} \cup {t}
      <3>1. {k \in Fetchers : look'[k].at = "wait"} = {k \in Fetchers : look[k].at = "wait"} \cup {f}
        BY <1>2, <1>3
      <3>2. \A h \in Fetchers : look'[h].ptr = look[h].ptr
        BY <1>2, <1>3
      <3> QED BY <1>0, <1>2, <3>1, <3>2
    <2> QED BY <1>5, <2>1, <2>2 DEF FetchersKeepTorrent
  <1>16. \A k \in 1 .. MaxTrees : refs'["P"][k] = IF look'["p"].at = "wait" /\ look'["p"].ptr.gen = k THEN 1 ELSE 0
    BY <1>7, <1>15 DEF AggregateInv, FetchInv
  <1>13. FetchInv'
    BY <1>2, <1>7, <1>11, <1>12, <1>16 DEF FetchInv
  <1> QED BY <1>2, <1>5, <1>13 DEF AggregateInv

\* The fetcher that leaves is the last one of its torrent when the count is one.
LEMMA AggregateRelease ==
    ASSUME AggregateInv, NEW f \in Fetchers, FetchDone(f) \/ FetchFails(f)
    PROVE  AggregateInv'
  <1>0. PICK t, g : t = look[f].ptr /\ g = t.gen
    OBVIOUS
  <1>1. /\ UNCHANGED <<tree, gen, job, ended, lastSeeded, pointer>> /\ look[f].at = "wait"
        /\ releaseCompanionFetch(f) /\ f \in Lookups /\ f # "p" /\ NodeOf(f) = "R"
    BY FetchersAssumption DEF FetchDone, FetchFails, recordVars, seedVars, Lookups, NodeOf
  <1>2. PICK v \in {"read", "merge"} : look' = [look EXCEPT ![f].at = v]
    BY DEF FetchDone, FetchFails
  <1>3. /\ t # Nil /\ g \in 1 .. MaxTrees
        /\ look'[f].at = v /\ \A h \in Lookups : look'[h].ptr = look[h].ptr
        /\ \A h \in Lookups : h # f => look'[h].at = look[h].at
        /\ LookShaped' /\ (\A h \in Lookups : look'[h].at \in Fetching => look'[h].ptr # Nil)
        /\ (look'["p"].own => look'["p"].at \in {"idle", "merge", "done"})
        /\ GenIsTree' /\ JobInv' /\ RefreshedIsCurrent'
    BY <1>0, <1>1, <1>2, FetchMoves DEF Fetching
  <1>4. Fetchers \subseteq Lookups
    BY DEF Lookups
  <1>5. /\ refs' = [refs EXCEPT !["R"][g] = @ + (-1)]
        /\ handles' = IF refs["R"][g] <= 1 THEN [handles EXCEPT !["R"] = @ \ {t}] ELSE handles
        /\ torn' = torn
    BY <1>0, <1>1 DEF releaseCompanionFetch, retained, LastRef, DropHandle
  <1>6. /\ refs \in [Nodes -> [1 .. MaxTrees -> Nat]]
        /\ \A k \in 1 .. MaxTrees : refs["R"][k] = Cardinality(Waiting(k))
        /\ handles["R"] = {look[h].ptr : h \in {k \in Fetchers : look[k].at = "wait"}}
    BY DEF AggregateInv, FetchInv, FetchersKeepTorrent
  <1>15. /\ handles'["R"] = IF refs["R"][g] <= 1 THEN handles["R"] \ {t} ELSE handles["R"]
         /\ handles'["P"] = handles["P"] /\ handles' = [n \in Nodes |-> handles'[n]]
    BY <1>5 DEF AggregateInv, SeedInv, Nodes
  <1>16. look'["p"].at = look["p"].at /\ look'["p"].ptr = look["p"].ptr
    BY <1>1, <1>3 DEF Lookups
  <1>17. FileInv'
    <2>1. disk'["P"] = disk["P"] /\ disk' = [n \in Nodes |-> disk'[n]]
      BY <1>1 DEF AggregateInv, FileInv, FetchDone, FetchFails, Nodes
    <2> QED BY <1>1, <2>1 DEF AggregateInv, FileInv
  <1>7. SeedInv' /\ handles'["R"] = IF refs["R"][g] <= 1 THEN handles["R"] \ {t} ELSE handles["R"]
    BY <1>1, <1>5, <1>15, <1>16 DEF AggregateInv, SeedInv
  <1>8. /\ IsFiniteSet(Waiting(g)) /\ Cardinality(Waiting(g)) \in Nat /\ Waiting(g)' = Waiting(g) \ {f}
        /\ \A k : k # g => Waiting(k)' = Waiting(k)
    BY <1>0, <1>3, <1>4, WaitersMove
  <1>9. f \in Waiting(g)
    BY <1>0, <1>1, <1>3 DEF Waiting
  <1>10. Cardinality(Waiting(g)') = Cardinality(Waiting(g)) - 1 /\ Cardinality(Waiting(g)) >= 1
    <2>1. Cardinality(Waiting(g)') = Cardinality(Waiting(g)) - 1
      BY <1>8, <1>9, FS_RemoveElement
    <2>2. Cardinality(Waiting(g)) # 0
      BY <1>8, <1>9, FS_EmptySet
    <2> QED BY <1>8, <2>1, <2>2
  <1>11. /\ refs' \in [Nodes -> [1 .. MaxTrees -> Nat]] /\ refs'["R"][g] = refs["R"][g] - 1
         /\ \A k \in 1 .. MaxTrees : k # g => refs'["R"][k] = refs["R"][k]
         /\ refs'["P"] = refs["P"]
    <2>1. refs["R"][g] \in Nat /\ refs["R"][g] >= 1
      BY <1>3, <1>6, <1>8, <1>10
    <2>2. refs["R"][g] - 1 \in Nat
      BY <2>1
    <2>3. refs' = [refs EXCEPT !["R"][g] = refs["R"][g] - 1] /\ "R" \in Nodes /\ "P" \in Nodes /\ "P" # "R"
      BY <1>5, <2>1 DEF Nodes
    <2>4. refs \in [Nodes -> [1 .. MaxTrees -> Nat]] /\ g \in 1 .. MaxTrees
      BY <1>3, <1>6
    <2> QED BY <2>2, <2>3, <2>4, RefsChange, ZenonT(60)
  <1>12. \A k \in 1 .. MaxTrees : refs'["R"][k] = Cardinality(Waiting(k)')
    <2> SUFFICES ASSUME NEW k \in 1 .. MaxTrees PROVE refs'["R"][k] = Cardinality(Waiting(k)')
      OBVIOUS
    <2>1. CASE k = g
      BY <1>6, <1>10, <1>11, <2>1
    <2>2. CASE k # g
      BY <1>6, <1>8, <1>11, <2>2
    <2> QED BY <2>1, <2>2
  <1>13. FetchersKeepTorrent'
    <2>1. {look'[h].ptr : h \in {k \in Fetchers : look'[k].at = "wait"}}
          = {look[h].ptr : h \in {k \in Fetchers : look[k].at = "wait"} \ {f}}
      <3>1. {k \in Fetchers : look'[k].at = "wait"} = {k \in Fetchers : look[k].at = "wait"} \ {f}
        BY <1>3, <1>4
      <3>2. \A h \in Fetchers : look'[h].ptr = look[h].ptr
        BY <1>3, <1>4
      <3> QED BY <3>1, <3>2
    <2>2. CASE refs["R"][g] <= 1
      <3>1. Cardinality(Waiting(g)') = 0 /\ IsFiniteSet(Waiting(g)')
        BY <1>3, <1>6, <1>8, <1>10, <2>2, FS_RemoveElement
      <3>2. Waiting(g) \ {f} = {}
        BY <1>8, <3>1, FS_EmptySet
      <3>3. \A h \in Fetchers : look[h].at = "wait" /\ h # f => look[h].ptr # t
        BY <1>0, <3>2 DEF Waiting
      <3> QED BY <1>0, <1>6, <1>7, <2>1, <2>2, <3>3 DEF FetchersKeepTorrent
    <2>3. CASE refs["R"][g] > 1
      <3>1. Cardinality(Waiting(g)') # 0
        BY <1>3, <1>6, <1>8, <1>10, <2>3
      <3>2. Waiting(g) \ {f} # {}
        BY <1>8, <3>1, FS_EmptySet
      <3>3. PICK h \in Waiting(g) : h # f
        BY <3>2
      <3>4. h \in Fetchers /\ look[h].at = "wait" /\ look[h].ptr = t
        <4>1. h \in Fetchers /\ look[h].at = "wait" /\ look[h].ptr.gen = g
          BY DEF Waiting
        <4>2. look[h].ptr \in Around /\ t \in Around
          BY <1>0, <1>4, <4>1 DEF Around
        <4> QED BY <1>0, <4>1, <4>2 DEF AggregateInv, GenIsTree
      <3>5. handles'["R"] = handles["R"]
        BY <1>3, <1>6, <1>7, <1>8, <2>3
      <3>6. {look[k].ptr : k \in {i \in Fetchers : look[i].at = "wait"} \ {f}}
            = {look[k].ptr : k \in {i \in Fetchers : look[i].at = "wait"}}
        BY <1>0, <3>3, <3>4
      <3> QED BY <1>6, <2>1, <3>5, <3>6 DEF FetchersKeepTorrent
    <2> QED BY <1>3, <1>6, <1>8, <2>2, <2>3
  <1>18. \A k \in 1 .. MaxTrees : refs'["P"][k] = IF look'["p"].at = "wait" /\ look'["p"].ptr.gen = k THEN 1 ELSE 0
    BY <1>11, <1>16 DEF AggregateInv, FetchInv
  <1>14. FetchInv'
    BY <1>3, <1>11, <1>12, <1>13, <1>18 DEF FetchInv
  <1> QED BY <1>3, <1>7, <1>14, <1>17 DEF AggregateInv

LEMMA AggregateStart ==
    ASSUME AggregateInit
    PROVE  AggregateInv
  <1>1. GenIsTree
    <2>1. \A f \in Lookups : look[f].ptr = Nil
      BY DEF AggregateInit, freshLook
    <2>2. Around = {Nil}
      BY <2>1 DEF AggregateInit, Around, idleJob
    <2>3. Nil.gen = 0 /\ 0 \in Nat /\ 0 \in 0 .. 0
      BY DEF Nil
    <2> QED BY <2>2, <2>3, FetchersAssumption DEF AggregateInit, GenIsTree
  <1>2. JobInv /\ RefreshedIsCurrent /\ SeedInv /\ FileInv
    BY DEF AggregateInit, JobInv, RefreshedIsCurrent, SeedInv, FileInv, idleJob, Advertising, Nodes
  <1>3. freshLook.at = "idle" /\ Shaped(freshLook)
    BY DEF freshLook, Shaped, LookRec
  <1>4. look = [f \in Lookups |-> freshLook] /\ "p" \in Lookups /\ Fetchers \subseteq Lookups
        /\ handles = [n \in Nodes |-> {}] /\ refs = [n \in Nodes |-> [g \in 1 .. MaxTrees |-> 0]]
    BY DEF AggregateInit, Lookups
  <1>5. \A f \in Lookups : look[f] = freshLook
    BY <1>4
  <1>6. LookShaped
    BY <1>3, <1>4, <1>5 DEF LookShaped
  <1>7. \A g : Waiting(g) = {}
    BY <1>3, <1>4, <1>5 DEF Waiting
  <1>8. refs \in [Nodes -> [1 .. MaxTrees -> Nat]] /\ \A g \in 1 .. MaxTrees : refs["R"][g] = 0 /\ refs["P"][g] = 0
    BY <1>4 DEF Nodes
  <1>9. FetchersKeepTorrent
    BY <1>3, <1>4, <1>5 DEF FetchersKeepTorrent, Nodes
  <1>10. FetchInv
    BY <1>3, <1>4, <1>5, <1>6, <1>7, <1>8, <1>9, FS_EmptySet DEF FetchInv, Fetching
  <1> QED BY <1>1, <1>2, <1>10 DEF AggregateInv

LEMMA AggregateStep ==
    ASSUME AggregateInv, [AggregateNext]_aggregateVars
    PROVE  AggregateInv'
  <1>1. CASE UNCHANGED aggregateVars
    <2>1. UNCHANGED <<tree, gen, job, ended, lastSeeded, pointer, handles, torn, disk, refs, look>>
      BY <1>1 DEF aggregateVars
    <2>2. GenIsTree'
      BY <2>1, GenKept DEF AggregateInv, Around
    <2>3. JobInv' /\ RefreshedIsCurrent' /\ SeedInv' /\ FileInv' /\ FetchInv'
      BY <2>1, FetchKept, SeedKept, FileKept DEF AggregateInv, JobInv, RefreshedIsCurrent, NilTree
    <2> QED BY <2>2, <2>3 DEF AggregateInv
  <1>2. CASE \E ih \in Infohashes : (\E kws \in budget.names : Publish(ih, kws)) \/ Retract(ih)
    BY <1>2, AggregateRecords
  <1>3. CASE LookupSelf
    BY <1>3, AggregateRecords
  <1>4. CASE Worker
    BY <1>4, AggregateRefresh, AggregateRetract, AggregateWrite, AggregateSeed, AggregatePut, AggregateRecheck DEF Worker
  <1>5. CASE PointerExpires
    BY <1>5, AggregateExpires
  <1>6. ASSUME NEW f \in Lookups, Fetch(f) PROVE AggregateInv'
    <2>1. f = "p" \/ f \in Fetchers
      BY DEF Lookups
    <2> QED BY <1>6, <2>1, AggregateAttach, AggregateRelease, AttachOwn, ReleaseOwn DEF Fetch
  <1>7. ASSUME NEW f \in Lookups, NEW own \in BOOLEAN, NEW k, NEW r, LegacyLookup(f, own, k, r) \/ Answer(f) PROVE AggregateInv'
    BY <1>7, LookSteps
  <1> QED BY <1>1, <1>2, <1>3, <1>4, <1>5, <1>6, <1>7 DEF AggregateNext


\* R has a handle of exactly the torrents its fetches wait for.  P keeps the handle of the tree it
\* seeded last, and between refreshes that tree's file, until the next one is seeded, unless P's
\* fetch of another publisher's pointer that names the tree drops it; P keeps no handle of an older
\* tree (retainAndAttachCompanion, releaseCompanionFetch, ResolveTree, PublishTree).
THEOREM SeedsAlwaysHeld == AggregateSpec => []SeedsHeld
  <1>1. AggregateInv => SeedsHeld
    <2> SUFFICES ASSUME AggregateInv PROVE SeedsHeld
      OBVIOUS
    <2>1. AdvertisedStaysSeeded
      BY DEF AggregateInv, SeedInv, FileInv, AdvertisedStaysSeeded, Seeded, Serves
    <2> QED BY <2>1 DEF AggregateInv, FetchInv, SeedsHeld
  <1> QED BY <1>1, AggregateStart, AggregateStep, PTL DEF AggregateSpec

\* When Refresh has succeeded and nothing was rebuilt since it compared generations, the pointer
\* in the DHT names the current tree or has expired (Refresh, PublishTree).
THEOREM RefreshAlwaysCurrent == AggregateSpec => []RefreshedIsCurrent
  <1>1. AggregateInv => RefreshedIsCurrent
    BY DEF AggregateInv
  <1> QED BY <1>1, AggregateStart, AggregateStep, PTL DEF AggregateSpec
=============================================================================
