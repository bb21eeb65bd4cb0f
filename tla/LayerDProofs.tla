---------------------------- MODULE LayerDProofs ----------------------------
(***************************************************************************)
(* Theorems about the keyword index in the DHT (Layer D): what a node      *)
(* announces there, and whom it believes.                                  *)
(*                                                                         *)
(* The keyword publisher, for any torrents, keywords, value and queue      *)
(* sizes, and any start.  ManifestSound is not inductive: an item is what  *)
(* a snapshot was, the snapshot what the manifest was, and the manifest    *)
(* after a restart what the file was.  Sound says that none of them holds  *)
(* an empty list, what the worker holds at each label, and why the         *)
(* counters are bounded: the goroutines of a torrent are at most one more  *)
(* than the adds so far.                                                   *)
(*                                                                         *)
(* The spam resistance of a node, for every number of keys, infohashes,    *)
(* goroutines and searches and every bound and threshold: confirms are     *)
(* durable, flags dock only indexers that returned the hit, lookups count  *)
(* what was answered, and admissions have a root.  Each property has an    *)
(* inductive invariant of its own over TypeOK: Durable (the filter in      *)
(* memory holds what the file holds), DocksSound (attribution at rest, in  *)
(* a search and in a flag under way names only indexers that answered),    *)
(* OperatorKept with SearchesSound (the sources of an infohash are         *)
(* distinct, asked and answered) and AdmittedSound.                        *)
(***************************************************************************)
EXTENDS KeywordPublisher, Admission, TLAPS, FiniteSetTheorems, NaturalsInduction, WellFoundedInduction

(***************************************************************************)
(* The keyword publisher.                                                  *)
(***************************************************************************)
Manifests == [Keywords -> Announced]

\* Manifest, file, snapshot and items hold entries to announce, or none.
NothingEmpty ==
    /\ manifest \in Manifests /\ item \in Manifests
    /\ saved \in [hits : Manifests, fresh : SUBSET Keywords]
    /\ w.pc = "put" => w.snap # <<>>

\* What the worker holds at each label.
WorkerHolds ==
    /\ w.pc \in {"snap", "put", "mark"} => w.kw \in Keywords
    /\ w.pc \notin {"idle", "stopped"} /\ w.job = "publish" => w.ih \in Hashes

\* A removal is of a torrent that is there, and has released its autoIndex.
RemovalsKnown == \A i \in Hashes : rm[i] # "no" => i \in managed \ waiting

\* The autoIndex goroutines of a torrent: one for each add, and the restore.
GoroutinesCounted ==
    \A i \in Hashes :
        /\ submitting[i] <= adds + 1
        /\ i \in waiting => submitting[i] <= adds

Sound ==
    KeywordTypeOK /\ NothingEmpty /\ WorkerHolds /\ RemovalsKnown /\ GoroutinesCounted /\ SavedAtRest


(***************************************************************************)
(* Hit lists.                                                              *)
(***************************************************************************)
LEMMA ListIntro ==
    ASSUME NEW n \in 0..HitCap, NEW s \in [1..n -> Hashes],
           \A i, j \in 1..n : s[i] = s[j] => i = j
    PROVE  s \in HitLists /\ s \in Seq(Hashes) /\ Len(s) = n
  <1>1. n \in Nat /\ DOMAIN s = 1..n
    BY KeywordAssumption
  <1>2. s \in Seq(Hashes) /\ Len(s) = n
    BY <1>1
  <1> QED BY <1>1, <1>2 DEF HitLists

LEMMA ListUse ==
    ASSUME NEW s \in HitLists
    PROVE  /\ s \in Seq(Hashes) /\ Len(s) \in 0..HitCap /\ DOMAIN s = 1..Len(s)
           /\ s \in [1..Len(s) -> Hashes]
           /\ \A i, j \in 1..Len(s) : s[i] = s[j] => i = j
           /\ s # <<>> => Len(s) # 0
  <1>1. PICK n \in 0..HitCap : s \in [1..n -> Hashes]
    BY DEF HitLists
  <1>2. n \in Nat /\ DOMAIN s = 1..n
    BY <1>1, KeywordAssumption
  <1>3. s \in Seq(Hashes) /\ Len(s) = n
    BY <1>1, <1>2
  <1>4. \A i, j \in DOMAIN s : s[i] = s[j] => i = j
    BY DEF HitLists
  <1> QED BY <1>1, <1>2, <1>3, <1>4

\* RemoveAllHits leaves a list.
LEMMA WithoutList ==
    ASSUME NEW s \in HitLists, NEW i, NEW p \in DOMAIN s, s[p] = i
    PROVE  WithoutHit(s, i) \in HitLists
  <1> DEFINE at == CHOOSE n \in DOMAIN s : s[n] = i
             N == Len(s) - 1
             out == [n \in 1..N |-> s[IF n < at THEN n ELSE n + 1]]
  <1>1. at \in DOMAIN s
    OBVIOUS
  <1>2. /\ Len(s) \in 0..HitCap /\ DOMAIN s = 1..Len(s) /\ s \in [1..Len(s) -> Hashes]
        /\ \A k, j \in 1..Len(s) : s[k] = s[j] => k = j
    BY ListUse
  <1> HIDE DEF at
  <1>3. at \in Nat /\ HitCap \in Nat /\ Len(s) \in Nat /\ Len(s) > 0
    BY <1>1, <1>2, KeywordAssumption
  <1>4. N \in 0..HitCap /\ N \in Nat /\ N + 1 = Len(s)
    BY <1>2, <1>3
  <1> HIDE DEF N
  <1>5. ASSUME NEW n \in 1..N PROVE (IF n < at THEN n ELSE n + 1) \in 1..Len(s)
    BY <1>3, <1>4
  <1>6. out \in [1..N -> Hashes]
    BY <1>2, <1>5
  <1>7. ASSUME NEW k \in 1..N, NEW j \in 1..N, out[k] = out[j] PROVE k = j
    <2>1. (IF k < at THEN k ELSE k + 1) = (IF j < at THEN j ELSE j + 1)
      BY <1>2, <1>5, <1>7
    <2> QED BY <2>1, <1>3, <1>4
  <1>8. out \in HitLists
    BY <1>4, <1>6, <1>7, ListIntro
  <1> QED BY <1>8 DEF WithoutHit, N, at

\* AddHit leaves a list with at least one hit.
LEMMA HitsWithList ==
    ASSUME NEW s \in Announced, NEW i \in Hashes
    PROVE  HitsWith(s, i) \in HitLists \ {<<>>}
  <1>0. HitCap \in Nat /\ HitCap >= 1
    BY KeywordAssumption
  <1>1. CASE s = None
    <2>1. <<i>> \in Seq(Hashes) /\ Len(<<i>>) = 1 /\ <<i>> \in [1..1 -> Hashes] /\ <<i>> # <<>>
      OBVIOUS
    <2>2. <<i>> \in HitLists
      <3> DEFINE e == <<i>>
      <3>1. 1 \in 0..HitCap /\ e \in [1..1 -> Hashes] /\ \A k, j \in 1..1 : e[k] = e[j] => k = j
        BY <1>0, <2>1
      <3> HIDE DEF e
      <3>2. e \in HitLists
        BY <3>1, ListIntro
      <3> QED BY <3>2 DEF e
    <2>3. HitsWith(s, i) = <<i>>
      BY <1>0, <1>1, <2>1 DEF HitsWith
    <2> QED BY <2>1, <2>2, <2>3
  <1>2. CASE s # None /\ \E n \in DOMAIN s : s[n] = i
    <2>1. s \in HitLists \ {<<>>}
      BY <1>2 DEF Announced
    <2>2. Len(s) \in 0..HitCap
      BY <2>1, ListUse
    <2>3. HitsWith(s, i) = s
      BY <1>0, <1>2, <2>2 DEF HitsWith
    <2> QED BY <2>1, <2>3
  <1>3. CASE s # None /\ ~(\E n \in DOMAIN s : s[n] = i)
    <2>1. s \in HitLists \ {<<>>}
      BY <1>3 DEF Announced
    <2>2. /\ s \in Seq(Hashes) /\ Len(s) \in 0..HitCap /\ DOMAIN s = 1..Len(s) /\ Len(s) # 0
          /\ \A k, j \in 1..Len(s) : s[k] = s[j] => k = j
      BY <2>1, ListUse
    <2> DEFINE t == Append(s, i)
    <2>3. /\ t \in Seq(Hashes) /\ Len(t) = Len(s) + 1 /\ t[Len(s) + 1] = i
          /\ \A k \in 1..Len(s) : t[k] = s[k]
      BY <2>2
    <2>4. \A k, j \in 1..Len(t) : t[k] = t[j] => k = j
      <3> SUFFICES ASSUME NEW k \in 1..Len(t), NEW j \in 1..Len(t), t[k] = t[j] PROVE k = j
        OBVIOUS
      <3>1. CASE k \in 1..Len(s) /\ j \in 1..Len(s)
        BY <3>1, <2>2, <2>3
      <3>2. CASE k \notin 1..Len(s) /\ j \notin 1..Len(s)
        BY <3>2, <2>2, <2>3
      <3>3. CASE k \in 1..Len(s) /\ j \notin 1..Len(s)
        <4>1. j = Len(s) + 1
          BY <3>3, <2>2, <2>3
        <4> QED BY <3>3, <4>1, <1>3, <2>2, <2>3
      <3>4. CASE k \notin 1..Len(s) /\ j \in 1..Len(s)
        <4>1. k = Len(s) + 1
          BY <3>4, <2>2, <2>3
        <4> QED BY <3>4, <4>1, <1>3, <2>2, <2>3
      <3> QED BY <3>1, <3>2, <3>3, <3>4
    <2> HIDE DEF t
    <2>5. CASE Len(t) > HitCap
      <3> DEFINE u == Tail(t)
      <3>1. u \in Seq(Hashes) /\ Len(u) = Len(s) /\ \A k \in 1..Len(s) : u[k] = t[k + 1]
        BY <2>2, <2>3
      <3> HIDE DEF u
      <3>2. u \in [1..Len(s) -> Hashes] /\ Len(s) \in 1..HitCap
        <4>1. Len(s) \in 1..HitCap /\ DOMAIN u = 1..Len(s)
          BY <3>1, <2>2, <1>0
        <4>2. u \in [1..Len(u) -> Hashes]
          BY <3>1
        <4> QED BY <3>1, <4>1, <4>2
      <3>3. \A k, j \in 1..Len(s) : u[k] = u[j] => k = j
        <4> SUFFICES ASSUME NEW k \in 1..Len(s), NEW j \in 1..Len(s), u[k] = u[j] PROVE k = j
          OBVIOUS
        <4>1. t[k + 1] = t[j + 1] /\ k + 1 \in 1..Len(t) /\ j + 1 \in 1..Len(t)
          BY <3>1, <2>2, <2>3
        <4>2. k + 1 = j + 1
          BY <4>1, <2>4
        <4> QED BY <4>2, <2>2
      <3>4. u \in HitLists /\ Len(u) # 0
        BY <3>2, <3>3, <1>0, ListIntro
      <3>5. HitsWith(s, i) = u
        BY <1>3, <2>5 DEF HitsWith, t, u
      <3> QED BY <3>4, <3>5
    <2>6. CASE ~(Len(t) > HitCap)
      <3>1. Len(t) \in 1..HitCap /\ t \in [1..Len(t) -> Hashes]
        BY <2>2, <2>3, <2>6, <1>0
      <3>2. t \in HitLists /\ Len(t) # 0
        BY <3>1, <2>4, <1>0, ListIntro
      <3>3. HitsWith(s, i) = t
        BY <1>3, <2>6 DEF HitsWith, t
      <3> QED BY <3>2, <3>3
    <2> QED BY <2>5, <2>6
  <1> QED BY <1>1, <1>2, <1>3

\* A list names as many torrents as it has hits.
LEMMA ListDistinct ==
    ASSUME NEW s \in HitLists
    PROVE  Cardinality({s[n] : n \in DOMAIN s}) = Len(s)
  <1>1. /\ Len(s) \in Nat /\ DOMAIN s = 1..Len(s) /\ s \in [1..Len(s) -> Hashes]
        /\ \A i, j \in 1..Len(s) : s[i] = s[j] => i = j
    BY ListUse, KeywordAssumption
  <1> DEFINE S == {s[n] : n \in DOMAIN s}
  <1>2. s \in Bijection(1..Len(s), S)
    BY <1>1 DEF Bijection, Injection, Surjection, IsInjective
  <1>3. ExistsBijection(1..Len(s), S)
    BY <1>2 DEF ExistsBijection
  <1> QED BY <1>1, <1>3, FS_CountingElements


LEMMA InitSound == KeywordInit => Sound
  <1> SUFFICES ASSUME KeywordInit PROVE Sound
    OBVIOUS
  <1> USE KeywordAssumption, ListedAssumption
  <1>1. Announced \subseteq Entries
    BY DEF Announced, Entries
  <1>2. <<>> \in HitLists
    <2> DEFINE e == <<>>
    <2>1. 0 \in 0..HitCap /\ e \in [1..0 -> Hashes] /\ \A k, j \in 1..0 : e[k] = e[j] => k = j
      OBVIOUS
    <2> HIDE DEF e
    <2>2. e \in HitLists
      BY <2>1, ListIntro
    <2> QED BY <2>2 DEF e
  <1>3. Listed \in [Keywords -> Entries]
    BY <1>1
  <1>4. tasks \in UNION {[1..n -> Hashes] : n \in 0..QueueSize}
    <2>1. 0 \in 0..QueueSize /\ tasks \in [1..0 -> Hashes]
      BY DEF KeywordInit
    <2> QED BY <2>1
  <1>5. KeywordTypeOK
    <2>1. w \in [pc : {"idle", "next", "snap", "put", "mark", "stopped"},
                 job : {"publish", "refresh", None}, ih : Hashes \cup {None},
                 todo : SUBSET Keywords, kw : Keywords \cup {None}, snap : HitLists]
      BY <1>2 DEF KeywordInit, IdleWorker
    <2>2. /\ submitting \in [Hashes -> 0..(MaxAdds + 1)] /\ rm \in [Hashes -> {"no", "scrub", "save", "drop"}]
          /\ adds \in 0..MaxAdds /\ faults \in 0..MaxFaults
      BY DEF KeywordInit
    <2> QED BY <1>3, <1>4, <2>1, <2>2 DEF KeywordInit, KeywordTypeOK
  <1>6. NothingEmpty
    BY DEF KeywordInit, NothingEmpty, Manifests, IdleWorker
  <1>7. WorkerHolds /\ RemovalsKnown /\ GoroutinesCounted /\ SavedAtRest
    BY DEF KeywordInit, WorkerHolds, RemovalsKnown, GoroutinesCounted, SavedAtRest, IdleWorker
  <1> QED BY <1>5, <1>6, <1>7 DEF Sound

(***************************************************************************)
(* The engine.                                                             *)
(***************************************************************************)
LEMMA AddStep ==
    ASSUME Sound, NEW i \in Hashes, AddTorrent(i) PROVE Sound'
  <1> USE KeywordAssumption DEF AddTorrent, store, file, Sound
  <1>1. KeywordTypeOK'
    BY DEF KeywordTypeOK
  <1>2. NothingEmpty' /\ WorkerHolds' /\ SavedAtRest'
    BY DEF NothingEmpty, WorkerHolds, SavedAtRest
  <1>3. RemovalsKnown'
    BY DEF RemovalsKnown, KeywordTypeOK
  <1>4. GoroutinesCounted'
    BY DEF GoroutinesCounted, KeywordTypeOK
  <1> QED BY <1>1, <1>2, <1>3, <1>4

LEMMA AutoStep ==
    ASSUME Sound, NEW i \in Hashes, autoIndex(i) PROVE Sound'
  <1> USE KeywordAssumption DEF autoIndex, store, file, Sound
  <1>1. GoroutinesCounted'
    BY DEF GoroutinesCounted, KeywordTypeOK
  <1>2. KeywordTypeOK'
    BY <1>1 DEF KeywordTypeOK, GoroutinesCounted
  <1>3. NothingEmpty' /\ WorkerHolds' /\ SavedAtRest'
    BY DEF NothingEmpty, WorkerHolds, SavedAtRest
  <1>4. RemovalsKnown'
    BY DEF RemovalsKnown, KeywordTypeOK
  <1> QED BY <1>1, <1>2, <1>3, <1>4

\* A task joins the queue, or is dropped.
LEMMA QueueAppend ==
    ASSUME KeywordTypeOK, NEW i \in Hashes,
           tasks' = IF Len(tasks) < QueueSize THEN Append(tasks, i) ELSE tasks
    PROVE  tasks' \in UNION {[1..n -> Hashes] : n \in 0..QueueSize}
  <1>1. PICK n \in 0..QueueSize : tasks \in [1..n -> Hashes]
    BY DEF KeywordTypeOK
  <1>2. QueueSize \in Nat /\ n \in Nat
    BY KeywordAssumption
  <1>3. tasks \in Seq(Hashes) /\ Len(tasks) = n
    BY <1>1, <1>2
  <1>4. CASE Len(tasks) < QueueSize
    <2> DEFINE t == Append(tasks, i)
    <2>1. t \in Seq(Hashes) /\ Len(t) = n + 1
      BY <1>3
    <2> HIDE DEF t
    <2>2. t \in [1..(n + 1) -> Hashes] /\ n + 1 \in 0..QueueSize
      BY <2>1, <1>2, <1>3, <1>4
    <2> QED BY <2>2, <1>4 DEF t
  <1>5. CASE ~(Len(tasks) < QueueSize)
    BY <1>5 DEF KeywordTypeOK
  <1> QED BY <1>4, <1>5

\* The worker takes the oldest task.
LEMMA QueueTail ==
    ASSUME KeywordTypeOK, tasks # <<>>
    PROVE  Head(tasks) \in Hashes /\ Tail(tasks) \in UNION {[1..n -> Hashes] : n \in 0..QueueSize}
  <1>1. PICK n \in 0..QueueSize : tasks \in [1..n -> Hashes]
    BY DEF KeywordTypeOK
  <1>2. QueueSize \in Nat /\ n \in Nat
    BY KeywordAssumption
  <1>3. tasks \in Seq(Hashes) /\ Len(tasks) = n /\ n # 0
    BY <1>1, <1>2
  <1> DEFINE t == Tail(tasks)
  <1>4. t \in Seq(Hashes) /\ Len(t) = n - 1 /\ Head(tasks) \in Hashes
    BY <1>2, <1>3
  <1> HIDE DEF t
  <1>5. t \in [1..(n - 1) -> Hashes] /\ n - 1 \in 0..QueueSize
    BY <1>2, <1>3, <1>4
  <1> QED BY <1>4, <1>5 DEF t

LEMMA PublishStep ==
    ASSUME Sound, NEW i \in Hashes, publishTorrent(i) PROVE Sound'
  <1> USE KeywordAssumption DEF publishTorrent, store, file, Sound
  <1>1. GoroutinesCounted'
    BY DEF GoroutinesCounted, KeywordTypeOK
  <1>2. tasks' \in UNION {[1..n -> Hashes] : n \in 0..QueueSize}
    BY QueueAppend
  <1>3. submitting' \in [Hashes -> 0..(MaxAdds + 1)]
    BY DEF KeywordTypeOK
  <1>4. KeywordTypeOK'
    BY <1>2, <1>3 DEF KeywordTypeOK
  <1>5. NothingEmpty' /\ WorkerHolds' /\ SavedAtRest'
    BY DEF NothingEmpty, WorkerHolds, SavedAtRest
  <1>6. RemovalsKnown'
    BY DEF RemovalsKnown
  <1> QED BY <1>1, <1>4, <1>5, <1>6

LEMMA RemoveStep ==
    ASSUME Sound, NEW i \in Hashes, RemoveTorrent(i) \/ RemoveDone(i) PROVE Sound'
  <1> USE DEF RemoveTorrent, RemoveDone, store, file, Sound
  <1>1. KeywordTypeOK'
    BY DEF KeywordTypeOK, RemovalsKnown
  <1>2. NothingEmpty' /\ WorkerHolds'
    BY DEF NothingEmpty, WorkerHolds
  <1>3. RemovalsKnown'
    BY DEF RemovalsKnown, KeywordTypeOK
  <1>4. GoroutinesCounted'
    BY DEF GoroutinesCounted
  <1>5. SavedAtRest'
    BY DEF SavedAtRest, KeywordTypeOK
  <1> QED BY <1>1, <1>2, <1>3, <1>4, <1>5

LEMMA AnnouncedEntries == Announced \subseteq Entries
  BY DEF Announced, Entries

\* What RemoveAllHits makes of the manifest.
LEMMA ScrubFacts ==
    ASSUME Sound, NEW i \in Hashes, RemoveAllHits(i)
    PROVE  /\ manifest' \in Manifests /\ fresh' \subseteq Keywords
           /\ Holding(i) = {} => UNCHANGED <<manifest, fresh>>
  <1>1. manifest \in Manifests /\ fresh \subseteq Keywords
    BY DEF Sound, NothingEmpty, KeywordTypeOK
  <1>2. ASSUME NEW k \in Keywords PROVE manifest'[k] \in Announced
    <2>1. CASE k \in EmptiedBy(i)
      BY <2>1 DEF RemoveAllHits, Announced
    <2>2. CASE k \notin EmptiedBy(i) /\ k \in Holding(i)
      <3>1. manifest[k] \in HitLists /\ \E n \in DOMAIN manifest[k] : manifest[k][n] = i
        BY <2>2, <1>1 DEF Holding, Manifests, Announced
      <3>2. WithoutHit(manifest[k], i) \in HitLists
        BY <3>1, WithoutList
      <3> QED BY <2>2, <3>2 DEF RemoveAllHits, Announced, EmptiedBy
    <2>3. CASE k \notin Holding(i)
      BY <2>3, <1>1 DEF RemoveAllHits, EmptiedBy, Manifests
    <2> QED BY <2>1, <2>2, <2>3
  <1>3. manifest' \in Manifests
    BY <1>2 DEF RemoveAllHits, Manifests
  <1>4. ASSUME Holding(i) = {} PROVE UNCHANGED <<manifest, fresh>>
    <2>1. EmptiedBy(i) = {}
      BY <1>4 DEF EmptiedBy
    <2> QED BY <1>1, <1>4, <2>1 DEF RemoveAllHits, Manifests
  <1> QED BY <1>1, <1>3, <1>4 DEF RemoveAllHits

LEMMA RetractStep ==
    ASSUME Sound, NEW i \in Hashes, Retract(i) PROVE Sound'
  <1> USE DEF Retract, file, Sound
  <1>1. /\ manifest' \in Manifests /\ fresh' \subseteq Keywords
        /\ Holding(i) = {} => UNCHANGED <<manifest, fresh>>
    BY ScrubFacts
  <1>2. KeywordTypeOK'
    BY <1>1, AnnouncedEntries DEF KeywordTypeOK, Manifests
  <1>3. NothingEmpty' /\ WorkerHolds'
    BY <1>1 DEF NothingEmpty, WorkerHolds
  <1>4. RemovalsKnown'
    BY DEF RemovalsKnown, KeywordTypeOK
  <1>5. GoroutinesCounted'
    BY DEF GoroutinesCounted
  <1>6. SavedAtRest'
    BY <1>1 DEF SavedAtRest, KeywordTypeOK
  <1> QED BY <1>2, <1>3, <1>4, <1>5, <1>6

\* A save writes the manifest of the moment, or fails.
LEMMA SaveFacts ==
    ASSUME Sound, Save, UNCHANGED store
    PROVE  /\ saved' \in [hits : Manifests, fresh : SUBSET Keywords]
           /\ saved'.hits \in [Keywords -> Entries] /\ saved'.fresh \subseteq Keywords
           /\ dirty' \in BOOLEAN /\ faults' \in 0..MaxFaults
           /\ SavedAtRest'
  <1>1. manifest \in Manifests /\ fresh \subseteq Keywords /\ saved \in [hits : Manifests, fresh : SUBSET Keywords]
    BY DEF Sound, NothingEmpty, KeywordTypeOK
  <1>2. CASE saved' = [hits |-> manifest, fresh |-> fresh] /\ dirty' = FALSE /\ UNCHANGED faults
    BY <1>1, <1>2, AnnouncedEntries DEF Sound, SavedAtRest, store, Manifests, KeywordTypeOK
  <1>3. CASE Fault /\ dirty' = TRUE /\ UNCHANGED saved
    BY <1>1, <1>3, AnnouncedEntries, KeywordAssumption DEF Sound, SavedAtRest, store, Manifests, KeywordTypeOK, Fault
  <1> QED BY <1>2, <1>3 DEF Save

LEMMA RetractSaveStep ==
    ASSUME Sound, NEW i \in Hashes, RetractSave(i) PROVE Sound'
  <1> USE DEF RetractSave, store, Sound
  <1>1. /\ saved' \in [hits : Manifests, fresh : SUBSET Keywords]
        /\ saved'.hits \in [Keywords -> Entries] /\ saved'.fresh \subseteq Keywords
        /\ dirty' \in BOOLEAN /\ faults' \in 0..MaxFaults
        /\ SavedAtRest'
    BY SaveFacts
  <1>2. KeywordTypeOK'
    BY <1>1 DEF KeywordTypeOK
  <1>3. NothingEmpty' /\ WorkerHolds'
    BY <1>1 DEF NothingEmpty, WorkerHolds
  <1>4. RemovalsKnown'
    BY DEF RemovalsKnown, KeywordTypeOK
  <1>5. GoroutinesCounted'
    BY DEF GoroutinesCounted
  <1> QED BY <1>1, <1>2, <1>3, <1>4, <1>5


(***************************************************************************)
(* The worker.                                                             *)
(***************************************************************************)
\* The type of the worker's locals.
WorkerLocals ==
    [pc : {"idle", "next", "snap", "put", "mark", "stopped"},
     job : {"publish", "refresh", None}, ih : Hashes \cup {None},
     todo : SUBSET Keywords, kw : Keywords \cup {None}, snap : HitLists]

LEMMA EmptyList == <<>> \in HitLists
  <1> DEFINE e == <<>>
  <1>1. 0 \in 0..HitCap /\ e \in [1..0 -> Hashes] /\ \A k, j \in 1..0 : e[k] = e[j] => k = j
    BY KeywordAssumption
  <1> HIDE DEF e
  <1>2. e \in HitLists
    BY <1>1, ListIntro
  <1> QED BY <1>2 DEF e

\* A step of the worker that leaves the engine and the queue alone.
LEMMA WorkerKeeps ==
    ASSUME Sound, UNCHANGED <<engine, tasks, adds>>, w' \in WorkerLocals, WorkerHolds',
           manifest' \in Manifests, fresh' \in SUBSET Keywords, item' \in Manifests,
           saved' \in [hits : Manifests, fresh : SUBSET Keywords],
           dirty' \in BOOLEAN, faults' \in 0..MaxFaults,
           w'.pc = "put" => w'.snap # <<>>, SavedAtRest'
    PROVE  Sound'
  <1>1. KeywordTypeOK'
    BY AnnouncedEntries DEF Sound, KeywordTypeOK, engine, Manifests, WorkerLocals
  <1>2. NothingEmpty'
    BY DEF NothingEmpty
  <1>3. RemovalsKnown' /\ GoroutinesCounted'
    BY DEF Sound, RemovalsKnown, GoroutinesCounted, engine
  <1> QED BY <1>1, <1>2, <1>3 DEF Sound

LEMMA WorkerFacts ==
    ASSUME Sound
    PROVE  /\ w \in WorkerLocals /\ manifest \in Manifests /\ fresh \in SUBSET Keywords
           /\ item \in Manifests /\ saved \in [hits : Manifests, fresh : SUBSET Keywords]
           /\ dirty \in BOOLEAN /\ faults \in 0..MaxFaults
           /\ w.pc = "put" => w.snap # <<>>
           /\ w.pc \in {"snap", "put", "mark"} => w.kw \in Keywords
           /\ w.pc \notin {"idle", "stopped"} /\ w.job = "publish" => w.ih \in Hashes
           /\ SavedAtRest
  BY DEF Sound, KeywordTypeOK, NothingEmpty, WorkerHolds, WorkerLocals

LEMMA ResumeFacts ==
    ASSUME Sound, w' = Resume, w.pc \in {"snap", "put", "mark"}
    PROVE  w' \in WorkerLocals /\ WorkerHolds' /\ w'.pc = "next"
  BY WorkerFacts, EmptyList DEF Resume, WorkerLocals, WorkerHolds

LEMMA TaskStep ==
    ASSUME Sound, handleTask PROVE Sound'
  <1> USE DEF handleTask, Sound, engine, store, file
  <1>1. Head(tasks) \in Hashes /\ tasks' \in UNION {[1..n -> Hashes] : n \in 0..QueueSize}
    BY QueueTail
  <1>2. Name[Head(tasks)] \in SUBSET Keywords
    BY <1>1, KeywordAssumption
  <1>3. w' \in WorkerLocals /\ WorkerHolds' /\ w'.pc \in {"idle", "next"} /\ (w'.pc = "idle" => w' = w)
    BY <1>1, <1>2, WorkerFacts DEF WorkerLocals, WorkerHolds
  <1>4. KeywordTypeOK'
    BY <1>1, <1>3 DEF KeywordTypeOK, WorkerLocals
  <1>5. NothingEmpty'
    BY <1>3 DEF NothingEmpty
  <1>6. RemovalsKnown' /\ GoroutinesCounted'
    BY DEF RemovalsKnown, GoroutinesCounted
  <1>7. SavedAtRest'
    BY <1>3 DEF SavedAtRest
  <1> QED BY <1>3, <1>4, <1>5, <1>6, <1>7

LEMMA RefreshStep ==
    ASSUME Sound, Refresh PROVE Sound'
  <1> USE WorkerFacts DEF Refresh, engine, store, file
  <1>1. w' \in WorkerLocals /\ WorkerHolds' /\ w'.pc = "next"
    BY DEF WorkerLocals, WorkerHolds
  <1>2. SavedAtRest'
    BY <1>1 DEF SavedAtRest
  <1> QED BY <1>1, <1>2, WorkerKeeps

LEMMA AddHitStep ==
    ASSUME Sound, NEW k \in Keywords, AddHit(k) PROVE Sound'
  <1> USE WorkerFacts DEF AddHit, engine, store, file
  <1>1. w.ih \in Hashes /\ manifest[k] \in Announced
    BY DEF Manifests
  <1>2. HitsWith(manifest[k], w.ih) \in Announced
    BY <1>1, HitsWithList DEF Announced
  <1>3. manifest' \in Manifests
    BY <1>2 DEF Manifests
  <1>4. w' \in WorkerLocals /\ WorkerHolds' /\ w'.pc = "snap"
    BY <1>1 DEF WorkerLocals, WorkerHolds
  <1>5. SavedAtRest'
    BY <1>4 DEF SavedAtRest
  <1> QED BY <1>3, <1>4, <1>5, WorkerKeeps

LEMMA NextKeywordStep ==
    ASSUME Sound, NEW k \in Keywords, NextKeyword(k) PROVE Sound'
  <1> USE WorkerFacts DEF NextKeyword, engine, store, file
  <1>1. w' \in WorkerLocals /\ WorkerHolds' /\ w'.pc = "snap"
    BY DEF WorkerLocals, WorkerHolds
  <1>2. SavedAtRest'
    BY <1>1 DEF SavedAtRest
  <1> QED BY <1>1, <1>2, WorkerKeeps

LEMMA publishOneStep ==
    ASSUME Sound, publishOne PROVE Sound'
  <1> USE WorkerFacts DEF publishOne, engine, store, file
  <1>1. CASE w' = Resume
    <2>1. w' \in WorkerLocals /\ WorkerHolds' /\ w'.pc = "next"
      BY <1>1, ResumeFacts
    <2>2. SavedAtRest'
      BY <2>1 DEF SavedAtRest
    <2> QED BY <2>1, <2>2, WorkerKeeps
  <1>2. CASE manifest[w.kw] # None /\ w' = [w EXCEPT !.pc = "put", !.snap = manifest[w.kw]]
    <2>1. manifest[w.kw] \in HitLists \ {<<>>}
      BY <1>2 DEF Manifests, Announced
    <2>2. w' \in WorkerLocals /\ WorkerHolds' /\ w'.pc = "put" /\ w'.snap # <<>>
      BY <1>2, <2>1 DEF WorkerLocals, WorkerHolds
    <2>3. SavedAtRest'
      BY <2>2 DEF SavedAtRest
    <2> QED BY <2>2, <2>3, WorkerKeeps
  <1> QED BY <1>1, <1>2

LEMMA PutStep ==
    ASSUME Sound, Put PROVE Sound'
  <1> USE WorkerFacts DEF engine, store, file
  <1>1. w.pc = "put" /\ w.kw \in Keywords /\ w.snap \in Announced /\ UNCHANGED <<engine, tasks, store, file, adds>>
    BY DEF Put, WorkerLocals, Announced
  <1>2. [item EXCEPT ![w.kw] = w.snap] \in Manifests
    BY <1>1 DEF Manifests
  <1>3. CASE item' = [item EXCEPT ![w.kw] = w.snap] /\ w' = [w EXCEPT !.pc = "mark"] /\ UNCHANGED faults
    <2>1. w' \in WorkerLocals /\ WorkerHolds' /\ w'.pc = "mark"
      BY <1>1, <1>3 DEF WorkerLocals, WorkerHolds
    <2>2. SavedAtRest'
      BY <2>1 DEF SavedAtRest
    <2> QED BY <1>1, <1>2, <1>3, <2>1, <2>2, WorkerKeeps
  <1>4. CASE Fault /\ item' \in {item, [item EXCEPT ![w.kw] = w.snap]} /\ w' = Resume
    <2>1. w' \in WorkerLocals /\ WorkerHolds' /\ w'.pc = "next"
      BY <1>1, <1>4, ResumeFacts
    <2>2. SavedAtRest'
      BY <2>1 DEF SavedAtRest
    <2>3. faults' \in 0..MaxFaults
      BY <1>4, KeywordAssumption DEF Fault
    <2> QED BY <1>1, <1>2, <1>4, <2>1, <2>2, <2>3, WorkerKeeps
  <1> QED BY <1>3, <1>4 DEF Put

LEMMA MarkStep ==
    ASSUME Sound, MarkPublished PROVE Sound'
  <1> USE WorkerFacts DEF MarkPublished, engine, store, file
  <1>1. w' \in WorkerLocals /\ WorkerHolds' /\ w'.pc = "next"
    BY ResumeFacts
  <1>2. SavedAtRest'
    BY <1>1 DEF SavedAtRest
  <1>3. fresh' \in SUBSET Keywords
    OBVIOUS
  <1> QED BY <1>1, <1>2, <1>3, WorkerKeeps

LEMMA JobStep ==
    ASSUME Sound, JobDone \/ Stop PROVE Sound'
  <1> USE WorkerFacts DEF JobDone, Stop, engine, store
  <1>1. w' \in WorkerLocals /\ WorkerHolds' /\ w'.pc # "put"
    BY EmptyList DEF IdleWorker, WorkerLocals, WorkerHolds
  <1>2. Save /\ UNCHANGED store
    OBVIOUS
  <1>3. /\ saved' \in [hits : Manifests, fresh : SUBSET Keywords]
        /\ dirty' \in BOOLEAN /\ faults' \in 0..MaxFaults /\ SavedAtRest'
    BY <1>2, SaveFacts
  <1> QED BY <1>1, <1>3, WorkerKeeps

(***************************************************************************)
(* Time, the DHT and the process.                                          *)
(***************************************************************************)
LEMMA UnthrottleStep ==
    ASSUME Sound, NEW k \in Keywords, Unthrottle(k) PROVE Sound'
  <1>1. /\ UNCHANGED <<engine, tasks, manifest, dirty, w, item, adds, faults>>
        /\ fresh' = fresh \ {k} /\ saved' = [saved EXCEPT !.fresh = @ \ {k}]
    BY DEF Unthrottle
  <1>2. saved \in [hits : Manifests, fresh : SUBSET Keywords]
    BY WorkerFacts
  <1>3. saved' = [hits |-> saved.hits, fresh |-> saved.fresh \ {k}]
    BY <1>1, <1>2
  <1>4. WorkerHolds'
    BY <1>1 DEF WorkerHolds, Sound
  <1>5. saved' \in [hits : Manifests, fresh : SUBSET Keywords] /\ fresh' \in SUBSET Keywords
    BY <1>1, <1>2, <1>3, WorkerFacts
  <1>6. SavedAtRest'
    <2> SUFFICES ASSUME ~dirty', w'.pc \in {"idle", "stopped"}, \A i \in Hashes : rm'[i] # "save"
                 PROVE  saved' = [hits |-> manifest', fresh |-> fresh']
      BY DEF SavedAtRest
    <2>1. saved = [hits |-> manifest, fresh |-> fresh]
      BY <1>1 DEF Sound, SavedAtRest, engine
    <2>2. saved.hits = manifest /\ saved.fresh = fresh
      BY <2>1
    <2> QED BY <1>1, <1>3, <2>2
  <1> QED BY <1>1, <1>4, <1>5, <1>6, WorkerFacts, WorkerKeeps

LEMMA ExpireStep ==
    ASSUME Sound, NEW k \in Keywords, Expire(k) \/ Lapse(k) PROVE Sound'
  <1> USE WorkerFacts DEF Expire, Lapse, engine, store, file
  <1>1. WorkerHolds'
    BY DEF WorkerHolds, Sound
  <1>2. item' \in Manifests
    BY DEF Manifests, Announced
  <1>3. SavedAtRest'
    BY DEF SavedAtRest
  <1>4. faults' \in 0..MaxFaults
    BY KeywordAssumption DEF Fault
  <1> QED BY <1>1, <1>2, <1>3, <1>4, WorkerKeeps

LEMMA RestartStep ==
    ASSUME Sound, RestartPublisher PROVE Sound'
  <1> USE DEF RestartPublisher
  <1>1. w' \in WorkerLocals /\ WorkerHolds' /\ w'.pc = "idle"
    BY EmptyList DEF IdleWorker, WorkerLocals, WorkerHolds
  <1>2. saved \in [hits : Manifests, fresh : SUBSET Keywords]
    BY WorkerFacts
  <1>3. NothingEmpty'
    BY <1>1, <1>2, WorkerFacts DEF NothingEmpty
  <1>4. tasks' \in UNION {[1..n -> Hashes] : n \in 0..QueueSize}
    <2>1. 0 \in 0..QueueSize /\ tasks' \in [1..0 -> Hashes]
      BY KeywordAssumption
    <2> QED BY <2>1
  <1>5. faults' \in 0..MaxFaults
    BY WorkerFacts, KeywordAssumption DEF Fault
  <1>6. KeywordTypeOK'
    <2>1. /\ submitting' \in [Hashes -> 0..(MaxAdds + 1)] /\ rm' \in [Hashes -> {"no", "scrub", "save", "drop"}]
          /\ managed' \subseteq Hashes /\ waiting' \subseteq managed' /\ adds' \in 0..MaxAdds
      BY KeywordAssumption DEF Sound, KeywordTypeOK
    <2>2. /\ manifest' \in [Keywords -> Entries] /\ fresh' \subseteq Keywords
          /\ saved'.hits \in [Keywords -> Entries] /\ saved'.fresh \subseteq Keywords
          /\ item' \in [Keywords -> Entries] /\ dirty' \in BOOLEAN
      BY <1>2, AnnouncedEntries DEF Sound, KeywordTypeOK, Manifests
    <2> QED BY <1>1, <1>4, <1>5, <2>1, <2>2 DEF KeywordTypeOK, WorkerLocals
  <1>7. RemovalsKnown'
    BY DEF RemovalsKnown
  <1>8. GoroutinesCounted'
    BY DEF GoroutinesCounted, Sound, KeywordTypeOK
  <1>9. SavedAtRest'
    BY <1>2 DEF SavedAtRest
  <1> QED BY <1>1, <1>3, <1>6, <1>7, <1>8, <1>9 DEF Sound

(***************************************************************************)
(* The theorem.                                                            *)
(***************************************************************************)
LEMMA SoundStep == Sound /\ [KeywordNext]_keywordVars => Sound'
  <1> SUFFICES ASSUME Sound, [KeywordNext]_keywordVars PROVE Sound'
    OBVIOUS
  <1>1. CASE UNCHANGED keywordVars
    BY <1>1 DEF keywordVars, engine, store, file, Sound, KeywordTypeOK, NothingEmpty, WorkerHolds, RemovalsKnown,
                GoroutinesCounted, SavedAtRest
  <1>2. ASSUME NEW i \in Hashes, AddTorrent(i) \/ autoIndex(i) \/ RemoveTorrent(i) \/ Engine(i)
        PROVE  Sound'
    BY <1>2, AddStep, AutoStep, PublishStep, RemoveStep, RetractStep, RetractSaveStep DEF Engine
  <1>3. CASE handleTask \/ Refresh \/ Worker \/ Stop
    BY <1>3, TaskStep, RefreshStep, publishOneStep, PutStep, MarkStep, JobStep, AddHitStep, NextKeywordStep
       DEF Worker
  <1>4. ASSUME NEW k \in Keywords, Unthrottle(k) \/ Expire(k) \/ Lapse(k)
        PROVE  Sound'
    BY <1>4, UnthrottleStep, ExpireStep
  <1>5. CASE RestartPublisher
    BY <1>5, RestartStep
  <1> QED BY <1>1, <1>2, <1>3, <1>4, <1>5 DEF KeywordNext

LEMMA SoundEnough == Sound => ManifestSound
  <1> SUFFICES ASSUME Sound PROVE ItemsWellFormed
    BY DEF Sound, ManifestSound
  <1> SUFFICES ASSUME NEW k \in Keywords, item[k] # None
               PROVE  item[k] # <<>> /\ Cardinality(HitsOf(item[k])) = Len(item[k])
    BY DEF ItemsWellFormed
  <1>1. item[k] \in HitLists \ {<<>>}
    BY WorkerFacts DEF Manifests, Announced
  <1>2. HitsOf(item[k]) = {item[k][n] : n \in DOMAIN item[k]}
    BY DEF HitsOf
  <1> QED BY <1>1, <1>2, ListDistinct

\* Whatever is retracted, saved, refused or restarted between the steps of a
\* task or a sweep, no empty value and no repeated hit reaches the DHT, and
\* with nothing under way the file is the manifest in memory.
THEOREM ManifestAlwaysSound == KeywordSpec => []ManifestSound
  BY InitSound, SoundStep, SoundEnough, PTL DEF KeywordSpec


(***************************************************************************)
(* Admission, reputation and feedback.                                     *)
(***************************************************************************)
-----------------------------------------------------------------------------
(* The operators of the stores. *)

LEMMA ConcatTail ==
    ASSUME NEW S, NEW a \in Seq(S), NEW b \in Seq(S), NEW j \in (Len(a) + 1) .. (Len(a) + Len(b))
    PROVE  (a \o b)[j] = b[j - Len(a)]
  OBVIOUS

LEMMA RemoveAtFacts ==
    ASSUME NEW S, NEW seq \in Seq(S), NEW i \in DOMAIN seq
    PROVE  /\ RemoveAt(seq, i) \in Seq(S) /\ Len(RemoveAt(seq, i)) = Len(seq) - 1
           /\ \A j \in 1 .. (Len(seq) - 1) : RemoveAt(seq, i)[j] = IF j < i THEN seq[j] ELSE seq[j + 1]
  <1> DEFINE a == SubSeq(seq, 1, i - 1)
             b == SubSeq(seq, i + 1, Len(seq))
  <1>1. i \in 1 .. Len(seq) /\ Len(seq) \in Nat
    OBVIOUS
  <1>2. a \in Seq(S) /\ Len(a) = i - 1 /\ \A j \in 1 .. (i - 1) : a[j] = seq[j]
    BY <1>1
  <1>3. b \in Seq(S) /\ Len(b) = Len(seq) - i /\ \A j \in 1 .. (Len(seq) - i) : b[j] = seq[j + i]
    BY <1>1
  <1>4. RemoveAt(seq, i) = a \o b
    BY DEF RemoveAt
  <1> HIDE DEF a, b
  <1>5. a \o b \in Seq(S) /\ Len(a \o b) = Len(seq) - 1
    BY <1>1, <1>2, <1>3
  <1>6. ASSUME NEW j \in 1 .. (Len(seq) - 1) PROVE (a \o b)[j] = IF j < i THEN seq[j] ELSE seq[j + 1]
    <2>1. CASE j < i
      BY <1>1, <1>2, <1>3, <2>1
    <2>2. CASE ~(j < i)
      <3>1. j - (i - 1) \in 1 .. (Len(seq) - i)
        BY <1>1, <2>2
      <3>2. j \in (Len(a) + 1) .. (Len(a) + Len(b))
        BY <1>1, <1>2, <1>3, <2>2
      <3>3. (a \o b)[j] = b[j - Len(a)]
        BY <1>2, <1>3, <3>2, ConcatTail
      <3>4. (a \o b)[j] = b[j - (i - 1)] /\ j - (i - 1) \in 1 .. (Len(seq) - i)
        BY <1>2, <3>1, <3>3
      <3>5. b[j - (i - 1)] = seq[(j - (i - 1)) + i] /\ (j - (i - 1)) + i = j + 1
        BY <1>1, <1>3, <3>4
      <3> QED BY <2>2, <3>4, <3>5
    <2> QED BY <2>1, <2>2
  <1> QED BY <1>4, <1>5, <1>6

\* What a removal leaves is what it does not remove, in the old order.
LEMMA RemoveAtElements ==
    ASSUME NEW S, NEW seq \in Seq(S), NEW i \in DOMAIN seq
    PROVE  /\ \A j \in DOMAIN RemoveAt(seq, i) : \E k \in DOMAIN seq : RemoveAt(seq, i)[j] = seq[k]
           /\ \A k \in DOMAIN seq \ {i} : \E j \in DOMAIN RemoveAt(seq, i) : RemoveAt(seq, i)[j] = seq[k]
  <1> DEFINE r == RemoveAt(seq, i)
  <1>1. /\ r \in Seq(S) /\ Len(r) = Len(seq) - 1
        /\ \A j \in 1 .. (Len(seq) - 1) : r[j] = IF j < i THEN seq[j] ELSE seq[j + 1]
    BY RemoveAtFacts
  <1> HIDE DEF r
  <1>2. DOMAIN r = 1 .. (Len(seq) - 1) /\ DOMAIN seq = 1 .. Len(seq) /\ Len(seq) \in Nat /\ i \in 1 .. Len(seq)
    BY <1>1
  <1>3. ASSUME NEW j \in DOMAIN r PROVE \E k \in DOMAIN seq : r[j] = seq[k]
    <2>1. r[j] = seq[j] \/ r[j] = seq[j + 1]
      BY <1>1, <1>2
    <2>2. j \in DOMAIN seq /\ j + 1 \in DOMAIN seq
      BY <1>2
    <2> QED BY <2>1, <2>2
  <1>4. ASSUME NEW k \in DOMAIN seq \ {i} PROVE \E j \in DOMAIN r : r[j] = seq[k]
    <2>1. CASE k < i
      BY <1>1, <1>2, <2>1
    <2>2. CASE k > i
      <3>1. k - 1 \in DOMAIN r /\ ~(k - 1 < i) /\ (k - 1) + 1 = k
        BY <1>2, <2>2
      <3>2. r[k - 1] = seq[k]
        BY <1>1, <1>2, <3>1
      <3> QED BY <3>1, <3>2
    <2> QED BY <1>2, <2>1, <2>2
  <1> QED BY <1>3, <1>4 DEF r

LEMMA IndicesTyped == ASSUME NEW ih \in Infohashes PROVE indices(ih) \in SUBSET (0 .. (BloomM - 1))
  <1>1. oddStride(ih) \in Nat /\ Hash1[ih] \in Nat
    BY HashesAssumption DEF oddStride
  <1>2. ASSUME NEW i \in 0 .. (BloomK - 1) PROVE (Hash1[ih] + i * oddStride(ih)) % BloomM \in 0 .. (BloomM - 1)
    <2>1. Hash1[ih] + i * oddStride(ih) \in Nat
      BY <1>1, HashesAssumption
    <2> QED BY <2>1, HashesAssumption
  <1> QED BY <1>2 DEF indices

\* The attribution list after each of its operations: typed, within its capacity, and with the
\* publishers it had.
LEMMA WithoutFacts ==
    ASSUME StoresTyped, NEW ih \in Infohashes
    PROVE  /\ Without(ih) \in Seq(Attributions)
           /\ Len(Without(ih)) = IF Entry(ih) = {} THEN Len(sources) ELSE Len(sources) - 1
           /\ \A j \in DOMAIN Without(ih) : \E k \in DOMAIN sources : Without(ih)[j] = sources[k]
  <1>1. CASE Entry(ih) = {}
    BY <1>1 DEF Without, StoresTyped
  <1>2. CASE Entry(ih) # {}
    <2>1. Place(ih) \in Entry(ih) /\ Place(ih) \in DOMAIN sources
      BY <1>2 DEF Place, Entry
    <2>2. Without(ih) = RemoveAt(sources, Place(ih))
      BY <1>2 DEF Without
    <2>3. sources \in Seq(Attributions)
      BY DEF StoresTyped
    <2>4. /\ RemoveAt(sources, Place(ih)) \in Seq(Attributions)
          /\ Len(RemoveAt(sources, Place(ih))) = Len(sources) - 1
      BY <2>1, <2>3, RemoveAtFacts
    <2>5. \A j \in DOMAIN RemoveAt(sources, Place(ih)) :
            \E k \in DOMAIN sources : RemoveAt(sources, Place(ih))[j] = sources[k]
      BY <2>1, <2>3, RemoveAtElements
    <2> QED BY <1>2, <2>2, <2>4, <2>5
  <1> QED BY <1>1, <1>2

LEMMA SourcesTyped ==
    ASSUME StoresTyped, NEW ih \in Infohashes
    PROVE  Sources(ih) \in SUBSET Keys
  <1>1. ASSUME NEW i \in Entry(ih) PROVE sources[i].pubs \in SUBSET Keys
    <2>1. sources[i] \in Attributions
      BY DEF Entry, StoresTyped
    <2> QED BY <2>1 DEF Attributions
  <1> QED BY <1>1 DEF Sources

LEMMA TouchedFacts ==
    ASSUME StoresTyped, NEW ih \in Infohashes
    PROVE  /\ Touched(ih) \in Seq(Attributions) /\ Len(Touched(ih)) <= SourceCap
           /\ \A j \in DOMAIN Touched(ih) : \E k \in DOMAIN sources : Touched(ih)[j] = sources[k]
  <1>1. CASE Entry(ih) = {}
    BY <1>1 DEF Touched, StoresTyped
  <1>2. CASE Entry(ih) # {}
    <2> DEFINE e == sources[Place(ih)]
               others == Without(ih)
    <2>1. Place(ih) \in DOMAIN sources
      BY <1>2 DEF Place, Entry
    <2>2. e \in Attributions /\ sources \in Seq(Attributions) /\ Len(sources) <= SourceCap
      BY <2>1 DEF StoresTyped
    <2>3. /\ others \in Seq(Attributions) /\ Len(others) = Len(sources) - 1
          /\ \A j \in DOMAIN others : \E k \in DOMAIN sources : others[j] = sources[k]
      BY <1>2, WithoutFacts
    <2>4. Touched(ih) = <<e>> \o others
      BY <1>2 DEF Touched
    <2> HIDE DEF e, others
    <2>5. <<e>> \o others \in Seq(Attributions) /\ Len(<<e>> \o others) = Len(sources)
      BY <2>2, <2>3
    <2>6. ASSUME NEW j \in DOMAIN (<<e>> \o others) PROVE \E k \in DOMAIN sources : (<<e>> \o others)[j] = sources[k]
      <3>1. CASE j = 1
        <4>1. (<<e>> \o others)[j] = e
          BY <2>2, <2>3, <3>1
        <4> QED BY <2>1, <4>1 DEF e
      <3>2. CASE j # 1
        <4>1. j - 1 \in DOMAIN others /\ (<<e>> \o others)[j] = others[j - 1]
          BY <2>2, <2>3, <3>2
        <4> QED BY <2>3, <4>1
      <3> QED BY <3>1, <3>2
    <2> QED BY <2>2, <2>4, <2>5, <2>6
  <1> QED BY <1>1, <1>2

LEMMA RecordManyFacts ==
    ASSUME StoresTyped, NEW ih \in Infohashes, NEW pks \in SUBSET Keys
    PROVE  /\ RecordMany(ih, pks) \in Seq(Attributions) /\ Len(RecordMany(ih, pks)) <= SourceCap
           /\ \A j \in DOMAIN RecordMany(ih, pks) :
                \/ RecordMany(ih, pks)[j] = [ih |-> ih, pubs |-> Sources(ih) \cup pks]
                \/ \E k \in DOMAIN sources : RecordMany(ih, pks)[j] = sources[k]
  <1> DEFINE e == [ih |-> ih, pubs |-> Sources(ih) \cup pks]
             others == Without(ih)
             s == <<e>> \o others
             r == IF Len(s) > SourceCap THEN SubSeq(s, 1, SourceCap) ELSE s
  <1>1. RecordMany(ih, pks) = r
    BY DEF RecordMany
  <1>2. e \in Attributions
    BY SourcesTyped DEF Attributions
  <1>3. others \in Seq(Attributions) /\ \A j \in DOMAIN others : \E k \in DOMAIN sources : others[j] = sources[k]
    BY WithoutFacts
  <1> HIDE DEF e, others
  <1>4. s \in Seq(Attributions) /\ s[1] = e /\ Len(s) = Len(others) + 1 /\ \A j \in 2 .. Len(s) : s[j] = others[j - 1]
    BY <1>2, <1>3
  <1>5. \A j \in DOMAIN s : s[j] = e \/ \E k \in DOMAIN sources : s[j] = sources[k]
    <2> TAKE j \in DOMAIN s
    <2>1. CASE j = 1
      BY <1>4, <2>1
    <2>2. CASE j # 1
      <3>1. j \in 2 .. Len(s) /\ j - 1 \in DOMAIN others
        BY <1>3, <1>4, <2>2
      <3> QED BY <1>3, <1>4, <3>1
    <2> QED BY <2>1, <2>2
  <1> HIDE DEF s
  <1>6. r \in Seq(Attributions) /\ Len(r) <= SourceCap /\ \A j \in DOMAIN r : j \in DOMAIN s /\ r[j] = s[j]
    BY <1>4, CapAssumption
  <1> QED BY <1>1, <1>5, <1>6 DEF e


-----------------------------------------------------------------------------
(* Types. *)

LEMMA WorkTyped ==
    ASSUME StoresTyped, NEW t \in Workers, NEW r \in WorkStates, work' = [work EXCEPT ![t] = r]
    PROVE  work' \in [Workers -> WorkStates]
  BY DEF StoresTyped

LEMMA GotoTyped ==
    ASSUME StoresTyped, NEW t \in Workers, NEW pc \in {"lock", "bloom", "tracker", "forget"}, Goto(t, pc)
    PROVE  work' \in [Workers -> WorkStates]
  BY DEF StoresTyped, Goto, WorkStates

LEMMA StartTyped ==
    ASSUME StoresTyped, NEW t \in Workers, NEW op \in {"confirm", "flag", "auto", "tick"},
           NEW pc \in {"sources", "demote", "lock"}, NEW ih \in Infohashes, NEW pubs \in SUBSET Keys,
           Start(t, op, pc, ih, pubs)
    PROVE  work' \in [Workers -> WorkStates]
  BY DEF StoresTyped, Start, WorkStates

LEMMA IdleTyped == Idle \in WorkStates /\ Idle.ih \in Infohashes
  BY HashesAssumption DEF Idle, WorkStates

LEMMA NoSearchTyped == NoSearch \in SearchStates(NoSearch.hits)
  BY DEF NoSearch, SearchStates

LEMMA ZeroTyped == [k \in Keys |-> Zero] \in [Keys -> Counters]
  BY CapAssumption DEF Zero, Counters

LEMMA SeededTyped ==
    ASSUME NEW recs \in [Keys -> Counters], NEW pks PROVE MarkSeeded(recs, pks) \in [Keys -> Counters]
  BY CapAssumption DEF MarkSeeded, Counters

LEMMA InitType == Init => TypeOK
  <1> SUFFICES ASSUME Init PROVE TypeOK
    OBVIOUS
  <1>1. indexers \in Seq(Indexers) /\ sources \in Seq(Attributions) /\ Len(sources) <= SourceCap
    BY KeysAssumption, CapAssumption DEF Init, RInit, Indexers
  <1>2. records \in [Keys -> Counters]
    BY ZeroTyped, SeededTyped DEF Init, RInit, LoadSeedList
  <1>3. disk \in Files
    BY ZeroTyped, KeysAssumption DEF Init, RInit, Files
  <1>4. work \in [Workers -> WorkStates]
    BY IdleTyped DEF Init, RInit
  <1>5. DOMAIN search = Searchers /\ \A q \in Searchers : search[q] \in SearchStates(search[q].hits)
    BY NoSearchTyped DEF Init, RInit
  <1>6. /\ bloom \in SUBSET (0 .. (BloomM - 1)) /\ trusted \in SUBSET Keys
        /\ loaded \in SUBSET {"bloom", "tracker", "trust"}
        /\ promised \in SUBSET Infohashes /\ operator \in SUBSET Keys
        /\ claims \in SUBSET (Keys \X Infohashes)
    BY KeysAssumption DEF Init, RInit
  <1>7. StoresTyped
    BY <1>1, <1>2, <1>3, <1>4, <1>5, <1>6 DEF StoresTyped
  <1>8. /\ admitted \in SUBSET Keys /\ anchorsAdmitted \in SUBSET admitted /\ observed \in SUBSET Keys
        /\ endorsements \in [Keys -> SUBSET Keys] /\ call \in Calls
    BY KeysAssumption DEF Init, AInit, NoCall, Calls
  <1> QED BY <1>7, <1>8 DEF TypeOK

\* Some indexer is the oldest automatic one.
LEMMA OldestAuto ==
    ASSUME NEW idx \in Seq(Indexers), Autos(idx) # {}
    PROVE  Min(Autos(idx)) \in Autos(idx)
  <1>1. Autos(idx) \subseteq Nat
    BY DEF Autos
  <1>2. IsWellFoundedOn({ss \in Nat \X Nat : ss[1] < ss[2]}, Nat)
    BY NatLessThanWellFounded, Zenon DEF OpToRel
  <1>3. PICK x \in Autos(idx) : \A y \in Autos(idx) : ~(<<y, x>> \in {ss \in Nat \X Nat : ss[1] < ss[2]})
    BY <1>1, <1>2, WFMin
  <1>4. ASSUME NEW y \in Autos(idx) PROVE x <= y
    <2>1. x \in Nat /\ y \in Nat
      BY <1>1
    <2>2. <<y, x>> \in Nat \X Nat /\ <<y, x>>[1] = y /\ <<y, x>>[2] = x
      BY <2>1
    <2>3. ~(y < x)
      BY <1>3, <2>2
    <2> QED BY <2>1, <2>3
  <1> QED BY <1>4 DEF Min


LEMMA EvictFacts ==
    ASSUME StoresTyped
    PROVE  /\ evictOldestAuto(indexers) \in Seq(Indexers)
           /\ \A i \in DOMAIN indexers : ~indexers[i].auto =>
                \E j \in DOMAIN evictOldestAuto(indexers) : evictOldestAuto(indexers)[j] = indexers[i]
  <1>1. indexers \in Seq(Indexers)
    BY DEF StoresTyped
  <1>2. CASE Cardinality(Autos(indexers)) >= MaxAuto
    <2>1. Autos(indexers) # {}
      BY <1>2, FS_EmptySet, CapAssumption
    <2>2. Min(Autos(indexers)) \in DOMAIN indexers /\ indexers[Min(Autos(indexers))].auto
      BY <1>1, <2>1, OldestAuto DEF Autos
    <2>3. evictOldestAuto(indexers) = RemoveAt(indexers, Min(Autos(indexers)))
      BY <1>2 DEF evictOldestAuto
    <2> DEFINE m == Min(Autos(indexers))
    <2> HIDE DEF m
    <2>4. RemoveAt(indexers, m) \in Seq(Indexers)
      BY <1>1, <2>2, RemoveAtFacts DEF m
    <2>5. \A k \in DOMAIN indexers \ {m} : \E j \in DOMAIN RemoveAt(indexers, m) : RemoveAt(indexers, m)[j] = indexers[k]
      BY <1>1, <2>2, RemoveAtElements DEF m
    <2> QED BY <2>2, <2>3, <2>4, <2>5 DEF m
  <1>3. CASE ~(Cardinality(Autos(indexers)) >= MaxAuto)
    BY <1>1, <1>3 DEF evictOldestAuto
  <1> QED BY <1>2, <1>3

LEMMA AddTyped ==
    ASSUME StoresTyped, NEW pk \in Keys, NEW auto \in BOOLEAN
    PROVE  addIndexerLocked(pk, auto) \in Seq(Indexers)
  <1>1. indexers \in Seq(Indexers) /\ evictOldestAuto(indexers) \in Seq(Indexers)
    BY EvictFacts DEF StoresTyped
  <1>2. [pk |-> pk, auto |-> auto] \in Indexers
    BY DEF Indexers
  <1>3. ASSUME NEW i \in DOMAIN indexers PROVE [indexers[i] EXCEPT !.auto = FALSE] \in Indexers
    <2>1. indexers[i] \in Indexers
      BY <1>1
    <2> QED BY <2>1 DEF Indexers
  <1>4. CASE Known(pk)
    <2> DEFINE f == [i \in DOMAIN indexers |->
                       IF indexers[i].pk = pk /\ ~auto THEN [indexers[i] EXCEPT !.auto = FALSE] ELSE indexers[i]]
    <2>1. f \in [1 .. Len(indexers) -> Indexers] /\ Len(indexers) \in Nat
      BY <1>1, <1>3
    <2>2. f \in Seq(Indexers)
      BY <2>1
    <2> QED BY <1>4, <2>2 DEF addIndexerLocked
  <1>5. CASE ~Known(pk)
    <2>1. addIndexerLocked(pk, auto) =
            Append(IF auto THEN evictOldestAuto(indexers) ELSE indexers, [pk |-> pk, auto |-> auto])
      BY <1>5 DEF addIndexerLocked
    <2> QED BY <1>1, <1>2, <2>1
  <1> QED BY <1>4, <1>5

LEMMA RemoveTyped ==
    ASSUME StoresTyped, NEW pk \in Keys, Known(pk)
    PROVE  /\ RemoveAt(indexers, CHOOSE i \in DOMAIN indexers : indexers[i].pk = pk) \in Seq(Indexers)
           /\ (CHOOSE i \in DOMAIN indexers : indexers[i].pk = pk) \in DOMAIN indexers
           /\ indexers[CHOOSE i \in DOMAIN indexers : indexers[i].pk = pk].pk = pk
  <1> DEFINE m == CHOOSE i \in DOMAIN indexers : indexers[i].pk = pk
  <1>1. m \in DOMAIN indexers /\ indexers[m].pk = pk
    BY DEF Known
  <1> HIDE DEF m
  <1>2. indexers \in Seq(Indexers)
    BY DEF StoresTyped
  <1>3. RemoveAt(indexers, m) \in Seq(Indexers)
    BY <1>1, <1>2, RemoveAtFacts
  <1> QED BY <1>1, <1>3 DEF m

LEMMA AskableTyped == ASSUME StoresTyped PROVE Askable \in SUBSET Keys
  <1>1. ASSUME NEW i \in DOMAIN indexers PROVE indexers[i].pk \in Keys
    <2>1. indexers[i] \in Indexers
      BY DEF StoresTyped
    <2> QED BY <2>1 DEF Indexers
  <1> QED BY <1>1 DEF Askable

LEMMA SearchStepTyped ==
    ASSUME StoresTyped, NEW q \in Searchers, NEW s, s \in SearchStates(s.hits),
           search' = [search EXCEPT ![q] = s]
    PROVE  DOMAIN search' = Searchers /\ \A r \in Searchers : search'[r] \in SearchStates(search'[r].hits)
  BY DEF StoresTyped

LEMMA LookupType ==
    ASSUME StoresTyped, LookupNext
    PROVE  StoresTyped'
  <1>1. ASSUME NEW pk \in Keys, AddIndexer(pk) PROVE StoresTyped'
    <2>1. indexers' \in Seq(Indexers) /\ operator' \in SUBSET Keys
      BY <1>1, AddTyped DEF AddIndexer, StoresTyped
    <2> QED BY <1>1, <2>1 DEF AddIndexer, StoresTyped
  <1>2. ASSUME NEW pk \in Keys, NotePublisherSeen(pk) PROVE StoresTyped'
    <2>1. indexers' \in Seq(Indexers)
      BY <1>2, AddTyped DEF NotePublisherSeen
    <2> QED BY <1>2, <2>1 DEF NotePublisherSeen, StoresTyped
  <1>3. ASSUME NEW pk \in Keys, RemoveIndexer(pk) PROVE StoresTyped'
    <2>1. indexers' \in Seq(Indexers) /\ operator' \in SUBSET Keys
      BY <1>3, RemoveTyped DEF RemoveIndexer, StoresTyped
    <2> QED BY <1>3, <2>1 DEF RemoveIndexer, StoresTyped
  <1> DEFINE SearchTyped == DOMAIN search = Searchers /\ \A q \in Searchers : search[q] \in SearchStates(search[q].hits)
  <1>4. ASSUME NEW q \in Searchers, QueryBegin(q) PROVE StoresTyped'
    <2>1. Askable \in SUBSET Keys
      BY AskableTyped
    <2>2. [NoSearch EXCEPT !.pc = "collect", !.asked = Askable] \in SearchStates(NoSearch.hits)
      BY <2>1, NoSearchTyped DEF SearchStates
    <2>3. [NoSearch EXCEPT !.pc = "collect", !.asked = Askable].hits = NoSearch.hits
      BY NoSearchTyped DEF SearchStates
    <2>4. SearchTyped'
      BY <1>4, <2>2, <2>3, SearchStepTyped DEF QueryBegin
    <2> QED BY <1>4, <2>4 DEF QueryBegin, StoresTyped
  <1>5. ASSUME NEW q \in Searchers, QueryMerge(q) PROVE StoresTyped'
    <2>1. \E pc \in {"idle", "record"} : \E hits : search' = [search EXCEPT ![q].pc = pc, ![q].hits = hits]
      BY <1>5 DEF QueryMerge
    <2>0. PICK pc \in {"idle", "record"} : \E hits : search' = [search EXCEPT ![q].pc = pc, ![q].hits = hits]
      BY <2>1
    <2>2. PICK hits : search' = [search EXCEPT ![q].pc = pc, ![q].hits = hits]
      BY <2>0
    <2>3. search' = [search EXCEPT ![q] = [search[q] EXCEPT !.pc = pc, !.hits = hits]]
      BY <2>2 DEF StoresTyped, SearchStates
    <2>4. [search[q] EXCEPT !.pc = pc, !.hits = hits] \in SearchStates(hits)
      BY DEF StoresTyped, SearchStates
    <2>5. [search[q] EXCEPT !.pc = pc, !.hits = hits].hits = hits
      BY DEF StoresTyped, SearchStates
    <2>6. SearchTyped'
      BY <2>3, <2>4, <2>5, SearchStepTyped
    <2> QED BY <1>5, <2>6 DEF QueryMerge, StoresTyped
  <1>6. ASSUME NEW q \in Searchers, NEW pk \in Keys, QueryResult(q, pk) PROVE StoresTyped'
    <2>1. CASE search' = [search EXCEPT ![q].answered = @ \cup {pk}] /\ UNCHANGED <<records, claims>>
      <3>1. SearchTyped'
        BY <2>1 DEF StoresTyped, SearchStates
      <3> QED BY <1>6, <2>1, <3>1 DEF QueryResult, StoresTyped
    <2>2. ASSUME NEW ans \in Answers,
                 records' = IF "tracker" \in loaded THEN RecordReturned(pk, Len(ans)) ELSE records,
                 search' = [search EXCEPT
                   ![q].answered = @ \cup {pk},
                   ![q].from = AddSource(@, pk, ans),
                   ![q].known = @ \cup {i \in Range(ans) : "bloom" \in loaded /\ BloomTest(i)}],
                 claims' = claims \cup ({pk} \X Range(ans))
          PROVE  StoresTyped'
      <3>1. ans \in Seq(Infohashes) /\ Len(ans) \in Nat
        BY HashesAssumption
      <3>2. Range(ans) \in SUBSET Infohashes
        BY <3>1 DEF Range
      <3>3. records' \in [Keys -> Counters]
        <4>1. records \in [Keys -> Counters]
          BY DEF StoresTyped
        <4>2. [records[pk] EXCEPT !.returned = @ + Len(ans)] \in Counters
          <5>1. records[pk] \in Counters
            BY <4>1
          <5>2. records[pk].returned + Len(ans) \in Nat
            BY <3>1, <5>1 DEF Counters
          <5> QED BY <5>1, <5>2 DEF Counters
        <4>3. RecordReturned(pk, Len(ans)) = [records EXCEPT ![pk] = [records[pk] EXCEPT !.returned = @ + Len(ans)]]
          BY <4>1 DEF RecordReturned, Counters
        <4> QED BY <2>2, <4>1, <4>2, <4>3
      <3>4. claims' \in SUBSET (Keys \X Infohashes)
        BY <2>2, <3>2 DEF StoresTyped
      <3>5. search[q].from \in [Infohashes -> Seq(Keys)] /\ search[q].known \in SUBSET Infohashes
        BY DEF StoresTyped, SearchStates
      <3>6. AddSource(search[q].from, pk, ans) \in [Infohashes -> Seq(Keys)]
        BY <3>5 DEF AddSource
      <3>7. search[q].known \cup {i \in Range(ans) : "bloom" \in loaded /\ BloomTest(i)} \in SUBSET Infohashes
        BY <3>2, <3>5
      <3>8. PICK F \in [Infohashes -> Seq(Keys)], K \in SUBSET Infohashes :
               search' = [search EXCEPT ![q].answered = @ \cup {pk}, ![q].from = F, ![q].known = K]
        BY <2>2, <3>6, <3>7
      <3>9. SearchTyped'
        <4> DEFINE s == [search[q] EXCEPT !.answered = @ \cup {pk}, !.from = F, !.known = K]
        <4>1. search' = [search EXCEPT ![q] = s]
          BY <3>8 DEF StoresTyped, SearchStates
        <4>2. s \in SearchStates(search[q].hits) /\ s.hits = search[q].hits
          BY DEF StoresTyped, SearchStates
        <4> QED BY <4>1, <4>2, SearchStepTyped
      <3> QED BY <1>6, <3>3, <3>4, <3>9 DEF QueryResult, StoresTyped
    <2> QED BY <1>6, <2>1, <2>2 DEF QueryResult
  <1>7. ASSUME NEW q \in Searchers, NEW ih \in Infohashes, QueryRecord(q, ih) PROVE StoresTyped'
    <2>1. search[q].from \in [Infohashes -> Seq(Keys)]
      BY DEF StoresTyped, SearchStates
    <2>2. Range(search[q].from[ih]) \in SUBSET Keys
      BY <2>1 DEF Range
    <2>3. sources' \in Seq(Attributions) /\ Len(sources') <= SourceCap
      BY <1>7, <2>2, RecordManyFacts DEF QueryRecord
    <2>4. [search[q].from EXCEPT ![ih] = <<>>] \in [Infohashes -> Seq(Keys)]
      BY <2>1
    <2>5. \/ search' = [search EXCEPT ![q] = NoSearch]
          \/ search' = [search EXCEPT ![q] = [@ EXCEPT !.from = [search[q].from EXCEPT ![ih] = <<>>]]]
      BY <1>7 DEF QueryRecord
    <2>6. SearchTyped'
      <3> DEFINE s == [search[q] EXCEPT !.from = [search[q].from EXCEPT ![ih] = <<>>]]
      <3>1. s \in SearchStates(search[q].hits) /\ s.hits = search[q].hits
        BY <2>4 DEF StoresTyped, SearchStates
      <3> QED BY <2>5, <3>1, NoSearchTyped, SearchStepTyped
    <2> QED BY <1>7, <2>3, <2>6 DEF QueryRecord, StoresTyped
  <1> QED BY <1>1, <1>2, <1>3, <1>4, <1>5, <1>6, <1>7 DEF LookupNext


\* A store of counters after one of them was changed in every record of a set of keys.
LEMMA RecordsTyped ==
    ASSUME StoresTyped, NEW pks
    PROVE  RecordConfirmed(pks) \in [Keys -> Counters] /\ RecordFlagged(pks) \in [Keys -> Counters]
  <1>1. ASSUME NEW k \in Keys PROVE /\ [records[k] EXCEPT !.confirmed = @ + 1] \in Counters
                                    /\ [records[k] EXCEPT !.flagged = @ + 1] \in Counters
                                    /\ records[k] \in Counters
    <2>1. records[k] \in Counters
      BY DEF StoresTyped
    <2>2. records[k].confirmed + 1 \in Nat /\ records[k].flagged + 1 \in Nat
      BY <2>1 DEF Counters
    <2> QED BY <2>1, <2>2 DEF Counters
  <1> QED BY <1>1 DEF RecordConfirmed, RecordFlagged

LEMMA DiskTyped ==
    ASSUME StoresTyped
    PROVE  /\ [disk EXCEPT !.bloom = bloom] \in Files /\ [disk EXCEPT !.records = records] \in Files
           /\ \A entries \in SUBSET Keys : [disk EXCEPT !.trust = entries] \in Files
           /\ disk.bloom \in SUBSET (0 .. (BloomM - 1)) /\ disk.records \in [Keys -> Counters]
           /\ disk.trust \in SUBSET Keys
  BY DEF StoresTyped, Files

LEMMA FeedbackType ==
    ASSUME StoresTyped, FeedbackNext
    PROVE  StoresTyped'
  <1>1. ASSUME NEW t \in Workers, NEW ih \in Infohashes, ConfirmHit(t, ih) \/ Completed(t, ih) PROVE StoresTyped'
    <2>1. bloom' \in SUBSET (0 .. (BloomM - 1))
      BY <1>1, IndicesTyped DEF ConfirmHit, Completed, BloomAdd, StoresTyped
    <2>2. work' \in [Workers -> WorkStates]
      BY <1>1, StartTyped DEF ConfirmHit, Completed
    <2> QED BY <1>1, <2>1, <2>2 DEF ConfirmHit, Completed, StoresTyped
  <1>2. ASSUME NEW t \in Workers, NEW ih \in Infohashes, FlagHit(t, ih) PROVE StoresTyped'
    <2>1. sources' \in Seq(Attributions) /\ Len(sources') <= SourceCap
      BY <1>2, TouchedFacts DEF FlagHit
    <2>2. work' \in [Workers -> WorkStates]
      BY <1>2, StartTyped, SourcesTyped DEF FlagHit
    <2> QED BY <1>2, <2>1, <2>2 DEF FlagHit, StoresTyped
  <1>3. ASSUME NEW t \in Workers, ConfirmSources(t) PROVE StoresTyped'
    <2>1. work[t] \in WorkStates /\ work[t].ih \in Infohashes
      BY DEF StoresTyped, WorkStates
    <2>2. sources' \in Seq(Attributions) /\ Len(sources') <= SourceCap
      BY <1>3, <2>1, TouchedFacts DEF ConfirmSources
    <2>3. Sources(work[t].ih) \in SUBSET Keys
      BY <2>1, SourcesTyped
    <2>4. work' \in [Workers -> WorkStates]
      <3>1. PICK pc \in {"lock", "boost"} : work' = [work EXCEPT ![t].pubs = Sources(work[t].ih), ![t].pc = pc]
        BY <1>3 DEF ConfirmSources
      <3>2. work' = [work EXCEPT ![t] = [work[t] EXCEPT !.pubs = Sources(work[t].ih), !.pc = pc]]
        BY <3>1 DEF StoresTyped, WorkStates
      <3>3. [work[t] EXCEPT !.pubs = Sources(work[t].ih), !.pc = pc] \in WorkStates
        BY <2>1, <2>3 DEF WorkStates
      <3> QED BY <3>2, <3>3, WorkTyped
    <2> QED BY <1>3, <2>2, <2>4 DEF ConfirmSources, StoresTyped
  <1>4. ASSUME NEW t \in Workers, ConfirmBoost(t) \/ FlagDemote(t) PROVE StoresTyped'
    <2>1. records' \in [Keys -> Counters] /\ work' \in [Workers -> WorkStates]
      BY <1>4, RecordsTyped, GotoTyped DEF ConfirmBoost, FlagDemote
    <2> QED BY <1>4, <2>1 DEF ConfirmBoost, FlagDemote, StoresTyped
  <1>5. ASSUME NEW t \in Workers, FlagForget(t) PROVE StoresTyped'
    <2>1. work[t].ih \in Infohashes
      BY DEF StoresTyped, WorkStates
    <2>2. sources' \in Seq(Attributions) /\ Len(sources') <= Len(sources)
      <3>1. sources' = Without(work[t].ih)
        BY <1>5 DEF FlagForget, Forget
      <3>2. Len(sources) \in Nat
        BY DEF StoresTyped
      <3> QED BY <2>1, <3>1, <3>2, WithoutFacts
    <2>3. Len(sources') <= SourceCap
      BY <2>2, CapAssumption DEF StoresTyped
    <2>4. work' \in [Workers -> WorkStates]
      BY <1>5, GotoTyped DEF FlagForget
    <2> QED BY <1>5, <2>2, <2>3, <2>4 DEF FlagForget, StoresTyped
  <1>6. ASSUME NEW t \in Workers, Tick(t) PROVE StoresTyped'
    <2>1. work' \in [Workers -> WorkStates]
      BY <1>6, StartTyped, IdleTyped DEF Tick
    <2> QED BY <1>6, <2>1 DEF Tick, StoresTyped
  <1>7. ASSUME NEW t \in Workers, Checkpoint(t) PROVE StoresTyped'
    <2>1. work' \in [Workers -> WorkStates]
      BY <1>7, GotoTyped DEF Checkpoint
    <2> QED BY <1>7, <2>1 DEF Checkpoint, StoresTyped
  <1>8. ASSUME NEW t \in Workers, SaveBloom(t) PROVE StoresTyped'
    <2>1. disk' \in Files
      BY <1>8, DiskTyped DEF SaveBloom, StoresTyped
    <2>2. work' \in [Workers -> WorkStates]
      <3>1. CASE work' = [work EXCEPT ![t].pc = "tracker", ![t].saved = TRUE]
        <4>1. work' = [work EXCEPT ![t] = [work[t] EXCEPT !.pc = "tracker", !.saved = TRUE]]
          BY <3>1 DEF StoresTyped, WorkStates
        <4>2. [work[t] EXCEPT !.pc = "tracker", !.saved = TRUE] \in WorkStates
          BY DEF StoresTyped, WorkStates
        <4> QED BY <4>1, <4>2, WorkTyped
      <3> QED BY <1>8, <3>1, GotoTyped DEF SaveBloom
    <2> QED BY <1>8, <2>1, <2>2 DEF SaveBloom, StoresTyped
  <1>9. ASSUME NEW t \in Workers, SaveTracker(t) PROVE StoresTyped'
    <2>1. disk' \in Files
      BY <1>9, DiskTyped DEF SaveTracker, StoresTyped
    <2>2. work' \in [Workers -> WorkStates]
      BY <1>9, WorkTyped, IdleTyped DEF SaveTracker
    <2>3. promised' \in SUBSET Infohashes
      BY <1>9 DEF SaveTracker, StoresTyped, WorkStates
    <2> QED BY <1>9, <2>1, <2>2, <2>3 DEF SaveTracker, StoresTyped
  <1>10. CASE SeedsAge
    <2>1. ASSUME NEW k \in Keys, records[k].seeded \in 0 .. (MaxAge - 1)
          PROVE  [records[k] EXCEPT !.seeded = @ + 1] \in Counters
      <3>1. records[k].seeded + 1 \in -1 .. MaxAge /\ records[k] \in Counters
        BY <2>1, CapAssumption DEF StoresTyped
      <3> QED BY <3>1 DEF Counters
    <2>2. records' \in [Keys -> Counters]
      BY <1>10, <2>1 DEF SeedsAge, StoresTyped
    <2> QED BY <1>10, <2>2 DEF SeedsAge, StoresTyped
  <1>11. ASSUME NEW pk \in Keys, EditTrust(pk) PROVE StoresTyped'
    <2>1. disk' \in Files
      BY <1>11, DiskTyped DEF EditTrust, saveTrust
    <2> QED BY <1>11, <2>1 DEF EditTrust, StoresTyped
  <1> QED BY <1>1, <1>2, <1>3, <1>4, <1>5, <1>6, <1>7, <1>8, <1>9, <1>10, <1>11
          DEF FeedbackNext, trustedPublisherAutoConfirm

LEMMA RestartType ==
    ASSUME StoresTyped, NEW files \in SUBSET {"bloom", "tracker", "trust"}, Restart(files)
    PROVE  StoresTyped'
  <1>1. indexers' \in Seq(Indexers) /\ operator' \in SUBSET Keys /\ sources' \in Seq(Attributions) /\ Len(sources') <= SourceCap
    BY KeysAssumption, CapAssumption DEF Restart, loadSpamResistance, Indexers
  <1>2. records' \in [Keys -> Counters]
    BY DiskTyped, ZeroTyped, SeededTyped DEF Restart, loadSpamResistance, LoadTracker, LoadSeedList
  <1>3. bloom' \in SUBSET (0 .. (BloomM - 1)) /\ trusted' \in SUBSET Keys
    BY DiskTyped DEF Restart, loadSpamResistance, LoadBloom, LoadTrust
  <1>4. work' \in [Workers -> WorkStates]
    BY IdleTyped DEF Restart
  <1>5. DOMAIN search' = Searchers /\ \A q \in Searchers : search'[q] \in SearchStates(search'[q].hits)
    BY NoSearchTyped DEF Restart
  <1>6. loaded' = files /\ UNCHANGED <<disk, promised, claims>>
    BY DEF Restart, loadSpamResistance
  <1> QED BY <1>1, <1>2, <1>3, <1>4, <1>5, <1>6 DEF StoresTyped

LEMMA TypeStep == TypeOK /\ [Next]_vars => TypeOK'
  <1> SUFFICES ASSUME TypeOK, [Next]_vars PROVE TypeOK'
    OBVIOUS
  <1> DEFINE AdmissionTyped ==
               /\ admitted \in SUBSET Keys /\ anchorsAdmitted \in SUBSET admitted /\ observed \in SUBSET Keys
               /\ endorsements \in [Keys -> SUBSET Keys] /\ call \in Calls
  <1>0. StoresTyped /\ AdmissionTyped
    BY DEF TypeOK
  <1>1. CASE (LookupNext \/ FeedbackNext) /\ UNCHANGED avars
    <2>1. StoresTyped'
      BY <1>0, <1>1, LookupType, FeedbackType
    <2> QED BY <1>0, <1>1, <2>1 DEF TypeOK, avars
  <1>2. CASE AdmissionNext /\ UNCHANGED AllButLeft
    <2>1. StoresTyped'
      BY <1>0, <1>2 DEF AllButLeft, StoresTyped
    <2>2. NoCall \in Calls
      BY KeysAssumption DEF NoCall, Calls
    <2>3. AdmissionTyped'
      BY <1>0, <1>2, <2>2 DEF AdmissionNext, CandidateFromCrawl, AdmitAnchor, IngestEndorsement, Calls
    <2> QED BY <2>1, <2>3 DEF TypeOK
  <1>3. CASE admit /\ UNCHANGED rvars
    <2>1. StoresTyped'
      BY <1>0, <1>3 DEF rvars, StoresTyped
    <2>2. NoCall \in Calls /\ call.pub \in Keys /\ [call EXCEPT !.src = "seed"] \in Calls
      BY <1>0, KeysAssumption DEF NoCall, Calls
    <2>3. AdmissionTyped'
      BY <1>0, <1>3, <2>2 DEF admit
    <2> QED BY <2>1, <2>3 DEF TypeOK
  <1>4. CASE SeedAnchor
    <2>1. records' \in [Keys -> Counters]
      BY <1>0, <1>4, SeededTyped DEF SeedAnchor, StoresTyped
    <2>2. StoresTyped'
      BY <1>0, <1>4, <2>1 DEF SeedAnchor, StoresTyped
    <2>3. AdmissionTyped'
      BY <1>0, <1>4, KeysAssumption DEF SeedAnchor, NoCall, Calls
    <2> QED BY <2>2, <2>3 DEF TypeOK
  <1>5. ASSUME NEW files \in SUBSET {"bloom", "tracker", "trust"}, Restart(files) /\ NewEngine PROVE TypeOK'
    <2>1. StoresTyped'
      BY <1>0, <1>5, RestartType
    <2>2. AdmissionTyped'
      BY <1>5, KeysAssumption DEF NewEngine, NoCall, Calls
    <2> QED BY <2>1, <2>2 DEF TypeOK
  <1>6. CASE UNCHANGED vars
    BY <1>0, <1>6 DEF vars, rvars, avars, StoresTyped, TypeOK
  <1> QED BY <1>1, <1>2, <1>3, <1>4, <1>5, <1>6 DEF Next


-----------------------------------------------------------------------------
(* What a worker's step does to the workers, field by field. *)

OthersWork(t) == \A r \in Workers \ {t} : work'[r] = work[r]

LEMMA GotoMoves ==
    ASSUME StoresTyped, NEW t \in Workers, NEW pc, Goto(t, pc)
    PROVE  /\ work'[t].pc = pc /\ work'[t].op = work[t].op /\ work'[t].ih = work[t].ih
           /\ work'[t].pubs = work[t].pubs /\ work'[t].saved = work[t].saved /\ OthersWork(t)
  BY DEF StoresTyped, WorkStates, Goto, OthersWork

LEMMA StartMoves ==
    ASSUME StoresTyped, NEW t \in Workers, NEW op, NEW pc, NEW ih, NEW pubs, Start(t, op, pc, ih, pubs)
    PROVE  /\ work'[t].pc = pc /\ work'[t].op = op /\ work'[t].ih = ih
           /\ work'[t].pubs = pubs /\ work'[t].saved = FALSE /\ OthersWork(t)
  BY DEF StoresTyped, WorkStates, Start, OthersWork

LEMMA AttributedMoves ==
    ASSUME StoresTyped, NEW t \in Workers, ConfirmSources(t)
    PROVE  /\ work'[t].pc \in {"lock", "boost"} /\ work'[t].op = work[t].op /\ work'[t].ih = work[t].ih
           /\ work'[t].saved = work[t].saved /\ OthersWork(t)
  <1>1. PICK pc \in {"lock", "boost"} : \E pubs : work' = [work EXCEPT ![t].pubs = pubs, ![t].pc = pc]
    BY DEF ConfirmSources
  <1>2. PICK pubs : work' = [work EXCEPT ![t].pubs = pubs, ![t].pc = pc]
    BY <1>1
  <1> QED BY <1>2 DEF StoresTyped, WorkStates, OthersWork

-----------------------------------------------------------------------------
(* Known good on disk: the filter in memory contains the file's, a worker that confirms has set *)
(* its bits, and one that saved them has them in the file.                                      *)

Durable ==
    /\ "bloom" \in loaded => disk.bloom \subseteq bloom
    /\ \A t \in Workers : work[t].op \in {"confirm", "auto"} =>
         /\ "bloom" \in loaded /\ indices(work[t].ih) \subseteq bloom
         /\ work[t].saved => indices(work[t].ih) \subseteq disk.bloom
    /\ ConfirmedDurable

LEMMA InitDurable == Init => Durable
  <1> SUFFICES ASSUME Init PROVE Durable
    OBVIOUS
  <1>1. disk.bloom = {} /\ promised = {} /\ \A t \in Workers : work[t].op = "none"
    BY DEF Init, RInit, Idle
  <1> QED BY <1>1 DEF Durable, ConfirmedDurable

\* A step that leaves the filter, its file and the confirming workers alone.
LEMMA DurableKept ==
    ASSUME Durable, UNCHANGED <<bloom, loaded, promised>>, disk'.bloom = disk.bloom,
           \A t \in Workers : work'[t].op \in {"confirm", "auto"} =>
               work'[t].op = work[t].op /\ work'[t].ih = work[t].ih /\ work'[t].saved = work[t].saved
    PROVE  Durable'
  BY DEF Durable, ConfirmedDurable, indices, oddStride

LEMMA DurableStep == TypeOK /\ Durable /\ [Next]_vars => Durable'
  <1> SUFFICES ASSUME TypeOK, StoresTyped, Durable, [Next]_vars PROVE Durable'
    BY DEF TypeOK
  <1>1. CASE UNCHANGED <<bloom, loaded, promised, disk, work>>
    BY <1>1, DurableKept
  <1>2. ASSUME NEW t \in Workers, NEW ih \in Infohashes, ConfirmHit(t, ih) \/ Completed(t, ih) PROVE Durable'
    <2>1. /\ "bloom" \in loaded /\ bloom' = bloom \cup indices(ih) /\ UNCHANGED <<loaded, disk, promised>>
          /\ work'[t].ih = ih /\ work'[t].saved = FALSE /\ OthersWork(t)
      BY <1>2, StartMoves DEF ConfirmHit, Completed, BloomAdd
    <2> QED BY <2>1 DEF Durable, ConfirmedDurable, OthersWork, indices, oddStride
  <1>3. ASSUME NEW t \in Workers,
               \/ \E ih \in Infohashes : FlagHit(t, ih)
               \/ ConfirmSources(t) \/ ConfirmBoost(t) \/ FlagDemote(t) \/ FlagForget(t)
               \/ Tick(t) \/ Checkpoint(t)
        PROVE  Durable'
    <2>1. UNCHANGED <<bloom, loaded, promised, disk>>
      BY <1>3 DEF FlagHit, ConfirmSources, ConfirmBoost, FlagDemote, FlagForget, Tick, Checkpoint
    <2>2. /\ OthersWork(t)
          /\ \/ work'[t].op \in {"flag", "tick"}
             \/ work'[t].op = work[t].op /\ work'[t].ih = work[t].ih /\ work'[t].saved = work[t].saved
      BY <1>3, GotoMoves, StartMoves, AttributedMoves
         DEF FlagHit, ConfirmBoost, FlagDemote, FlagForget, Tick, Checkpoint
    <2> QED BY <2>1, <2>2, DurableKept DEF OthersWork
  <1>4. ASSUME NEW t \in Workers, SaveBloom(t) PROVE Durable'
    <2>1. UNCHANGED <<bloom, loaded, promised>>
      BY <1>4 DEF SaveBloom
    <2>2. CASE Goto(t, "tracker") /\ UNCHANGED disk
      BY <2>1, <2>2, GotoMoves, DurableKept DEF OthersWork
    <2>3. CASE /\ "bloom" \in loaded /\ disk' = [disk EXCEPT !.bloom = bloom]
               /\ work' = [work EXCEPT ![t].pc = "tracker", ![t].saved = TRUE]
      <3>1. disk'.bloom = bloom
        BY <2>3 DEF StoresTyped, Files
      <3>2. work'[t].op = work[t].op /\ work'[t].ih = work[t].ih /\ OthersWork(t)
        BY <2>3 DEF StoresTyped, WorkStates, OthersWork
      <3>3. disk.bloom \subseteq bloom
        BY <2>3 DEF Durable
      <3>4. ConfirmedDurable'
        BY <2>1, <3>1, <3>3 DEF Durable, ConfirmedDurable, indices, oddStride
      <3>5. ASSUME NEW r \in Workers, work'[r].op \in {"confirm", "auto"}
            PROVE  indices(work'[r].ih) \subseteq bloom
        BY <3>2, <3>5 DEF Durable, OthersWork
      <3> QED BY <2>1, <2>3, <3>1, <3>4, <3>5 DEF Durable, indices, oddStride
    <2> QED BY <1>4, <2>2, <2>3 DEF SaveBloom, SavesBloom
  <1>5. ASSUME NEW t \in Workers, SaveTracker(t) PROVE Durable'
    <2>1. UNCHANGED <<bloom, loaded>> /\ work'[t].op = "none" /\ OthersWork(t)
      BY <1>5 DEF SaveTracker, StoresTyped, WorkStates, OthersWork, Idle
    <2>2. disk'.bloom = disk.bloom
      BY <1>5 DEF SaveTracker, StoresTyped, Files
    <2>3. \A ih \in promised' : ih \in promised \/ indices(ih) \subseteq disk.bloom
      BY <1>5 DEF SaveTracker, Durable
    <2> QED BY <2>1, <2>2, <2>3 DEF Durable, ConfirmedDurable, OthersWork, indices, oddStride
  <1>6. ASSUME NEW pk \in Keys, EditTrust(pk) PROVE Durable'
    <2>1. disk'.bloom = disk.bloom /\ UNCHANGED <<bloom, loaded, promised, work>>
      BY <1>6 DEF EditTrust, saveTrust, StoresTyped, Files
    <2> QED BY <2>1, DurableKept
  <1>7. ASSUME NEW files \in SUBSET {"bloom", "tracker", "trust"}, Restart(files) PROVE Durable'
    <2>1. UNCHANGED <<disk, promised>> /\ \A t \in Workers : work'[t].op = "none"
      BY <1>7 DEF Restart, Idle
    <2>2. "bloom" \in loaded' => bloom' = disk.bloom
      BY <1>7 DEF Restart, loadSpamResistance, LoadBloom
    <2> QED BY <2>1, <2>2 DEF Durable, ConfirmedDurable, indices, oddStride
  <1>8. CASE LookupNext
    BY <1>1, <1>8 DEF LookupNext, AddIndexer, NotePublisherSeen, RemoveIndexer, QueryBegin, QueryMerge, QueryResult, QueryRecord
  <1>9. CASE FeedbackNext
    <2>1. CASE SeedsAge
      BY <1>1, <2>1 DEF SeedsAge
    <2> QED BY <1>2, <1>3, <1>4, <1>5, <1>6, <1>9, <2>1 DEF FeedbackNext, trustedPublisherAutoConfirm
  <1>10. CASE UNCHANGED rvars \/ UNCHANGED AllButLeft \/ SeedAnchor
    BY <1>1, <1>10 DEF rvars, AllButLeft, SeedAnchor
  <1> QED BY <1>7, <1>8, <1>9, <1>10 DEF Next, vars


-----------------------------------------------------------------------------
(* Who is docked: attribution, in the list, in a search that has still to record it and in a     *)
(* flag that has still to demote, names only indexers that returned the infohash; and a flag     *)
(* runs only in a process that holds the trust list.                                             *)

Claimed(pks, ih) == \A pk \in pks : <<pk, ih>> \in claims
Docked(recs) ==
    \A pk \in Keys : recs[pk].flagged > 0 => pk \notin AlwaysTrusted /\ \E ih \in Infohashes : <<pk, ih>> \in claims

AttributionSound ==
    /\ \A i \in DOMAIN sources : Claimed(sources[i].pubs, sources[i].ih)
    /\ \A q \in Searchers, ih \in Infohashes : Claimed(Range(search[q].from[ih]), ih)
    /\ \A t \in Workers : work[t].pc = "demote" => "trust" \in loaded /\ Claimed(work[t].pubs, work[t].ih)
TrustHeld == AlwaysTrusted \subseteq disk.trust /\ ("trust" \in loaded => AlwaysTrusted \subseteq trusted)
DocksSound == AttributionSound /\ TrustHeld /\ Docked(records) /\ Docked(disk.records)

LEMMA SourcesClaimed ==
    ASSUME StoresTyped, AttributionSound, NEW ih \in Infohashes PROVE Claimed(Sources(ih), ih)
  BY DEF AttributionSound, Sources, Entry, Claimed

\* A step that adds claims, moves attribution about and leaves the rest alone.
LEMMA DocksKept ==
    ASSUME DocksSound, claims \subseteq claims', UNCHANGED <<trusted, loaded>>,
           disk'.trust = disk.trust, disk'.records = disk.records \/ disk'.records = records,
           \A k \in Keys : records'[k].flagged = records[k].flagged,
           AttributionSound'
    PROVE  DocksSound'
  <1>1. TrustHeld'
    BY DEF DocksSound, TrustHeld
  <1>2. Docked(records)' /\ Docked(disk.records)'
    BY DEF DocksSound, Docked
  <1> QED BY <1>1, <1>2 DEF DocksSound

LEMMA InitDocks == Init => DocksSound
  <1> SUFFICES ASSUME Init PROVE DocksSound
    OBVIOUS
  <1>1. \A k \in Keys : records[k].flagged = 0 /\ disk.records[k].flagged = 0
    BY DEF Init, RInit, LoadSeedList, MarkSeeded, Zero
  <1>2. \A q \in Searchers, ih \in Infohashes : search[q].from[ih] = <<>>
    BY DEF Init, RInit, NoSearch
  <1>3. \A t \in Workers : work[t].pc = "idle"
    BY DEF Init, RInit, Idle
  <1>4. sources = <<>> /\ trusted = AlwaysTrusted /\ disk.trust = AlwaysTrusted
    BY DEF Init, RInit
  <1>5. AttributionSound
    BY <1>2, <1>3, <1>4 DEF AttributionSound, Claimed, Range
  <1> QED BY <1>1, <1>4, <1>5 DEF DocksSound, TrustHeld, Docked

LEMMA DocksLookup ==
    ASSUME StoresTyped, DocksSound, LookupNext
    PROVE  DocksSound'
  <1>1. CASE UNCHANGED <<records, sources, trusted, loaded, disk, work, search, claims>>
    <2>1. AttributionSound'
      BY <1>1 DEF DocksSound, AttributionSound, Claimed
    <2> QED BY <1>1, <2>1, DocksKept
  <1>2. ASSUME NEW q \in Searchers, QueryBegin(q) PROVE DocksSound'
    <2>1. /\ \A ih \in Infohashes : search'[q].from[ih] = <<>>
          /\ \A r \in Searchers \ {q} : search'[r] = search[r]
      BY <1>2 DEF QueryBegin, StoresTyped, NoSearch
    <2>2. UNCHANGED <<records, sources, trusted, loaded, disk, work, claims>>
      BY <1>2 DEF QueryBegin
    <2>3. AttributionSound'
      BY <2>1, <2>2 DEF DocksSound, AttributionSound, Claimed, Range
    <2> QED BY <2>2, <2>3, DocksKept
  <1>3. ASSUME NEW q \in Searchers, QueryMerge(q) PROVE DocksSound'
    <2>1. PICK pc, hits : search' = [search EXCEPT ![q].pc = pc, ![q].hits = hits]
      BY <1>3 DEF QueryMerge
    <2>2. search'[q].from = search[q].from /\ \A r \in Searchers \ {q} : search'[r] = search[r]
      BY <2>1 DEF StoresTyped, SearchStates
    <2>3. UNCHANGED <<records, sources, trusted, loaded, disk, work, claims>>
      BY <1>3 DEF QueryMerge
    <2>4. AttributionSound'
      BY <2>2, <2>3 DEF DocksSound, AttributionSound, Claimed
    <2> QED BY <2>3, <2>4, DocksKept
  <1>4. ASSUME NEW q \in Searchers, NEW pk \in Keys, QueryResult(q, pk) PROVE DocksSound'
    <2>1. UNCHANGED <<sources, trusted, loaded, disk, work>>
      BY <1>4 DEF QueryResult
    <2>2. CASE search' = [search EXCEPT ![q].answered = @ \cup {pk}] /\ UNCHANGED <<records, claims>>
      <3>1. search'[q].from = search[q].from /\ \A r \in Searchers \ {q} : search'[r] = search[r]
        BY <2>2 DEF StoresTyped, SearchStates
      <3>2. AttributionSound'
        BY <2>1, <2>2, <3>1 DEF DocksSound, AttributionSound, Claimed
      <3> QED BY <2>1, <2>2, <3>2, DocksKept
    <2>3. ASSUME NEW ans \in Answers,
                 records' = IF "tracker" \in loaded THEN RecordReturned(pk, Len(ans)) ELSE records,
                 search' = [search EXCEPT
                   ![q].answered = @ \cup {pk},
                   ![q].from = AddSource(@, pk, ans),
                   ![q].known = @ \cup {i \in Range(ans) : "bloom" \in loaded /\ BloomTest(i)}],
                 claims' = claims \cup ({pk} \X Range(ans))
          PROVE  DocksSound'
      <3>1. /\ search'[q].from = AddSource(search[q].from, pk, ans)
            /\ \A r \in Searchers \ {q} : search'[r] = search[r]
        BY <2>3 DEF StoresTyped, SearchStates
      <3>2. search[q].from \in [Infohashes -> Seq(Keys)]
        BY DEF StoresTyped, SearchStates
      <3>3. ASSUME NEW ih \in Infohashes PROVE Claimed(Range(search[q].from[ih]), ih)'
        <4>1. CASE ih \in Range(ans)
          <5>1. search'[q].from[ih] = Append(search[q].from[ih], pk)
            BY <3>1, <4>1 DEF AddSource
          <5>2. \A k \in Range(search'[q].from[ih]) : k = pk \/ k \in Range(search[q].from[ih])
            BY <3>2, <5>1 DEF Range
          <5>3. <<pk, ih>> \in claims'
            BY <2>3, <4>1
          <5> QED BY <2>3, <5>2, <5>3 DEF Claimed, DocksSound, AttributionSound
        <4>2. CASE ih \notin Range(ans)
          BY <2>3, <3>1, <4>2 DEF AddSource, Claimed, DocksSound, AttributionSound
        <4> QED BY <4>1, <4>2
      <3>4. claims \subseteq claims'
        BY <2>3
      <3>5. AttributionSound'
        BY <2>1, <3>1, <3>3, <3>4 DEF DocksSound, AttributionSound, Claimed
      <3>6. \A k \in Keys : records'[k].flagged = records[k].flagged
        BY <2>3 DEF RecordReturned, StoresTyped, Counters
      <3> QED BY <2>1, <3>4, <3>5, <3>6, DocksKept
    <2> QED BY <1>4, <2>2, <2>3 DEF QueryResult
  <1>5. ASSUME NEW q \in Searchers, NEW ih \in Infohashes, QueryRecord(q, ih) PROVE DocksSound'
    <2>1. UNCHANGED <<records, trusted, loaded, disk, work, claims>>
      BY <1>5 DEF QueryRecord
    <2>2. Claimed(Sources(ih) \cup Range(search[q].from[ih]), ih)
      BY SourcesClaimed DEF DocksSound, AttributionSound, Claimed
    <2>3. search[q].from \in [Infohashes -> Seq(Keys)]
      BY DEF StoresTyped, SearchStates
    <2>4. Range(search[q].from[ih]) \in SUBSET Keys
      BY <2>3 DEF Range
    <2>5. \A j \in DOMAIN sources' :
            \/ sources'[j] = [ih |-> ih, pubs |-> Sources(ih) \cup Range(search[q].from[ih])]
            \/ \E k \in DOMAIN sources : sources'[j] = sources[k]
      <3> DEFINE P == Range(search[q].from[ih])
      <3>1. sources' = RecordMany(ih, P) /\ P \in SUBSET Keys
        BY <1>5, <2>4 DEF QueryRecord
      <3> HIDE DEF P
      <3>2. \A j \in DOMAIN RecordMany(ih, P) :
                \/ RecordMany(ih, P)[j] = [ih |-> ih, pubs |-> Sources(ih) \cup P]
                \/ \E k \in DOMAIN sources : RecordMany(ih, P)[j] = sources[k]
        BY <3>1, RecordManyFacts
      <3> QED BY <3>1, <3>2 DEF P
    <2>6. ASSUME NEW j \in DOMAIN sources' PROVE Claimed(sources'[j].pubs, sources'[j].ih)
      <3>1. CASE sources'[j] = [ih |-> ih, pubs |-> Sources(ih) \cup Range(search[q].from[ih])]
        <4>1. sources'[j].ih = ih /\ sources'[j].pubs = Sources(ih) \cup Range(search[q].from[ih])
          BY <3>1
        <4> QED BY <2>2, <4>1
      <3>2. CASE \E k \in DOMAIN sources : sources'[j] = sources[k]
        BY <3>2 DEF DocksSound, AttributionSound
      <3> QED BY <2>5, <3>1, <3>2
    <2>7. \/ search' = [search EXCEPT ![q] = NoSearch]
          \/ search' = [search EXCEPT ![q] = [@ EXCEPT !.from = [search[q].from EXCEPT ![ih] = <<>>]]]
      BY <1>5 DEF QueryRecord
    <2>8. /\ \A r \in Searchers \ {q} : search'[r] = search[r]
          /\ \A i \in Infohashes : search'[q].from[i] = <<>> \/ search'[q].from[i] = search[q].from[i]
      <3>1. CASE search' = [search EXCEPT ![q] = NoSearch]
        BY <3>1 DEF StoresTyped, NoSearch
      <3>2. CASE search' = [search EXCEPT ![q] = [@ EXCEPT !.from = [search[q].from EXCEPT ![ih] = <<>>]]]
        <4>1. search'[q].from = [search[q].from EXCEPT ![ih] = <<>>] /\ \A r \in Searchers \ {q} : search'[r] = search[r]
          BY <3>2 DEF StoresTyped, SearchStates
        <4> QED BY <2>3, <4>1
      <3> QED BY <2>7, <3>1, <3>2
    <2>9. AttributionSound'
      <3>1. ASSUME NEW r \in Searchers, NEW i \in Infohashes PROVE Claimed(Range(search'[r].from[i]), i)
        <4>1. search'[r].from[i] = <<>> \/ search'[r].from[i] = search[r].from[i]
          BY <2>8
        <4>2. Range(<<>>) = {}
          BY DEF Range
        <4> QED BY <4>1, <4>2 DEF DocksSound, AttributionSound, Claimed
      <3> QED BY <2>1, <2>6, <3>1 DEF DocksSound, AttributionSound, Claimed
    <2> QED BY <2>1, <2>9, DocksKept
  <1> QED BY <1>1, <1>2, <1>3, <1>4, <1>5 DEF LookupNext, AddIndexer, NotePublisherSeen, RemoveIndexer


\* The attribution list may lose entries or change their order, and a worker may move on.
LEMMA AttributionKept ==
    ASSUME AttributionSound, UNCHANGED <<search, loaded, claims>>,
           \A j \in DOMAIN sources' : \E k \in DOMAIN sources : sources'[j] = sources[k],
           \A t \in Workers : work'[t].pc = "demote" =>
               \/ work'[t] = work[t]
               \/ "trust" \in loaded /\ Claimed(work'[t].pubs, work'[t].ih)
    PROVE  AttributionSound'
  <1>1. \A j \in DOMAIN sources' : Claimed(sources'[j].pubs, sources'[j].ih)
    BY DEF AttributionSound
  <1>2. \A t \in Workers : work'[t].pc = "demote" => "trust" \in loaded /\ Claimed(work'[t].pubs, work'[t].ih)
    BY DEF AttributionSound
  <1> QED BY <1>1, <1>2 DEF AttributionSound, Claimed

LEMMA DocksFeedback ==
    ASSUME StoresTyped, DocksSound, FeedbackNext
    PROVE  DocksSound'
  <1>0. AttributionSound /\ \A j \in DOMAIN sources : \E k \in DOMAIN sources : sources[j] = sources[k]
    BY DEF DocksSound
  <1>1. ASSUME NEW t \in Workers,
               \/ \E ih \in Infohashes : ConfirmHit(t, ih) \/ Completed(t, ih)
               \/ Tick(t) \/ Checkpoint(t)
        PROVE  DocksSound'
    <2>1. UNCHANGED <<records, sources, trusted, loaded, disk, search, claims>>
      BY <1>1 DEF ConfirmHit, Completed, Tick, Checkpoint
    <2>2. work'[t].pc # "demote" /\ OthersWork(t)
      <3>1. ASSUME NEW ih \in Infohashes, ConfirmHit(t, ih) PROVE work'[t].pc # "demote" /\ OthersWork(t)
        <4>1. CASE "tracker" \in loaded
          <5>1. Start(t, "confirm", "sources", ih, {})
            BY <3>1, <4>1 DEF ConfirmHit
          <5>2. work'[t].pc = "sources" /\ OthersWork(t)
            BY <5>1, StartMoves
          <5> QED BY <5>2
        <4>2. CASE "tracker" \notin loaded
          <5>1. Start(t, "confirm", "lock", ih, {})
            BY <3>1, <4>2 DEF ConfirmHit
          <5>2. work'[t].pc = "lock" /\ OthersWork(t)
            BY <5>1, StartMoves
          <5> QED BY <5>2
        <4> QED BY <4>1, <4>2
      <3>2. ASSUME NEW ih \in Infohashes, Completed(t, ih) PROVE work'[t].pc # "demote" /\ OthersWork(t)
        BY <3>2, StartMoves DEF Completed
      <3>3. CASE Tick(t)
        BY <3>3, StartMoves DEF Tick
      <3>4. CASE Checkpoint(t)
        BY <3>4, GotoMoves DEF Checkpoint
      <3> QED BY <1>1, <3>1, <3>2, <3>3, <3>4
    <2>3. AttributionSound'
      BY <1>0, <2>1, <2>2, AttributionKept DEF OthersWork
    <2> QED BY <2>1, <2>3, DocksKept
  <1>2. ASSUME NEW t \in Workers, NEW ih \in Infohashes, FlagHit(t, ih) PROVE DocksSound'
    <2>1. UNCHANGED <<records, trusted, loaded, disk, search, claims>> /\ "trust" \in loaded
      BY <1>2 DEF FlagHit, trustDegraded
    <2>2. work'[t].pubs = Sources(ih) /\ work'[t].ih = ih /\ OthersWork(t)
      BY <1>2, StartMoves DEF FlagHit
    <2>3. \A j \in DOMAIN sources' : \E k \in DOMAIN sources : sources'[j] = sources[k]
      BY <1>2, TouchedFacts DEF FlagHit
    <2>4. AttributionSound'
      BY <1>0, <2>1, <2>2, <2>3, SourcesClaimed, AttributionKept DEF OthersWork
    <2> QED BY <2>1, <2>4, DocksKept
  <1>3. ASSUME NEW t \in Workers, ConfirmSources(t) PROVE DocksSound'
    <2>1. UNCHANGED <<records, trusted, loaded, disk, search, claims>>
      BY <1>3 DEF ConfirmSources
    <2>2. work'[t].pc # "demote" /\ OthersWork(t)
      BY <1>3, AttributedMoves
    <2>3. work[t].ih \in Infohashes
      BY DEF StoresTyped, WorkStates
    <2>4. \A j \in DOMAIN sources' : \E k \in DOMAIN sources : sources'[j] = sources[k]
      BY <1>3, <2>3, TouchedFacts DEF ConfirmSources
    <2>5. AttributionSound'
      BY <1>0, <2>1, <2>2, <2>4, AttributionKept DEF OthersWork
    <2> QED BY <2>1, <2>5, DocksKept
  <1>4. ASSUME NEW t \in Workers, ConfirmBoost(t) PROVE DocksSound'
    <2>1. UNCHANGED <<sources, trusted, loaded, disk, search, claims>>
      BY <1>4 DEF ConfirmBoost
    <2>2. work'[t].pc # "demote" /\ OthersWork(t)
      BY <1>4, GotoMoves DEF ConfirmBoost
    <2>3. AttributionSound'
      BY <1>0, <2>1, <2>2, AttributionKept DEF OthersWork
    <2>4. \A k \in Keys : records'[k].flagged = records[k].flagged
      BY <1>4 DEF ConfirmBoost, RecordConfirmed, StoresTyped, Counters
    <2> QED BY <2>1, <2>3, <2>4, DocksKept
  <1>5. ASSUME NEW t \in Workers, FlagDemote(t) PROVE DocksSound'
    <2>1. UNCHANGED <<sources, trusted, loaded, disk, search, claims>>
      BY <1>5 DEF FlagDemote
    <2>2. work'[t].pc # "demote" /\ OthersWork(t)
      BY <1>5, GotoMoves DEF FlagDemote
    <2>3. AttributionSound'
      BY <1>0, <2>1, <2>2, AttributionKept DEF OthersWork
    <2>4. Claimed(work[t].pubs, work[t].ih) /\ work[t].ih \in Infohashes /\ AlwaysTrusted \subseteq trusted
      BY <1>5 DEF FlagDemote, DocksSound, AttributionSound, TrustHeld, StoresTyped, WorkStates
    <2>5. Docked(records)'
      <3> SUFFICES ASSUME NEW k \in Keys, records'[k].flagged > 0
                   PROVE  k \notin AlwaysTrusted /\ \E ih \in Infohashes : <<k, ih>> \in claims
        BY <2>1 DEF Docked
      <3>1. CASE k \in work[t].pubs /\ k \notin trusted
        BY <2>4, <3>1 DEF Claimed
      <3>2. CASE ~(k \in work[t].pubs /\ k \notin trusted)
        <4>1. records'[k] = records[k]
          BY <1>5, <3>2 DEF FlagDemote, RecordFlagged
        <4> QED BY <4>1 DEF DocksSound, Docked
      <3> QED BY <3>1, <3>2
    <2> QED BY <2>1, <2>3, <2>5 DEF DocksSound, TrustHeld, Docked
  <1>6. ASSUME NEW t \in Workers, FlagForget(t) PROVE DocksSound'
    <2>1. UNCHANGED <<records, trusted, loaded, disk, search, claims>>
      BY <1>6 DEF FlagForget
    <2>2. work'[t].pc # "demote" /\ OthersWork(t)
      BY <1>6, GotoMoves DEF FlagForget
    <2>3. work[t].ih \in Infohashes
      BY DEF StoresTyped, WorkStates
    <2>4. \A j \in DOMAIN sources' : \E k \in DOMAIN sources : sources'[j] = sources[k]
      BY <1>6, <2>3, WithoutFacts DEF FlagForget, Forget
    <2>5. AttributionSound'
      BY <1>0, <2>1, <2>2, <2>4, AttributionKept DEF OthersWork
    <2> QED BY <2>1, <2>5, DocksKept
  <1>7. ASSUME NEW t \in Workers, SaveBloom(t) \/ SaveTracker(t) PROVE DocksSound'
    <2>1. UNCHANGED <<records, sources, trusted, loaded, search, claims>>
      BY <1>7 DEF SaveBloom, SaveTracker
    <2>2. disk'.trust = disk.trust /\ (disk'.records = disk.records \/ disk'.records = records)
      BY <1>7 DEF SaveBloom, SaveTracker, StoresTyped, Files
    <2>3. work'[t].pc # "demote" /\ OthersWork(t)
      <3>1. CASE work' = [work EXCEPT ![t].pc = "tracker", ![t].saved = TRUE]
        BY <3>1 DEF StoresTyped, WorkStates, OthersWork
      <3>2. CASE work' = [work EXCEPT ![t] = Idle]
        BY <3>2 DEF StoresTyped, Idle, OthersWork
      <3> QED BY <1>7, <3>1, <3>2, GotoMoves DEF SaveBloom, SaveTracker
    <2>4. AttributionSound'
      BY <1>0, <2>1, <2>3, AttributionKept DEF OthersWork
    <2> QED BY <2>1, <2>2, <2>4, DocksKept
  <1>8. CASE SeedsAge
    <2>1. UNCHANGED <<sources, trusted, loaded, disk, work, search, claims>>
      BY <1>8 DEF SeedsAge
    <2>2. \A k \in Keys : records'[k].flagged = records[k].flagged
      BY <1>8 DEF SeedsAge, StoresTyped, Counters
    <2>3. AttributionSound'
      BY <1>0, <2>1, AttributionKept
    <2> QED BY <2>1, <2>2, <2>3, DocksKept
  <1>9. ASSUME NEW pk \in Keys, EditTrust(pk) PROVE DocksSound'
    <2>1. UNCHANGED <<records, sources, trusted, loaded, work, search, claims>> /\ pk \notin AlwaysTrusted
      BY <1>9 DEF EditTrust
    <2>2. disk'.records = disk.records /\ disk.trust \ {pk} \subseteq disk'.trust
      BY <1>9 DEF EditTrust, saveTrust, StoresTyped, Files
    <2>3. AttributionSound'
      BY <1>0, <2>1, AttributionKept
    <2> QED BY <2>1, <2>2, <2>3 DEF DocksSound, TrustHeld, Docked
  <1> QED BY <1>1, <1>2, <1>3, <1>4, <1>5, <1>6, <1>7, <1>8, <1>9 DEF FeedbackNext, trustedPublisherAutoConfirm

LEMMA DocksStep == TypeOK /\ DocksSound /\ [Next]_vars => DocksSound'
  <1> SUFFICES ASSUME StoresTyped, DocksSound, [Next]_vars PROVE DocksSound'
    BY DEF TypeOK
  <1>1. ASSUME NEW files \in SUBSET {"bloom", "tracker", "trust"}, Restart(files) PROVE DocksSound'
    <2>1. UNCHANGED <<disk, claims>> /\ sources' = <<>> /\ loaded' = files
      BY <1>1 DEF Restart, loadSpamResistance
    <2>2. \A t \in Workers : work'[t].pc = "idle"
      BY <1>1 DEF Restart, Idle
    <2>3. \A q \in Searchers, ih \in Infohashes : search'[q].from[ih] = <<>>
      BY <1>1 DEF Restart, NoSearch
    <2>4. AttributionSound'
      BY <2>1, <2>2, <2>3 DEF AttributionSound, Claimed, Range
    <2>5. TrustHeld'
      BY <1>1, <2>1 DEF DocksSound, TrustHeld, Restart, loadSpamResistance, LoadTrust
    <2>6. \A k \in Keys : records'[k].flagged = disk.records[k].flagged \/ records'[k].flagged = 0
      BY <1>1 DEF Restart, loadSpamResistance, LoadTracker, LoadSeedList, MarkSeeded, Zero, StoresTyped, Files, Counters
    <2>7. Docked(records)' /\ Docked(disk.records)'
      BY <2>1, <2>6 DEF DocksSound, Docked
    <2> QED BY <2>4, <2>5, <2>7 DEF DocksSound
  <1>2. CASE SeedAnchor
    <2>1. UNCHANGED <<sources, trusted, loaded, disk, work, search, claims>>
      BY <1>2 DEF SeedAnchor
    <2>2. \A k \in Keys : records'[k].flagged = records[k].flagged
      BY <1>2 DEF SeedAnchor, MarkSeeded, StoresTyped, Counters
    <2>3. AttributionSound'
      BY <2>1 DEF DocksSound, AttributionSound, Claimed
    <2> QED BY <2>1, <2>2, <2>3, DocksKept
  <1>3. CASE UNCHANGED <<records, sources, trusted, loaded, disk, work, search, claims>>
    <2>1. AttributionSound'
      BY <1>3 DEF DocksSound, AttributionSound, Claimed
    <2> QED BY <1>3, <2>1, DocksKept
  <1> QED BY <1>1, <1>2, <1>3, DocksLookup, DocksFeedback DEF Next, vars, rvars, AllButLeft


-----------------------------------------------------------------------------
(* Whom a search asks: however many keys are noted, the operator's indexers stay, and there are *)
(* at most MaxAuto others.                                                                      *)

LEMMA AutosFinite == ASSUME NEW idx \in Seq(Indexers) PROVE IsFiniteSet(Autos(idx)) /\ Cardinality(Autos(idx)) \in Nat
  <1>1. Autos(idx) \in SUBSET Nat /\ Len(idx) \in Nat /\ \A i \in Autos(idx) : i <= Len(idx)
    BY DEF Autos
  <1>2. IsFiniteSet(Autos(idx))
    BY <1>1, FS_BoundedSetOfNaturals
  <1> QED BY <1>2, FS_CardinalityType

\* A removal never adds an automatic indexer: each one left stood at a position of its own that stays.
LEMMA AutosAfterRemoval ==
    ASSUME NEW idx \in Seq(Indexers), NEW m \in DOMAIN idx
    PROVE  Cardinality(Autos(RemoveAt(idx, m))) <= Cardinality(Autos(idx) \ {m})
  <1> DEFINE r == RemoveAt(idx, m)
             A == Autos(r)
             B == Autos(idx) \ {m}
             f == [j \in A |-> IF j < m THEN j ELSE j + 1]
  <1>1. /\ r \in Seq(Indexers) /\ Len(r) = Len(idx) - 1
        /\ \A j \in 1 .. (Len(idx) - 1) : r[j] = IF j < m THEN idx[j] ELSE idx[j + 1]
    BY RemoveAtFacts
  <1> HIDE DEF r
  <1>2. m \in 1 .. Len(idx) /\ Len(idx) \in Nat /\ DOMAIN idx = 1 .. Len(idx) /\ DOMAIN r = 1 .. (Len(idx) - 1)
    BY <1>1
  <1>3. ASSUME NEW j \in A PROVE f[j] \in B
    <2>1. j \in 1 .. (Len(idx) - 1) /\ r[j].auto
      BY <1>2 DEF Autos
    <2>2. CASE j < m
      <3>1. idx[j].auto /\ j \in DOMAIN idx /\ j # m /\ f[j] = j
        BY <1>1, <1>2, <2>1, <2>2
      <3> QED BY <3>1 DEF Autos
    <2>3. CASE ~(j < m)
      <3>1. idx[j + 1].auto /\ j + 1 \in DOMAIN idx /\ j + 1 # m /\ f[j] = j + 1
        BY <1>1, <1>2, <2>1, <2>3
      <3> QED BY <3>1 DEF Autos
    <2> QED BY <2>2, <2>3
  <1>4. ASSUME NEW j \in A, NEW k \in A, f[j] = f[k] PROVE j = k
    <2>1. j \in Nat /\ k \in Nat /\ m \in Nat
      BY <1>2 DEF Autos
    <2> QED BY <1>4, <2>1
  <1>5. f \in [A -> B]
    BY <1>3
  <1> HIDE DEF A, B, f
  <1>6. f \in Injection(A, B)
    BY <1>4, <1>5 DEF Injection, IsInjective
  <1>7. IsFiniteSet(B)
    BY AutosFinite, FS_RemoveElement DEF B
  <1>8. Cardinality(A) <= Cardinality(B)
    BY <1>6, <1>7, FS_Injection
  <1> QED BY <1>8 DEF A, B, r

\* The operator's part of an index: its own keys are there, and the others within the bound.
Kept(ops, idx) ==
    /\ \A pk \in ops : \E i \in DOMAIN idx : idx[i] = [pk |-> pk, auto |-> FALSE]
    /\ Cardinality(Autos(idx)) <= MaxAuto

LEMMA EvictKeeps ==
    ASSUME StoresTyped, OperatorKept
    PROVE  /\ \A pk \in operator : \E i \in DOMAIN evictOldestAuto(indexers) :
                evictOldestAuto(indexers)[i] = [pk |-> pk, auto |-> FALSE]
           /\ Cardinality(Autos(evictOldestAuto(indexers))) < MaxAuto
  <1>1. indexers \in Seq(Indexers) /\ Cardinality(Autos(indexers)) <= MaxAuto
    BY DEF StoresTyped, OperatorKept
  <1>2. ASSUME NEW pk \in operator
        PROVE  \E i \in DOMAIN evictOldestAuto(indexers) : evictOldestAuto(indexers)[i] = [pk |-> pk, auto |-> FALSE]
    <2>1. PICK i \in DOMAIN indexers : indexers[i] = [pk |-> pk, auto |-> FALSE]
      BY DEF OperatorKept
    <2>2. ~indexers[i].auto
      BY <2>1
    <2>3. PICK j \in DOMAIN evictOldestAuto(indexers) : evictOldestAuto(indexers)[j] = indexers[i]
      BY <2>2, EvictFacts
    <2> QED BY <2>1, <2>3
  <1>3. Cardinality(Autos(evictOldestAuto(indexers))) < MaxAuto
    <2>1. Cardinality(Autos(indexers)) \in Nat /\ IsFiniteSet(Autos(indexers))
      BY <1>1, AutosFinite
    <2>2. CASE Cardinality(Autos(indexers)) >= MaxAuto
      <3>1. Autos(indexers) # {}
        BY <2>2, FS_EmptySet, CapAssumption
      <3> DEFINE m == Min(Autos(indexers))
      <3>2. m \in Autos(indexers) /\ m \in DOMAIN indexers
        BY <1>1, <3>1, OldestAuto DEF Autos
      <3>3. evictOldestAuto(indexers) = RemoveAt(indexers, m)
        BY <2>2 DEF evictOldestAuto
      <3> HIDE DEF m
      <3>4. Cardinality(Autos(indexers) \ {m}) = Cardinality(Autos(indexers)) - 1
        BY <2>1, <3>2, FS_RemoveElement
      <3>5. Cardinality(Autos(RemoveAt(indexers, m))) <= Cardinality(Autos(indexers) \ {m})
        BY <1>1, <3>2, AutosAfterRemoval
      <3>6. RemoveAt(indexers, m) \in Seq(Indexers)
        BY <1>1, <3>2, RemoveAtFacts
      <3>7. Cardinality(Autos(RemoveAt(indexers, m))) \in Nat
        BY <3>6, AutosFinite
      <3> QED BY <1>1, <2>1, <3>3, <3>4, <3>5, <3>7, CapAssumption
    <2>3. CASE ~(Cardinality(Autos(indexers)) >= MaxAuto)
      BY <2>1, <2>3, CapAssumption DEF evictOldestAuto
    <2> QED BY <2>2, <2>3
  <1> QED BY <1>2, <1>3

LEMMA AppendKeeps ==
    ASSUME NEW ops, NEW idx \in Seq(Indexers), NEW pk \in Keys, NEW auto \in BOOLEAN,
           \A k \in ops : \E i \in DOMAIN idx : idx[i] = [pk |-> k, auto |-> FALSE],
           Cardinality(Autos(idx)) <= MaxAuto, auto => Cardinality(Autos(idx)) < MaxAuto
    PROVE  Kept(IF auto THEN ops ELSE ops \cup {pk}, Append(idx, [pk |-> pk, auto |-> auto]))
  <1> DEFINE e == [pk |-> pk, auto |-> auto]
             a == Append(idx, e)
  <1>1. /\ e \in Indexers /\ a \in Seq(Indexers) /\ Len(a) = Len(idx) + 1 /\ Len(idx) \in Nat
        /\ a[Len(idx) + 1] = e /\ \A i \in DOMAIN idx : i \in DOMAIN a /\ a[i] = idx[i]
        /\ DOMAIN a = DOMAIN idx \cup {Len(idx) + 1} /\ Len(idx) + 1 \notin DOMAIN idx
    BY DEF Indexers
  <1>2. \A k \in IF auto THEN ops ELSE ops \cup {pk} : \E i \in DOMAIN a : a[i] = [pk |-> k, auto |-> FALSE]
    <2> HIDE DEF a
    <2>1. ~auto => a[Len(idx) + 1] = [pk |-> pk, auto |-> FALSE]
      BY <1>1
    <2>2. \A k \in ops : \E i \in DOMAIN a : a[i] = [pk |-> k, auto |-> FALSE]
      BY <1>1
    <2>3. Len(idx) + 1 \in DOMAIN a
      BY <1>1
    <2> QED BY <2>1, <2>2, <2>3
  <1>3. IsFiniteSet(Autos(idx)) /\ Cardinality(Autos(idx)) \in Nat
    BY AutosFinite
  <1>4. Cardinality(Autos(a)) <= MaxAuto
    <2> HIDE DEF a
    <2>1. CASE auto
      <3>1. Autos(a) = Autos(idx) \cup {Len(idx) + 1} /\ Len(idx) + 1 \notin Autos(idx)
        BY <1>1, <2>1 DEF Autos
      <3>2. Cardinality(Autos(a)) = Cardinality(Autos(idx)) + 1
        BY <1>3, <3>1, FS_AddElement
      <3> QED BY <1>3, <2>1, <3>2, CapAssumption
    <2>2. CASE ~auto
      <3>1. Autos(a) = Autos(idx)
        BY <1>1, <2>2 DEF Autos
      <3> QED BY <3>1
    <2> QED BY <2>1, <2>2
  <1> QED BY <1>2, <1>4 DEF Kept


LEMMA AddKeeps ==
    ASSUME StoresTyped, OperatorKept, NEW pk \in Keys, NEW auto \in BOOLEAN
    PROVE  Kept(IF auto THEN operator ELSE operator \cup {pk}, addIndexerLocked(pk, auto))
  <1>1. /\ indexers \in Seq(Indexers) /\ Cardinality(Autos(indexers)) <= MaxAuto
        /\ \A k \in operator : \E i \in DOMAIN indexers : indexers[i] = [pk |-> k, auto |-> FALSE]
    BY DEF StoresTyped, OperatorKept
  <1>2. CASE Known(pk)
    <2> DEFINE n == [i \in DOMAIN indexers |->
                       IF indexers[i].pk = pk /\ ~auto THEN [indexers[i] EXCEPT !.auto = FALSE] ELSE indexers[i]]
    <2>1. addIndexerLocked(pk, auto) = n
      BY <1>2 DEF addIndexerLocked
    <2>2. \A i \in DOMAIN indexers : /\ n[i].pk = indexers[i].pk /\ n[i] \in Indexers
                                     /\ n[i].auto => indexers[i].auto
                                     /\ indexers[i].pk = pk /\ ~auto => ~n[i].auto
      <3> TAKE i \in DOMAIN indexers
      <3>1. indexers[i] \in Indexers
        BY <1>1
      <3> QED BY <3>1 DEF Indexers
    <2>3. DOMAIN n = DOMAIN indexers
      OBVIOUS
    <2> HIDE DEF n
    <2>4. \A i \in DOMAIN n : ~n[i].auto => n[i] = [pk |-> indexers[i].pk, auto |-> FALSE]
      BY <2>2, <2>3 DEF Indexers
    <2>5. ASSUME NEW k \in IF auto THEN operator ELSE operator \cup {pk}
          PROVE  \E i \in DOMAIN n : n[i] = [pk |-> k, auto |-> FALSE]
      <3>1. CASE k \in operator
        <4>1. PICK i \in DOMAIN indexers : indexers[i] = [pk |-> k, auto |-> FALSE]
          BY <1>1, <3>1
        <4>2. ~n[i].auto /\ indexers[i].pk = k
          BY <2>2, <4>1
        <4> QED BY <2>3, <2>4, <4>2
      <3>2. CASE k = pk /\ ~auto
        <4>1. PICK i \in DOMAIN indexers : indexers[i].pk = pk
          BY <1>2 DEF Known
        <4>2. ~n[i].auto
          BY <2>2, <3>2, <4>1
        <4> QED BY <2>3, <2>4, <3>2, <4>1, <4>2
      <3> QED BY <2>5, <3>1, <3>2
    <2>6. Autos(n) \in SUBSET Autos(indexers)
      BY <2>2, <2>3 DEF Autos
    <2>7. Cardinality(Autos(n)) <= Cardinality(Autos(indexers)) /\ Cardinality(Autos(n)) \in Nat
      BY <1>1, <2>6, AutosFinite, FS_Subset, FS_CardinalityType
    <2>8. Cardinality(Autos(n)) <= MaxAuto
      BY <1>1, <2>7, AutosFinite, CapAssumption
    <2> QED BY <2>1, <2>5, <2>8 DEF Kept
  <1>3. CASE ~Known(pk)
    <2>1. CASE auto
      <3> DEFINE idx == evictOldestAuto(indexers)
      <3>1. /\ idx \in Seq(Indexers) /\ Cardinality(Autos(idx)) < MaxAuto
            /\ \A k \in operator : \E i \in DOMAIN idx : idx[i] = [pk |-> k, auto |-> FALSE]
        BY EvictFacts, EvictKeeps
      <3>2. addIndexerLocked(pk, auto) = Append(idx, [pk |-> pk, auto |-> auto])
        BY <1>3, <2>1 DEF addIndexerLocked
      <3> HIDE DEF idx
      <3>3. Cardinality(Autos(idx)) <= MaxAuto
        BY <3>1, AutosFinite, CapAssumption
      <3> QED BY <3>1, <3>2, <3>3, AppendKeeps
    <2>2. CASE ~auto
      <3>1. addIndexerLocked(pk, auto) = Append(indexers, [pk |-> pk, auto |-> auto])
        BY <1>3, <2>2 DEF addIndexerLocked
      <3> QED BY <1>1, <2>2, <3>1, AppendKeeps
    <2> QED BY <2>1, <2>2
  <1> QED BY <1>2, <1>3

LEMMA RemoveKeeps ==
    ASSUME StoresTyped, OperatorKept, NEW pk \in Keys, Known(pk)
    PROVE  Kept(operator \ {pk}, RemoveAt(indexers, CHOOSE i \in DOMAIN indexers : indexers[i].pk = pk))
  <1> DEFINE m == CHOOSE i \in DOMAIN indexers : indexers[i].pk = pk
             r == RemoveAt(indexers, m)
  <1>1. indexers \in Seq(Indexers) /\ m \in DOMAIN indexers /\ indexers[m].pk = pk /\ r \in Seq(Indexers)
    BY RemoveTyped DEF StoresTyped
  <1> HIDE DEF m
  <1>2. \A k \in DOMAIN indexers \ {m} : \E j \in DOMAIN r : r[j] = indexers[k]
    BY <1>1, RemoveAtElements
  <1>3. Cardinality(Autos(r)) <= Cardinality(Autos(indexers) \ {m})
    BY <1>1, AutosAfterRemoval
  <1> HIDE DEF r
  <1>4. ASSUME NEW k \in operator \ {pk} PROVE \E j \in DOMAIN r : r[j] = [pk |-> k, auto |-> FALSE]
    <2>1. PICK i \in DOMAIN indexers : indexers[i] = [pk |-> k, auto |-> FALSE]
      BY DEF OperatorKept
    <2>2. indexers[i].pk = k /\ k # pk
      BY <2>1
    <2>3. i \in DOMAIN indexers \ {m}
      BY <1>1, <2>2
    <2>4. PICK j \in DOMAIN r : r[j] = indexers[i]
      BY <1>2, <2>3
    <2> QED BY <2>1, <2>4
  <1>5. IsFiniteSet(Autos(indexers)) /\ Autos(indexers) \ {m} \in SUBSET Autos(indexers)
    BY <1>1, AutosFinite
  <1>6. Cardinality(Autos(indexers) \ {m}) <= Cardinality(Autos(indexers))
    BY <1>5, FS_Subset
  <1>7. Cardinality(Autos(indexers) \ {m}) \in Nat
    BY <1>5, FS_Subset, FS_CardinalityType
  <1>8. Cardinality(Autos(r)) <= MaxAuto
    BY <1>1, <1>3, <1>6, <1>7, AutosFinite, CapAssumption DEF OperatorKept
  <1> QED BY <1>4, <1>8 DEF Kept, r, m

\* One step of the whole system and the operator's indexers.
LEMMA OperatorStep == TypeOK /\ OperatorKept /\ [Next]_vars => OperatorKept'
  <1> SUFFICES ASSUME StoresTyped, OperatorKept, [Next]_vars PROVE OperatorKept'
    BY DEF TypeOK
  <1>1. ASSUME NEW pk \in Keys, AddIndexer(pk) PROVE OperatorKept'
    <2>1. Kept(operator \cup {pk}, addIndexerLocked(pk, FALSE))
      BY AddKeeps
    <2> QED BY <1>1, <2>1 DEF AddIndexer, Kept, OperatorKept
  <1>2. ASSUME NEW pk \in Keys, NotePublisherSeen(pk) PROVE OperatorKept'
    <2>1. Kept(operator, addIndexerLocked(pk, TRUE))
      BY AddKeeps
    <2> QED BY <1>2, <2>1 DEF NotePublisherSeen, Kept, OperatorKept
  <1>3. ASSUME NEW pk \in Keys, RemoveIndexer(pk) PROVE OperatorKept'
    BY <1>3, RemoveKeeps DEF RemoveIndexer, Kept, OperatorKept
  <1>4. CASE indexers' = <<[pk |-> Self, auto |-> FALSE]>> /\ operator' = {Self}
    <2>1. Autos(indexers') = {}
      BY <1>4 DEF Autos
    <2>2. \A pk \in operator' : indexers'[1] = [pk |-> pk, auto |-> FALSE] /\ 1 \in DOMAIN indexers'
      BY <1>4
    <2>3. Cardinality(Autos(indexers')) <= MaxAuto
      BY <2>1, FS_EmptySet, CapAssumption
    <2>4. \A pk \in operator' : \E i \in DOMAIN indexers' : indexers'[i] = [pk |-> pk, auto |-> FALSE]
      BY <2>2
    <2> QED BY <2>3, <2>4 DEF OperatorKept
  <1>5. CASE UNCHANGED <<indexers, operator>>
    BY <1>5 DEF OperatorKept, Autos
  <1>6. CASE LookupNext
    BY <1>1, <1>2, <1>3, <1>5, <1>6 DEF LookupNext, QueryBegin, QueryMerge, QueryResult, QueryRecord
  <1>7. CASE FeedbackNext
    BY <1>5, <1>7 DEF FeedbackNext, ConfirmHit, FlagHit, Completed, trustedPublisherAutoConfirm, ConfirmSources,
                      ConfirmBoost, FlagDemote, FlagForget, Tick, Checkpoint, SaveBloom, SaveTracker, SeedsAge, EditTrust
  <1>8. ASSUME NEW files \in SUBSET {"bloom", "tracker", "trust"}, Restart(files) PROVE OperatorKept'
    BY <1>4, <1>8 DEF Restart, loadSpamResistance
  <1>9. CASE SeedAnchor \/ UNCHANGED rvars \/ UNCHANGED AllButLeft
    BY <1>5, <1>9 DEF SeedAnchor, rvars, AllButLeft
  <1> QED BY <1>6, <1>7, <1>8, <1>9 DEF Next, vars


-----------------------------------------------------------------------------
(* What a search counts: a source is listed for an infohash once, has answered with it and was  *)
(* asked, so the number a hit is ranked by never exceeds the indexers that returned it.         *)

SourcesReal(s) ==
    /\ s.answered \subseteq s.asked
    /\ \A ih \in Infohashes :
         /\ Range(s.from[ih]) \subseteq s.answered
         /\ \A m, n \in DOMAIN s.from[ih] : s.from[ih][m] = s.from[ih][n] => m = n
HitsReal(s, answers) ==
    \A i \in DOMAIN s.hits :
        /\ s.hits[i].sources \in Nat
        /\ s.hits[i].sources <= Cardinality({pk \in s.asked : <<pk, s.hits[i].ih>> \in answers})
SearchesSound == \A q \in Searchers : SourcesReal(search[q]) /\ HitsReal(search[q], claims)

\* A sequence without repetition is no longer than a finite set that holds its elements.
LEMMA DistinctBound ==
    ASSUME NEW S, IsFiniteSet(S), NEW T, NEW s \in Seq(T), \A m \in DOMAIN s : s[m] \in S,
           \A m, n \in DOMAIN s : s[m] = s[n] => m = n
    PROVE  Len(s) <= Cardinality(S)
  <1>1. Len(s) \in Nat /\ DOMAIN s = 1 .. Len(s)
    OBVIOUS
  <1>2. s \in [1 .. Len(s) -> S]
    BY <1>1
  <1>3. s \in Injection(1 .. Len(s), S)
    BY <1>1, <1>2 DEF Injection, IsInjective
  <1>4. Cardinality(1 .. Len(s)) <= Cardinality(S)
    BY <1>3, FS_Injection
  <1>5. Cardinality(1 .. Len(s)) = Len(s)
    <2>1. 1 \in Int /\ Len(s) \in Int
      BY <1>1
    <2>2. Cardinality(1 .. Len(s)) = IF 1 > Len(s) THEN 0 ELSE Len(s) - 1 + 1
      BY <2>1, FS_Interval
    <2> QED BY <1>1, <2>2
  <1> QED BY <1>4, <1>5

\* Claims only grow, so the consensus behind a hit does too.
LEMMA ConsensusGrows ==
    ASSUME NEW s, s.asked \in SUBSET Keys, NEW old, NEW new, old \subseteq new, HitsReal(s, old)
    PROVE  HitsReal(s, new)
  <1> SUFFICES ASSUME NEW i \in DOMAIN s.hits
               PROVE  /\ s.hits[i].sources \in Nat
                      /\ s.hits[i].sources <= Cardinality({pk \in s.asked : <<pk, s.hits[i].ih>> \in new})
    BY DEF HitsReal
  <1> DEFINE A == {pk \in s.asked : <<pk, s.hits[i].ih>> \in old}
             B == {pk \in s.asked : <<pk, s.hits[i].ih>> \in new}
  <1>1. s.hits[i].sources <= Cardinality(A) /\ s.hits[i].sources \in Nat
    BY DEF HitsReal
  <1>2. IsFiniteSet(B) /\ A \in SUBSET B
    BY KeysAssumption, FS_Subset
  <1>3. Cardinality(A) <= Cardinality(B) /\ Cardinality(A) \in Nat /\ Cardinality(B) \in Nat
    BY <1>2, FS_Subset, FS_CardinalityType
  <1> HIDE DEF A, B
  <1>4. s.hits[i].sources <= Cardinality(B)
    BY <1>1, <1>3
  <1> QED BY <1>1, <1>4 DEF B

\* A step of one search leaves the others as they were.
LEMMA OtherSearches ==
    ASSUME StoresTyped, SearchesSound, claims \subseteq claims', NEW q \in Searchers,
           \A r \in Searchers \ {q} : search'[r] = search[r],
           SourcesReal(search'[q]), HitsReal(search'[q], claims')
    PROVE  SearchesSound'
  <1> SUFFICES ASSUME NEW r \in Searchers PROVE SourcesReal(search'[r]) /\ HitsReal(search'[r], claims')
    BY DEF SearchesSound
  <1>1. CASE r = q
    BY <1>1
  <1>2. CASE r # q
    <2>1. search[r].asked \in SUBSET Keys
      BY DEF StoresTyped, SearchStates
    <2>2. HitsReal(search[r], claims')
      BY <2>1, ConsensusGrows DEF SearchesSound
    <2> QED BY <1>2, <2>2 DEF SearchesSound
  <1> QED BY <1>1, <1>2

LEMMA NoSearchSound == \A answers : SourcesReal(NoSearch) /\ HitsReal(NoSearch, answers)
  BY DEF NoSearch, SourcesReal, HitsReal, Range

LEMMA SearchesLookup ==
    ASSUME StoresTyped, AttributionSound, SearchesSound, LookupNext
    PROVE  SearchesSound'
  <1>1. ASSUME NEW q \in Searchers, QueryBegin(q) PROVE SearchesSound'
    <2>1. /\ search'[q].hits = <<>> /\ search'[q].answered = {} /\ \A ih \in Infohashes : search'[q].from[ih] = <<>>
          /\ \A r \in Searchers \ {q} : search'[r] = search[r]
      BY <1>1 DEF QueryBegin, StoresTyped, NoSearch
    <2>2. SourcesReal(search'[q]) /\ HitsReal(search'[q], claims')
      BY <2>1 DEF SourcesReal, HitsReal, Range
    <2>3. claims' = claims
      BY <1>1 DEF QueryBegin
    <2> QED BY <2>1, <2>2, <2>3, OtherSearches
  <1>2. ASSUME NEW q \in Searchers, NEW pk \in Keys, QueryResult(q, pk) PROVE SearchesSound'
    <2>0. pk \in search[q].asked \ search[q].answered /\ SourcesReal(search[q]) /\ search[q].asked \in SUBSET Keys
      BY <1>2 DEF QueryResult, SearchesSound, StoresTyped, SearchStates
    <2>1. PICK F \in [Infohashes -> Seq(Keys)] :
            /\ search'[q].answered = search[q].answered \cup {pk} /\ search'[q].from = F
            /\ search'[q].hits = search[q].hits /\ search'[q].asked = search[q].asked
            /\ \A r \in Searchers \ {q} : search'[r] = search[r]
            /\ \A ih \in Infohashes : F[ih] = search[q].from[ih] \/ F[ih] = Append(search[q].from[ih], pk)
            /\ claims \subseteq claims'
      <3>1. CASE search' = [search EXCEPT ![q].answered = @ \cup {pk}] /\ UNCHANGED <<records, claims>>
        <4>1. search[q].from \in [Infohashes -> Seq(Keys)]
          BY DEF StoresTyped, SearchStates
        <4> QED BY <3>1, <4>1 DEF StoresTyped, SearchStates
      <3>2. ASSUME NEW ans \in Answers,
                   search' = [search EXCEPT
                     ![q].answered = @ \cup {pk},
                     ![q].from = AddSource(@, pk, ans),
                     ![q].known = @ \cup {i \in Range(ans) : "bloom" \in loaded /\ BloomTest(i)}],
                   claims' = claims \cup ({pk} \X Range(ans))
            PROVE  \E F \in [Infohashes -> Seq(Keys)] :
                     /\ search'[q].answered = search[q].answered \cup {pk} /\ search'[q].from = F
                     /\ search'[q].hits = search[q].hits /\ search'[q].asked = search[q].asked
                     /\ \A r \in Searchers \ {q} : search'[r] = search[r]
                     /\ \A ih \in Infohashes : F[ih] = search[q].from[ih] \/ F[ih] = Append(search[q].from[ih], pk)
                     /\ claims \subseteq claims'
        <4> DEFINE F == AddSource(search[q].from, pk, ans)
        <4>1. search[q].from \in [Infohashes -> Seq(Keys)]
          BY DEF StoresTyped, SearchStates
        <4>2. /\ F \in [Infohashes -> Seq(Keys)]
              /\ \A ih \in Infohashes : F[ih] = search[q].from[ih] \/ F[ih] = Append(search[q].from[ih], pk)
          BY <4>1 DEF AddSource
        <4>3. PICK K : search' = [search EXCEPT ![q].answered = @ \cup {pk}, ![q].from = F, ![q].known = K]
          BY <3>2
        <4> HIDE DEF F
        <4>4. /\ search'[q].answered = search[q].answered \cup {pk} /\ search'[q].from = F
              /\ search'[q].hits = search[q].hits /\ search'[q].asked = search[q].asked
              /\ \A r \in Searchers \ {q} : search'[r] = search[r]
          BY <4>3 DEF StoresTyped, SearchStates
        <4>5. claims \subseteq claims'
          BY <3>2
        <4> QED BY <4>2, <4>4, <4>5
      <3> QED BY <1>2, <3>1, <3>2 DEF QueryResult
    <2>2. ASSUME NEW ih \in Infohashes
          PROVE  /\ Range(F[ih]) \subseteq search[q].answered \cup {pk}
                 /\ \A m, n \in DOMAIN F[ih] : F[ih][m] = F[ih][n] => m = n
      <3> DEFINE s == search[q].from[ih]
      <3>1. /\ s \in Seq(Keys) /\ Range(s) \subseteq search[q].answered
            /\ \A m, n \in DOMAIN s : s[m] = s[n] => m = n
        BY <2>0 DEF SourcesReal, StoresTyped, SearchStates
      <3>2. CASE F[ih] = s
        BY <3>1, <3>2
      <3>3. CASE F[ih] = Append(s, pk)
        <4> HIDE DEF s
        <4>1. \A m \in DOMAIN s : s[m] # pk
          BY <2>0, <3>1 DEF Range
        <4>2. /\ DOMAIN F[ih] = DOMAIN s \cup {Len(s) + 1} /\ F[ih][Len(s) + 1] = pk
              /\ \A m \in DOMAIN s : F[ih][m] = s[m]
          BY <3>1, <3>3
        <4> QED BY <3>1, <4>1, <4>2 DEF Range
      <3> QED BY <2>1, <3>2, <3>3
    <2>3. SourcesReal(search'[q])
      BY <2>0, <2>1, <2>2 DEF SourcesReal
    <2>4. HitsReal(search[q], claims')
      BY <2>0, <2>1, ConsensusGrows DEF SearchesSound
    <2>5. HitsReal(search'[q], claims')
      BY <2>1, <2>4 DEF HitsReal
    <2> QED BY <2>1, <2>3, <2>5, OtherSearches
  <1>3. ASSUME NEW q \in Searchers, NEW ih \in Infohashes, QueryRecord(q, ih) PROVE SearchesSound'
    <2>1. claims' = claims /\ SourcesReal(search[q]) /\ HitsReal(search[q], claims)
      BY <1>3 DEF QueryRecord, SearchesSound
    <2>2. \/ search' = [search EXCEPT ![q] = NoSearch]
          \/ search' = [search EXCEPT ![q] = [@ EXCEPT !.from = [search[q].from EXCEPT ![ih] = <<>>]]]
      BY <1>3 DEF QueryRecord
    <2>3. CASE search' = [search EXCEPT ![q] = NoSearch]
      <3>1. search'[q] = NoSearch /\ \A r \in Searchers \ {q} : search'[r] = search[r]
        BY <2>3 DEF StoresTyped
      <3> QED BY <2>1, <3>1, NoSearchSound, OtherSearches
    <2>4. CASE search' = [search EXCEPT ![q] = [@ EXCEPT !.from = [search[q].from EXCEPT ![ih] = <<>>]]]
      <3>1. /\ search'[q].answered = search[q].answered /\ search'[q].hits = search[q].hits
            /\ search'[q].asked = search[q].asked /\ search'[q].from = [search[q].from EXCEPT ![ih] = <<>>]
            /\ \A r \in Searchers \ {q} : search'[r] = search[r]
        BY <2>4 DEF StoresTyped, SearchStates
      <3>2. \A i \in Infohashes : search'[q].from[i] = <<>> \/ search'[q].from[i] = search[q].from[i]
        BY <3>1 DEF StoresTyped, SearchStates
      <3>3. Range(<<>>) = {}
        BY DEF Range
      <3>4. SourcesReal(search'[q])
        BY <2>1, <3>1, <3>2, <3>3 DEF SourcesReal
      <3>5. HitsReal(search'[q], claims')
        BY <2>1, <3>1 DEF HitsReal
      <3> QED BY <2>1, <3>1, <3>4, <3>5, OtherSearches
    <2> QED BY <2>2, <2>3, <2>4
  <1>4. ASSUME NEW q \in Searchers, QueryMerge(q) PROVE SearchesSound'
    <2> DEFINE s == search[q]
               found == {i \in Infohashes : s.from[i] # <<>>}
               hit(i) == [ih |-> i, known |-> i \in s.known, sources |-> Len(s.from[i]),
                          score |-> scoreLookupHit(s.from[i], i \in s.known)]
    <2>0. PICK hits \in Ranked({hit(i) : i \in found}) :
            \E pc : search' = [search EXCEPT ![q].pc = pc, ![q].hits = hits]
      BY <1>4 DEF QueryMerge
    <2>1. PICK pc : search' = [search EXCEPT ![q].pc = pc, ![q].hits = hits]
      BY <2>0
    <2>2. claims' = claims /\ SourcesReal(search[q])
      BY <1>4 DEF QueryMerge, SearchesSound
    <2>3. \A j \in DOMAIN hits : \E i \in found : hits[j] = hit(i)
      <3> HIDE DEF hit, found
      <3> QED BY <2>0 DEF Ranked, SetToSeqs
    <2>4. /\ search'[q].answered = s.answered /\ search'[q].hits = hits
          /\ search'[q].asked = s.asked /\ search'[q].from = s.from
          /\ \A r \in Searchers \ {q} : search'[r] = search[r]
      BY <2>1 DEF StoresTyped, SearchStates
    <2>5. ASSUME NEW j \in DOMAIN hits
          PROVE  /\ hits[j].sources \in Nat
                 /\ hits[j].sources <= Cardinality({pk \in s.asked : <<pk, hits[j].ih>> \in claims})
      <3>1. PICK i \in found : hits[j] = hit(i)
        BY <2>3
      <3>2. hits[j].sources = Len(s.from[i]) /\ hits[j].ih = i /\ i \in Infohashes
        BY <3>1
      <3>3. s.from[i] \in Seq(Keys) /\ s.asked \in SUBSET Keys
        BY <3>2 DEF StoresTyped, SearchStates
      <3> DEFINE S == {pk \in s.asked : <<pk, i>> \in claims}
      <3>4. \A m \in DOMAIN s.from[i] : s.from[i][m] \in Range(s.from[i])
        BY <3>3 DEF Range
      <3>5. \A m \in DOMAIN s.from[i] : s.from[i][m] \in S
        BY <2>2, <3>2, <3>4 DEF SourcesReal, AttributionSound, Claimed
      <3>6. IsFiniteSet(S)
        BY <3>3, KeysAssumption, FS_Subset
      <3>7. \A m, n \in DOMAIN s.from[i] : s.from[i][m] = s.from[i][n] => m = n
        BY <2>2, <3>2 DEF SourcesReal
      <3> HIDE DEF S, hit, found
      <3>8. Len(s.from[i]) <= Cardinality(S)
        BY <3>3, <3>5, <3>6, <3>7, DistinctBound
      <3> QED BY <3>2, <3>3, <3>8 DEF S
    <2>6. SourcesReal(search'[q])
      BY <2>2, <2>4 DEF SourcesReal
    <2>7. HitsReal(search'[q], claims')
      BY <2>2, <2>4, <2>5 DEF HitsReal
    <2> QED BY <2>2, <2>4, <2>6, <2>7, OtherSearches
  <1>5. CASE UNCHANGED <<search, claims>>
    BY <1>5 DEF SearchesSound
  <1> QED BY <1>1, <1>2, <1>3, <1>4, <1>5 DEF LookupNext, AddIndexer, NotePublisherSeen, RemoveIndexer

LEMMA SearchesStep == TypeOK /\ DocksSound /\ SearchesSound /\ [Next]_vars => SearchesSound'
  <1> SUFFICES ASSUME StoresTyped, AttributionSound, SearchesSound, [Next]_vars PROVE SearchesSound'
    BY DEF TypeOK, DocksSound
  <1>1. CASE UNCHANGED <<search, claims>>
    BY <1>1 DEF SearchesSound
  <1>2. CASE FeedbackNext
    BY <1>1, <1>2 DEF FeedbackNext, ConfirmHit, FlagHit, Completed, trustedPublisherAutoConfirm, ConfirmSources,
                      ConfirmBoost, FlagDemote, FlagForget, Tick, Checkpoint, SaveBloom, SaveTracker, SeedsAge, EditTrust
  <1>3. ASSUME NEW files \in SUBSET {"bloom", "tracker", "trust"}, Restart(files) PROVE SearchesSound'
    <2>1. \A q \in Searchers : search'[q] = NoSearch
      BY <1>3 DEF Restart
    <2> QED BY <2>1, NoSearchSound DEF SearchesSound
  <1>4. CASE SeedAnchor \/ UNCHANGED rvars \/ UNCHANGED AllButLeft
    BY <1>1, <1>4 DEF SeedAnchor, rvars, AllButLeft
  <1> QED BY <1>2, <1>3, <1>4, SearchesLookup DEF Next, vars


-----------------------------------------------------------------------------
(* Who is admitted: a score above the prior takes a confirmed hit or a seed entry, and neither   *)
(* is ever taken back while the process runs.                                                    *)

Vouched(p) ==
    \/ p \in anchorsAdmitted \/ Rooted(p)
    \/ Cardinality({e \in endorsements[p] : Rooted(e)}) >= EndorsementThreshold
AdmittedSound ==
    /\ \A p \in admitted : Vouched(p)
    /\ Cardinality(admitted \ anchorsAdmitted) <= MaxTracked

\* Without a confirmed hit and without a seed entry the score is at most the prior.
LEMMA EarnedRooted == ASSUME StoresTyped, NEW k \in Keys, earned(k) PROVE Rooted(k)
  <1> SUFFICES ASSUME ~Rooted(k) PROVE FALSE
    OBVIOUS
  <1> DEFINE r == records[k]
             n == IF r.returned < 1 THEN 1 ELSE r.returned
  <1>1. r \in Counters
    BY DEF StoresTyped
  <1>2. r.returned \in Nat /\ r.flagged \in Nat /\ r.confirmed = 0 /\ r.seeded < 0 /\ r.seeded \in Int
    BY <1>1 DEF Rooted, Counters
  <1>3. "tracker" \in loaded /\ scoreOf(r) > 500
    BY <1>2 DEF earned, Score, IsSeeded
  <1> HIDE DEF r
  <1>4. n \in Nat /\ n >= 1
    BY <1>2
  <1>5. Max0(r.confirmed - r.flagged) = 0
    BY <1>2 DEF Max0
  <1>6. organic(r) = 500 \/ organic(r) = (500 * (2 * 0 + 5)) \div (n + 5)
    BY <1>5 DEF organic
  <1> HIDE DEF n
  <1>7. organic(r) \in Int /\ organic(r) <= 500
    BY <1>4, <1>6
  <1>8. scoreOf(r) = Clamp(organic(r) + 0)
    BY <1>2 DEF scoreOf
  <1> QED BY <1>3, <1>7, <1>8 DEF Clamp, Max0

\* No step but a restart takes a key's roots away.
LEMMA RootsStay ==
    ASSUME StoresTyped, LookupNext \/ FeedbackNext \/ SeedAnchor \/ records' = records, NEW k \in Keys, Rooted(k)
    PROVE  Rooted(k)'
  <1>0. /\ records \in [Keys -> Counters] /\ records[k] \in Counters
        /\ records[k].confirmed \in Nat /\ records[k].seeded \in Int
    BY DEF StoresTyped, Counters
  <1>1. CASE records'[k].confirmed = records[k].confirmed /\ records'[k].seeded = records[k].seeded
    BY <1>1 DEF Rooted
  <1>2. CASE LookupNext
    <2>1. ASSUME NEW q \in Searchers, NEW pk \in Keys, QueryResult(q, pk) PROVE Rooted(k)'
      <3>1. records' = records \/ \E ans \in Answers : records' = RecordReturned(pk, Len(ans))
        BY <2>1 DEF QueryResult
      <3>2. ASSUME NEW n, records' = RecordReturned(pk, n) PROVE Rooted(k)'
        BY <1>0, <1>1, <3>2 DEF RecordReturned, Counters
      <3> QED BY <1>1, <3>1, <3>2
    <2> QED BY <1>1, <1>2, <2>1 DEF LookupNext, AddIndexer, NotePublisherSeen, RemoveIndexer, QueryBegin, QueryMerge, QueryRecord
  <1>3. CASE FeedbackNext
    <2>1. ASSUME NEW pks, records' = RecordConfirmed(pks) PROVE Rooted(k)'
      <3>1. CASE k \in pks
        <4>1. records'[k] = [records[k] EXCEPT !.confirmed = @ + 1]
          BY <2>1, <3>1 DEF RecordConfirmed
        <4>2. records'[k].confirmed = records[k].confirmed + 1
          BY <1>0, <4>1 DEF Counters
        <4> QED BY <1>0, <4>2 DEF Rooted
      <3>2. CASE k \notin pks
        BY <1>1, <2>1, <3>2 DEF RecordConfirmed
      <3> QED BY <3>1, <3>2
    <2>2. ASSUME NEW pks, records' = RecordFlagged(pks) PROVE Rooted(k)'
      BY <1>0, <1>1, <2>2 DEF RecordFlagged, Counters
    <2>3. CASE SeedsAge
      <3>1. CASE records[k].seeded \in 0 .. (MaxAge - 1)
        <4>1. records'[k] = [records[k] EXCEPT !.seeded = @ + 1]
          BY <2>3, <3>1 DEF SeedsAge
        <4>2. records'[k].seeded = records[k].seeded + 1
          BY <1>0, <4>1 DEF Counters
        <4> QED BY <1>0, <3>1, <4>2 DEF Rooted
      <3>2. CASE records[k].seeded \notin 0 .. (MaxAge - 1)
        BY <1>1, <2>3, <3>2 DEF SeedsAge
      <3> QED BY <3>1, <3>2
    <2>4. CASE records' = records
      BY <1>1, <2>4
    <2> QED BY <1>3, <2>1, <2>2, <2>3, <2>4
            DEF FeedbackNext, ConfirmHit, FlagHit, Completed, trustedPublisherAutoConfirm, ConfirmSources,
                ConfirmBoost, FlagDemote, FlagForget, Tick, Checkpoint, SaveBloom, SaveTracker, EditTrust
  <1>4. CASE SeedAnchor
    <2>1. records' = records \/ records' = MarkSeeded(records, {call.pub})
      BY <1>4 DEF SeedAnchor
    <2>2. CASE records' = MarkSeeded(records, {call.pub})
      <3>1. CASE k = call.pub
        <4>1. records'[k] = [records[k] EXCEPT !.seeded = 0]
          BY <2>2, <3>1 DEF MarkSeeded
        <4>2. records'[k].seeded = 0
          BY <1>0, <4>1 DEF Counters
        <4> QED BY <4>2 DEF Rooted
      <3>2. CASE k # call.pub
        BY <1>1, <2>2, <3>2 DEF MarkSeeded
      <3> QED BY <3>1, <3>2
    <2> QED BY <1>1, <2>1, <2>2
  <1> QED BY <1>1, <1>2, <1>3, <1>4

\* A crowd of endorsers loses none of its roots when endorsers are added and roots stay.
LEMMA EndorsersGrow ==
    ASSUME NEW A \in SUBSET Keys, NEW B \in SUBSET A, NEW n \in Nat, Cardinality(B) >= n
    PROVE  Cardinality(A) >= n /\ Cardinality(A) \in Nat
  <1>1. IsFiniteSet(A)
    BY KeysAssumption, FS_Subset
  <1>2. Cardinality(B) <= Cardinality(A) /\ Cardinality(A) \in Nat /\ Cardinality(B) \in Nat
    BY <1>1, FS_Subset, FS_CardinalityType
  <1> QED BY <1>2

LEMMA VouchedStays ==
    ASSUME TypeOK, NEW p \in Keys, Vouched(p), \A k \in Keys : Rooted(k) => Rooted(k)',
           anchorsAdmitted \subseteq anchorsAdmitted', endorsements' \in [Keys -> SUBSET Keys],
           endorsements[p] \subseteq endorsements'[p]
    PROVE  Vouched(p)'
  <1>1. CASE p \in anchorsAdmitted \/ Rooted(p)
    BY <1>1 DEF Vouched
  <1>2. CASE Cardinality({e \in endorsements[p] : Rooted(e)}) >= EndorsementThreshold
    <2> DEFINE B == {e \in endorsements[p] : Rooted(e)}
               A == {e \in endorsements'[p] : Rooted(e)'}
    <2>1. A \in SUBSET Keys /\ B \in SUBSET A
      BY DEF TypeOK
    <2> HIDE DEF A, B
    <2>2. Cardinality(A) >= EndorsementThreshold
      BY <1>2, <2>1, EndorsersGrow, AdmissionAssumption DEF B
    <2> QED BY <2>2 DEF A, Vouched
  <1> QED BY <1>1, <1>2 DEF Vouched


\* What the policy of admit lets in is vouched for.
LEMMA AdmitVouched ==
    ASSUME TypeOK, NEW p \in Keys, strongEndorsers(p) >= EndorsementThreshold \/ earned(p)
    PROVE  Rooted(p) \/ Cardinality({e \in endorsements[p] : Rooted(e)}) >= EndorsementThreshold
  <1>1. CASE earned(p)
    BY <1>1, EarnedRooted DEF TypeOK
  <1>2. CASE strongEndorsers(p) >= EndorsementThreshold
    <2> DEFINE B == {e \in endorsements[p] : earned(e)}
               A == {e \in endorsements[p] : Rooted(e)}
    <2>1. endorsements[p] \in SUBSET Keys
      BY DEF TypeOK
    <2>2. A \in SUBSET Keys /\ B \in SUBSET A
      BY <2>1, EarnedRooted DEF TypeOK
    <2>3. Cardinality(B) >= EndorsementThreshold
      BY <1>2 DEF strongEndorsers
    <2> HIDE DEF A, B
    <2>4. Cardinality(A) >= EndorsementThreshold
      BY <2>2, <2>3, EndorsersGrow, AdmissionAssumption
    <2> QED BY <2>4 DEF A
  <1> QED BY <1>1, <1>2

LEMMA AdmittedStep == TypeOK /\ AdmittedSound /\ [Next]_vars => AdmittedSound'
  <1> SUFFICES ASSUME TypeOK, AdmittedSound, [Next]_vars PROVE AdmittedSound'
    OBVIOUS
  <1>0. StoresTyped /\ TypeOK'
    BY TypeStep DEF TypeOK
  <1>1. ASSUME UNCHANGED <<admitted, anchorsAdmitted>>, LookupNext \/ FeedbackNext \/ SeedAnchor \/ records' = records,
               \A p \in Keys : endorsements[p] \subseteq endorsements'[p]
        PROVE  AdmittedSound'
    <2>1. \A k \in Keys : Rooted(k) => Rooted(k)'
      BY <1>0, <1>1, RootsStay
    <2>2. ASSUME NEW p \in admitted PROVE Vouched(p)'
      <3>1. p \in Keys /\ Vouched(p)
        BY DEF TypeOK, AdmittedSound
      <3>2. anchorsAdmitted \subseteq anchorsAdmitted' /\ endorsements' \in [Keys -> SUBSET Keys]
        BY <1>0, <1>1 DEF TypeOK
      <3> QED BY <1>1, <2>1, <3>1, <3>2, VouchedStays
    <2> QED BY <1>1, <2>2 DEF AdmittedSound
  <1>2. CASE (LookupNext \/ FeedbackNext) /\ UNCHANGED avars
    BY <1>1, <1>2 DEF avars
  <1>3. CASE AdmissionNext /\ UNCHANGED AllButLeft
    <2>1. \A p \in Keys : endorsements[p] \subseteq endorsements'[p]
      BY <1>3 DEF AdmissionNext, CandidateFromCrawl, AdmitAnchor, IngestEndorsement, TypeOK
    <2>2. UNCHANGED <<admitted, anchorsAdmitted, records>>
      BY <1>3 DEF AdmissionNext, CandidateFromCrawl, AdmitAnchor, IngestEndorsement, AllButLeft
    <2> QED BY <1>1, <2>1, <2>2
  <1>4. CASE SeedAnchor
    BY <1>1, <1>4 DEF SeedAnchor
  <1>5. CASE UNCHANGED vars
    BY <1>1, <1>5 DEF vars, rvars, avars
  <1>6. ASSUME NEW files \in SUBSET {"bloom", "tracker", "trust"}, Restart(files) /\ NewEngine PROVE AdmittedSound'
    <2>1. admitted' = {} /\ admitted' \ anchorsAdmitted' = {}
      BY <1>6 DEF NewEngine
    <2> QED BY <2>1, FS_EmptySet, AdmissionAssumption DEF AdmittedSound
  <1>7. CASE admit /\ UNCHANGED rvars
    <2>1. UNCHANGED <<records, endorsements>> /\ call.pub \in Keys
      BY <1>7 DEF admit, rvars, TypeOK, Calls
    <2>2. CASE UNCHANGED <<admitted, anchorsAdmitted>>
      BY <1>1, <2>1, <2>2
    <2>3. ASSUME call.pub \notin admitted, Admit(call.src, call.pub), call.src = "anchor" \/ UnderCap,
                 admitted' = admitted \cup {call.pub},
                 anchorsAdmitted' = IF call.src = "anchor" THEN anchorsAdmitted \cup {call.pub} ELSE anchorsAdmitted
          PROVE  AdmittedSound'
      <3>1. \A k \in Keys : Rooted(k) => Rooted(k)'
        BY <2>1 DEF Rooted
      <3>2. anchorsAdmitted \subseteq anchorsAdmitted' /\ endorsements' \in [Keys -> SUBSET Keys]
        BY <1>0, <2>3 DEF TypeOK
      <3>3. ASSUME NEW p \in admitted PROVE Vouched(p)'
        <4>1. p \in Keys /\ Vouched(p)
          BY DEF TypeOK, AdmittedSound
        <4> QED BY <2>1, <3>1, <3>2, <4>1, VouchedStays
      <3> PICK c \in Keys : c = call.pub
        BY <2>1
      <3>4. Vouched(c)'
        <4>1. CASE call.src = "anchor"
          BY <2>3, <4>1 DEF Vouched
        <4>2. CASE call.src # "anchor"
          <5>1. Vouched(c)
            BY <2>3, <4>2, AdmitVouched DEF Admit, Vouched
          <5> QED BY <2>1, <3>1, <3>2, <5>1, VouchedStays
        <4> QED BY <4>1, <4>2
      <3>5. Cardinality(admitted' \ anchorsAdmitted') <= MaxTracked
        <4> DEFINE O == admitted \ anchorsAdmitted
        <4>1. IsFiniteSet(admitted) /\ anchorsAdmitted \in SUBSET admitted
          BY KeysAssumption, FS_Subset DEF TypeOK
        <4>2. IsFiniteSet(O) /\ Cardinality(O) \in Nat /\ Cardinality(O) <= MaxTracked
          BY <4>1, FS_Subset, FS_CardinalityType DEF AdmittedSound
        <4>3. CASE call.src = "anchor"
          <5>1. admitted' \ anchorsAdmitted' = O
            BY <2>3, <4>1, <4>3
          <5> QED BY <4>2, <5>1
        <4>4. CASE call.src # "anchor"
          <5>1. admitted' \ anchorsAdmitted' = O \cup {call.pub} /\ call.pub \notin O
            BY <2>3, <4>1, <4>4
          <5>2. Cardinality(O \cup {call.pub}) = Cardinality(O) + 1
            BY <4>2, <5>1, FS_AddElement
          <5>3. admitted \cap anchorsAdmitted = anchorsAdmitted /\ IsFiniteSet(anchorsAdmitted)
            BY <4>1, FS_Subset
          <5>4. Cardinality(O) = Cardinality(admitted) - Cardinality(anchorsAdmitted)
            BY <4>1, <5>3, FS_Difference
          <5>5. Cardinality(O) < MaxTracked
            BY <2>3, <4>4, <5>4 DEF UnderCap
          <5> QED BY <4>2, <5>1, <5>2, <5>5, AdmissionAssumption
        <4> QED BY <4>3, <4>4
      <3> QED BY <2>3, <3>3, <3>4, <3>5 DEF AdmittedSound
    <2> QED BY <1>7, <2>2, <2>3 DEF admit
  <1> QED BY <1>2, <1>3, <1>4, <1>5, <1>6, <1>7 DEF Next

-----------------------------------------------------------------------------
(* The theorems. *)

LEMMA Typed == Spec => []TypeOK
  BY InitType, TypeStep, PTL DEF Spec

\* A confirm, a finished download or a trusted publisher's torrent whose checkpoint wrote the Bloom
\* filter stays known good on disk, for any filter size, hashes and number of goroutines, through
\* failed saves, failed loads and restarts (Engine.ConfirmHit, Engine.Checkpoint).
THEOREM ConfirmsDurable == Spec => []ConfirmedDurable
  <1>1. Durable => ConfirmedDurable
    BY DEF Durable
  <1> QED BY <1>1, InitDurable, DurableStep, Typed, PTL DEF Spec

\* A flag demotes only indexers that returned the infohash, never one the trust list protects, in any
\* interleaving of searches, flags and restarts (Engine.FlagHit).
THEOREM DocksClaimers == Spec => []DocksOnlyClaimers
  <1>1. DocksSound => DocksOnlyClaimers
    BY DEF DocksSound, Docked, DocksOnlyClaimers
  <1> QED BY <1>1, InitDocks, DocksStep, Typed, PTL DEF Spec

LEMMA InitSearches == Init => OperatorKept /\ SearchesSound
  <1> SUFFICES ASSUME Init PROVE OperatorKept /\ SearchesSound
    OBVIOUS
  <1>1. indexers = <<[pk |-> Self, auto |-> FALSE]>> /\ operator = {Self}
    BY DEF Init, RInit
  <1>2. Autos(indexers) = {}
    BY <1>1 DEF Autos
  <1>3. Cardinality(Autos(indexers)) <= MaxAuto
    BY <1>2, FS_EmptySet, CapAssumption
  <1>4. \A q \in Searchers : search[q] = NoSearch
    BY DEF Init, RInit
  <1>5. \A pk \in operator : indexers[1] = [pk |-> pk, auto |-> FALSE] /\ 1 \in DOMAIN indexers
    BY <1>1
  <1>6. OperatorKept
    BY <1>3, <1>5 DEF OperatorKept
  <1> QED BY <1>4, <1>6, NoSearchSound DEF SearchesSound

\* Neither gossip nor repetition buys influence on a lookup, for any bound on automatic indexers and
\* any answers (Lookup.addIndexerLocked, evictOldestAutoIfFullLocked, Query).
THEOREM LookupsSound == Spec => []LookupSound
  <1>1. OperatorKept /\ SearchesSound => LookupSound
    BY DEF SearchesSound, HitsReal, ConsensusIsReal, LookupSound
  <1> QED BY <1>1, InitSearches, InitDocks, DocksStep, OperatorStep, SearchesStep, Typed, PTL DEF Spec

LEMMA InitAdmitted == Init => AdmittedSound
  BY FS_EmptySet, AdmissionAssumption DEF Init, AInit, AdmittedSound

\* No crowd of fresh keys admits itself, and publishers that are no anchors stay within
\* MaxTrackedPublishers, for any cap, threshold and order of endorsements, crawls, confirms and
\* flags (policy.go, AdmissionEngine.admit).
THEOREM AdmissionRooted == Spec => []RootedAdmission
  <1>1. TypeOK /\ AdmittedSound => RootedAdmission
    BY DEF AdmittedSound, Vouched, RootedAdmission
  <1> QED BY <1>1, InitAdmitted, AdmittedStep, Typed, PTL DEF Spec
=============================================================================
