------------------------ MODULE DownloadQueueProofs ------------------------
(***************************************************************************)
(* Theorems about the download queue, for any torrents, files, goroutines, *)
(* caps and plays.                                                         *)
(*                                                                         *)
(* Both properties speak of states at rest.  What has to be carried        *)
(* through the steps in between:                                           *)
(*                                                                         *)
(*  - CapRespected: a torrent that became active without promoteMu has a   *)
(*    queueOrActivate of its own still to run.  The others are Settled,    *)
(*    and only the holder of promoteMu adds to them; its counter covers    *)
(*    those it has looked at (Counted).                                    *)
(*                                                                         *)
(*  - NoStrandedDownload: whatever frees a slot leaves a promotion pass to *)
(*    run (PassDue).  While none is due, what a pass counted still         *)
(*    occupies its slot (Occupied), and what waits is ahead of the pass.   *)
(***************************************************************************)
EXTENDS DownloadQueue, TLAPS, FiniteSetTheorems, WellFoundedInduction, NaturalsInduction

(***************************************************************************)
(* Goroutines: who may be where, and what it holds there.                  *)
(***************************************************************************)
QoaLabels == {"qoa", "qoaLock", "qoaCount", "qact2", "qact3", "enq2"}
PassLabels == {"visit", "act", "act2", "act3", "tally"}
MutexLabels == {"qoaCount", "qact2", "qact3", "enq2"} \cup PassLabels
HandlerLabels == {"pause2", "resume2", "remove2", "restore2", "front2", "back2"}

\* promoteMu is held exactly between lock and unlock.
MutexHeld == \A p \in Procs : g[p].pc \in MutexLabels <=> mu = p

\* autoDownload only calls queueOrActivate, watchCompletion only promotes;
\* both run once the handle is registered.
Placed ==
    /\ \A p \in Pool : g[p].pc \notin {"unborn", "wait", "done"}
    /\ \A t \in Torrents :
        /\ g[<<"auto", t>>].pc \in {"unborn", "wait", "done"} \cup QoaLabels
        /\ g[<<"watch", t>>].pc \in {"unborn", "wait", "done", "promote"} \cup PassLabels
        /\ g[<<"auto", t>>].pc = "unborn" <=> t \notin added
        /\ g[<<"watch", t>>].pc = "unborn" <=> t \notin added
        /\ g[<<"auto", t>>].pc \notin {"unborn", "done"} => g[<<"auto", t>>].cur = t

\* The handle a goroutine works on is known, and a count starts at zero.
WorksOn ==
    \A p \in Procs :
        /\ g[p].pc \in (QoaLabels \cup HandlerLabels \cup PassLabels) \ {"visit"} => g[p].cur \in added
        /\ g[p].pc \in {"resume2", "qoa", "qoaLock"} => g[p].n = 0
        /\ p \in Autos /\ g[p].pc = "wait" => g[p].n = 0
        /\ g[p].pc \in {"act", "act2", "act3", "enq2"} => g[p].cur \in queued
        /\ g[p].pc \in {"act", "act2", "act3", "tally", "qact2", "qact3"} => g[p].todo = {}

Structure == TypeOK /\ MutexHeld /\ Placed /\ WorksOn

(***************************************************************************)
(* What the goroutines of a torrent wait for.                              *)
(***************************************************************************)
PlayKept == \E play \in Plays : ops.may = play.may
AutoWaits == \A t \in (reg \ removed) \ info : g[<<"auto", t>>].pc = "wait"
Watched == \A t \in added : g[<<"watch", t>>].pc = "wait" \/ t \in complete \cup removed
RemovalUnderWay == \A t \in reg \cap removed : \E p \in Procs : g[p].pc = "remove2" /\ g[p].cur = t

Events == Structure /\ PlayKept /\ AutoWaits /\ Watched /\ RemovalUnderWay

(***************************************************************************)
(* The cap.                                                                *)
(***************************************************************************)
\* Some goroutine has still to decide about t.
Undecided(t) ==
    \/ \E p \in Procs : g[p].cur = t /\ g[p].pc \in QoaLabels \cup {"resume2"}
    \/ g[<<"auto", t>>].pc = "wait"

Settled == {t \in (reg \cap info) \ removed : isActive(t) /\ ~Undecided(t)}

\* Unless files are deselected, a torrent without wanted files is paused,
\* queued or undecided.
FilesWanted ==
    "deselect" \notin ops.may =>
        \A t \in ((reg \cap info) \ removed) \ (paused \cup queued) :
            wanted[t] = {} => Undecided(t)

Counted ==
    cap > 0 =>
        /\ Cardinality(Settled) <= cap
        /\ \A p \in Procs :
            /\ g[p].pc \in {"qoaCount", "visit"} => Cardinality(Settled \ g[p].todo) <= g[p].n
            /\ g[p].pc \in {"qact2", "qact3", "act", "act2", "act3", "tally"} =>
                Cardinality(Settled \ {g[p].cur}) <= g[p].n /\ g[p].n < cap

\* A waiting torrent the client may download has a pass that will gate or
\* activate it.
Gated ==
    \A t \in (queued \cap allowed) \ paused :
        \E p \in Procs : g[p].cur = t /\ g[p].pc \in QoaLabels \cup {"resume2", "act3"}

\* The plays do not both take a torrent's files away and give it some.
NoReselect == \A play \in Plays : ~({"select", "deselect"} \subseteq play.may)

CapInv == Events /\ FilesWanted /\ Counted /\ Gated

\* The user does not lower the cap: 0 is no cap.
CapRaised == cap' = cap \/ cap' = 0 \/ (cap # 0 /\ cap' > cap)

(***************************************************************************)
(* The slots.                                                              *)
(***************************************************************************)
\* A promotion pass is still to start.
PassDue ==
    \/ \E p \in Procs : g[p].pc \in {"pause2", "remove2", "front2", "promote"}
    \/ \E t \in complete \ removed : g[<<"watch", t>>].pc = "wait"

\* Torrents that occupy a slot, or whose autoDownload is about to decide.
Starting(t) ==
    /\ t \in info \ (complete \cup paused \cup queued)
    /\ wanted[t] = {}
    /\ g[<<"auto", t>>].pc \in {"wait", "qoa", "qoaLock", "qoaCount", "qact2", "qact3"}
Occupied == {t \in reg : isActive(t) \/ Starting(t)}
Waiting == (reg \cap queued) \ paused

\* Until the user resumes a torrent or gives it files, only autoDownload
\* calls queueOrActivate, once, on a torrent that has no files yet.
FirstStart ==
    /\ \A p \in Pool : g[p].pc \notin QoaLabels \cup {"resume2"}
    /\ \A t \in Torrents :
        /\ t \notin added => wanted[t] = {}
        /\ g[<<"auto", t>>].pc \in {"wait"} \cup (QoaLabels \ {"enq2"}) => t \notin queued /\ wanted[t] = {}
        /\ g[<<"auto", t>>].pc \in QoaLabels => t \in info

InLine(p) == {g[p].line[i] : i \in DOMAIN g[p].line}

\* What a pass has counted occupies a slot, and what it has still to look at
\* is registered.
SlotsCounted ==
    \A p \in Procs :
        /\ g[p].pc \in {"qoaCount", "visit"} => g[p].todo \subseteq reg
        /\ g[p].pc \in PassLabels => InLine(p) \subseteq reg
        /\ g[p].pc \in PassLabels \ {"visit"} => g[p].cur \in reg
        /\ g[p].pc \in PassLabels \cup {"qoaCount", "qact2", "qact3"} => g[p].n \in Nat
        /\ g[p].pc = "visit" => g[p].n <= Cardinality(Occupied \ g[p].todo)
        /\ g[p].pc = "qoaCount" => g[p].n <= Cardinality((Occupied \ g[p].todo) \ {g[p].cur})
        /\ g[p].pc \in PassLabels \ {"visit"} => g[p].n <= Cardinality(Occupied \ {g[p].cur})

\* What waits is ahead of the promotion pass under way.
AheadOfPass ==
    \A p \in Procs :
        /\ g[p].pc \in {"visit", "tally"} => Waiting \subseteq InLine(p)
        /\ g[p].pc \in {"act", "act2", "act3"} => Waiting \subseteq InLine(p) \cup {g[p].cur}

SlotsTaken ==
    (\A p \in Procs : g[p].pc \notin PassLabels) =>
        Waiting = {} \/ (cap # 0 /\ Cardinality(Occupied) >= cap)

Asleep == FirstStart /\ AheadOfPass /\ (~PassDue => SlotsCounted /\ SlotsTaken)

SlotInv == Events /\ (~ops.woken => Asleep)

(***************************************************************************)
(* Steps of a goroutine.                                                   *)
(***************************************************************************)
LEMMA ProcFacts ==
    /\ \A t \in Torrents : <<"auto", t>> \in Procs /\ <<"watch", t>> \in Procs
    /\ \A t, u \in Torrents : <<"auto", t>> # <<"watch", u>>
    /\ \A t, u \in Torrents : <<"auto", t>> = <<"auto", u>> => t = u
    /\ \A t, u \in Torrents : <<"watch", t>> = <<"watch", u>> => t = u
    /\ \A t \in Torrents : <<"auto", t>> \notin Pool /\ <<"watch", t>> \notin Pool
    /\ \A p \in Procs \ Pool : \E t \in Torrents : p = <<"auto", t>> \/ p = <<"watch", t>>
    /\ Nobody \notin Procs /\ Pool \subseteq Procs
    /\ \A p \in Autos : \E t \in Torrents : p = <<"auto", t>>
    /\ \A t \in Torrents : <<"auto", t>> \in Autos /\ <<"watch", t>> \notin Autos
    /\ \A p \in Pool : p \notin Autos
  BY QueueAssumption DEF Procs, Autos, Watches

\* A goroutine's locals are records, one at a time changes.
LEMMA Moved ==
    ASSUME TypeOK, NEW p \in Procs, NEW r \in Locals, g' = [g EXCEPT ![p] = r]
    PROVE  g' \in [Procs -> Locals] /\ g'[p] = r /\ \A q \in Procs \ {p} : g'[q] = g[q]
  BY DEF TypeOK

\* What a step makes of p's locals; the other goroutines stay.
Became(p, l, c, todo, line, n) ==
    /\ g' \in [Procs -> Locals] /\ \A q \in Procs \ {p} : g'[q] = g[q]
    /\ g'[p].pc = l /\ g'[p].cur = c /\ g'[p].todo = todo /\ g'[p].line = line /\ g'[p].n = n

LEMMA GotoMoved ==
    ASSUME TypeOK, NEW p \in Procs, NEW l \in Labels, Goto(p, l)
    PROVE  Became(p, l, g[p].cur, g[p].todo, g[p].line, g[p].n)
  BY DEF TypeOK, Goto, Locals, Became

LEMMA LocalTyped ==
    ASSUME NEW l \in Labels, NEW t \in Torrents \cup {Nobody}
    PROVE  /\ Local(l, t) \in Locals
           /\ Local(l, t).pc = l /\ Local(l, t).cur = t /\ Local(l, t).todo = {}
           /\ Local(l, t).line = <<>> /\ Local(l, t).n = 0
  BY DEF Local, Locals

LEMMA GotoOnMoved ==
    ASSUME TypeOK, NEW p \in Procs, NEW l \in Labels, NEW t \in Torrents \cup {Nobody}, GotoOn(p, l, t)
    PROVE  Became(p, l, t, {}, <<>>, 0)
  <1> DEFINE r == Local(l, t)
  <1>1. /\ r \in Locals /\ r.pc = l /\ r.cur = t /\ r.todo = {} /\ r.line = <<>> /\ r.n = 0
    BY LocalTyped
  <1>2. g' = [g EXCEPT ![p] = r]
    BY DEF GotoOn
  <1> HIDE DEF r
  <1>3. g' \in [Procs -> Locals] /\ g'[p] = r /\ \A q \in Procs \ {p} : g'[q] = g[q]
    BY <1>1, <1>2, Moved
  <1> QED BY <1>1, <1>3 DEF Became

Rest(p) == IF p \in Pool THEN "idle" ELSE "done"

LEMMA ReturnMoved ==
    ASSUME TypeOK, NEW p \in Procs, Return(p)
    PROVE  Became(p, Rest(p), Nobody, {}, <<>>, 0)
  <1>1. Rest(p) \in Labels /\ GotoOn(p, Rest(p), Nobody)
    BY DEF Labels, Rest, Return
  <1> QED BY <1>1, GotoOnMoved

\* The conditions under which a step of p keeps the mutex, the places and
\* the work of all goroutines in order.
Orderly(p, l, c, n, todo) ==
    /\ \/ mu' = mu /\ (l \in MutexLabels <=> g[p].pc \in MutexLabels)
       \/ mu = Nobody /\ mu' = p /\ l \in MutexLabels
       \/ mu = p /\ mu' = Nobody /\ l \notin MutexLabels
    /\ l \notin {"unborn", "wait"}
    /\ IF p \in Pool THEN l # "done"
       ELSE IF p \in Autos THEN l = "done" \/ (l \in QoaLabels /\ c = g[p].cur /\ g[p].pc \notin {"unborn", "done"})
       ELSE l \in {"done", "promote"} \cup PassLabels /\ g[p].pc # "unborn"
    /\ p \in Autos => g[p].pc # "unborn"
    /\ l \in (QoaLabels \cup HandlerLabels \cup PassLabels) \ {"visit"} => c \in added
    /\ l \in {"resume2", "qoa", "qoaLock"} => n = 0
    /\ l \in {"act", "act2", "act3", "enq2"} => c \in queued'
    /\ l \in {"act", "act2", "act3", "tally", "qact2", "qact3"} => todo = {}

LEMMA MoveOrderly ==
    ASSUME Structure, NEW p \in Procs, NEW l, NEW c, NEW todo, NEW line, NEW n,
           Became(p, l, c, todo, line, n), Orderly(p, l, c, n, todo),
           added' = added, queued \subseteq queued' \/ mu = p
    PROVE  MutexHeld' /\ Placed' /\ WorksOn'
  <1> USE ProcFacts DEF Became
  <1>1. MutexHeld'
    BY DEF Structure, MutexHeld, Orderly
  <1>2. Placed'
    <2>1. ASSUME NEW q \in Pool PROVE g'[q].pc \notin {"unborn", "wait", "done"}
      BY DEF Structure, Placed, Orderly
    <2>2. ASSUME NEW t \in Torrents
          PROVE  /\ g'[<<"auto", t>>].pc \in {"unborn", "wait", "done"} \cup QoaLabels
                 /\ g'[<<"auto", t>>].pc = "unborn" <=> t \notin added
                 /\ g'[<<"auto", t>>].pc \notin {"unborn", "done"} => g'[<<"auto", t>>].cur = t
      <3>1. CASE p = <<"auto", t>>
        BY <3>1 DEF Structure, Placed, Orderly, QoaLabels
      <3>2. CASE p # <<"auto", t>>
        BY <3>2 DEF Structure, Placed
      <3> QED BY <3>1, <3>2
    <2>3. ASSUME NEW t \in Torrents
          PROVE  /\ g'[<<"watch", t>>].pc \in {"unborn", "wait", "done", "promote"} \cup PassLabels
                 /\ g'[<<"watch", t>>].pc = "unborn" <=> t \notin added
      <3>1. CASE p = <<"watch", t>>
        BY <3>1 DEF Structure, Placed, Orderly, PassLabels
      <3>2. CASE p # <<"watch", t>>
        BY <3>2 DEF Structure, Placed
      <3> QED BY <3>1, <3>2
    <2> QED BY <2>1, <2>2, <2>3 DEF Placed
  <1>3. WorksOn'
    <2> SUFFICES ASSUME NEW q \in Procs
                 PROVE  /\ g'[q].pc \in (QoaLabels \cup HandlerLabels \cup PassLabels) \ {"visit"} => g'[q].cur \in added'
                        /\ g'[q].pc \in {"resume2", "qoa", "qoaLock"} => g'[q].n = 0
                        /\ q \in Autos /\ g'[q].pc = "wait" => g'[q].n = 0
                        /\ g'[q].pc \in {"act", "act2", "act3", "enq2"} => g'[q].cur \in queued'
                        /\ g'[q].pc \in {"act", "act2", "act3", "tally", "qact2", "qact3"} => g'[q].todo = {}
      BY DEF WorksOn
    <2>1. CASE q = p
      BY <2>1 DEF Orderly
    <2>2. CASE q # p
      <3>1. g'[q] = g[q]
        BY <2>2
      <3>2. g[q].pc \in {"act", "act2", "act3", "enq2"} => mu = q
        BY DEF Structure, MutexHeld, MutexLabels, PassLabels
      <3> QED BY <2>2, <3>1, <3>2 DEF Structure, WorksOn
    <2> QED BY <2>1, <2>2
  <1> QED BY <1>1, <1>2, <1>3

\* What follows from Structure for a goroutine that holds promoteMu, or not.
LEMMA AtFacts ==
    ASSUME Structure, NEW p \in Procs
    PROVE  /\ g[p] \in Locals /\ TypeOK
           /\ g[p].pc \in MutexLabels => mu = p
           /\ g[p].pc \in {"pause2", "resume2", "remove2", "restore2", "front2", "back2", "idle"} => p \in Pool
           /\ g[p].pc \in QoaLabels => p \in Pool \/ p \in Autos
           /\ g[p].pc \in PassLabels \cup {"promote"} => p \in Pool \/ (p \notin Autos /\ p \notin Pool)
  <1>1. g[p] \in Locals /\ TypeOK /\ (g[p].pc \in MutexLabels => mu = p)
    BY DEF Structure, TypeOK, MutexHeld
  <1>2. CASE p \in Pool
    BY <1>1, <1>2, ProcFacts
  <1>3. CASE p \notin Pool
    <2>1. PICK t \in Torrents : p = <<"auto", t>> \/ p = <<"watch", t>>
      BY <1>3, ProcFacts
    <2>2. CASE p = <<"auto", t>>
      <3>1. g[p].pc \in {"unborn", "wait", "done"} \cup QoaLabels /\ p \in Autos
        BY <2>2, ProcFacts DEF Structure, Placed
      <3> QED BY <1>1, <1>3, <3>1 DEF QoaLabels, PassLabels
    <2>3. CASE p = <<"watch", t>>
      <3>1. g[p].pc \in {"unborn", "wait", "done", "promote"} \cup PassLabels /\ p \notin Autos
        BY <2>3, ProcFacts DEF Structure, Placed
      <3> QED BY <1>1, <1>3, <3>1 DEF QoaLabels, PassLabels
    <2> QED BY <2>1, <2>2, <2>3
  <1> QED BY <1>2, <1>3

(***************************************************************************)
(* Structure is kept, action by action.                                    *)
(***************************************************************************)
LEMMA DisallowStructure ==
    ASSUME Structure, NEW p \in Procs, RestoreDisallow(p) \/ PauseDisallow(p) \/ ResumeAllow(p)
    PROVE  Structure'
  <1> USE AtFacts DEF At, MutexLabels, PassLabels, QoaLabels, HandlerLabels, Labels
  <1>1. CASE RestoreDisallow(p)
    <2>1. Became(p, Rest(p), Nobody, {}, <<>>, 0)
      BY <1>1, ReturnMoved DEF RestoreDisallow
    <2>2. Orderly(p, Rest(p), Nobody, 0, {})
      BY <1>1 DEF RestoreDisallow, Orderly, Rest
    <2>3. MutexHeld' /\ Placed' /\ WorksOn'
      BY <1>1, <2>1, <2>2, MoveOrderly DEF RestoreDisallow, handles
    <2> QED BY <1>1, <2>1, <2>3 DEF RestoreDisallow, handles, Structure, TypeOK, Became
  <1>2. CASE PauseDisallow(p)
    <2>1. Became(p, "promote", g[p].cur, g[p].todo, g[p].line, g[p].n)
      BY <1>2, GotoMoved DEF PauseDisallow
    <2>2. Orderly(p, "promote", g[p].cur, g[p].n, g[p].todo)
      BY <1>2 DEF PauseDisallow, Orderly
    <2>3. MutexHeld' /\ Placed' /\ WorksOn'
      BY <1>2, <2>1, <2>2, MoveOrderly DEF PauseDisallow, handles
    <2> QED BY <1>2, <2>1, <2>3 DEF PauseDisallow, handles, Structure, TypeOK, Became
  <1>3. CASE ResumeAllow(p)
    <2>1. Became(p, "qoa", g[p].cur, g[p].todo, g[p].line, g[p].n)
      BY <1>3, GotoMoved DEF ResumeAllow
    <2>2. Orderly(p, "qoa", g[p].cur, g[p].n, g[p].todo)
      BY <1>3 DEF ResumeAllow, Orderly, Structure, WorksOn
    <2>3. MutexHeld' /\ Placed' /\ WorksOn'
      BY <1>3, <2>1, <2>2, MoveOrderly DEF ResumeAllow, handles
    <2>4. g[p].cur \in Torrents
      BY <1>3 DEF ResumeAllow, Structure, WorksOn, TypeOK
    <2> QED BY <1>3, <2>1, <2>3, <2>4 DEF ResumeAllow, handles, Structure, TypeOK, Became
  <1> QED BY <1>1, <1>2, <1>3


LEMMA RemoveDeleteStructure ==
    ASSUME Structure, NEW p \in Procs, RemoveDelete(p)
    PROVE  Structure'
  <1> USE AtFacts DEF At, MutexLabels, PassLabels, QoaLabels, HandlerLabels, Labels, RemoveDelete
  <1>1. Became(p, "promote", g[p].cur, g[p].todo, g[p].line, g[p].n)
    BY GotoMoved
  <1>2. Orderly(p, "promote", g[p].cur, g[p].n, g[p].todo)
    BY DEF Orderly
  <1>3. MutexHeld' /\ Placed' /\ WorksOn'
    BY <1>1, <1>2, MoveOrderly
  <1> QED BY <1>1, <1>3 DEF client, Structure, TypeOK, Became

LEMMA SetOrderStructure ==
    ASSUME Structure, NEW p \in Procs, setQueueOrder(p)
    PROVE  Structure'
  <1> USE AtFacts DEF At, MutexLabels, PassLabels, QoaLabels, HandlerLabels, Labels, setQueueOrder
  <1>1. g[p].cur \in Torrents /\ g[p].n \in Int
    BY DEF Structure, WorksOn, TypeOK, Locals
  <1>2. order' \in [Torrents -> Int]
    BY <1>1 DEF TypeOK
  <1>3. CASE At(p, "front2")
    <2>1. Became(p, "promote", g[p].cur, g[p].todo, g[p].line, g[p].n)
      BY <1>3, GotoMoved
    <2>2. Orderly(p, "promote", g[p].cur, g[p].n, g[p].todo)
      BY <1>3 DEF Orderly
    <2>3. MutexHeld' /\ Placed' /\ WorksOn'
      BY <2>1, <2>2, MoveOrderly
    <2> QED BY <1>2, <2>1, <2>3 DEF client, Structure, TypeOK, Became
  <1>4. CASE ~At(p, "front2")
    <2>1. Became(p, Rest(p), Nobody, {}, <<>>, 0)
      BY <1>4, ReturnMoved
    <2>2. Orderly(p, Rest(p), Nobody, 0, {})
      BY <1>4 DEF Orderly, Rest
    <2>3. MutexHeld' /\ Placed' /\ WorksOn'
      BY <2>1, <2>2, MoveOrderly
    <2> QED BY <1>2, <2>1, <2>3 DEF client, Structure, TypeOK, Became
  <1> QED BY <1>3, <1>4

LEMMA QoaCheckStructure ==
    ASSUME Structure, NEW p \in Procs, QoaCheck(p)
    PROVE  Structure'
  <1> USE AtFacts DEF At, MutexLabels, PassLabels, QoaLabels, HandlerLabels, Labels, QoaCheck
  <1>0. p \in Autos => g[p].pc \notin {"unborn", "done"}
    OBVIOUS
  <1>1. CASE g[p].cur \in paused
    <2>1. Became(p, Rest(p), Nobody, {}, <<>>, 0)
      BY <1>1, ReturnMoved
    <2>2. Orderly(p, Rest(p), Nobody, 0, {})
      BY <1>1 DEF Orderly, Rest
    <2>3. MutexHeld' /\ Placed' /\ WorksOn'
      BY <2>1, <2>2, MoveOrderly DEF handles
    <2> QED BY <2>1, <2>3 DEF handles, client, Structure, TypeOK, Became
  <1>2. CASE g[p].cur \notin paused
    <2>1. Became(p, "qoaLock", g[p].cur, g[p].todo, g[p].line, g[p].n)
      BY <1>2, GotoMoved
    <2>2. Orderly(p, "qoaLock", g[p].cur, g[p].n, g[p].todo)
      BY <1>2 DEF Orderly, Structure, WorksOn
    <2>3. MutexHeld' /\ Placed' /\ WorksOn'
      BY <2>1, <2>2, MoveOrderly DEF handles
    <2> QED BY <2>1, <2>3 DEF handles, client, Structure, TypeOK, Became
  <1> QED BY <1>1, <1>2

\* The handles a count has to look at.
ToCount == IF cap = 0 THEN {} ELSE reg

LEMMA QoaLockMoved ==
    ASSUME Structure, NEW p \in Procs, QoaLock(p)
    PROVE  Became(p, "qoaCount", g[p].cur, ToCount, g[p].line, g[p].n)
  BY DEF Structure, TypeOK, QoaLock, Became, Locals, Labels, ToCount

LEMMA QoaLockStructure ==
    ASSUME Structure, NEW p \in Procs, QoaLock(p)
    PROVE  Structure'
  <1> USE AtFacts DEF At, MutexLabels, PassLabels, QoaLabels, HandlerLabels, Labels
  <1>1. Became(p, "qoaCount", g[p].cur, ToCount, g[p].line, g[p].n)
    BY QoaLockMoved
  <1>2. Orderly(p, "qoaCount", g[p].cur, g[p].n, ToCount)
    BY DEF Orderly, Structure, WorksOn, QoaLock
  <1>3. MutexHeld' /\ Placed' /\ WorksOn'
    BY <1>1, <1>2, MoveOrderly DEF handles, QoaLock
  <1> QED BY <1>1, <1>3 DEF handles, client, Structure, TypeOK, Became, QoaLock

LEMMA CountMoved ==
    ASSUME Structure, NEW p \in Procs, countActive(p)
    PROVE  \E t \in g[p].todo :
             Became(p, g[p].pc, g[p].cur, g[p].todo \ {t}, g[p].line, g[p].n + (IF isActive(t) THEN 1 ELSE 0))
  <1>1. PICK t \in g[p].todo :
          g' = [g EXCEPT ![p].todo = @ \ {t}, ![p].n = IF isActive(t) THEN @ + 1 ELSE @]
    BY DEF countActive
  <1>2. g[p] \in Locals /\ g \in [Procs -> Locals]
    BY DEF Structure, TypeOK
  <1>3. CASE isActive(t)
    <2>1. g' = [g EXCEPT ![p].todo = @ \ {t}, ![p].n = @ + 1]
      BY <1>1, <1>3
    <2>2. Became(p, g[p].pc, g[p].cur, g[p].todo \ {t}, g[p].line, g[p].n + 1)
      BY <1>2, <2>1 DEF Locals, Became
    <2> QED BY <1>3, <2>2
  <1>4. CASE ~isActive(t)
    <2>1. g' = [g EXCEPT ![p].todo = @ \ {t}, ![p].n = @]
      BY <1>1, <1>4
    <2>2. g' = [g EXCEPT ![p].todo = @ \ {t}]
      BY <1>2, <2>1 DEF Locals
    <2>3. Became(p, g[p].pc, g[p].cur, g[p].todo \ {t}, g[p].line, g[p].n)
      BY <1>2, <2>2 DEF Locals, Became
    <2>4. g[p].n + (IF isActive(t) THEN 1 ELSE 0) = g[p].n
      BY <1>2, <1>4 DEF Locals
    <2> QED BY <2>3, <2>4
  <1> QED BY <1>3, <1>4

LEMMA CountStructure ==
    ASSUME Structure, NEW p \in Procs, countActive(p)
    PROVE  Structure'
  <1> USE AtFacts DEF At, MutexLabels, PassLabels, QoaLabels, HandlerLabels, Labels
  <1>1. PICK t \in g[p].todo :
          Became(p, g[p].pc, g[p].cur, g[p].todo \ {t}, g[p].line, g[p].n + (IF isActive(t) THEN 1 ELSE 0))
    BY CountMoved
  <1> DEFINE n == g[p].n + (IF isActive(t) THEN 1 ELSE 0)
  <1> HIDE DEF n
  <1>2. Became(p, g[p].pc, g[p].cur, g[p].todo \ {t}, g[p].line, n)
    BY <1>1 DEF n
  <1>3. g[p].pc \in {"qoaCount", "visit"}
    BY DEF countActive
  <1>4. Orderly(p, g[p].pc, g[p].cur, n, g[p].todo \ {t})
    BY <1>3 DEF Orderly, Structure, WorksOn, countActive
  <1>5. MutexHeld' /\ Placed' /\ WorksOn'
    BY <1>2, <1>4, MoveOrderly DEF handles, countActive
  <1> QED BY <1>2, <1>5 DEF handles, client, Structure, TypeOK, Became, countActive

LEMMA EnqueueStructure ==
    ASSUME Structure, NEW p \in Procs, Enqueue(p)
    PROVE  Structure'
  <1> USE AtFacts DEF At, MutexLabels, PassLabels, QoaLabels, HandlerLabels, Labels, Enqueue
  <1>1. Became(p, "enq2", g[p].cur, g[p].todo, g[p].line, g[p].n)
    BY GotoMoved
  <1>2. Orderly(p, "enq2", g[p].cur, g[p].n, g[p].todo)
    BY DEF Orderly, Structure, WorksOn
  <1>3. MutexHeld' /\ Placed' /\ WorksOn'
    BY <1>1, <1>2, MoveOrderly
  <1>4. g[p].cur \in added
    BY DEF Structure, WorksOn
  <1> QED BY <1>1, <1>3, <1>4 DEF client, Structure, TypeOK, Became

LEMMA EnqueueGateStructure ==
    ASSUME Structure, NEW p \in Procs, EnqueueGate(p)
    PROVE  Structure'
  <1> USE AtFacts DEF At, MutexLabels, PassLabels, QoaLabels, HandlerLabels, Labels, EnqueueGate
  <1>1. Became(p, Rest(p), Nobody, {}, <<>>, 0)
    BY ReturnMoved
  <1>2. Orderly(p, Rest(p), Nobody, 0, {})
    BY DEF Orderly, Rest
  <1>3. MutexHeld' /\ Placed' /\ WorksOn'
    BY <1>1, <1>2, MoveOrderly DEF handles
  <1> QED BY <1>1, <1>3 DEF handles, Structure, TypeOK, Became


LEMMA PromoteLockMoved ==
    ASSUME Structure, NEW p \in Procs, PromoteLock(p)
    PROVE  \E s \in SortedHandles :
             Became(p, "visit", Nobody, ToCount, s, 0)
  <1>1. PICK s \in SortedHandles :
          g' = [g EXCEPT ![p] = [pc |-> "visit", cur |-> Nobody, line |-> s, n |-> 0,
                                 todo |-> IF cap = 0 THEN {} ELSE reg]]
    BY DEF PromoteLock
  <1>2. s \in Seq(Torrents)
    <2>1. reg \subseteq Torrents /\ IsFiniteSet(reg)
      BY FS_Subset, QueueAssumption DEF Structure, TypeOK
    <2>2. Cardinality(reg) \in Nat
      BY <2>1, FS_CardinalityType
    <2>3. s \in [1..Cardinality(reg) -> reg]
      BY DEF SortedHandles
    <2> DEFINE c == Cardinality(reg)
    <2> HIDE DEF c
    <2>4. s \in [1..c -> Torrents] /\ c \in Nat
      BY <2>1, <2>2, <2>3 DEF c
    <2> QED BY <2>4
  <1> DEFINE r == [pc |-> "visit", cur |-> Nobody, line |-> s, n |-> 0,
                   todo |-> IF cap = 0 THEN {} ELSE reg]
  <1>3. /\ r \in Locals /\ r.pc = "visit" /\ r.cur = Nobody /\ r.todo = ToCount /\ r.line = s /\ r.n = 0
    BY <1>2 DEF Locals, Labels, ToCount, Structure, TypeOK
  <1>4. g' = [g EXCEPT ![p] = r]
    BY <1>1
  <1> HIDE DEF r
  <1>5. Became(p, "visit", Nobody, ToCount, s, 0)
    BY <1>3, <1>4, Moved DEF Became, Structure
  <1> QED BY <1>5

LEMMA PromoteLockStructure ==
    ASSUME Structure, NEW p \in Procs, PromoteLock(p)
    PROVE  Structure'
  <1> USE AtFacts DEF At, MutexLabels, PassLabels, QoaLabels, HandlerLabels, Labels
  <1>1. PICK s \in SortedHandles : Became(p, "visit", Nobody, ToCount, s, 0)
    BY PromoteLockMoved
  <1>2. Orderly(p, "visit", Nobody, 0, ToCount)
    BY DEF Orderly, PromoteLock
  <1>3. MutexHeld' /\ Placed' /\ WorksOn'
    BY <1>1, <1>2, MoveOrderly DEF handles, PromoteLock
  <1> QED BY <1>1, <1>3 DEF handles, client, Structure, TypeOK, Became, PromoteLock

LEMMA PromoteDoneStructure ==
    ASSUME Structure, NEW p \in Procs, PromoteDone(p)
    PROVE  Structure'
  <1> USE AtFacts DEF At, MutexLabels, PassLabels, QoaLabels, HandlerLabels, Labels, PromoteDone
  <1>1. Became(p, Rest(p), Nobody, {}, <<>>, 0)
    BY ReturnMoved
  <1>2. Orderly(p, Rest(p), Nobody, 0, {})
    BY DEF Orderly, Rest
  <1>3. MutexHeld' /\ Placed' /\ WorksOn'
    BY <1>1, <1>2, MoveOrderly DEF handles
  <1> QED BY <1>1, <1>3 DEF handles, client, Structure, TypeOK, Became

Promotable(t) == t \in queued /\ (cap = 0 \/ t \notin paused)

LEMMA VisitMoved ==
    ASSUME Structure, NEW p \in Procs, PromoteVisit(p)
    PROVE  /\ g[p].line \in Seq(Torrents) /\ g[p].line # <<>> /\ Head(g[p].line) \in Torrents
           /\ \/ Promotable(Head(g[p].line)) /\ Became(p, "act", Head(g[p].line), {}, Tail(g[p].line), g[p].n)
              \/ ~Promotable(Head(g[p].line)) /\ Became(p, "visit", Nobody, {}, Tail(g[p].line), g[p].n)
  <1>1. /\ g[p] \in Locals /\ g \in [Procs -> Locals] /\ g[p].line # <<>> /\ g[p].todo = {}
        /\ g[p].pc = "visit"
    BY DEF Structure, TypeOK, PromoteVisit, At
  <1> DEFINE line == g[p].line
  <1>2. line \in Seq(Torrents) /\ line # <<>>
    BY <1>1 DEF Locals
  <1> HIDE DEF line
  <1>3. Head(line) \in Torrents /\ Tail(line) \in Seq(Torrents)
    BY <1>2
  <1>4. CASE Promotable(Head(line))
    <2>1. g' = [g EXCEPT ![p].line = Tail(line), ![p].cur = Head(line), ![p].pc = "act"]
      BY <1>4 DEF PromoteVisit, Promotable, line
    <2>2. Became(p, "act", Head(line), {}, Tail(line), g[p].n)
      BY <1>1, <1>3, <2>1 DEF Became, Locals, Labels
    <2> QED BY <1>2, <1>3, <1>4, <2>2 DEF line
  <1>5. CASE ~Promotable(Head(line))
    <2>1. g' = [g EXCEPT ![p].line = Tail(line), ![p].cur = Nobody, ![p].pc = "visit"]
      BY <1>5 DEF PromoteVisit, Promotable, line
    <2>2. Became(p, "visit", Nobody, {}, Tail(line), g[p].n)
      BY <1>1, <1>3, <2>1 DEF Became, Locals, Labels
    <2> QED BY <1>2, <1>3, <1>5, <2>2 DEF line
  <1> QED BY <1>4, <1>5

LEMMA VisitStructure ==
    ASSUME Structure, NEW p \in Procs, PromoteVisit(p)
    PROVE  Structure'
  <1> USE AtFacts DEF At, MutexLabels, PassLabels, QoaLabels, HandlerLabels, Labels
  <1> DEFINE t == Head(g[p].line)
             line == Tail(g[p].line)
  <1>1. \/ Promotable(t) /\ Became(p, "act", t, {}, line, g[p].n)
        \/ ~Promotable(t) /\ Became(p, "visit", Nobody, {}, line, g[p].n)
    BY VisitMoved
  <1> HIDE DEF t, line
  <1>2. CASE Promotable(t) /\ Became(p, "act", t, {}, line, g[p].n)
    <2>1. Orderly(p, "act", t, g[p].n, {})
      BY <1>2 DEF Orderly, PromoteVisit, Promotable, Structure, TypeOK, handles
    <2>2. MutexHeld' /\ Placed' /\ WorksOn'
      BY <1>2, <2>1, MoveOrderly DEF handles, PromoteVisit
    <2> QED BY <1>2, <2>2 DEF handles, client, Structure, TypeOK, Became, PromoteVisit
  <1>3. CASE ~Promotable(t) /\ Became(p, "visit", Nobody, {}, line, g[p].n)
    <2>1. Orderly(p, "visit", Nobody, g[p].n, {})
      BY <1>3 DEF Orderly, PromoteVisit
    <2>2. MutexHeld' /\ Placed' /\ WorksOn'
      BY <1>3, <2>1, MoveOrderly DEF handles, PromoteVisit
    <2> QED BY <1>3, <2>2 DEF handles, client, Structure, TypeOK, Became, PromoteVisit
  <1> QED BY <1>1, <1>2, <1>3

LEMMA TallyMoved ==
    ASSUME Structure, NEW p \in Procs, PromoteTally(p)
    PROVE  \/ isActive(g[p].cur) /\ Became(p, "visit", g[p].cur, {}, g[p].line, g[p].n + 1)
           \/ ~isActive(g[p].cur) /\ Became(p, "visit", g[p].cur, {}, g[p].line, g[p].n)
  <1>1. g[p] \in Locals /\ g \in [Procs -> Locals] /\ g[p].todo = {}
    BY DEF Structure, TypeOK, WorksOn, PromoteTally, At
  <1>2. CASE isActive(g[p].cur)
    <2>1. g' = [g EXCEPT ![p].pc = "visit", ![p].n = @ + 1]
      BY <1>2 DEF PromoteTally
    <2> DEFINE r == [g[p] EXCEPT !.pc = "visit", !.n = @ + 1]
    <2>2. /\ r \in Locals /\ r.pc = "visit" /\ r.cur = g[p].cur /\ r.todo = g[p].todo /\ r.line = g[p].line
          /\ r.n = g[p].n + 1
      <3>1. g[p].n \in Int /\ g[p].n + 1 \in Int /\ "visit" \in Labels
        BY <1>1 DEF Locals, Labels
      <3> DEFINE k == g[p].n + 1
      <3>2. k \in Int /\ r = [g[p] EXCEPT !.pc = "visit", !.n = k]
        BY <3>1
      <3> HIDE DEF k, r
      <3>3. r \in Locals /\ r.pc = "visit" /\ r.cur = g[p].cur /\ r.todo = g[p].todo /\ r.line = g[p].line /\ r.n = k
        BY <1>1, <3>1, <3>2 DEF Locals
      <3> QED BY <3>3 DEF k
    <2>3. g' = [g EXCEPT ![p] = r]
      BY <1>1, <2>1
    <2> HIDE DEF r
    <2>4. Became(p, "visit", g[p].cur, {}, g[p].line, g[p].n + 1)
      BY <1>1, <2>2, <2>3, Moved DEF Became, Structure
    <2> QED BY <1>2, <2>4
  <1>3. CASE ~isActive(g[p].cur)
    <2>1. g' = [g EXCEPT ![p].pc = "visit", ![p].n = @]
      BY <1>3 DEF PromoteTally
    <2>2. g' = [g EXCEPT ![p].pc = "visit"]
      BY <1>1, <2>1 DEF Locals
    <2>3. Became(p, "visit", g[p].cur, {}, g[p].line, g[p].n)
      BY <1>1, <2>2 DEF Became, Locals, Labels
    <2> QED BY <1>3, <2>3
  <1> QED BY <1>2, <1>3

LEMMA TallyStructure ==
    ASSUME Structure, NEW p \in Procs, PromoteTally(p)
    PROVE  Structure'
  <1> USE AtFacts DEF At, MutexLabels, PassLabels, QoaLabels, HandlerLabels, Labels
  <1>1. PICK n : Became(p, "visit", g[p].cur, {}, g[p].line, n)
    BY TallyMoved
  <1>2. Orderly(p, "visit", g[p].cur, n, {})
    BY DEF Orderly, PromoteTally
  <1>3. MutexHeld' /\ Placed' /\ WorksOn'
    BY <1>1, <1>2, MoveOrderly DEF handles, PromoteTally
  <1> QED BY <1>1, <1>3 DEF handles, client, Structure, TypeOK, Became, PromoteTally

\* activateDownload returns to its caller.
LEMMA AfterActivateMoved ==
    ASSUME Structure, NEW p \in Procs, NEW b \in BOOLEAN, AfterActivate(p, b)
    PROVE  \/ b /\ mu' = Nobody /\ Became(p, Rest(p), Nobody, {}, <<>>, 0)
           \/ ~b /\ mu' = mu /\ Became(p, "tally", g[p].cur, g[p].todo, g[p].line, g[p].n)
  BY ReturnMoved, GotoMoved DEF AfterActivate, Structure, Labels

LEMMA ActivateCheckMoved ==
    ASSUME Structure, NEW p \in Procs, ActivateCheck(p)
    PROVE  /\ g[p].todo = {} /\ g[p].pc \in {"act", "qoaCount"}
           /\ g[p].pc = "qoaCount" => cap = 0 \/ g[p].n < cap
           /\ UNCHANGED <<cap, handles, client, ops>>
           /\ \/ /\ g[p].cur \in paused /\ g[p].pc = "qoaCount" /\ mu' = Nobody
                 /\ Became(p, Rest(p), Nobody, {}, <<>>, 0)
              \/ /\ g[p].cur \in paused /\ g[p].pc = "act" /\ mu' = mu
                 /\ Became(p, "tally", g[p].cur, {}, g[p].line, g[p].n)
              \/ /\ g[p].cur \notin paused /\ g[p].pc = "qoaCount" /\ mu' = mu
                 /\ Became(p, "qact2", g[p].cur, {}, g[p].line, g[p].n)
              \/ /\ g[p].cur \notin paused /\ g[p].pc = "act" /\ mu' = mu
                 /\ Became(p, "act2", g[p].cur, {}, g[p].line, g[p].n)
  <1>1. /\ g[p].todo = {} /\ g[p].pc \in {"act", "qoaCount"} /\ UNCHANGED <<cap, handles, client, ops>>
        /\ g[p].pc = "qoaCount" => cap = 0 \/ g[p].n < cap
    BY DEF ActivateCheck, Structure, WorksOn, At
  <1>2. CASE g[p].cur \in paused
    <2>1. AfterActivate(p, At(p, "qoaCount")) /\ At(p, "qoaCount") \in BOOLEAN
      BY <1>2 DEF ActivateCheck, At
    <2> QED BY <1>1, <1>2, <2>1, AfterActivateMoved DEF At
  <1>3. CASE g[p].cur \notin paused /\ g[p].pc = "qoaCount"
    <2>1. Goto(p, "qact2") /\ mu' = mu
      BY <1>3 DEF ActivateCheck, At
    <2> QED BY <1>1, <1>3, <2>1, GotoMoved DEF Structure, Labels
  <1>4. CASE g[p].cur \notin paused /\ g[p].pc = "act"
    <2>1. Goto(p, "act2") /\ mu' = mu
      BY <1>4 DEF ActivateCheck, At
    <2> QED BY <1>1, <1>4, <2>1, GotoMoved DEF Structure, Labels
  <1> QED BY <1>1, <1>2, <1>3, <1>4

LEMMA ActivateCheckStructure ==
    ASSUME Structure, NEW p \in Procs, ActivateCheck(p)
    PROVE  Structure'
  <1> USE AtFacts DEF At, MutexLabels, PassLabels, QoaLabels, HandlerLabels, Labels
  <1>1. g[p].cur \in added /\ UNCHANGED <<cap, handles, client, ops>> /\ (g[p].pc = "act" => g[p].cur \in queued)
    BY ActivateCheckMoved DEF Structure, WorksOn
  <1>2. PICK l, c, line, n : /\ Became(p, l, c, {}, line, n) /\ Orderly(p, l, c, n, {})
    <2>1. CASE /\ g[p].pc = "qoaCount" /\ mu' = Nobody /\ Became(p, Rest(p), Nobody, {}, <<>>, 0)
      <3>1. Orderly(p, Rest(p), Nobody, 0, {})
        BY <2>1 DEF Orderly, Rest
      <3> QED BY <2>1, <3>1
    <2>2. CASE g[p].pc = "act" /\ mu' = mu /\ Became(p, "tally", g[p].cur, {}, g[p].line, g[p].n)
      <3>1. Orderly(p, "tally", g[p].cur, g[p].n, {})
        BY <1>1, <2>2 DEF Orderly
      <3> QED BY <2>2, <3>1
    <2>3. CASE g[p].pc = "qoaCount" /\ mu' = mu /\ Became(p, "qact2", g[p].cur, {}, g[p].line, g[p].n)
      <3>1. Orderly(p, "qact2", g[p].cur, g[p].n, {})
        BY <1>1, <2>3 DEF Orderly
      <3> QED BY <2>3, <3>1
    <2>4. CASE g[p].pc = "act" /\ mu' = mu /\ Became(p, "act2", g[p].cur, {}, g[p].line, g[p].n)
      <3>1. Orderly(p, "act2", g[p].cur, g[p].n, {})
        BY <1>1, <2>4 DEF Orderly, handles
      <3> QED BY <2>4, <3>1
    <2> QED BY <2>1, <2>2, <2>3, <2>4, ActivateCheckMoved
  <1>3. MutexHeld' /\ Placed' /\ WorksOn'
    BY <1>1, <1>2, MoveOrderly DEF handles
  <1>4. mu' \in Procs \cup {Nobody}
    BY ActivateCheckMoved DEF Structure, TypeOK
  <1> QED BY <1>1, <1>2, <1>3, <1>4 DEF handles, client, Structure, TypeOK, Became


LEMMA ActivateAllowMoved ==
    ASSUME Structure, NEW p \in Procs, ActivateAllow(p)
    PROVE  /\ g[p].cur \in added /\ g[p].todo = {} /\ g[p].cur \in Torrents
           /\ \/ g[p].pc = "qact2" /\ Became(p, "qact3", g[p].cur, {}, g[p].line, g[p].n)
              \/ g[p].pc = "act2" /\ g[p].cur \in queued /\ Became(p, "act3", g[p].cur, {}, g[p].line, g[p].n)
  <1>1. g[p].cur \in added /\ g[p].todo = {} /\ g[p].cur \in Torrents /\ (g[p].pc = "act2" => g[p].cur \in queued)
    BY DEF ActivateAllow, At, Structure, WorksOn, QoaLabels, PassLabels, TypeOK
  <1>2. CASE g[p].pc = "qact2"
    <2>1. Goto(p, "qact3")
      BY <1>2 DEF ActivateAllow, At
    <2> QED BY <1>1, <1>2, <2>1, GotoMoved DEF Structure, Labels
  <1>3. CASE g[p].pc = "act2"
    <2>1. Goto(p, "act3")
      BY <1>3 DEF ActivateAllow, At
    <2> QED BY <1>1, <1>3, <2>1, GotoMoved DEF Structure, Labels
  <1> QED BY <1>2, <1>3 DEF ActivateAllow, At

LEMMA ActivateAllowStructure ==
    ASSUME Structure, NEW p \in Procs, ActivateAllow(p)
    PROVE  Structure'
  <1> USE AtFacts DEF At, MutexLabels, PassLabels, QoaLabels, HandlerLabels, Labels
  <1>1. PICK l : /\ Became(p, l, g[p].cur, {}, g[p].line, g[p].n)
                 /\ \/ g[p].pc = "qact2" /\ l = "qact3"
                    \/ g[p].pc = "act2" /\ l = "act3" /\ g[p].cur \in queued
    <2>1. CASE g[p].pc = "qact2" /\ Became(p, "qact3", g[p].cur, {}, g[p].line, g[p].n)
      BY <2>1
    <2>2. CASE g[p].pc = "act2" /\ g[p].cur \in queued /\ Became(p, "act3", g[p].cur, {}, g[p].line, g[p].n)
      BY <2>2
    <2> QED BY <2>1, <2>2, ActivateAllowMoved
  <1>2. Orderly(p, l, g[p].cur, g[p].n, {})
    BY <1>1, ActivateAllowMoved DEF Orderly, ActivateAllow, handles
  <1>3. MutexHeld' /\ Placed' /\ WorksOn'
    BY <1>1, <1>2, MoveOrderly DEF handles, ActivateAllow
  <1> QED BY <1>1, <1>3, ActivateAllowMoved DEF handles, Structure, TypeOK, Became, ActivateAllow

LEMMA ActivateFlipMoved ==
    ASSUME Structure, NEW p \in Procs, ActivateFlip(p)
    PROVE  /\ g[p].cur \in added /\ g[p].cur \in Torrents /\ g[p].todo = {} /\ mu = p
           /\ \/ g[p].pc = "qact3" /\ mu' = Nobody /\ Became(p, Rest(p), Nobody, {}, <<>>, 0)
              \/ g[p].pc = "act3" /\ mu' = mu /\ Became(p, "tally", g[p].cur, {}, g[p].line, g[p].n)
  <1>1. g[p].cur \in added /\ g[p].todo = {} /\ g[p].cur \in Torrents /\ mu = p /\ g[p].pc \in {"act3", "qact3"}
    BY DEF ActivateFlip, At, Structure, WorksOn, QoaLabels, PassLabels, TypeOK, MutexHeld, MutexLabels
  <1>2. AfterActivate(p, At(p, "qact3")) /\ At(p, "qact3") \in BOOLEAN
    BY DEF ActivateFlip, At
  <1> QED BY <1>1, <1>2, AfterActivateMoved DEF At

LEMMA ActivateFlipStructure ==
    ASSUME Structure, NEW p \in Procs, ActivateFlip(p)
    PROVE  Structure'
  <1> USE AtFacts DEF At, MutexLabels, PassLabels, QoaLabels, HandlerLabels, Labels
  <1>1. PICK l, c, line, n : /\ Became(p, l, c, {}, line, n) /\ Orderly(p, l, c, n, {})
    <2>1. CASE g[p].pc = "qact3" /\ mu' = Nobody /\ Became(p, Rest(p), Nobody, {}, <<>>, 0)
      <3>1. Orderly(p, Rest(p), Nobody, 0, {})
        BY <2>1, ActivateFlipMoved DEF Orderly, Rest
      <3> QED BY <2>1, <3>1
    <2>2. CASE g[p].pc = "act3" /\ mu' = mu /\ Became(p, "tally", g[p].cur, {}, g[p].line, g[p].n)
      <3>1. Orderly(p, "tally", g[p].cur, g[p].n, {})
        BY <2>2, ActivateFlipMoved DEF Orderly
      <3> QED BY <2>2, <3>1
    <2> QED BY <2>1, <2>2, ActivateFlipMoved
  <1>2. mu = p /\ added' = added
    BY ActivateFlipMoved DEF ActivateFlip
  <1>3. MutexHeld' /\ Placed' /\ WorksOn'
    BY <1>1, <1>2, MoveOrderly
  <1>4. mu' \in Procs \cup {Nobody} /\ wanted' \in [Torrents -> SUBSET Files]
    BY ActivateFlipMoved DEF Structure, TypeOK, ActivateFlip
  <1> QED BY <1>1, <1>3, <1>4 DEF ActivateFlip, Structure, TypeOK, Became

LEMMA ClientStructure ==
    ASSUME Structure, NEW t \in Torrents, GotInfo(t) \/ Completed(t)
    PROVE  Structure'
  BY DEF GotInfo, Completed, handles, Structure, TypeOK, MutexHeld, Placed, WorksOn

(***************************************************************************)
(* The users' handlers.                                                    *)
(***************************************************************************)
LEMMA StartFacts ==
    ASSUME Structure, NEW p \in Pool, NEW op, NEW t, Start(p, op, t)
    PROVE  /\ p \in Procs /\ g[p].pc = "idle" /\ t \in reg /\ t \in added /\ t \in Torrents
           /\ op \in ops.may /\ ops'.may = ops.may
           /\ ops'.woken = (ops.woken \/ op \in {"resume", "select"})
           /\ ops' \in [may : SUBSET Ops, left : Nat, woken : BOOLEAN]
  <1>1. p \in Procs /\ g[p].pc = "idle" /\ t \in reg /\ op \in ops.may /\ ops.left > 0
    BY ProcFacts DEF Start, At
  <1>2. ops \in [may : SUBSET Ops, left : Nat, woken : BOOLEAN] /\ t \in added /\ t \in Torrents
    BY <1>1 DEF Structure, TypeOK
  <1> DEFINE wake == ops.woken \/ op \in {"resume", "select"}
             less == ops.left - 1
  <1>3. ops' = [ops EXCEPT !.left = less, !.woken = wake]
    BY DEF Start
  <1>4. wake \in BOOLEAN
    BY <1>2
  <1>5. less \in Nat
    BY <1>1, <1>2
  <1> HIDE DEF wake, less
  <1>6. ops'.may = ops.may /\ ops'.woken = wake /\ ops' \in [may : SUBSET Ops, left : Nat, woken : BOOLEAN]
    BY <1>2, <1>3, <1>4, <1>5
  <1> QED BY <1>1, <1>2, <1>6 DEF wake

LEMMA PauseStructure ==
    ASSUME Structure, NEW p \in Pool, NEW t \in Torrents, PauseTorrent(p, t)
    PROVE  Structure'
  <1> USE DEF At, MutexLabels, PassLabels, QoaLabels, HandlerLabels, Labels
  <1>1. p \in Procs /\ g[p].pc = "idle" /\ t \in added /\ ops' \in [may : SUBSET Ops, left : Nat, woken : BOOLEAN]
    BY StartFacts DEF PauseTorrent
  <1>2. Became(p, "pause2", t, {}, <<>>, 0)
    BY <1>1, GotoOnMoved DEF PauseTorrent, Structure
  <1>3. Orderly(p, "pause2", t, 0, {})
    BY <1>1, ProcFacts DEF Orderly, PauseTorrent
  <1>4. MutexHeld' /\ Placed' /\ WorksOn'
    BY <1>1, <1>2, <1>3, MoveOrderly DEF PauseTorrent
  <1> QED BY <1>1, <1>2, <1>4 DEF PauseTorrent, client, Structure, TypeOK, Became

LEMMA ResumeStructure ==
    ASSUME Structure, NEW p \in Pool, NEW t \in Torrents, ResumeTorrent(p, t)
    PROVE  Structure'
  <1> USE DEF At, MutexLabels, PassLabels, QoaLabels, HandlerLabels, Labels
  <1>1. p \in Procs /\ g[p].pc = "idle" /\ t \in added /\ ops' \in [may : SUBSET Ops, left : Nat, woken : BOOLEAN]
    BY StartFacts DEF ResumeTorrent
  <1>2. Became(p, "resume2", t, {}, <<>>, 0)
    BY <1>1, GotoOnMoved DEF ResumeTorrent, Structure
  <1>3. Orderly(p, "resume2", t, 0, {})
    BY <1>1, ProcFacts DEF Orderly, ResumeTorrent
  <1>4. MutexHeld' /\ Placed' /\ WorksOn'
    BY <1>1, <1>2, <1>3, MoveOrderly DEF ResumeTorrent
  <1> QED BY <1>1, <1>2, <1>4 DEF ResumeTorrent, client, Structure, TypeOK, Became

LEMMA RemoveStructure ==
    ASSUME Structure, NEW p \in Pool, NEW t \in Torrents, RemoveTorrent(p, t)
    PROVE  Structure'
  <1> USE DEF At, MutexLabels, PassLabels, QoaLabels, HandlerLabels, Labels
  <1>1. p \in Procs /\ g[p].pc = "idle" /\ t \in added /\ ops' \in [may : SUBSET Ops, left : Nat, woken : BOOLEAN]
    BY StartFacts DEF RemoveTorrent
  <1>2. Became(p, "remove2", t, {}, <<>>, 0)
    BY <1>1, GotoOnMoved DEF RemoveTorrent, Structure
  <1>3. Orderly(p, "remove2", t, 0, {})
    BY <1>1, ProcFacts DEF Orderly, RemoveTorrent
  <1>4. MutexHeld' /\ Placed' /\ WorksOn'
    BY <1>1, <1>2, <1>3, MoveOrderly DEF RemoveTorrent
  <1> QED BY <1>1, <1>2, <1>4 DEF RemoveTorrent, client, Structure, TypeOK, Became

LEMMA PriorityStructure ==
    ASSUME Structure, NEW p \in Pool, NEW t \in Torrents, NEW f \in Files, NEW none \in BOOLEAN,
           SetFilePriority(p, t, f, none)
    PROVE  Structure'
  <1> USE DEF At, MutexLabels, PassLabels, QoaLabels, HandlerLabels, Labels
  <1>1. p \in Procs /\ g[p].pc = "idle" /\ t \in added /\ ops' \in [may : SUBSET Ops, left : Nat, woken : BOOLEAN]
    BY StartFacts DEF SetFilePriority
  <1>2. Became(p, "promote", g[p].cur, g[p].todo, g[p].line, g[p].n)
    BY <1>1, GotoMoved DEF SetFilePriority, Structure
  <1>3. Orderly(p, "promote", g[p].cur, g[p].n, g[p].todo)
    BY <1>1, ProcFacts DEF Orderly, SetFilePriority
  <1>4. MutexHeld' /\ Placed' /\ WorksOn'
    BY <1>1, <1>2, <1>3, MoveOrderly DEF SetFilePriority, handles
  <1>5. wanted' \in [Torrents -> SUBSET Files]
    BY DEF SetFilePriority, Structure, TypeOK
  <1> QED BY <1>1, <1>2, <1>4, <1>5 DEF SetFilePriority, handles, Structure, TypeOK, Became

LEMMA SetMaxStructure ==
    ASSUME Structure, NEW p \in Pool, NEW c \in Caps, SetMaxActiveDownloads(p, c)
    PROVE  Structure'
  <1> USE DEF At, MutexLabels, PassLabels, QoaLabels, HandlerLabels, Labels
  <1>1. p \in Procs /\ g[p].pc = "idle" /\ ops \in [may : SUBSET Ops, left : Nat, woken : BOOLEAN]
    BY ProcFacts DEF SetMaxActiveDownloads, Structure, TypeOK
  <1>2. Became(p, "promote", g[p].cur, g[p].todo, g[p].line, g[p].n)
    BY <1>1, GotoMoved DEF SetMaxActiveDownloads, Structure
  <1>3. Orderly(p, "promote", g[p].cur, g[p].n, g[p].todo)
    BY <1>1, ProcFacts DEF Orderly, SetMaxActiveDownloads
  <1>4. MutexHeld' /\ Placed' /\ WorksOn'
    BY <1>1, <1>2, <1>3, MoveOrderly DEF SetMaxActiveDownloads, handles
  <1>5. ops' \in [may : SUBSET Ops, left : Nat, woken : BOOLEAN] /\ cap' \in Nat
    BY <1>1, QueueAssumption DEF SetMaxActiveDownloads
  <1> QED BY <1>1, <1>2, <1>4, <1>5 DEF SetMaxActiveDownloads, handles, client, Structure, TypeOK, Became


\* A finite, non-empty set has an element of least order.
LEMMA LeastExists ==
    ASSUME NEW S, IsFiniteSet(S), S # {}, NEW ord \in [S -> Int]
    PROVE  \E x \in S : \A y \in S : ord[x] <= ord[y]
  <1> DEFINE Below(x) == {u \in S : ord[u] < ord[x]}
             Ranks == {n \in Nat : \E x \in S : n = Cardinality(Below(x))}
  <1>1. ASSUME NEW x \in S PROVE IsFiniteSet(Below(x)) /\ Cardinality(Below(x)) \in Nat
    <2>1. Below(x) \in SUBSET S
      OBVIOUS
    <2>2. IsFiniteSet(Below(x))
      BY <2>1, FS_Subset
    <2> QED BY <2>2, FS_CardinalityType
  <1>2. Ranks \in SUBSET Nat /\ Ranks # {}
    BY <1>1
  <1>3. IsWellFoundedOn({ss \in Nat \X Nat : ss[1] < ss[2]}, Nat)
    BY NatLessThanWellFounded, Zenon DEF OpToRel
  <1>4. PICK m \in Ranks : \A k \in Ranks : ~(<<k, m>> \in {ss \in Nat \X Nat : ss[1] < ss[2]})
    <2> HIDE DEF Ranks
    <2> QED BY <1>2, <1>3, WFMin
  <1>5. PICK x \in S : m = Cardinality(Below(x))
    BY <1>4
  <1>6. ASSUME NEW y \in S PROVE ord[x] <= ord[y]
    <2> SUFFICES ASSUME ord[y] < ord[x] PROVE FALSE
      OBVIOUS
    <2> DEFINE A == Below(x)
               B == Below(y)
    <2>1. y \in A /\ B \in SUBSET (A \ {y})
      OBVIOUS
    <2>2. IsFiniteSet(A) /\ Cardinality(A) \in Nat /\ Cardinality(B) \in Nat
      BY <1>1
    <2>3. Cardinality(B) \in Ranks
      BY <2>2
    <2> HIDE DEF A, B, Ranks
    <2>4. IsFiniteSet(A \ {y}) /\ Cardinality(A \ {y}) = Cardinality(A) - 1
      BY <2>1, <2>2, FS_RemoveElement
    <2>5. Cardinality(B) <= Cardinality(A \ {y})
      BY <2>1, <2>4, FS_Subset
    <2>6. Cardinality(B) < Cardinality(A) /\ m = Cardinality(A)
      BY <1>5, <2>2, <2>4, <2>5 DEF A
    <2>7. <<Cardinality(B), m>> \in {ss \in Nat \X Nat : ss[1] < ss[2]}
      BY <2>2, <2>6
    <2> QED BY <1>4, <2>3, <2>7
  <1> QED BY <1>6

LEMMA ExtremeOrders ==
    ASSUME Structure, reg # {}
    PROVE  MinOrder \in Int /\ MaxOrder \in Int
  <1>1. IsFiniteSet(reg) /\ order \in [Torrents -> Int] /\ reg \subseteq Torrents
    BY QueueAssumption, FS_Subset DEF Structure, TypeOK
  <1>2. Orders \subseteq Int
    BY <1>1 DEF Orders
  <1>3. MinOrder \in Orders
    <2> DEFINE ord == [t \in reg |-> order[t]]
    <2>1. ord \in [reg -> Int]
      BY <1>1
    <2> HIDE DEF ord
    <2>2. PICK x \in reg : \A y \in reg : ord[x] <= ord[y]
      BY <1>1, <2>1, LeastExists
    <2>3. order[x] \in Orders /\ \A q \in Orders : order[x] <= q
      BY <2>2 DEF ord, Orders
    <2> QED BY <2>3 DEF MinOrder
  <1>4. MaxOrder \in Orders
    <2> DEFINE ord == [t \in reg |-> -order[t]]
    <2>1. ord \in [reg -> Int]
      BY <1>1
    <2> HIDE DEF ord
    <2>2. PICK x \in reg : \A y \in reg : ord[x] <= ord[y]
      BY <1>1, <2>1, LeastExists
    <2>3. \A y \in reg : order[x] >= order[y]
      BY <1>1, <2>2 DEF ord
    <2>4. order[x] \in Orders /\ \A q \in Orders : order[x] >= q
      BY <2>3 DEF Orders
    <2> QED BY <2>4 DEF MaxOrder
  <1> QED BY <1>2, <1>3, <1>4

LEMMA QueueMoveMoved ==
    ASSUME Structure, NEW p \in Pool, NEW t \in Torrents, QueueMoveToFront(p, t) \/ QueueMoveToBack(p, t)
    PROVE  /\ p \in Procs /\ g[p].pc = "idle" /\ t \in added /\ ops'.may = ops.may
           /\ ops'.woken = ops.woken
           /\ ops' \in [may : SUBSET Ops, left : Nat, woken : BOOLEAN]
           /\ UNCHANGED <<cap, mu, handles, client>>
           /\ \E n \in Int : Became(p, "front2", t, {}, <<>>, n) \/ Became(p, "back2", t, {}, <<>>, n)
  <1>1. PICK op \in {"front", "back"} : Start(p, op, t)
    BY DEF QueueMoveToFront, QueueMoveToBack
  <1>2. /\ p \in Procs /\ g[p].pc = "idle" /\ t \in reg /\ t \in added /\ ops'.may = ops.may
        /\ ops'.woken = (ops.woken \/ op \in {"resume", "select"})
        /\ ops' \in [may : SUBSET Ops, left : Nat, woken : BOOLEAN]
    BY <1>1, StartFacts
  <1>3. ops'.woken = ops.woken
    BY <1>1, <1>2 DEF Structure, TypeOK
  <1>4. MinOrder \in Int /\ MaxOrder \in Int
    BY <1>2, ExtremeOrders
  <1>5. ASSUME NEW l \in {"front2", "back2"}, NEW n \in Int, g' = [g EXCEPT ![p] = [Local(l, t) EXCEPT !.n = n]]
        PROVE  Became(p, l, t, {}, <<>>, n)
    <2> DEFINE r == [Local(l, t) EXCEPT !.n = n]
    <2>1. r \in Locals /\ r.pc = l /\ r.cur = t /\ r.todo = {} /\ r.line = <<>> /\ r.n = n
      <3> DEFINE b == Local(l, t)
      <3>1. l \in Labels
        BY DEF Labels
      <3>2. b \in Locals /\ b.pc = l /\ b.cur = t /\ b.todo = {} /\ b.line = <<>>
        BY <3>1, LocalTyped
      <3> HIDE DEF b
      <3>3. r = [b EXCEPT !.n = n]
        BY DEF b
      <3> HIDE DEF r
      <3> QED BY <3>2, <3>3 DEF Locals
    <2>2. g' = [g EXCEPT ![p] = r]
      BY <1>5
    <2> HIDE DEF r
    <2> QED BY <1>2, <2>1, <2>2, Moved DEF Became, Structure
  <1>6. CASE QueueMoveToFront(p, t)
    <2> DEFINE n == MinOrder - 1
    <2>1. n \in Int /\ g' = [g EXCEPT ![p] = [Local("front2", t) EXCEPT !.n = n]]
      BY <1>4, <1>6 DEF QueueMoveToFront
    <2> HIDE DEF n
    <2>2. Became(p, "front2", t, {}, <<>>, n)
      BY <1>5, <2>1
    <2> QED BY <1>2, <1>3, <1>6, <2>1, <2>2 DEF QueueMoveToFront
  <1>7. CASE QueueMoveToBack(p, t)
    <2> DEFINE n == MaxOrder + 1
    <2>1. n \in Int /\ g' = [g EXCEPT ![p] = [Local("back2", t) EXCEPT !.n = n]]
      BY <1>4, <1>7 DEF QueueMoveToBack
    <2> HIDE DEF n
    <2>2. Became(p, "back2", t, {}, <<>>, n)
      BY <1>5, <2>1
    <2> QED BY <1>2, <1>3, <1>7, <2>1, <2>2 DEF QueueMoveToBack
  <1> QED BY <1>6, <1>7

LEMMA QueueMoveStructure ==
    ASSUME Structure, NEW p \in Pool, NEW t \in Torrents, QueueMoveToFront(p, t) \/ QueueMoveToBack(p, t)
    PROVE  Structure'
  <1> USE DEF At, MutexLabels, PassLabels, QoaLabels, HandlerLabels, Labels
  <1>1. /\ p \in Procs /\ g[p].pc = "idle" /\ t \in added
        /\ ops' \in [may : SUBSET Ops, left : Nat, woken : BOOLEAN] /\ UNCHANGED <<cap, mu, handles, client>>
    BY QueueMoveMoved
  <1>2. PICK l \in {"front2", "back2"}, n \in Int : Became(p, l, t, {}, <<>>, n)
    BY QueueMoveMoved
  <1>3. Orderly(p, l, t, n, {})
    BY <1>1, ProcFacts DEF Orderly
  <1>4. MutexHeld' /\ Placed' /\ WorksOn'
    BY <1>1, <1>2, <1>3, MoveOrderly DEF handles
  <1> QED BY <1>1, <1>2, <1>4 DEF handles, client, Structure, TypeOK, Became

LEMMA AutoMoved ==
    ASSUME Structure, NEW t \in Torrents, autoDownload(t)
    PROVE  /\ <<"auto", t>> \in Procs /\ g[<<"auto", t>>].pc = "wait" /\ UNCHANGED <<cap, mu, handles, client, ops>>
           /\ t \in added /\ g[<<"auto", t>>].cur = t /\ g[<<"auto", t>>].n = 0
           /\ \/ /\ t \in info
                 /\ Became(<<"auto", t>>, "qoa", t, g[<<"auto", t>>].todo, g[<<"auto", t>>].line, 0)
              \/ /\ t \in removed
                 /\ Became(<<"auto", t>>, "done", Nobody, {}, <<>>, 0)
  <1> DEFINE p == <<"auto", t>>
  <1>1. p \in Procs /\ p \in Autos /\ p \notin Pool
    BY ProcFacts
  <1>2. g[p].pc = "wait" /\ UNCHANGED <<cap, mu, handles, client, ops>>
    BY DEF autoDownload, At
  <1>3. t \in added /\ g[p].cur = t /\ g[p].n = 0
    BY <1>1, <1>2 DEF Structure, Placed, WorksOn
  <1>4. (t \in info /\ Goto(p, "qoa")) \/ (t \in removed /\ Return(p))
    BY DEF autoDownload
  <1> HIDE DEF p
  <1>5. CASE t \in info /\ Goto(p, "qoa")
    <2>1. Became(p, "qoa", g[p].cur, g[p].todo, g[p].line, g[p].n)
      BY <1>1, <1>5, GotoMoved DEF Structure, Labels
    <2> QED BY <1>1, <1>2, <1>3, <1>5, <2>1 DEF p
  <1>6. CASE t \in removed /\ Return(p)
    <2>1. Became(p, Rest(p), Nobody, {}, <<>>, 0) /\ Rest(p) = "done"
      BY <1>1, <1>6, ReturnMoved DEF Structure, Rest
    <2> QED BY <1>1, <1>2, <1>3, <1>6, <2>1 DEF p
  <1> QED BY <1>4, <1>5, <1>6

LEMMA WatchMoved ==
    ASSUME Structure, NEW t \in Torrents, watchCompletion(t)
    PROVE  /\ <<"watch", t>> \in Procs /\ g[<<"watch", t>>].pc = "wait" /\ UNCHANGED <<cap, mu, handles, client, ops>>
           /\ t \in added
           /\ \/ /\ t \in complete
                 /\ Became(<<"watch", t>>, "promote", g[<<"watch", t>>].cur, g[<<"watch", t>>].todo,
                           g[<<"watch", t>>].line, g[<<"watch", t>>].n)
              \/ /\ t \in removed
                 /\ Became(<<"watch", t>>, "done", Nobody, {}, <<>>, 0)
  <1> DEFINE p == <<"watch", t>>
  <1>1. p \in Procs /\ p \notin Autos /\ p \notin Pool
    BY ProcFacts
  <1>2. g[p].pc = "wait" /\ UNCHANGED <<cap, mu, handles, client, ops>>
    BY DEF watchCompletion, At
  <1>3. t \in added
    BY <1>1, <1>2 DEF Structure, Placed
  <1>4. (t \in complete /\ Goto(p, "promote")) \/ (t \in removed /\ Return(p))
    BY DEF watchCompletion
  <1> HIDE DEF p
  <1>5. CASE t \in complete /\ Goto(p, "promote")
    <2>1. Became(p, "promote", g[p].cur, g[p].todo, g[p].line, g[p].n)
      BY <1>1, <1>5, GotoMoved DEF Structure, Labels
    <2> QED BY <1>1, <1>2, <1>3, <1>5, <2>1 DEF p
  <1>6. CASE t \in removed /\ Return(p)
    <2>1. Became(p, Rest(p), Nobody, {}, <<>>, 0) /\ Rest(p) = "done"
      BY <1>1, <1>6, ReturnMoved DEF Structure, Rest
    <2> QED BY <1>1, <1>2, <1>3, <1>6, <2>1 DEF p
  <1> QED BY <1>4, <1>5, <1>6


LEMMA AutoStructure ==
    ASSUME Structure, NEW t \in Torrents, autoDownload(t)
    PROVE  Structure'
  <1> DEFINE p == <<"auto", t>>
  <1>1. /\ p \in Procs /\ p \in Autos /\ p \notin Pool /\ g[p].pc = "wait"
        /\ UNCHANGED <<cap, mu, handles, client, ops>> /\ t \in added /\ g[p].cur = t
    BY AutoMoved, ProcFacts
  <1>2. \/ Became(p, "qoa", t, g[p].todo, g[p].line, 0)
        \/ Became(p, "done", Nobody, {}, <<>>, 0)
    BY AutoMoved
  <1> HIDE DEF p
  <1> USE DEF MutexLabels, PassLabels, QoaLabels, HandlerLabels
  <1>3. CASE Became(p, "qoa", t, g[p].todo, g[p].line, 0)
    <2>1. Orderly(p, "qoa", t, 0, g[p].todo)
      BY <1>1 DEF Orderly
    <2>2. MutexHeld' /\ Placed' /\ WorksOn'
      BY <1>1, <1>3, <2>1, MoveOrderly DEF handles
    <2> QED BY <1>1, <1>3, <2>2 DEF handles, client, Structure, TypeOK, Became
  <1>4. CASE Became(p, "done", Nobody, {}, <<>>, 0)
    <2>1. Orderly(p, "done", Nobody, 0, {})
      BY <1>1 DEF Orderly
    <2>2. MutexHeld' /\ Placed' /\ WorksOn'
      BY <1>1, <1>4, <2>1, MoveOrderly DEF handles
    <2> QED BY <1>1, <1>4, <2>2 DEF handles, client, Structure, TypeOK, Became
  <1> QED BY <1>2, <1>3, <1>4

LEMMA WatchStructure ==
    ASSUME Structure, NEW t \in Torrents, watchCompletion(t)
    PROVE  Structure'
  <1> DEFINE p == <<"watch", t>>
  <1>1. /\ p \in Procs /\ p \notin Autos /\ p \notin Pool /\ g[p].pc = "wait"
        /\ UNCHANGED <<cap, mu, handles, client, ops>> /\ t \in added
    BY WatchMoved, ProcFacts
  <1>2. \/ Became(p, "promote", g[p].cur, g[p].todo, g[p].line, g[p].n)
        \/ Became(p, "done", Nobody, {}, <<>>, 0)
    BY WatchMoved
  <1> HIDE DEF p
  <1> USE DEF MutexLabels, PassLabels, QoaLabels, HandlerLabels
  <1>3. CASE Became(p, "promote", g[p].cur, g[p].todo, g[p].line, g[p].n)
    <2>1. Orderly(p, "promote", g[p].cur, g[p].n, g[p].todo)
      BY <1>1 DEF Orderly
    <2>2. MutexHeld' /\ Placed' /\ WorksOn'
      BY <1>1, <1>3, <2>1, MoveOrderly DEF handles
    <2> QED BY <1>1, <1>3, <2>2 DEF handles, client, Structure, TypeOK, Became
  <1>4. CASE Became(p, "done", Nobody, {}, <<>>, 0)
    <2>1. Orderly(p, "done", Nobody, 0, {})
      BY <1>1 DEF Orderly
    <2>2. MutexHeld' /\ Placed' /\ WorksOn'
      BY <1>1, <1>4, <2>1, MoveOrderly DEF handles
    <2> QED BY <1>1, <1>4, <2>2 DEF handles, client, Structure, TypeOK, Became
  <1> QED BY <1>2, <1>3, <1>4

LEMMA RegisterMoved ==
    ASSUME Structure, NEW p \in Pool, NEW t \in Torrents, NEW known \in BOOLEAN, NEW asPaused \in BOOLEAN,
           registerLockedRestore(p, t, known, asPaused)
    PROVE  /\ p \in Procs /\ g[p].pc = "idle" /\ t \notin added
           /\ g' \in [Procs -> Locals]
           /\ \A q \in Procs \ {p, <<"auto", t>>, <<"watch", t>>} : g'[q] = g[q]
           /\ g'[<<"auto", t>>] = Local("wait", t) /\ g'[<<"watch", t>>] = Local("wait", t)
           /\ g'[p] = IF asPaused THEN Local("restore2", t) ELSE g[p]
           /\ g'[p].pc \in {"idle", "restore2"}
           /\ asPaused => g'[p].pc = "restore2" /\ g'[p].cur = t
           /\ ~asPaused => g'[p] = g[p]
  <1>1. p \in Procs /\ g[p].pc = "idle" /\ t \notin added /\ g \in [Procs -> Locals] /\ g[p] \in Locals
    BY ProcFacts DEF registerLockedRestore, At, Structure, TypeOK
  <1> DEFINE a == <<"auto", t>>
             b == <<"watch", t>>
             r == IF asPaused THEN Local("restore2", t) ELSE g[p]
  <1>2. a \in Procs /\ b \in Procs /\ a # b /\ a # p /\ b # p
    BY ProcFacts
  <1>3. "wait" \in Labels /\ "restore2" \in Labels
    BY DEF Labels
  <1>4. Local("wait", t) \in Locals /\ r \in Locals
    BY <1>1, <1>3, LocalTyped
  <1>5. g' = [g EXCEPT ![a] = Local("wait", t), ![b] = Local("wait", t), ![p] = r]
    BY <1>1, <1>2 DEF registerLockedRestore
  <1>6. Local("restore2", t).pc = "restore2" /\ Local("restore2", t).cur = t
    BY <1>3, LocalTyped
  <1> HIDE DEF a, b, r
  <1>7. /\ g' \in [Procs -> Locals] /\ g'[a] = Local("wait", t) /\ g'[b] = Local("wait", t) /\ g'[p] = r
        /\ \A q \in Procs \ {p, a, b} : g'[q] = g[q]
    BY <1>1, <1>2, <1>4, <1>5
  <1> QED BY <1>1, <1>6, <1>7 DEF a, b, r

LEMMA RegisterStructure ==
    ASSUME Structure, NEW p \in Pool, NEW t \in Torrents, NEW known \in BOOLEAN, NEW asPaused \in BOOLEAN,
           registerLockedRestore(p, t, known, asPaused)
    PROVE  Structure'
  <1> DEFINE a == <<"auto", t>>
             b == <<"watch", t>>
  <1>1. /\ p \in Procs /\ g[p].pc = "idle" /\ t \notin added
        /\ g' \in [Procs -> Locals]
        /\ \A q \in Procs \ {p, a, b} : g'[q] = g[q]
        /\ g'[a] = Local("wait", t) /\ g'[b] = Local("wait", t)
        /\ g'[p].pc \in {"idle", "restore2"}
        /\ asPaused => g'[p].pc = "restore2" /\ g'[p].cur = t
        /\ ~asPaused => g'[p] = g[p]
    BY RegisterMoved
  <1>2. a \in Procs /\ b \in Procs /\ a # b /\ a # p /\ b # p
    BY ProcFacts
  <1>3. /\ g'[a].pc = "wait" /\ g'[a].cur = t /\ g'[a].n = 0 /\ g'[b].pc = "wait"
    BY <1>1, LocalTyped DEF Labels
  <1>4. g[a].pc = "unborn" /\ g[b].pc = "unborn"
    BY <1>1 DEF Structure, Placed
  <1>5. added' = added \cup {t} /\ mu' = mu /\ queued' = queued
    BY DEF registerLockedRestore
  <1> USE DEF MutexLabels, PassLabels, QoaLabels, HandlerLabels
  <1>6. TypeOK'
    <2>1. order' \in [Torrents -> Int] /\ nextOrder' \in Nat
      BY DEF registerLockedRestore, Structure, TypeOK
    <2>2. info' \subseteq added' /\ complete' \subseteq info' /\ paused' \subseteq added'
      BY DEF registerLockedRestore, Structure, TypeOK
    <2> QED BY <1>1, <2>1, <2>2 DEF registerLockedRestore, Structure, TypeOK
  <1>7. MutexHeld'
    <2> SUFFICES ASSUME NEW q \in Procs PROVE g'[q].pc \in MutexLabels <=> mu' = q
      BY DEF MutexHeld
    <2>1. g[q].pc \in MutexLabels <=> mu = q
      BY DEF Structure, MutexHeld
    <2>2. CASE q \notin {p, a, b}
      BY <1>1, <1>5, <2>1, <2>2
    <2>3. CASE q \in {p, a, b}
      <3>1. g'[q].pc \in {"idle", "restore2", "wait"} /\ g[q].pc \in {"idle", "unborn"}
        BY <1>1, <1>3, <1>4, <2>3
      <3> QED BY <1>5, <2>1, <3>1
    <2> QED BY <2>2, <2>3
  <1>8. Placed'
    <2>1. ASSUME NEW q \in Pool PROVE g'[q].pc \notin {"unborn", "wait", "done"}
      <3>1. q # a /\ q # b /\ q \in Procs
        BY ProcFacts
      <3> QED BY <1>1, <3>1 DEF Structure, Placed
    <2>2. ASSUME NEW u \in Torrents
          PROVE  /\ g'[<<"auto", u>>].pc \in {"unborn", "wait", "done"} \cup QoaLabels
                 /\ g'[<<"auto", u>>].pc = "unborn" <=> u \notin added'
                 /\ g'[<<"auto", u>>].pc \notin {"unborn", "done"} => g'[<<"auto", u>>].cur = u
      <3>1. CASE u = t
        BY <1>3, <1>5, <3>1
      <3>2. CASE u # t
        <4>1. <<"auto", u>> \in Procs \ {p, a, b}
          BY <3>2, ProcFacts
        <4>2. g'[<<"auto", u>>] = g[<<"auto", u>>]
          BY <1>1, <4>1
        <4> QED BY <1>5, <3>2, <4>2 DEF Structure, Placed
      <3> QED BY <3>1, <3>2
    <2>3. ASSUME NEW u \in Torrents
          PROVE  /\ g'[<<"watch", u>>].pc \in {"unborn", "wait", "done", "promote"} \cup PassLabels
                 /\ g'[<<"watch", u>>].pc = "unborn" <=> u \notin added'
      <3>1. CASE u = t
        BY <1>3, <1>5, <3>1
      <3>2. CASE u # t
        <4>1. <<"watch", u>> \in Procs \ {p, a, b}
          BY <3>2, ProcFacts
        <4>2. g'[<<"watch", u>>] = g[<<"watch", u>>]
          BY <1>1, <4>1
        <4> QED BY <1>5, <3>2, <4>2 DEF Structure, Placed
      <3> QED BY <3>1, <3>2
    <2> QED BY <2>1, <2>2, <2>3 DEF Placed
  <1>9. WorksOn'
    <2> SUFFICES ASSUME NEW q \in Procs
                 PROVE  /\ g'[q].pc \in (QoaLabels \cup HandlerLabels \cup PassLabels) \ {"visit"} => g'[q].cur \in added'
                        /\ g'[q].pc \in {"resume2", "qoa", "qoaLock"} => g'[q].n = 0
                        /\ q \in Autos /\ g'[q].pc = "wait" => g'[q].n = 0
                        /\ g'[q].pc \in {"act", "act2", "act3", "enq2"} => g'[q].cur \in queued'
                        /\ g'[q].pc \in {"act", "act2", "act3", "tally", "qact2", "qact3"} => g'[q].todo = {}
      BY DEF WorksOn
    <2>1. CASE q \notin {p, a, b}
      BY <1>1, <1>5, <2>1 DEF Structure, WorksOn
    <2>2. CASE q = a
      BY <1>3, <2>2
    <2>3. CASE q = b
      BY <1>3, <2>3, ProcFacts
    <2>4. CASE q = p
      BY <1>1, <1>5, <2>4
    <2> QED BY <2>1, <2>2, <2>3, <2>4
  <1> QED BY <1>6, <1>7, <1>8, <1>9 DEF Structure

LEMMA InitStructure == Init => Structure
  <1> SUFFICES ASSUME Init PROVE Structure
    OBVIOUS
  <1> USE ProcFacts
  <1>1. \A p \in Procs : (IF p \in Pool THEN "idle" ELSE "unborn") \in Labels
    BY DEF Labels
  <1>2. \A p \in Procs : /\ g[p] = Local(IF p \in Pool THEN "idle" ELSE "unborn", Nobody)
                         /\ g[p] \in Locals
                         /\ g[p].pc = IF p \in Pool THEN "idle" ELSE "unborn"
    BY <1>1, LocalTyped DEF Init
  <1>3. g \in [Procs -> Locals]
    BY <1>2 DEF Init
  <1>4. ops \in [may : SUBSET Ops, left : Nat, woken : BOOLEAN]
    <2>1. PICK play \in Plays : ops = [may |-> play.may, left |-> play.left, woken |-> FALSE]
      BY DEF Init
    <2>2. play \in [may : SUBSET Ops, left : Nat]
      BY QueueAssumption
    <2> QED BY <2>1, <2>2
  <1>5. TypeOK
    BY <1>3, <1>4, QueueAssumption DEF Init, TypeOK
  <1>6. MutexHeld /\ Placed /\ WorksOn
    BY <1>2 DEF Init, MutexHeld, MutexLabels, PassLabels, QoaLabels, HandlerLabels, Placed, WorksOn
  <1> QED BY <1>5, <1>6 DEF Structure

LEMMA StructureStep == Structure /\ [Next]_vars => Structure'
  <1> SUFFICES ASSUME Structure, [Next]_vars PROVE Structure'
    OBVIOUS
  <1>1. CASE UNCHANGED vars
    BY <1>1 DEF vars, handles, client, Structure, TypeOK, MutexHeld, Placed, WorksOn
  <1>2. CASE Goroutines
    <2>1. ASSUME NEW t \in Torrents, autoDownload(t) \/ watchCompletion(t) PROVE Structure'
      BY <2>1, AutoStructure, WatchStructure
    <2>2. ASSUME NEW p \in Procs, Step(p) PROVE Structure'
      BY <2>2, DisallowStructure, RemoveDeleteStructure, SetOrderStructure, QoaCheckStructure, QoaLockStructure,
         CountStructure, EnqueueStructure, EnqueueGateStructure, PromoteLockStructure, PromoteDoneStructure,
         VisitStructure, TallyStructure, ActivateCheckStructure, ActivateAllowStructure, ActivateFlipStructure
         DEF Step
    <2> QED BY <1>2, <2>1, <2>2 DEF Goroutines
  <1>3. ASSUME NEW t \in Torrents, GotInfo(t) \/ Completed(t) PROVE Structure'
    BY <1>3, ClientStructure
  <1>4. ASSUME NEW p \in Pool, NEW t \in Torrents, User(p, t) PROVE Structure'
    BY <1>4, RegisterStructure, PauseStructure, ResumeStructure, RemoveStructure, QueueMoveStructure,
       PriorityStructure DEF User
  <1>5. ASSUME NEW p \in Pool, NEW c \in Caps, SetMaxActiveDownloads(p, c) PROVE Structure'
    BY <1>5, SetMaxStructure
  <1> QED BY <1>1, <1>2, <1>3, <1>4, <1>5 DEF Next

\* Every flag, counter and goroutine of the queue keeps its type, one
\* goroutine at a time holds promoteMu, and whoever activates or gates a
\* handle holds it.
THEOREM QueueStructured == Spec => []Structure
  BY InitStructure, StructureStep, PTL DEF Spec


(***************************************************************************)
(* Waiting goroutines: a step of p, and the steps that concern several.    *)
(***************************************************************************)
LEMMA EventsMove ==
    ASSUME Events, Structure', NEW p \in Procs, \A q \in Procs \ {p} : g'[q] = g[q],
           reg' \subseteq reg, added' = added, info \subseteq info', complete \subseteq complete',
           removed \subseteq removed', ops'.may = ops.may,
           \A t \in (reg' \cap removed') \ removed : g'[p].pc = "remove2" /\ g'[p].cur = t,
           g[p].pc = "remove2" => g[p].cur \notin reg' \cap removed,
           \A t \in Torrents : p = <<"auto", t>> /\ g[p].pc = "wait" => t \in info' \cup removed',
           \A t \in Torrents : p = <<"watch", t>> /\ g[p].pc = "wait" => t \in complete' \cup removed'
    PROVE  Events'
  <1> USE ProcFacts DEF Events
  <1>1. PlayKept'
    BY DEF PlayKept
  <1>2. AutoWaits'
    BY DEF AutoWaits, Structure, TypeOK
  <1>3. Watched'
    BY DEF Watched, Structure, TypeOK
  <1>4. RemovalUnderWay'
    <2> SUFFICES ASSUME NEW t \in reg' \cap removed'
                 PROVE  \E q \in Procs : g'[q].pc = "remove2" /\ g'[q].cur = t
      BY DEF RemovalUnderWay
    <2>1. CASE t \in removed
      <3>1. PICK q \in Procs : g[q].pc = "remove2" /\ g[q].cur = t
        BY <2>1 DEF RemovalUnderWay
      <3>2. q # p
        BY <2>1, <3>1
      <3> QED BY <3>1, <3>2
    <2>2. CASE t \notin removed
      BY <2>2
    <2> QED BY <2>1, <2>2
  <1> QED BY <1>1, <1>2, <1>3, <1>4

\* A step of a goroutine moves that goroutine only.
LEMMA StepMoves ==
    ASSUME Structure, NEW p \in Procs, Step(p)
    PROVE  /\ \A q \in Procs \ {p} : g'[q] = g[q]
           /\ g[p].pc \notin {"wait", "idle", "unborn", "done"}
           /\ UNCHANGED <<added, removed, info, complete, ops>>
           /\ reg' = IF g[p].pc = "remove2" THEN reg \ {g[p].cur} ELSE reg
  <1> USE DEF At, handles, client, Structure, Labels
  <1>1. CASE RestoreDisallow(p) \/ PauseDisallow(p) \/ ResumeAllow(p) \/ RemoveDelete(p)
    BY <1>1, ReturnMoved, GotoMoved DEF RestoreDisallow, PauseDisallow, ResumeAllow, RemoveDelete, Became
  <1>2. CASE setQueueOrder(p) \/ QoaCheck(p) \/ Enqueue(p) \/ EnqueueGate(p) \/ PromoteDone(p)
    BY <1>2, ReturnMoved, GotoMoved DEF setQueueOrder, QoaCheck, Enqueue, EnqueueGate, PromoteDone, Became
  <1>3. CASE QoaLock(p) \/ countActive(p) \/ PromoteLock(p) \/ PromoteVisit(p) \/ PromoteTally(p)
    <2>1. \A q \in Procs \ {p} : g'[q] = g[q]
      BY <1>3, QoaLockMoved, CountMoved, PromoteLockMoved, VisitMoved, TallyMoved DEF Became
    <2> QED BY <1>3, <2>1 DEF QoaLock, countActive, PromoteLock, PromoteVisit, PromoteTally
  <1>4. CASE ActivateCheck(p) \/ ActivateAllow(p) \/ ActivateFlip(p)
    <2>1. \A q \in Procs \ {p} : g'[q] = g[q]
      BY <1>4, ActivateCheckMoved, ActivateAllowMoved, ActivateFlipMoved DEF Became
    <2> QED BY <1>4, <2>1 DEF ActivateCheck, ActivateAllow, ActivateFlip
  <1> QED BY <1>1, <1>2, <1>3, <1>4 DEF Step

LEMMA RegisterEvents ==
    ASSUME Events, Structure', NEW p \in Pool, NEW u \in Torrents, NEW known \in BOOLEAN, NEW asPaused \in BOOLEAN,
           registerLockedRestore(p, u, known, asPaused)
    PROVE  Events'
  <1> USE DEF Events
  <1> DEFINE a == <<"auto", u>>
             b == <<"watch", u>>
  <1>1. /\ p \in Procs /\ g[p].pc = "idle" /\ u \notin added
        /\ \A q \in Procs \ {p, a, b} : g'[q] = g[q]
        /\ g'[a] = Local("wait", u) /\ g'[b] = Local("wait", u)
    BY RegisterMoved
  <1>2. a \in Procs /\ b \in Procs /\ g'[a].pc = "wait" /\ g'[b].pc = "wait"
    BY <1>1, LocalTyped, ProcFacts DEF Labels
  <1>3. g[a].pc = "unborn" /\ g[b].pc = "unborn"
    BY <1>1 DEF Structure, Placed
  <1>4. /\ reg' = reg \cup {u} /\ added' = added \cup {u} /\ info \subseteq info'
        /\ UNCHANGED <<removed, complete, ops>>
    BY DEF registerLockedRestore
  <1>5. u \notin removed
    BY <1>1 DEF Structure, TypeOK
  <1>6. ASSUME NEW t \in Torrents, t # u
        PROVE  g'[<<"auto", t>>] = g[<<"auto", t>>] /\ g'[<<"watch", t>>] = g[<<"watch", t>>]
    <2>1. <<"auto", t>> \in Procs \ {p, a, b} /\ <<"watch", t>> \in Procs \ {p, a, b}
      BY <1>6, ProcFacts
    <2> QED BY <1>1, <2>1
  <1>7. PlayKept' /\ RemovalUnderWay'
    <2>1. \A q \in Procs : g[q].pc = "remove2" => g'[q] = g[q]
      BY <1>1, <1>3
    <2> QED BY <1>4, <1>5, <2>1 DEF PlayKept, RemovalUnderWay
  <1>8. AutoWaits'
    BY <1>2, <1>4, <1>6 DEF AutoWaits, Structure, TypeOK
  <1>9. Watched'
    BY <1>2, <1>4, <1>6 DEF Watched, Structure, TypeOK
  <1> QED BY <1>7, <1>8, <1>9

LEMMA InitEvents == Init => Events
  <1> SUFFICES ASSUME Init PROVE Events
    OBVIOUS
  <1>1. PlayKept
    BY DEF Init, PlayKept
  <1>2. AutoWaits /\ Watched /\ RemovalUnderWay
    BY DEF Init, AutoWaits, Watched, RemovalUnderWay
  <1> QED BY <1>1, <1>2, InitStructure DEF Events

LEMMA EventsStep == Events /\ [Next]_vars => Events'
  <1> SUFFICES ASSUME Events, [Next]_vars PROVE Events'
    OBVIOUS
  <1>0. Structure /\ Structure'
    BY StructureStep DEF Events
  <1>1. CASE UNCHANGED vars
    BY <1>0, <1>1 DEF vars, handles, client, Events, PlayKept, AutoWaits, Watched, RemovalUnderWay
  <1>2. ASSUME NEW t \in Torrents, autoDownload(t) PROVE Events'
    <2> DEFINE p == <<"auto", t>>
    <2>1. /\ p \in Procs /\ UNCHANGED <<reg, added, removed, info, complete, ops>> /\ g[p].pc = "wait"
          /\ \A q \in Procs \ {p} : g'[q] = g[q]
          /\ t \in info \cup removed
      BY <1>0, <1>2, AutoMoved DEF handles, client, Became
    <2>2. \A u \in Torrents : (p = <<"auto", u>> => u = t) /\ p # <<"watch", u>>
      BY ProcFacts
    <2> HIDE DEF p
    <2> QED BY <1>0, <2>1, <2>2, EventsMove
  <1>3. ASSUME NEW t \in Torrents, watchCompletion(t) PROVE Events'
    <2> DEFINE p == <<"watch", t>>
    <2>1. /\ p \in Procs /\ UNCHANGED <<reg, added, removed, info, complete, ops>> /\ g[p].pc = "wait"
          /\ \A q \in Procs \ {p} : g'[q] = g[q]
          /\ t \in complete \cup removed
      BY <1>0, <1>3, WatchMoved DEF handles, client, Became
    <2>2. \A u \in Torrents : (p = <<"watch", u>> => u = t) /\ p # <<"auto", u>>
      BY ProcFacts
    <2> HIDE DEF p
    <2> QED BY <1>0, <2>1, <2>2, EventsMove
  <1>4. ASSUME NEW p \in Procs, Step(p) PROVE Events'
    BY <1>0, <1>4, StepMoves, EventsMove
  <1>5. ASSUME NEW t \in Torrents, GotInfo(t) \/ Completed(t) PROVE Events'
    <2>1. /\ UNCHANGED <<reg, added, removed, g, ops>> /\ info \subseteq info' /\ complete \subseteq complete'
      BY <1>5 DEF GotInfo, Completed, handles
    <2> QED BY <1>0, <2>1 DEF Events, PlayKept, AutoWaits, Watched, RemovalUnderWay
  <1>6. ASSUME NEW p \in Pool, NEW t \in Torrents, User(p, t) PROVE Events'
    <2>1. CASE \E known, asPaused \in BOOLEAN : registerLockedRestore(p, t, known, asPaused)
      BY <1>0, <2>1, RegisterEvents
    <2>2. CASE RemoveTorrent(p, t)
      <3>1. /\ p \in Procs /\ g[p].pc = "idle" /\ ops'.may = ops.may /\ removed' = removed \cup {t}
            /\ UNCHANGED <<reg, added, info, complete>>
        BY <1>0, <2>2, StartFacts DEF RemoveTorrent, client
      <3>2. Became(p, "remove2", t, {}, <<>>, 0)
        BY <1>0, <2>2, <3>1, GotoOnMoved DEF RemoveTorrent, Structure, Labels
      <3> QED BY <1>0, <3>1, <3>2, EventsMove DEF Became
    <2>3. CASE /\ ~(\E known, asPaused \in BOOLEAN : registerLockedRestore(p, t, known, asPaused))
               /\ ~RemoveTorrent(p, t)
      <3>1. /\ p \in Procs /\ g[p].pc = "idle" /\ ops'.may = ops.may
            /\ UNCHANGED <<reg, added, removed, info, complete>>
        BY <1>0, <1>6, <2>3, StartFacts, QueueMoveMoved
           DEF User, PauseTorrent, ResumeTorrent, SetFilePriority, client, handles
      <3>2. \A q \in Procs \ {p} : g'[q] = g[q]
        BY <1>0, <1>6, <2>3, <3>1, GotoOnMoved, GotoMoved, QueueMoveMoved
           DEF User, PauseTorrent, ResumeTorrent, SetFilePriority, Became, Structure, Labels
      <3> QED BY <1>0, <3>1, <3>2, EventsMove
    <2> QED BY <2>1, <2>2, <2>3
  <1>7. ASSUME NEW p \in Pool, NEW c \in Caps, SetMaxActiveDownloads(p, c) PROVE Events'
    <2>1. ops \in [may : SUBSET Ops, left : Nat, woken : BOOLEAN] /\ ops' = [ops EXCEPT !.left = @ - 1]
      BY <1>0, <1>7 DEF Structure, TypeOK, SetMaxActiveDownloads
    <2>2. ops'.may = ops.may
      BY <2>1
    <2>3. p \in Procs /\ g[p].pc = "idle" /\ UNCHANGED <<reg, added, removed, info, complete>>
      BY <1>7, ProcFacts DEF SetMaxActiveDownloads, At, handles, client
    <2>4. \A q \in Procs \ {p} : g'[q] = g[q]
      BY <1>0, <1>7, <2>3, GotoMoved DEF SetMaxActiveDownloads, Became, Structure, Labels
    <2> QED BY <1>0, <2>2, <2>3, <2>4, EventsMove
  <1> QED BY <1>1, <1>2, <1>3, <1>4, <1>5, <1>6, <1>7 DEF Next, Goroutines

(***************************************************************************)
(* The cap: who is undecided, settled and gated after a step of p.         *)
(***************************************************************************)
Deciding == QoaLabels \cup {"resume2"}

\* p, in its present place, is why its torrent is undecided.
Decides(p) == g[p].pc \in Deciding \/ (p \in Autos /\ g[p].pc = "wait")

LEMMA UndecidedMove ==
    ASSUME Structure, NEW p \in Procs, NEW l, NEW c, NEW todo, NEW line, NEW n,
           Became(p, l, c, todo, line, n), NEW t \in Torrents
    PROVE  /\ l \in Deciding /\ c = t => Undecided(t)'
           /\ Undecided(t) => Undecided(t)' \/ (Decides(p) /\ g[p].cur = t)
           /\ Undecided(t)' => Undecided(t) \/ l \in Deciding \/ l = "wait"
  <1> USE ProcFacts DEF Became, Decides, Deciding
  <1>1. l \in Deciding /\ c = t => Undecided(t)'
    BY DEF Undecided
  <1>2. Undecided(t) => Undecided(t)' \/ (Decides(p) /\ g[p].cur = t)
    <2>1. ASSUME NEW q \in Procs, g[q].cur = t, g[q].pc \in Deciding
          PROVE  Undecided(t)' \/ (Decides(p) /\ g[p].cur = t)
      BY <2>1 DEF Undecided
    <2>2. ASSUME g[<<"auto", t>>].pc = "wait"
          PROVE  Undecided(t)' \/ (Decides(p) /\ g[p].cur = t)
      <3>1. g[<<"auto", t>>].cur = t
        BY <2>2 DEF Structure, Placed
      <3> QED BY <2>2, <3>1 DEF Undecided
    <2> QED BY <2>1, <2>2 DEF Undecided
  <1>3. Undecided(t)' => Undecided(t) \/ l \in Deciding \/ l = "wait"
    BY DEF Undecided
  <1> QED BY <1>1, <1>2, <1>3

\* p's torrent stays undecided, or no longer counts.
StaysDecided(p, l, c) ==
    Decides(p) => (l \in Deciding /\ c = g[p].cur) \/ g[p].cur \in paused \cup queued' \cup removed

Flags == <<reg, added, removed, paused, queued, info, complete, wanted>>

\* A step that writes no flag a count reads.
LEMMA QuietMove ==
    ASSUME CapInv, NEW p \in Procs, NEW l, NEW c, NEW todo, NEW line, NEW n,
           Became(p, l, c, todo, line, n), UNCHANGED Flags, ops'.may = ops.may,
           StaysDecided(p, l, c)
    PROVE  FilesWanted' /\ Settled' \subseteq Settled
  <1> USE ProcFacts DEF CapInv, Events, Flags
  <1>4. \A t \in Torrents : isActive(t)' = isActive(t)
    BY DEF isActive
  <1>5. ASSUME NEW t \in Torrents, Undecided(t), ~Undecided(t)' PROVE t \in paused \cup queued \cup removed
    <2>1. Decides(p) /\ g[p].cur = t /\ ~(l \in Deciding /\ c = t)
      BY <1>5, UndecidedMove
    <2> QED BY <2>1 DEF StaysDecided
  <1>6. FilesWanted'
    BY <1>5 DEF FilesWanted, Structure, TypeOK
  <1>7. Settled' \subseteq Settled
    <2> SUFFICES ASSUME NEW t \in Settled' PROVE t \in Settled
      OBVIOUS
    <2>1. t \in (reg \cap info) \ removed /\ isActive(t)' /\ ~Undecided(t)' /\ t \in Torrents
      BY DEF Settled, Structure, TypeOK
    <2>2. isActive(t) /\ t \notin paused \cup queued \cup removed
      BY <1>4, <2>1 DEF isActive
    <2> QED BY <1>5, <2>1, <2>2 DEF Settled
  <1> QED BY <1>6, <1>7

\* Where promoteMu's holder has counted.
CountLabels == {"qoaCount", "visit", "qact2", "qact3", "act", "act2", "act3", "tally"}

LEMMA SettledFinite ==
    ASSUME Structure
    PROVE  IsFiniteSet(Settled) /\ \A S \in SUBSET Settled : IsFiniteSet(S) /\ Cardinality(S) \in Nat
  <1>1. Settled \in SUBSET Torrents
    BY DEF Settled, Structure, TypeOK
  <1>2. IsFiniteSet(Settled)
    BY <1>1, QueueAssumption, FS_Subset
  <1> QED BY <1>2, FS_Subset, FS_CardinalityType

\* No new torrent is settled, and every counter stays.
LEMMA CountedShrinks ==
    ASSUME Structure, Structure', Counted, cap' = cap, Settled' \subseteq Settled,
           \A q \in Procs : g'[q].pc \in CountLabels => g'[q] = g[q]
    PROVE  Counted'
  <1>1. ASSUME NEW S PROVE Cardinality(Settled' \ S) \in Nat /\ Cardinality(Settled \ S) \in Nat
                           /\ Cardinality(Settled' \ S) <= Cardinality(Settled \ S)
    <2>1. IsFiniteSet(Settled \ S) /\ (Settled' \ S) \in SUBSET (Settled \ S)
      BY SettledFinite
    <2> QED BY <2>1, FS_Subset, FS_CardinalityType
  <1>2. Cardinality(Settled') \in Nat /\ Cardinality(Settled) \in Nat /\ Cardinality(Settled') <= Cardinality(Settled)
    BY SettledFinite, FS_Subset, FS_CardinalityType
  <1> SUFFICES ASSUME cap > 0 PROVE Counted'
    BY DEF Counted
  <1>3. Cardinality(Settled') <= cap
    BY <1>2 DEF Counted, Structure, TypeOK
  <1>4. ASSUME NEW q \in Procs
        PROVE  /\ g'[q].pc \in {"qoaCount", "visit"} => Cardinality(Settled' \ g'[q].todo) <= g'[q].n
               /\ g'[q].pc \in {"qact2", "qact3", "act", "act2", "act3", "tally"} =>
                   Cardinality(Settled' \ {g'[q].cur}) <= g'[q].n /\ g'[q].n < cap
    <2> SUFFICES ASSUME g'[q].pc \in CountLabels
                 PROVE  /\ g'[q].pc \in {"qoaCount", "visit"} => Cardinality(Settled' \ g'[q].todo) <= g'[q].n
                        /\ g'[q].pc \in {"qact2", "qact3", "act", "act2", "act3", "tally"} =>
                            Cardinality(Settled' \ {g'[q].cur}) <= g'[q].n /\ g'[q].n < cap
      BY DEF CountLabels
    <2>1. g'[q] = g[q] /\ g[q].n \in Int
      BY DEF Structure, TypeOK, Locals
    <2>2. CASE g[q].pc \in {"qoaCount", "visit"}
      <3>1. Cardinality(Settled \ g[q].todo) <= g[q].n
        BY <2>2 DEF Counted
      <3>2. Cardinality(Settled' \ g[q].todo) <= g[q].n
        <4> DEFINE S == g[q].todo
        <4> HIDE DEF S
        <4>1. /\ Cardinality(Settled' \ S) \in Nat /\ Cardinality(Settled \ S) \in Nat
              /\ Cardinality(Settled' \ S) <= Cardinality(Settled \ S)
          BY <1>1
        <4> QED BY <2>1, <3>1, <4>1 DEF S
      <3> QED BY <2>1, <2>2, <3>2
    <2>3. CASE g[q].pc \in {"qact2", "qact3", "act", "act2", "act3", "tally"}
      <3>1. Cardinality(Settled \ {g[q].cur}) <= g[q].n /\ g[q].n < cap
        BY <2>3 DEF Counted
      <3>2. Cardinality(Settled' \ {g[q].cur}) <= g[q].n
        <4> DEFINE S == {g[q].cur}
        <4> HIDE DEF S
        <4>1. /\ Cardinality(Settled' \ S) \in Nat /\ Cardinality(Settled \ S) \in Nat
              /\ Cardinality(Settled' \ S) <= Cardinality(Settled \ S)
          BY <1>1
        <4> QED BY <2>1, <3>1, <4>1 DEF S
      <3> QED BY <2>1, <2>3, <3>1, <3>2
    <2> QED BY <2>1, <2>2, <2>3 DEF CountLabels
  <1> QED BY <1>3, <1>4 DEF Counted

Gating == Deciding \cup {"act3"}

LEMMA GatedMove ==
    ASSUME Gated, NEW p \in Procs, NEW l, NEW c, NEW todo, NEW line, NEW n,
           Became(p, l, c, todo, line, n),
           \A t \in (queued' \cap allowed') \ paused' :
               t \in (queued \cap allowed) \ paused \/ (t = c /\ l \in Gating),
           g[p].pc \in Gating =>
               (l \in Gating /\ c = g[p].cur) \/ g[p].cur \notin (queued' \cap allowed') \ paused'
    PROVE  Gated'
  BY DEF Gated, Gating, Deciding, Became


\* What a step does to the gate of the client, if it keeps Gated.
GateKept(p, l, c) ==
    /\ \A t \in (queued' \cap allowed') \ paused' :
           t \in (queued \cap allowed) \ paused \/ (t = c /\ l \in Gating)
    /\ g[p].pc \in Gating =>
           (l \in Gating /\ c = g[p].cur) \/ g[p].cur \notin (queued' \cap allowed') \ paused'

\* A quiet step of a goroutine that is not counting afterwards.
LEMMA QuietCap ==
    ASSUME CapInv, Events', NEW p \in Procs, NEW l, NEW c, NEW todo, NEW line, NEW n,
           Became(p, l, c, todo, line, n), UNCHANGED Flags, cap' = cap, ops'.may = ops.may,
           StaysDecided(p, l, c), l \notin CountLabels, GateKept(p, l, c)
    PROVE  CapInv'
  <1>1. FilesWanted' /\ Settled' \subseteq Settled
    BY QuietMove
  <1>2. \A q \in Procs : g'[q].pc \in CountLabels => g'[q] = g[q]
    BY DEF Became
  <1>3. Counted'
    BY <1>1, <1>2, CountedShrinks DEF CapInv, Events
  <1>4. Gated'
    BY GatedMove DEF GateKept, CapInv
  <1> QED BY <1>1, <1>3, <1>4 DEF CapInv, Events

LEMMA DisallowCap ==
    ASSUME CapInv, Events', NEW p \in Procs, RestoreDisallow(p) \/ PauseDisallow(p) \/ ResumeAllow(p)
    PROVE  CapInv'
  <1> USE AtFacts DEF CapInv, Events, At, CountLabels, QoaLabels, Deciding, Gating, Labels, handles
  <1>1. CASE RestoreDisallow(p)
    <2>1. Became(p, Rest(p), Nobody, {}, <<>>, 0)
      BY <1>1, ReturnMoved DEF RestoreDisallow
    <2>2. UNCHANGED Flags /\ cap' = cap /\ ops' = ops
      BY <1>1 DEF RestoreDisallow, Flags
    <2>3. StaysDecided(p, Rest(p), Nobody) /\ GateKept(p, Rest(p), Nobody) /\ Rest(p) \notin CountLabels
      BY <1>1 DEF RestoreDisallow, StaysDecided, Decides, GateKept, Rest
    <2> QED BY <1>1, <2>1, <2>2, <2>3, QuietCap DEF RestoreDisallow
  <1>2. CASE PauseDisallow(p)
    <2>1. Became(p, "promote", g[p].cur, g[p].todo, g[p].line, g[p].n)
      BY <1>2, GotoMoved DEF PauseDisallow
    <2>2. UNCHANGED Flags /\ cap' = cap /\ ops' = ops
      BY <1>2 DEF PauseDisallow, Flags
    <2>3. StaysDecided(p, "promote", g[p].cur) /\ GateKept(p, "promote", g[p].cur)
      BY <1>2 DEF PauseDisallow, StaysDecided, Decides, GateKept
    <2> QED BY <1>2, <2>1, <2>2, <2>3, QuietCap DEF PauseDisallow
  <1>3. CASE ResumeAllow(p)
    <2>1. Became(p, "qoa", g[p].cur, g[p].todo, g[p].line, g[p].n)
      BY <1>3, GotoMoved DEF ResumeAllow
    <2>2. UNCHANGED Flags /\ cap' = cap /\ ops' = ops
      BY <1>3 DEF ResumeAllow, Flags
    <2>3. StaysDecided(p, "qoa", g[p].cur) /\ GateKept(p, "qoa", g[p].cur)
      BY <1>3 DEF ResumeAllow, StaysDecided, Decides, GateKept
    <2> QED BY <1>3, <2>1, <2>2, <2>3, QuietCap DEF ResumeAllow
  <1> QED BY <1>1, <1>2, <1>3

LEMMA SetOrderCap ==
    ASSUME CapInv, Events', NEW p \in Procs, setQueueOrder(p)
    PROVE  CapInv'
  <1> USE AtFacts DEF CapInv, Events, At, CountLabels, QoaLabels, Deciding, Gating, Labels
  <1>1. UNCHANGED Flags /\ cap' = cap /\ ops' = ops /\ allowed' = allowed
    BY DEF setQueueOrder, Flags, client
  <1>2. CASE At(p, "front2")
    <2>1. Became(p, "promote", g[p].cur, g[p].todo, g[p].line, g[p].n)
      BY <1>2, GotoMoved DEF setQueueOrder
    <2>2. StaysDecided(p, "promote", g[p].cur) /\ GateKept(p, "promote", g[p].cur)
      BY <1>1, <1>2 DEF Flags, StaysDecided, Decides, GateKept
    <2> QED BY <1>1, <1>2, <2>1, <2>2, QuietCap
  <1>3. CASE g[p].pc = "back2"
    <2>1. Became(p, Rest(p), Nobody, {}, <<>>, 0)
      BY <1>3, ReturnMoved DEF setQueueOrder
    <2>2. StaysDecided(p, Rest(p), Nobody) /\ GateKept(p, Rest(p), Nobody) /\ Rest(p) \notin CountLabels
      BY <1>1, <1>3 DEF Flags, StaysDecided, Decides, GateKept, Rest
    <2> QED BY <1>1, <1>3, <2>1, <2>2, QuietCap
  <1> QED BY <1>2, <1>3 DEF setQueueOrder

LEMMA QoaCheckCap ==
    ASSUME CapInv, Events', NEW p \in Procs, QoaCheck(p)
    PROVE  CapInv'
  <1> USE AtFacts DEF CapInv, Events, At, CountLabels, QoaLabels, Deciding, Gating, Labels
  <1>1. UNCHANGED Flags /\ cap' = cap /\ ops' = ops /\ allowed' = allowed /\ g[p].pc = "qoa"
    BY DEF QoaCheck, Flags, client, handles
  <1>2. CASE g[p].cur \in paused
    <2>1. Became(p, Rest(p), Nobody, {}, <<>>, 0)
      BY <1>2, ReturnMoved DEF QoaCheck
    <2>2. StaysDecided(p, Rest(p), Nobody) /\ GateKept(p, Rest(p), Nobody) /\ Rest(p) \notin CountLabels
      BY <1>1, <1>2 DEF Flags, StaysDecided, Decides, GateKept, Rest
    <2> QED BY <1>1, <1>2, <2>1, <2>2, QuietCap
  <1>3. CASE g[p].cur \notin paused
    <2>1. Became(p, "qoaLock", g[p].cur, g[p].todo, g[p].line, g[p].n)
      BY <1>3, GotoMoved DEF QoaCheck
    <2>2. StaysDecided(p, "qoaLock", g[p].cur) /\ GateKept(p, "qoaLock", g[p].cur)
      BY <1>1, <1>3 DEF Flags, StaysDecided, Decides, GateKept
    <2> QED BY <1>1, <1>3, <2>1, <2>2, QuietCap
  <1> QED BY <1>2, <1>3

LEMMA AutoCap ==
    ASSUME CapInv, Events', NEW t \in Torrents, autoDownload(t)
    PROVE  CapInv'
  <1> USE DEF CapInv, Events, CountLabels, QoaLabels, Deciding, Gating
  <1> DEFINE p == <<"auto", t>>
  <1>1. /\ p \in Procs /\ p \in Autos /\ g[p].pc = "wait" /\ g[p].cur = t
        /\ UNCHANGED Flags /\ cap' = cap /\ ops' = ops /\ allowed' = allowed
    BY AutoMoved, ProcFacts DEF Flags, client, handles
  <1>2. \/ t \in info /\ Became(p, "qoa", t, g[p].todo, g[p].line, 0)
        \/ t \in removed /\ Became(p, "done", Nobody, {}, <<>>, 0)
    BY AutoMoved
  <1> HIDE DEF p
  <1>3. CASE t \in info /\ Became(p, "qoa", t, g[p].todo, g[p].line, 0)
    <2>1. StaysDecided(p, "qoa", t) /\ GateKept(p, "qoa", t)
      BY <1>1 DEF Flags, StaysDecided, Decides, GateKept
    <2> QED BY <1>1, <1>3, <2>1, QuietCap
  <1>4. CASE t \in removed /\ Became(p, "done", Nobody, {}, <<>>, 0)
    <2>1. StaysDecided(p, "done", Nobody) /\ GateKept(p, "done", Nobody)
      BY <1>1, <1>4 DEF Flags, StaysDecided, Decides, GateKept
    <2> QED BY <1>1, <1>4, <2>1, QuietCap
  <1> QED BY <1>2, <1>3, <1>4

LEMMA WatchCap ==
    ASSUME CapInv, Events', NEW t \in Torrents, watchCompletion(t)
    PROVE  CapInv'
  <1> USE DEF CapInv, Events, CountLabels, QoaLabels, Deciding, Gating
  <1> DEFINE p == <<"watch", t>>
  <1>1. /\ p \in Procs /\ p \notin Autos /\ g[p].pc = "wait"
        /\ UNCHANGED Flags /\ cap' = cap /\ ops' = ops /\ allowed' = allowed
    BY WatchMoved, ProcFacts DEF Flags, client, handles
  <1>2. \/ Became(p, "promote", g[p].cur, g[p].todo, g[p].line, g[p].n)
        \/ Became(p, "done", Nobody, {}, <<>>, 0)
    BY WatchMoved
  <1> HIDE DEF p
  <1>3. StaysDecided(p, "promote", g[p].cur) /\ GateKept(p, "promote", g[p].cur)
    BY <1>1 DEF Flags, StaysDecided, Decides, GateKept
  <1>4. StaysDecided(p, "done", Nobody) /\ GateKept(p, "done", Nobody)
    BY <1>1 DEF Flags, StaysDecided, Decides, GateKept
  <1> QED BY <1>1, <1>2, <1>3, <1>4, QuietCap

LEMMA QueueMoveCap ==
    ASSUME CapInv, Events', NEW p \in Pool, NEW t \in Torrents, QueueMoveToFront(p, t) \/ QueueMoveToBack(p, t)
    PROVE  CapInv'
  <1> USE DEF CapInv, Events, CountLabels, QoaLabels, Deciding, Gating
  <1>1. /\ p \in Procs /\ p \notin Autos /\ g[p].pc = "idle"
        /\ UNCHANGED Flags /\ cap' = cap /\ ops'.may = ops.may /\ allowed' = allowed
    BY QueueMoveMoved, ProcFacts DEF Flags, client, handles
  <1>2. PICK l \in {"front2", "back2"}, n \in Int : Became(p, l, t, {}, <<>>, n)
    BY QueueMoveMoved
  <1>3. StaysDecided(p, l, t) /\ GateKept(p, l, t)
    BY <1>1 DEF Flags, StaysDecided, Decides, GateKept
  <1> QED BY <1>1, <1>2, <1>3, QuietCap


\* A raised cap is kept as well; nobody counts while it changes.
LEMMA SetMaxCap ==
    ASSUME CapInv, Events', NEW p \in Pool, NEW c \in Caps, SetMaxActiveDownloads(p, c), CapRaised
    PROVE  CapInv'
  <1> USE DEF CapInv, Events, CountLabels, QoaLabels, Deciding, Gating
  <1>1. /\ p \in Procs /\ p \notin Autos /\ g[p].pc = "idle" /\ mu = Nobody
        /\ UNCHANGED Flags /\ allowed' = allowed /\ ops'.may = ops.may
    <2>1. ops \in [may : SUBSET Ops, left : Nat, woken : BOOLEAN] /\ ops' = [ops EXCEPT !.left = @ - 1]
      BY DEF Structure, TypeOK, SetMaxActiveDownloads
    <2>2. ops'.may = ops.may
      BY <2>1
    <2> QED BY <2>2, ProcFacts DEF SetMaxActiveDownloads, At, Flags, client, handles
  <1>2. Became(p, "promote", g[p].cur, g[p].todo, g[p].line, g[p].n)
    BY <1>1, GotoMoved DEF SetMaxActiveDownloads, Structure, Labels
  <1>3. StaysDecided(p, "promote", g[p].cur) /\ GateKept(p, "promote", g[p].cur)
    BY <1>1 DEF Flags, StaysDecided, Decides, GateKept
  <1>4. FilesWanted' /\ Settled' \subseteq Settled
    BY <1>1, <1>2, <1>3, QuietMove
  <1>5. Gated'
    BY <1>1, <1>2, <1>3, GatedMove DEF GateKept
  <1>6. Counted'
    <2> SUFFICES ASSUME cap' > 0 PROVE Counted'
      BY DEF Counted
    <2>1. cap > 0 /\ cap' >= cap /\ cap \in Nat /\ cap' \in Nat
      BY DEF CapRaised, Structure, TypeOK
    <2>2. Cardinality(Settled') <= Cardinality(Settled) /\ Cardinality(Settled) \in Nat /\ Cardinality(Settled') \in Nat
      BY <1>4, SettledFinite, FS_Subset, FS_CardinalityType
    <2>3. Cardinality(Settled') <= cap'
      BY <2>1, <2>2 DEF Counted
    <2>4. \A q \in Procs : g'[q].pc \notin CountLabels
      BY <1>1, <1>2, ProcFacts DEF Became, Structure, MutexHeld, MutexLabels, PassLabels
    <2> QED BY <2>3, <2>4 DEF Counted
  <1> QED BY <1>4, <1>5, <1>6

\* The network: metadata arrives while autoDownload waits for it, and a
\* complete torrent is no longer active.
LEMMA ClientCap ==
    ASSUME CapInv, Events', NEW u \in Torrents, GotInfo(u) \/ Completed(u)
    PROVE  CapInv'
  <1> USE DEF CapInv, Events
  <1>1. UNCHANGED <<cap, reg, removed, paused, queued, allowed, wanted, g, ops>>
    BY DEF GotInfo, Completed, handles
  <1>2. \A t \in Torrents : Undecided(t)' = Undecided(t)
    BY <1>1 DEF Undecided
  <1>3. Gated'
    BY <1>1 DEF Gated
  <1>4. info \subseteq info' /\ complete \subseteq complete'
    BY DEF GotInfo, Completed
  <1>6. ASSUME NEW t \in (reg \cap info') \ removed, t \notin info PROVE Undecided(t)
    BY <1>6 DEF AutoWaits, Undecided
  <1>7. FilesWanted'
    BY <1>1, <1>2, <1>4, <1>6 DEF FilesWanted, Structure, TypeOK
  <1>8. Settled' \subseteq Settled
    <2> SUFFICES ASSUME NEW t \in Settled' PROVE t \in Settled
      OBVIOUS
    <2>1. t \in (reg \cap info') \ removed /\ isActive(t)' /\ ~Undecided(t)' /\ t \in Torrents
      BY <1>1 DEF Settled, Structure, TypeOK
    <2>2. t \in info
      BY <1>2, <1>6, <2>1
    <2>3. isActive(t)
      BY <1>1, <1>4, <2>1, <2>2 DEF isActive
    <2> QED BY <1>2, <2>1, <2>2, <2>3 DEF Settled
  <1>9. Counted'
    BY <1>1, <1>8, CountedShrinks
  <1> QED BY <1>3, <1>7, <1>8, <1>9

\* The handlers that change flags start idle and count nothing.
LEMMA HandlerCounted ==
    ASSUME CapInv, Events', NEW p \in Procs, NEW l, NEW c, NEW todo, NEW line, NEW n,
           Became(p, l, c, todo, line, n), l \notin CountLabels, cap' = cap,
           ~Decides(p),
           \A t \in Settled' : t \in (reg \cap info) \ removed /\ (isActive(t) \/ Undecided(t))
    PROVE  Counted'
  <1>1. Settled' \subseteq Settled
    <2> SUFFICES ASSUME NEW t \in Settled' PROVE t \in Settled
      OBVIOUS
    <2>1. t \in (reg \cap info) \ removed /\ (isActive(t) \/ Undecided(t)) /\ ~Undecided(t)' /\ t \in Torrents
      BY DEF Settled, CapInv, Events, Structure, TypeOK
    <2>2. ~Undecided(t)
      BY <2>1, UndecidedMove DEF CapInv, Events
    <2> QED BY <2>1, <2>2 DEF Settled
  <1>2. \A q \in Procs : g'[q].pc \in CountLabels => g'[q] = g[q]
    BY DEF Became
  <1> QED BY <1>1, <1>2, CountedShrinks DEF CapInv, Events

LEMMA PauseCap ==
    ASSUME CapInv, Events', NEW p \in Pool, NEW u \in Torrents, PauseTorrent(p, u)
    PROVE  CapInv'
  <1> USE DEF CapInv, Events, CountLabels, QoaLabels, Deciding, Gating
  <1>1. /\ p \in Procs /\ p \notin Autos /\ g[p].pc = "idle" /\ ops'.may = ops.may
        /\ paused' = paused \cup {u}
        /\ UNCHANGED <<cap, reg, removed, queued, info, complete, allowed, wanted>>
    BY StartFacts, ProcFacts DEF PauseTorrent, client
  <1>2. Became(p, "pause2", u, {}, <<>>, 0)
    BY <1>1, GotoOnMoved DEF PauseTorrent, Structure, Labels
  <1>3. \A t \in Torrents : Undecided(t) => Undecided(t)'
    BY <1>1, <1>2, UndecidedMove DEF Decides
  <1>5. FilesWanted'
    BY <1>1, <1>3 DEF FilesWanted, Structure, TypeOK
  <1>6. Gated'
    BY <1>1, <1>2, GatedMove
  <1>7. Counted'
    <2>1. \A t \in Settled' : t \in (reg \cap info) \ removed /\ (isActive(t) \/ Undecided(t))
      BY <1>1 DEF Settled, isActive
    <2> QED BY <1>1, <1>2, <2>1, HandlerCounted DEF Decides
  <1> QED BY <1>5, <1>6, <1>7

LEMMA ResumeCap ==
    ASSUME CapInv, Events', NEW p \in Pool, NEW u \in Torrents, ResumeTorrent(p, u)
    PROVE  CapInv'
  <1> USE DEF CapInv, Events, CountLabels, QoaLabels, Deciding, Gating
  <1>1. /\ p \in Procs /\ p \notin Autos /\ g[p].pc = "idle" /\ ops'.may = ops.may
        /\ paused' = paused \ {u}
        /\ UNCHANGED <<cap, reg, removed, queued, info, complete, allowed, wanted>>
    BY StartFacts, ProcFacts DEF ResumeTorrent, client
  <1>2. Became(p, "resume2", u, {}, <<>>, 0)
    BY <1>1, GotoOnMoved DEF ResumeTorrent, Structure, Labels
  <1>3. Undecided(u)' /\ \A t \in Torrents : Undecided(t) => Undecided(t)'
    BY <1>1, <1>2, UndecidedMove DEF Decides
  <1>5. FilesWanted'
    BY <1>1, <1>3 DEF FilesWanted, Structure, TypeOK
  <1>6. Gated'
    BY <1>1, <1>2, GatedMove
  <1>7. Counted'
    <2>1. \A t \in Settled' : t # u /\ t \in (reg \cap info) \ removed /\ (isActive(t) \/ Undecided(t))
      BY <1>1, <1>3 DEF Settled, isActive
    <2> QED BY <1>1, <1>2, <2>1, HandlerCounted DEF Decides
  <1> QED BY <1>5, <1>6, <1>7


LEMMA RemoveCap ==
    ASSUME CapInv, Events', NEW p \in Pool, NEW u \in Torrents, RemoveTorrent(p, u)
    PROVE  CapInv'
  <1> USE DEF CapInv, Events, CountLabels, QoaLabels, Deciding, Gating
  <1>1. /\ p \in Procs /\ p \notin Autos /\ g[p].pc = "idle" /\ ops'.may = ops.may
        /\ removed' = removed \cup {u}
        /\ UNCHANGED <<cap, reg, paused, queued, info, complete, allowed, wanted>>
    BY StartFacts, ProcFacts DEF RemoveTorrent, client
  <1>2. Became(p, "remove2", u, {}, <<>>, 0)
    BY <1>1, GotoOnMoved DEF RemoveTorrent, Structure, Labels
  <1>3. \A t \in Torrents : Undecided(t) => Undecided(t)'
    BY <1>1, <1>2, UndecidedMove DEF Decides
  <1>5. FilesWanted'
    BY <1>1, <1>3 DEF FilesWanted, Structure, TypeOK
  <1>6. Gated'
    BY <1>1, <1>2, GatedMove
  <1>7. Counted'
    <2>1. \A t \in Settled' : t \in (reg \cap info) \ removed /\ (isActive(t) \/ Undecided(t))
      BY <1>1 DEF Settled, isActive
    <2> QED BY <1>1, <1>2, <2>1, HandlerCounted DEF Decides
  <1> QED BY <1>5, <1>6, <1>7

LEMMA RemoveDeleteCap ==
    ASSUME CapInv, Events', NEW p \in Procs, RemoveDelete(p)
    PROVE  CapInv'
  <1> USE DEF CapInv, Events, CountLabels, QoaLabels, Deciding, Gating
  <1>1. /\ p \notin Autos \/ g[p].pc # "wait" 
        /\ g[p].pc = "remove2" /\ ops' = ops
        /\ reg' = reg \ {g[p].cur}
        /\ UNCHANGED <<cap, removed, paused, queued, info, complete, allowed, wanted>>
    BY DEF RemoveDelete, client, At
  <1>2. Became(p, "promote", g[p].cur, g[p].todo, g[p].line, g[p].n)
    BY GotoMoved DEF RemoveDelete, Structure, Labels
  <1>3. \A t \in Torrents : Undecided(t) => Undecided(t)'
    BY <1>1, <1>2, UndecidedMove DEF Decides
  <1>6. FilesWanted'
    BY <1>1, <1>3 DEF FilesWanted, Structure, TypeOK
  <1>7. Gated'
    BY <1>1, <1>2, GatedMove
  <1>8. Counted'
    <2>1. \A t \in Settled' : t \in (reg \cap info) \ removed /\ (isActive(t) \/ Undecided(t))
      BY <1>1 DEF Settled, isActive
    <2> QED BY <1>1, <1>2, <2>1, HandlerCounted DEF Decides
  <1> QED BY <1>6, <1>7, <1>8

\* Files given to a torrent that had none activate it only while it is
\* undecided, when no file was taken away before.
LEMMA PriorityCap ==
    ASSUME NoReselect, CapInv, Events', NEW p \in Pool, NEW u \in Torrents, NEW f \in Files, NEW none \in BOOLEAN,
           SetFilePriority(p, u, f, none)
    PROVE  CapInv'
  <1> USE DEF CapInv, Events, CountLabels, QoaLabels, Deciding, Gating
  <1>1. /\ p \in Procs /\ p \notin Autos /\ g[p].pc = "idle" /\ ops'.may = ops.may
        /\ (IF none THEN "deselect" ELSE "select") \in ops.may
        /\ UNCHANGED <<cap, reg, removed, paused, queued, info, complete, allowed>>
    BY StartFacts, ProcFacts DEF SetFilePriority, handles
  <1>2. Became(p, "promote", g[p].cur, g[p].todo, g[p].line, g[p].n)
    BY <1>1, GotoMoved DEF SetFilePriority, Structure, Labels
  <1>3. \A t \in Torrents : Undecided(t) => Undecided(t)'
    BY <1>1, <1>2, UndecidedMove DEF Decides
  <1>5. Gated'
    BY <1>1, <1>2, GatedMove
  <1>6. CASE none
    <2>1. \A t \in Torrents : wanted'[t] \subseteq wanted[t]
      BY <1>6 DEF SetFilePriority, Structure, TypeOK
    <2>2. FilesWanted'
      BY <1>1, <1>6 DEF FilesWanted
    <2>3. \A t \in Settled' : t \in (reg \cap info) \ removed /\ isActive(t)
      BY <1>1, <2>1 DEF Settled, isActive, Structure, TypeOK
    <2>4. Counted'
      BY <1>1, <1>2, <2>3, HandlerCounted DEF Decides
    <2> QED BY <1>5, <2>2, <2>4
  <1>7. CASE ~none
    <2>1. \A t \in Torrents : wanted[t] \subseteq wanted'[t]
      BY <1>7 DEF SetFilePriority, Structure, TypeOK
    <2>2. "deselect" \notin ops.may
      BY <1>1, <1>7 DEF PlayKept, NoReselect
    <2>3. FilesWanted'
      <3> SUFFICES ASSUME NEW t \in ((reg \cap info) \ removed) \ (paused \cup queued), wanted'[t] = {}
                   PROVE  Undecided(t)'
        BY <1>1 DEF FilesWanted
      <3>1. t \in Torrents /\ wanted[t] = {}
        BY <2>1 DEF Structure, TypeOK
      <3> QED BY <1>3, <2>2, <3>1 DEF FilesWanted
    <2>4. ASSUME NEW t \in Settled' PROVE t \in (reg \cap info) \ removed /\ (isActive(t) \/ Undecided(t))
      <3>1. t \in (reg \cap info) \ removed /\ t \notin paused /\ t \notin queued /\ t \notin complete /\ t \in Torrents
        BY <1>1 DEF Settled, isActive, Structure, TypeOK
      <3>2. CASE wanted[t] = {}
        BY <2>2, <3>1, <3>2 DEF FilesWanted
      <3>3. CASE wanted[t] # {}
        BY <3>1, <3>3 DEF isActive
      <3> QED BY <3>1, <3>2, <3>3
    <2>5. Counted'
      BY <1>1, <1>2, <2>4, HandlerCounted DEF Decides
    <2> QED BY <1>5, <2>3, <2>5
  <1> QED BY <1>6, <1>7

\* A torrent enters undecided: its autoDownload waits.
LEMMA RegisterCap ==
    ASSUME CapInv, Events', NEW p \in Pool, NEW u \in Torrents, NEW known \in BOOLEAN, NEW asPaused \in BOOLEAN,
           registerLockedRestore(p, u, known, asPaused)
    PROVE  CapInv'
  <1> USE DEF CapInv, Events, CountLabels, QoaLabels, Deciding
  <1> DEFINE a == <<"auto", u>>
             b == <<"watch", u>>
  <1>1. /\ p \in Procs /\ g[p].pc = "idle" /\ u \notin added
        /\ \A q \in Procs \ {p, a, b} : g'[q] = g[q]
        /\ g'[a] = Local("wait", u) /\ g'[b] = Local("wait", u)
        /\ g'[p].pc \in {"idle", "restore2"}
    BY RegisterMoved
  <1>2. a \in Procs /\ b \in Procs /\ a # b /\ a # p /\ b # p /\ g'[a].pc = "wait" /\ g'[b].pc = "wait"
    BY <1>1, LocalTyped, ProcFacts DEF Labels
  <1>3. g[a].pc = "unborn" /\ g[b].pc = "unborn"
    BY <1>1 DEF Structure, Placed
  <1>4. /\ reg' = reg \cup {u} /\ info \subseteq info' /\ info' \subseteq info \cup {u}
        /\ paused \subseteq paused' /\ paused' \subseteq paused \cup {u}
        /\ UNCHANGED <<cap, removed, queued, complete, allowed, wanted, ops>>
    BY DEF registerLockedRestore
  <1>5. u \notin reg /\ u \notin removed /\ u \notin queued /\ u \notin info
    BY <1>1 DEF Structure, TypeOK
  <1>6. ASSUME NEW q \in Procs, g[q].pc \in {"remove2", "act3"} \cup Deciding \/ g'[q].pc \in {"remove2"} \cup CountLabels
        PROVE  g'[q] = g[q]
    BY <1>1, <1>2, <1>3, <1>6
  <1>7. ASSUME NEW t \in Torrents, t # u PROVE g'[<<"auto", t>>] = g[<<"auto", t>>]
    <2>1. <<"auto", t>> \in Procs \ {p, a, b}
      BY <1>7, ProcFacts
    <2> QED BY <1>1, <2>1
  <1> HIDE DEF a, b
  <1>8. Undecided(u)'
    BY <1>2 DEF Undecided, a
  <1>9. ASSUME NEW t \in Torrents, t # u, Undecided(t) PROVE Undecided(t)'
    <2>1. CASE g[<<"auto", t>>].pc = "wait"
      BY <1>7, <1>9, <2>1 DEF Undecided
    <2>2. CASE \E q \in Procs : g[q].cur = t /\ g[q].pc \in QoaLabels \cup {"resume2"}
      BY <1>6, <2>2 DEF Undecided
    <2> QED BY <1>9, <2>1, <2>2 DEF Undecided
  <1>13. FilesWanted'
    BY <1>4, <1>8, <1>9 DEF FilesWanted, Structure, TypeOK
  <1>14. Gated'
    BY <1>4, <1>5, <1>6 DEF Gated
  <1>15. Settled' \subseteq Settled
    <2> SUFFICES ASSUME NEW t \in Settled' PROVE t \in Settled
      OBVIOUS
    <2>1. t \in Torrents /\ t # u /\ ~Undecided(t)'
      BY <1>8 DEF Settled, Structure, TypeOK
    <2>2. t \in (reg \cap info) \ removed /\ isActive(t)
      BY <1>4, <2>1 DEF Settled, isActive
    <2> QED BY <1>9, <2>1, <2>2 DEF Settled
  <1>16. Counted'
    BY <1>4, <1>6, <1>15, CountedShrinks
  <1> QED BY <1>13, <1>14, <1>16


(***************************************************************************)
(* The cap: steps of the holder of promoteMu.                              *)
(***************************************************************************)
LEMMA TorrentsCount ==
    ASSUME NEW B \in SUBSET Torrents, NEW A \in SUBSET B
    PROVE  /\ IsFiniteSet(A) /\ IsFiniteSet(B) /\ Cardinality(A) \in Nat /\ Cardinality(B) \in Nat
           /\ Cardinality(A) <= Cardinality(B)
  BY QueueAssumption, FS_Subset, FS_CardinalityType

LEMMA OneMore ==
    ASSUME NEW B \in SUBSET Torrents, NEW t, NEW A \in SUBSET B, B \ {t} \subseteq A
    PROVE  Cardinality(B) <= Cardinality(A) + 1 /\ Cardinality(A) \in Nat /\ Cardinality(B) \in Nat
  <1>1. CASE t \in B
    <2>1. IsFiniteSet(B) /\ Cardinality(B) \in Nat /\ Cardinality(A) \in Nat
      BY TorrentsCount
    <2>2. Cardinality(B \ {t}) = Cardinality(B) - 1
      BY <1>1, <2>1, FS_RemoveElement
    <2>3. A \in SUBSET Torrents /\ (B \ {t}) \in SUBSET A
      OBVIOUS
    <2>4. Cardinality(B \ {t}) <= Cardinality(A)
      BY <2>3, TorrentsCount
    <2> QED BY <2>1, <2>2, <2>4
  <1>2. CASE t \notin B
    <2>1. A = B
      BY <1>2
    <2> QED BY <2>1, TorrentsCount
  <1> QED BY <1>1, <1>2

LEMMA CountedHeld ==
    ASSUME Structure', NEW p \in Procs, NEW l, NEW c, NEW todo, NEW line, NEW n,
           Became(p, l, c, todo, line, n), mu' = p \/ (mu' = Nobody /\ l \notin CountLabels),
           cap' > 0 =>
               /\ Cardinality(Settled') <= cap'
               /\ l \in {"qoaCount", "visit"} => Cardinality(Settled' \ todo) <= n
               /\ l \in {"qact2", "qact3", "act", "act2", "act3", "tally"} =>
                      Cardinality(Settled' \ {c}) <= n /\ n < cap'
    PROVE  Counted'
  <1> USE DEF Became, CountLabels
  <1>1. ASSUME NEW q \in Procs \ {p} PROVE g'[q].pc \notin CountLabels
    BY ProcFacts DEF Structure, MutexHeld, MutexLabels, PassLabels
  <1> QED BY <1>1 DEF Counted

\* The counter of the goroutine that counts.
LEMMA CounterFacts ==
    ASSUME CapInv, NEW p \in Procs, cap > 0
    PROVE  /\ Settled \in SUBSET Torrents /\ Cardinality(Settled) \in Nat /\ Cardinality(Settled) <= cap
           /\ cap \in Nat /\ g[p].n \in Int
           /\ g[p].pc \in {"qoaCount", "visit"} => Cardinality(Settled \ g[p].todo) <= g[p].n
           /\ g[p].pc \in {"qact2", "qact3", "act", "act2", "act3", "tally"} =>
               Cardinality(Settled \ {g[p].cur}) <= g[p].n /\ g[p].n < cap
  <1>1. Settled \in SUBSET Torrents
    BY DEF Settled, CapInv, Events, Structure, TypeOK
  <1>2. Cardinality(Settled) \in Nat
    BY <1>1, TorrentsCount
  <1> QED BY <1>1, <1>2 DEF CapInv, Events, Counted, Structure, TypeOK, Locals

LEMMA LockCap ==
    ASSUME CapInv, Events', NEW p \in Procs, QoaLock(p) \/ PromoteLock(p)
    PROVE  CapInv'
  <1> USE DEF CapInv, Events, QoaLabels, Deciding, Gating, CountLabels
  <1>1. UNCHANGED Flags /\ cap' = cap /\ ops' = ops /\ allowed' = allowed /\ mu' = p
    BY DEF QoaLock, PromoteLock, Flags, client, handles
  <1>2. PICK l, c, line :
          /\ l \in {"qoaCount", "visit"} /\ Became(p, l, c, ToCount, line, 0) /\ StaysDecided(p, l, c) /\ GateKept(p, l, c)
          /\ g[p].pc \in {"qoaLock", "promote"}
    <2>1. CASE QoaLock(p)
      <3>1. g[p].pc = "qoaLock" /\ g[p].n = 0
        BY <2>1 DEF QoaLock, At, Structure, WorksOn
      <3>2. Became(p, "qoaCount", g[p].cur, ToCount, g[p].line, 0)
        BY <2>1, <3>1, QoaLockMoved
      <3>3. StaysDecided(p, "qoaCount", g[p].cur) /\ GateKept(p, "qoaCount", g[p].cur)
        BY <1>1, <3>1 DEF Flags, StaysDecided, Decides, GateKept
      <3> QED BY <3>1, <3>2, <3>3
    <2>2. CASE PromoteLock(p)
      <3>1. g[p].pc = "promote"
        BY <2>2 DEF PromoteLock, At
      <3>2. PICK s \in SortedHandles : Became(p, "visit", Nobody, ToCount, s, 0)
        BY <2>2, PromoteLockMoved
      <3>3. StaysDecided(p, "visit", Nobody) /\ GateKept(p, "visit", Nobody)
        BY <1>1, <3>1 DEF Flags, StaysDecided, Decides, GateKept
      <3> QED BY <3>1, <3>2, <3>3
    <2> QED BY <2>1, <2>2
  <1>3. FilesWanted' /\ Settled' \subseteq Settled
    BY <1>1, <1>2, QuietMove
  <1>4. Gated'
    BY <1>2, GatedMove DEF GateKept
  <1>5. Counted'
    <2>1. ASSUME cap > 0 PROVE Cardinality(Settled') <= cap /\ Cardinality(Settled' \ ToCount) <= 0
      <3>1. Cardinality(Settled') <= Cardinality(Settled) /\ Cardinality(Settled') \in Nat
        BY <1>3, <2>1, CounterFacts, TorrentsCount
      <3>2. Settled' \ ToCount = {}
        BY <1>1, <2>1 DEF Settled, ToCount, Flags
      <3>3. Cardinality(Settled' \ ToCount) = 0
        BY <3>2, FS_EmptySet
      <3>4. Cardinality(Settled) <= cap /\ cap \in Nat /\ Cardinality(Settled) \in Nat
        BY <2>1, CounterFacts
      <3> QED BY <3>1, <3>3, <3>4
    <2> QED BY <1>1, <1>2, <2>1, CountedHeld
  <1> QED BY <1>3, <1>4, <1>5

LEMMA CountCap ==
    ASSUME CapInv, Events', NEW p \in Procs, countActive(p)
    PROVE  CapInv'
  <1> USE DEF CapInv, Events, QoaLabels, Deciding, Gating, CountLabels
  <1>1. UNCHANGED Flags /\ cap' = cap /\ ops' = ops /\ allowed' = allowed /\ mu' = mu /\ g[p].pc \in {"qoaCount", "visit"}
    BY DEF countActive, Flags, client, handles, At
  <1>2. mu' = p
    BY <1>1 DEF Structure, MutexHeld, MutexLabels, PassLabels
  <1>3. PICK t \in g[p].todo :
          Became(p, g[p].pc, g[p].cur, g[p].todo \ {t}, g[p].line, g[p].n + (IF isActive(t) THEN 1 ELSE 0))
    BY CountMoved
  <1> DEFINE n == g[p].n + (IF isActive(t) THEN 1 ELSE 0)
             todo == g[p].todo \ {t}
  <1>4. Became(p, g[p].pc, g[p].cur, todo, g[p].line, n)
    BY <1>3
  <1>5. StaysDecided(p, g[p].pc, g[p].cur) /\ GateKept(p, g[p].pc, g[p].cur)
    BY <1>1 DEF Flags, StaysDecided, Decides, GateKept
  <1>6. FilesWanted' /\ Settled' \subseteq Settled
    <2> HIDE DEF n, todo
    <2> QED BY <1>1, <1>4, <1>5, QuietMove
  <1>7. Gated'
    <2> HIDE DEF n, todo
    <2> QED BY <1>4, <1>5, GatedMove DEF GateKept
  <1>8. Counted'
    <2>1. ASSUME cap > 0 PROVE Cardinality(Settled') <= cap /\ Cardinality(Settled' \ todo) <= n
      <3>1. /\ Settled \in SUBSET Torrents /\ Cardinality(Settled) <= cap /\ cap \in Nat /\ g[p].n \in Int
            /\ Cardinality(Settled \ g[p].todo) <= g[p].n
        BY <1>1, <2>1, CounterFacts
      <3>2. Cardinality(Settled') <= Cardinality(Settled) /\ Cardinality(Settled') \in Nat /\ Cardinality(Settled) \in Nat
        BY <1>6, <3>1, TorrentsCount
      <3> DEFINE A == Settled \ g[p].todo
                 B == Settled \ todo
                 C == Settled' \ todo
      <3>3. B \in SUBSET Torrents /\ A \in SUBSET B /\ B \ {t} \subseteq A /\ C \in SUBSET B
        BY <1>6, <3>1
      <3>4. ~isActive(t) => A = B
        BY DEF Settled
      <3>5. Cardinality(A) <= g[p].n
        BY <3>1
      <3> HIDE DEF A, B, C
      <3>6. /\ Cardinality(A) \in Nat /\ Cardinality(B) \in Nat /\ Cardinality(C) \in Nat
            /\ Cardinality(C) <= Cardinality(B) /\ Cardinality(B) <= Cardinality(A) + 1
        BY <3>3, OneMore, TorrentsCount
      <3>7. Cardinality(C) <= n
        BY <3>1, <3>4, <3>5, <3>6
      <3> QED BY <3>1, <3>2, <3>7 DEF C
    <2> HIDE DEF n, todo
    <2> QED BY <1>1, <1>2, <1>4, <2>1, CountedHeld
  <1> QED BY <1>6, <1>7, <1>8


\* A quiet step of promoteMu's holder that counts on: it keeps its counter.
LEMMA HolderCap ==
    ASSUME CapInv, Events', NEW p \in Procs, NEW l, NEW c, NEW todo, NEW line, NEW n,
           Became(p, l, c, todo, line, n), UNCHANGED Flags, cap' = cap, ops'.may = ops.may, mu' = p,
           StaysDecided(p, l, c), GateKept(p, l, c), g[p].pc \in CountLabels,
           cap > 0 =>
               /\ l \in {"qoaCount", "visit"} => Cardinality(Settled \ todo) <= n
               /\ l \in {"qact2", "qact3", "act", "act2", "act3", "tally"} =>
                      Cardinality(Settled \ {c}) <= n /\ n < cap,
           n \in Int
    PROVE  CapInv'
  <1> USE DEF CapInv, Events, CountLabels
  <1>1. FilesWanted' /\ Settled' \subseteq Settled
    BY QuietMove
  <1>2. Gated'
    BY GatedMove DEF GateKept
  <1>3. Counted'
    <2>1. ASSUME cap > 0
          PROVE  /\ Cardinality(Settled') <= cap
                 /\ l \in {"qoaCount", "visit"} => Cardinality(Settled' \ todo) <= n
                 /\ l \in {"qact2", "qact3", "act", "act2", "act3", "tally"} =>
                        Cardinality(Settled' \ {c}) <= n /\ n < cap
      <3>1. Settled \in SUBSET Torrents /\ Cardinality(Settled) <= cap /\ cap \in Nat
        BY <2>1, CounterFacts
      <3>2. ASSUME NEW S
            PROVE  /\ Cardinality(Settled' \ S) <= Cardinality(Settled \ S)
                   /\ Cardinality(Settled' \ S) \in Nat /\ Cardinality(Settled \ S) \in Nat
        <4>1. (Settled \ S) \in SUBSET Torrents /\ (Settled' \ S) \in SUBSET (Settled \ S)
          BY <1>1, <3>1
        <4> QED BY <4>1, TorrentsCount
      <3>3. Cardinality(Settled') <= Cardinality(Settled) /\ Cardinality(Settled') \in Nat /\ Cardinality(Settled) \in Nat
        BY <1>1, <3>1, TorrentsCount
      <3>4. ASSUME l \in {"qoaCount", "visit"} PROVE Cardinality(Settled' \ todo) <= n
        <4>1. Cardinality(Settled \ todo) <= n
          BY <2>1, <3>4
        <4> QED BY <3>2, <4>1
      <3>5. ASSUME l \in {"qact2", "qact3", "act", "act2", "act3", "tally"}
            PROVE  Cardinality(Settled' \ {c}) <= n /\ n < cap
        <4>1. Cardinality(Settled \ {c}) <= n /\ n < cap
          BY <2>1, <3>5
        <4>2. /\ Cardinality(Settled' \ {c}) <= Cardinality(Settled \ {c})
              /\ Cardinality(Settled' \ {c}) \in Nat /\ Cardinality(Settled \ {c}) \in Nat
          BY <3>2
        <4> QED BY <4>1, <4>2
      <3> QED BY <3>1, <3>3, <3>4, <3>5
    <2> QED BY <2>1, CountedHeld
  <1> QED BY <1>1, <1>2, <1>3

LEMMA HoldsMu ==
    ASSUME Structure, NEW p \in Procs, g[p].pc \in MutexLabels
    PROVE  mu = p /\ g[p].n \in Int
  BY DEF Structure, MutexHeld, TypeOK, Locals

LEMMA PromoteDoneCap ==
    ASSUME CapInv, Events', NEW p \in Procs, PromoteDone(p)
    PROVE  CapInv'
  <1> USE DEF CapInv, Events, CountLabels, QoaLabels, Deciding, Gating
  <1>1. UNCHANGED Flags /\ cap' = cap /\ ops' = ops /\ allowed' = allowed /\ g[p].pc = "visit"
    BY DEF PromoteDone, Flags, client, handles, At
  <1>2. Became(p, Rest(p), Nobody, {}, <<>>, 0)
    BY ReturnMoved DEF PromoteDone, Structure
  <1>3. StaysDecided(p, Rest(p), Nobody) /\ GateKept(p, Rest(p), Nobody) /\ Rest(p) \notin CountLabels
    BY <1>1 DEF Flags, StaysDecided, Decides, GateKept, Rest
  <1> QED BY <1>1, <1>2, <1>3, QuietCap

LEMMA VisitCap ==
    ASSUME CapInv, Events', NEW p \in Procs, PromoteVisit(p)
    PROVE  CapInv'
  <1> USE DEF CapInv, Events, CountLabels, QoaLabels, Deciding, Gating
  <1>1. /\ UNCHANGED Flags /\ cap' = cap /\ ops' = ops /\ allowed' = allowed /\ g[p].pc = "visit"
        /\ mu' = mu /\ g[p].todo = {} /\ ~(cap # 0 /\ g[p].n >= cap)
    BY DEF PromoteVisit, SlotsGone, Flags, client, handles, At
  <1>2. mu' = p /\ g[p].n \in Int
    BY <1>1, HoldsMu DEF MutexLabels, PassLabels
  <1> DEFINE t == Head(g[p].line)
             line == Tail(g[p].line)
  <1>3. \/ Promotable(t) /\ Became(p, "act", t, {}, line, g[p].n)
        \/ ~Promotable(t) /\ Became(p, "visit", Nobody, {}, line, g[p].n)
    BY VisitMoved
  <1> HIDE DEF t, line
  <1>4. \A l \in {"act", "visit"} : \A c : StaysDecided(p, l, c) /\ GateKept(p, l, c)
    BY <1>1 DEF Flags, StaysDecided, Decides, GateKept
  <1>5. cap > 0 => /\ Cardinality(Settled \ {}) <= g[p].n
                   /\ Cardinality(Settled \ {t}) <= g[p].n /\ g[p].n < cap
    <2> SUFFICES ASSUME cap > 0
                 PROVE  /\ Cardinality(Settled \ {}) <= g[p].n
                        /\ Cardinality(Settled \ {t}) <= g[p].n /\ g[p].n < cap
      OBVIOUS
    <2>1. Settled \in SUBSET Torrents /\ Cardinality(Settled \ {}) <= g[p].n /\ cap \in Nat
      BY <1>1, CounterFacts
    <2>2. Settled \ {} = Settled /\ (Settled \ {t}) \in SUBSET Settled
      OBVIOUS
    <2>3. Cardinality(Settled \ {t}) <= Cardinality(Settled) /\ Cardinality(Settled \ {t}) \in Nat
          /\ Cardinality(Settled) \in Nat
      BY <2>1, <2>2, TorrentsCount
    <2> QED BY <1>1, <1>2, <2>1, <2>2, <2>3
  <1> QED BY <1>1, <1>2, <1>3, <1>4, <1>5, HolderCap

LEMMA TallyCap ==
    ASSUME CapInv, Events', NEW p \in Procs, PromoteTally(p)
    PROVE  CapInv'
  <1> USE DEF CapInv, Events, CountLabels, QoaLabels, Deciding, Gating
  <1>1. /\ UNCHANGED Flags /\ cap' = cap /\ ops' = ops /\ allowed' = allowed /\ g[p].pc = "tally"
        /\ mu' = mu
    BY DEF PromoteTally, Flags, client, handles, At
  <1>2. mu' = p /\ g[p].n \in Int
    BY <1>1, HoldsMu DEF MutexLabels, PassLabels
  <1> DEFINE t == g[p].cur
  <1>3. StaysDecided(p, "visit", t) /\ GateKept(p, "visit", t)
    BY <1>1 DEF Flags, StaysDecided, Decides, GateKept
  <1>4. PICK n \in Int : /\ Became(p, "visit", t, {}, g[p].line, n)
                         /\ isActive(t) => n = g[p].n + 1
                         /\ ~isActive(t) => n = g[p].n
    <2>1. CASE isActive(t) /\ Became(p, "visit", t, {}, g[p].line, g[p].n + 1)
      BY <1>2, <2>1
    <2>2. CASE ~isActive(t) /\ Became(p, "visit", t, {}, g[p].line, g[p].n)
      BY <1>2, <2>2
    <2> QED BY <2>1, <2>2, TallyMoved
  <1>5. ASSUME cap > 0 PROVE Cardinality(Settled \ {}) <= n
    <2> DEFINE A == Settled \ {t}
    <2>1. Settled \in SUBSET Torrents /\ Cardinality(A) <= g[p].n
      BY <1>1, <1>5, CounterFacts
    <2>2. A \in SUBSET Settled /\ Settled \ {t} \subseteq A /\ (~isActive(t) => A = Settled) /\ Settled \ {} = Settled
      BY DEF Settled
    <2> HIDE DEF A
    <2>3. Cardinality(Settled) <= Cardinality(A) + 1 /\ Cardinality(A) \in Nat /\ Cardinality(Settled) \in Nat
      BY <2>1, <2>2, OneMore
    <2> QED BY <1>2, <1>4, <2>1, <2>2, <2>3
  <1> HIDE DEF t
  <1> QED BY <1>1, <1>2, <1>3, <1>4, <1>5, HolderCap

LEMMA ActivateCheckCap ==
    ASSUME CapInv, Events', NEW p \in Procs, ActivateCheck(p)
    PROVE  CapInv'
  <1> USE DEF CapInv, Events, CountLabels, QoaLabels, Deciding, Gating
  <1>1. /\ UNCHANGED Flags /\ cap' = cap /\ ops' = ops /\ allowed' = allowed /\ g[p].pc \in {"act", "qoaCount"}
        /\ g[p].todo = {} /\ (g[p].pc = "qoaCount" => cap = 0 \/ g[p].n < cap)
    BY ActivateCheckMoved DEF Flags, client, handles
  <1>2. mu = p /\ g[p].n \in Int
    BY <1>1, HoldsMu DEF MutexLabels, PassLabels
  <1> DEFINE t == g[p].cur
  <1>3. ASSUME cap > 0 PROVE Cardinality(Settled \ {t}) <= g[p].n /\ g[p].n < cap
    <2>1. CASE g[p].pc = "act"
      BY <1>3, <2>1, CounterFacts
    <2>2. CASE g[p].pc = "qoaCount"
      <3>1. Settled \in SUBSET Torrents /\ Cardinality(Settled \ {}) <= g[p].n
        BY <1>1, <1>3, <2>2, CounterFacts
      <3>2. Settled \ {} = Settled /\ (Settled \ {t}) \in SUBSET Settled
        OBVIOUS
      <3>3. Cardinality(Settled \ {t}) <= Cardinality(Settled) /\ Cardinality(Settled \ {t}) \in Nat
            /\ Cardinality(Settled) \in Nat
        BY <3>1, <3>2, TorrentsCount
      <3> QED BY <1>1, <1>2, <1>3, <2>2, <3>1, <3>2, <3>3
    <2> QED BY <1>1, <2>1, <2>2
  <1>4. CASE /\ t \in paused /\ g[p].pc = "qoaCount" /\ mu' = Nobody
             /\ Became(p, Rest(p), Nobody, {}, <<>>, 0)
    <2>1. StaysDecided(p, Rest(p), Nobody) /\ GateKept(p, Rest(p), Nobody) /\ Rest(p) \notin CountLabels
      BY <1>1, <1>4 DEF Flags, StaysDecided, Decides, GateKept, Rest
    <2> QED BY <1>1, <1>4, <2>1, QuietCap
  <1>5. ASSUME NEW l \in {"tally", "act2", "qact2"}, l = "qact2" <=> g[p].pc = "qoaCount",
               mu' = mu, Became(p, l, t, {}, g[p].line, g[p].n)
        PROVE  CapInv'
    <2>1. StaysDecided(p, l, t) /\ GateKept(p, l, t)
      BY <1>1, <1>5 DEF Flags, StaysDecided, Decides, GateKept
    <2> HIDE DEF t
    <2> QED BY <1>1, <1>2, <1>3, <1>5, <2>1, HolderCap
  <1>6. CASE g[p].pc = "act" /\ mu' = mu /\ Became(p, "tally", t, {}, g[p].line, g[p].n)
    BY <1>5, <1>6
  <1>7. CASE g[p].pc = "qoaCount" /\ mu' = mu /\ Became(p, "qact2", t, {}, g[p].line, g[p].n)
    BY <1>5, <1>7
  <1>8. CASE g[p].pc = "act" /\ mu' = mu /\ Became(p, "act2", t, {}, g[p].line, g[p].n)
    BY <1>5, <1>8
  <1> QED BY <1>4, <1>6, <1>7, <1>8, ActivateCheckMoved

LEMMA ActivateAllowCap ==
    ASSUME CapInv, Events', NEW p \in Procs, ActivateAllow(p)
    PROVE  CapInv'
  <1> USE DEF CapInv, Events, CountLabels, QoaLabels, Deciding, Gating
  <1>1. /\ UNCHANGED Flags /\ cap' = cap /\ ops' = ops /\ allowed' = allowed \cup {g[p].cur}
        /\ g[p].pc \in {"act2", "qact2"} /\ mu' = mu
    BY DEF ActivateAllow, At, Flags, handles
  <1>2. mu = p /\ g[p].n \in Int
    BY <1>1, HoldsMu DEF MutexLabels, PassLabels
  <1> DEFINE t == g[p].cur
  <1>3. cap > 0 => Cardinality(Settled \ {t}) <= g[p].n /\ g[p].n < cap
    BY <1>1, CounterFacts
  <1>4. ASSUME NEW l \in {"act3", "qact3"}, g[p].pc = "qact2" => l = "qact3", Became(p, l, t, {}, g[p].line, g[p].n)
        PROVE  CapInv'
    <2>1. StaysDecided(p, l, t) /\ GateKept(p, l, t)
      BY <1>1, <1>4 DEF Flags, StaysDecided, Decides, GateKept
    <2> HIDE DEF t
    <2> QED BY <1>1, <1>2, <1>3, <1>4, <2>1, HolderCap
  <1> QED BY <1>4, ActivateAllowMoved


\* A torrent joins the queue before its gate closes.
LEMMA EnqueueCap ==
    ASSUME CapInv, Events', NEW p \in Procs, Enqueue(p)
    PROVE  CapInv'
  <1> USE DEF CapInv, Events, CountLabels, QoaLabels, Deciding, Gating
  <1> DEFINE t == g[p].cur
  <1>1. /\ g[p].pc = "qoaCount" /\ queued' = queued \cup {t}
        /\ UNCHANGED <<cap, mu, reg, removed, paused, info, complete, allowed, wanted, ops>>
    BY DEF Enqueue, At, client
  <1>2. Became(p, "enq2", t, g[p].todo, g[p].line, g[p].n)
    BY GotoMoved DEF Enqueue, Structure, Labels
  <1>3. \A u \in Torrents : Undecided(u) => Undecided(u)'
    BY <1>2, UndecidedMove
  <1>6. FilesWanted'
    BY <1>1, <1>3 DEF FilesWanted, Structure, TypeOK
  <1>7. Gated'
    BY <1>1, <1>2, GatedMove
  <1>8. Settled' \subseteq Settled
    <2> SUFFICES ASSUME NEW u \in Settled' PROVE u \in Settled
      OBVIOUS
    <2>1. u \in (reg \cap info) \ removed /\ isActive(u) /\ ~Undecided(u)' /\ u \in Torrents
      BY <1>1 DEF Settled, isActive, Structure, TypeOK
    <2> QED BY <1>3, <2>1 DEF Settled
  <1>9. Counted'
    <2>1. \A q \in Procs : g'[q].pc \in CountLabels => g'[q] = g[q]
      BY <1>2 DEF Became
    <2> QED BY <1>1, <1>8, <2>1, CountedShrinks
  <1> QED BY <1>6, <1>7, <1>9

LEMMA EnqueueGateCap ==
    ASSUME CapInv, Events', NEW p \in Procs, EnqueueGate(p)
    PROVE  CapInv'
  <1> USE DEF CapInv, Events, CountLabels, QoaLabels, Deciding, Gating
  <1> DEFINE t == g[p].cur
  <1>1. /\ g[p].pc = "enq2" /\ t \in queued /\ t \in Torrents /\ allowed' = allowed \ {t}
        /\ UNCHANGED <<cap, reg, removed, paused, queued, info, complete, ops>>
    BY DEF EnqueueGate, At, handles, Structure, WorksOn, TypeOK
  <1>2. \A u \in Torrents \ {t} : wanted'[u] = wanted[u]
    BY DEF EnqueueGate, Structure, TypeOK
  <1>3. Became(p, Rest(p), Nobody, {}, <<>>, 0) /\ Rest(p) \notin CountLabels /\ Rest(p) # "remove2"
    BY ReturnMoved DEF EnqueueGate, Structure, Rest
  <1>4. \A u \in Torrents : Undecided(u) /\ u # t => Undecided(u)'
    BY <1>3, UndecidedMove
  <1>7. FilesWanted'
    BY <1>1, <1>2, <1>4 DEF FilesWanted, Structure, TypeOK
  <1>8. Gated'
    BY <1>1, <1>3, GatedMove
  <1>9. Settled' \subseteq Settled
    <2> SUFFICES ASSUME NEW u \in Settled' PROVE u \in Settled
      OBVIOUS
    <2>1. u \in (reg \cap info) \ removed /\ ~Undecided(u)' /\ u \in Torrents /\ u # t
      BY <1>1 DEF Settled, isActive, Structure, TypeOK
    <2>2. isActive(u)
      BY <1>1, <1>2, <2>1 DEF Settled, isActive
    <2> QED BY <1>4, <2>1, <2>2 DEF Settled
  <1>10. Counted'
    <2>1. \A q \in Procs : g'[q].pc \in CountLabels => g'[q] = g[q]
      BY <1>3 DEF Became
    <2> QED BY <1>1, <1>9, <2>1, CountedShrinks
  <1> QED BY <1>7, <1>8, <1>10

\* The one step that settles a torrent: there was room for it.
LEMMA ActivateFlipCap ==
    ASSUME CapInv, Events', NEW p \in Procs, ActivateFlip(p)
    PROVE  CapInv'
  <1> USE DEF CapInv, Events, CountLabels, QoaLabels, Deciding, Gating
  <1> DEFINE t == g[p].cur
  <1>1. /\ g[p].pc \in {"act3", "qact3"} /\ queued' = queued \ {t} /\ t \in Torrents
        /\ UNCHANGED <<cap, reg, removed, paused, info, complete, allowed, ops>>
        /\ mu = p /\ g[p].n \in Int
    BY ActivateFlipMoved DEF ActivateFlip, At, Structure, TypeOK, Locals
  <1>2. /\ \A u \in Torrents \ {t} : wanted'[u] = wanted[u]
        /\ t \in info => wanted'[t] # {}
    BY <1>1, QueueAssumption DEF ActivateFlip, Structure, TypeOK
  <1>3. PICK l, c, line, n :
          /\ Became(p, l, c, {}, line, n)
          /\ \/ mu' = Nobody /\ l \notin CountLabels \cup {"remove2"}
             \/ mu' = p /\ l = "tally" /\ c = t /\ n = g[p].n
    <2>1. CASE mu' = Nobody /\ Became(p, Rest(p), Nobody, {}, <<>>, 0)
      <3>1. Rest(p) \notin CountLabels \cup {"remove2"}
        BY DEF Rest
      <3> QED BY <2>1, <3>1
    <2>2. CASE mu' = mu /\ Became(p, "tally", g[p].cur, {}, g[p].line, g[p].n)
      BY <1>1, <2>2
    <2> QED BY <2>1, <2>2, ActivateFlipMoved
  <1>4. \A u \in Torrents : Undecided(u) /\ u # t => Undecided(u)'
    BY <1>3, UndecidedMove
  <1>7. FilesWanted'
    BY <1>1, <1>2, <1>4 DEF FilesWanted, Structure, TypeOK
  <1>8. Gated'
    BY <1>1, <1>3, GatedMove
  <1>9. Settled' \ {t} \subseteq Settled \ {t}
    <2> SUFFICES ASSUME NEW u \in Settled', u # t PROVE u \in Settled
      OBVIOUS
    <2>1. u \in (reg \cap info) \ removed /\ ~Undecided(u)' /\ u \in Torrents
      BY <1>1 DEF Settled, Structure, TypeOK
    <2>2. isActive(u)
      BY <1>1, <1>2, <2>1 DEF Settled, isActive
    <2> QED BY <1>4, <2>1, <2>2 DEF Settled
  <1>10. ASSUME cap > 0 PROVE Cardinality(Settled') <= cap /\ Cardinality(Settled' \ {t}) <= g[p].n /\ g[p].n < cap
    <2>1. Settled \in SUBSET Torrents /\ cap \in Nat /\ Cardinality(Settled \ {t}) <= g[p].n /\ g[p].n < cap
      BY <1>1, <1>10, CounterFacts
    <2> DEFINE S == Settled'
               A == Settled' \ {t}
               B == Settled \ {t}
    <2>2. S \in SUBSET Torrents /\ A \in SUBSET S /\ S \ {t} \subseteq A /\ B \in SUBSET Torrents /\ A \in SUBSET B
      BY <1>9, <2>1 DEF Settled, Structure, TypeOK
    <2>3. Cardinality(B) <= g[p].n
      BY <2>1
    <2> HIDE DEF S, A, B
    <2>4. Cardinality(A) <= Cardinality(B) /\ Cardinality(B) \in Nat
      BY <2>2, TorrentsCount
    <2>5. Cardinality(S) <= Cardinality(A) + 1 /\ Cardinality(A) \in Nat /\ Cardinality(S) \in Nat
      BY <2>2, OneMore
    <2>6. Cardinality(S) <= cap /\ Cardinality(A) <= g[p].n
      BY <1>1, <2>1, <2>3, <2>4, <2>5
    <2> QED BY <2>1, <2>6 DEF S, A
  <1>11. Counted'
    <2> HIDE DEF t
    <2>1. cap' > 0 =>
            /\ Cardinality(Settled') <= cap'
            /\ l \in {"qoaCount", "visit"} => Cardinality(Settled' \ {}) <= n
            /\ l \in {"qact2", "qact3", "act", "act2", "act3", "tally"} =>
                   Cardinality(Settled' \ {c}) <= n /\ n < cap'
      BY <1>1, <1>3, <1>10
    <2> QED BY <1>3, <2>1, CountedHeld
  <1> QED BY <1>7, <1>8, <1>11


LEMMA InitCap0 == Init => CapInv
  <1> SUFFICES ASSUME Init PROVE CapInv
    OBVIOUS
  <1>1. Events
    BY InitEvents
  <1>3. FilesWanted /\ Gated
    BY DEF Init, FilesWanted, Gated
  <1>4. Counted
    <2>1. Settled = {}
      BY DEF Init, Settled
    <2>2. \A p \in Procs : g[p].pc \notin CountLabels
      BY <1>1, ProcFacts DEF Init, Events, Structure, MutexHeld, MutexLabels, PassLabels, CountLabels
    <2>3. Cardinality(Settled) = 0
      BY <2>1, FS_EmptySet
    <2> QED BY <2>2, <2>3, QueueAssumption DEF Init, Counted, CountLabels
  <1> QED BY <1>1, <1>3, <1>4 DEF CapInv

LEMMA CapStep ==
    ASSUME NoReselect, CapInv, [Next /\ CapRaised]_vars
    PROVE  CapInv'
  <1>1. CASE UNCHANGED vars
    <2>1. Events'
      BY <1>1, EventsStep DEF CapInv
    <2>2. UNCHANGED <<cap, g, ops, reg, removed, paused, queued, info, complete, wanted, allowed>>
      BY <1>1 DEF vars, handles, client
    <2>3. \A t : Undecided(t)' = Undecided(t) /\ isActive(t)' = isActive(t)
      BY <2>2 DEF Undecided, isActive
    <2>4. Settled' = Settled
      BY <2>2, <2>3 DEF Settled
    <2>5. FilesWanted' /\ Counted' /\ Gated'
      BY <2>2, <2>3, <2>4 DEF CapInv, FilesWanted, Counted, Gated
    <2> QED BY <2>1, <2>5 DEF CapInv
  <1>2. CASE Next /\ CapRaised
    <2>1. Events'
      BY <1>2, EventsStep DEF CapInv
    <2>2. ASSUME NEW t \in Torrents, autoDownload(t) \/ watchCompletion(t) PROVE CapInv'
      BY <2>1, <2>2, AutoCap, WatchCap
    <2>3. ASSUME NEW p \in Procs, Step(p) PROVE CapInv'
      BY <2>1, <2>3, DisallowCap, RemoveDeleteCap, SetOrderCap, QoaCheckCap, LockCap, CountCap, EnqueueCap,
         EnqueueGateCap, PromoteDoneCap, VisitCap, TallyCap, ActivateCheckCap, ActivateAllowCap, ActivateFlipCap
         DEF Step
    <2>4. ASSUME NEW t \in Torrents, GotInfo(t) \/ Completed(t) PROVE CapInv'
      BY <2>1, <2>4, ClientCap
    <2>5. ASSUME NEW p \in Pool, NEW t \in Torrents, User(p, t) PROVE CapInv'
      BY <2>1, <2>5, RegisterCap, PauseCap, ResumeCap, RemoveCap, QueueMoveCap, PriorityCap DEF User
    <2>6. ASSUME NEW p \in Pool, NEW c \in Caps, SetMaxActiveDownloads(p, c) PROVE CapInv'
      BY <1>2, <2>1, <2>6, SetMaxCap
    <2> QED BY <1>2, <2>2, <2>3, <2>4, <2>5, <2>6 DEF Next, Goroutines
  <1> QED BY <1>1, <1>2

\* At rest nothing is undecided and no removal is under way.
LEMMA RestFacts ==
    ASSUME Structure, Quiescent
    PROVE  /\ \A p \in Procs : g[p].pc \in {"idle", "unborn", "wait", "done"}
           /\ \A t \in added : g[<<"auto", t>>].pc = "wait" => t \notin info \cup removed
           /\ \A t \in added : g[<<"watch", t>>].pc = "wait" => t \notin complete \cup removed
  <1>1. ASSUME NEW p \in Procs PROVE g[p].pc \in {"idle", "unborn", "wait", "done"}
    <2>1. CASE p \in Pool
      BY <2>1 DEF Quiescent, At
    <2>2. CASE p \notin Pool
      <3>1. PICK t \in Torrents : p = <<"auto", t>> \/ p = <<"watch", t>>
        BY <2>2, ProcFacts
      <3>2. t \notin added => g[p].pc = "unborn"
        BY <3>1 DEF Structure, Placed
      <3> QED BY <3>1, <3>2 DEF Quiescent, At
    <2> QED BY <2>1, <2>2
  <1> QED BY <1>1 DEF Quiescent, At

LEMMA CapAtRest == CapInv => CapRespected
  <1> SUFFICES ASSUME CapInv, Quiescent
               PROVE  /\ cap > 0 => Cardinality(Downloading) <= cap
                      /\ \A t \in reg : t \in queued \ paused => t \notin allowed
    BY DEF CapRespected
  <1> USE DEF CapInv, Events, QoaLabels
  <1>1. \A t \in reg : t \notin removed
    BY RestFacts DEF RemovalUnderWay
  <1>2. ASSUME NEW t \in reg \cap info PROVE ~Undecided(t)
    BY RestFacts DEF Undecided, Structure, TypeOK
  <1>3. Downloading = Settled
    BY <1>1, <1>2 DEF Downloading, Settled
  <1>4. \A t \in reg : t \in queued \ paused => t \notin allowed
    BY RestFacts DEF Gated
  <1> QED BY <1>3, <1>4 DEF Counted

\* CapRespected for every set of torrents, files and goroutines, from any
\* cap, as long as the user does not lower the cap and does not give files
\* back to a torrent he took them from: queueOrActivate and promoteQueued,
\* which count under promoteMu flags that others write without it, never
\* let more torrents download than maxActiveDownloads once every goroutine
\* has run, and what is left in the queue is gated in the client.
THEOREM CapKept ==
    ASSUME NoReselect
    PROVE  Spec /\ [][CapRaised]_vars => []CapRespected
  <1>1. Spec /\ [][CapRaised]_vars => []CapInv
    <2>1. CapInv /\ [Next]_vars /\ [CapRaised]_vars => CapInv'
      BY CapStep
    <2> QED BY <2>1, InitCap0, PTL DEF Spec
  <1> QED BY <1>1, CapAtRest, PTL


(***************************************************************************)
(* The slots: steps that write none of them.                               *)
(***************************************************************************)
LEMMA OccupiedFinite ==
    ASSUME Structure
    PROVE  Occupied \in SUBSET Torrents /\ \A S : IsFiniteSet(Occupied \ S) /\ Cardinality(Occupied \ S) \in Nat
  <1>1. Occupied \in SUBSET Torrents
    BY DEF Occupied, Structure, TypeOK
  <1>2. ASSUME NEW S PROVE IsFiniteSet(Occupied \ S) /\ Cardinality(Occupied \ S) \in Nat
    <2>1. (Occupied \ S) \in SUBSET Torrents
      BY <1>1
    <2> QED BY <2>1, TorrentsCount
  <1> QED BY <1>1, <1>2

LEMMA OccupiedGrows ==
    ASSUME Structure, Structure', Occupied \subseteq Occupied', NEW S
    PROVE  /\ Cardinality(Occupied \ S) <= Cardinality(Occupied' \ S)
           /\ Cardinality(Occupied) <= Cardinality(Occupied')
           /\ Cardinality(Occupied \ S) \in Nat /\ Cardinality(Occupied' \ S) \in Nat
           /\ Cardinality(Occupied) \in Nat /\ Cardinality(Occupied') \in Nat
  <1>1. Occupied' \in SUBSET Torrents /\ (Occupied' \ S) \in SUBSET Torrents /\ (Occupied \ S) \in SUBSET (Occupied' \ S)
    BY DEF Occupied, Structure, TypeOK
  <1> QED BY <1>1, TorrentsCount

\* A step after which every slot is still taken, and every pass and count
\* stands where it stood.
LEMMA SlotsHold ==
    ASSUME Structure, Structure', SlotsCounted, SlotsTaken, cap' = cap,
           Occupied \subseteq Occupied', Waiting' \subseteq Waiting, reg \subseteq reg',
           \A q \in Procs : g'[q].pc \in CountLabels => g'[q] = g[q],
           \A q \in Procs : g[q].pc \in PassLabels => g'[q] = g[q]
    PROVE  SlotsCounted' /\ SlotsTaken'
  <1> USE DEF CountLabels, PassLabels
  <1>1. SlotsCounted'
    <2> SUFFICES ASSUME NEW q \in Procs, g'[q].pc \in CountLabels
                 PROVE  /\ g'[q].pc \in {"qoaCount", "visit"} => g'[q].todo \subseteq reg'
                        /\ g'[q].pc \in PassLabels => InLine(q)' \subseteq reg'
                        /\ g'[q].pc \in PassLabels \ {"visit"} => g'[q].cur \in reg'
                        /\ g'[q].n \in Nat
                        /\ g'[q].pc = "visit" => g'[q].n <= Cardinality(Occupied' \ g'[q].todo)
                        /\ g'[q].pc = "qoaCount" => g'[q].n <= Cardinality((Occupied' \ g'[q].todo) \ {g'[q].cur})
                        /\ g'[q].pc \in PassLabels \ {"visit"} => g'[q].n <= Cardinality(Occupied' \ {g'[q].cur})
      BY DEF SlotsCounted
    <2>1. g'[q] = g[q] /\ InLine(q)' = InLine(q) /\ g[q].n \in Nat
      BY DEF InLine, SlotsCounted
    <2>2. /\ g[q].pc \in {"qoaCount", "visit"} => g[q].todo \subseteq reg'
          /\ g[q].pc \in PassLabels => InLine(q) \subseteq reg'
          /\ g[q].pc \in PassLabels \ {"visit"} => g[q].cur \in reg'
      BY DEF SlotsCounted
    <2>3. ASSUME NEW S, g[q].n <= Cardinality(Occupied \ S) PROVE g[q].n <= Cardinality(Occupied' \ S)
      <3>1. /\ Cardinality(Occupied \ S) <= Cardinality(Occupied' \ S)
            /\ Cardinality(Occupied \ S) \in Nat /\ Cardinality(Occupied' \ S) \in Nat
        BY OccupiedGrows
      <3> QED BY <2>1, <2>3, <3>1
    <2>4. ASSUME NEW S, NEW t, g[q].n <= Cardinality((Occupied \ S) \ {t})
          PROVE  g[q].n <= Cardinality((Occupied' \ S) \ {t})
      <3>1. (Occupied \ S) \ {t} = Occupied \ (S \cup {t}) /\ (Occupied' \ S) \ {t} = Occupied' \ (S \cup {t})
        OBVIOUS
      <3> QED BY <2>3, <2>4, <3>1
    <2>5. /\ g[q].pc = "visit" => g[q].n <= Cardinality(Occupied' \ g[q].todo)
          /\ g[q].pc \in PassLabels \ {"visit"} => g[q].n <= Cardinality(Occupied' \ {g[q].cur})
      BY <2>3 DEF SlotsCounted
    <2>6. g[q].pc = "qoaCount" => g[q].n <= Cardinality((Occupied' \ g[q].todo) \ {g[q].cur})
      BY <2>4 DEF SlotsCounted
    <2> QED BY <2>1, <2>2, <2>5, <2>6
  <1>2. SlotsTaken'
    <2> SUFFICES ASSUME \A q \in Procs : g'[q].pc \notin PassLabels
                 PROVE  Waiting' = {} \/ (cap # 0 /\ Cardinality(Occupied') >= cap)
      BY DEF SlotsTaken
    <2>1. \A q \in Procs : g[q].pc \notin PassLabels
      OBVIOUS
    <2>2. Waiting = {} \/ (cap # 0 /\ Cardinality(Occupied) >= cap)
      BY <2>1 DEF SlotsTaken
    <2>3. Cardinality(Occupied) <= Cardinality(Occupied') /\ Cardinality(Occupied) \in Nat /\ Cardinality(Occupied') \in Nat
      BY OccupiedGrows
    <2> QED BY <2>2, <2>3 DEF Structure, TypeOK
  <1> QED BY <1>1, <1>2

\* A step that does not add to what waits and leaves the pass where it is.
LEMMA AheadHolds ==
    ASSUME AheadOfPass, Waiting' \subseteq Waiting,
           \A q \in Procs : g'[q].pc \in PassLabels => g'[q] = g[q]
    PROVE  AheadOfPass'
  <1> SUFFICES ASSUME NEW q \in Procs, g'[q].pc \in PassLabels
               PROVE  /\ g'[q].pc \in {"visit", "tally"} => Waiting' \subseteq InLine(q)'
                      /\ g'[q].pc \in {"act", "act2", "act3"} => Waiting' \subseteq InLine(q)' \cup {g'[q].cur}
    BY DEF AheadOfPass, PassLabels
  <1>1. g'[q] = g[q] /\ InLine(q)' = InLine(q)
    BY DEF InLine
  <1> QED BY <1>1 DEF AheadOfPass

\* No autoDownload moves, and none of its torrents is queued or given files.
LEMMA FirstStartHolds ==
    ASSUME Structure, Structure', FirstStart, NEW p \in Procs, NEW l, NEW c, NEW todo, NEW line, NEW n,
           Became(p, l, c, todo, line, n),
           p \in Pool => l \notin Deciding,
           p \in Autos => \/ l = "done"
                          \/ /\ l \in QoaLabels /\ g[p].pc \in {"wait"} \cup QoaLabels
                             /\ (l = "enq2" \/ g[p].pc # "enq2") /\ g[p].cur \in info',
           added' = added, info' = info,
           \A t \in Torrents : t \notin added => wanted'[t] = {},
           \A t \in Torrents : g'[<<"auto", t>>].pc \in {"wait"} \cup (QoaLabels \ {"enq2"}) =>
               (t \in queued' => t \in queued) /\ wanted'[t] \subseteq wanted[t]
    PROVE  FirstStart'
  <1> USE ProcFacts DEF Became, Deciding
  <1>1. ASSUME NEW q \in Pool PROVE g'[q].pc \notin QoaLabels \cup {"resume2"}
    BY DEF FirstStart
  <1>2. ASSUME NEW t \in Torrents
        PROVE  /\ g'[<<"auto", t>>].pc \in {"wait"} \cup (QoaLabels \ {"enq2"}) => t \notin queued' /\ wanted'[t] = {}
               /\ g'[<<"auto", t>>].pc \in QoaLabels => t \in info'
    <2>1. CASE p # <<"auto", t>>
      <3>1. g'[<<"auto", t>>] = g[<<"auto", t>>]
        BY <2>1
      <3> QED BY <3>1 DEF FirstStart
    <2>2. CASE p = <<"auto", t>>
      <3>1. \/ l = "done"
            \/ /\ l \in QoaLabels /\ g[p].pc \in {"wait"} \cup QoaLabels
               /\ (l = "enq2" \/ g[p].pc # "enq2") /\ g[p].cur \in info'
        BY <2>2
      <3>2. CASE l = "done"
        BY <2>2, <3>2 DEF QoaLabels
      <3>3. CASE l \in QoaLabels
        <4>1. g[p].pc \notin {"unborn", "done"}
          BY <2>2, <3>1, <3>3 DEF QoaLabels
        <4>2. g[p].cur = t /\ t \in info'
          BY <2>2, <3>1, <3>3, <4>1 DEF Structure, Placed, QoaLabels
        <4>3. l # "enq2" => g[p].pc \in {"wait"} \cup (QoaLabels \ {"enq2"})
          BY <2>2, <3>1, <3>3, <4>1 DEF Structure, Placed, QoaLabels
        <4> QED BY <2>2, <3>3, <4>2, <4>3 DEF FirstStart, QoaLabels
      <3> QED BY <3>1, <3>2, <3>3
    <2> QED BY <2>1, <2>2
  <1> QED BY <1>1, <1>2 DEF FirstStart


DueLabels == {"pause2", "remove2", "front2", "promote"}

\* Whatever may free a slot leaves a pass due.
LEMMA DueSlots ==
    ASSUME Structure, Structure', Asleep, NEW p \in Procs, NEW l, NEW c, NEW todo, NEW line, NEW n,
           Became(p, l, c, todo, line, n), l \in DueLabels, p \notin Autos, added' = added, info' = info,
           queued' = queued, \A t \in Torrents : wanted'[t] \subseteq wanted[t], Waiting' \subseteq Waiting
    PROVE  Asleep'
  <1> USE DEF Asleep, DueLabels
  <1>1. PassDue'
    BY DEF PassDue, Became
  <1>2. FirstStart'
    <2>1. l \notin Deciding
      BY DEF Deciding, QoaLabels
    <2>2. \A t \in Torrents : t \notin added => wanted'[t] = {}
      BY DEF FirstStart
    <2> QED BY <2>1, <2>2, FirstStartHolds
  <1>3. AheadOfPass'
    <2>1. \A q \in Procs : g'[q].pc \in PassLabels => g'[q] = g[q]
      BY DEF Became, PassLabels
    <2> QED BY <2>1, AheadHolds
  <1> QED BY <1>1, <1>2, <1>3

LEMMA PauseDisallowSlots ==
    ASSUME Structure, Structure', Asleep, NEW p \in Procs, PauseDisallow(p)
    PROVE  Asleep'
  <1>1. g[p].pc = "pause2" /\ p \notin Autos
    BY AtFacts, ProcFacts DEF PauseDisallow, At
  <1>2. Became(p, "promote", g[p].cur, g[p].todo, g[p].line, g[p].n)
    BY GotoMoved DEF PauseDisallow, Structure, Labels
  <1>3. added' = added /\ info' = info /\ queued' = queued /\ wanted' = wanted /\ Waiting' = Waiting
    BY DEF PauseDisallow, handles, Waiting
  <1> QED BY <1>1, <1>2, <1>3, DueSlots DEF DueLabels

LEMMA RemoveDeleteSlots ==
    ASSUME Structure, Structure', Asleep, NEW p \in Procs, RemoveDelete(p)
    PROVE  Asleep'
  <1>1. g[p].pc = "remove2" /\ p \notin Autos
    BY AtFacts, ProcFacts DEF RemoveDelete, At
  <1>2. Became(p, "promote", g[p].cur, g[p].todo, g[p].line, g[p].n)
    BY GotoMoved DEF RemoveDelete, Structure, Labels
  <1>3. added' = added /\ info' = info /\ queued' = queued /\ wanted' = wanted /\ Waiting' \subseteq Waiting
    BY DEF RemoveDelete, client, Waiting
  <1> QED BY <1>1, <1>2, <1>3, DueSlots DEF DueLabels

LEMMA HandlerSlots ==
    ASSUME Structure, Structure', Asleep, NEW p \in Pool, NEW t \in Torrents,
           PauseTorrent(p, t) \/ RemoveTorrent(p, t)
    PROVE  Asleep'
  <1>1. p \in Procs /\ p \notin Autos
    BY ProcFacts
  <1>2. CASE PauseTorrent(p, t)
    <2>1. Became(p, "pause2", t, {}, <<>>, 0)
      BY <1>1, <1>2, GotoOnMoved DEF PauseTorrent, Structure, Labels
    <2>2. added' = added /\ info' = info /\ queued' = queued /\ wanted' = wanted /\ Waiting' \subseteq Waiting
      BY <1>2 DEF PauseTorrent, client, Waiting
    <2> QED BY <1>1, <2>1, <2>2, DueSlots DEF DueLabels
  <1>3. CASE RemoveTorrent(p, t)
    <2>1. Became(p, "remove2", t, {}, <<>>, 0)
      BY <1>1, <1>3, GotoOnMoved DEF RemoveTorrent, Structure, Labels
    <2>2. added' = added /\ info' = info /\ queued' = queued /\ wanted' = wanted /\ Waiting' \subseteq Waiting
      BY <1>3 DEF RemoveTorrent, client, Waiting
    <2> QED BY <1>1, <2>1, <2>2, DueSlots DEF DueLabels
  <1> QED BY <1>2, <1>3

\* Files given to a torrent wake it; only files taken away matter here.
LEMMA PrioritySlots ==
    ASSUME Structure, Structure', Asleep, NEW p \in Pool, NEW t \in Torrents, NEW f \in Files, NEW none \in BOOLEAN,
           SetFilePriority(p, t, f, none), ~ops'.woken
    PROVE  Asleep'
  <1>1. p \in Procs /\ p \notin Autos
    BY ProcFacts
  <1>2. none
    BY StartFacts DEF SetFilePriority
  <1>3. Became(p, "promote", g[p].cur, g[p].todo, g[p].line, g[p].n)
    BY <1>1, GotoMoved DEF SetFilePriority, Structure, Labels
  <1>4. added' = added /\ info' = info /\ queued' = queued /\ Waiting' = Waiting
    BY DEF SetFilePriority, handles, Waiting
  <1>5. \A u \in Torrents : wanted'[u] \subseteq wanted[u]
    BY <1>2 DEF SetFilePriority, Structure, TypeOK
  <1> QED BY <1>1, <1>3, <1>4, <1>5, DueSlots DEF DueLabels

LEMMA SetMaxSlots ==
    ASSUME Structure, Structure', Asleep, NEW p \in Pool, NEW c \in Caps, SetMaxActiveDownloads(p, c)
    PROVE  Asleep'
  <1>1. p \in Procs /\ p \notin Autos
    BY ProcFacts
  <1>2. Became(p, "promote", g[p].cur, g[p].todo, g[p].line, g[p].n)
    BY <1>1, GotoMoved DEF SetMaxActiveDownloads, Structure, Labels
  <1>3. added' = added /\ info' = info /\ queued' = queued /\ wanted' = wanted /\ Waiting' = Waiting
    BY DEF SetMaxActiveDownloads, handles, client, Waiting
  <1> QED BY <1>1, <1>2, <1>3, DueSlots DEF DueLabels

\* Where an autoDownload stands before it has decided.
StartLabels == {"wait", "qoa", "qoaLock", "qoaCount", "qact2", "qact3"}

\* A step that writes no flag and is no step of a pass.
LEMMA QuietSlots ==
    ASSUME Events, Events', Asleep, NEW p \in Procs, NEW l, NEW c, NEW todo, NEW line, NEW n,
           Became(p, l, c, todo, line, n), UNCHANGED Flags, cap' = cap,
           l \notin CountLabels, g[p].pc \notin PassLabels \cup DueLabels,
           \A t \in Torrents : p = <<"watch", t>> /\ g[p].pc = "wait" => t \in removed,
           p \in Pool => l \notin Deciding,
           p \in Autos => \/ l = "done" /\ g[p].cur \in paused \cup queued \cup removed
                          \/ /\ l \in QoaLabels \ {"enq2"} /\ g[p].pc \in StartLabels /\ g[p].cur \in info
    PROVE  Asleep'
  <1> USE DEF Asleep, Events
  <1>1. /\ reg' = reg /\ added' = added /\ removed' = removed /\ paused' = paused /\ queued' = queued
        /\ info' = info /\ complete' = complete /\ wanted' = wanted
    BY DEF Flags
  <1>2. Waiting' = Waiting
    BY <1>1 DEF Waiting
  <1>3. FirstStart'
    <2>1. \A t \in Torrents : t \notin added => wanted'[t] = {}
      BY <1>1 DEF FirstStart
    <2>2. p \in Autos => \/ l = "done"
                         \/ /\ l \in QoaLabels /\ g[p].pc \in {"wait"} \cup QoaLabels
                            /\ (l = "enq2" \/ g[p].pc # "enq2") /\ g[p].cur \in info'
      BY <1>1 DEF QoaLabels, StartLabels
    <2> QED BY <1>1, <2>1, <2>2, FirstStartHolds
  <1>4. AheadOfPass'
    <2>1. \A q \in Procs : g'[q].pc \in PassLabels => g'[q] = g[q]
      BY DEF Became, PassLabels, CountLabels
    <2> QED BY <1>2, <2>1, AheadHolds
  <1>5. ASSUME ~PassDue' PROVE ~PassDue
    <2>1. ASSUME NEW q \in Procs, g[q].pc \in DueLabels PROVE FALSE
      BY <1>5, <2>1 DEF PassDue, Became, DueLabels
    <2>2. ASSUME NEW t \in complete \ removed, g[<<"watch", t>>].pc = "wait" PROVE FALSE
      <3>1. t \in Torrents /\ p # <<"watch", t>>
        BY <2>2 DEF Structure, TypeOK
      <3> QED BY <1>1, <1>5, <2>2, <3>1, ProcFacts DEF PassDue, Became
    <2> QED BY <2>1, <2>2 DEF PassDue, DueLabels
  <1>6. ASSUME ~PassDue PROVE Occupied \subseteq Occupied'
    <2> SUFFICES ASSUME NEW t \in Occupied PROVE t \in Occupied'
      OBVIOUS
    <2>1. t \in reg /\ t \in Torrents /\ (isActive(t) \/ Starting(t))
      BY DEF Occupied, Structure, TypeOK
    <2>2. CASE isActive(t)
      BY <1>1, <2>1, <2>2 DEF Occupied, isActive
    <2>3. CASE Starting(t)
      <3>1. t \notin removed
        BY <1>6, <2>1 DEF RemovalUnderWay, PassDue
      <3>2. g'[<<"auto", t>>].pc \in StartLabels
        <4>1. CASE p = <<"auto", t>>
          <5>1. g[p].cur = t /\ p \in Autos
            BY <2>1, <2>3, <4>1, ProcFacts DEF Starting, Structure, Placed
          <5>2. t \notin paused \cup queued
            BY <2>3 DEF Starting
          <5> QED BY <3>1, <4>1, <5>1, <5>2 DEF Became, StartLabels, QoaLabels
        <4>2. CASE p # <<"auto", t>>
          BY <2>1, <2>3, <4>2, ProcFacts DEF Became, Starting, StartLabels
        <4> QED BY <4>1, <4>2
      <3> QED BY <1>1, <2>1, <2>3, <3>2 DEF Occupied, Starting, StartLabels
    <2> QED BY <2>1, <2>2, <2>3
  <1>7. ASSUME ~PassDue' PROVE SlotsCounted' /\ SlotsTaken'
    <2>1. ~PassDue /\ SlotsCounted /\ SlotsTaken /\ Occupied \subseteq Occupied'
      BY <1>5, <1>6, <1>7
    <2>2. \A q \in Procs : g'[q].pc \in CountLabels => g'[q] = g[q]
      BY DEF Became
    <2>3. \A q \in Procs : g[q].pc \in PassLabels => g'[q] = g[q]
      BY DEF Became
    <2> QED BY <1>1, <1>2, <2>1, <2>2, <2>3, SlotsHold
  <1> QED BY <1>3, <1>4, <1>7


LEMMA AllowSlots ==
    ASSUME Events, Events', Asleep, NEW p \in Procs, RestoreDisallow(p) \/ ResumeAllow(p)
    PROVE  Asleep'
  <1> USE DEF Events
  <1>1. p \in Pool /\ p \notin Autos /\ (\A t \in Torrents : p # <<"watch", t>>)
    BY AtFacts, ProcFacts DEF RestoreDisallow, ResumeAllow, At
  <1>2. RestoreDisallow(p)
    BY <1>1 DEF Asleep, FirstStart, ResumeAllow, At
  <1>3. UNCHANGED Flags /\ cap' = cap /\ g[p].pc = "restore2"
    BY <1>2 DEF RestoreDisallow, At, Flags, handles
  <1>4. Became(p, Rest(p), Nobody, {}, <<>>, 0) /\ Rest(p) = "idle"
    BY <1>1, <1>2, ReturnMoved DEF RestoreDisallow, Structure, Rest
  <1> QED BY <1>1, <1>3, <1>4, QuietSlots DEF CountLabels, PassLabels, DueLabels, Deciding, QoaLabels

LEMMA SetOrderSlots ==
    ASSUME Events, Events', Asleep, NEW p \in Procs, setQueueOrder(p)
    PROVE  Asleep'
  <1> USE DEF Events
  <1>1. p \in Pool /\ p \notin Autos /\ (\A t \in Torrents : p # <<"watch", t>>)
    BY AtFacts, ProcFacts DEF setQueueOrder, At
  <1>2. UNCHANGED Flags /\ cap' = cap /\ Waiting' = Waiting
    BY DEF setQueueOrder, Flags, client, Waiting
  <1>3. CASE g[p].pc = "front2"
    <2>1. Became(p, "promote", g[p].cur, g[p].todo, g[p].line, g[p].n)
      BY <1>3, GotoMoved DEF setQueueOrder, At, Structure, Labels
    <2> QED BY <1>1, <1>2, <2>1, DueSlots DEF DueLabels, Flags
  <1>4. CASE g[p].pc = "back2"
    <2>1. Became(p, Rest(p), Nobody, {}, <<>>, 0) /\ Rest(p) = "idle"
      BY <1>1, <1>4, ReturnMoved DEF setQueueOrder, At, Structure, Rest
    <2> QED BY <1>1, <1>2, <1>4, <2>1, QuietSlots DEF CountLabels, PassLabels, DueLabels, Deciding, QoaLabels
  <1> QED BY <1>3, <1>4 DEF setQueueOrder, At

LEMMA QueueMoveSlots ==
    ASSUME Events, Events', Asleep, NEW p \in Pool, NEW t \in Torrents, QueueMoveToFront(p, t) \/ QueueMoveToBack(p, t)
    PROVE  Asleep'
  <1> USE DEF Events
  <1>1. /\ p \in Procs /\ p \notin Autos /\ (\A u \in Torrents : p # <<"watch", u>>) /\ g[p].pc = "idle"
        /\ UNCHANGED Flags /\ cap' = cap
    BY QueueMoveMoved, ProcFacts DEF Flags, client, handles
  <1>2. Waiting' = Waiting
    BY <1>1 DEF Waiting, Flags
  <1>3. PICK l \in {"front2", "back2"}, n \in Int : Became(p, l, t, {}, <<>>, n)
    BY QueueMoveMoved
  <1>4. CASE l = "front2"
    BY <1>1, <1>2, <1>3, <1>4, DueSlots DEF DueLabels, Flags
  <1>5. CASE l = "back2"
    BY <1>1, <1>2, <1>3, <1>5, QuietSlots DEF CountLabels, PassLabels, DueLabels, Deciding, QoaLabels
  <1> QED BY <1>4, <1>5

LEMMA AutoSlots ==
    ASSUME Events, Events', Asleep, NEW t \in Torrents, autoDownload(t)
    PROVE  Asleep'
  <1> USE DEF Events
  <1> DEFINE p == <<"auto", t>>
  <1>1. /\ p \in Procs /\ p \in Autos /\ p \notin Pool /\ (\A u \in Torrents : p # <<"watch", u>>)
        /\ g[p].pc = "wait" /\ g[p].cur = t /\ UNCHANGED Flags /\ cap' = cap
    BY AutoMoved, ProcFacts DEF Flags, client, handles
  <1>2. \/ t \in info /\ Became(p, "qoa", t, g[p].todo, g[p].line, 0)
        \/ t \in removed /\ Became(p, "done", Nobody, {}, <<>>, 0)
    BY AutoMoved
  <1> HIDE DEF p
  <1> USE DEF CountLabels, PassLabels, DueLabels, Deciding, QoaLabels, StartLabels
  <1>3. CASE t \in info /\ Became(p, "qoa", t, g[p].todo, g[p].line, 0)
    BY <1>1, <1>3, QuietSlots
  <1>4. CASE t \in removed /\ Became(p, "done", Nobody, {}, <<>>, 0)
    BY <1>1, <1>4, QuietSlots
  <1> QED BY <1>2, <1>3, <1>4

LEMMA WatchSlots ==
    ASSUME Events, Events', Asleep, NEW t \in Torrents, watchCompletion(t)
    PROVE  Asleep'
  <1> USE DEF Events
  <1> DEFINE p == <<"watch", t>>
  <1>1. /\ p \in Procs /\ p \notin Autos /\ p \notin Pool /\ (\A u \in Torrents : p = <<"watch", u>> => u = t)
        /\ g[p].pc = "wait" /\ UNCHANGED Flags /\ cap' = cap
    BY WatchMoved, ProcFacts DEF Flags, client, handles
  <1>2. \/ Became(p, "promote", g[p].cur, g[p].todo, g[p].line, g[p].n)
        \/ t \in removed /\ Became(p, "done", Nobody, {}, <<>>, 0)
    BY WatchMoved
  <1>3. Waiting' = Waiting
    BY <1>1 DEF Waiting, Flags
  <1> HIDE DEF p
  <1>4. CASE Became(p, "promote", g[p].cur, g[p].todo, g[p].line, g[p].n)
    BY <1>1, <1>3, <1>4, DueSlots DEF DueLabels, Flags
  <1>5. CASE t \in removed /\ Became(p, "done", Nobody, {}, <<>>, 0)
    BY <1>1, <1>5, QuietSlots DEF CountLabels, PassLabels, DueLabels
  <1> QED BY <1>2, <1>4, <1>5

\* Only an autoDownload calls queueOrActivate, about its own torrent, which
\* has no files and is not queued.
LEMMA FirstCaller ==
    ASSUME Structure, FirstStart, NEW p \in Procs, g[p].pc \in QoaLabels
    PROVE  /\ p \in Autos /\ p \notin Pool /\ (\A u \in Torrents : p # <<"watch", u>>)
           /\ p = <<"auto", g[p].cur>> /\ g[p].cur \in Torrents /\ g[p].cur \in info
           /\ g[p].pc # "enq2" => g[p].cur \notin queued /\ wanted[g[p].cur] = {} /\ ~isActive(g[p].cur)
  <1>1. p \notin Pool
    BY DEF FirstStart
  <1>2. p \in Autos
    BY <1>1, AtFacts
  <1>3. PICK t \in Torrents : p = <<"auto", t>>
    BY <1>2, ProcFacts
  <1>4. g[p].cur = t
    BY <1>3 DEF Structure, Placed, QoaLabels
  <1>5. t \in info /\ (g[p].pc # "enq2" => t \notin queued /\ wanted[t] = {})
    BY <1>3 DEF FirstStart
  <1>6. g[p].pc # "enq2" => ~isActive(t)
    BY <1>5 DEF isActive
  <1> QED BY <1>1, <1>2, <1>3, <1>4, <1>5, <1>6, ProcFacts

LEMMA QoaCheckSlots ==
    ASSUME Events, Events', Asleep, NEW p \in Procs, QoaCheck(p)
    PROVE  Asleep'
  <1> USE DEF Events, QoaLabels, Deciding, CountLabels, PassLabels, DueLabels, StartLabels
  <1>1. UNCHANGED Flags /\ cap' = cap /\ g[p].pc = "qoa"
    BY DEF QoaCheck, Flags, client, handles, At
  <1>2. p \in Autos /\ p \notin Pool /\ (\A u \in Torrents : p # <<"watch", u>>) /\ g[p].cur \in info
    BY <1>1, FirstCaller DEF Asleep
  <1>3. CASE g[p].cur \in paused
    <2>1. Became(p, Rest(p), Nobody, {}, <<>>, 0) /\ Rest(p) = "done"
      BY <1>2, <1>3, ReturnMoved DEF QoaCheck, Rest, Structure
    <2> QED BY <1>1, <1>2, <1>3, <2>1, QuietSlots
  <1>4. CASE g[p].cur \notin paused
    <2>1. Became(p, "qoaLock", g[p].cur, g[p].todo, g[p].line, g[p].n)
      BY <1>4, GotoMoved DEF QoaCheck, Structure, Labels
    <2> QED BY <1>1, <1>2, <2>1, QuietSlots
  <1> QED BY <1>3, <1>4

\* Metadata that arrives keeps a slot; data that completes leaves its
\* watchCompletion a pass to run.
LEMMA ClientSlots ==
    ASSUME Events, Events', Asleep, NEW u \in Torrents, GotInfo(u) \/ Completed(u)
    PROVE  Asleep'
  <1> USE DEF Asleep, Events
  <1>1. UNCHANGED <<cap, reg, added, removed, paused, queued, wanted, g>> /\ info \subseteq info' /\ complete \subseteq complete'
    BY DEF GotInfo, Completed, handles
  <1>2. Waiting' = Waiting
    BY <1>1 DEF Waiting
  <1>3. FirstStart'
    BY <1>1 DEF FirstStart
  <1>4. AheadOfPass'
    BY <1>1, <1>2, AheadHolds
  <1>5. ASSUME ~PassDue' PROVE SlotsCounted' /\ SlotsTaken'
    <2>1. ~PassDue
      BY <1>1, <1>5 DEF PassDue
    <2>2. \A t \in reg : t \notin removed
      BY <2>1 DEF RemovalUnderWay, PassDue
    <2>3. GotInfo(u)
      <3> SUFFICES ASSUME Completed(u) PROVE FALSE
        OBVIOUS
      <3>1. u \in reg /\ u \in added /\ u \notin complete /\ u \in complete' /\ u \notin removed
        BY <2>2 DEF Completed, Structure, TypeOK
      <3>2. g[<<"watch", u>>].pc = "wait"
        BY <3>1 DEF Watched
      <3> QED BY <1>1, <1>5, <3>1, <3>2 DEF PassDue
    <2>4. u \in reg /\ u \notin info /\ info' = info \cup {u} /\ complete' = complete /\ u \notin complete
      BY <2>3 DEF GotInfo, Structure, TypeOK
    <2>5. g[<<"auto", u>>].pc = "wait" /\ wanted[u] = {} /\ u \notin queued
      <3>1. g[<<"auto", u>>].pc = "wait"
        BY <2>2, <2>4 DEF AutoWaits
      <3> QED BY <3>1 DEF FirstStart
    <2>6. Occupied \subseteq Occupied'
      <3> SUFFICES ASSUME NEW t \in Occupied PROVE t \in Occupied'
        OBVIOUS
      <3>1. t \in reg /\ (isActive(t) \/ Starting(t))
        BY DEF Occupied
      <3>2. CASE t = u
        <4>1. t \notin paused
          BY <3>1 DEF isActive, Starting
        <4>2. Starting(t)'
          BY <1>1, <2>4, <2>5, <3>2, <4>1 DEF Starting
        <4> QED BY <1>1, <3>1, <4>2 DEF Occupied
      <3>3. CASE t # u
        BY <1>1, <2>4, <3>1, <3>3 DEF Occupied, isActive, Starting
      <3> QED BY <3>2, <3>3
    <2> QED BY <1>1, <1>2, <2>1, <2>6, SlotsHold
  <1> QED BY <1>3, <1>4, <1>5

LEMMA RegisterSlots ==
    ASSUME Events, Events', Asleep, NEW p \in Pool, NEW u \in Torrents, NEW known \in BOOLEAN, NEW asPaused \in BOOLEAN,
           registerLockedRestore(p, u, known, asPaused)
    PROVE  Asleep'
  <1> USE DEF Asleep, Events, CountLabels, PassLabels, QoaLabels
  <1> DEFINE a == <<"auto", u>>
             b == <<"watch", u>>
  <1>1. /\ p \in Procs /\ g[p].pc = "idle" /\ u \notin added
        /\ \A q \in Procs \ {p, a, b} : g'[q] = g[q]
        /\ g'[a] = Local("wait", u) /\ g'[b] = Local("wait", u)
        /\ g'[p].pc \in {"idle", "restore2"}
    BY RegisterMoved
  <1>2. a \in Procs /\ b \in Procs /\ a # b /\ a # p /\ b # p /\ g'[a].pc = "wait" /\ g'[b].pc = "wait"
    BY <1>1, LocalTyped, ProcFacts DEF Labels
  <1>3. g[a].pc = "unborn" /\ g[b].pc = "unborn"
    BY <1>1 DEF Structure, Placed
  <1>4. /\ reg' = reg \cup {u} /\ added' = added \cup {u} /\ info \subseteq info' /\ info' \subseteq info \cup {u}
        /\ paused \subseteq paused' /\ paused' \subseteq paused \cup {u}
        /\ UNCHANGED <<cap, removed, queued, complete, wanted, ops>>
    BY DEF registerLockedRestore
  <1>5. u \notin reg /\ u \notin removed /\ u \notin queued /\ u \notin info /\ wanted[u] = {}
    BY <1>1 DEF Structure, TypeOK, FirstStart
  <1>6. ASSUME NEW q \in Procs, g[q].pc \in CountLabels \cup DueLabels \/ g'[q].pc \in CountLabels
        PROVE  g'[q] = g[q]
    BY <1>1, <1>2, <1>3, <1>6 DEF DueLabels
  <1>7. ASSUME NEW t \in Torrents, t # u
        PROVE  g'[<<"auto", t>>] = g[<<"auto", t>>] /\ g'[<<"watch", t>>] = g[<<"watch", t>>]
    <2>1. <<"auto", t>> \in Procs \ {p, a, b} /\ <<"watch", t>> \in Procs \ {p, a, b}
      BY <1>7, ProcFacts
    <2> QED BY <1>1, <2>1
  <1>8. FirstStart'
    <2>1. ASSUME NEW q \in Pool PROVE g'[q].pc \notin QoaLabels \cup {"resume2"}
      <3>1. q \in Procs /\ q # a /\ q # b
        BY ProcFacts
      <3> QED BY <1>1, <3>1 DEF FirstStart
    <2>2. ASSUME NEW t \in Torrents
          PROVE  /\ t \notin added' => wanted'[t] = {}
                 /\ g'[<<"auto", t>>].pc \in {"wait"} \cup (QoaLabels \ {"enq2"}) => t \notin queued' /\ wanted'[t] = {}
                 /\ g'[<<"auto", t>>].pc \in QoaLabels => t \in info'
      <3>1. CASE t = u
        BY <1>2, <1>4, <1>5, <3>1
      <3>2. CASE t # u
        BY <1>4, <1>7, <3>2 DEF FirstStart
      <3> QED BY <3>1, <3>2
    <2> QED BY <2>1, <2>2 DEF FirstStart
  <1>9. Waiting' \subseteq Waiting
    BY <1>4, <1>5 DEF Waiting
  <1>10. AheadOfPass'
    <2>1. \A q \in Procs : g'[q].pc \in PassLabels => g'[q] = g[q]
      BY <1>6
    <2> QED BY <1>9, <2>1, AheadHolds
  <1>11. ASSUME ~PassDue' PROVE SlotsCounted' /\ SlotsTaken'
    <2>1. ~PassDue
      <3>1. ASSUME NEW q \in Procs, g[q].pc \in DueLabels PROVE FALSE
        BY <1>6, <1>11, <3>1 DEF PassDue, DueLabels
      <3>2. ASSUME NEW t \in complete \ removed, g[<<"watch", t>>].pc = "wait" PROVE FALSE
        <4>1. t \in Torrents /\ t # u
          BY <1>1, <3>2 DEF Structure, TypeOK
        <4> QED BY <1>4, <1>7, <1>11, <3>2, <4>1 DEF PassDue
      <3> QED BY <3>1, <3>2 DEF PassDue, DueLabels
    <2>2. Occupied \subseteq Occupied'
      <3> SUFFICES ASSUME NEW t \in Occupied PROVE t \in Occupied'
        OBVIOUS
      <3>1. t \in reg /\ t # u /\ t \in Torrents /\ (isActive(t) \/ Starting(t))
        BY <1>5 DEF Occupied, Structure, TypeOK
      <3>2. isActive(t) => isActive(t)'
        BY <1>4, <3>1 DEF isActive
      <3>3. Starting(t) => Starting(t)'
        BY <1>4, <1>7, <3>1 DEF Starting
      <3> QED BY <1>4, <3>1, <3>2, <3>3 DEF Occupied
    <2>3. \A q \in Procs : /\ g'[q].pc \in CountLabels => g'[q] = g[q]
                           /\ g[q].pc \in PassLabels => g'[q] = g[q]
      BY <1>6
    <2> QED BY <1>4, <1>9, <2>1, <2>2, <2>3, SlotsHold
  <1> QED BY <1>8, <1>10, <1>11


(***************************************************************************)
(* The slots: steps of the holder of promoteMu.                            *)
(***************************************************************************)
Row(line) == {line[i] : i \in DOMAIN line}

LEMMA RowSplit ==
    ASSUME NEW line \in Seq(Torrents), line # <<>>
    PROVE  Head(line) \in Row(line) /\ Row(Tail(line)) \subseteq Row(line) /\ Row(line) \subseteq Row(Tail(line)) \cup {Head(line)}
  <1>1. Head(line) = line[1] /\ 1 \in DOMAIN line
    OBVIOUS
  <1>2. ASSUME NEW i \in DOMAIN Tail(line) PROVE Tail(line)[i] = line[i+1] /\ i + 1 \in DOMAIN line
    OBVIOUS
  <1>3. ASSUME NEW i \in DOMAIN line, i # 1 PROVE i - 1 \in DOMAIN Tail(line) /\ line[i] = Tail(line)[i-1]
    BY <1>3
  <1>4. ASSUME NEW x \in Row(Tail(line)) PROVE x \in Row(line)
    BY <1>2 DEF Row
  <1>5. ASSUME NEW x \in Row(line) PROVE x \in Row(Tail(line)) \cup {Head(line)}
    BY <1>1, <1>3 DEF Row
  <1> QED BY <1>1, <1>4, <1>5 DEF Row

\* One torrent more.
LEMMA OneAdded ==
    ASSUME NEW B \in SUBSET Torrents, NEW A \in SUBSET B, NEW t \in B, t \notin A
    PROVE  Cardinality(A) + 1 <= Cardinality(B) /\ Cardinality(A) \in Nat /\ Cardinality(B) \in Nat
  <1>1. IsFiniteSet(B) /\ Cardinality(B) \in Nat /\ Cardinality(A) \in Nat
    BY TorrentsCount
  <1>2. Cardinality(B \ {t}) = Cardinality(B) - 1
    BY <1>1, FS_RemoveElement
  <1>3. (B \ {t}) \in SUBSET Torrents /\ A \in SUBSET (B \ {t})
    OBVIOUS
  <1>4. Cardinality(A) <= Cardinality(B \ {t})
    BY <1>3, TorrentsCount
  <1> QED BY <1>1, <1>2, <1>4

\* With promoteMu held after the step, only its holder counts or passes.
LEMMA HeldSlots ==
    ASSUME Structure', NEW p \in Procs, NEW l, NEW c, NEW todo, NEW line, NEW n,
           Became(p, l, c, todo, line, n), mu' = p, FirstStart',
           l \in {"visit", "tally"} => Waiting' \subseteq Row(line),
           l \in {"act", "act2", "act3"} => Waiting' \subseteq Row(line) \cup {c},
           ~PassDue' =>
               /\ l \in {"qoaCount", "visit"} => todo \subseteq reg'
               /\ l \in PassLabels => Row(line) \subseteq reg'
               /\ l \in PassLabels \ {"visit"} => c \in reg'
               /\ n \in Nat
               /\ l = "visit" => n <= Cardinality(Occupied' \ todo)
               /\ l = "qoaCount" => n <= Cardinality((Occupied' \ todo) \ {c})
               /\ l \in PassLabels \ {"visit"} => n <= Cardinality(Occupied' \ {c})
               /\ l \notin PassLabels => Waiting' = {} \/ (cap' # 0 /\ Cardinality(Occupied') >= cap')
    PROVE  Asleep'
  <1>1. ASSUME NEW q \in Procs, q # p PROVE g'[q].pc \notin MutexLabels
    BY <1>1 DEF Structure, MutexHeld
  <1>2. InLine(p)' = Row(line)
    BY DEF InLine, Row, Became
  <1>3. AheadOfPass'
    <2> SUFFICES ASSUME NEW q \in Procs
                 PROVE  /\ g'[q].pc \in {"visit", "tally"} => Waiting' \subseteq InLine(q)'
                        /\ g'[q].pc \in {"act", "act2", "act3"} => Waiting' \subseteq InLine(q)' \cup {g'[q].cur}
      BY DEF AheadOfPass
    <2>1. CASE q = p
      BY <1>2, <2>1 DEF Became
    <2>2. CASE q # p
      BY <1>1, <2>2 DEF MutexLabels, PassLabels
    <2> QED BY <2>1, <2>2
  <1>4. ASSUME ~PassDue' PROVE SlotsCounted' /\ SlotsTaken'
    <2>1. SlotsCounted'
      <3> SUFFICES ASSUME NEW q \in Procs
                   PROVE  /\ g'[q].pc \in {"qoaCount", "visit"} => g'[q].todo \subseteq reg'
                          /\ g'[q].pc \in PassLabels => InLine(q)' \subseteq reg'
                          /\ g'[q].pc \in PassLabels \ {"visit"} => g'[q].cur \in reg'
                          /\ g'[q].pc \in PassLabels \cup {"qoaCount", "qact2", "qact3"} => g'[q].n \in Nat
                          /\ g'[q].pc = "visit" => g'[q].n <= Cardinality(Occupied' \ g'[q].todo)
                          /\ g'[q].pc = "qoaCount" => g'[q].n <= Cardinality((Occupied' \ g'[q].todo) \ {g'[q].cur})
                          /\ g'[q].pc \in PassLabels \ {"visit"} => g'[q].n <= Cardinality(Occupied' \ {g'[q].cur})
        BY DEF SlotsCounted
      <3>1. CASE q = p
        BY <1>2, <1>4, <3>1 DEF Became
      <3>2. CASE q # p
        BY <1>1, <3>2 DEF MutexLabels, PassLabels
      <3> QED BY <3>1, <3>2
    <2>2. SlotsTaken'
      BY <1>4 DEF SlotsTaken, Became
    <2> QED BY <2>1, <2>2
  <1> QED BY <1>3, <1>4 DEF Asleep

LEMMA DueKept ==
    ASSUME Structure, NEW p \in Procs, NEW l, NEW c, NEW todo, NEW line, NEW n,
           Became(p, l, c, todo, line, n), g[p].pc \notin DueLabels \cup {"wait"},
           complete' = complete, removed' = removed, ~PassDue'
    PROVE  ~PassDue
  <1>1. ASSUME NEW q \in Procs, g[q].pc \in DueLabels PROVE FALSE
    BY <1>1 DEF PassDue, Became, DueLabels
  <1>2. ASSUME NEW t \in complete \ removed, g[<<"watch", t>>].pc = "wait" PROVE FALSE
    <2>1. t \in Torrents /\ p # <<"watch", t>> /\ <<"watch", t>> \in Procs
      BY <1>2, ProcFacts DEF Structure, TypeOK
    <2> QED BY <1>2, <2>1 DEF PassDue, Became
  <1> QED BY <1>1, <1>2 DEF PassDue, DueLabels

\* A quiet step of the holder changes no slot.
LEMMA HolderQuiet ==
    ASSUME Structure, Structure', Asleep, NEW p \in Procs, NEW l, NEW c, NEW todo, NEW line, NEW n,
           Became(p, l, c, todo, line, n), UNCHANGED Flags,
           \/ g[p].pc \in {"qoaLock", "qoaCount", "qact2", "qact3"} /\ l \in {"qoaCount", "qact2", "qact3"}
           \/ g[p].pc \in {"promote"} \cup PassLabels /\ l \in PassLabels
    PROVE  FirstStart' /\ Occupied' = Occupied /\ Waiting' = Waiting /\ reg' = reg
  <1> USE DEF Asleep
  <1>1. /\ reg' = reg /\ added' = added /\ removed' = removed /\ paused' = paused /\ queued' = queued
        /\ info' = info /\ complete' = complete /\ wanted' = wanted
    BY DEF Flags
  <1>2. p \in Autos => g[p].pc \in QoaLabels /\ g[p].cur \in info
    <2>1. p \in Autos => g[p].pc \in QoaLabels
      BY AtFacts, ProcFacts DEF QoaLabels
    <2> QED BY <2>1, FirstCaller
  <1>3. p \in Pool => g[p].pc \notin QoaLabels
    BY DEF FirstStart
  <1>4. FirstStart'
    <2>1. \A t \in Torrents : t \notin added => wanted'[t] = {}
      BY <1>1 DEF FirstStart
    <2>2. p \in Pool => l \notin Deciding
      BY <1>3 DEF QoaLabels, PassLabels, Deciding
    <2>3. p \in Autos => \/ l = "done"
                         \/ /\ l \in QoaLabels /\ g[p].pc \in {"wait"} \cup QoaLabels
                            /\ (l = "enq2" \/ g[p].pc # "enq2") /\ g[p].cur \in info'
      BY <1>1, <1>2 DEF QoaLabels, PassLabels
    <2> QED BY <1>1, <2>1, <2>2, <2>3, FirstStartHolds
  <1>5. Waiting' = Waiting
    BY <1>1 DEF Waiting
  <1>6. ASSUME NEW t \in Torrents PROVE Starting(t)' = Starting(t) /\ isActive(t)' = isActive(t)
    <2>1. g'[<<"auto", t>>].pc \in StartLabels <=> g[<<"auto", t>>].pc \in StartLabels
      <3>1. CASE p = <<"auto", t>>
        BY <1>2, <3>1, ProcFacts DEF Became, StartLabels, QoaLabels, PassLabels
      <3>2. CASE p # <<"auto", t>>
        BY <3>2, ProcFacts DEF Became
      <3> QED BY <3>1, <3>2
    <2> QED BY <1>1, <2>1 DEF Starting, isActive, StartLabels
  <1>7. Occupied' = Occupied
    BY <1>1, <1>6 DEF Occupied, Structure, TypeOK
  <1> QED BY <1>1, <1>4, <1>5, <1>7

\* Without a pass under way the slots are taken.
LEMMA TakenFacts ==
    ASSUME Structure, SlotsTaken, mu = Nobody \/ \E p \in Procs : mu = p /\ g[p].pc \notin PassLabels
    PROVE  Waiting = {} \/ (cap # 0 /\ Cardinality(Occupied) >= cap)
  <1>1. \A q \in Procs : g[q].pc \in PassLabels => mu = q
    BY DEF Structure, MutexHeld, MutexLabels
  <1>2. \A q \in Procs : g[q].pc \notin PassLabels
    BY <1>1, ProcFacts
  <1> QED BY <1>2 DEF SlotsTaken

LEMMA LockSlots ==
    ASSUME Events, Events', Asleep, NEW p \in Procs, QoaLock(p) \/ PromoteLock(p)
    PROVE  Asleep'
  <1> USE DEF Events
  <1>1. UNCHANGED Flags /\ cap' = cap /\ mu' = p /\ mu = Nobody
    BY DEF QoaLock, PromoteLock, Flags, client, handles
  <1>2. ToCount \subseteq reg
    BY DEF ToCount
  <1>3. CASE QoaLock(p)
    <2>1. g[p].pc = "qoaLock" /\ g[p].n = 0
      BY <1>3 DEF QoaLock, At, Structure, WorksOn
    <2>2. Became(p, "qoaCount", g[p].cur, ToCount, g[p].line, 0)
      BY <1>3, <2>1, QoaLockMoved
    <2>3. FirstStart' /\ Occupied' = Occupied /\ Waiting' = Waiting /\ reg' = reg
      BY <1>1, <2>1, <2>2, HolderQuiet
    <2>4. ASSUME ~PassDue' PROVE Waiting' = {} \/ (cap' # 0 /\ Cardinality(Occupied') >= cap')
      <3>1. ~PassDue
        BY <1>1, <2>1, <2>2, <2>4, DueKept DEF DueLabels, Flags
      <3> QED BY <1>1, <2>3, <3>1, TakenFacts DEF Asleep
    <2>5. 0 <= Cardinality((Occupied' \ ToCount) \ {g[p].cur})
      <3>1. ((Occupied' \ ToCount) \ {g[p].cur}) \in SUBSET Torrents
        BY DEF Occupied, Structure, TypeOK
      <3>2. Cardinality((Occupied' \ ToCount) \ {g[p].cur}) \in Nat
        BY <3>1, TorrentsCount
      <3> QED BY <3>2
    <2> QED BY <1>1, <1>2, <2>2, <2>3, <2>4, <2>5, HeldSlots DEF PassLabels
  <1>4. CASE PromoteLock(p)
    <2>1. g[p].pc = "promote"
      BY <1>4 DEF PromoteLock, At
    <2>2. PICK s \in SortedHandles : Became(p, "visit", Nobody, ToCount, s, 0)
      BY <1>4, PromoteLockMoved
    <2>3. FirstStart' /\ Occupied' = Occupied /\ Waiting' = Waiting /\ reg' = reg
      BY <1>1, <2>1, <2>2, HolderQuiet DEF PassLabels
    <2>4. Row(s) = reg
      BY DEF Row, SortedHandles
    <2>5. Waiting' \subseteq Row(s)
      BY <2>3, <2>4 DEF Waiting
    <2>6. 0 <= Cardinality(Occupied' \ ToCount)
      <3>1. Cardinality(Occupied \ ToCount) \in Nat
        BY OccupiedFinite
      <3> QED BY <2>3, <3>1
    <2> QED BY <1>1, <1>2, <2>2, <2>3, <2>4, <2>5, <2>6, HeldSlots DEF PassLabels
  <1> QED BY <1>3, <1>4


\* What is to be checked of a holder that keeps promoteMu: its line and its
\* counter.
LineAhead(l, c, line) ==
    /\ l \in {"visit", "tally"} => Waiting \subseteq Row(line)
    /\ l \in {"act", "act2", "act3"} => Waiting \subseteq Row(line) \cup {c}
CountRight(l, c, todo, line, n) ==
    /\ l \in {"qoaCount", "visit"} => todo \subseteq reg
    /\ l \in PassLabels => Row(line) \subseteq reg
    /\ l \in PassLabels \ {"visit"} => c \in reg
    /\ n \in Nat
    /\ l = "visit" => n <= Cardinality(Occupied \ todo)
    /\ l = "qoaCount" => n <= Cardinality((Occupied \ todo) \ {c})
    /\ l \in PassLabels \ {"visit"} => n <= Cardinality(Occupied \ {c})
SamePass(p, l) ==
    \/ g[p].pc \in {"qoaCount", "qact2", "qact3"} /\ l \in {"qoaCount", "qact2", "qact3"}
    \/ g[p].pc \in PassLabels /\ l \in PassLabels

\* What a counting holder knows of its line and its counter.
LEMMA HolderKnows ==
    ASSUME Structure, Asleep, NEW p \in Procs, g[p].pc \in CountLabels
    PROVE  /\ LineAhead(g[p].pc, g[p].cur, g[p].line)
           /\ ~PassDue => CountRight(g[p].pc, g[p].cur, g[p].todo, g[p].line, g[p].n)
  BY DEF Asleep, AheadOfPass, SlotsCounted, LineAhead, CountRight, CountLabels, PassLabels, InLine, Row

LEMMA HolderSlots ==
    ASSUME Structure, Structure', Asleep, NEW p \in Procs, NEW l, NEW c, NEW todo, NEW line, NEW n,
           Became(p, l, c, todo, line, n), UNCHANGED Flags, cap' = cap, mu' = p,
           SamePass(p, l), LineAhead(l, c, line), ~PassDue => CountRight(l, c, todo, line, n)
    PROVE  Asleep'
  <1>0. \/ g[p].pc \in {"qoaCount", "qact2", "qact3"} /\ l \in {"qoaCount", "qact2", "qact3"}
        \/ g[p].pc \in PassLabels /\ l \in PassLabels
    BY DEF SamePass
  <1>1. FirstStart' /\ Occupied' = Occupied /\ Waiting' = Waiting /\ reg' = reg
    BY <1>0, HolderQuiet
  <1>2. mu = p /\ g[p].pc \notin DueLabels \cup {"wait"}
    BY <1>0, HoldsMu DEF MutexLabels, PassLabels, DueLabels
  <1>3. ASSUME ~PassDue' PROVE ~PassDue
    BY <1>2, <1>3, DueKept DEF Flags
  <1>4. ASSUME ~PassDue', l \notin PassLabels
        PROVE  Waiting' = {} \/ (cap' # 0 /\ Cardinality(Occupied') >= cap')
    <2>1. SlotsTaken /\ g[p].pc \notin PassLabels
      BY <1>0, <1>3, <1>4 DEF Asleep, PassLabels
    <2> QED BY <1>1, <1>2, <2>1, TakenFacts
  <1>5. /\ l \in {"visit", "tally"} => Waiting' \subseteq Row(line)
        /\ l \in {"act", "act2", "act3"} => Waiting' \subseteq Row(line) \cup {c}
    BY <1>1 DEF LineAhead
  <1>6. ASSUME ~PassDue'
        PROVE  /\ l \in {"qoaCount", "visit"} => todo \subseteq reg'
               /\ l \in PassLabels => Row(line) \subseteq reg'
               /\ l \in PassLabels \ {"visit"} => c \in reg'
               /\ n \in Nat
               /\ l = "visit" => n <= Cardinality(Occupied' \ todo)
               /\ l = "qoaCount" => n <= Cardinality((Occupied' \ todo) \ {c})
               /\ l \in PassLabels \ {"visit"} => n <= Cardinality(Occupied' \ {c})
    BY <1>1, <1>3, <1>6 DEF CountRight
  <1> QED BY <1>1, <1>4, <1>5, <1>6, HeldSlots

LEMMA CountSlots ==
    ASSUME Events, Events', Asleep, NEW p \in Procs, countActive(p)
    PROVE  Asleep'
  <1> USE DEF Events
  <1>1. UNCHANGED Flags /\ cap' = cap /\ mu' = mu /\ g[p].pc \in {"qoaCount", "visit"}
    BY DEF countActive, Flags, client, handles, At
  <1>2. mu' = p /\ g[p].n \in Int
    BY <1>1, HoldsMu DEF MutexLabels, PassLabels
  <1>3. PICK t \in g[p].todo :
          Became(p, g[p].pc, g[p].cur, g[p].todo \ {t}, g[p].line, g[p].n + (IF isActive(t) THEN 1 ELSE 0))
    BY CountMoved
  <1> DEFINE n == g[p].n + (IF isActive(t) THEN 1 ELSE 0)
             todo == g[p].todo \ {t}
  <1>4. Became(p, g[p].pc, g[p].cur, todo, g[p].line, n)
    BY <1>3
  <1>5. g[p].pc = "visit" => Waiting \subseteq Row(g[p].line)
    BY DEF Asleep, AheadOfPass, InLine, Row
  <1>6. g[p].pc = "qoaCount" => ~isActive(g[p].cur)
    BY FirstCaller DEF Asleep, QoaLabels
  <1>7. ASSUME ~PassDue
        PROVE  /\ todo \subseteq reg /\ n \in Nat
               /\ g[p].pc = "visit" => Row(g[p].line) \subseteq reg
               /\ g[p].pc = "visit" => n <= Cardinality(Occupied \ todo)
               /\ g[p].pc = "qoaCount" => n <= Cardinality((Occupied \ todo) \ {g[p].cur})
    <2>1. /\ g[p].todo \subseteq reg /\ g[p].n \in Nat
          /\ g[p].pc = "visit" => Row(g[p].line) \subseteq reg
          /\ g[p].pc = "visit" => g[p].n <= Cardinality(Occupied \ g[p].todo)
          /\ g[p].pc = "qoaCount" => g[p].n <= Cardinality((Occupied \ g[p].todo) \ {g[p].cur})
      BY <1>1, <1>7 DEF Asleep, SlotsCounted, InLine, Row, PassLabels
    <2>2. Occupied \in SUBSET Torrents /\ (isActive(t) => t \in Occupied)
      BY <2>1, OccupiedFinite DEF Occupied
    <2>3. ASSUME NEW S, isActive(t) => t \notin S, g[p].n <= Cardinality((Occupied \ g[p].todo) \ S)
          PROVE  n <= Cardinality((Occupied \ todo) \ S)
      <3> DEFINE A == (Occupied \ g[p].todo) \ S
                 B == (Occupied \ todo) \ S
      <3>1. B \in SUBSET Torrents /\ A \in SUBSET B /\ (isActive(t) => t \in B /\ t \notin A) /\ g[p].n <= Cardinality(A)
        BY <2>2, <2>3
      <3> HIDE DEF A, B
      <3>2. Cardinality(A) <= Cardinality(B) /\ Cardinality(A) \in Nat /\ Cardinality(B) \in Nat
        BY <3>1, TorrentsCount
      <3>3. isActive(t) => Cardinality(A) + 1 <= Cardinality(B)
        BY <3>1, OneAdded
      <3>4. n <= Cardinality(B)
        BY <1>2, <3>1, <3>2, <3>3
      <3> QED BY <3>4 DEF B
    <2>4. ASSUME g[p].pc = "visit" PROVE n <= Cardinality(Occupied \ todo)
      <3>1. (Occupied \ g[p].todo) \ {} = Occupied \ g[p].todo /\ (Occupied \ todo) \ {} = Occupied \ todo
        OBVIOUS
      <3>2. g[p].n <= Cardinality((Occupied \ g[p].todo) \ {})
        BY <2>1, <2>4, <3>1
      <3>3. n <= Cardinality((Occupied \ todo) \ {})
        BY <2>3, <3>2
      <3> QED BY <3>1, <3>3
    <2>5. ASSUME g[p].pc = "qoaCount" PROVE n <= Cardinality((Occupied \ todo) \ {g[p].cur})
      <3>1. isActive(t) => t \notin {g[p].cur}
        BY <1>6, <2>5
      <3> HIDE DEF n, todo
      <3> QED BY <2>1, <2>3, <2>5, <3>1
    <2> QED BY <2>1, <2>4, <2>5
  <1> HIDE DEF n, todo
  <1>8. LineAhead(g[p].pc, g[p].cur, g[p].line) /\ SamePass(p, g[p].pc)
    BY <1>1, <1>5 DEF LineAhead, SamePass, PassLabels
  <1>9. ~PassDue => CountRight(g[p].pc, g[p].cur, todo, g[p].line, n)
    BY <1>1, <1>7 DEF CountRight, PassLabels
  <1> QED BY <1>1, <1>2, <1>4, <1>8, <1>9, HolderSlots

LEMMA VisitSlots ==
    ASSUME Events, Events', Asleep, NEW p \in Procs, PromoteVisit(p)
    PROVE  Asleep'
  <1> USE DEF Events
  <1>1. UNCHANGED Flags /\ cap' = cap /\ mu' = mu /\ g[p].pc = "visit" /\ g[p].todo = {}
    BY DEF PromoteVisit, Flags, client, handles, At
  <1>2. mu' = p
    BY <1>1, HoldsMu DEF MutexLabels, PassLabels
  <1> DEFINE t == Head(g[p].line)
             line == Tail(g[p].line)
  <1>3. /\ t \in Row(g[p].line) /\ Row(line) \subseteq Row(g[p].line)
        /\ Row(g[p].line) \subseteq Row(line) \cup {t}
    BY VisitMoved, RowSplit
  <1>4. \/ Promotable(t) /\ Became(p, "act", t, {}, line, g[p].n)
        \/ ~Promotable(t) /\ Became(p, "visit", Nobody, {}, line, g[p].n)
    BY VisitMoved
  <1> HIDE DEF t, line
  <1>5. Waiting \subseteq Row(line) \cup {t} /\ (~Promotable(t) => Waiting \subseteq Row(line))
    <2>1. Waiting \subseteq Row(g[p].line)
      BY <1>1 DEF Asleep, AheadOfPass, InLine, Row
    <2>2. ~Promotable(t) => t \notin Waiting
      BY DEF Promotable, Waiting
    <2> QED BY <1>3, <2>1, <2>2
  <1>6. ASSUME ~PassDue
        PROVE  /\ t \in reg /\ Row(line) \subseteq reg /\ g[p].n \in Nat
               /\ g[p].n <= Cardinality(Occupied \ {})
               /\ Promotable(t) => g[p].n <= Cardinality(Occupied \ {t})
    <2>1. Row(g[p].line) \subseteq reg /\ g[p].n \in Nat /\ g[p].n <= Cardinality(Occupied \ {})
      BY <1>1, <1>6 DEF Asleep, SlotsCounted, InLine, Row, PassLabels
    <2>2. Promotable(t) => Occupied \ {t} = Occupied \ {}
      BY DEF Promotable, Occupied, isActive, Starting
    <2> QED BY <1>3, <2>1, <2>2
  <1>7. /\ SamePass(p, "act") /\ LineAhead("act", t, line) /\ SamePass(p, "visit")
        /\ ~Promotable(t) => LineAhead("visit", Nobody, line)
        /\ ~PassDue /\ Promotable(t) => CountRight("act", t, {}, line, g[p].n)
        /\ ~PassDue => CountRight("visit", Nobody, {}, line, g[p].n)
    BY <1>1, <1>5, <1>6 DEF SamePass, LineAhead, CountRight, PassLabels
  <1>8. CASE Promotable(t) /\ Became(p, "act", t, {}, line, g[p].n)
    BY <1>1, <1>2, <1>7, <1>8, HolderSlots
  <1>9. CASE ~Promotable(t) /\ Became(p, "visit", Nobody, {}, line, g[p].n)
    BY <1>1, <1>2, <1>7, <1>9, HolderSlots
  <1> QED BY <1>4, <1>8, <1>9

LEMMA TallySlots ==
    ASSUME Events, Events', Asleep, NEW p \in Procs, PromoteTally(p)
    PROVE  Asleep'
  <1> USE DEF Events
  <1>1. UNCHANGED Flags /\ cap' = cap /\ mu' = mu /\ g[p].pc = "tally"
    BY DEF PromoteTally, Flags, client, handles, At
  <1>2. mu' = p /\ g[p].n \in Int
    BY <1>1, HoldsMu DEF MutexLabels, PassLabels
  <1> DEFINE t == g[p].cur
  <1>3. PICK n \in Int : /\ Became(p, "visit", t, {}, g[p].line, n)
                         /\ isActive(t) => n = g[p].n + 1
                         /\ ~isActive(t) => n = g[p].n
    <2>1. CASE isActive(t) /\ Became(p, "visit", t, {}, g[p].line, g[p].n + 1)
      BY <1>2, <2>1
    <2>2. CASE ~isActive(t) /\ Became(p, "visit", t, {}, g[p].line, g[p].n)
      BY <1>2, <2>2
    <2> QED BY <2>1, <2>2, TallyMoved
  <1>4. Waiting \subseteq Row(g[p].line)
    BY <1>1 DEF Asleep, AheadOfPass, InLine, Row
  <1>5. ASSUME ~PassDue PROVE Row(g[p].line) \subseteq reg /\ n \in Nat /\ n <= Cardinality(Occupied \ {})
    <2> DEFINE A == Occupied \ {t}
               B == Occupied \ {}
    <2>1. Row(g[p].line) \subseteq reg /\ t \in reg /\ g[p].n \in Nat /\ g[p].n <= Cardinality(A)
      BY <1>1, <1>5 DEF Asleep, SlotsCounted, InLine, Row, PassLabels
    <2>2. B \in SUBSET Torrents /\ A \in SUBSET B /\ t \notin A /\ (isActive(t) => t \in B)
      BY <2>1, OccupiedFinite DEF Occupied
    <2> HIDE DEF A, B
    <2>3. Cardinality(A) <= Cardinality(B) /\ Cardinality(A) \in Nat /\ Cardinality(B) \in Nat
      BY <2>2, TorrentsCount
    <2>4. isActive(t) => Cardinality(A) + 1 <= Cardinality(B)
      BY <2>2, OneAdded
    <2>5. n \in Nat /\ n <= Cardinality(B)
      BY <1>3, <2>1, <2>3, <2>4
    <2> QED BY <2>1, <2>5 DEF B
  <1>6. /\ SamePass(p, "visit") /\ LineAhead("visit", t, g[p].line)
        /\ ~PassDue => CountRight("visit", t, {}, g[p].line, n)
    BY <1>1, <1>4, <1>5 DEF SamePass, LineAhead, CountRight, PassLabels
  <1> HIDE DEF t
  <1> QED BY <1>1, <1>2, <1>3, <1>6, HolderSlots


LEMMA ActivateCheckSlots ==
    ASSUME Events, Events', Asleep, NEW p \in Procs, ActivateCheck(p)
    PROVE  Asleep'
  <1> USE DEF Events
  <1>1. UNCHANGED Flags /\ cap' = cap /\ g[p].pc \in {"act", "qoaCount"} /\ g[p].todo = {}
    BY ActivateCheckMoved DEF Flags, client, handles
  <1>2. mu = p
    BY <1>1, HoldsMu DEF MutexLabels, PassLabels
  <1> DEFINE t == g[p].cur
  <1>3. /\ LineAhead(g[p].pc, t, g[p].line)
        /\ ~PassDue => CountRight(g[p].pc, t, {}, g[p].line, g[p].n)
    BY <1>1, HolderKnows DEF CountLabels
  <1>4. ASSUME /\ t \in paused /\ g[p].pc = "qoaCount" /\ mu' = Nobody
               /\ Became(p, Rest(p), Nobody, {}, <<>>, 0)
        PROVE  Asleep'
    <2>1. p \in Autos /\ p \notin Pool /\ (\A u \in Torrents : p # <<"watch", u>>)
      BY <1>4, FirstCaller DEF Asleep, QoaLabels
    <2>2. Rest(p) = "done"
      BY <2>1 DEF Rest
    <2> QED BY <1>1, <1>4, <2>1, <2>2, QuietSlots DEF CountLabels, PassLabels, DueLabels
  <1> HIDE DEF t
  <1>5. t \in paused => t \notin Waiting
    BY DEF Waiting
  <1>6. ASSUME NEW l, mu' = mu, Became(p, l, t, {}, g[p].line, g[p].n),
               \/ t \in paused /\ g[p].pc = "act" /\ l = "tally"
               \/ g[p].pc = "qoaCount" /\ l = "qact2"
               \/ g[p].pc = "act" /\ l = "act2"
        PROVE  Asleep'
    <2>1. SamePass(p, l) /\ LineAhead(l, t, g[p].line)
      BY <1>3, <1>5, <1>6 DEF SamePass, LineAhead, PassLabels
    <2>2. ~PassDue => CountRight(l, t, {}, g[p].line, g[p].n)
      BY <1>3, <1>6 DEF CountRight, PassLabels
    <2> QED BY <1>1, <1>2, <1>6, <2>1, <2>2, HolderSlots
  <1> QED BY <1>4, <1>6, ActivateCheckMoved DEF t

LEMMA ActivateAllowSlots ==
    ASSUME Events, Events', Asleep, NEW p \in Procs, ActivateAllow(p)
    PROVE  Asleep'
  <1> USE DEF Events
  <1>1. UNCHANGED Flags /\ cap' = cap /\ g[p].pc \in {"act2", "qact2"} /\ mu' = mu
    BY DEF ActivateAllow, At, Flags, handles
  <1>2. mu = p /\ g[p].todo = {}
    BY <1>1, HoldsMu, ActivateAllowMoved DEF MutexLabels, PassLabels
  <1> DEFINE t == g[p].cur
  <1>3. /\ LineAhead(g[p].pc, t, g[p].line)
        /\ ~PassDue => CountRight(g[p].pc, t, {}, g[p].line, g[p].n)
    BY <1>1, <1>2, HolderKnows DEF CountLabels
  <1> HIDE DEF t
  <1>4. ASSUME NEW l, Became(p, l, t, {}, g[p].line, g[p].n),
               \/ g[p].pc = "qact2" /\ l = "qact3"
               \/ g[p].pc = "act2" /\ l = "act3"
        PROVE  Asleep'
    <2>1. SamePass(p, l) /\ LineAhead(l, t, g[p].line)
      BY <1>3, <1>4 DEF SamePass, LineAhead, PassLabels
    <2>2. ~PassDue => CountRight(l, t, {}, g[p].line, g[p].n)
      BY <1>3, <1>4 DEF CountRight, PassLabels
    <2> QED BY <1>1, <1>2, <1>4, <2>1, <2>2, HolderSlots
  <1>5. CASE g[p].pc = "qact2" /\ Became(p, "qact3", t, {}, g[p].line, g[p].n)
    BY <1>4, <1>5
  <1>6. CASE g[p].pc = "act2" /\ Became(p, "act3", t, {}, g[p].line, g[p].n)
    BY <1>4, <1>6
  <1> QED BY <1>5, <1>6, ActivateAllowMoved DEF t

\* promoteMu is released: nobody counts any more.
LEMMA Released ==
    ASSUME Structure', mu' = Nobody
    PROVE  \A q \in Procs : g'[q].pc \notin MutexLabels
  BY ProcFacts DEF Structure, MutexHeld

\* A step after which nobody counts or passes.
LEMMA ReleasedSlots ==
    ASSUME FirstStart', \A q \in Procs : g'[q].pc \notin CountLabels,
           ~PassDue' => Waiting' = {} \/ (cap' # 0 /\ Cardinality(Occupied') >= cap')
    PROVE  Asleep'
  <1> USE DEF CountLabels, PassLabels
  <1>1. AheadOfPass'
    BY DEF AheadOfPass
  <1>2. SlotsCounted'
    BY DEF SlotsCounted
  <1>3. ~PassDue' => SlotsTaken'
    BY DEF SlotsTaken
  <1> QED BY <1>1, <1>2, <1>3 DEF Asleep

LEMMA PromoteDoneSlots ==
    ASSUME Events, Events', Asleep, NEW p \in Procs, PromoteDone(p)
    PROVE  Asleep'
  <1> USE DEF Events
  <1>1. /\ g[p].pc = "visit" /\ g[p].todo = {} /\ (g[p].line = <<>> \/ (cap # 0 /\ g[p].n >= cap))
        /\ UNCHANGED <<cap, reg, added, removed, paused, queued, info, complete, wanted>> /\ mu' = Nobody
    BY DEF PromoteDone, At, SlotsGone, handles, client
  <1>2. p \notin Autos
    BY <1>1, AtFacts, ProcFacts DEF PassLabels
  <1>3. Became(p, Rest(p), Nobody, {}, <<>>, 0) /\ Rest(p) \notin Deciding
    BY ReturnMoved DEF PromoteDone, Structure, Rest, Deciding, QoaLabels
  <1>4. FirstStart'
    <2>1. \A t \in Torrents : t \notin added => wanted'[t] = {}
      BY <1>1 DEF Asleep, FirstStart
    <2> QED BY <1>1, <1>2, <1>3, <2>1, FirstStartHolds DEF Asleep
  <1>5. \A q \in Procs : g'[q].pc \notin CountLabels
    BY <1>1, Released DEF CountLabels, MutexLabels, PassLabels
  <1>6. Waiting' = Waiting
    BY <1>1 DEF Waiting
  <1>7. ASSUME NEW t \in Torrents PROVE Starting(t)' = Starting(t) /\ isActive(t)' = isActive(t)
    <2>1. g'[<<"auto", t>>] = g[<<"auto", t>>]
      BY <1>2, <1>3, ProcFacts DEF Became
    <2> QED BY <1>1, <2>1 DEF Starting, isActive
  <1>8. Occupied' = Occupied
    BY <1>1, <1>7 DEF Occupied, Structure, TypeOK
  <1>9. ASSUME ~PassDue' PROVE Waiting' = {} \/ (cap' # 0 /\ Cardinality(Occupied') >= cap')
    <2>1. ~PassDue
      BY <1>1, <1>3, <1>9, DueKept DEF DueLabels
    <2>2. CASE g[p].line = <<>>
      <3>1. InLine(p) = {}
        BY <2>2 DEF InLine
      <3>2. Waiting \subseteq InLine(p)
        BY <1>1 DEF Asleep, AheadOfPass
      <3> QED BY <1>6, <3>1, <3>2
    <2>3. CASE cap # 0 /\ g[p].n >= cap
      <3>1. g[p].n \in Nat /\ g[p].n <= Cardinality(Occupied \ {})
        BY <1>1, <2>1 DEF Asleep, SlotsCounted, PassLabels
      <3>2. Occupied \ {} = Occupied
        OBVIOUS
      <3>3. Cardinality(Occupied \ {}) \in Nat /\ cap \in Nat
        BY OccupiedFinite DEF Structure, TypeOK
      <3> QED BY <1>1, <1>8, <2>3, <3>1, <3>2, <3>3
    <2> QED BY <1>1, <2>2, <2>3
  <1> QED BY <1>4, <1>5, <1>9, ReleasedSlots


LEMMA HeldTally ==
    ASSUME Structure', NEW p \in Procs, NEW c, NEW line, NEW n,
           Became(p, "tally", c, {}, line, n), mu' = p, FirstStart', Waiting' \subseteq Row(line),
           ~PassDue' => Row(line) \subseteq reg' /\ c \in reg' /\ n \in Nat /\ n <= Cardinality(Occupied' \ {c})
    PROVE  Asleep'
  <1> DEFINE l == "tally"
  <1>1. /\ l \in PassLabels /\ l # "visit" /\ l # "qoaCount" /\ l \notin {"act", "act2", "act3"}
        /\ Became(p, l, c, {}, line, n) /\ l \notin {"qoaCount", "visit"}
    BY DEF PassLabels
  <1> HIDE DEF l
  <1> QED BY <1>1, HeldSlots

LEMMA HeldEnqueue ==
    ASSUME Structure', NEW p \in Procs, NEW c, NEW todo, NEW line, NEW n,
           Became(p, "enq2", c, todo, line, n), mu' = p, FirstStart', cap' # 0,
           ~PassDue' => n \in Nat /\ Cardinality(Occupied') >= cap'
    PROVE  Asleep'
  <1> DEFINE l == "enq2"
  <1>1. /\ l \notin PassLabels /\ l # "visit" /\ l # "qoaCount" /\ l \notin {"act", "act2", "act3"}
        /\ Became(p, l, c, todo, line, n) /\ l \notin {"qoaCount", "visit"} /\ l \notin {"visit", "tally"}
    BY DEF PassLabels
  <1> HIDE DEF l
  <1> QED BY <1>1, HeldSlots

LEMMA EnqueueSlots ==
    ASSUME Events, Events', Asleep, NEW p \in Procs, Enqueue(p)
    PROVE  Asleep'
  <1> USE DEF Events
  <1> DEFINE t == g[p].cur
  <1>1. /\ g[p].pc = "qoaCount" /\ g[p].todo = {} /\ cap # 0 /\ g[p].n >= cap /\ queued' = queued \cup {t}
        /\ UNCHANGED <<cap, mu, reg, added, removed, paused, info, complete, wanted>>
    BY DEF Enqueue, At, client
  <1>2. p \in Autos /\ p \notin Pool /\ p = <<"auto", t>> /\ t \in Torrents /\ t \in info
    BY <1>1, FirstCaller DEF Asleep, QoaLabels
  <1>3. Became(p, "enq2", t, g[p].todo, g[p].line, g[p].n)
    BY GotoMoved DEF Enqueue, Structure, Labels
  <1>4. mu' = p
    BY <1>1, HoldsMu DEF MutexLabels
  <1>5. FirstStart'
    <2>1. \A u \in Torrents : u \notin added => wanted'[u] = {}
      BY <1>1 DEF Asleep, FirstStart
    <2>2. ASSUME NEW u \in Torrents, g'[<<"auto", u>>].pc \in {"wait"} \cup (QoaLabels \ {"enq2"})
          PROVE  (u \in queued' => u \in queued) /\ wanted'[u] \subseteq wanted[u]
      <3>1. u # t
        BY <1>2, <1>3, <2>2 DEF Became
      <3> QED BY <1>1, <3>1
    <2>3. p \in Pool => "enq2" \notin Deciding
      BY <1>2
    <2>4. "enq2" \in QoaLabels /\ g[p].pc \in {"wait"} \cup QoaLabels /\ g[p].cur \in info'
      BY <1>1, <1>2 DEF QoaLabels
    <2> HIDE DEF t
    <2> QED BY <1>1, <1>3, <2>1, <2>2, <2>3, <2>4, FirstStartHolds DEF Asleep
  <1>6. Occupied \ {t} \subseteq Occupied'
    <2> SUFFICES ASSUME NEW u \in Occupied, u # t PROVE u \in Occupied'
      OBVIOUS
    <2>1. u \in reg /\ u \in Torrents /\ (isActive(u) \/ Starting(u))
      BY DEF Occupied, Structure, TypeOK
    <2>2. g'[<<"auto", u>>] = g[<<"auto", u>>]
      BY <1>2, <1>3, <2>1, ProcFacts DEF Became
    <2> QED BY <1>1, <2>1, <2>2 DEF Occupied, isActive, Starting
  <1>7. ASSUME ~PassDue' PROVE g[p].n \in Nat /\ Cardinality(Occupied') >= cap'
    <2>1. ~PassDue
      BY <1>1, <1>3, <1>7, DueKept DEF DueLabels
    <2> DEFINE A == (Occupied \ {}) \ {t}
               B == Occupied'
    <2>2. g[p].n \in Nat /\ g[p].n <= Cardinality(A)
      BY <1>1, <2>1, HolderKnows DEF CountRight, CountLabels
    <2>3. B \in SUBSET Torrents /\ A \in SUBSET B
      BY <1>6 DEF Occupied, Structure, TypeOK
    <2>4. cap \in Nat /\ cap' = cap
      BY <1>1 DEF Structure, TypeOK
    <2> HIDE DEF A, B
    <2>5. Cardinality(A) <= Cardinality(B) /\ Cardinality(A) \in Nat /\ Cardinality(B) \in Nat
      BY <2>3, TorrentsCount
    <2>6. Cardinality(B) >= cap'
      BY <1>1, <2>2, <2>4, <2>5
    <2> QED BY <2>2, <2>6 DEF B
  <1> HIDE DEF t
  <1> QED BY <1>1, <1>3, <1>4, <1>5, <1>7, HeldEnqueue

LEMMA EnqueueGateSlots ==
    ASSUME Events, Events', Asleep, NEW p \in Procs, EnqueueGate(p)
    PROVE  Asleep'
  <1> USE DEF Events
  <1> DEFINE t == g[p].cur
  <1>1. /\ g[p].pc = "enq2" /\ t \in queued /\ mu' = Nobody
        /\ UNCHANGED <<cap, reg, added, removed, paused, queued, info, complete>>
    BY DEF EnqueueGate, At, handles, Structure, WorksOn
  <1>2. p \in Autos /\ p \notin Pool /\ p = <<"auto", t>> /\ t \in Torrents /\ mu = p
    BY <1>1, FirstCaller, HoldsMu DEF Asleep, QoaLabels, MutexLabels
  <1>3. \A u \in Torrents : wanted'[u] \subseteq wanted[u] /\ (u # t => wanted'[u] = wanted[u])
    BY DEF EnqueueGate, Structure, TypeOK
  <1>4. Became(p, "done", Nobody, {}, <<>>, 0)
    BY <1>2, ReturnMoved DEF EnqueueGate, Structure, Rest
  <1>5. FirstStart'
    <2>1. \A u \in Torrents : u \notin added => wanted'[u] = {}
      BY <1>3 DEF Asleep, FirstStart
    <2> HIDE DEF t
    <2> QED BY <1>1, <1>2, <1>3, <1>4, <2>1, FirstStartHolds DEF Asleep
  <1>6. \A q \in Procs : g'[q].pc \notin CountLabels
    BY <1>1, Released DEF CountLabels, MutexLabels, PassLabels
  <1>7. Waiting' = Waiting
    BY <1>1 DEF Waiting
  <1>8. Occupied \subseteq Occupied'
    <2> SUFFICES ASSUME NEW u \in Occupied PROVE u \in Occupied'
      OBVIOUS
    <2>1. u \in reg /\ u \in Torrents /\ u # t /\ (isActive(u) \/ Starting(u))
      BY <1>1 DEF Occupied, isActive, Starting, Structure, TypeOK
    <2>2. g'[<<"auto", u>>] = g[<<"auto", u>>]
      BY <1>2, <1>4, <2>1, ProcFacts DEF Became
    <2> QED BY <1>1, <1>3, <2>1, <2>2 DEF Occupied, isActive, Starting
  <1>9. ASSUME ~PassDue' PROVE Waiting' = {} \/ (cap' # 0 /\ Cardinality(Occupied') >= cap')
    <2>1. ~PassDue
      BY <1>1, <1>4, <1>9, DueKept DEF DueLabels
    <2>2. Waiting = {} \/ (cap # 0 /\ Cardinality(Occupied) >= cap)
      BY <1>1, <1>2, <2>1, TakenFacts DEF Asleep, PassLabels
    <2>3. Cardinality(Occupied) <= Cardinality(Occupied') /\ Cardinality(Occupied) \in Nat /\ Cardinality(Occupied') \in Nat
      BY <1>8, OccupiedGrows
    <2>4. cap \in Nat /\ cap' = cap
      BY <1>1 DEF Structure, TypeOK
    <2> QED BY <1>7, <2>2, <2>3, <2>4
  <1> QED BY <1>5, <1>6, <1>9, ReleasedSlots

\* A started torrent keeps the slot it was starting for; a promoted one
\* leaves the queue.
LEMMA ActivateFlipSlots ==
    ASSUME Events, Events', Asleep, NEW p \in Procs, ActivateFlip(p)
    PROVE  Asleep'
  <1> USE DEF Events
  <1> DEFINE t == g[p].cur
  <1>1. /\ g[p].pc \in {"act3", "qact3"} /\ queued' = queued \ {t} /\ t \in Torrents /\ t \in added
        /\ UNCHANGED <<cap, reg, added, removed, paused, info, complete>> /\ mu = p
    BY ActivateFlipMoved DEF ActivateFlip, At
  <1>2. /\ \A u \in Torrents \ {t} : wanted'[u] = wanted[u]
        /\ t \in info => wanted'[t] # {}
    BY <1>1, QueueAssumption DEF ActivateFlip, Structure, TypeOK
  <1>3. \A u \in Torrents : u \notin added => wanted'[u] = {}
    BY <1>1, <1>2 DEF Asleep, FirstStart
  <1>4. ASSUME NEW u \in Occupied, u # t, g'[<<"auto", u>>] = g[<<"auto", u>>] PROVE u \in Occupied'
    <2>1. u \in reg /\ u \in Torrents /\ (isActive(u) \/ Starting(u))
      BY DEF Occupied, Structure, TypeOK
    <2> QED BY <1>1, <1>2, <1>4, <2>1 DEF Occupied, isActive, Starting
  <1>5. CASE g[p].pc = "qact3" /\ mu' = Nobody /\ Became(p, Rest(p), Nobody, {}, <<>>, 0)
    <2>1. p \in Autos /\ p \notin Pool /\ p = <<"auto", t>> /\ t \in info /\ t \notin queued
      BY <1>5, FirstCaller DEF Asleep, QoaLabels
    <2>2. Became(p, "done", Nobody, {}, <<>>, 0)
      BY <1>5, <2>1 DEF Rest
    <2>3. FirstStart'
      <3>1. ASSUME NEW u \in Torrents, g'[<<"auto", u>>].pc \in {"wait"} \cup (QoaLabels \ {"enq2"})
            PROVE  (u \in queued' => u \in queued) /\ wanted'[u] \subseteq wanted[u]
        <4>1. u # t
          BY <2>1, <2>2, <3>1 DEF Became, QoaLabels
        <4> QED BY <1>1, <1>2, <4>1
      <3> HIDE DEF t
      <3> QED BY <1>1, <1>3, <2>1, <2>2, <3>1, FirstStartHolds DEF Asleep
    <2>4. \A q \in Procs : g'[q].pc \notin CountLabels
      BY <1>5, Released DEF CountLabels, MutexLabels, PassLabels
    <2>5. Waiting' = Waiting
      BY <1>1, <2>1 DEF Waiting
    <2>6. Occupied \subseteq Occupied'
      <3> SUFFICES ASSUME NEW u \in Occupied PROVE u \in Occupied'
        OBVIOUS
      <3>1. CASE u = t
        <4>1. t \in reg /\ Starting(t)
          BY <1>5, <3>1, FirstCaller DEF Asleep, QoaLabels, Occupied
        <4>2. isActive(u)'
          BY <1>1, <1>2, <2>1, <3>1, <4>1 DEF Starting, isActive
        <4> QED BY <1>1, <3>1, <4>1, <4>2 DEF Occupied
      <3>2. CASE u # t
        <4>1. u \in Torrents
          BY DEF Occupied, Structure, TypeOK
        <4>2. <<"auto", u>> \in Procs /\ <<"auto", u>> # p
          BY <1>1, <2>1, <3>2, <4>1, ProcFacts
        <4>3. g'[<<"auto", u>>] = g[<<"auto", u>>]
          BY <2>2, <4>2 DEF Became
        <4> QED BY <1>4, <3>2, <4>3
      <3> QED BY <3>1, <3>2
    <2>7. ASSUME ~PassDue' PROVE Waiting' = {} \/ (cap' # 0 /\ Cardinality(Occupied') >= cap')
      <3>1. ~PassDue
        BY <1>1, <1>5, <2>2, <2>7, DueKept DEF DueLabels
      <3>2. Waiting = {} \/ (cap # 0 /\ Cardinality(Occupied) >= cap)
        BY <1>1, <1>5, <3>1, TakenFacts DEF Asleep, PassLabels
      <3>3. Cardinality(Occupied) <= Cardinality(Occupied') /\ Cardinality(Occupied) \in Nat /\ Cardinality(Occupied') \in Nat
        BY <2>6, OccupiedGrows
      <3>4. cap \in Nat /\ cap' = cap
        BY <1>1 DEF Structure, TypeOK
      <3> QED BY <2>5, <3>2, <3>3, <3>4
    <2> QED BY <2>3, <2>4, <2>7, ReleasedSlots
  <1>6. CASE g[p].pc = "act3" /\ mu' = mu /\ Became(p, "tally", t, {}, g[p].line, g[p].n)
    <2>1. p \notin Autos /\ t \in queued
      BY <1>6, AtFacts, ProcFacts DEF PassLabels, Structure, WorksOn
    <2>2. \A u \in Torrents : g'[<<"auto", u>>] = g[<<"auto", u>>]
      BY <1>6, <2>1, ProcFacts DEF Became
    <2>3. FirstStart'
      <3>1. ASSUME NEW u \in Torrents, g'[<<"auto", u>>].pc \in {"wait"} \cup (QoaLabels \ {"enq2"})
            PROVE  (u \in queued' => u \in queued) /\ wanted'[u] \subseteq wanted[u]
        <4>1. u # t
          BY <2>1, <2>2, <3>1 DEF Asleep, FirstStart
        <4> QED BY <1>1, <1>2, <4>1
      <3>2. "tally" \notin Deciding
        BY DEF Deciding, QoaLabels
      <3> HIDE DEF t
      <3> QED BY <1>1, <1>3, <1>6, <2>1, <3>1, <3>2, FirstStartHolds DEF Asleep
    <2>4. LineAhead("act3", t, g[p].line)
      BY <1>6, HolderKnows DEF CountLabels
    <2>5. Waiting' \subseteq Row(g[p].line)
      BY <1>1, <2>4 DEF LineAhead, Waiting
    <2>6. ASSUME ~PassDue'
          PROVE  Row(g[p].line) \subseteq reg' /\ t \in reg' /\ g[p].n \in Nat /\ g[p].n <= Cardinality(Occupied' \ {t})
      <3>1. ~PassDue
        BY <1>1, <1>6, <2>6, DueKept DEF DueLabels
      <3> DEFINE A == Occupied \ {t}
                 B == Occupied' \ {t}
      <3>2. Row(g[p].line) \subseteq reg' /\ t \in reg' /\ g[p].n \in Nat /\ g[p].n <= Cardinality(A)
        BY <1>1, <1>6, <3>1, HolderKnows DEF CountRight, CountLabels, PassLabels
      <3>3. B \in SUBSET Torrents /\ A \in SUBSET B
        BY <1>4, <2>2 DEF Occupied, Structure, TypeOK
      <3> HIDE DEF A, B
      <3>4. Cardinality(A) <= Cardinality(B) /\ Cardinality(A) \in Nat /\ Cardinality(B) \in Nat
        BY <3>3, TorrentsCount
      <3>5. g[p].n <= Cardinality(B)
        BY <3>2, <3>4
      <3> QED BY <3>2, <3>5 DEF B
    <2> HIDE DEF t
    <2> QED BY <1>1, <1>6, <2>3, <2>5, <2>6, HeldTally
  <1> QED BY <1>5, <1>6, ActivateFlipMoved



LEMMA InitSlots == Init => SlotInv
  <1> SUFFICES ASSUME Init PROVE SlotInv
    OBVIOUS
  <1>1. Events
    BY InitEvents
  <1>2. \A q \in Procs : g[q].pc \in {"idle", "unborn"}
    <2>1. ASSUME NEW q \in Procs PROVE g[q].pc = IF q \in Pool THEN "idle" ELSE "unborn"
      <3>1. g[q] = Local(IF q \in Pool THEN "idle" ELSE "unborn", Nobody)
        BY DEF Init
      <3>2. (IF q \in Pool THEN "idle" ELSE "unborn") \in Labels
        BY DEF Labels
      <3> QED BY <3>1, <3>2, LocalTyped
    <2> QED BY <2>1
  <1>3. FirstStart
    BY <1>2, ProcFacts DEF Init, FirstStart, QoaLabels
  <1>4. AheadOfPass /\ SlotsCounted
    BY <1>2 DEF AheadOfPass, SlotsCounted, PassLabels
  <1>5. SlotsTaken
    BY DEF Init, SlotsTaken, Waiting
  <1> QED BY <1>1, <1>3, <1>4, <1>5 DEF SlotInv, Asleep

\* Once a torrent was resumed or given files, that is remembered.
LEMMA WokenStays ==
    ASSUME Structure, [Next]_vars
    PROVE  ops.woken => ops'.woken
  <1>0. ASSUME NEW p \in Pool, NEW op, NEW t, Start(p, op, t) PROVE ops.woken => ops'.woken
    BY <1>0, StartFacts
  <1>1. ASSUME NEW p \in Pool, NEW t \in Torrents, User(p, t) PROVE ops.woken => ops'.woken
    <2>1. ASSUME NEW f \in Files, NEW none \in BOOLEAN, SetFilePriority(p, t, f, none) PROVE ops.woken => ops'.woken
      BY <1>0, <2>1 DEF SetFilePriority
    <2>2. CASE PauseTorrent(p, t) \/ ResumeTorrent(p, t) \/ RemoveTorrent(p, t)
      BY <1>0, <2>2 DEF PauseTorrent, ResumeTorrent, RemoveTorrent
    <2>3. CASE QueueMoveToFront(p, t) \/ QueueMoveToBack(p, t)
      BY <1>0, <2>3 DEF QueueMoveToFront, QueueMoveToBack
    <2>4. ASSUME NEW known \in BOOLEAN, NEW asPaused \in BOOLEAN, registerLockedRestore(p, t, known, asPaused)
          PROVE  ops.woken => ops'.woken
      BY <2>4 DEF registerLockedRestore
    <2> QED BY <1>1, <2>1, <2>2, <2>3, <2>4 DEF User
  <1>2. ASSUME NEW p \in Procs, Step(p) PROVE ops' = ops
    BY <1>2 DEF Step, RestoreDisallow, PauseDisallow, ResumeAllow, RemoveDelete, setQueueOrder, QoaCheck, QoaLock,
       countActive, Enqueue, EnqueueGate, PromoteLock, PromoteDone, PromoteVisit, PromoteTally, ActivateCheck,
       ActivateAllow, ActivateFlip
  <1>3. ASSUME NEW p \in Pool, NEW c \in Caps, SetMaxActiveDownloads(p, c) PROVE ops'.woken = ops.woken
    BY <1>3 DEF SetMaxActiveDownloads, Structure, TypeOK
  <1>4. ASSUME NEW t \in Torrents, autoDownload(t) \/ watchCompletion(t) \/ GotInfo(t) \/ Completed(t) PROVE ops' = ops
    BY <1>4 DEF autoDownload, watchCompletion, GotInfo, Completed
  <1>5. CASE UNCHANGED vars
    BY <1>5 DEF vars
  <1> QED BY <1>1, <1>2, <1>3, <1>4, <1>5 DEF Next, Goroutines

LEMMA SlotStep == SlotInv /\ [Next]_vars => SlotInv'
  <1> SUFFICES ASSUME SlotInv, [Next]_vars PROVE SlotInv'
    OBVIOUS
  <1>1. Events /\ Events' /\ Structure /\ Structure'
    BY EventsStep DEF SlotInv, Events
  <1> SUFFICES ASSUME ~ops'.woken PROVE Asleep'
    BY <1>1 DEF SlotInv
  <1>2. Asleep
    BY <1>1, WokenStays DEF SlotInv, Structure
  <1>3. CASE UNCHANGED vars
    <2>1. UNCHANGED <<cap, g, reg, added, removed, paused, queued, info, complete, wanted>>
      BY <1>3 DEF vars, handles, client
    <2>2. \A t : Starting(t)' = Starting(t) /\ isActive(t)' = isActive(t) /\ InLine(t)' = InLine(t)
      BY <2>1 DEF Starting, isActive, InLine
    <2>3. Occupied' = Occupied /\ Waiting' = Waiting /\ PassDue' = PassDue
      BY <2>1, <2>2 DEF Occupied, Waiting, PassDue
    <2>4. FirstStart' = FirstStart
      BY <2>1 DEF FirstStart
    <2>5. AheadOfPass' = AheadOfPass
      BY <2>1, <2>2, <2>3 DEF AheadOfPass
    <2>6. SlotsCounted' = SlotsCounted
      BY <2>1, <2>2, <2>3 DEF SlotsCounted
    <2>7. SlotsTaken' = SlotsTaken
      BY <2>1, <2>3 DEF SlotsTaken
    <2> QED BY <1>2, <2>3, <2>4, <2>5, <2>6, <2>7 DEF Asleep
  <1>4. CASE Next
    <2>1. ASSUME NEW t \in Torrents, autoDownload(t) \/ watchCompletion(t) PROVE Asleep'
      BY <1>1, <1>2, <2>1, AutoSlots, WatchSlots
    <2>2. ASSUME NEW p \in Procs, Step(p) PROVE Asleep'
      BY <1>1, <1>2, <2>2, AllowSlots, PauseDisallowSlots, RemoveDeleteSlots, SetOrderSlots, QoaCheckSlots, LockSlots,
         CountSlots, EnqueueSlots, EnqueueGateSlots, PromoteDoneSlots, VisitSlots, TallySlots, ActivateCheckSlots,
         ActivateAllowSlots, ActivateFlipSlots
         DEF Step
    <2>3. ASSUME NEW t \in Torrents, GotInfo(t) \/ Completed(t) PROVE Asleep'
      BY <1>1, <1>2, <2>3, ClientSlots
    <2>4. ASSUME NEW p \in Pool, NEW t \in Torrents, ResumeTorrent(p, t) PROVE FALSE
      BY <1>1, <2>4, StartFacts DEF ResumeTorrent, Structure
    <2>5. ASSUME NEW p \in Pool, NEW t \in Torrents, User(p, t) PROVE Asleep'
      BY <1>1, <1>2, <2>4, <2>5, RegisterSlots, HandlerSlots, QueueMoveSlots, PrioritySlots DEF User
    <2>6. ASSUME NEW p \in Pool, NEW c \in Caps, SetMaxActiveDownloads(p, c) PROVE Asleep'
      BY <1>1, <1>2, <2>6, SetMaxSlots
    <2> QED BY <1>4, <2>1, <2>2, <2>3, <2>5, <2>6 DEF Next, Goroutines
  <1> QED BY <1>3, <1>4

\* At rest no pass is due or under way, and no autoDownload is starting.
LEMMA SlotsAtRest == SlotInv => NoStrandedDownload
  <1> SUFFICES ASSUME SlotInv, Quiescent, ~ops.woken, NEW t \in Torrents, Waits(t) PROVE FALSE
    BY DEF NoStrandedDownload
  <1> USE DEF SlotInv, Asleep, Events
  <1>1. /\ \A p \in Procs : g[p].pc \in {"idle", "unborn", "wait", "done"}
        /\ \A u \in added : g[<<"auto", u>>].pc = "wait" => u \notin info \cup removed
        /\ \A u \in added : g[<<"watch", u>>].pc = "wait" => u \notin complete \cup removed
    BY RestFacts
  <1>2. ~PassDue
    BY <1>1 DEF PassDue, Structure, TypeOK
  <1>3. \A p \in Procs : g[p].pc \notin PassLabels
    BY <1>1 DEF PassLabels
  <1>4. Waiting = {} \/ (cap # 0 /\ Cardinality(Occupied) >= cap)
    BY <1>2, <1>3 DEF SlotsTaken
  <1>5. ASSUME NEW u \in reg PROVE ~Starting(u)
    <2>1. u \in added /\ <<"auto", u>> \in Procs
      BY ProcFacts DEF Structure, TypeOK
    <2> QED BY <1>1, <2>1 DEF Starting
  <1>6. Occupied = {u \in reg : isActive(u)}
    BY <1>5 DEF Occupied
  <1>7. t \in Waiting /\ (cap = 0 \/ Cardinality(Occupied) < cap)
    BY <1>6 DEF Waits, SlotFree, Waiting
  <1>8. Cardinality(Occupied) \in Nat /\ cap \in Nat
    <2>1. Occupied \ {} = Occupied
      OBVIOUS
    <2> QED BY <2>1, OccupiedFinite DEF Structure, TypeOK
  <1> QED BY <1>4, <1>7, <1>8

\* NoStrandedDownload for every set of torrents, files and goroutines, from
\* any cap and under any cap changes: as long as the user resumes no torrent
\* and gives none files, no pause, removal, completion, cap change, queue
\* move or deselection leaves a torrent waiting beside a free slot once the
\* goroutines have run, in whatever order they get promoteMu.
THEOREM NothingStranded == Spec => []NoStrandedDownload
  <1>1. Spec => []SlotInv
    BY InitSlots, SlotStep, PTL DEF Spec
  <1> QED BY <1>1, SlotsAtRest, PTL
=============================================================================
