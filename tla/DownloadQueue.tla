--------------------------- MODULE DownloadQueue ---------------------------
(***************************************************************************)
(* The download queue of the engine (internal/engine/queue.go) with every  *)
(* goroutine that touches it: the per-torrent autoDownload and             *)
(* watchCompletion goroutines, and the handlers of pause, resume, remove,  *)
(* file priority, queue moves and cap changes, most of which end by        *)
(* spawning a promotion pass or a queueOrActivate call.                    *)
(*                                                                         *)
(* promoteMu serialises the two passes (count, then activate).  The flags  *)
(* a pass reads belong to the handles and are written by the handlers      *)
(* without that mutex, so every read and write is a step of its own.       *)
(***************************************************************************)
EXTENDS Integers, FiniteSets, Sequences

CONSTANTS Torrents,   \* torrents that may be added, each at most once
          Files,      \* files of a torrent (every torrent has the same set)
          Pool,       \* goroutines available to user operations
          Caps,       \* values SetMaxActiveDownloads may be given
          InitCap,    \* maxActiveDownloads when the engine starts
          Plays,      \* [may, left]: the operations the users perform, and (bound) how many
          Nobody      \* no goroutine, no handle

Ops == {"pause", "resume", "remove", "front", "back", "setcap", "select",
        "deselect", "restore"}

Autos   == {"auto"} \X Torrents       \* autoDownload(h), one per handle
Watches == {"watch"} \X Torrents      \* watchCompletion(h), one per handle
Procs   == Autos \cup Watches \cup Pool

ASSUME QueueAssumption ==
    /\ IsFiniteSet(Torrents) /\ IsFiniteSet(Files) /\ Files # {}
    /\ Caps \subseteq Nat /\ InitCap \in Nat
    /\ Plays \subseteq [may : SUBSET Ops, left : Nat]
    /\ Nobody \notin Torrents \cup Procs
    /\ Pool \cap (Autos \cup Watches) = {}

VARIABLES
    cap,        \* e.maxActiveDownloads (0 = unlimited)
    mu,         \* holder of e.promoteMu, or Nobody
    reg,        \* torrents in e.handles
    added,      \* torrents registered so far
    removed,    \* handles whose removed channel is closed
    paused, queued,         \* Handle.paused, Handle.queued
    order, nextOrder,       \* Handle.queueOrder, e.nextQueueOrder
    info,       \* torrents whose metadata is known
    complete,   \* torrents with BytesMissing() <= 0
    allowed,    \* torrents whose data download is allowed (anacrolix)
    wanted,     \* files with a priority above None
    g,          \* goroutines: where each stands, and its local variables
    ops         \* [may, left, woken]: what the users may do, how many times still, and
                \* whether they have resumed a torrent or given one files

handles == <<reg, added, removed, paused, queued, order, nextOrder>>
client == <<info, complete, allowed, wanted>>
vars == <<cap, mu, handles, client, g, ops>>

Labels == {"idle", "unborn", "wait", "done",
           "pause2", "resume2", "remove2", "restore2", "front2", "back2",
           "qoa", "qoaLock", "qoaCount", "qact2", "qact3", "enq2",
           "promote", "visit", "act", "act2", "act3", "tally"}

\* A goroutine: label, handle it works on, handles countActive has still to
\* look at, sorted handles promoteQueued has still to visit, and a counter.
Locals == [pc : Labels, cur : Torrents \cup {Nobody}, todo : SUBSET Torrents,
           line : Seq(Torrents), n : Int]
Local(l, t) == [pc |-> l, cur |-> t, todo |-> {}, line |-> <<>>, n |-> 0]

TypeOK ==
    /\ cap \in Nat /\ mu \in Procs \cup {Nobody} 
    /\ ops \in [may : SUBSET Ops, left : Nat, woken : BOOLEAN]
    /\ removed \subseteq added /\ reg \subseteq added /\ added \subseteq Torrents
    /\ paused \subseteq added /\ queued \subseteq added
    /\ order \in [Torrents -> Int] /\ nextOrder \in Nat
    /\ complete \subseteq info /\ info \subseteq added /\ allowed \subseteq Torrents
    /\ wanted \in [Torrents -> SUBSET Files]
    /\ g \in [Procs -> Locals]

Init ==
    /\ cap = InitCap /\ mu = Nobody
    /\ reg = {} /\ added = {} /\ removed = {} /\ paused = {} /\ queued = {}
    /\ order = [t \in Torrents |-> 0] /\ nextOrder = 0
    /\ info = {} /\ complete = {} /\ allowed = Torrents
    /\ wanted = [t \in Torrents |-> {}]
    /\ g = [p \in Procs |-> Local(IF p \in Pool THEN "idle" ELSE "unborn", Nobody)]
    /\ ops \in {[may |-> p.may, left |-> p.left, woken |-> FALSE] : p \in Plays}

(***************************************************************************)
(* Predicates on a handle, and steps of a goroutine.                       *)
(***************************************************************************)
isActive(t) ==
    /\ t \notin paused /\ t \notin queued
    /\ t \notin info \/ (t \notin complete /\ wanted[t] # {})

\* e.Torrents() sorted by queue order; sort.Slice leaves ties in any order.
SortedHandles ==
    {s \in [1..Cardinality(reg) -> reg] :
        /\ \A t \in reg : \E i \in DOMAIN s : s[i] = t
        /\ \A i, j \in DOMAIN s : i < j => order[s[i]] <= order[s[j]]}

At(p, l) == g[p].pc = l
Goto(p, l) == g' = [g EXCEPT ![p].pc = l]
GotoOn(p, l, t) == g' = [g EXCEPT ![p] = Local(l, t)]
Return(p) == GotoOn(p, IF p \in Pool THEN "idle" ELSE "done", Nobody)

(***************************************************************************)
(* The BitTorrent client: metadata arrives, data completes (downloaded, or *)
(* found on disk by the background verify).                                *)
(***************************************************************************)
GotInfo(t) ==
    /\ t \in reg \ info
    /\ info' = info \cup {t}
    /\ UNCHANGED <<cap, mu, handles, complete, allowed, wanted, g, ops>>

Completed(t) ==
    /\ t \in (reg \cap info) \ complete
    /\ complete' = complete \cup {t}
    /\ UNCHANGED <<cap, mu, handles, info, allowed, wanted, g, ops>>

(***************************************************************************)
(* registerLockedRestore: the handle enters e.handles and its goroutines   *)
(* are spawned.  A .torrent add knows its metadata at once; a restore may  *)
(* register the handle paused, and only then disallows its data download.  *)
(***************************************************************************)
registerLockedRestore(p, t, known, asPaused) ==
    /\ At(p, "idle") /\ t \notin added
    /\ asPaused => "restore" \in ops.may
    /\ reg' = reg \cup {t} /\ added' = added \cup {t}
    /\ nextOrder' = nextOrder + 1
    /\ order' = [order EXCEPT ![t] = nextOrder + 1]
    /\ info' = IF known THEN info \cup {t} ELSE info
    /\ paused' = IF asPaused THEN paused \cup {t} ELSE paused
    /\ g' = [g EXCEPT ![<<"auto", t>>] = Local("wait", t),
                      ![<<"watch", t>>] = Local("wait", t),
                      ![p] = IF asPaused THEN Local("restore2", t) ELSE @]
    /\ UNCHANGED <<cap, mu, removed, queued, complete, allowed, wanted, ops>>

RestoreDisallow(p) ==
    /\ At(p, "restore2")
    /\ allowed' = allowed \ {g[p].cur}
    /\ Return(p)
    /\ UNCHANGED <<cap, mu, handles, info, complete, wanted, ops>>

\* autoDownload: wait for the metadata; removal ends the goroutine.
autoDownload(t) ==
    LET p == <<"auto", t>> IN
    /\ At(p, "wait")
    /\ \/ t \in info /\ Goto(p, "qoa")
       \/ t \in removed /\ Return(p)
    /\ UNCHANGED <<cap, mu, handles, client, ops>>

\* Mutant of watchCompletion: the completion is not followed by a pass.
WatchSilently(t) ==
    LET p == <<"watch", t>> IN
    /\ At(p, "wait")
    /\ t \in (info \cap complete) \cup removed /\ Return(p)
    /\ UNCHANGED <<cap, mu, handles, client, ops>>

\* watchCompletion: promotes unconditionally once the torrent is complete.
watchCompletion(t) ==
    LET p == <<"watch", t>> IN
    /\ At(p, "wait")
    /\ \/ t \in info \cap complete /\ Goto(p, "promote")
       \/ t \in removed /\ Return(p)
    /\ UNCHANGED <<cap, mu, handles, client, ops>>

(***************************************************************************)
(* User operations: the first step of each handler, resolving the handle   *)
(* in e.handles, and the steps that follow it.  The goroutine a handler    *)
(* spawns as its last statement takes the handler's place in the pool.     *)
(***************************************************************************)
Start(p, op, t) ==
    /\ op \in ops.may /\ At(p, "idle") /\ t \in reg /\ ops.left > 0
    /\ ops' = [ops EXCEPT !.left = @ - 1, !.woken = @ \/ op \in {"resume", "select"}]

PauseTorrent(p, t) ==
    /\ Start(p, "pause", t) /\ t \notin paused
    /\ paused' = paused \cup {t}
    /\ GotoOn(p, "pause2", t)
    /\ UNCHANGED <<cap, mu, reg, added, removed, queued, order, nextOrder, client>>

PauseDisallow(p) ==
    /\ At(p, "pause2")
    /\ allowed' = allowed \ {g[p].cur}
    /\ Goto(p, "promote")
    /\ UNCHANGED <<cap, mu, handles, info, complete, wanted, ops>>

ResumeTorrent(p, t) ==
    /\ Start(p, "resume", t) /\ t \in paused
    /\ paused' = paused \ {t}
    /\ GotoOn(p, "resume2", t)
    /\ UNCHANGED <<cap, mu, reg, added, removed, queued, order, nextOrder, client>>

ResumeAllow(p) ==
    /\ At(p, "resume2")
    /\ allowed' = allowed \cup {g[p].cur}
    /\ Goto(p, "qoa")
    /\ UNCHANGED <<cap, mu, handles, info, complete, wanted, ops>>

\* RemoveTorrent: the removed channel is closed first, the handle leaves
\* e.handles later; then a promotion pass is spawned.
RemoveTorrent(p, t) ==
    /\ Start(p, "remove", t)
    /\ removed' = removed \cup {t}
    /\ GotoOn(p, "remove2", t)
    /\ UNCHANGED <<cap, mu, reg, added, paused, queued, order, nextOrder, client>>

\* Mutant of RemoveDelete: no promotion pass follows the removal.
RemoveSilently(p) ==
    /\ At(p, "remove2")
    /\ reg' = reg \ {g[p].cur}
    /\ Return(p)
    /\ UNCHANGED <<cap, mu, added, removed, paused, queued, order, nextOrder,
                   client, ops>>

RemoveDelete(p) ==
    /\ At(p, "remove2")
    /\ reg' = reg \ {g[p].cur}
    /\ Goto(p, "promote")
    /\ UNCHANGED <<cap, mu, added, removed, paused, queued, order, nextOrder,
                   client, ops>>

SetFilePriority(p, t, f, none) ==
    /\ Start(p, IF none THEN "deselect" ELSE "select", t) /\ t \in info
    /\ wanted' = [wanted EXCEPT ![t] = IF none THEN @ \ {f} ELSE @ \cup {f}]
    /\ Goto(p, "promote")
    /\ UNCHANGED <<cap, mu, handles, info, complete, allowed>>

\* QueueMoveToFront / QueueMoveToBack: read the extreme order, then write
\* the handle's own; only a move to the front spawns a promotion pass.
Orders == {order[t] : t \in reg}
MinOrder == CHOOSE o \in Orders : \A q \in Orders : o <= q
MaxOrder == CHOOSE o \in Orders : \A q \in Orders : o >= q

QueueMoveToFront(p, t) ==
    /\ Start(p, "front", t)
    /\ g' = [g EXCEPT ![p] = [Local("front2", t) EXCEPT !.n = MinOrder - 1]]
    /\ UNCHANGED <<cap, mu, handles, client>>

QueueMoveToBack(p, t) ==
    /\ Start(p, "back", t)
    /\ g' = [g EXCEPT ![p] = [Local("back2", t) EXCEPT !.n = MaxOrder + 1]]
    /\ UNCHANGED <<cap, mu, handles, client>>

setQueueOrder(p) ==
    /\ At(p, "front2") \/ At(p, "back2")
    /\ order' = [order EXCEPT ![g[p].cur] = g[p].n]
    /\ IF At(p, "front2") THEN Goto(p, "promote") ELSE Return(p)
    /\ UNCHANGED <<cap, mu, reg, added, removed, paused, queued, nextOrder, client, ops>>

SetMaxActiveDownloads(p, c) ==
    /\ "setcap" \in ops.may /\ At(p, "idle") /\ mu = Nobody
    /\ ops.left > 0 /\ ops' = [ops EXCEPT !.left = @ - 1]
    /\ cap' = c
    /\ Goto(p, "promote")
    /\ UNCHANGED <<mu, handles, client>>

(***************************************************************************)
(* queueOrActivate(h): the paused check is outside the mutex.              *)
(***************************************************************************)
QoaCheck(p) ==
    /\ At(p, "qoa")
    /\ IF g[p].cur \in paused THEN Return(p) ELSE Goto(p, "qoaLock")
    /\ UNCHANGED <<cap, mu, handles, client, ops>>

\* Mutant of QoaLock: queueOrActivate does not wait for promoteMu.
QoaLockFree(p) ==
    /\ At(p, "qoaLock")
    /\ mu' = p
    /\ g' = [g EXCEPT ![p].pc = "qoaCount", ![p].todo = IF cap = 0 THEN {} ELSE reg]
    /\ UNCHANGED <<cap, handles, client, ops>>

QoaLock(p) ==
    /\ At(p, "qoaLock") /\ mu = Nobody
    /\ mu' = p
    /\ g' = [g EXCEPT ![p].pc = "qoaCount", ![p].todo = IF cap = 0 THEN {} ELSE reg]
    /\ UNCHANGED <<cap, handles, client, ops>>

\* countActive looks at one handle; Go's map order is arbitrary.
countActive(p) ==
    /\ At(p, "qoaCount") \/ At(p, "visit")
    /\ \E t \in g[p].todo :
        g' = [g EXCEPT ![p].todo = @ \ {t},
                       ![p].n = IF isActive(t) THEN @ + 1 ELSE @]
    /\ UNCHANGED <<cap, mu, handles, client, ops>>

\* At the cap: the handle is queued, then gated in the client.
Enqueue(p) ==
    /\ At(p, "qoaCount") /\ g[p].todo = {} /\ cap # 0 /\ g[p].n >= cap
    /\ queued' = queued \cup {g[p].cur}
    /\ Goto(p, "enq2")
    /\ UNCHANGED <<cap, mu, reg, added, removed, paused, order, nextOrder, client, ops>>

EnqueueGate(p) ==
    /\ At(p, "enq2")
    /\ allowed' = allowed \ {g[p].cur}
    /\ wanted' = IF g[p].cur \in info THEN [wanted EXCEPT ![g[p].cur] = {}] ELSE wanted
    /\ mu' = Nobody
    /\ Return(p)
    /\ UNCHANGED <<cap, handles, info, complete, ops>>

(***************************************************************************)
(* promoteQueued: sort, count, then visit the handles in queue order.      *)
(***************************************************************************)
PromoteLock(p) ==
    /\ At(p, "promote") /\ mu = Nobody
    /\ mu' = p
    /\ \E s \in SortedHandles :
        g' = [g EXCEPT ![p] = [pc |-> "visit", cur |-> Nobody, line |-> s, n |-> 0,
                               todo |-> IF cap = 0 THEN {} ELSE reg]]
    /\ UNCHANGED <<cap, handles, client, ops>>

SlotsGone(p) == cap # 0 /\ g[p].n >= cap

PromoteDone(p) ==
    /\ At(p, "visit") /\ g[p].todo = {}
    /\ g[p].line = <<>> \/ SlotsGone(p)
    /\ mu' = Nobody
    /\ Return(p)
    /\ UNCHANGED <<cap, handles, client, ops>>

PromoteVisit(p) ==
    /\ At(p, "visit") /\ g[p].todo = {} /\ g[p].line # <<>> /\ ~SlotsGone(p)
    /\ LET t == Head(g[p].line)
           promotable == t \in queued /\ (cap = 0 \/ t \notin paused)
       IN g' = [g EXCEPT ![p].line = Tail(@),
                         ![p].cur = IF promotable THEN t ELSE Nobody,
                         ![p].pc = IF promotable THEN "act" ELSE "visit"]
    /\ UNCHANGED <<cap, mu, handles, client, ops>>

\* After activation: the pass counts the handle only if it occupies a slot.
PromoteTally(p) ==
    /\ At(p, "tally")
    /\ g' = [g EXCEPT ![p].pc = "visit",
                      ![p].n = IF isActive(g[p].cur) THEN @ + 1 ELSE @]
    /\ UNCHANGED <<cap, mu, handles, client, ops>>

(***************************************************************************)
(* activateDownload(h), called by both passes with promoteMu held ("q..."  *)
(* labels: by queueOrActivate, which then returns).                        *)
(***************************************************************************)
AfterActivate(p, calledByQoa) ==
    IF calledByQoa THEN Return(p) /\ mu' = Nobody
    ELSE Goto(p, "tally") /\ UNCHANGED mu

\* Below the cap queueOrActivate enters here straight from its count.
ActivateCheck(p) ==
    /\ \/ At(p, "act")
       \/ At(p, "qoaCount") /\ g[p].todo = {} /\ (cap = 0 \/ g[p].n < cap)
    /\ IF g[p].cur \in paused
       THEN AfterActivate(p, At(p, "qoaCount"))
       ELSE Goto(p, IF At(p, "qoaCount") THEN "qact2" ELSE "act2") /\ UNCHANGED mu
    /\ UNCHANGED <<cap, handles, client, ops>>

ActivateAllow(p) ==
    /\ At(p, "act2") \/ At(p, "qact2")
    /\ allowed' = allowed \cup {g[p].cur}
    /\ Goto(p, IF At(p, "qact2") THEN "qact3" ELSE "act3")
    /\ UNCHANGED <<cap, mu, handles, info, complete, wanted, ops>>

ActivateFlip(p) ==
    /\ At(p, "act3") \/ At(p, "qact3")
    /\ queued' = queued \ {g[p].cur}
    /\ wanted' = IF g[p].cur \in info THEN [wanted EXCEPT ![g[p].cur] = Files] ELSE wanted
    /\ AfterActivate(p, At(p, "qact3"))
    /\ UNCHANGED <<cap, reg, added, removed, paused, order, nextOrder,
                   info, complete, allowed, ops>>

(***************************************************************************)
(* The next-state relation.                                                *)
(***************************************************************************)
Step(p) ==
    \/ RestoreDisallow(p) \/ PauseDisallow(p) \/ ResumeAllow(p)
    \/ RemoveDelete(p) \/ setQueueOrder(p)
    \/ QoaCheck(p) \/ QoaLock(p) \/ countActive(p) \/ Enqueue(p) \/ EnqueueGate(p)
    \/ PromoteLock(p) \/ PromoteDone(p)
    \/ PromoteVisit(p) \/ PromoteTally(p)
    \/ ActivateCheck(p) \/ ActivateAllow(p) \/ ActivateFlip(p)

User(p, t) ==
    \/ \E known, asPaused \in BOOLEAN : registerLockedRestore(p, t, known, asPaused)
    \/ PauseTorrent(p, t) \/ ResumeTorrent(p, t) \/ RemoveTorrent(p, t)
    \/ QueueMoveToFront(p, t) \/ QueueMoveToBack(p, t)
    \/ \E f \in Files, none \in BOOLEAN : SetFilePriority(p, t, f, none)

Goroutines ==
    \/ \E t \in Torrents : autoDownload(t) \/ watchCompletion(t)
    \/ \E p \in Procs : Step(p)

Next ==
    \/ Goroutines
    \/ \E t \in Torrents : GotInfo(t) \/ Completed(t)
    \/ \E p \in Pool : \E t \in Torrents : User(p, t)
    \/ \E p \in Pool : \E c \in Caps : SetMaxActiveDownloads(p, c)

Spec == Init /\ [][Next]_vars

\* The Go scheduler runs some runnable goroutine: all the properties need.
\* Nothing forces users to act or the network to deliver.
Fairness == WF_vars(Goroutines)

FairSpec == Spec /\ Fairness

(***************************************************************************)
(* Properties.                                                             *)
(***************************************************************************)
\* No goroutine has work left: all that could change a flag now is a new
\* user operation or the network.
Quiescent ==
    /\ \A p \in Pool : At(p, "idle")
    /\ \A t \in added :
        /\ At(<<"auto", t>>, "done") \/ (At(<<"auto", t>>, "wait") /\ t \notin info \cup removed)
        /\ At(<<"watch", t>>, "done")
           \/ (At(<<"watch", t>>, "wait") /\ t \notin complete \cup removed)

Downloading == {t \in reg \cap info : isActive(t)}
SlotFree == cap = 0 \/ Cardinality({t \in reg : isActive(t)}) < cap

\* Once the goroutines of every add, pause, resume, remove and queue move
\* have run, no more torrents download than maxActiveDownloads: the
\* count-then-activate of queueOrActivate and promoteQueued never
\* oversubscribes, whatever flags the handlers flip in between, and the
\* torrents left waiting are gated in the client, whichever of resume,
\* promotion and queueOrActivate wrote last.
CapRespected ==
    Quiescent => /\ cap > 0 => Cardinality(Downloading) <= cap
                 /\ \A t \in reg : t \in queued \ paused => t \notin allowed

\* No torrent waits in the queue beside a free slot: every event that frees
\* a slot (pause, remove, completion, cap change, deselected files) leads to
\* a promotion pass that sees it.  This is so until the user resumes a
\* torrent or gives it files: such a torrent may be active when its own
\* queueOrActivate runs, which then counts it among its competitors.
Waits(t) == t \in (reg \cap queued) \ paused /\ SlotFree
NoStrandedDownload == Quiescent /\ ~ops.woken => \A t \in Torrents : ~Waits(t)

\* A torrent that waits beside a free slot does not wait forever: the slot a
\* completion, pause or cap change freed is handed on, whatever passes and
\* handlers run meanwhile and in whatever order they get promoteMu.
QueueDrains == \A t \in Torrents : Waits(t) ~> ~Waits(t) \/ ops.woken
=============================================================================
