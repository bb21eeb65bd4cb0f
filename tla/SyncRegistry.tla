---------------------------- MODULE SyncRegistry ----------------------------
(***************************************************************************)
(* The registry of set-reconciliation sessions of one peer address         *)
(* (internal/swarmsearch: sync_dispatch.go, sync_start.go, OnPeerClosed)   *)
(* and the symbol pumps of its responder sessions.                         *)
(*                                                                         *)
(* Every inbound frame is handled on a goroutine of its own.  A handler    *)
(* holds p.syncMu for one registry operation at a time, and names sessions *)
(* by txid when it releases them: what stands under the txid may have      *)
(* changed since it looked.  The connection callbacks run under the        *)
(* client's lock, so a new connection waits for OnPeerClosed to return.    *)
(*                                                                         *)
(* What a session reconciles is the business of SyncExchange.              *)
(***************************************************************************)
EXTENDS Integers, FiniteSets

CONSTANTS RemoteTx,    \* txids the peer begins sessions with
          LocalTx,     \* txids p.nextTxID hands out
          Sessions,    \* bound: sessions created in a behaviour
          Handlers,    \* goroutines handling frames, and StartSync's callers
          Closer,      \* the PeerConnClosed callback
          Cap,         \* MaxSyncSessionsPerPeer
          Profiles,    \* what may happen in a behaviour, beyond sync_begin
          None

ASSUME RegistryAssumption ==
    /\ IsFiniteSet(RemoteTx) /\ IsFiniteSet(LocalTx)
    /\ Cap \in Nat \ {0} /\ Closer \notin Handlers
    /\ Profiles \subseteq SUBSET {"rebegin", "empty", "need", "end", "reap", "close", "start"}
    /\ None \notin Sessions \cup RemoteTx \cup LocalTx \cup {"initiator", "responder"}

TxIDs == RemoteTx \cup LocalTx
Procs == Handlers \cup {Closer}

VARIABLES
    ops,        \* the profile of this behaviour
    peer,       \* p.peers[addr] exists, with a token and BitSetReconciliation
    reg,        \* p.syncSessions[addr]: txid -> session or None
    sess,       \* SyncSession objects: txid (None: not created), role, pump
    stopped,    \* sessions whose stopPumpCh is closed
    used,       \* txids begun (by the peer) or handed out (by nextTxID)
    g           \* goroutines: where each stands, and its local variables

registryVars == <<ops, peer, reg, sess, stopped, used, g>>

Labels == {"idle", "begin", "token", "spawn", "release", "stop", "start", "send",
           "forget", "stopAll"}

\* A goroutine: label, txid, session, where it goes on after StopPump, and
\* the sessions it has still to stop.
Local(l, tx, s) == [pc |-> l, tx |-> tx, s |-> s, then |-> "idle", todo |-> {}]
Idle == Local("idle", None, None)

SessionStates == [tx : TxIDs \cup {None}, role : {"initiator", "responder", None},
                  pump : {"none", "run", "over"}]
GoroutineRecs == [pc : Labels, tx : TxIDs \cup {None}, s : Sessions \cup {None},
               then : {"idle", "release"}, todo : SUBSET Sessions]

RegistryTypeOK ==
    /\ ops \in Profiles
    /\ peer \in BOOLEAN
    /\ reg \in [TxIDs -> Sessions \cup {None}]
    /\ sess \in [Sessions -> SessionStates]
    /\ stopped \subseteq Sessions /\ used \subseteq TxIDs
    /\ g \in [Procs -> GoroutineRecs]

RegistryInit ==
    /\ ops \in Profiles
    /\ peer = TRUE
    /\ reg = [tx \in TxIDs |-> None]
    /\ sess = [s \in Sessions |-> [tx |-> None, role |-> None, pump |-> "none"]]
    /\ stopped = {} /\ used = {}
    /\ g = [p \in Procs |-> Idle]

At(p, l) == g[p].pc = l
Goto(p, l) == g' = [g EXCEPT ![p].pc = l]
Return(p) == g' = [g EXCEPT ![p] = Idle]

Unborn == {s \in Sessions : sess[s].tx = None}
Incumbent(tx) == {reg[tx]} \ {None}

(***************************************************************************)
(* Registry operations, each under p.syncMu.                               *)
(***************************************************************************)
\* Mutant of registerSyncSession: the incumbent is replaced, not stopped.
ReplaceRunning(s, tx, role) ==
    /\ sess' = [sess EXCEPT ![s].tx = tx, ![s].role = role]
    /\ reg' = [reg EXCEPT ![tx] = s]
    /\ UNCHANGED stopped

\* registerSyncSession: no cap, but the incumbent's pump is stopped.
registerSyncSession(s, tx, role) ==
    /\ sess' = [sess EXCEPT ![s].tx = tx, ![s].role = role]
    /\ stopped' = stopped \cup Incumbent(tx)
    /\ reg' = [reg EXCEPT ![tx] = s]

\* Mutant of UnderCap: off by one.
UpToCap(tx) == Cardinality({x \in TxIDs \ {tx} : reg[x] # None}) <= Cap

\* registerSyncSessionIfUnderCap: sessions under other txids are counted.
UnderCap(tx) == Cardinality({x \in TxIDs \ {tx} : reg[x] # None}) < Cap

releaseSyncSession(p) ==
    /\ At(p, "release")
    /\ reg' = [reg EXCEPT ![g[p].tx] = None]
    /\ Return(p)
    /\ UNCHANGED <<ops, peer, sess, stopped, used>>

(***************************************************************************)
(* onSyncBegin: the frame is admitted while the peer is known; then the    *)
(* session is registered, the peer's token is read, and a pump is spawned, *)
(* or the session is released (no token; or no records to reconcile).      *)
(***************************************************************************)
onSyncBegin(p, tx) ==
    /\ At(p, "idle") /\ peer /\ p # Closer
    /\ tx \in RemoteTx /\ (tx \in used => "rebegin" \in ops)
    /\ used' = used \cup {tx}
    /\ g' = [g EXCEPT ![p] = Local("begin", tx, None)]
    /\ UNCHANGED <<ops, peer, reg, sess, stopped>>

BeginRegister(p) ==
    LET tx == g[p].tx IN
    /\ At(p, "begin")
    /\ \/ /\ UnderCap(tx)
          /\ \E s \in Unborn :
              /\ registerSyncSession(s, tx, "responder")
              /\ g' = [g EXCEPT ![p] = Local("token", tx, s)]
       \/ ~UnderCap(tx) /\ Return(p) /\ UNCHANGED <<reg, sess, stopped>>
    /\ UNCHANGED <<ops, peer, used>>

\* Mutant of BeginToken: without a token the handler just returns.
BeginAbandon(p) ==
    /\ At(p, "token")
    /\ \/ peer /\ Goto(p, "spawn")
       \/ ~peer /\ Return(p)
    /\ UNCHANGED <<ops, peer, reg, sess, stopped, used>>

BeginToken(p) ==
    /\ At(p, "token")
    /\ \/ peer /\ Goto(p, "spawn")
       \/ (~peer \/ "empty" \in ops) /\ Goto(p, "release")
    /\ UNCHANGED <<ops, peer, reg, sess, stopped, used>>

SpawnPump(p) ==
    /\ At(p, "spawn")
    /\ sess' = [sess EXCEPT ![g[p].s].pump = "run"]
    /\ Return(p)
    /\ UNCHANGED <<ops, peer, reg, stopped, used>>

\* runSyncPump ends when its session is stopped or its budget is spent (the
\* batches it sends until then change nothing here).
runSyncPump(s) ==
    /\ sess[s].pump = "run"
    /\ sess' = [sess EXCEPT ![s].pump = "over"]
    /\ UNCHANGED <<ops, peer, reg, stopped, used, g>>

(***************************************************************************)
(* The other frames: look the session up by txid, stop its pump, and go on *)
(* to release it (sync_end; endWithError on a bad sync_symbols or          *)
(* sync_records) or not (sync_need).                                       *)
(***************************************************************************)
lookupSyncSession(p, tx, then) ==
    /\ At(p, "idle") /\ peer /\ p # Closer
    /\ (IF then = "release" THEN "end" ELSE "need") \in ops
    /\ reg[tx] # None
    /\ g' = [g EXCEPT ![p] = [Local("stop", tx, reg[tx]) EXCEPT !.then = then]]
    /\ UNCHANGED <<ops, peer, reg, sess, stopped, used>>

StopPump(p) ==
    /\ At(p, "stop")
    /\ stopped' = stopped \cup {g[p].s}
    /\ IF g[p].then = "release" THEN Goto(p, "release") ELSE Return(p)
    /\ UNCHANGED <<ops, peer, reg, sess, used>>

\* reapStaleSyncSessions, at the head of every sync frame: idle sessions
\* leave the registry under the lock, and are stopped after it.
reapStaleSyncSessions(p) ==
    /\ At(p, "idle") /\ peer /\ p # Closer /\ "reap" \in ops
    /\ \E stale \in (SUBSET {tx \in TxIDs : reg[tx] # None}) \ {{}} :
        /\ reg' = [tx \in TxIDs |-> IF tx \in stale THEN None ELSE reg[tx]]
        /\ g' = [g EXCEPT ![p] = [Local("stopAll", None, None)
                                  EXCEPT !.todo = {reg[tx] : tx \in stale}]]
    /\ UNCHANGED <<ops, peer, sess, stopped, used>>

StopNext(p) ==
    /\ At(p, "stopAll")
    /\ IF g[p].todo = {} THEN Return(p) /\ UNCHANGED stopped
       ELSE \E s \in g[p].todo :
            /\ stopped' = stopped \cup {s}
            /\ g' = [g EXCEPT ![p].todo = @ \ {s}]
    /\ UNCHANGED <<ops, peer, reg, sess, used>>

(***************************************************************************)
(* The initiator: StartSync registers before it sends, and takes the       *)
(* session back when the send fails; CloseSync stops and releases.         *)
(***************************************************************************)
StartSync(p, tx) ==
    /\ At(p, "idle") /\ peer /\ p # Closer /\ "start" \in ops
    /\ tx \in LocalTx \ used
    /\ used' = used \cup {tx}
    /\ g' = [g EXCEPT ![p] = Local("start", tx, None)]
    /\ UNCHANGED <<ops, peer, reg, sess, stopped>>

StartRegister(p) ==
    /\ At(p, "start")
    /\ \E s \in Unborn :
        /\ registerSyncSession(s, g[p].tx, "initiator")
        /\ g' = [g EXCEPT ![p] = Local("send", g[p].tx, s)]
    /\ UNCHANGED <<ops, peer, used>>

StartSend(p) ==
    /\ At(p, "send")
    /\ (peer /\ Return(p)) \/ Goto(p, "release")
    /\ UNCHANGED <<ops, peer, reg, sess, stopped, used>>

CloseSync(p, s) ==
    /\ At(p, "idle") /\ p # Closer /\ "start" \in ops
    /\ sess[s].role = "initiator"
    /\ \A q \in Procs : g[q].s # s         \* StartSync has returned it
    /\ g' = [g EXCEPT ![p] = [Local("stop", sess[s].tx, s) EXCEPT !.then = "release"]]
    /\ UNCHANGED <<ops, peer, reg, sess, stopped, used>>

(***************************************************************************)
(* OnPeerClosed deletes the peer's state, then releaseAllSyncSessions      *)
(* forgets its sessions and, after the lock, stops their pumps.            *)
(***************************************************************************)
OnPeerClosed ==
    /\ At(Closer, "idle") /\ peer /\ "close" \in ops
    /\ peer' = FALSE
    /\ Goto(Closer, "forget")
    /\ UNCHANGED <<ops, reg, sess, stopped, used>>

\* Mutant of releaseAllSyncSessions: the sessions are forgotten, not stopped.
ForgetOnly ==
    /\ At(Closer, "forget")
    /\ reg' = [tx \in TxIDs |-> None]
    /\ Return(Closer)
    /\ UNCHANGED <<ops, peer, sess, stopped, used>>

releaseAllSyncSessions ==
    /\ At(Closer, "forget")
    /\ reg' = [tx \in TxIDs |-> None]
    /\ g' = [g EXCEPT ![Closer] = [Local("stopAll", None, None)
                EXCEPT !.todo = {reg[tx] : tx \in TxIDs} \ {None}]]
    /\ UNCHANGED <<ops, peer, sess, stopped, used>>

\* The peer connects again from the same address, shakes hands and announces.
PeerConnAdded ==
    /\ At(Closer, "idle") /\ ~peer
    /\ peer' = TRUE
    /\ UNCHANGED <<ops, reg, sess, stopped, used, g>>

Step(p) ==
    \/ BeginRegister(p) \/ BeginToken(p) \/ SpawnPump(p) \/ releaseSyncSession(p)
    \/ StopPump(p) \/ StopNext(p) \/ StartRegister(p) \/ StartSend(p)

Frame(p) ==
    \/ \E tx \in TxIDs :
        \/ onSyncBegin(p, tx) \/ StartSync(p, tx)
        \/ \E then \in {"idle", "release"} : lookupSyncSession(p, tx, then)
    \/ reapStaleSyncSessions(p)
    \/ \E s \in Sessions : CloseSync(p, s)

RegistryNext ==
    \/ \E p \in Procs : Step(p) \/ Frame(p)
    \/ \E s \in Sessions : runSyncPump(s)
    \/ OnPeerClosed \/ releaseAllSyncSessions \/ PeerConnAdded

RegistrySpec == RegistryInit /\ [][RegistryNext]_registryVars

(***************************************************************************)
(* Properties.                                                             *)
(***************************************************************************)
\* Some goroutine is about to stop s.
Stopping(s) ==
    \E p \in Procs : (At(p, "stop") /\ g[p].s = s) \/ (At(p, "stopAll") /\ s \in g[p].todo)

\* The pump of s runs, and nobody told it to stop.
Pumping(s) == sess[s].pump = "run" /\ s \notin stopped

\* No pump is orphaned: one that runs unstopped can be found in the registry
\* under its txid, where sync_need, sync_end, the reaper, a replacement and
\* OnPeerClosed look for it, unless one of them is stopping it already.
PumpReachable == \A s \in Sessions : Pumping(s) => reg[sess[s].tx] = s \/ Stopping(s)

\* The responder sessions of a peer never exceed MaxSyncSessionsPerPeer,
\* however many sync_begin frames are handled at once.
CapHolds ==
    Cardinality({tx \in TxIDs : reg[tx] # None /\ sess[reg[tx]].role = "responder"}) <= Cap

\* Whatever frames race, the state is well typed, no pump is orphaned and the
\* peer stays within its cap.
PumpsAccounted == RegistryTypeOK /\ PumpReachable /\ CapHolds

Quiescent == \A p \in Procs : At(p, "idle")

\* OnPeerClosed: once the frames in flight are handled, a peer that is gone
\* has no pump left running for it and no responder session in the registry,
\* whichever of its frames raced the disconnect.
ClosedPeerForgotten ==
    Quiescent /\ ~peer =>
        /\ \A s \in Sessions : ~Pumping(s)
        /\ \A tx \in TxIDs : reg[tx] # None => sess[reg[tx]].role = "initiator"
=============================================================================
