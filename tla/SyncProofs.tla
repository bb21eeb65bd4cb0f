----------------------------- MODULE SyncProofs -----------------------------
(***************************************************************************)
(* Theorems about the sync sessions of a node: the registry of the         *)
(* sessions of a peer (SyncRegistry), and one session with both its ends   *)
(* (SyncExchange).                                                         *)
(***************************************************************************)
EXTENDS SyncRegistry, SyncExchange, TLAPS, FiniteSetTheorems, NaturalsInduction, WellFoundedInduction

(***************************************************************************)
(* A peer stays within its cap whatever it sends.  No pump is orphaned and *)
(* a closed peer is forgotten, as long as no txid is released by its name  *)
(* after it has been begun a second time (TxIDsOwned): the registry names  *)
(* sessions by txid, so a late release then hits the wrong session.        *)
(*                                                                         *)
(* The argument: a session whose pump runs, or may still be spawned, is    *)
(* registered, stopped, or about to be stopped (Reach).  What takes a      *)
(* session out of the registry either stops it afterwards, or is the       *)
(* release of a txid that stands for one session only (Owned), which is    *)
(* stopped by then or will never pump (Releases).                          *)
(***************************************************************************)

\* A peer that begins a txid twice sends no frame that releases it by name and does not
\* disconnect, and begins none of ours.
TxIDsOwned ==
    \A o \in Profiles : "rebegin" \in o =>
        o \cap {"empty", "end", "close"} = {} /\ RemoteTx \cap LocalTx = {}

\* A txid under which more than one session may be registered.
Reused(tx) == "rebegin" \in ops /\ tx \in RemoteTx

Begins(p) == g[p].pc \in {"begin", "start"}
MaySpawn(p, s) == g[p].pc \in {"token", "spawn"} /\ g[p].s = s
NeverPumps(s) == sess[s].pump = "none" /\ \A p \in Procs : ~MaySpawn(p, s)

\* Sessions, and the registry's view of them.
SessionsSound ==
    /\ \A tx \in TxIDs : reg[tx] # None => sess[reg[tx]].tx = tx
    /\ \A s \in Sessions :
        /\ sess[s].tx = None => sess[s].role = None /\ sess[s].pump = "none"
        /\ sess[s].tx # None => sess[s].tx \in used /\ sess[s].role # None
        /\ sess[s].role = "initiator" => sess[s].tx \in LocalTx
        /\ sess[s].pump # "none" => sess[s].role = "responder"

\* What a goroutine holds is what it registered or looked up.
HoldersSound ==
    \A p \in Procs :
        /\ Begins(p) => g[p].tx \in used
        /\ g[p].pc = "begin" => g[p].tx \in RemoteTx
        /\ g[p].pc = "start" => g[p].tx \in LocalTx
        /\ g[p].pc \in {"token", "spawn", "send", "stop", "release"} =>
            g[p].s \in Sessions /\ g[p].tx \in TxIDs /\ sess[g[p].s].tx = g[p].tx
        /\ g[p].pc \in {"token", "spawn"} =>
            sess[g[p].s].role = "responder" /\ sess[g[p].s].pump = "none"
        /\ g[p].pc = "send" => sess[g[p].s].role = "initiator"
        /\ \A q \in Procs \ {p} : MaySpawn(p, g[p].s) => ~MaySpawn(q, g[p].s)

\* A txid that is not reused stands for one session, or for one still to be registered.
Owned ==
    /\ \A s, r \in Sessions : sess[s].tx # None /\ sess[s].tx = sess[r].tx /\ s # r => Reused(sess[s].tx)
    /\ \A p \in Procs : Begins(p) /\ ~Reused(g[p].tx) =>
        /\ \A s \in Sessions : sess[s].tx # g[p].tx
        /\ \A q \in Procs \ {p} : Begins(q) => g[q].tx # g[p].tx

\* What is released by name is not reused, and will not pump any more.
Releases ==
    \A p \in Procs :
        /\ g[p].pc = "release" \/ (g[p].pc = "stop" /\ g[p].then = "release") => ~Reused(g[p].tx)
        /\ g[p].pc = "release" => g[p].s \in stopped \/ NeverPumps(g[p].s)

Reach ==
    \A s \in Sessions : sess[s].pump = "run" \/ (\E p \in Procs : MaySpawn(p, s)) =>
        s \in stopped \/ Stopping(s) \/ reg[sess[s].tx] = s

\* After OnPeerClosed has forgotten the sessions, the responder sessions still in the registry
\* belong to handlers that will release them.
Forgotten ==
    /\ ~peer => "close" \in ops
    /\ ~peer /\ g[Closer].pc # "forget" =>
        \A tx \in TxIDs : reg[tx] # None /\ sess[reg[tx]].role = "responder" =>
            \E p \in Procs : g[p].pc \in {"token", "release"} /\ g[p].tx = tx

BaseInv == SessionsSound /\ HoldersSound
PumpInv == Owned /\ Releases /\ Reach /\ Forgotten

-----------------------------------------------------------------------------
(* Types. *)

LEMMA Fields ==
    ASSUME RegistryTypeOK, NEW p \in Procs
    PROVE  /\ g[p] \in GoroutineRecs /\ g[p].pc \in Labels /\ g[p].tx \in TxIDs \cup {None}
           /\ g[p].s \in Sessions \cup {None}
           /\ g[p].then \in {"idle", "release"} /\ g[p].todo \in SUBSET Sessions
  BY DEF RegistryTypeOK, GoroutineRecs

LEMMA NewLocals ==
    ASSUME NEW l \in Labels, NEW tx \in TxIDs \cup {None}, NEW s \in Sessions \cup {None},
           NEW then \in {"idle", "release"}, NEW todo \in SUBSET Sessions
    PROVE  /\ Local(l, tx, s) \in GoroutineRecs
           /\ [Local(l, tx, s) EXCEPT !.then = then] \in GoroutineRecs
           /\ [Local(l, tx, s) EXCEPT !.todo = todo] \in GoroutineRecs
           /\ Idle \in GoroutineRecs
  BY DEF Local, Idle, GoroutineRecs, Labels

LEMMA InitType == RegistryInit => RegistryTypeOK
  <1> SUFFICES ASSUME RegistryInit PROVE RegistryTypeOK
    OBVIOUS
  <1>1. reg \in [TxIDs -> Sessions \cup {None}] /\ stopped \subseteq Sessions /\ used \subseteq TxIDs
    BY DEF RegistryInit
  <1>2. sess \in [Sessions -> SessionStates]
    BY DEF RegistryInit, SessionStates
  <1>3. g \in [Procs -> GoroutineRecs]
    BY DEF RegistryInit, Idle, Local, GoroutineRecs, Labels
  <1>4. ops \in Profiles /\ peer \in BOOLEAN
    BY DEF RegistryInit
  <1> QED BY <1>1, <1>2, <1>3, <1>4 DEF RegistryTypeOK

\* A goroutine's next label, or next locals, keep the goroutines typed.
LEMMA GotoType ==
    ASSUME RegistryTypeOK, NEW p \in Procs, NEW l \in Labels, Goto(p, l)
    PROVE  g' \in [Procs -> GoroutineRecs]
  BY DEF RegistryTypeOK, Goto, GoroutineRecs

LEMMA ReturnType ==
    ASSUME RegistryTypeOK, NEW p \in Procs, Return(p)
    PROVE  g' \in [Procs -> GoroutineRecs]
  <1>1. Idle \in GoroutineRecs
    BY DEF Idle, Local, GoroutineRecs, Labels
  <1> QED BY <1>1 DEF RegistryTypeOK, Return

LEMMA RegisterType ==
    ASSUME RegistryTypeOK, NEW s \in Sessions, NEW tx \in TxIDs, NEW role \in {"initiator", "responder"},
           registerSyncSession(s, tx, role)
    PROVE  /\ reg' \in [TxIDs -> Sessions \cup {None}]
           /\ sess' \in [Sessions -> SessionStates]
           /\ stopped' \subseteq Sessions
  <1>1. reg' \in [TxIDs -> Sessions \cup {None}] /\ stopped' \subseteq Sessions
    BY DEF registerSyncSession, RegistryTypeOK, Incumbent
  <1>2. [sess[s] EXCEPT !.tx = tx, !.role = role] \in SessionStates
    BY DEF RegistryTypeOK, SessionStates
  <1>3. sess' = [sess EXCEPT ![s] = [sess[s] EXCEPT !.tx = tx, !.role = role]]
    BY DEF registerSyncSession, RegistryTypeOK, SessionStates
  <1> QED BY <1>1, <1>2, <1>3 DEF RegistryTypeOK

LEMMA TypeStep == RegistryTypeOK /\ HoldersSound /\ [RegistryNext]_registryVars => RegistryTypeOK'
  <1> SUFFICES ASSUME RegistryTypeOK, HoldersSound, [RegistryNext]_registryVars PROVE RegistryTypeOK'
    OBVIOUS
  <1> USE DEF RegistryTypeOK
  <1>1. ASSUME NEW p \in Procs, Step(p) PROVE RegistryTypeOK'
    <2> USE Fields
    <2>1. CASE BeginRegister(p)
      <3>1. g[p].tx \in TxIDs
        BY <2>1 DEF BeginRegister, At, HoldersSound, TxIDs
      <3>2. CASE Return(p) /\ UNCHANGED <<reg, sess, stopped>>
        BY <2>1, <3>2, ReturnType DEF BeginRegister
      <3>3. ASSUME NEW s \in Unborn, registerSyncSession(s, g[p].tx, "responder"),
                   g' = [g EXCEPT ![p] = Local("token", g[p].tx, s)]
            PROVE  RegistryTypeOK'
        <4>1. s \in Sessions
          BY DEF Unborn
        <4>2. Local("token", g[p].tx, s) \in GoroutineRecs
          BY <3>1, <4>1 DEF Local, GoroutineRecs, Labels
        <4>3. g' \in [Procs -> GoroutineRecs]
          BY <3>3, <4>2
        <4> QED BY <2>1, <3>1, <3>3, <4>1, <4>3, RegisterType DEF BeginRegister
      <3> QED BY <2>1, <3>2, <3>3 DEF BeginRegister
    <2>2. CASE BeginToken(p)
      BY <2>2, GotoType DEF BeginToken, Labels
    <2>3. CASE SpawnPump(p)
      <3>1. sess' \in [Sessions -> SessionStates]
        BY <2>3 DEF SpawnPump, SessionStates
      <3> QED BY <2>3, <3>1, ReturnType DEF SpawnPump
    <2>4. CASE releaseSyncSession(p)
      BY <2>4, ReturnType DEF releaseSyncSession
    <2>5. CASE StopPump(p)
      <3>1. g' \in [Procs -> GoroutineRecs]
        BY <2>5, ReturnType, GotoType DEF StopPump, Labels
      <3> QED BY <2>5, <3>1 DEF StopPump, At, HoldersSound
    <2>6. CASE StopNext(p)
      <3>1. CASE g[p].todo = {}
        BY <2>6, <3>1, ReturnType DEF StopNext
      <3>2. ASSUME NEW s \in g[p].todo, stopped' = stopped \cup {s}, g' = [g EXCEPT ![p].todo = @ \ {s}]
            PROVE  RegistryTypeOK'
        <4>1. g' \in [Procs -> GoroutineRecs]
          BY <3>2 DEF GoroutineRecs
        <4> QED BY <2>6, <3>2, <4>1 DEF StopNext
      <3> QED BY <2>6, <3>1, <3>2 DEF StopNext
    <2>7. CASE StartRegister(p)
      <3>1. g[p].tx \in TxIDs
        BY <2>7 DEF StartRegister, At, HoldersSound, TxIDs
      <3>2. PICK s \in Unborn : /\ registerSyncSession(s, g[p].tx, "initiator")
                                /\ g' = [g EXCEPT ![p] = Local("send", g[p].tx, s)]
        BY <2>7 DEF StartRegister
      <3>3. s \in Sessions
        BY DEF Unborn
      <3>4. Local("send", g[p].tx, s) \in GoroutineRecs
        BY <3>1, <3>3 DEF Local, GoroutineRecs, Labels
      <3>5. g' \in [Procs -> GoroutineRecs]
        BY <3>2, <3>4
      <3> QED BY <2>7, <3>1, <3>2, <3>3, <3>5, RegisterType DEF StartRegister
    <2>8. CASE StartSend(p)
      BY <2>8, ReturnType, GotoType DEF StartSend, Labels
    <2> QED BY <1>1, <2>1, <2>2, <2>3, <2>4, <2>5, <2>6, <2>7, <2>8 DEF Step
  <1>2. ASSUME NEW p \in Procs, Frame(p) PROVE RegistryTypeOK'
    <2>1. ASSUME NEW tx \in TxIDs, onSyncBegin(p, tx) \/ StartSync(p, tx) PROVE RegistryTypeOK'
      <3>1. g' \in [Procs -> GoroutineRecs]
        BY <2>1 DEF onSyncBegin, StartSync, Local, GoroutineRecs, Labels
      <3> QED BY <2>1, <3>1 DEF onSyncBegin, StartSync
    <2>2. ASSUME NEW tx \in TxIDs, NEW then \in {"idle", "release"}, lookupSyncSession(p, tx, then)
          PROVE  RegistryTypeOK'
      <3>1. g' \in [Procs -> GoroutineRecs]
        BY <2>2 DEF lookupSyncSession, Local, GoroutineRecs, Labels
      <3> QED BY <2>2, <3>1 DEF lookupSyncSession
    <2>3. CASE reapStaleSyncSessions(p)
      <3>1. PICK stale \in (SUBSET {tx \in TxIDs : reg[tx] # None}) \ {{}} :
              /\ reg' = [tx \in TxIDs |-> IF tx \in stale THEN None ELSE reg[tx]]
              /\ g' = [g EXCEPT ![p] = [Local("stopAll", None, None) EXCEPT !.todo = {reg[tx] : tx \in stale}]]
        BY <2>3 DEF reapStaleSyncSessions
      <3>2. {reg[tx] : tx \in stale} \subseteq Sessions
        OBVIOUS
      <3>3. [Local("stopAll", None, None) EXCEPT !.todo = {reg[tx] : tx \in stale}] \in GoroutineRecs
        BY <3>2, NewLocals DEF Labels
      <3>4. g' \in [Procs -> GoroutineRecs] /\ reg' \in [TxIDs -> Sessions \cup {None}]
        BY <3>1, <3>3
      <3> QED BY <2>3, <3>4 DEF reapStaleSyncSessions
    <2>4. ASSUME NEW s \in Sessions, CloseSync(p, s) PROVE RegistryTypeOK'
      <3>1. sess[s].tx \in TxIDs \cup {None}
        BY DEF SessionStates
      <3>2. [Local("stop", sess[s].tx, s) EXCEPT !.then = "release"] \in GoroutineRecs
        BY <3>1 DEF Local, GoroutineRecs, Labels
      <3> QED BY <2>4, <3>2 DEF CloseSync
    <2> QED BY <1>2, <2>1, <2>2, <2>3, <2>4 DEF Frame
  <1>3. ASSUME NEW s \in Sessions, runSyncPump(s) PROVE RegistryTypeOK'
    <2>1. sess' \in [Sessions -> SessionStates]
      BY <1>3 DEF runSyncPump, SessionStates
    <2> QED BY <1>3, <2>1 DEF runSyncPump
  <1>4. CASE OnPeerClosed
    BY <1>4, GotoType DEF OnPeerClosed, Labels, Procs
  <1>5. CASE releaseAllSyncSessions
    <2>1. {reg[tx] : tx \in TxIDs} \ {None} \subseteq Sessions
      OBVIOUS
    <2>2. [Local("stopAll", None, None) EXCEPT !.todo = {reg[tx] : tx \in TxIDs} \ {None}] \in GoroutineRecs
      BY <2>1, NewLocals DEF Labels
    <2> QED BY <1>5, <2>2 DEF releaseAllSyncSessions
  <1>6. CASE PeerConnAdded
    BY <1>6 DEF PeerConnAdded
  <1>7. CASE UNCHANGED registryVars
    BY <1>7 DEF registryVars
  <1> QED BY <1>1, <1>2, <1>3, <1>4, <1>5, <1>6, <1>7 DEF RegistryNext

-----------------------------------------------------------------------------
(* What a step of a goroutine does to the goroutines, field by field. *)

Moved(p, l, tx, s, then, todo) ==
    /\ g'[p].pc = l /\ g'[p].tx = tx /\ g'[p].s = s /\ g'[p].then = then /\ g'[p].todo = todo
    /\ \A q \in Procs \ {p} : g'[q] = g[q]

LEMMA GotoMoves ==
    ASSUME RegistryTypeOK, NEW p \in Procs, NEW l, Goto(p, l)
    PROVE  Moved(p, l, g[p].tx, g[p].s, g[p].then, g[p].todo)
  BY DEF RegistryTypeOK, Goto, GoroutineRecs, Moved

LEMMA ReturnMoves ==
    ASSUME RegistryTypeOK, NEW p \in Procs, Return(p)
    PROVE  Moved(p, "idle", None, None, "idle", {})
  BY DEF RegistryTypeOK, Return, GoroutineRecs, Moved, Idle, Local

LEMMA LocalMoves ==
    ASSUME RegistryTypeOK, NEW p \in Procs, NEW l, NEW tx, NEW s, g' = [g EXCEPT ![p] = Local(l, tx, s)]
    PROVE  Moved(p, l, tx, s, "idle", {})
  BY DEF RegistryTypeOK, GoroutineRecs, Moved, Local

LEMMA ThenMoves ==
    ASSUME RegistryTypeOK, NEW p \in Procs, NEW l, NEW tx, NEW s, NEW then,
           g' = [g EXCEPT ![p] = [Local(l, tx, s) EXCEPT !.then = then]]
    PROVE  Moved(p, l, tx, s, then, {})
  BY DEF RegistryTypeOK, GoroutineRecs, Moved, Local

LEMMA TodoMoves ==
    ASSUME RegistryTypeOK, NEW p \in Procs, NEW l, NEW tx, NEW s, NEW todo,
           g' = [g EXCEPT ![p] = [Local(l, tx, s) EXCEPT !.todo = todo]]
    PROVE  Moved(p, l, tx, s, "idle", todo)
  BY DEF RegistryTypeOK, GoroutineRecs, Moved, Local

-----------------------------------------------------------------------------
(* Each operation keeps the invariant. *)

LEMMA InitPump == RegistryInit => BaseInv /\ PumpInv
  <1> SUFFICES ASSUME RegistryInit PROVE BaseInv /\ PumpInv
    OBVIOUS
  <1>1. /\ \A p \in Procs : g[p].pc = "idle" /\ g[p].s = None
        /\ \A s \in Sessions : sess[s].tx = None /\ sess[s].role = None /\ sess[s].pump = "none"
        /\ \A tx \in TxIDs : reg[tx] = None
        /\ peer = TRUE
    BY DEF RegistryInit, Idle, Local
  <1>2. SessionsSound
    BY <1>1, RegistryAssumption DEF SessionsSound
  <1>3. HoldersSound
    BY <1>1 DEF HoldersSound, Begins, MaySpawn
  <1>4. Owned /\ Releases /\ Reach
    BY <1>1 DEF Owned, Releases, Reach, Begins, MaySpawn
  <1>5. Forgotten
    BY <1>1 DEF Forgotten
  <1> QED BY <1>2, <1>3, <1>4, <1>5 DEF BaseInv, PumpInv

\* A session that pumps or may still pump is a registered responder's.
LEMMA Pumpers ==
    ASSUME RegistryTypeOK, SessionsSound, HoldersSound, NEW s \in Sessions,
           sess[s].pump = "run" \/ \E q \in Procs : MaySpawn(q, s)
    PROVE  sess[s].tx \in TxIDs /\ sess[s].tx # None /\ sess[s].role = "responder"
  <1>1. None \notin TxIDs /\ sess[s].tx \in TxIDs \cup {None}
    BY RegistryAssumption DEF TxIDs, RegistryTypeOK, SessionStates
  <1>2. CASE sess[s].pump = "run"
    BY <1>1, <1>2, RegistryAssumption DEF SessionsSound
  <1>3. CASE \E q \in Procs : MaySpawn(q, s)
    BY <1>1, <1>3 DEF HoldersSound, MaySpawn
  <1> QED BY <1>2, <1>3

LEMMA ReleaseStep ==
    ASSUME RegistryTypeOK, BaseInv, NEW p \in Procs, releaseSyncSession(p)
    PROVE  BaseInv' /\ (PumpInv => PumpInv')
  <1>1. Moved(p, "idle", None, None, "idle", {}) /\ g[p].pc = "release"
    BY ReturnMoves DEF releaseSyncSession, At
  <1>2. UNCHANGED <<ops, peer, sess, stopped, used>>
    BY DEF releaseSyncSession
  <1>3. g[p].tx \in TxIDs /\ g[p].s \in Sessions /\ sess[g[p].s].tx = g[p].tx
    BY <1>1 DEF BaseInv, HoldersSound
  <1>4. reg'[g[p].tx] = None /\ \A tx \in TxIDs \ {g[p].tx} : reg'[tx] = reg[tx]
    BY <1>3 DEF releaseSyncSession, RegistryTypeOK
  <1>5. SessionsSound'
    BY <1>2, <1>4 DEF BaseInv, SessionsSound
  <1>6. HoldersSound'
    BY <1>1, <1>2 DEF BaseInv, HoldersSound, Begins, MaySpawn, Moved
  <1> SUFFICES ASSUME PumpInv PROVE PumpInv'
    BY <1>5, <1>6 DEF BaseInv
  <1>7. ~Reused(g[p].tx) /\ (g[p].s \in stopped \/ NeverPumps(g[p].s))
    BY <1>1 DEF PumpInv, Releases
  <1>8. Owned'
    BY <1>1, <1>2 DEF PumpInv, Owned, Begins, Moved, Reused
  <1>9. Releases'
    BY <1>1, <1>2 DEF PumpInv, Releases, Moved, Reused, NeverPumps, MaySpawn
  <1>10. Reach'
    <2> SUFFICES ASSUME NEW s \in Sessions, sess[s].pump = "run" \/ (\E q \in Procs : MaySpawn(q, s)'),
                        s \notin stopped
                 PROVE  Stopping(s)' \/ reg'[sess[s].tx] = s
      BY <1>2 DEF Reach
    <2>1. sess[s].pump = "run" \/ \E q \in Procs : MaySpawn(q, s)
      BY <1>1 DEF MaySpawn, Moved
    <2>2. CASE Stopping(s)
      BY <1>1, <2>2 DEF Stopping, At, Moved
    <2>3. CASE reg[sess[s].tx] = s
      <3>1. s # g[p].s
        BY <1>7, <2>1 DEF NeverPumps
      <3>2. sess[s].tx \in TxIDs /\ sess[s].tx # None
        BY <2>1, Pumpers DEF BaseInv
      <3>3. sess[s].tx # g[p].tx
        BY <1>3, <1>7, <3>1, <3>2 DEF PumpInv, Owned
      <3> QED BY <1>4, <2>3, <3>2, <3>3
    <2> QED BY <2>1, <2>2, <2>3 DEF PumpInv, Reach
  <1>11. Forgotten'
    <2> SUFFICES ASSUME ~peer, g'[Closer].pc # "forget", NEW tx \in TxIDs,
                        reg'[tx] # None, sess[reg'[tx]].role = "responder"
                 PROVE  \E q \in Procs : g'[q].pc \in {"token", "release"} /\ g'[q].tx = tx
      BY <1>2 DEF PumpInv, Forgotten
    <2>1. tx # g[p].tx /\ reg'[tx] = reg[tx]
      BY <1>4
    <2>2. g[Closer].pc # "forget"
      BY <1>1 DEF Moved, Procs
    <2>3. PICK q \in Procs : g[q].pc \in {"token", "release"} /\ g[q].tx = tx
      BY <2>1, <2>2 DEF PumpInv, Forgotten
    <2> QED BY <1>1, <2>1, <2>3 DEF Moved
  <1> QED BY <1>8, <1>9, <1>10, <1>11 DEF PumpInv

\* Registering a session that nobody holds yet, by onSyncBegin or StartSync.
LEMMA RegisterStep ==
    ASSUME RegistryTypeOK, BaseInv, NEW p \in Procs, NEW s \in Unborn, NEW l, NEW role,
           \/ g[p].pc = "begin" /\ role = "responder" /\ l = "token"
           \/ g[p].pc = "start" /\ role = "initiator" /\ l = "send",
           registerSyncSession(s, g[p].tx, role),
           g' = [g EXCEPT ![p] = Local(l, g[p].tx, s)],
           UNCHANGED <<ops, peer, used>>
    PROVE  BaseInv' /\ (PumpInv => PumpInv')
  <1> DEFINE tx == g[p].tx
  <1>1. Moved(p, l, tx, s, "idle", {})
    BY LocalMoves
  <1>2. tx \in TxIDs /\ tx \in used /\ tx # None /\ (role = "initiator" => tx \in LocalTx)
    BY RegistryAssumption DEF BaseInv, HoldersSound, Begins, TxIDs
  <1>3. s \in Sessions /\ sess[s].tx = None /\ sess[s].pump = "none" /\ s # None
    BY RegistryAssumption DEF Unborn, BaseInv, SessionsSound
  <1>4. /\ sess'[s].tx = tx /\ sess'[s].role = role /\ sess'[s].pump = "none"
        /\ \A r \in Sessions \ {s} : sess'[r] = sess[r]
    <2>1. sess[s] \in SessionStates
      BY <1>3 DEF RegistryTypeOK
    <2> QED BY <1>3, <2>1 DEF registerSyncSession, RegistryTypeOK, SessionStates
  <1>5. reg'[tx] = s /\ \A x \in TxIDs \ {tx} : reg'[x] = reg[x]
    BY <1>2 DEF registerSyncSession, RegistryTypeOK
  <1>6. stopped \subseteq stopped' /\ (reg[tx] # None => reg[tx] \in stopped')
    BY DEF registerSyncSession, Incumbent
  <1>7. \A q \in Procs : g[q].pc \in {"token", "spawn", "send", "stop", "release"} => g[q].s # s
    BY <1>3, RegistryAssumption DEF BaseInv, HoldersSound, TxIDs
  <1>8. \A x \in TxIDs : reg[x] # s
    BY <1>3, RegistryAssumption DEF BaseInv, SessionsSound, TxIDs
  <1>9. \A x \in TxIDs : reg[x] \in Sessions \cup {None}
    BY DEF RegistryTypeOK
  <1> HIDE DEF tx
  <1>10. SessionsSound'
    BY <1>2, <1>3, <1>4, <1>5, <1>8, <1>9, RegistryAssumption DEF BaseInv, SessionsSound
  <1>11. HoldersSound'
    BY <1>1, <1>2, <1>3, <1>4, <1>7 DEF BaseInv, HoldersSound, Begins, MaySpawn, Moved, tx
  <1> SUFFICES ASSUME PumpInv PROVE PumpInv'
    BY <1>10, <1>11 DEF BaseInv
  <1>12. Owned'
    BY <1>1, <1>2, <1>3, <1>4 DEF PumpInv, Owned, Begins, Moved, Reused, tx
  <1>13. Releases'
    BY <1>1, <1>3, <1>4, <1>6, <1>7 DEF BaseInv, PumpInv, HoldersSound, Releases, Moved, Reused, NeverPumps, MaySpawn
  <1>14. Reach'
    <2> SUFFICES ASSUME NEW r \in Sessions, sess'[r].pump = "run" \/ (\E q \in Procs : MaySpawn(q, r)'),
                        r \notin stopped'
                 PROVE  Stopping(r)' \/ reg'[sess'[r].tx] = r
      BY DEF Reach
    <2>1. CASE r = s
      BY <1>4, <1>5, <2>1
    <2>2. CASE r # s
      <3>1. sess[r].pump = "run" \/ \E q \in Procs : MaySpawn(q, r)
        BY <1>1, <1>4, <2>2 DEF MaySpawn, Moved
      <3>2. sess[r].tx \in TxIDs /\ sess'[r].tx = sess[r].tx
        BY <1>4, <2>2, <3>1, Pumpers DEF BaseInv
      <3>3. CASE Stopping(r)
        BY <1>1, <3>3 DEF Stopping, At, Moved
      <3>4. CASE reg[sess[r].tx] = r
        BY <1>5, <1>6, <3>2, <3>4, RegistryAssumption
      <3> QED BY <1>6, <3>1, <3>3, <3>4 DEF PumpInv, Reach
    <2> QED BY <2>1, <2>2
  <1>15. Forgotten'
    <2> SUFFICES ASSUME ~peer, g'[Closer].pc # "forget", NEW x \in TxIDs,
                        reg'[x] # None, sess'[reg'[x]].role = "responder"
                 PROVE  \E q \in Procs : g'[q].pc \in {"token", "release"} /\ g'[q].tx = x
      BY DEF PumpInv, Forgotten
    <2>1. CASE x = tx
      BY <1>1, <1>4, <1>5, <2>1 DEF Moved
    <2>2. CASE x # tx
      <3>1. reg[x] # None /\ sess[reg[x]].role = "responder"
        BY <1>4, <1>5, <1>8, <1>9, <2>2
      <3>2. g[Closer].pc # "forget"
        BY <1>1 DEF Moved, Procs
      <3>3. PICK q \in Procs : g[q].pc \in {"token", "release"} /\ g[q].tx = x
        BY <3>1, <3>2 DEF PumpInv, Forgotten
      <3> QED BY <1>1, <3>3 DEF Moved
    <2> QED BY <2>1, <2>2
  <1> QED BY <1>12, <1>13, <1>14, <1>15 DEF PumpInv

\* An idle goroutine takes a txid that is new, or that the peer reuses.
LEMMA BeginStep ==
    ASSUME RegistryTypeOK, BaseInv, NEW p \in Procs, NEW tx \in TxIDs, NEW l,
           g[p].pc = "idle", l \in {"begin", "start"},
           l = "begin" => tx \in RemoteTx, l = "start" => tx \in LocalTx,
           tx \in used => Reused(tx),
           used' = used \cup {tx}, g' = [g EXCEPT ![p] = Local(l, tx, None)],
           UNCHANGED <<ops, peer, reg, sess, stopped>>
    PROVE  BaseInv' /\ (PumpInv => PumpInv')
  <1>1. Moved(p, l, tx, None, "idle", {}) /\ g[p].pc = "idle"
    BY LocalMoves DEF At
  <1>2. SessionsSound'
    BY DEF BaseInv, SessionsSound
  <1>3. HoldersSound'
    BY <1>1 DEF BaseInv, HoldersSound, Begins, MaySpawn, Moved
  <1> SUFFICES ASSUME PumpInv PROVE PumpInv'
    BY <1>2, <1>3 DEF BaseInv
  <1>4. Owned'
    BY <1>1, RegistryAssumption DEF BaseInv, PumpInv, Owned, Begins, Moved, Reused, SessionsSound, HoldersSound, TxIDs
  <1>5. Releases'
    BY <1>1 DEF PumpInv, Releases, Moved, Reused, NeverPumps, MaySpawn
  <1>6. Reach'
    BY <1>1 DEF PumpInv, Reach, Moved, MaySpawn, Stopping, At
  <1>7. Forgotten'
    BY <1>1 DEF PumpInv, Forgotten, Moved, Procs
  <1> QED BY <1>4, <1>5, <1>6, <1>7 DEF PumpInv

LEMMA TokenStep ==
    ASSUME RegistryTypeOK, BaseInv, NEW p \in Procs, BeginToken(p)
    PROVE  BaseInv' /\ (TxIDsOwned /\ PumpInv => PumpInv')
  <1>1. PICK l \in {"spawn", "release"} :
          /\ Moved(p, l, g[p].tx, g[p].s, g[p].then, g[p].todo)
          /\ l = "spawn" => peer
          /\ l = "release" => ~peer \/ "empty" \in ops
    BY GotoMoves DEF BeginToken
  <1>2. g[p].pc = "token" /\ UNCHANGED <<ops, peer, reg, sess, stopped, used>>
    BY DEF BeginToken, At
  <1>4. SessionsSound'
    BY <1>2 DEF BaseInv, SessionsSound
  <1>5. HoldersSound'
    BY <1>1, <1>2 DEF BaseInv, HoldersSound, Begins, MaySpawn, Moved
  <1> SUFFICES ASSUME TxIDsOwned, PumpInv PROVE PumpInv'
    BY <1>4, <1>5 DEF BaseInv
  <1>3. l = "release" => ~Reused(g[p].tx)
    BY <1>1 DEF TxIDsOwned, Reused, PumpInv, Forgotten, RegistryTypeOK
  <1>6. Owned'
    BY <1>1, <1>2 DEF PumpInv, Owned, Begins, Moved, Reused
  <1>7. Releases'
    BY <1>1, <1>2, <1>3 DEF BaseInv, PumpInv, HoldersSound, Releases, Moved, Reused, NeverPumps, MaySpawn
  <1>8. Reach'
    BY <1>1, <1>2 DEF PumpInv, Reach, Moved, MaySpawn, Stopping, At
  <1>9. Forgotten'
    BY <1>1, <1>2 DEF PumpInv, Forgotten, Moved, Procs
  <1> QED BY <1>6, <1>7, <1>8, <1>9 DEF PumpInv

LEMMA SpawnStep ==
    ASSUME RegistryTypeOK, BaseInv, NEW p \in Procs, SpawnPump(p)
    PROVE  BaseInv' /\ (PumpInv => PumpInv')
  <1> DEFINE s == g[p].s
  <1>1. Moved(p, "idle", None, None, "idle", {}) /\ g[p].pc = "spawn"
    BY ReturnMoves DEF SpawnPump, At
  <1>2. s \in Sessions /\ sess[s].role = "responder" /\ MaySpawn(p, s) /\ s # None
    BY <1>1, RegistryAssumption DEF BaseInv, HoldersSound, MaySpawn
  <1>3. /\ sess'[s].tx = sess[s].tx /\ sess'[s].role = sess[s].role /\ sess'[s].pump = "run"
        /\ \A r \in Sessions \ {s} : sess'[r] = sess[r]
    <2>1. sess[s] \in SessionStates
      BY <1>2 DEF RegistryTypeOK
    <2> QED BY <1>2, <2>1 DEF SpawnPump, RegistryTypeOK, SessionStates
  <1>4. UNCHANGED <<ops, peer, reg, stopped, used>>
    BY DEF SpawnPump
  <1>5. \A q \in Procs \ {p} : ~MaySpawn(q, s)
    BY <1>2 DEF BaseInv, HoldersSound
  <1>6. \A x \in TxIDs : reg[x] \in Sessions \cup {None}
    BY DEF RegistryTypeOK
  <1>7. SessionsSound'
    BY <1>2, <1>3, <1>4, <1>6, RegistryAssumption DEF BaseInv, SessionsSound
  <1>8. HoldersSound'
    BY <1>1, <1>3, <1>4, <1>5 DEF BaseInv, HoldersSound, Begins, MaySpawn, Moved
  <1> SUFFICES ASSUME PumpInv PROVE PumpInv'
    BY <1>7, <1>8 DEF BaseInv
  <1>9. Owned'
    BY <1>1, <1>3, <1>4 DEF PumpInv, Owned, Begins, Moved, Reused
  <1>10. Releases'
    BY <1>1, <1>2, <1>3, <1>4 DEF BaseInv, PumpInv, HoldersSound, Releases, Moved, Reused, NeverPumps, MaySpawn
  <1>11. Reach'
    BY <1>1, <1>2, <1>3, <1>4 DEF PumpInv, Reach, Moved, MaySpawn, Stopping, At
  <1>12. Forgotten'
    BY <1>1, <1>3, <1>4, <1>6 DEF PumpInv, Forgotten, Moved, Procs
  <1> QED BY <1>9, <1>10, <1>11, <1>12 DEF PumpInv

LEMMA PumpStep ==
    ASSUME RegistryTypeOK, BaseInv, NEW s \in Sessions, runSyncPump(s)
    PROVE  BaseInv' /\ (PumpInv => PumpInv')
  <1>1. sess[s].pump = "run" /\ UNCHANGED <<ops, peer, reg, stopped, used, g>>
    BY DEF runSyncPump
  <1>2. /\ sess'[s].tx = sess[s].tx /\ sess'[s].role = sess[s].role /\ sess'[s].pump = "over"
        /\ \A r \in Sessions \ {s} : sess'[r] = sess[r]
    <2>1. sess[s] \in SessionStates
      BY DEF RegistryTypeOK
    <2> QED BY <2>1 DEF runSyncPump, RegistryTypeOK, SessionStates
  <1>3. \A x \in TxIDs : reg[x] \in Sessions \cup {None}
    BY DEF RegistryTypeOK
  <1>4. SessionsSound'
    BY <1>1, <1>2, <1>3, RegistryAssumption DEF BaseInv, SessionsSound
  <1>5. HoldersSound'
    BY <1>1, <1>2 DEF BaseInv, HoldersSound, Begins, MaySpawn
  <1> SUFFICES ASSUME PumpInv PROVE PumpInv'
    BY <1>4, <1>5 DEF BaseInv
  <1>6. Owned'
    BY <1>1, <1>2 DEF PumpInv, Owned, Begins, Reused
  <1>7. Releases'
    BY <1>1, <1>2 DEF BaseInv, PumpInv, HoldersSound, Releases, Reused, NeverPumps, MaySpawn
  <1>8. Reach'
    BY <1>1, <1>2 DEF PumpInv, Reach, MaySpawn, Stopping, At
  <1>9. Forgotten'
    BY <1>1, <1>2, <1>3 DEF PumpInv, Forgotten
  <1> QED BY <1>6, <1>7, <1>8, <1>9 DEF PumpInv

\* A handler takes a session to stop, and to release if its txid is not reused.
LEMMA TakeStep ==
    ASSUME RegistryTypeOK, BaseInv, NEW p \in Procs, NEW tx \in TxIDs, NEW s \in Sessions, NEW then,
           At(p, "idle"), sess[s].tx = tx,
           g' = [g EXCEPT ![p] = [Local("stop", tx, s) EXCEPT !.then = then]],
           UNCHANGED <<ops, peer, reg, sess, stopped, used>>
    PROVE  BaseInv' /\ ((then = "release" => ~Reused(tx)) /\ PumpInv => PumpInv')
  <1>1. Moved(p, "stop", tx, s, then, {}) /\ g[p].pc = "idle"
    BY ThenMoves DEF At
  <1>2. SessionsSound'
    BY DEF BaseInv, SessionsSound
  <1>3. HoldersSound'
    BY <1>1 DEF BaseInv, HoldersSound, Begins, MaySpawn, Moved
  <1> SUFFICES ASSUME then = "release" => ~Reused(tx), PumpInv PROVE PumpInv'
    BY <1>2, <1>3 DEF BaseInv
  <1>4. Owned'
    BY <1>1 DEF PumpInv, Owned, Begins, Moved, Reused
  <1>5. Releases'
    BY <1>1 DEF PumpInv, Releases, Moved, Reused, NeverPumps, MaySpawn
  <1>6. Reach'
    BY <1>1 DEF PumpInv, Reach, Moved, MaySpawn, Stopping, At
  <1>7. Forgotten'
    BY <1>1 DEF PumpInv, Forgotten, Moved, Procs
  <1> QED BY <1>4, <1>5, <1>6, <1>7 DEF PumpInv

LEMMA LookupStep ==
    ASSUME RegistryTypeOK, BaseInv, NEW p \in Procs, NEW tx \in TxIDs,
           NEW then \in {"idle", "release"}, lookupSyncSession(p, tx, then)
    PROVE  BaseInv' /\ (TxIDsOwned /\ PumpInv => PumpInv')
  <1>1. reg[tx] \in Sessions /\ sess[reg[tx]].tx = tx
    BY DEF lookupSyncSession, RegistryTypeOK, BaseInv, SessionsSound
  <1>2. TxIDsOwned /\ then = "release" => ~Reused(tx)
    BY DEF lookupSyncSession, TxIDsOwned, Reused, RegistryTypeOK
  <1> QED BY <1>1, <1>2, TakeStep DEF lookupSyncSession

LEMMA CloseStep ==
    ASSUME RegistryTypeOK, BaseInv, NEW p \in Procs, NEW s \in Sessions, CloseSync(p, s)
    PROVE  BaseInv' /\ (TxIDsOwned /\ PumpInv => PumpInv')
  <1>1. sess[s].tx \in LocalTx /\ sess[s].tx \in TxIDs
    BY DEF CloseSync, BaseInv, SessionsSound, TxIDs
  <1>2. TxIDsOwned => ~Reused(sess[s].tx)
    BY <1>1 DEF TxIDsOwned, Reused, RegistryTypeOK
  <1> QED BY <1>1, <1>2, TakeStep DEF CloseSync

LEMMA StopStep ==
    ASSUME RegistryTypeOK, BaseInv, NEW p \in Procs, StopPump(p)
    PROVE  BaseInv' /\ (PumpInv => PumpInv')
  <1>1. g[p].pc = "stop" /\ g[p].s \in Sessions /\ UNCHANGED <<ops, peer, reg, sess, used>>
    BY DEF StopPump, At, BaseInv, HoldersSound
  <1>2. /\ g'[p].pc \in {"idle", "release"} /\ \A q \in Procs \ {p} : g'[q] = g[q]
        /\ g'[p].pc = "release" => g[p].then = "release" /\ g'[p].tx = g[p].tx /\ g'[p].s = g[p].s
    BY GotoMoves, ReturnMoves DEF StopPump, Moved
  <1>3. stopped' = stopped \cup {g[p].s}
    BY DEF StopPump
  <1>4. SessionsSound'
    BY <1>1 DEF BaseInv, SessionsSound
  <1>5. HoldersSound'
    BY <1>1, <1>2 DEF BaseInv, HoldersSound, Begins, MaySpawn
  <1> SUFFICES ASSUME PumpInv PROVE PumpInv'
    BY <1>4, <1>5 DEF BaseInv
  <1>6. Owned'
    BY <1>1, <1>2 DEF PumpInv, Owned, Begins, Reused
  <1>7. Releases'
    BY <1>1, <1>2, <1>3 DEF BaseInv, PumpInv, HoldersSound, Releases, Reused, NeverPumps, MaySpawn
  <1>8. Reach'
    BY <1>1, <1>2, <1>3 DEF PumpInv, Reach, MaySpawn, Stopping, At
  <1>9. Forgotten'
    BY <1>1, <1>2 DEF PumpInv, Forgotten, Procs
  <1> QED BY <1>6, <1>7, <1>8, <1>9 DEF PumpInv

LEMMA StopNextStep ==
    ASSUME RegistryTypeOK, BaseInv, NEW p \in Procs, StopNext(p)
    PROVE  BaseInv' /\ (PumpInv => PumpInv')
  <1>1. g[p].pc = "stopAll" /\ UNCHANGED <<ops, peer, reg, sess, used>>
    BY DEF StopNext, At
  <1>2. /\ g'[p].pc \in {"idle", "stopAll"} /\ stopped \subseteq stopped'
        /\ \A q \in Procs \ {p} : g'[q] = g[q]
        /\ \A s \in g[p].todo : s \in stopped' \/ (g'[p].pc = "stopAll" /\ s \in g'[p].todo)
    <2>1. CASE g[p].todo = {}
      BY <2>1, ReturnMoves DEF StopNext, Moved
    <2>2. CASE g[p].todo # {}
      <3>1. PICK s \in g[p].todo : stopped' = stopped \cup {s} /\ g' = [g EXCEPT ![p].todo = @ \ {s}]
        BY <2>2 DEF StopNext
      <3>2. g'[p].pc = g[p].pc /\ g'[p].todo = g[p].todo \ {s} /\ \A q \in Procs \ {p} : g'[q] = g[q]
        BY <3>1 DEF RegistryTypeOK, GoroutineRecs
      <3> QED BY <1>1, <3>1, <3>2
    <2> QED BY <2>1, <2>2
  <1>3. SessionsSound'
    BY <1>1 DEF BaseInv, SessionsSound
  <1>4. HoldersSound'
    BY <1>1, <1>2 DEF BaseInv, HoldersSound, Begins, MaySpawn
  <1> SUFFICES ASSUME PumpInv PROVE PumpInv'
    BY <1>3, <1>4 DEF BaseInv
  <1>5. Owned'
    BY <1>1, <1>2 DEF PumpInv, Owned, Begins, Reused
  <1>6. Releases'
    BY <1>1, <1>2 DEF BaseInv, PumpInv, HoldersSound, Releases, Reused, NeverPumps, MaySpawn
  <1>7. Reach'
    BY <1>1, <1>2 DEF PumpInv, Reach, MaySpawn, Stopping, At
  <1>8. Forgotten'
    BY <1>1, <1>2 DEF PumpInv, Forgotten, Procs
  <1> QED BY <1>5, <1>6, <1>7, <1>8 DEF PumpInv

LEMMA SendStep ==
    ASSUME RegistryTypeOK, BaseInv, NEW p \in Procs, StartSend(p)
    PROVE  BaseInv' /\ (TxIDsOwned /\ PumpInv => PumpInv')
  <1>1. g[p].pc = "send" /\ UNCHANGED <<ops, peer, reg, sess, stopped, used>>
    BY DEF StartSend, At
  <1>2. /\ g'[p].pc \in {"idle", "release"} /\ \A q \in Procs \ {p} : g'[q] = g[q]
        /\ g'[p].pc = "release" => g'[p].tx = g[p].tx /\ g'[p].s = g[p].s
    BY GotoMoves, ReturnMoves DEF StartSend, Moved
  <1>3. /\ g[p].s \in Sessions /\ sess[g[p].s].role = "initiator" /\ sess[g[p].s].tx = g[p].tx
        /\ g[p].tx \in LocalTx
    BY <1>1 DEF BaseInv, HoldersSound, SessionsSound
  <1>5. sess[g[p].s].pump = "none" /\ \A q \in Procs : ~MaySpawn(q, g[p].s)
    BY <1>3 DEF BaseInv, HoldersSound, SessionsSound, MaySpawn
  <1>6. SessionsSound'
    BY <1>1 DEF BaseInv, SessionsSound
  <1>7. HoldersSound'
    BY <1>1, <1>2 DEF BaseInv, HoldersSound, Begins, MaySpawn
  <1> SUFFICES ASSUME TxIDsOwned, PumpInv PROVE PumpInv'
    BY <1>6, <1>7 DEF BaseInv
  <1>4. ~Reused(g[p].tx)
    BY <1>3 DEF TxIDsOwned, Reused, RegistryTypeOK
  <1>8. Owned'
    BY <1>1, <1>2 DEF PumpInv, Owned, Begins, Reused
  <1>9. Releases'
    BY <1>1, <1>2, <1>4, <1>5 DEF BaseInv, PumpInv, HoldersSound, Releases, Reused, NeverPumps, MaySpawn
  <1>10. Reach'
    BY <1>1, <1>2 DEF PumpInv, Reach, MaySpawn, Stopping, At
  <1>11. Forgotten'
    BY <1>1, <1>2 DEF PumpInv, Forgotten, Procs
  <1> QED BY <1>8, <1>9, <1>10, <1>11 DEF PumpInv

\* Sessions leave the registry for the list of sessions their remover stops.
LEMMA RemoveStep ==
    ASSUME RegistryTypeOK, BaseInv, NEW p \in Procs, g[p].pc \in {"idle", "forget"},
           NEW stale \in SUBSET TxIDs, NEW todo,
           \A tx \in stale : reg[tx] # None => reg[tx] \in todo,
           reg' = [tx \in TxIDs |-> IF tx \in stale THEN None ELSE reg[tx]],
           g' = [g EXCEPT ![p] = [Local("stopAll", None, None) EXCEPT !.todo = todo]],
           p = Closer => stale = TxIDs,
           UNCHANGED <<ops, peer, sess, stopped, used>>
    PROVE  BaseInv' /\ (PumpInv => PumpInv')
  <1>1. Moved(p, "stopAll", None, None, "idle", todo)
    BY TodoMoves
  <1>2. \A tx \in TxIDs : reg'[tx] = IF tx \in stale THEN None ELSE reg[tx]
    OBVIOUS
  <1>3. SessionsSound'
    BY <1>2 DEF BaseInv, SessionsSound
  <1>4. HoldersSound'
    BY <1>1 DEF BaseInv, HoldersSound, Begins, MaySpawn, Moved
  <1> SUFFICES ASSUME PumpInv PROVE PumpInv'
    BY <1>3, <1>4 DEF BaseInv
  <1>5. Owned'
    BY <1>1 DEF PumpInv, Owned, Begins, Reused, Moved
  <1>6. Releases'
    BY <1>1 DEF BaseInv, PumpInv, HoldersSound, Releases, Reused, NeverPumps, MaySpawn, Moved
  <1>7. Reach'
    <2> SUFFICES ASSUME NEW s \in Sessions, sess[s].pump = "run" \/ (\E q \in Procs : MaySpawn(q, s)'),
                        s \notin stopped
                 PROVE  Stopping(s)' \/ reg'[sess[s].tx] = s
      BY DEF Reach
    <2>1. sess[s].pump = "run" \/ \E q \in Procs : MaySpawn(q, s)
      BY <1>1 DEF MaySpawn, Moved
    <2>2. CASE Stopping(s)
      BY <1>1, <2>2 DEF Stopping, At, Moved
    <2>3. CASE reg[sess[s].tx] = s
      <3>1. sess[s].tx \in TxIDs /\ s # None
        BY <2>1, Pumpers, RegistryAssumption DEF BaseInv
      <3>2. CASE sess[s].tx \in stale
        BY <1>1, <2>3, <3>1, <3>2 DEF Stopping, At, Moved
      <3> QED BY <1>2, <2>3, <3>1, <3>2
    <2> QED BY <2>1, <2>2, <2>3 DEF PumpInv, Reach
  <1>8. Forgotten'
    BY <1>1, <1>2 DEF PumpInv, Forgotten, Procs, Moved
  <1> QED BY <1>5, <1>6, <1>7, <1>8 DEF PumpInv

LEMMA ConnectionStep ==
    ASSUME RegistryTypeOK, BaseInv, OnPeerClosed \/ PeerConnAdded
    PROVE  BaseInv' /\ (PumpInv => PumpInv')
  <1>1. CASE PeerConnAdded
    <2>1. BaseInv' /\ (PumpInv => Owned' /\ Releases' /\ Reach')
      BY <1>1 DEF PeerConnAdded, BaseInv, PumpInv, SessionsSound, HoldersSound, Owned, Releases, Reach, Begins,
                  MaySpawn, Reused, NeverPumps, Stopping, At
    <2>2. Forgotten'
      BY <1>1 DEF PeerConnAdded, Forgotten
    <2> QED BY <2>1, <2>2 DEF BaseInv, PumpInv
  <1>2. CASE OnPeerClosed
    <2>1. Moved(Closer, "forget", g[Closer].tx, g[Closer].s, g[Closer].then, g[Closer].todo)
      BY <1>2, GotoMoves DEF OnPeerClosed, Procs
    <2>2. /\ Closer \in Procs /\ g[Closer].pc = "idle" /\ "close" \in ops
          /\ UNCHANGED <<ops, reg, sess, stopped, used>>
      BY <1>2 DEF OnPeerClosed, At, Procs
    <2>3. SessionsSound'
      BY <2>2 DEF BaseInv, SessionsSound
    <2>4. HoldersSound'
      BY <2>1, <2>2 DEF BaseInv, HoldersSound, Begins, MaySpawn, Moved
    <2> SUFFICES ASSUME PumpInv PROVE PumpInv'
      BY <2>3, <2>4 DEF BaseInv
    <2>5. Owned'
      BY <2>1, <2>2 DEF PumpInv, Owned, Begins, Reused, Moved
    <2>6. Releases'
      BY <2>1, <2>2 DEF BaseInv, PumpInv, HoldersSound, Releases, Reused, NeverPumps, MaySpawn, Moved
    <2>7. Reach'
      BY <2>1, <2>2 DEF PumpInv, Reach, MaySpawn, Stopping, At, Moved
    <2>8. Forgotten'
      BY <2>1, <2>2 DEF Forgotten, Moved
    <2> QED BY <2>5, <2>6, <2>7, <2>8 DEF PumpInv
  <1> QED BY <1>1, <1>2

LEMMA RegistryStep == RegistryTypeOK /\ BaseInv /\ [RegistryNext]_registryVars => BaseInv' /\ (TxIDsOwned /\ PumpInv => PumpInv')
  <1> SUFFICES ASSUME RegistryTypeOK, BaseInv, [RegistryNext]_registryVars
               PROVE  BaseInv' /\ (TxIDsOwned /\ PumpInv => PumpInv')
    OBVIOUS
  <1> DEFINE Goal == BaseInv' /\ (TxIDsOwned /\ PumpInv => PumpInv')
  <1>1. ASSUME NEW p \in Procs, Step(p) PROVE Goal
    <2>1. CASE BeginRegister(p)
      <3>1. CASE Return(p) /\ UNCHANGED <<reg, sess, stopped>>
        <4>1. Moved(p, "idle", None, None, "idle", {}) /\ g[p].pc = "begin"
          BY <2>1, <3>1, ReturnMoves DEF BeginRegister, At
        <4>2. UNCHANGED <<ops, peer, reg, sess, stopped, used>>
          BY <2>1, <3>1 DEF BeginRegister
        <4>3. BaseInv'
          BY <4>1, <4>2 DEF BaseInv, SessionsSound, HoldersSound, Begins, MaySpawn, Moved
        <4>4. PumpInv => Owned' /\ Releases' /\ Reach'
          BY <4>1, <4>2 DEF PumpInv, Owned, Releases, Reach, Begins, MaySpawn, Moved, Reused, NeverPumps,
                            Stopping, At
        <4>5. PumpInv => Forgotten'
          BY <4>1, <4>2 DEF PumpInv, Forgotten, Moved, Procs
        <4> QED BY <4>3, <4>4, <4>5 DEF PumpInv
      <3>2. CASE \E s \in Unborn : /\ registerSyncSession(s, g[p].tx, "responder")
                                   /\ g' = [g EXCEPT ![p] = Local("token", g[p].tx, s)]
        BY <2>1, <3>2, RegisterStep DEF BeginRegister, At
      <3> QED BY <2>1, <3>1, <3>2 DEF BeginRegister
    <2>2. CASE StartRegister(p)
      BY <2>2, RegisterStep DEF StartRegister, At
    <2> QED BY <1>1, <2>1, <2>2, TokenStep, SpawnStep, ReleaseStep, StopStep, StopNextStep, SendStep DEF Step
  <1>2. ASSUME NEW p \in Procs, Frame(p) PROVE Goal
    <2>1. ASSUME NEW tx \in TxIDs, onSyncBegin(p, tx) PROVE Goal
      <3>1. tx \in RemoteTx /\ (tx \in used => Reused(tx)) /\ g[p].pc = "idle"
        BY <2>1 DEF onSyncBegin, Reused, At
      <3>2. /\ used' = used \cup {tx} /\ g' = [g EXCEPT ![p] = Local("begin", tx, None)]
            /\ UNCHANGED <<ops, peer, reg, sess, stopped>>
        BY <2>1 DEF onSyncBegin
      <3>3. BaseInv' /\ (PumpInv => PumpInv')
        BY <3>1, <3>2, BeginStep
      <3> QED BY <3>3
    <2>2. ASSUME NEW tx \in TxIDs, StartSync(p, tx) PROVE Goal
      BY <2>2, BeginStep DEF StartSync, At
    <2>3. CASE reapStaleSyncSessions(p)
      <3>1. PICK stale \in (SUBSET {tx \in TxIDs : reg[tx] # None}) \ {{}} :
              /\ reg' = [tx \in TxIDs |-> IF tx \in stale THEN None ELSE reg[tx]]
              /\ g' = [g EXCEPT ![p] = [Local("stopAll", None, None) EXCEPT !.todo = {reg[tx] : tx \in stale}]]
        BY <2>3 DEF reapStaleSyncSessions
      <3>2. stale \in SUBSET TxIDs /\ \A tx \in stale : reg[tx] \in {reg[x] : x \in stale}
        OBVIOUS
      <3>3. g[p].pc = "idle" /\ p # Closer /\ UNCHANGED <<ops, peer, sess, stopped, used>>
        BY <2>3 DEF reapStaleSyncSessions, At
      <3> QED BY <3>1, <3>2, <3>3, RemoveStep
    <2> QED BY <1>2, <2>1, <2>2, <2>3, LookupStep, CloseStep DEF Frame
  <1>3. CASE releaseAllSyncSessions
    <2> DEFINE todo == {reg[tx] : tx \in TxIDs} \ {None}
    <2>1. \A tx \in TxIDs : reg[tx] # None => reg[tx] \in todo
      OBVIOUS
    <2>2. reg' = [tx \in TxIDs |-> IF tx \in TxIDs THEN None ELSE reg[tx]]
      BY <1>3 DEF releaseAllSyncSessions
    <2>3. /\ Closer \in Procs /\ g[Closer].pc = "forget"
          /\ g' = [g EXCEPT ![Closer] = [Local("stopAll", None, None) EXCEPT !.todo = todo]]
          /\ UNCHANGED <<ops, peer, sess, stopped, used>>
      BY <1>3 DEF releaseAllSyncSessions, At, Procs
    <2> HIDE DEF todo
    <2> QED BY <2>1, <2>2, <2>3, RemoveStep
  <1>4. CASE UNCHANGED registryVars
    <2>1. BaseInv'
      BY <1>4 DEF registryVars, BaseInv, SessionsSound, HoldersSound, Begins, MaySpawn
    <2>2. PumpInv => PumpInv'
      BY <1>4 DEF registryVars, PumpInv, Owned, Releases, Reach, Forgotten, Begins, MaySpawn, Reused, NeverPumps,
                  Stopping, At
    <2> QED BY <2>1, <2>2
  <1> QED BY <1>1, <1>2, <1>3, <1>4, PumpStep, ConnectionStep DEF RegistryNext

-----------------------------------------------------------------------------
(* The cap. *)

RespondingTx == {tx \in TxIDs : reg[tx] # None /\ sess[reg[tx]].role = "responder"}

LEMMA FiniteTxIDs == IsFiniteSet(TxIDs) /\ IsFiniteSet(RespondingTx) /\ Cardinality(RespondingTx) \in Nat
  <1>1. IsFiniteSet(TxIDs)
    BY RegistryAssumption, FS_Union DEF TxIDs
  <1> QED BY <1>1, FS_Subset, FS_CardinalityType DEF RespondingTx

\* Only a registration can add a responder session; what registers one counts them first.
LEMMA CapStep ==
    ASSUME RegistryTypeOK, BaseInv, BaseInv', CapHolds, [RegistryNext]_registryVars
    PROVE  CapHolds'
  <1>1. ASSUME NEW p \in Procs, BeginRegister(p), UnderCap(g[p].tx) PROVE CapHolds'
    <2> DEFINE tx == g[p].tx
               Others == {x \in TxIDs \ {tx} : reg[x] # None}
    <2>1. tx \in TxIDs
      BY <1>1 DEF BeginRegister, At, BaseInv, HoldersSound, TxIDs
    <2>2. PICK s \in Unborn : registerSyncSession(s, tx, "responder")
      BY <1>1 DEF BeginRegister
    <2>3. \A x \in TxIDs \ {tx} : reg'[x] = reg[x]
      BY <2>1, <2>2 DEF registerSyncSession, RegistryTypeOK
    <2>4. RespondingTx' \subseteq Others \cup {tx}
      BY <2>3 DEF RespondingTx
    <2>5. IsFiniteSet(Others) /\ tx \notin Others /\ Cardinality(Others) \in Nat
      BY FiniteTxIDs, FS_Subset, FS_CardinalityType
    <2>6. IsFiniteSet(Others \cup {tx}) /\ Cardinality(Others \cup {tx}) = Cardinality(Others) + 1
      BY <2>5, FS_AddElement
    <2>7. Cardinality(RespondingTx') <= Cardinality(Others) + 1 /\ Cardinality(RespondingTx') \in Nat
      BY <2>4, <2>6, FS_Subset, FS_CardinalityType
    <2>8. Cardinality(Others) < Cap /\ Cap \in Nat
      BY <1>1, RegistryAssumption DEF UnderCap
    <2> QED BY <2>5, <2>7, <2>8 DEF CapHolds, RespondingTx
  <1>2. ASSUME \A x \in TxIDs : reg'[x] # None /\ sess'[reg'[x]].role = "responder" =>
                                  reg[x] # None /\ sess[reg[x]].role = "responder"
        PROVE  CapHolds'
    <2>1. RespondingTx' \subseteq RespondingTx
      BY <1>2 DEF RespondingTx
    <2>2. Cardinality(RespondingTx') <= Cardinality(RespondingTx) /\ Cardinality(RespondingTx') \in Nat
      BY <2>1, FiniteTxIDs, FS_Subset, FS_CardinalityType
    <2> QED BY <2>2, FiniteTxIDs, RegistryAssumption DEF CapHolds, RespondingTx
  <1>3. ASSUME \A x \in TxIDs : reg'[x] = None \/ reg'[x] = reg[x],
               \A s \in Sessions : sess'[s].role = sess[s].role
        PROVE  CapHolds'
    BY <1>2, <1>3 DEF RegistryTypeOK
  <1>4. ASSUME NEW p \in Procs, StartRegister(p) PROVE CapHolds'
    <2> DEFINE tx == g[p].tx
    <2>1. tx \in TxIDs
      BY <1>4 DEF StartRegister, At, BaseInv, HoldersSound, TxIDs
    <2>2. PICK s \in Unborn : registerSyncSession(s, tx, "initiator")
      BY <1>4 DEF StartRegister
    <2>3. s \in Sessions /\ \A x \in TxIDs : reg[x] # s
      BY RegistryAssumption DEF Unborn, BaseInv, SessionsSound, TxIDs
    <2>4. sess'[s].role = "initiator" /\ \A r \in Sessions \ {s} : sess'[r] = sess[r]
      <3>1. sess[s] \in SessionStates
        BY <2>3 DEF RegistryTypeOK
      <3> QED BY <2>2, <2>3, <3>1 DEF registerSyncSession, RegistryTypeOK, SessionStates
    <2>5. reg'[tx] = s /\ \A x \in TxIDs \ {tx} : reg'[x] = reg[x]
      BY <2>1, <2>2 DEF registerSyncSession, RegistryTypeOK
    <2> QED BY <1>2, <2>3, <2>4, <2>5 DEF RegistryTypeOK
  <1>5. ASSUME NEW p \in Procs, Step(p) PROVE CapHolds'
    <2>1. CASE BeginRegister(p)
      BY <1>1, <1>3, <2>1 DEF BeginRegister
    <2>2. CASE SpawnPump(p)
      <3>1. \A s \in Sessions : sess'[s].role = sess[s].role
        BY <2>2 DEF SpawnPump, RegistryTypeOK, SessionStates
      <3> QED BY <1>3, <2>2, <3>1 DEF SpawnPump
    <2>3. CASE releaseSyncSession(p)
      BY <1>3, <2>3 DEF releaseSyncSession, RegistryTypeOK
    <2>4. CASE UNCHANGED <<reg, sess>>
      BY <1>3, <2>4
    <2> QED BY <1>4, <1>5, <2>1, <2>2, <2>3, <2>4 DEF Step, BeginToken, StopPump, StopNext, StartSend
  <1>6. ASSUME NEW p \in Procs, Frame(p) PROVE CapHolds'
    <2>1. CASE reapStaleSyncSessions(p)
      BY <1>3, <2>1 DEF reapStaleSyncSessions
    <2>2. CASE UNCHANGED <<reg, sess>>
      BY <1>3, <2>2
    <2> QED BY <1>6, <2>1, <2>2 DEF Frame, onSyncBegin, StartSync, lookupSyncSession, CloseSync
  <1>7. ASSUME NEW s \in Sessions, runSyncPump(s) PROVE CapHolds'
    <2>1. \A r \in Sessions : sess'[r].role = sess[r].role
      BY <1>7 DEF runSyncPump, RegistryTypeOK, SessionStates
    <2> QED BY <1>3, <1>7, <2>1 DEF runSyncPump
  <1>8. CASE releaseAllSyncSessions
    BY <1>3, <1>8 DEF releaseAllSyncSessions
  <1>9. CASE UNCHANGED <<reg, sess>>
    BY <1>3, <1>9
  <1> QED BY <1>5, <1>6, <1>7, <1>8, <1>9 DEF RegistryNext, registryVars, OnPeerClosed, PeerConnAdded

-----------------------------------------------------------------------------
(* The theorems. *)

LEMMA InitCap == RegistryInit => CapHolds
  <1> SUFFICES ASSUME RegistryInit PROVE CapHolds
    OBVIOUS
  <1>1. RespondingTx = {}
    BY DEF RegistryInit, RespondingTx
  <1>2. Cardinality(RespondingTx) = 0
    BY <1>1, FS_EmptySet
  <1> QED BY <1>2, RegistryAssumption DEF CapHolds, RespondingTx

LEMMA BaseInvariant == RegistrySpec => [](RegistryTypeOK /\ BaseInv)
  <1>1. RegistryInit => RegistryTypeOK /\ BaseInv
    BY InitType, InitPump
  <1>2. RegistryTypeOK /\ BaseInv /\ [RegistryNext]_registryVars => (RegistryTypeOK /\ BaseInv)'
    BY TypeStep, RegistryStep DEF BaseInv
  <1> QED BY <1>1, <1>2, PTL DEF RegistrySpec

\* Whatever the peer sends, in whatever order its frames are handled, its responder sessions
\* never exceed MaxSyncSessionsPerPeer (registerSyncSessionIfUnderCap counts under p.syncMu).
THEOREM CapAlways == RegistrySpec => []CapHolds
  <1>1. RegistryTypeOK /\ BaseInv /\ (RegistryTypeOK /\ BaseInv)' /\ CapHolds /\ [RegistryNext]_registryVars => CapHolds'
    BY CapStep
  <1> QED BY <1>1, InitCap, BaseInvariant, PTL DEF RegistrySpec

LEMMA PumpInvariant == ASSUME TxIDsOwned PROVE RegistrySpec => []PumpInv
  <1>1. RegistryInit => PumpInv
    BY InitPump
  <1>2. RegistryTypeOK /\ BaseInv /\ PumpInv /\ [RegistryNext]_registryVars => PumpInv'
    BY RegistryStep
  <1> QED BY <1>1, <1>2, BaseInvariant, PTL DEF RegistrySpec

\* For a peer that does not reuse a txid it has released or abandoned (TxIDsOwned): whatever
\* frames, reaps and local syncs race, a pump that runs unstopped is found in the registry under
\* its txid or is being stopped, and the peer stays within its cap.
THEOREM PumpsAlwaysAccounted == ASSUME TxIDsOwned PROVE RegistrySpec => []PumpsAccounted
  <1>1. RegistryTypeOK /\ PumpInv /\ CapHolds => PumpsAccounted
    BY DEF PumpInv, Reach, PumpsAccounted, PumpReachable, Pumping
  <1> QED BY <1>1, BaseInvariant, PumpInvariant, CapAlways, PTL

\* For such a peer: once OnPeerClosed and the handlers its frames left in flight have finished,
\* no pump runs for it and no responder session of it is registered.
THEOREM PeerForgotten == ASSUME TxIDsOwned PROVE RegistrySpec => []ClosedPeerForgotten
  <1>1. RegistryTypeOK /\ BaseInv /\ PumpInv => ClosedPeerForgotten
    <2> SUFFICES ASSUME RegistryTypeOK, BaseInv, PumpInv, Quiescent, ~peer
                 PROVE  /\ \A s \in Sessions : ~Pumping(s)
                        /\ \A tx \in TxIDs : reg[tx] # None => sess[reg[tx]].role = "initiator"
      BY DEF ClosedPeerForgotten
    <2>1. \A p \in Procs : g[p].pc = "idle"
      BY DEF Quiescent, At
    <2>2. \A tx \in TxIDs : reg[tx] # None => sess[reg[tx]].role # "responder"
      BY <2>1 DEF PumpInv, Forgotten, Procs
    <2>3. \A tx \in TxIDs : reg[tx] # None => sess[reg[tx]].role = "initiator"
      <3> SUFFICES ASSUME NEW tx \in TxIDs, reg[tx] # None PROVE sess[reg[tx]].role = "initiator"
        OBVIOUS
      <3>1. reg[tx] \in Sessions /\ sess[reg[tx]].role \in {"initiator", "responder", None}
        BY DEF RegistryTypeOK, SessionStates
      <3>2. sess[reg[tx]].role # None
        BY <3>1, RegistryAssumption DEF BaseInv, SessionsSound, TxIDs
      <3> QED BY <2>2, <3>1, <3>2
    <2>4. ASSUME NEW s \in Sessions, Pumping(s) PROVE FALSE
      <3>1. sess[s].tx \in TxIDs /\ sess[s].role = "responder" /\ s # None
        BY <2>4, Pumpers, RegistryAssumption DEF Pumping, BaseInv
      <3>2. ~Stopping(s)
        BY <2>1 DEF Stopping, At
      <3>3. reg[sess[s].tx] = s
        BY <2>4, <3>2 DEF Pumping, PumpInv, Reach
      <3> QED BY <2>2, <3>1, <3>3
    <2> QED BY <2>3, <2>4
  <1> QED BY <1>1, BaseInvariant, PumpInvariant, PTL

(***************************************************************************)
(* Set reconciliation between two honest peers, for all record sets,       *)
(* budgets, floors, chunk sizes and numbers of workers and batches, over a *)
(* connection that reorders, and may lose and repeat, frames: the decoder  *)
(* is fed in order, one sync_need is sent, nobody is charged, and a        *)
(* session that ran to its end without a loss leaves both with the union.  *)
(*                                                                         *)
(* Over the types (Typed) the inductive invariant says what the initiator  *)
(* knows when it decides (Decided), in which phase each side must be when  *)
(* a frame of the other is in flight (InPhase), and where every record of  *)
(* the difference is once it has been asked for or pushed (Flow).          *)
(***************************************************************************)

-----------------------------------------------------------------------------
(* The invariant. *)

\* The i-th batch of the responder's stream, and the frames there are.
Sym(i) == Symbols(i, i + 1 >= MaxBatches)
Streamed == {Sym(i) : i \in 0 .. (MaxBatches - 1)}
FrameOK(m) ==
    \/ m \in {Begin, End(I), End(R)} \cup Streamed
    \/ \E s \in SUBSET ROnly : m = Need(s)
    \/ \E s \in SUBSET only[R] : m = RecordsTo(I, s)
    \/ \E s \in SUBSET only[I] : m = RecordsTo(R, s)

Setup ==
    /\ play \in Plays /\ full \in 1 .. (MaxBatches + 1)
    /\ only[I] \subseteq IOnly /\ only[R] \subseteq ROnly
Initiators ==
    [reg : BOOLEAN, phase : Phases, symbolsIn : 0 .. MaxBatches, pending : SUBSET {Sym(i) : i \in 1 .. (MaxBatches - 1)},
     done : BOOLEAN, fired : BOOLEAN, bytesIn : 0 .. ByteBudget, checks : 0 .. Workers,
     conv : {"none", "need", "push", "over"}, needs : 0 .. 1]
Responders ==
    [reg : BOOLEAN, phase : Phases, symbolsOut : 0 .. MaxBatches, stopped : BOOLEAN,
     pump : {"none", "check", "produce", "over"}, bytesIn : 0 .. ByteBudget]
Typed ==
    /\ Setup
    /\ ini \in Initiators /\ rsp \in Responders
    /\ rsp.pump \in {"check", "produce"} \/ rsp.phase = "idle" => rsp.symbolsOut < MaxBatches
    /\ DOMAIN got = {I, R} /\ got[I] \subseteq only[R] /\ got[R] \subseteq only[I]
    /\ lost \in BOOLEAN /\ charged \subseteq {I, R}
    /\ \A m \in net : FrameOK(m)

\* The initiator decides once, on a prefix that holds the difference if any does.
Decided ==
    /\ ini.fired <=> ini.conv # "none"
    /\ ini.needs = IF ini.conv \in {"push", "over"} THEN 1 ELSE 0
    /\ ini.done => ini.symbolsIn = MaxBatches
    /\ ini.fired => ini.symbolsIn > 0 /\ (full <= MaxBatches => ini.symbolsIn >= full)

\* No frame is in flight to a side that is not ready for it.
AskedFrame(m) == m.type = "need" \/ (m.type = "records" /\ m.to = I)
StreamFrame(m) == m.type = "symbols" \/ (m.type = "records" /\ m.to = R)
InPhase ==
    /\ ini.conv \in {"push", "over"} \/ (\E m \in net : AskedFrame(m)) => ini.phase \notin {"idle", "begun"}
    /\ ini.symbolsIn > 0 \/ (\E m \in net : StreamFrame(m)) => rsp.phase \notin {"idle", "begun"}

\* A record that was asked for or pushed is in flight or has arrived.
Whole == ~lost /\ ini.reg /\ rsp.reg /\ full <= MaxBatches
InFlight(x, r) == \E m \in net : m.type = "records" /\ m.to = x /\ r \in m.recs
Flow ==
    Whole => /\ ini.conv \in {"push", "over"} =>
                    Need(only[R]) \in net \/ \A r \in only[R] : r \in got[I] \/ InFlight(I, r)
             /\ ini.conv = "over" => \A r \in only[I] : r \in got[R] \/ InFlight(R, r)

SessionInv == Typed /\ InOrder /\ Decided /\ InPhase /\ HonestUncharged /\ Flow

-----------------------------------------------------------------------------
(* Plays and frames. *)

LEMMA PlayFacts ==
    ASSUME play \in Plays
    PROVE  /\ MaxBatches \in Nat \ {0} /\ Floor \in Nat \ {0} /\ ByteBudget \in Nat \ {0} /\ Workers \in Nat \ {0}
           /\ IsFiniteSet(IOnly) /\ IsFiniteSet(ROnly) /\ IOnly \subseteq Nat /\ ROnly \subseteq Nat
  BY ExchangeAssumption DEF MaxBatches, Floor, ByteBudget, Workers, IOnly, ROnly

LEMMA FrameKinds ==
    ASSUME NEW m, FrameOK(m), MaxBatches \in Nat
    PROVE  /\ m.type = "symbols" => m.index \in 0 .. (MaxBatches - 1) /\ m = Sym(m.index)
           /\ m.type = "need" => m.ids \subseteq ROnly /\ m = Need(m.ids)
           /\ m.type = "records" => m.to \in {I, R}
           /\ m.type = "records" /\ m.to = I => m.recs \subseteq only[R] /\ m = RecordsTo(I, m.recs)
           /\ m.type = "records" /\ m.to = R => m.recs \subseteq only[I] /\ m = RecordsTo(R, m.recs)
  <1> USE DEF I, R
  <1>1. CASE m \in {Begin, End(I), End(R)}
    BY <1>1 DEF Begin, End
  <1>2. CASE m \in Streamed
    BY <1>2 DEF Streamed, Sym, Symbols
  <1>3. CASE \E s \in SUBSET ROnly : m = Need(s)
    BY <1>3 DEF Need
  <1>4. CASE \E s \in SUBSET only[R] : m = RecordsTo(I, s)
    BY <1>4 DEF RecordsTo
  <1>5. CASE \E s \in SUBSET only[I] : m = RecordsTo(R, s)
    BY <1>5 DEF RecordsTo
  <1> QED BY <1>1, <1>2, <1>3, <1>4, <1>5 DEF FrameOK

LEMMA FrameTypes ==
    /\ Begin.type = "begin" /\ \A x : End(x).type = "end"
    /\ \A i, d : Symbols(i, d).type = "symbols" /\ Symbols(i, d).index = i /\ Symbols(i, d).done = d
    /\ \A s : Need(s).type = "need" /\ Need(s).ids = s
    /\ \A x, s : RecordsTo(x, s).type = "records" /\ RecordsTo(x, s).to = x /\ RecordsTo(x, s).recs = s
  BY DEF Begin, End, Symbols, Need, RecordsTo

LEMMA HandledFacts ==
    ASSUME NEW m, NEW out, Handled(m, out)
    PROVE  net' \subseteq net \cup out /\ net \ {m} \subseteq net' /\ out \subseteq net'
  BY DEF Handled

\* The frames of sendRecordsChunked: each holds some of the records, and every record is in one.
LEMMA DivFacts ==
    ASSUME NEW a \in Nat, NEW c \in Nat \ {0}
    PROVE  a \div c \in Nat /\ c * (a \div c) <= a /\ a < c * (a \div c) + c
  OBVIOUS

LEMMA FrameFor ==
    ASSUME NEW n \in Nat, NEW k \in 1 .. n, NEW c \in Nat \ {0}
    PROVE  \E f \in 1 .. ((n + c - 1) \div c) : (f - 1) * c < k /\ k <= f * c
  <1> DEFINE q == (k - 1) \div c
             t == (n + c - 1) \div c
  <1>1. k - 1 \in Nat /\ n + c - 1 \in Nat
    OBVIOUS
  <1>2. q \in Nat /\ c * q <= k - 1 /\ k - 1 < c * q + c
    BY <1>1, DivFacts
  <1>3. t \in Nat /\ n + c - 1 < c * t + c
    BY <1>1, DivFacts
  <1> HIDE DEF q, t
  <1>4. (q + 1) * c = c * q + c /\ ((q + 1) - 1) * c = c * q
    BY <1>2
  <1>5. q + 1 <= t
    <2> SUFFICES ASSUME t <= q PROVE FALSE
      BY <1>2, <1>3
    <2>1. c * t <= c * q
      BY <1>2, <1>3
    <2>2. c * t \in Nat /\ c * q \in Nat
      BY <1>2, <1>3
    <2> HIDE DEF q
    <2> QED BY <1>2, <1>3, <2>1, <2>2
  <1>6. c * q \in Nat
    BY <1>2
  <1> QED BY <1>2, <1>3, <1>4, <1>5, <1>6 DEF t

LEMMA ChunkFrames ==
    ASSUME NEW S, NEW x, NEW f \in sendRecordsChunked(x, S)
    PROVE  f = RecordsTo(x, f.recs) /\ f.recs \subseteq S
  <1>1. PICK k \in 1 .. FrameCount(Cardinality(S)) : f = RecordsTo(x, Chunk(S, k))
    BY DEF sendRecordsChunked
  <1>2. f.recs = Chunk(S, k)
    BY <1>1, FrameTypes
  <1> QED BY <1>1, <1>2 DEF Chunk

LEMMA ChunkCover ==
    ASSUME NEW S, IsFiniteSet(S), S \subseteq Nat, NEW x, NEW r \in S
    PROVE  \E f \in sendRecordsChunked(x, S) : r \in f.recs
  <1> DEFINE below == {y \in S : y <= r}
             n == Cardinality(S)
             k == Cardinality(below)
  <1>1. IsFiniteSet(below) /\ k <= n /\ k \in Nat /\ n \in Nat /\ k # 0
    <2>1. below \in SUBSET S /\ r \in below
      OBVIOUS
    <2> QED BY <2>1, FS_Subset, FS_CardinalityType, FS_EmptySet
  <1>2. Rank(S, r) = k
    BY DEF Rank
  <1> HIDE DEF n, k, below
  <1>3. k \in 1 .. n /\ n # 0 /\ RecCap \in Nat \ {0}
    BY <1>1, ExchangeAssumption
  <1>4. PICK f \in 1 .. ((n + RecCap - 1) \div RecCap) : (f - 1) * RecCap < k /\ k <= f * RecCap
    BY <1>1, <1>3, FrameFor
  <1>5. f \in 1 .. FrameCount(Cardinality(S))
    BY <1>3, <1>4 DEF FrameCount, n
  <1>6. r \in Chunk(S, f)
    BY <1>2, <1>4 DEF Chunk
  <1>7. RecordsTo(x, Chunk(S, f)) \in sendRecordsChunked(x, S)
    BY <1>5 DEF sendRecordsChunked
  <1> QED BY <1>6, <1>7, FrameTypes

-----------------------------------------------------------------------------
(* The reorder buffer. *)

LEMMA LeastNat ==
    ASSUME NEW T, T \subseteq Nat, T # {}
    PROVE  \E x \in T : \A y \in T : x <= y
  <1>1. IsWellFoundedOn({ss \in Nat \X Nat : ss[1] < ss[2]}, Nat)
    BY NatLessThanWellFounded, Zenon DEF OpToRel
  <1>2. PICK x \in T : \A y \in T : ~(<<y, x>> \in {ss \in Nat \X Nat : ss[1] < ss[2]})
    BY <1>1, WFMin
  <1>3. ASSUME NEW y \in T PROVE x <= y
    <2>1. x \in Nat /\ y \in Nat
      OBVIOUS
    <2>2. <<y, x>> \in Nat \X Nat /\ <<y, x>>[1] = y /\ <<y, x>>[2] = x
      BY <2>1
    <2> QED BY <1>2, <2>1, <2>2
  <1> QED BY <1>3

\* The batches of the stream after the first are as many as their positions.
LEMMA StreamFinite ==
    ASSUME MaxBatches \in Nat \ {0}
    PROVE  LET P == {Sym(i) : i \in 1 .. (MaxBatches - 1)}
           IN  IsFiniteSet(P) /\ Cardinality(P) <= MaxBatches - 1
  <1> DEFINE D == 1 .. (MaxBatches - 1)
             P == {Sym(i) : i \in D}
             f == [i \in D |-> Sym(i)]
  <1>1. IsFiniteSet(D) /\ Cardinality(D) = MaxBatches - 1
    <2>1. MaxBatches - 1 \in Int /\ 1 \in Int /\ MaxBatches - 1 >= 0
      OBVIOUS
    <2>2. IsFiniteSet(D) /\ Cardinality(D) = IF 1 > MaxBatches - 1 THEN 0 ELSE (MaxBatches - 1) - 1 + 1
      BY <2>1, FS_Interval
    <2> QED BY <2>1, <2>2
  <1>2. f \in Surjection(D, P)
    BY DEF Surjection
  <1> QED BY <1>1, <1>2, FS_Surjection

\* Top(m) is where the run of batches from m on ends.
LEMMA TopFacts ==
    ASSUME NEW m, MaxBatches \in Nat \ {0}, m.index \in 0 .. (MaxBatches - 1), m = Sym(m.index),
           ini.pending \subseteq {Sym(i) : i \in 1 .. (MaxBatches - 1)}
    PROVE  Top(m) \in (m.index + 1) .. MaxBatches
  <1> DEFINE P == ini.pending
             has(k) == \E b \in P \cup {m} : b.index = k
             T == {k \in Nat : k > m.index /\ ~has(k)}
             n == Cardinality(P)
  <1>1. \A b \in P \cup {m} : b.index \in 0 .. (MaxBatches - 1)
    BY FrameTypes DEF Sym
  <1>2. IsFiniteSet(P) /\ n \in Nat
    BY StreamFinite, FS_Subset, FS_CardinalityType
  <1>3. MaxBatches \in T
    BY <1>1
  <1>4. PICK k \in T : \A y \in T : k <= y
    <2>1. T \subseteq Nat /\ T # {}
      BY <1>3
    <2> HIDE DEF T
    <2> QED BY <2>1, LeastNat
  <1>5. k \in Nat /\ k > m.index /\ ~has(k) /\ m.index \in Nat
    BY <1>4
  <1>6. \A j \in m.index .. (k - 1) : has(j)
    <2> SUFFICES ASSUME NEW j \in m.index .. (k - 1), ~has(j) PROVE FALSE
      OBVIOUS
    <2>1. j = m.index \/ j \in T
      BY <1>5
    <2>2. has(m.index)
      OBVIOUS
    <2>3. j \in T
      BY <2>1, <2>2
    <2>4. k <= j
      BY <1>4, <2>3
    <2> QED BY <1>5, <2>4
  <1>7. k <= m.index + n + 1
    <2> DEFINE D == (m.index + 1) .. (k - 1)
               B == {b \in P : b.index \in D}
               f == [b \in B |-> b.index]
    <2>1. IsFiniteSet(D) /\ Cardinality(D) = k - 1 - m.index
      <3>1. m.index + 1 \in Int /\ k - 1 \in Int /\ m.index <= k - 1
        BY <1>5
      <3>2. IsFiniteSet(D) /\ Cardinality(D) = IF m.index + 1 > k - 1 THEN 0 ELSE (k - 1) - (m.index + 1) + 1
        BY <3>1, FS_Interval
      <3> QED BY <1>5, <3>1, <3>2
    <2>2. \A j \in D : \E b \in B : b.index = j
      <3> SUFFICES ASSUME NEW j \in D PROVE \E b \in B : b.index = j
        OBVIOUS
      <3>1. j \in m.index .. (k - 1) /\ j # m.index
        BY <1>5
      <3>2. PICK b \in P \cup {m} : b.index = j
        BY <1>6, <3>1
      <3> QED BY <3>1, <3>2
    <2>3. f \in Surjection(B, D)
      BY <2>2 DEF Surjection
    <2>4. IsFiniteSet(B) /\ Cardinality(B) <= n /\ Cardinality(B) \in Nat
      <3>1. B \in SUBSET P
        OBVIOUS
      <3> QED BY <1>2, <3>1, FS_Subset, FS_CardinalityType
    <2>5. Cardinality(D) <= Cardinality(B)
      BY <2>3, <2>4, FS_Surjection
    <2> HIDE DEF D, B, n
    <2>6. k - 1 - m.index <= n
      BY <1>2, <1>5, <2>1, <2>4, <2>5
    <2> QED BY <1>2, <1>5, <2>6
  <1>8. k \in (m.index + 1) .. (m.index + n + 1) /\ ~has(k) /\ \A j \in m.index .. (k - 1) : has(j)
    BY <1>2, <1>5, <1>6, <1>7
  <1>9. /\ Top(m) \in (m.index + 1) .. (m.index + n + 1)
        /\ \A j \in m.index .. (Top(m) - 1) : has(j)
    BY <1>8 DEF Top
  <1> HIDE DEF n
  <1>10. Top(m) - 1 \in m.index .. (Top(m) - 1)
    BY <1>2, <1>5, <1>9
  <1>11. has(Top(m) - 1)
    BY <1>9, <1>10
  <1>12. Top(m) - 1 <= MaxBatches - 1
    BY <1>1, <1>11
  <1> QED BY <1>2, <1>5, <1>9, <1>12

-----------------------------------------------------------------------------
(* Types. *)

LEMMA Rigid == Next => UNCHANGED <<play, only, full>>
  BY DEF Next, Handle, Drop, Goroutines, CloseSession, Unknown, AcceptBegin, onSyncNeed, onSyncEnd, InitiatorRecords,
         ResponderRecords, ApplySymbols, PumpCheck, ProduceSymbols, ShouldInitiatorConverge, SendNeed, SendPush

\* What has to be shown of a step, said of the sets as they are before it.
LEMMA TypedIntro ==
    ASSUME Typed, UNCHANGED <<play, only, full>>, ini' \in Initiators, rsp' \in Responders,
           rsp'.pump \in {"check", "produce"} \/ rsp'.phase = "idle" => rsp'.symbolsOut < MaxBatches,
           DOMAIN got' = {I, R}, got'[I] \subseteq only[R], got'[R] \subseteq only[I],
           lost' \in BOOLEAN, charged' \subseteq {I, R},
           NEW out, net' \subseteq net \cup out, \A m \in out : FrameOK(m)
    PROVE  Typed'
  <1>1. Setup'
    BY DEF Typed, Setup, MaxBatches, IOnly, ROnly
  <1>2. ini' \in Initiators' /\ rsp' \in Responders' /\ MaxBatches' = MaxBatches
    BY DEF Initiators, Responders, MaxBatches, ByteBudget, Workers, Sym
  <1>3. \A m \in net' : FrameOK(m)
    BY DEF Typed
  <1>4. \A m : FrameOK(m) => FrameOK(m)'
    BY DEF FrameOK, Streamed, Sym, MaxBatches, ROnly
  <1>5. \A m \in net' : FrameOK(m)'
    BY <1>3, <1>4
  <1> QED BY <1>1, <1>2, <1>5 DEF Typed

\* A step that leaves the sinks, the responder or the initiator alone.
LEMMA TypedFacts ==
    ASSUME Typed
    PROVE  /\ ini \in Initiators /\ rsp \in Responders /\ MaxBatches \in Nat \ {0} /\ ByteBudget \in Nat \ {0}
           /\ Workers \in Nat \ {0} /\ Floor \in Nat \ {0}
           /\ rsp.pump \in {"check", "produce"} \/ rsp.phase = "idle" => rsp.symbolsOut < MaxBatches
           /\ DOMAIN got = {I, R} /\ got[I] \subseteq only[R] /\ got[R] \subseteq only[I]
           /\ lost \in BOOLEAN /\ charged \subseteq {I, R}
           /\ \A m \in net : FrameOK(m)
           /\ IsFiniteSet(only[I]) /\ IsFiniteSet(only[R]) /\ only[I] \subseteq Nat /\ only[R] \subseteq Nat
           /\ full \in 1 .. (MaxBatches + 1)
  <1>1. play \in Plays /\ only[I] \subseteq IOnly /\ only[R] \subseteq ROnly
    BY DEF Typed, Setup
  <1>2. IsFiniteSet(only[I]) /\ IsFiniteSet(only[R]) /\ only[I] \subseteq Nat /\ only[R] \subseteq Nat
    BY <1>1, PlayFacts, FS_Subset
  <1> QED BY <1>1, <1>2, PlayFacts DEF Typed, Setup

\* The records of a frame are counted.
LEMMA RecordCount ==
    ASSUME Typed, NEW m \in net, m.type = "records"
    PROVE  IsFiniteSet(m.recs) /\ Cardinality(m.recs) \in Nat
  <1>1. m.recs \subseteq only[I] \/ m.recs \subseteq only[R]
    BY TypedFacts, FrameKinds
  <1> QED BY <1>1, TypedFacts, FS_Subset, FS_CardinalityType

\* The three outcomes of ApplySymbols that end a handler's work without an error, and the error.
LEMMA ApplyFacts ==
    ASSUME Typed, NEW m \in net, ApplySymbols(m)
    PROVE  /\ m.index \in 0 .. (MaxBatches - 1) /\ m = Sym(m.index) /\ ini.reg
           /\ UNCHANGED <<play, only, full, rsp, got, lost>>
           /\ ini' \in Initiators
           /\ ini'.fired = ini.fired /\ ini'.conv = ini.conv /\ ini'.needs = ini.needs
           /\ \/ /\ ini'.reg = ini.reg /\ ini'.symbolsIn = ini.symbolsIn /\ ini'.done = ini.done
                 /\ ini'.phase = "flowing" /\ Handled(m, {}) /\ charged' = charged /\ applied' = applied
              \/ /\ m.index > ini.symbolsIn /\ m \notin ini.pending /\ Cardinality(ini.pending) >= MaxPending
                 /\ ini'.reg = FALSE /\ ini'.symbolsIn = ini.symbolsIn /\ ini'.done = ini.done
                 /\ ini'.phase = "ended" /\ Handled(m, {End(R)}) /\ charged' = charged \cup {I} /\ applied' = applied
              \/ /\ m.index = ini.symbolsIn /\ ini'.reg = ini.reg /\ ini'.symbolsIn = Top(m)
                 /\ ini'.done => ini.done \/ Top(m) = MaxBatches
                 /\ ini'.phase = "flowing" /\ Handled(m, {}) /\ charged' = charged
                 /\ applied' = applied \o [j \in 1 .. (Top(m) - m.index) |-> m.index + j - 1]
  <1>0. /\ ini \in Initiators /\ MaxBatches \in Nat \ {0} /\ Workers \in Nat \ {0} /\ FrameOK(m)
    BY TypedFacts
  <1>1. /\ m.type = "symbols" /\ ini.reg /\ ini.checks < Workers /\ UNCHANGED <<play, only, full, rsp, got, lost>>
    BY DEF ApplySymbols
  <1>2. m.index \in 0 .. (MaxBatches - 1) /\ m = Sym(m.index)
    BY <1>0, <1>1, FrameKinds
  <1>3. ini.pending \subseteq {Sym(i) : i \in 1 .. (MaxBatches - 1)} /\ ini.checks + 1 \in 0 .. Workers
        /\ ini.symbolsIn \in 0 .. MaxBatches
    BY <1>0, <1>1 DEF Initiators
  <1>4. "flowing" \in Phases /\ "ended" \in Phases
    BY DEF Phases
  <1> DEFINE next == [ini EXCEPT !.phase = "flowing", !.checks = @ + 1]
             run == {b \in ini.pending \cup {m} : m.index <= b.index /\ b.index < Top(m)}
  <1>5. CASE (m.index < ini.symbolsIn \/ m \in ini.pending) /\ ini' = next /\ Handled(m, {}) /\ UNCHANGED <<charged, applied>>
    BY <1>0, <1>1, <1>2, <1>3, <1>4, <1>5 DEF Initiators
  <1>6. CASE /\ m.index > ini.symbolsIn /\ ini' = [next EXCEPT !.pending = @ \cup {m}]
             /\ Handled(m, {}) /\ UNCHANGED <<charged, applied>>
    <2>1. ini.pending \cup {m} \subseteq {Sym(i) : i \in 1 .. (MaxBatches - 1)}
      BY <1>2, <1>3, <1>6
    <2> QED BY <1>0, <1>1, <1>2, <1>3, <1>4, <1>6, <2>1 DEF Initiators
  <1>7. CASE /\ m.index > ini.symbolsIn /\ m \notin ini.pending /\ Cardinality(ini.pending) >= MaxPending
             /\ ini' = [ini EXCEPT !.reg = FALSE, !.phase = "ended"]
             /\ endWithError(m, I, FALSE) /\ UNCHANGED applied
    <2>1. Handled(m, {End(R)}) /\ charged' = charged \cup {I}
      BY <1>7 DEF endWithError
    <2> QED BY <1>0, <1>1, <1>2, <1>3, <1>4, <1>7, <2>1 DEF Initiators
  <1>8. CASE /\ AtHead(m)
             /\ ini' = [next EXCEPT !.symbolsIn = Top(m), !.pending = @ \ run,
                                    !.done = @ \/ \E b \in run : b.done]
             /\ applied' = applied \o [j \in 1 .. (Top(m) - m.index) |-> m.index + j - 1]
             /\ Handled(m, {}) /\ UNCHANGED charged
    <2>1. Top(m) \in (m.index + 1) .. MaxBatches
      BY <1>0, <1>2, <1>3, TopFacts
    <2>2. ASSUME NEW b \in run, b.done PROVE Top(m) = MaxBatches
      <3>1. PICK i \in 0 .. (MaxBatches - 1) : b = Sym(i)
        BY <1>2, <1>3
      <3>2. b.index = i /\ b.done = (i + 1 >= MaxBatches)
        BY <3>1 DEF Sym, Symbols
      <3>3. b.index < Top(m)
        BY <2>2
      <3>4. i + 1 >= MaxBatches
        BY <2>2, <3>2, Zenon
      <3> QED BY <1>0, <2>1, <3>2, <3>3, <3>4
    <2> DEFINE d == ini.done \/ \E b \in run : b.done
    <2>3. d \in BOOLEAN /\ (d => ini.done \/ Top(m) = MaxBatches)
      BY <2>2
    <2>4. ini' = [next EXCEPT !.symbolsIn = Top(m), !.pending = ini.pending \ run, !.done = d]
      BY <1>0, <1>8 DEF Initiators
    <2>5. Top(m) \in 0 .. MaxBatches /\ ini.pending \ run \subseteq {Sym(i) : i \in 1 .. (MaxBatches - 1)}
      BY <1>0, <1>2, <1>3, <2>1
    <2> HIDE DEF d, run
    <2>6. /\ ini' \in Initiators /\ ini'.symbolsIn = Top(m) /\ ini'.done = d /\ ini'.phase = "flowing"
          /\ ini'.reg = ini.reg /\ ini'.fired = ini.fired /\ ini'.conv = ini.conv /\ ini'.needs = ini.needs
      BY <1>0, <1>3, <1>4, <2>3, <2>4, <2>5 DEF Initiators
    <2> QED BY <1>1, <1>2, <1>8, <2>3, <2>6 DEF AtHead
  <1> HIDE DEF next, run
  <1> QED BY <1>5, <1>6, <1>7, <1>8 DEF ApplySymbols, next, run

\* The steps of the initiator's session.
LEMMA InitiatorRecordsFacts ==
    ASSUME Typed, NEW m \in net, InitiatorRecords(m)
    PROVE  /\ m.recs \subseteq only[R] /\ ini.reg
           /\ UNCHANGED <<play, only, full, rsp, lost, applied>> /\ ini' \in Initiators
           /\ ini'.symbolsIn = ini.symbolsIn /\ ini'.done = ini.done /\ ini'.fired = ini.fired
           /\ ini'.conv = ini.conv /\ ini'.needs = ini.needs
           /\ \/ /\ ini'.reg = ini.reg /\ ini'.phase = "fulfilled" /\ Handled(m, {}) /\ charged' = charged
                 /\ got' = [got EXCEPT ![I] = @ \cup m.recs]
              \/ /\ ini'.reg = FALSE /\ ini'.phase = "ended" /\ Handled(m, {End(R)}) /\ got' = got
                 /\ charged' \subseteq charged \cup {I}
                 /\ ini.phase \notin {"idle", "begun"} => charged' = charged
  <1>0. ini \in Initiators /\ ByteBudget \in Nat \ {0} /\ FrameOK(m) /\ MaxBatches \in Nat
    BY TypedFacts
  <1>1. /\ m.type = "records" /\ m.to = I /\ ini.reg /\ UNCHANGED <<play, only, full, rsp, lost, applied>>
    BY DEF InitiatorRecords
  <1>2. m.recs \subseteq only[R] /\ Cardinality(m.recs) \in Nat
    BY <1>0, <1>1, FrameKinds, RecordCount
  <1>3. "fulfilled" \in Phases /\ "ended" \in Phases
    BY DEF Phases
  <1> DEFINE n == Cardinality(m.recs)
             fits == ini.bytesIn + n <= ByteBudget
  <1> HIDE DEF n
  <1>4. CASE RecordsLegal(ini.phase) /\ fits
    <2>1. ini.bytesIn + n \in 0 .. ByteBudget
      BY <1>0, <1>2, <1>4 DEF Initiators, n
    <2>2. /\ ini' = [ini EXCEPT !.bytesIn = @ + n, !.phase = "fulfilled"]
          /\ got' = [got EXCEPT ![I] = @ \cup m.recs] /\ Handled(m, {}) /\ charged' = charged
      BY <1>4 DEF InitiatorRecords, n
    <2> QED BY <1>0, <1>1, <1>2, <1>3, <2>1, <2>2 DEF Initiators
  <1>5. CASE ~(RecordsLegal(ini.phase) /\ fits)
    <2>1. /\ ini' = [ini EXCEPT !.reg = FALSE, !.phase = "ended"] /\ got' = got
          /\ endWithError(m, I, RecordsLegal(ini.phase))
      BY <1>5 DEF InitiatorRecords, n
    <2>2. /\ Handled(m, {End(R)}) /\ charged' \subseteq charged \cup {I}
          /\ ini.phase \notin {"idle", "begun"} => charged' = charged
      BY <2>1 DEF endWithError, RecordsLegal
    <2> QED BY <1>0, <1>1, <1>2, <1>3, <2>1, <2>2 DEF Initiators
  <1> QED BY <1>4, <1>5

LEMMA ResponderRecordsFacts ==
    ASSUME Typed, NEW m \in net, ResponderRecords(m)
    PROVE  /\ m.recs \subseteq only[I] /\ m.type = "records" /\ m.to = R /\ rsp.reg
           /\ UNCHANGED <<play, only, full, ini, lost, applied>> /\ rsp' \in Responders
           /\ rsp'.symbolsOut = rsp.symbolsOut /\ rsp'.pump = rsp.pump
           /\ \/ /\ rsp'.reg = rsp.reg /\ rsp'.phase = "fulfilled" /\ Handled(m, {}) /\ charged' = charged
                 /\ got' = [got EXCEPT ![R] = @ \cup m.recs]
              \/ /\ rsp'.reg = FALSE /\ rsp'.phase = "ended" /\ Handled(m, {End(I)}) /\ got' = got
                 /\ charged' \subseteq charged \cup {R}
                 /\ rsp.phase \notin {"idle", "begun"} => charged' = charged
  <1>0. rsp \in Responders /\ ByteBudget \in Nat \ {0} /\ FrameOK(m) /\ MaxBatches \in Nat
    BY TypedFacts
  <1>1. /\ m.type = "records" /\ m.to = R /\ rsp.reg /\ UNCHANGED <<play, only, full, ini, lost, applied>>
    BY DEF ResponderRecords
  <1>2. m.recs \subseteq only[I] /\ Cardinality(m.recs) \in Nat
    BY <1>0, <1>1, FrameKinds, RecordCount
  <1>3. "fulfilled" \in Phases /\ "ended" \in Phases /\ R # I
    BY DEF Phases, R, I
  <1> DEFINE n == Cardinality(m.recs)
             fits == rsp.bytesIn + n <= ByteBudget
  <1> HIDE DEF n
  <1>4. CASE RecordsLegal(rsp.phase) /\ fits
    <2>1. rsp.bytesIn + n \in 0 .. ByteBudget
      BY <1>0, <1>2, <1>4 DEF Responders, n
    <2>2. /\ rsp' = [rsp EXCEPT !.bytesIn = @ + n, !.phase = "fulfilled"]
          /\ got' = [got EXCEPT ![R] = @ \cup m.recs] /\ Handled(m, {}) /\ charged' = charged
      BY <1>4 DEF ResponderRecords, n
    <2> QED BY <1>0, <1>1, <1>2, <1>3, <2>1, <2>2 DEF Responders
  <1>5. CASE ~(RecordsLegal(rsp.phase) /\ fits)
    <2>1. /\ rsp' = [rsp EXCEPT !.reg = FALSE, !.phase = "ended", !.stopped = TRUE] /\ got' = got
          /\ endWithError(m, R, RecordsLegal(rsp.phase))
      BY <1>5 DEF ResponderRecords, n
    <2>2. /\ Handled(m, {End(I)}) /\ charged' \subseteq charged \cup {R}
          /\ rsp.phase \notin {"idle", "begun"} => charged' = charged
      BY <1>3, <2>1 DEF endWithError, RecordsLegal
    <2> QED BY <1>0, <1>1, <1>2, <1>3, <2>1, <2>2 DEF Responders
  <1> QED BY <1>4, <1>5

LEMMA EndFacts ==
    ASSUME Typed, NEW m \in net, onSyncEnd(m)
    PROVE  /\ UNCHANGED <<play, only, full, got, lost, charged, applied>> /\ Handled(m, {}) /\ m.type = "end"
           /\ \/ /\ rsp' = rsp /\ ini' \in Initiators /\ ini'.reg = FALSE /\ ini'.phase = "ended"
                 /\ ini'.symbolsIn = ini.symbolsIn /\ ini'.done = ini.done /\ ini'.fired = ini.fired
                 /\ ini'.conv = ini.conv /\ ini'.needs = ini.needs
              \/ /\ ini' = ini /\ rsp' \in Responders /\ rsp'.reg = FALSE /\ rsp'.phase = "ended"
                 /\ rsp'.symbolsOut = rsp.symbolsOut /\ rsp'.pump = rsp.pump
  <1>1. ini \in Initiators /\ rsp \in Responders /\ "ended" \in Phases
    BY TypedFacts DEF Phases
  <1>2. CASE m.to = I
    <2>1. ini' = [ini EXCEPT !.reg = FALSE, !.phase = "ended"] /\ rsp' = rsp
      BY <1>2 DEF onSyncEnd
    <2> QED BY <1>1, <2>1 DEF onSyncEnd, Initiators
  <1>3. CASE m.to # I
    <2>1. rsp' = [rsp EXCEPT !.reg = FALSE, !.phase = "ended", !.stopped = TRUE] /\ ini' = ini
      BY <1>3 DEF onSyncEnd
    <2> QED BY <1>1, <2>1 DEF onSyncEnd, Responders
  <1> QED BY <1>2, <1>3

LEMMA NeedFacts ==
    ASSUME Typed, NEW m \in net, onSyncNeed(m)
    PROVE  /\ m.ids \subseteq ROnly /\ m.type = "need" /\ m = Need(m.ids)
           /\ UNCHANGED <<play, only, full, ini, got, lost, charged, applied>>
           /\ rsp' \in Responders /\ rsp'.reg = rsp.reg /\ rsp'.phase = "fulfilled" /\ rsp.reg
           /\ rsp'.symbolsOut = rsp.symbolsOut /\ rsp'.pump = rsp.pump
           /\ Handled(m, sendRecordsChunked(I, m.ids \cap only[R]))
           /\ \A f \in sendRecordsChunked(I, m.ids \cap only[R]) :
                 FrameOK(f) /\ f.type = "records" /\ f.to = I /\ f.recs \subseteq only[R]
           /\ \A r \in m.ids \cap only[R] : \E f \in sendRecordsChunked(I, m.ids \cap only[R]) : r \in f.recs
  <1>1. /\ rsp \in Responders /\ "fulfilled" \in Phases /\ FrameOK(m) /\ MaxBatches \in Nat
        /\ IsFiniteSet(only[R]) /\ only[R] \subseteq Nat
    BY TypedFacts DEF Phases
  <1>2. m.type = "need" /\ m.ids \subseteq ROnly /\ m = Need(m.ids)
    BY <1>1, FrameKinds DEF onSyncNeed
  <1>3. rsp' = [rsp EXCEPT !.stopped = TRUE, !.phase = "fulfilled"] /\ rsp.reg
    BY DEF onSyncNeed
  <1>4. /\ rsp' \in Responders /\ rsp'.reg = rsp.reg /\ rsp'.phase = "fulfilled"
        /\ rsp'.symbolsOut = rsp.symbolsOut /\ rsp'.pump = rsp.pump
    BY <1>1, <1>3 DEF Responders
  <1> DEFINE S == m.ids \cap only[R]
  <1>5. IsFiniteSet(S) /\ S \subseteq Nat /\ S \subseteq only[R]
    BY <1>1, FS_Subset
  <1> HIDE DEF S
  <1>6. ASSUME NEW f \in sendRecordsChunked(I, S) PROVE FrameOK(f) /\ f.type = "records" /\ f.to = I /\ f.recs \subseteq only[R]
    <2>1. f = RecordsTo(I, f.recs) /\ f.recs \in SUBSET S
      BY ChunkFrames
    <2>2. f.recs \in SUBSET only[R]
      BY <1>5, <2>1
    <2> QED BY <2>1, <2>2, FrameTypes DEF FrameOK
  <1>7. \A r \in S : \E f \in sendRecordsChunked(I, S) : r \in f.recs
    BY <1>5, ChunkCover
  <1> QED BY <1>2, <1>3, <1>4, <1>6, <1>7 DEF onSyncNeed, S

LEMMA BeginFacts ==
    ASSUME Typed, NEW m \in net, AcceptBegin(m)
    PROVE  /\ UNCHANGED <<play, only, full, ini, got, lost, charged, applied>> /\ rsp.phase = "idle" /\ m.type = "begin"
           /\ net' \subseteq net \cup {End(I)} /\ net \ {m} \subseteq net'
           /\ rsp' \in Responders /\ rsp'.symbolsOut = rsp.symbolsOut /\ rsp'.phase \in {"begun", "ended"}
  <1>1. rsp \in Responders /\ "ended" \in Phases /\ "begun" \in Phases
    BY TypedFacts DEF Phases
  <1> QED BY <1>1 DEF AcceptBegin, Responders


LEMMA PumpFacts ==
    ASSUME Typed, PumpCheck \/ ProduceSymbols
    PROVE  /\ UNCHANGED <<play, only, full, ini, got, lost, charged, applied>>
           /\ rsp' \in Responders /\ rsp'.reg = rsp.reg
           /\ rsp'.pump \in {"check", "produce"} \/ rsp'.phase = "idle" => rsp'.symbolsOut < MaxBatches
           /\ \/ net' = net /\ rsp'.phase = rsp.phase
              \/ /\ net' = net \cup {Sym(rsp.symbolsOut)} /\ rsp'.phase = "flowing"
                 /\ rsp.symbolsOut \in 0 .. (MaxBatches - 1)
  <1>1. /\ rsp \in Responders /\ "flowing" \in Phases /\ MaxBatches \in Nat \ {0}
        /\ rsp.pump \in {"check", "produce"} => rsp.symbolsOut < MaxBatches
    BY TypedFacts DEF Phases
  <1>2. CASE PumpCheck
    BY <1>1, <1>2 DEF PumpCheck, Responders
  <1>3. CASE ProduceSymbols
    <2> DEFINE n == rsp.symbolsOut
               last == n + 1 >= MaxBatches
    <2>1. n \in 0 .. (MaxBatches - 1)
      BY <1>1, <1>3 DEF ProduceSymbols, Responders
    <2>2. /\ rsp' = [rsp EXCEPT !.symbolsOut = n + 1, !.phase = "flowing", !.pump = IF last THEN "over" ELSE "check"]
          /\ net' = net \cup {Sym(n)} /\ UNCHANGED <<play, only, full, ini, got, lost, charged, applied>>
      BY <1>1, <1>3 DEF ProduceSymbols, Sym, Responders
    <2> HIDE DEF n
    <2>3. /\ rsp' \in Responders /\ rsp'.reg = rsp.reg /\ rsp'.phase = "flowing" /\ rsp'.symbolsOut = n + 1
          /\ rsp'.pump = IF last THEN "over" ELSE "check"
      <3> DEFINE o == n + 1
                 p == IF last THEN "over" ELSE "check"
      <3>1. o \in 0 .. MaxBatches /\ p \in {"none", "check", "produce", "over"}
        BY <1>1, <2>1
      <3>2. rsp' = [rsp EXCEPT !.symbolsOut = o, !.phase = "flowing", !.pump = p]
        BY <2>2
      <3> HIDE DEF o, p
      <3>3. /\ rsp' \in Responders /\ rsp'.reg = rsp.reg /\ rsp'.phase = "flowing" /\ rsp'.symbolsOut = o
            /\ rsp'.pump = p
        BY <1>1, <3>1, <3>2 DEF Responders
      <3> QED BY <3>3 DEF o, p
    <2> QED BY <1>1, <2>1, <2>2, <2>3 DEF n
  <1> QED BY <1>2, <1>3

LEMMA CheckFacts ==
    ASSUME Typed, ShouldInitiatorConverge
    PROVE  /\ UNCHANGED <<play, only, full, net, rsp, got, lost, charged, applied>>
           /\ ini' \in Initiators /\ ini'.reg = ini.reg /\ ini'.symbolsIn = ini.symbolsIn /\ ini'.done = ini.done
           /\ ini'.needs = ini.needs /\ ini'.phase = ini.phase
           /\ \/ ini'.fired = ini.fired /\ ini'.conv = ini.conv
              \/ ~ini.fired /\ Ready /\ ini'.fired = TRUE /\ ini'.conv = "need"
  <1>1. ini \in Initiators /\ Workers \in Nat /\ ini.checks > 0
    BY TypedFacts DEF ShouldInitiatorConverge
  <1>2. ini.checks - 1 \in 0 .. Workers
    BY <1>1 DEF Initiators
  <1>3. CASE ~ini.fired /\ Ready
    BY <1>1, <1>2, <1>3 DEF ShouldInitiatorConverge, Initiators
  <1>4. CASE ~(~ini.fired /\ Ready)
    BY <1>1, <1>2, <1>4 DEF ShouldInitiatorConverge, Initiators
  <1> QED BY <1>3, <1>4

LEMMA SendNeedFacts ==
    ASSUME Typed, Decided, SendNeed
    PROVE  /\ UNCHANGED <<play, only, full, rsp, got, lost, charged, applied>> /\ ini.conv = "need"
           /\ ini' \in Initiators /\ ini'.reg = ini.reg /\ ini'.symbolsIn = ini.symbolsIn /\ ini'.done = ini.done
           /\ ini'.fired = ini.fired /\ ini'.conv = "push" /\ ini'.phase = "needed" /\ ini'.needs = 1
           /\ \E ids \in SUBSET only[R] : /\ net' = net \cup {Need(ids)} /\ FrameOK(Need(ids))
                                          /\ ini.symbolsIn >= full => ids = only[R]
  <1>1. ini \in Initiators /\ "needed" \in Phases /\ only[R] \subseteq ROnly
    BY TypedFacts DEF Phases, Typed, Setup
  <1>2. ini.conv = "need" /\ ini.needs = 0
    BY DEF SendNeed, Decided
  <1>3. ini' = [ini EXCEPT !.conv = "push", !.phase = "needed", !.needs = 1]
    BY <1>1, <1>2 DEF SendNeed, Initiators
  <1>4. PICK ids \in Decoded(only[R]) : net' = net \cup {Need(ids)}
    BY DEF SendNeed
  <1>5. ids \in SUBSET only[R] /\ (ini.symbolsIn >= full => ids = only[R])
    BY <1>4 DEF Decoded
  <1>6. FrameOK(Need(ids))
    BY <1>1, <1>5 DEF FrameOK
  <1>7. /\ ini' \in Initiators /\ ini'.reg = ini.reg /\ ini'.symbolsIn = ini.symbolsIn /\ ini'.done = ini.done
        /\ ini'.fired = ini.fired /\ ini'.conv = "push" /\ ini'.phase = "needed" /\ ini'.needs = 1
    <2>1. 1 \in 0 .. 1 /\ "push" \in {"none", "need", "push", "over"}
      OBVIOUS
    <2> QED BY <1>1, <1>3, <2>1 DEF Initiators
  <1> QED BY <1>2, <1>4, <1>5, <1>6, <1>7 DEF SendNeed

LEMMA SendPushFacts ==
    ASSUME Typed, SendPush
    PROVE  /\ UNCHANGED <<play, only, full, rsp, got, lost, charged, applied>> /\ ini.conv = "push"
           /\ ini' \in Initiators /\ ini'.reg = ini.reg /\ ini'.symbolsIn = ini.symbolsIn /\ ini'.done = ini.done
           /\ ini'.fired = ini.fired /\ ini'.conv = "over" /\ ini'.phase \in {ini.phase, "fulfilled"}
           /\ ini'.needs = ini.needs
           /\ \E out : /\ net' = net \cup out
                       /\ \A f \in out : FrameOK(f) /\ f.type = "records" /\ f.to = R
                       /\ ini.symbolsIn >= full => \A r \in only[I] : \E f \in out : r \in f.recs
  <1>1. ini \in Initiators /\ "fulfilled" \in Phases /\ IsFiniteSet(only[I]) /\ only[I] \subseteq Nat
    BY TypedFacts DEF Phases
  <1>2. PICK recs \in Decoded(only[I]) :
            IF recs = {} THEN ini' = [ini EXCEPT !.conv = "over"] /\ UNCHANGED net
            ELSE /\ ini' = [ini EXCEPT !.conv = "over", !.phase = "fulfilled"]
                 /\ net' = net \cup sendRecordsChunked(R, recs)
    BY DEF SendPush
  <1>3. recs \subseteq only[I] /\ (ini.symbolsIn >= full => recs = only[I])
    BY <1>2 DEF Decoded
  <1>4. IsFiniteSet(recs) /\ recs \subseteq Nat
    BY <1>1, <1>3, FS_Subset
  <1> DEFINE out == IF recs = {} THEN {} ELSE sendRecordsChunked(R, recs)
  <1>5. net' = net \cup out
    BY <1>2
  <1>6. ASSUME NEW f \in out PROVE FrameOK(f) /\ f.type = "records" /\ f.to = R
    <2>1. f \in sendRecordsChunked(R, recs)
      BY <1>6
    <2>2. f = RecordsTo(R, f.recs) /\ f.recs \in SUBSET recs
      BY <2>1, ChunkFrames
    <2>3. f.recs \in SUBSET only[I]
      BY <1>3, <2>2
    <2> QED BY <2>2, <2>3, FrameTypes DEF FrameOK
  <1>7. ASSUME ini.symbolsIn >= full, NEW r \in only[I] PROVE \E f \in out : r \in f.recs
    <2>1. r \in recs
      BY <1>3, <1>7
    <2> QED BY <1>4, <2>1, ChunkCover
  <1>8. /\ ini' \in Initiators /\ ini'.reg = ini.reg /\ ini'.symbolsIn = ini.symbolsIn /\ ini'.done = ini.done
        /\ ini'.fired = ini.fired /\ ini'.conv = "over" /\ ini'.phase \in {ini.phase, "fulfilled"}
        /\ ini'.needs = ini.needs
    BY <1>1, <1>2 DEF Initiators
  <1> HIDE DEF out
  <1> QED BY <1>5, <1>6, <1>7, <1>8 DEF SendPush

LEMMA CloseFacts ==
    ASSUME Typed, CloseSession
    PROVE  /\ UNCHANGED <<play, only, full, rsp, got, lost, charged, applied>> /\ net' = net \cup {End(R)}
           /\ ini' \in Initiators /\ ini'.reg = FALSE /\ ini'.phase = "ended" /\ ini'.symbolsIn = ini.symbolsIn
           /\ ini'.done = ini.done /\ ini'.fired = ini.fired /\ ini'.conv = ini.conv /\ ini'.needs = ini.needs
  <1>1. ini \in Initiators /\ "ended" \in Phases
    BY TypedFacts DEF Phases
  <1> QED BY <1>1 DEF CloseSession, Initiators


LEMMA UnknownFacts ==
    ASSUME Typed, NEW m \in net, Unknown(m) \/ Drop(m)
    PROVE  /\ UNCHANGED <<play, only, full, ini, rsp, got, charged, applied>>
           /\ net' = net \ {m} /\ lost' \in BOOLEAN
           /\ lost' = TRUE \/ (lost' = lost /\ ~(ini.reg /\ rsp.reg))
  <1>1. lost \in BOOLEAN
    BY TypedFacts
  <1> QED BY <1>1 DEF Unknown, Drop

LEMMA EndsOK == FrameOK(End(I)) /\ FrameOK(End(R))
  BY DEF FrameOK

LEMMA TypedInit == Init => Typed
  <1> SUFFICES ASSUME Init PROVE Typed
    OBVIOUS
  <1>1. play \in Plays /\ MaxBatches \in Nat \ {0} /\ ByteBudget \in Nat \ {0} /\ Workers \in Nat \ {0}
    BY PlayFacts DEF Init
  <1>2. Setup
    BY DEF Init, Setup, I, R
  <1>3. ini \in Initiators
    <2>1. 0 \in 0 .. MaxBatches /\ 0 \in 0 .. ByteBudget /\ 0 \in 0 .. Workers /\ 0 \in 0 .. 1 /\ "begun" \in Phases
      BY <1>1 DEF Phases
    <2> QED BY <2>1 DEF Init, Initiators
  <1>4. rsp \in Responders
    <2>1. 0 \in 0 .. MaxBatches /\ 0 \in 0 .. ByteBudget /\ "idle" \in Phases
      BY <1>1 DEF Phases
    <2> QED BY <2>1 DEF Init, Responders
  <1>5. \A m \in net : FrameOK(m)
    BY DEF Init, FrameOK
  <1>6. rsp.symbolsOut < MaxBatches
    BY <1>1 DEF Init
  <1>7. DOMAIN got = {I, R} /\ got[I] = {} /\ got[R] = {} /\ lost = FALSE /\ charged = {}
    BY DEF Init
  <1> QED BY <1>2, <1>3, <1>4, <1>5, <1>6, <1>7 DEF Typed

LEMMA TypedStep == Typed /\ Decided /\ Next => Typed'
  <1> SUFFICES ASSUME Typed, Decided, Next PROVE Typed'
    OBVIOUS
  <1>0. /\ ini \in Initiators /\ rsp \in Responders
        /\ rsp.pump \in {"check", "produce"} \/ rsp.phase = "idle" => rsp.symbolsOut < MaxBatches
        /\ DOMAIN got = {I, R} /\ got[I] \subseteq only[R] /\ got[R] \subseteq only[I]
        /\ lost \in BOOLEAN /\ charged \subseteq {I, R}
    BY TypedFacts
  <1>1. ASSUME NEW m \in net, Unknown(m) \/ Drop(m) PROVE Typed'
    <2> DEFINE out == {}
    <2>1. net' \subseteq net \cup out /\ \A f \in out : FrameOK(f)
      BY <1>1, UnknownFacts
    <2> HIDE DEF out
    <2> QED BY <1>0, <1>1, <2>1, UnknownFacts, TypedIntro
  <1>2. ASSUME NEW m \in net, AcceptBegin(m) PROVE Typed'
    <2>1. rsp'.symbolsOut < MaxBatches
      BY <1>0, <1>2, BeginFacts
    <2> DEFINE out == {End(I)}
    <2>2. net' \subseteq net \cup out /\ \A f \in out : FrameOK(f)
      BY <1>2, BeginFacts, EndsOK
    <2> HIDE DEF out
    <2> QED BY <1>0, <1>2, <2>1, <2>2, BeginFacts, TypedIntro
  <1>3. ASSUME NEW m \in net, onSyncNeed(m) PROVE Typed'
    <2> DEFINE out == sendRecordsChunked(I, m.ids \cap only[R])
    <2>1. net' \subseteq net \cup out /\ \A f \in out : FrameOK(f)
      BY <1>3, NeedFacts, HandledFacts
    <2>2. rsp'.pump \in {"check", "produce"} \/ rsp'.phase = "idle" => rsp'.symbolsOut < MaxBatches
      BY <1>0, <1>3, NeedFacts
    <2> HIDE DEF out
    <2> QED BY <1>0, <1>3, <2>1, <2>2, NeedFacts, TypedIntro
  <1>4. ASSUME NEW m \in net, onSyncEnd(m) PROVE Typed'
    <2> DEFINE out == {}
    <2>1. net' \subseteq net \cup out /\ \A f \in out : FrameOK(f)
      BY <1>4, EndFacts, HandledFacts
    <2>2. /\ rsp'.pump \in {"check", "produce"} \/ rsp'.phase = "idle" => rsp'.symbolsOut < MaxBatches
          /\ ini' \in Initiators /\ rsp' \in Responders
      BY <1>0, <1>4, EndFacts
    <2> HIDE DEF out
    <2> QED BY <1>0, <1>4, <2>1, <2>2, EndFacts, TypedIntro
  <1>5. ASSUME NEW m \in net, InitiatorRecords(m) PROVE Typed'
    <2> DEFINE out == {End(R)}
    <2>1. net' \subseteq net \cup out /\ \A f \in out : FrameOK(f)
      <3>1. Handled(m, {}) \/ Handled(m, {End(R)})
        BY <1>5, InitiatorRecordsFacts
      <3> QED BY <3>1, HandledFacts, EndsOK
    <2>2. DOMAIN got' = {I, R} /\ got'[I] \subseteq only[R] /\ got'[R] \subseteq only[I] /\ charged' \subseteq {I, R}
      BY <1>0, <1>5, InitiatorRecordsFacts DEF I, R
    <2> HIDE DEF out
    <2> QED BY <1>0, <1>5, <2>1, <2>2, InitiatorRecordsFacts, TypedIntro
  <1>6. ASSUME NEW m \in net, ResponderRecords(m) PROVE Typed'
    <2> DEFINE out == {End(I)}
    <2>1. net' \subseteq net \cup out /\ \A f \in out : FrameOK(f)
      <3>1. Handled(m, {}) \/ Handled(m, {End(I)})
        BY <1>6, ResponderRecordsFacts
      <3> QED BY <3>1, HandledFacts, EndsOK
    <2>2. DOMAIN got' = {I, R} /\ got'[I] \subseteq only[R] /\ got'[R] \subseteq only[I] /\ charged' \subseteq {I, R}
      BY <1>0, <1>6, ResponderRecordsFacts DEF I, R
    <2>3. rsp'.pump \in {"check", "produce"} \/ rsp'.phase = "idle" => rsp'.symbolsOut < MaxBatches
      BY <1>0, <1>6, ResponderRecordsFacts
    <2> HIDE DEF out
    <2> QED BY <1>0, <1>6, <2>1, <2>2, <2>3, ResponderRecordsFacts, TypedIntro
  <1>7. ASSUME NEW m \in net, ApplySymbols(m) PROVE Typed'
    <2> DEFINE out == {End(R)}
    <2>1. net' \subseteq net \cup out /\ (\A f \in out : FrameOK(f)) /\ charged' \subseteq {I, R}
      <3>1. (Handled(m, {}) \/ Handled(m, {End(R)})) /\ (charged' = charged \/ charged' = charged \cup {I})
        BY <1>7, ApplyFacts
      <3> QED BY <1>0, <3>1, HandledFacts, EndsOK
    <2> HIDE DEF out
    <2> QED BY <1>0, <1>7, <2>1, ApplyFacts, TypedIntro
  <1>8. CASE PumpCheck \/ ProduceSymbols
    <2> DEFINE out == Streamed
    <2>1. net' \subseteq net \cup out /\ \A f \in out : FrameOK(f)
      BY <1>8, PumpFacts DEF Streamed, FrameOK
    <2> HIDE DEF out
    <2> QED BY <1>0, <1>8, <2>1, PumpFacts, TypedIntro
  <1>9. CASE ShouldInitiatorConverge
    <2> DEFINE out == {}
    <2>1. net' \subseteq net \cup out /\ \A f \in out : FrameOK(f)
      BY <1>9, CheckFacts
    <2> HIDE DEF out
    <2> QED BY <1>0, <1>9, <2>1, CheckFacts, TypedIntro
  <1>10. CASE SendNeed
    <2>1. PICK ids \in SUBSET only[R] : net' = net \cup {Need(ids)} /\ FrameOK(Need(ids))
      BY <1>10, SendNeedFacts
    <2> DEFINE out == {Need(ids)}
    <2>2. net' \subseteq net \cup out /\ \A f \in out : FrameOK(f)
      BY <2>1
    <2> HIDE DEF out
    <2> QED BY <1>0, <1>10, <2>2, SendNeedFacts, TypedIntro
  <1>11. CASE SendPush
    <2>1. PICK out : net' = net \cup out /\ \A f \in out : FrameOK(f)
      BY <1>11, SendPushFacts
    <2>2. net' \subseteq net \cup out
      BY <2>1
    <2> QED BY <1>0, <1>11, <2>1, <2>2, SendPushFacts, TypedIntro
  <1>12. CASE CloseSession
    <2> DEFINE out == {End(R)}
    <2>1. net' \subseteq net \cup out /\ \A f \in out : FrameOK(f)
      BY <1>12, CloseFacts, EndsOK
    <2> HIDE DEF out
    <2> QED BY <1>0, <1>12, <2>1, CloseFacts, TypedIntro
  <1> QED BY <1>1, <1>2, <1>3, <1>4, <1>5, <1>6, <1>7, <1>8, <1>9, <1>10, <1>11, <1>12 DEF Next, Handle, Goroutines

-----------------------------------------------------------------------------
(* The decoder's order and the initiator's decision. *)

LEMMA Concat ==
    ASSUME NEW a \in Nat, NEW b \in Nat, a <= b, NEW s, s = [j \in 1 .. a |-> j - 1]
    PROVE  s \o [j \in 1 .. (b - a) |-> a + j - 1] = [j \in 1 .. b |-> j - 1]
  <1> DEFINE t == [j \in 1 .. (b - a) |-> a + j - 1]
             u == [j \in 1 .. b |-> j - 1]
  <1>1. s \in Seq(Int) /\ Len(s) = a /\ t \in Seq(Int) /\ Len(t) = b - a /\ u \in Seq(Int) /\ Len(u) = b
    OBVIOUS
  <1>2. s \o t \in Seq(Int) /\ Len(s \o t) = b
    BY <1>1
  <1>3. \A j \in 1 .. b : (s \o t)[j] = u[j]
    BY <1>1
  <1> HIDE DEF t, u
  <1>4. DOMAIN (s \o t) = 1 .. b /\ DOMAIN u = 1 .. b
    BY <1>1, <1>2
  <1> QED BY <1>1, <1>2, <1>3, <1>4 DEF t, u


LEMMA InOrderStep == Typed /\ Decided /\ InOrder /\ Next => InOrder'
  <1> SUFFICES ASSUME Typed, Decided, InOrder, Next PROVE InOrder'
    OBVIOUS
  <1>1. ASSUME NEW m \in net, ApplySymbols(m) PROVE InOrder'
    <2>1. CASE applied' = applied /\ ini'.symbolsIn = ini.symbolsIn
      BY <2>1 DEF InOrder
    <2>2. CASE /\ m.index = ini.symbolsIn /\ ini'.symbolsIn = Top(m)
               /\ applied' = applied \o [j \in 1 .. (Top(m) - m.index) |-> m.index + j - 1]
      <3>1. MaxBatches \in Nat \ {0} /\ ini.pending \subseteq {Sym(i) : i \in 1 .. (MaxBatches - 1)}
        BY TypedFacts DEF Initiators
      <3>2. m.index \in 0 .. (MaxBatches - 1) /\ m = Sym(m.index)
        BY <1>1, ApplyFacts
      <3>3. Top(m) \in (m.index + 1) .. MaxBatches
        BY <3>1, <3>2, TopFacts
      <3>4. m.index \in Nat /\ Top(m) \in Nat /\ m.index <= Top(m)
        BY <3>1, <3>2, <3>3
      <3>5. applied = [j \in 1 .. m.index |-> j - 1]
        BY <2>2 DEF InOrder
      <3>6. applied' = [j \in 1 .. Top(m) |-> j - 1]
        BY <2>2, <3>4, <3>5, Concat
      <3> QED BY <2>2, <3>6 DEF InOrder
    <2> QED BY <1>1, <2>1, <2>2, ApplyFacts
  <1>2. ASSUME NEW m \in net, Unknown(m) \/ Drop(m) \/ AcceptBegin(m) \/ onSyncNeed(m) \/ onSyncEnd(m)
                              \/ InitiatorRecords(m) \/ ResponderRecords(m)
        PROVE  applied' = applied /\ ini'.symbolsIn = ini.symbolsIn
    BY <1>2, UnknownFacts, BeginFacts, NeedFacts, EndFacts, InitiatorRecordsFacts, ResponderRecordsFacts
  <1>3. ASSUME Goroutines \/ CloseSession PROVE applied' = applied /\ ini'.symbolsIn = ini.symbolsIn
    BY <1>3, PumpFacts, CheckFacts, SendNeedFacts, SendPushFacts, CloseFacts DEF Goroutines
  <1>4. applied' = applied /\ ini'.symbolsIn = ini.symbolsIn => InOrder'
    BY DEF InOrder
  <1> QED BY <1>1, <1>2, <1>3, <1>4 DEF Next, Handle

LEMMA DecidedKept ==
    ASSUME Typed, Decided, full' = full, play' = play, ini'.fired = ini.fired, ini'.conv = ini.conv,
           ini'.needs = ini.needs, ini'.done = ini.done, ini'.symbolsIn = ini.symbolsIn
    PROVE  Decided'
  BY DEF Decided, MaxBatches

LEMMA DecidedStep == Typed /\ Decided /\ Next => Decided'
  <1> SUFFICES ASSUME Typed, Decided, Next PROVE Decided'
    OBVIOUS
  <1>0. /\ ini \in Initiators /\ MaxBatches \in Nat \ {0} /\ Floor \in Nat \ {0} /\ full \in 1 .. (MaxBatches + 1)
        /\ ini.symbolsIn \in 0 .. MaxBatches /\ ini.fired \in BOOLEAN /\ ini.done \in BOOLEAN
    BY TypedFacts DEF Initiators
  <1>1. ASSUME NEW m \in net, ApplySymbols(m) PROVE Decided'
    <2>1. /\ ini'.fired = ini.fired /\ ini'.conv = ini.conv /\ ini'.needs = ini.needs /\ full' = full /\ play' = play
          /\ m.index \in 0 .. (MaxBatches - 1) /\ m = Sym(m.index)
      BY <1>1, ApplyFacts
    <2>2. CASE ini'.done = ini.done /\ ini'.symbolsIn = ini.symbolsIn
      BY <2>1, <2>2, DecidedKept
    <2>3. CASE m.index = ini.symbolsIn /\ ini'.symbolsIn = Top(m) /\ (ini'.done => ini.done \/ Top(m) = MaxBatches)
      <3>1. Top(m) \in (m.index + 1) .. MaxBatches
        BY <1>0, <2>1, TopFacts DEF Initiators
      <3>2. ini'.done => ini'.symbolsIn = MaxBatches
        <4>1. ~ini.done
          BY <1>0, <2>1, <2>3 DEF Decided
        <4> QED BY <2>3, <4>1
      <3>3. ini'.symbolsIn > 0 /\ ini'.symbolsIn >= ini.symbolsIn /\ ini'.symbolsIn \in Nat
        BY <1>0, <2>1, <2>3, <3>1
      <3>4. ini.fired /\ full <= MaxBatches => ini'.symbolsIn >= full
        BY <1>0, <3>3 DEF Decided
      <3> QED BY <2>1, <3>2, <3>3, <3>4 DEF Decided, MaxBatches
    <2> QED BY <1>1, <2>2, <2>3, ApplyFacts
  <1>2. ASSUME NEW m \in net, Unknown(m) \/ Drop(m) \/ AcceptBegin(m) \/ onSyncNeed(m) \/ onSyncEnd(m)
                              \/ InitiatorRecords(m) \/ ResponderRecords(m)
        PROVE  Decided'
    <2>1. /\ full' = full /\ play' = play /\ ini'.fired = ini.fired /\ ini'.conv = ini.conv
          /\ ini'.needs = ini.needs /\ ini'.done = ini.done /\ ini'.symbolsIn = ini.symbolsIn
      BY <1>2, UnknownFacts, BeginFacts, NeedFacts, EndFacts, InitiatorRecordsFacts, ResponderRecordsFacts
    <2> QED BY <2>1, DecidedKept
  <1>3. CASE PumpCheck \/ ProduceSymbols
    BY <1>3, PumpFacts, DecidedKept
  <1>4. CASE CloseSession
    BY <1>4, CloseFacts, DecidedKept
  <1>5. CASE ShouldInitiatorConverge
    <2>1. CASE ini'.fired = ini.fired /\ ini'.conv = ini.conv
      BY <1>5, <2>1, CheckFacts, DecidedKept
    <2>2. CASE ~ini.fired /\ Ready /\ ini'.fired = TRUE /\ ini'.conv = "need"
      <3>1. ini.conv = "none" /\ ini.needs = 0
        BY <1>0, <2>2 DEF Decided
      <3>2. ini.symbolsIn > 0 /\ (full <= MaxBatches => ini.symbolsIn >= full)
        BY <1>0, <2>2 DEF Decided, Ready, LooksConverged
      <3> QED BY <1>5, <2>2, <3>1, <3>2, CheckFacts DEF Decided, MaxBatches
    <2> QED BY <1>5, <2>1, <2>2, CheckFacts
  <1>6. CASE SendNeed
    <2>1. ini.fired
      BY <1>0, <1>6, SendNeedFacts DEF Decided
    <2> QED BY <1>0, <1>6, <2>1, SendNeedFacts DEF Decided, MaxBatches
  <1>7. CASE SendPush
    <2>1. ini.fired /\ ini.needs = 1
      BY <1>0, <1>7, SendPushFacts DEF Decided
    <2> QED BY <1>0, <1>7, <2>1, SendPushFacts DEF Decided, MaxBatches
  <1> QED BY <1>1, <1>2, <1>3, <1>4, <1>5, <1>6, <1>7 DEF Next, Handle, Goroutines


-----------------------------------------------------------------------------
(* Phases and charges. *)

LEMMA InPhaseStep == Typed /\ Decided /\ InPhase /\ Next => InPhase'
  <1> SUFFICES ASSUME Typed, Decided, InPhase, Next PROVE InPhase'
    OBVIOUS
  <1> DEFINE Asked == \E m \in net : AskedFrame(m)
             Stream == \E m \in net : StreamFrame(m)
             early == {"idle", "begun"}
  <1>0. /\ ini.conv \in {"push", "over"} \/ Asked => ini.phase \notin early
        /\ ini.symbolsIn > 0 \/ Stream => rsp.phase \notin early
    BY DEF InPhase
  <1>1. /\ \A x : ~AskedFrame(End(x)) /\ ~StreamFrame(End(x))
        /\ \A i : ~AskedFrame(Sym(i))
        /\ \A s : ~StreamFrame(Need(s)) /\ ~StreamFrame(RecordsTo(I, s))
    BY FrameTypes DEF AskedFrame, StreamFrame, Sym, I, R
  <1>2. ASSUME NEW m \in net, Unknown(m) \/ Drop(m) PROVE InPhase'
    BY <1>0, <1>2, UnknownFacts DEF InPhase, AskedFrame, StreamFrame
  <1>3. ASSUME NEW m \in net, AcceptBegin(m) PROVE InPhase'
    <2>1. ~(ini.symbolsIn > 0) /\ ~Stream
      BY <1>0, <1>3, BeginFacts
    <2>2. net' \subseteq net \cup {End(I)} /\ ini' = ini
      BY <1>3, BeginFacts
    <2>3. (Asked' => Asked) /\ (Stream' => Stream)
      BY <1>1, <2>2 DEF AskedFrame, StreamFrame
    <2> QED BY <1>0, <2>1, <2>2, <2>3 DEF InPhase, AskedFrame, StreamFrame
  <1>4. ASSUME NEW m \in net, onSyncNeed(m) PROVE InPhase'
    <2>1. AskedFrame(m) /\ ini' = ini /\ rsp'.phase = "fulfilled"
      BY <1>4, NeedFacts DEF AskedFrame
    <2>2. Asked
      BY <2>1
    <2> HIDE DEF Asked
    <2> QED BY <1>0, <2>1, <2>2 DEF InPhase
  <1>5. ASSUME NEW m \in net, onSyncEnd(m) PROVE InPhase'
    <2>1. net' \subseteq net
      <3>1. Handled(m, {})
        BY <1>5, EndFacts
      <3> QED BY <3>1, HandledFacts
    <2>2. (Asked' => Asked) /\ (Stream' => Stream)
      BY <2>1 DEF AskedFrame, StreamFrame
    <2> QED BY <1>0, <1>5, <2>2, EndFacts DEF InPhase, AskedFrame, StreamFrame
  <1>6. ASSUME NEW m \in net, InitiatorRecords(m) PROVE InPhase'
    <2>1. Handled(m, {}) \/ Handled(m, {End(R)})
      BY <1>6, InitiatorRecordsFacts
    <2>2. net' \subseteq net \cup {End(R)}
      BY <2>1, HandledFacts
    <2>3. Stream' => Stream
      BY <1>1, <2>2 DEF StreamFrame
    <2>4. ini'.phase \notin early /\ rsp' = rsp /\ ini'.symbolsIn = ini.symbolsIn
      BY <1>6, InitiatorRecordsFacts
    <2> QED BY <1>0, <2>3, <2>4 DEF InPhase, StreamFrame
  <1>7. ASSUME NEW m \in net, ResponderRecords(m) PROVE InPhase'
    <2>1. Handled(m, {}) \/ Handled(m, {End(I)})
      BY <1>7, ResponderRecordsFacts
    <2>2. net' \subseteq net \cup {End(I)}
      BY <2>1, HandledFacts
    <2>3. Asked' => Asked
      BY <1>1, <2>2 DEF AskedFrame
    <2>4. rsp'.phase \notin early /\ ini' = ini
      BY <1>7, ResponderRecordsFacts
    <2> QED BY <1>0, <2>3, <2>4 DEF InPhase, AskedFrame
  <1>8. ASSUME NEW m \in net, ApplySymbols(m) PROVE InPhase'
    <2>1. ini'.phase \notin early /\ rsp' = rsp
      BY <1>8, ApplyFacts
    <2>2. StreamFrame(m)
      BY <1>8 DEF ApplySymbols, StreamFrame
    <2>3. rsp.phase \notin early
      BY <1>0, <2>2
    <2> QED BY <2>1, <2>3 DEF InPhase
  <1>9. CASE PumpCheck \/ ProduceSymbols
    <2>1. CASE net' = net /\ rsp'.phase = rsp.phase
      BY <1>0, <1>9, <2>1, PumpFacts DEF InPhase, AskedFrame, StreamFrame
    <2>2. CASE net' = net \cup {Sym(rsp.symbolsOut)} /\ rsp'.phase = "flowing"
      <3>1. Asked' => Asked
        BY <1>1, <2>2 DEF AskedFrame
      <3> QED BY <1>0, <1>9, <2>2, <3>1, PumpFacts DEF InPhase, AskedFrame
    <2> QED BY <1>9, <2>1, <2>2, PumpFacts
  <1>10. CASE ShouldInitiatorConverge
    BY <1>0, <1>10, CheckFacts DEF InPhase, AskedFrame, StreamFrame
  <1>11. CASE SendNeed
    <2>1. PICK ids : net' = net \cup {Need(ids)}
      BY <1>11, SendNeedFacts
    <2>2. Stream' => Stream
      BY <1>1, <2>1 DEF StreamFrame
    <2> QED BY <1>0, <1>11, <2>2, SendNeedFacts DEF InPhase, StreamFrame
  <1>12. CASE SendPush
    <2>1. ini.conv = "push" /\ ini'.phase \in {ini.phase, "fulfilled"} /\ rsp' = rsp
      BY <1>12, SendPushFacts
    <2>2. ini.symbolsIn > 0
      BY <2>1 DEF Decided
    <2>3. ini.phase \notin early /\ rsp.phase \notin early
      BY <1>0, <2>1, <2>2
    <2> QED BY <2>1, <2>3 DEF InPhase
  <1>13. CASE CloseSession
    <2>1. Stream' => Stream
      BY <1>1, <1>13, CloseFacts DEF StreamFrame
    <2> QED BY <1>0, <1>13, <2>1, CloseFacts DEF InPhase, StreamFrame
  <1> QED BY <1>2, <1>3, <1>4, <1>5, <1>6, <1>7, <1>8, <1>9, <1>10, <1>11, <1>12, <1>13 DEF Next, Handle, Goroutines

\* A buffer that holds the stream but its head never overflows.
LEMMA NoOverflow ==
    ASSUME Typed, NEW m, m.index \in 0 .. (MaxBatches - 1), m = Sym(m.index), m.index > ini.symbolsIn,
           m \notin ini.pending, MaxBatches <= MaxPending + 1
    PROVE  Cardinality(ini.pending) < MaxPending
  <1> DEFINE P == {Sym(i) : i \in 1 .. (MaxBatches - 1)}
             n == Cardinality(ini.pending)
  <1>1. MaxBatches \in Nat \ {0} /\ ini.pending \subseteq P /\ ini.symbolsIn \in Nat /\ MaxPending \in Nat
    BY TypedFacts, ExchangeAssumption DEF Initiators
  <1>2. m \in P
    BY <1>1
  <1>3. IsFiniteSet(P) /\ Cardinality(P) <= MaxBatches - 1
    BY <1>1, StreamFinite
  <1> HIDE DEF P
  <1>4. IsFiniteSet(ini.pending) /\ n \in Nat
    BY <1>1, <1>3, FS_Subset, FS_CardinalityType
  <1>5. IsFiniteSet(ini.pending \cup {m}) /\ Cardinality(ini.pending \cup {m}) = n + 1
    BY <1>4, FS_AddElement
  <1>6. ini.pending \cup {m} \in SUBSET P
    BY <1>1, <1>2
  <1>7. Cardinality(ini.pending \cup {m}) <= Cardinality(P) /\ Cardinality(P) \in Nat
    BY <1>3, <1>6, FS_Subset, FS_CardinalityType
  <1> HIDE DEF n
  <1> QED BY <1>1, <1>3, <1>4, <1>5, <1>7 DEF n

LEMMA UnchargedStep == Typed /\ Decided /\ InPhase /\ HonestUncharged /\ Next => HonestUncharged'
  <1> SUFFICES ASSUME Typed, Decided, InPhase, HonestUncharged, Next, MaxBatches <= MaxPending + 1
               PROVE  charged' = charged
    BY Rigid DEF HonestUncharged, MaxBatches
  <1>1. ASSUME NEW m \in net, ApplySymbols(m) PROVE charged' = charged
    <2>1. SUFFICES ASSUME /\ m.index > ini.symbolsIn /\ m \notin ini.pending
                          /\ Cardinality(ini.pending) >= MaxPending
                   PROVE  FALSE
      BY <1>1, ApplyFacts
    <2>2. m.index \in 0 .. (MaxBatches - 1) /\ m = Sym(m.index)
      BY <1>1, ApplyFacts
    <2>3. Cardinality(ini.pending) < MaxPending /\ Cardinality(ini.pending) \in Nat /\ MaxPending \in Nat
      <3>1. ini.pending \subseteq {Sym(i) : i \in 1 .. (MaxBatches - 1)} /\ MaxBatches \in Nat \ {0}
        BY TypedFacts DEF Initiators
      <3>2. IsFiniteSet(ini.pending)
        BY <3>1, StreamFinite, FS_Subset
      <3> QED BY <2>1, <2>2, <3>2, NoOverflow, FS_CardinalityType, ExchangeAssumption
    <2> QED BY <2>1, <2>3
  <1>2. ASSUME NEW m \in net, InitiatorRecords(m) PROVE charged' = charged
    <2>1. AskedFrame(m)
      BY <1>2 DEF InitiatorRecords, AskedFrame
    <2>2. ini.phase \notin {"idle", "begun"}
      BY <2>1 DEF InPhase
    <2> QED BY <1>2, <2>2, InitiatorRecordsFacts
  <1>3. ASSUME NEW m \in net, ResponderRecords(m) PROVE charged' = charged
    <2>1. StreamFrame(m)
      BY <1>3 DEF ResponderRecords, StreamFrame
    <2>2. rsp.phase \notin {"idle", "begun"}
      BY <2>1 DEF InPhase
    <2> QED BY <1>3, <2>2, ResponderRecordsFacts
  <1>4. ASSUME NEW m \in net, Unknown(m) \/ Drop(m) \/ AcceptBegin(m) \/ onSyncNeed(m) \/ onSyncEnd(m)
        PROVE  charged' = charged
    BY <1>4, UnknownFacts, BeginFacts, NeedFacts, EndFacts
  <1>5. ASSUME Goroutines \/ CloseSession PROVE charged' = charged
    BY <1>5, PumpFacts, CheckFacts, SendNeedFacts, SendPushFacts, CloseFacts DEF Goroutines
  <1> QED BY <1>1, <1>2, <1>3, <1>4, <1>5 DEF Next, Handle


-----------------------------------------------------------------------------
(* Where the records are. *)

\* A step that decides nothing, and takes away no sync_need and no sync_records.
LEMMA FlowKept ==
    ASSUME Flow, UNCHANGED <<play, only, full>>, Whole' => Whole, ini'.conv \in {"push", "over"} => ini'.conv = ini.conv,
           got[I] \subseteq got'[I], got[R] \subseteq got'[R],
           \A f \in net : f.type \in {"need", "records"} => f \in net'
    PROVE  Flow'
  <1> SUFFICES ASSUME Whole' PROVE
        /\ ini'.conv \in {"push", "over"} =>
                Need(only[R]) \in net' \/ \A r \in only[R] : r \in got'[I] \/ InFlight(I, r)'
        /\ ini'.conv = "over" => \A r \in only[I] : r \in got'[R] \/ InFlight(R, r)'
    BY DEF Flow, Need
  <1>1. \A x, r : InFlight(x, r) => InFlight(x, r)'
    BY DEF InFlight
  <1>2. Need(only[R]) \in net => Need(only[R]) \in net'
    BY FrameTypes
  <1> QED BY <1>1, <1>2 DEF Flow

LEMMA FlowStep == Typed /\ Decided /\ InPhase /\ Flow /\ Next => Flow'
  <1> SUFFICES ASSUME Typed, Decided, InPhase, Flow, Next PROVE Flow'
    OBVIOUS
  <1>0. /\ UNCHANGED <<play, only, full>> /\ I # R /\ ini \in Initiators /\ rsp \in Responders
        /\ MaxBatches' = MaxBatches /\ DOMAIN got = {I, R} /\ lost \in BOOLEAN
    BY Rigid, TypedFacts DEF I, R, MaxBatches
  <1>1. ASSUME NEW m \in net, Unknown(m) \/ Drop(m) PROVE Flow'
    BY <1>0, <1>1, UnknownFacts DEF Flow, Whole
  <1>2. ASSUME NEW m \in net, AcceptBegin(m) PROVE Flow'
    <2>1. ini.conv = "none" /\ ini' = ini
      BY <1>0, <1>2, BeginFacts DEF InPhase, Decided, Initiators
    <2> QED BY <2>1 DEF Flow
  <1>3. ASSUME NEW m \in net, onSyncNeed(m) PROVE Flow'
    <2> DEFINE S == m.ids \cap only[R]
               out == sendRecordsChunked(I, S)
    <2>1. /\ m.type = "need" /\ m = Need(m.ids) /\ Handled(m, out) /\ got' = got /\ ini' = ini /\ lost' = lost
          /\ rsp'.reg = rsp.reg
          /\ \A f \in out : f.type = "records" /\ f.to = I
          /\ \A r \in S : \E f \in out : r \in f.recs
      BY <1>3, NeedFacts
    <2>2. net \ {m} \subseteq net' /\ out \subseteq net'
      BY <2>1, HandledFacts
    <2>3. Whole' => Whole
      BY <1>0, <2>1 DEF Whole
    <2>4. \A f \in net : f.type = "records" => f \in net'
      BY <2>1, <2>2
    <2>5. \A x, r : InFlight(x, r) => InFlight(x, r)'
      BY <2>4 DEF InFlight
    <2>6. ASSUME m = Need(only[R]), NEW r \in only[R] PROVE InFlight(I, r)'
      <3>1. m.ids = only[R]
        BY <2>6, FrameTypes
      <3>2. PICK f \in out : r \in f.recs
        BY <2>1, <3>1
      <3> QED BY <2>1, <2>2, <3>2 DEF InFlight
    <2>7. Need(only[R]) \in net => Need(only[R]) \in net' \/ \A r \in only[R] : InFlight(I, r)'
      BY <2>2, <2>6
    <2> HIDE DEF S, out
    <2> SUFFICES ASSUME Whole PROVE
          /\ ini'.conv \in {"push", "over"} =>
                  Need(only[R]) \in net' \/ \A r \in only[R] : r \in got'[I] \/ InFlight(I, r)'
          /\ ini'.conv = "over" => \A r \in only[I] : r \in got'[R] \/ InFlight(R, r)'
      BY <1>0, <2>3 DEF Flow, Need
    <2> QED BY <2>1, <2>5, <2>7 DEF Flow
  <1>4. ASSUME NEW m \in net, onSyncEnd(m) PROVE Flow'
    BY <1>4, EndFacts DEF Flow, Whole
  <1>5. ASSUME NEW m \in net, InitiatorRecords(m) PROVE Flow'
    <2>1. m.type = "records" /\ m.to = I
      BY <1>5 DEF InitiatorRecords
    <2>2. CASE ini'.reg = FALSE
      BY <2>2 DEF Flow, Whole
    <2>3. CASE /\ ini'.reg = ini.reg /\ Handled(m, {}) /\ got' = [got EXCEPT ![I] = @ \cup m.recs]
      <3>1. net \ {m} \subseteq net' /\ got'[I] = got[I] \cup m.recs /\ got'[R] = got[R]
        BY <1>0, <2>3, HandledFacts
      <3>2. (Whole' => Whole) /\ ini'.conv = ini.conv
        BY <1>0, <1>5, <2>3, InitiatorRecordsFacts DEF Whole
      <3>3. \A r : r \in got[I] \/ InFlight(I, r) => r \in got'[I] \/ InFlight(I, r)'
        BY <3>1 DEF InFlight
      <3>4. \A r : InFlight(R, r) => InFlight(R, r)'
        BY <1>0, <2>1, <3>1 DEF InFlight
      <3>5. Need(only[R]) \in net => Need(only[R]) \in net'
        <4>1. Need(only[R]) # m
          BY <2>1, FrameTypes
        <4> QED BY <3>1, <4>1
      <3> SUFFICES ASSUME Whole PROVE
            /\ ini'.conv \in {"push", "over"} =>
                    Need(only[R]) \in net' \/ \A r \in only[R] : r \in got'[I] \/ InFlight(I, r)'
            /\ ini'.conv = "over" => \A r \in only[I] : r \in got'[R] \/ InFlight(R, r)'
        BY <1>0, <3>2 DEF Flow, Need
      <3> QED BY <3>1, <3>2, <3>3, <3>4, <3>5 DEF Flow
    <2> QED BY <1>5, <2>2, <2>3, InitiatorRecordsFacts
  <1>6. ASSUME NEW m \in net, ResponderRecords(m) PROVE Flow'
    <2>1. m.type = "records" /\ m.to = R
      BY <1>6 DEF ResponderRecords
    <2>2. CASE rsp'.reg = FALSE
      BY <2>2 DEF Flow, Whole
    <2>3. CASE /\ rsp'.reg = rsp.reg /\ Handled(m, {}) /\ got' = [got EXCEPT ![R] = @ \cup m.recs]
      <3>1. net \ {m} \subseteq net' /\ got'[R] = got[R] \cup m.recs /\ got'[I] = got[I]
        BY <1>0, <2>3, HandledFacts
      <3>2. (Whole' => Whole) /\ ini' = ini
        BY <1>0, <1>6, <2>3, ResponderRecordsFacts DEF Whole
      <3>3. \A r : r \in got[R] \/ InFlight(R, r) => r \in got'[R] \/ InFlight(R, r)'
        BY <3>1 DEF InFlight
      <3>4. \A r : InFlight(I, r) => InFlight(I, r)'
        BY <1>0, <2>1, <3>1 DEF InFlight
      <3>5. Need(only[R]) \in net => Need(only[R]) \in net'
        <4>1. Need(only[R]) # m
          BY <2>1, FrameTypes
        <4> QED BY <3>1, <4>1
      <3> SUFFICES ASSUME Whole PROVE
            /\ ini'.conv \in {"push", "over"} =>
                    Need(only[R]) \in net' \/ \A r \in only[R] : r \in got'[I] \/ InFlight(I, r)'
            /\ ini'.conv = "over" => \A r \in only[I] : r \in got'[R] \/ InFlight(R, r)'
        BY <1>0, <3>2 DEF Flow, Need
      <3> QED BY <3>1, <3>2, <3>3, <3>4, <3>5 DEF Flow
    <2> QED BY <1>6, <2>2, <2>3, ResponderRecordsFacts
  <1>7. ASSUME NEW m \in net, ApplySymbols(m) PROVE Flow'
    <2>1. m.type = "symbols" /\ got' = got /\ rsp' = rsp /\ lost' = lost /\ ini'.conv = ini.conv
      BY <1>7, ApplyFacts DEF ApplySymbols
    <2>2. CASE ini'.reg = FALSE
      BY <2>2 DEF Flow, Whole
    <2>3. CASE ini'.reg = ini.reg /\ Handled(m, {})
      <3>1. net \ {m} \subseteq net'
        BY <2>3, HandledFacts
      <3>2. \A f \in net : f.type \in {"need", "records"} => f \in net'
        BY <2>1, <3>1
      <3>3. Whole' => Whole
        BY <1>0, <2>1, <2>3 DEF Whole
      <3> QED BY <1>0, <2>1, <3>2, <3>3, FlowKept
    <2> QED BY <1>7, <2>2, <2>3, ApplyFacts
  <1>8. CASE PumpCheck \/ ProduceSymbols
    <2>1. rsp'.reg = rsp.reg /\ ini' = ini /\ got' = got /\ lost' = lost /\ net \subseteq net'
      BY <1>8, PumpFacts
    <2>2. Whole' => Whole
      BY <1>0, <2>1 DEF Whole
    <2> QED BY <1>0, <2>1, <2>2, FlowKept
  <1>9. CASE ShouldInitiatorConverge
    <2>1. /\ rsp' = rsp /\ ini'.reg = ini.reg /\ got' = got /\ lost' = lost /\ net' = net
          /\ ini'.conv \in {"push", "over"} => ini'.conv = ini.conv
      BY <1>9, CheckFacts
    <2>2. Whole' => Whole
      BY <1>0, <2>1 DEF Whole
    <2> QED BY <1>0, <2>1, <2>2, FlowKept
  <1>10. CASE SendNeed
    <2>1. ini'.conv = "push" /\ ini.conv = "need"
      BY <1>10, SendNeedFacts
    <2>2. ASSUME Whole' PROVE Need(only[R]) \in net'
      <3>1. ini.symbolsIn >= full
        BY <1>0, <2>1, <2>2 DEF Whole, Decided
      <3> QED BY <1>10, <3>1, SendNeedFacts
    <2> QED BY <1>0, <2>1, <2>2 DEF Flow, Need
  <1>11. CASE SendPush
    <2>1. PICK out : /\ net' = net \cup out
                     /\ \A f \in out : f.type = "records" /\ f.to = R
                     /\ ini.symbolsIn >= full => \A r \in only[I] : \E f \in out : r \in f.recs
      BY <1>11, SendPushFacts
    <2>2. rsp' = rsp /\ ini'.reg = ini.reg /\ got' = got /\ lost' = lost /\ ini.conv = "push" /\ ini'.conv = "over"
      BY <1>11, SendPushFacts
    <2>3. Whole' => Whole
      BY <1>0, <2>2 DEF Whole
    <2>4. \A x, r : InFlight(x, r) => InFlight(x, r)'
      BY <2>1 DEF InFlight
    <2> SUFFICES ASSUME Whole PROVE
          /\ Need(only[R]) \in net' \/ \A r \in only[R] : r \in got'[I] \/ InFlight(I, r)'
          /\ \A r \in only[I] : InFlight(R, r)'
      BY <1>0, <2>3 DEF Flow, Need
    <2>5. ini.symbolsIn >= full
      BY <2>2 DEF Whole, Decided
    <2>6. ASSUME NEW r \in only[I] PROVE InFlight(R, r)'
      <3>1. PICK f \in out : r \in f.recs
        BY <2>1, <2>5
      <3> QED BY <2>1, <3>1 DEF InFlight
    <2> QED BY <2>1, <2>2, <2>4, <2>6 DEF Flow
  <1>12. CASE CloseSession
    BY <1>12, CloseFacts DEF Flow, Whole
  <1> QED BY <1>1, <1>2, <1>3, <1>4, <1>5, <1>6, <1>7, <1>8, <1>9, <1>10, <1>11, <1>12 DEF Next, Handle, Goroutines


-----------------------------------------------------------------------------
(* The invariant and the theorems. *)

LEMMA InvInit == Init => SessionInv
  <1> SUFFICES ASSUME Init PROVE SessionInv
    OBVIOUS
  <1>1. Typed /\ MaxBatches \in Nat \ {0}
    BY TypedInit, TypedFacts
  <1>2. InOrder
    <2>1. applied = <<>> /\ ini.symbolsIn = 0
      BY DEF Init
    <2> QED BY <2>1 DEF InOrder
  <1>3. Decided
    BY <1>1 DEF Init, Decided
  <1>4. InPhase
    <2>1. ini.conv = "none" /\ ini.symbolsIn = 0 /\ net = {Begin}
      BY DEF Init
    <2> QED BY <2>1, FrameTypes DEF InPhase, AskedFrame, StreamFrame
  <1>5. HonestUncharged /\ Flow
    BY DEF Init, HonestUncharged, Flow
  <1> QED BY <1>1, <1>2, <1>3, <1>4, <1>5 DEF SessionInv

LEMMA InvStep == SessionInv /\ [Next]_vars => SessionInv'
  <1> SUFFICES ASSUME SessionInv, [Next]_vars PROVE SessionInv'
    OBVIOUS
  <1>1. CASE Next
    BY <1>1, TypedStep, InOrderStep, DecidedStep, InPhaseStep, UnchargedStep, FlowStep DEF SessionInv
  <1>2. CASE UNCHANGED vars
    <2>1. Typed'
      <3> DEFINE out == {}
      <3>1. net' \subseteq net \cup out /\ \A f \in out : FrameOK(f)
        BY <1>2 DEF vars
      <3> HIDE DEF out
      <3> QED BY <1>2, <3>1, TypedFacts, TypedIntro DEF vars, SessionInv
    <2>2. InOrder' /\ HonestUncharged'
      BY <1>2 DEF vars, SessionInv, InOrder, HonestUncharged, MaxBatches
    <2>3. Decided'
      BY <1>2 DEF vars, SessionInv, Decided, MaxBatches
    <2>4. InPhase'
      BY <1>2 DEF vars, SessionInv, InPhase, AskedFrame, StreamFrame
    <2>5. Flow'
      BY <1>2, FlowKept DEF vars, SessionInv, Whole, MaxBatches
    <2> QED BY <2>1, <2>2, <2>3, <2>4, <2>5 DEF SessionInv
  <1> QED BY <1>1, <1>2

\* HonestSession, for every size of the session: whatever is reordered, lost
\* or handled twice, ApplySymbols feeds the decoder the stream in order, one
\* sync_need is sent, and no honest peer is charged with misbehaviour as long
\* as the stream fits the reorder buffer.
THEOREM SessionHonest == Spec => []HonestSession
  <1>1. SessionInv => HonestSession
    <2> SUFFICES ASSUME SessionInv PROVE NeedsOnce
      BY DEF SessionInv, HonestSession
    <2> QED BY DEF SessionInv, Decided, NeedsOnce
  <1> QED BY <1>1, InvInit, InvStep, PTL DEF Spec

\* Reconciled, for every size of the session: a session that decoded the
\* difference, lost no frame and was ended by neither side leaves both sinks
\* with exactly the records of the other, in however many sync_records frames
\* (sendRecordsChunked) they came and in whatever order.
THEOREM SessionReconciles == Spec => []Reconciled
  <1>1. SessionInv => Reconciled
    <2> SUFFICES ASSUME SessionInv, Settled, ini.fired, ini.reg, rsp.reg, ~lost, full <= MaxBatches PROVE Union
      BY DEF Reconciled
    <2>1. Whole /\ net = {} /\ ini.conv = "over"
      BY DEF Whole, Settled, SessionInv, Decided
    <2>2. \A x, r : ~InFlight(x, r)
      BY <2>1 DEF InFlight
    <2>3. only[R] \subseteq got[I] /\ only[I] \subseteq got[R]
      BY <2>1, <2>2 DEF SessionInv, Flow
    <2>4. got[I] \subseteq only[R] /\ got[R] \subseteq only[I]
      BY TypedFacts DEF SessionInv
    <2> QED BY <2>3, <2>4 DEF Union
  <1> QED BY <1>1, InvInit, InvStep, PTL DEF Spec
=============================================================================
