------------------------ MODULE DaemonLifecycleProofs ------------------------
(***************************************************************************)
(* Close takes nothing from under a worker it joins, leaves none of these  *)
(* running when it has returned, and New wires what a restored torrent     *)
(* needs before it restores: for any torrents, jobs, callers and           *)
(* configurations.                                                         *)
(*                                                                         *)
(* The argument: Close goes through its points in one order (Rank).  Past  *)
(* the point that joins or closes a part, the part is down (Joined), since *)
(* New has ended by then; a worker runs only while what it uses is up      *)
(* (Supported), and what it uses is closed at a point after its own.  The  *)
(* rescan and the announcer are not joined: they are told to end before    *)
(* the part they use goes (RescanTold, and Joined's last two conjuncts).   *)
(***************************************************************************)
EXTENDS DaemonLifecycle, TLAPS

Stages == {"identity", "engine", "session", "index", "signer", "companion", "restore", "api",
           "up", "aborts", "failed"}
ClosePoints == {"no", "jobs", "api", "compsub", "comppub", "engine", "pipeline", "swarm",
                "layerd", "ckpt", "client", "index", "done"}

\* The place of a point in the order of Close.
Rank(p) ==
    CASE p = "no" -> 0 [] p = "jobs" -> 1 [] p = "api" -> 2 [] p = "compsub" -> 3
      [] p = "comppub" -> 4 [] p = "engine" -> 5 [] p = "pipeline" -> 6 [] p = "swarm" -> 7
      [] p = "layerd" -> 8 [] p = "ckpt" -> 9 [] p = "client" -> 10 [] p = "index" -> 11
      [] p = "done" -> 12

\* The parts that some point of Close joins or closes.
Joinable == {"api", "compsub", "comppub", "pipeline", "layerd", "ckpt", "client", "index"}

TypeOK ==
    /\ conf \in [identity : BOOLEAN, noIndex : BOOLEAN, index : BOOLEAN, dht : BOOLEAN, publish : BOOLEAN, api : BOOLEAN]
    /\ stage \in Stages /\ close \in ClosePoints /\ bgClosed \in BOOLEAN
    /\ up \subseteq Parts /\ told \subseteq DOMAIN Uses /\ busy \subseteq Workers
    /\ auto \in [Torrents -> {"none", "wait", "mint", "publish", "write", "done", "gone"}]
    /\ indexing \subseteq Torrents /\ minted \subseteq Torrents /\ submitted \subseteq Torrents
    /\ doc \in [Torrents -> {"none", "written", "failed"}]
    /\ caller \in [Callers -> {"no", "waits", "returned"}]

\* Close and New exclude each other, but for the Close of an engine whose index did not open.
Phases ==
    /\ close # "no" => stage \in {"up", "aborts"}
    /\ stage = "aborts" => close \in {"engine", "pipeline", "swarm", "layerd", "ckpt", "client"}
    /\ bgClosed <=> (stage = "up" /\ close # "no")
    /\ \A c \in Callers : caller[c] = "returned" => close = "done"

\* What New has brought up when it may still fail.
StageParts ==
    /\ stage \in {"identity", "engine"} => up = {}
    /\ stage = "session" => "client" \in up /\ up \subseteq {"announce", "client"}
    /\ stage \in {"index", "aborts"} => up \subseteq {"announce", "client"} \cup Loops
    /\ stage = "failed" => up \subseteq told \cap Unjoined

\* What a worker uses is up while it runs.
Supported ==
    /\ stage \in {"index", "signer", "companion", "restore", "api", "up", "aborts"} /\ Rank(close) <= 10
        => "client" \in up
    /\ stage \in {"signer", "companion"} /\ conf.index => "index" \in up
    /\ \A p \in {"pipeline", "compsub", "comppub"} : p \in up => {"index", "client"} \subseteq up
    /\ "layerd" \in up => "client" \in up
    /\ "announce" \in up \ told => "client" \in up
    /\ "index" \in up => conf.index

\* A rescan under way has its pipeline, or has been told to end: the context is cancelled first.
RescanTold ==
    /\ "pipeline" \in told => Loops \subseteq told
    /\ "rescan" \in busy \ told => "pipeline" \in up

\* A worker works while it runs, a job until Close has joined the jobs.
BusyRuns ==
    /\ busy \ Jobs \subseteq up
    /\ busy \cap Jobs # {} => stage = "up" /\ close \in {"no", "jobs"}

\* Past the point of a part, it is down; past "engine" the loops are told, past "swarm" the announcer.
Joined ==
    /\ \A p \in Joinable : Rank(close) > Rank(p) => p \notin up
    /\ Rank(close) > 5 => Loops \subseteq told
    /\ Rank(close) > 7 => "announce" \in told

CloseInv == Phases /\ StageParts /\ Supported /\ RescanTold /\ BusyRuns /\ Joined

\* Each step of autoIndex is done with what the node ran when New restored.
AutoInv ==
    /\ stage \notin {"api", "up"} => \A t \in Torrents : auto[t] = "none" /\ doc[t] = "none"
    /\ close = "no" => \A t \in Torrents :
        /\ auto[t] \in {"publish", "write", "done"} /\ "signer" \in up => t \in minted
        /\ auto[t] \in {"write", "done"} /\ "layerd" \in up => t \in submitted
        /\ auto[t] = "done" /\ "index" \in up /\ t \in indexing => doc[t] # "none"
    /\ \A t \in Torrents \ indexing : doc[t] = "none"

-----------------------------------------------------------------------------
(* The orders of New and Close, written out. *)

LEMMA Names ==
    /\ DOMAIN Uses = {"pipeline", "compsub", "comppub", "layerd", "ckpt", "rescan", "prune", "announce"}
    /\ Parts = {"pipeline", "compsub", "comppub", "layerd", "ckpt", "rescan", "prune", "announce",
                "client", "index", "signer", "api"}
    /\ Workers = {"pipeline", "compsub", "comppub", "layerd", "ckpt", "rescan", "prune", "announce"} \cup Jobs
    /\ Workers \cap Parts = DOMAIN Uses
  BY JobsAssumption DEF Uses, Parts, Workers

LEMMA StageOrder ==
    /\ StageAfter("identity") = "engine" /\ StageAfter("engine") = "session"
    /\ StageAfter("session") = "index" /\ StageAfter("index") = "signer"
    /\ StageAfter("signer") = "companion" /\ StageAfter("companion") = "restore"
    /\ StageAfter("restore") = "api" /\ StageAfter("api") = "up"
  BY DEF StageAfter

LEMMA CloseOrder ==
    /\ CloseAfter("jobs") = "api" /\ CloseAfter("api") = "compsub" /\ CloseAfter("compsub") = "comppub"
    /\ CloseAfter("comppub") = "engine" /\ CloseAfter("engine") = "pipeline"
    /\ CloseAfter("pipeline") = "swarm" /\ CloseAfter("swarm") = "layerd" /\ CloseAfter("layerd") = "ckpt"
    /\ CloseAfter("ckpt") = "client" /\ CloseAfter("client") = "index" /\ CloseAfter("index") = "done"
  BY DEF CloseAfter

LEMMA Ranks ==
    /\ Rank("no") = 0 /\ Rank("jobs") = 1 /\ Rank("api") = 2 /\ Rank("compsub") = 3
    /\ Rank("comppub") = 4 /\ Rank("engine") = 5 /\ Rank("pipeline") = 6 /\ Rank("swarm") = 7
    /\ Rank("layerd") = 8 /\ Rank("ckpt") = 9 /\ Rank("client") = 10 /\ Rank("index") = 11
    /\ Rank("done") = 12
  BY DEF Rank

LEMMA RankIsNat == \A p \in ClosePoints : Rank(p) \in 0..12
  BY Ranks DEF ClosePoints

\* A point of Close is followed by the next one, and a joined part is one of its points.
LEMMA NextPoint ==
    ASSUME NEW p \in ClosePoints \ {"no", "done"}
    PROVE  /\ CloseAfter(p) \in ClosePoints \ {"no", "jobs"}
           /\ Rank(CloseAfter(p)) = Rank(p) + 1
           /\ \A q \in ClosePoints : Rank(q) = Rank(p) => q = p
  BY CloseOrder, Ranks DEF ClosePoints

-----------------------------------------------------------------------------
(* Types. *)

LEMMA InitType == Init => TypeOK
  BY ConfigsAssumption DEF Init, TypeOK, Stages, ClosePoints, AllConfigs

LEMMA TypeStep == TypeOK /\ [Next]_vars => TypeOK'
  <1> SUFFICES ASSUME TypeOK, [Next]_vars PROVE TypeOK'
    OBVIOUS
  <1> USE Names, StageOrder DEF TypeOK, Stages, torrentVars, autoVars, closeVars, At, StartUnchanged, Loops
  <1>1. CASE Starting
    <2>1. CASE LoadIdentity
      <3>1. conf' \in [identity : BOOLEAN, noIndex : BOOLEAN, index : BOOLEAN, dht : BOOLEAN, publish : BOOLEAN, api : BOOLEAN]
        BY <2>1, Zenon DEF LoadIdentity
      <3> QED BY <2>1, <3>1 DEF LoadIdentity
    <2>2. CASE StartClient
      BY <2>2 DEF StartClient
    <2>3. CASE LoadSession
      BY <2>3 DEF LoadSession, SessionFails
    <2>4. CASE OpenIndex
      BY <2>4 DEF OpenIndex, ClosePoints
    <2>5. CASE SetSigner
      BY <2>5 DEF SetSigner
    <2>6. CASE StartCompanion
      BY <2>6 DEF StartCompanion
    <2>7. CASE RestoreSession
      BY <2>7 DEF RestoreSession
    <2>8. CASE StartAPI
      BY <2>8 DEF StartAPI
    <2> QED BY <1>1, <2>1, <2>2, <2>3, <2>4, <2>5, <2>6, <2>7, <2>8 DEF Starting
  <1>2. CASE Teardown
    <2> USE CloseOrder DEF Closing, CloseUnchanged, Stopped
    <2>1. CASE JoinJobs \/ StopAPI \/ CloseSwarm \/ CloseIndex
      <3>1. close' \in ClosePoints /\ up' \subseteq up
        BY <2>1 DEF JoinJobs, StopAPI, CloseSwarm, CloseIndex, ClosePoints
      <3> QED BY <2>1, <3>1 DEF JoinJobs, StopAPI, CloseSwarm, CloseIndex
    <2>2. CASE CloseEngine
      BY <2>2 DEF CloseEngine, bgCancel, ClosePoints
    <2>3. CASE CloseClient
      BY <2>3 DEF CloseClient, ClosePoints
    <2>4. ASSUME NEW p \in Stopped \cup {"ckpt"}, Join(p) PROVE TypeOK'
      BY <2>4 DEF Join, ClosePoints
    <2>5. ASSUME NEW p \in Stopped, Tell(p) PROVE TypeOK'
      BY <2>5 DEF Tell
    <2> QED BY <1>2, <2>1, <2>2, <2>3, <2>4, <2>5 DEF Teardown
  <1>3. ASSUME NEW j \in Jobs, goBG(j) PROVE TypeOK'
    BY <1>3 DEF goBG
  <1>4. ASSUME NEW w \in Workers, Begin(w) \/ Finishing(w) PROVE TypeOK'
    BY <1>4 DEF Begin, Finishing, End, Leave
  <1>5. ASSUME NEW t \in Torrents, AutoIndex(t) PROVE TypeOK'
    <2> USE DEF Step
    <2>1. CASE GotInfo(t) \/ mintAggregateRecords(t) \/ publishTorrent(t)
      BY <2>1 DEF GotInfo, mintAggregateRecords, publishTorrent
    <2>2. CASE writeTorrentDoc(t)
      <3>1. doc' \in [Torrents -> {"none", "written", "failed"}]
        <4>1. doc' = doc \/ \E d \in {"failed", "written"} : doc' = [doc EXCEPT ![t] = d]
          BY <2>2 DEF writeTorrentDoc
        <4> QED BY <4>1
      <3> QED BY <2>2, <3>1 DEF writeTorrentDoc
    <2> QED BY <1>5, <2>1, <2>2 DEF AutoIndex
  <1>6. ASSUME NEW c \in Callers, CallClose(c) \/ Returns(c) PROVE TypeOK'
    BY <1>6 DEF CallClose, Returns, ClosePoints
  <1>7. CASE UNCHANGED vars
    BY <1>7 DEF vars
  <1> QED BY <1>1, <1>2, <1>3, <1>4, <1>5, <1>6, <1>7 DEF Next

\* The state is well typed at every stage of New and Close.
THEOREM TypeCorrect == Spec => []TypeOK
  BY InitType, TypeStep, PTL DEF Spec

-----------------------------------------------------------------------------
(* Close. *)

LEMMA InitClose == Init => CloseInv
  BY Ranks DEF Init, CloseInv, Phases, StageParts, Supported, RescanTold, BusyRuns, Joined, Joinable

\* A step of New keeps the invariant: nothing closes yet, and each part comes up after what it uses.
LEMMA StartingStep == TypeOK /\ CloseInv /\ Starting => CloseInv'
  <1> SUFFICES ASSUME TypeOK, CloseInv, Starting PROVE CloseInv'
    OBVIOUS
  <1> USE Names, StageOrder, Ranks DEF TypeOK, closeVars, At, StartUnchanged, Loops,
          CloseInv, Phases, StageParts, Supported, RescanTold, BusyRuns, Joined, Joinable
  <1>1. close = "no" /\ Rank(close) = 0
    BY DEF Starting, LoadIdentity, StartClient, LoadSession, OpenIndex, SetSigner, StartCompanion,
           RestoreSession, StartAPI
  <1>2. CASE LoadIdentity
    BY <1>1, <1>2 DEF LoadIdentity
  <1>3. CASE StartClient
    <2>0. up = {} /\ close' = "no" /\ UNCHANGED <<conf, busy, bgClosed, caller>>
      BY <1>1, <1>3 DEF StartClient
    <2>1. CASE stage' = "failed" /\ UNCHANGED <<up, told>>
      BY <1>1, <2>0, <2>1
    <2>2. CASE stage' = "session" /\ up' = {"announce", "client"} /\ UNCHANGED told
      BY <1>1, <2>0, <2>2
    <2>3. CASE stage' = "failed" /\ up' = {"announce"} /\ told' = told \cup {"announce"}
      BY <1>1, <2>0, <2>3 DEF Unjoined
    <2> QED BY <1>3, <2>0, <2>1, <2>2, <2>3 DEF StartClient
  <1>4. CASE LoadSession
    <2>0. /\ "client" \in up /\ up \subseteq {"announce", "client"} /\ stage = "session" /\ close' = "no"
          /\ UNCHANGED <<conf, busy, bgClosed, caller>>
      BY <1>1, <1>4 DEF LoadSession
    <2>1. CASE stage' = "index" /\ up' = up \cup Loops /\ UNCHANGED told
      BY <1>1, <2>0, <2>1
    <2>2. CASE stage' = "failed" /\ up' = up \ {"client"} /\ told' = told \cup {"announce"}
      <3>1. "client" \notin busy \ Jobs
        BY DEF TypeOK
      <3> QED BY <1>1, <2>0, <2>2, <3>1 DEF Unjoined
    <2> QED BY <1>4, <2>1, <2>2 DEF LoadSession, SessionFails
  <1>5. CASE OpenIndex
    <2>1. CASE stage' = "aborts"
      <3>1. /\ stage = "index" /\ close' = "engine" /\ UNCHANGED <<conf, up, told, busy, bgClosed, caller>>
        BY <1>1, <1>5, <2>1 DEF OpenIndex
      <3> QED BY <1>1, <2>1, <3>1
    <2>2. CASE stage' = "signer"
      BY <1>1, <1>5, <2>2 DEF OpenIndex
    <2> QED BY <1>5, <2>1, <2>2 DEF OpenIndex
  <1>6. CASE SetSigner
    BY <1>1, <1>6 DEF SetSigner
  <1>7. CASE StartCompanion
    BY <1>1, <1>7 DEF StartCompanion
  <1>8. CASE RestoreSession
    BY <1>1, <1>8 DEF RestoreSession
  <1>9. CASE StartAPI
    BY <1>1, <1>9 DEF StartAPI
  <1> QED BY <1>2, <1>3, <1>4, <1>5, <1>6, <1>7, <1>8, <1>9 DEF Starting

\* A step of Close keeps it: it takes a part down after the workers that use it.
LEMMA TeardownStep == TypeOK /\ CloseInv /\ Teardown => CloseInv'
  <1> SUFFICES ASSUME TypeOK, CloseInv, Teardown PROVE CloseInv'
    OBVIOUS
  <1> USE Names, CloseOrder, Ranks DEF TypeOK, CloseUnchanged, torrentVars, Closing, Loops, Stopped,
          CloseInv, Phases, StageParts, Supported, RescanTold, BusyRuns, Joined, Joinable
  <1>1. CASE JoinJobs
    BY <1>1 DEF JoinJobs
  <1>2. CASE StopAPI
    BY <1>2 DEF StopAPI
  <1>3. CASE CloseSwarm
    BY <1>3 DEF CloseSwarm
  <1>4. CASE CloseIndex
    BY <1>4 DEF CloseIndex
  <1>5. CASE CloseEngine
    BY <1>5 DEF CloseEngine, bgCancel
  <1>6. CASE CloseClient
    <2>1. Loops \cup {"announce"} \subseteq told /\ "ckpt" \notin up /\ UNCHANGED <<told, busy, conf, bgClosed, caller>>
      BY <1>6 DEF CloseClient
    <2>2. up' = up \ {"client"} /\ "client" \notin busy \ Jobs
      BY <1>6 DEF CloseClient
    <2>3. CASE stage = "aborts" /\ stage' = "failed" /\ close' = "no"
      BY <1>6, <2>1, <2>2, <2>3 DEF Unjoined
    <2>4. CASE stage # "aborts" /\ stage' = stage /\ close' = "index"
      <3>1. close = "client" /\ Rank(close) = 10 /\ Rank(close') = 11 /\ stage = "up"
        BY <1>6, <2>4 DEF CloseClient
      <3>2. \A p \in {"api", "compsub", "comppub", "pipeline", "layerd", "ckpt"} : p \notin up
        BY <3>1
      <3>3. Phases' /\ StageParts'
        BY <2>1, <2>4, <3>1
      <3>4. Supported' /\ RescanTold'
        BY <2>1, <2>2, <2>4, <3>1, <3>2
      <3>5. BusyRuns'
        BY <2>1, <2>2, <2>4, <3>1
      <3>6. Joined'
        BY <2>1, <2>2, <2>4, <3>1, <3>2
      <3> QED BY <3>3, <3>4, <3>5, <3>6
    <2> QED BY <1>6, <2>3, <2>4 DEF CloseClient
  <1>7. ASSUME NEW p \in Stopped \cup {"ckpt"}, Join(p) PROVE CloseInv'
    BY <1>7 DEF Join
  <1>8. ASSUME NEW p \in Stopped, Tell(p) PROVE CloseInv'
    BY <1>8 DEF Tell
  <1> QED BY <1>1, <1>2, <1>3, <1>4, <1>5, <1>6, <1>7, <1>8 DEF Teardown

\* So do the workers, the jobs, autoIndex and the callers of Close.
LEMMA WorkStep ==
    ASSUME TypeOK, CloseInv, [Next]_vars, ~Starting, ~Teardown
    PROVE  CloseInv'
  <1> USE Names, Ranks DEF TypeOK, torrentVars, closeVars, Loops,
          CloseInv, Phases, StageParts, Supported, RescanTold, BusyRuns, Joined, Joinable
  <1>1. ASSUME NEW j \in Jobs, goBG(j) PROVE CloseInv'
    BY <1>1, JobsAssumption DEF goBG
  <1>2. ASSUME NEW w \in Workers, Begin(w) PROVE CloseInv'
    BY <1>2, JobsAssumption DEF Begin
  <1>3. ASSUME NEW w \in Workers, End(w) PROVE CloseInv'
    BY <1>3 DEF End
  <1>4. ASSUME NEW w \in Workers, Leave(w) PROVE CloseInv'
    <2>1. /\ w \in DOMAIN Uses \cap up /\ w \notin busy /\ up' = up \ {w}
          /\ UNCHANGED <<conf, stage, told, busy, bgClosed, close, caller>>
      BY <1>4, JobsAssumption DEF Leave
    <2>2. Phases' /\ StageParts'
      BY <2>1
    <2>5. Supported'
      <3>1. w \notin {"index", "client"}
        BY <2>1
      <3> QED BY <2>1, <3>1
    <2>3. BusyRuns'
      BY <2>1
    <2>4. Joined'
      BY <2>1
    <2>6. RescanTold'
      BY <1>4, <2>1 DEF Leave
    <2> QED BY <2>2, <2>3, <2>4, <2>5, <2>6
  <1>5. ASSUME NEW t \in Torrents, AutoIndex(t) PROVE CloseInv'
    <2>1. UNCHANGED <<conf, stage, up, told, busy, bgClosed, close, caller>>
      BY <1>5 DEF AutoIndex, GotInfo, mintAggregateRecords, publishTorrent, writeTorrentDoc
    <2> QED BY <2>1
  <1>6. ASSUME NEW c \in Callers, CallClose(c) PROVE CloseInv'
    BY <1>6 DEF CallClose
  <1>7. ASSUME NEW c \in Callers, Returns(c) PROVE CloseInv'
    BY <1>7 DEF Returns
  <1>8. CASE UNCHANGED vars
    BY <1>8 DEF vars
  <1> QED BY <1>1, <1>2, <1>3, <1>4, <1>5, <1>6, <1>7, <1>8 DEF Next, Finishing

LEMMA CloseStep == TypeOK /\ CloseInv /\ [Next]_vars => CloseInv'
  BY StartingStep, TeardownStep, WorkStep

LEMMA CloseInvImplies == TypeOK /\ CloseInv => CloseOrderly
  <1> SUFFICES ASSUME TypeOK, CloseInv PROVE CloseOrderly
    OBVIOUS
  <1> USE Names, JobsAssumption DEF TypeOK, CloseInv
  <1>1. NeverPulledAway
    <2> SUFFICES ASSUME NEW w \in busy PROVE UsedBy(w) \subseteq up \/ w \in Unjoined \cap told
      BY DEF NeverPulledAway
    <2>1. CASE w \in Jobs
      BY <2>1, Ranks DEF BusyRuns, Supported, UsedBy
    <2>2. CASE w \notin Jobs
      <3>1. w \in up /\ w \in DOMAIN Uses /\ UsedBy(w) = Uses[w]
        BY <2>2 DEF BusyRuns, UsedBy
      <3>2. CASE w \in {"pipeline", "compsub", "comppub", "layerd", "ckpt", "prune"}
        BY <3>1, <3>2 DEF Supported, Uses
      <3>3. CASE w \in {"rescan", "announce"}
        BY <3>1, <3>3 DEF Supported, RescanTold, Uses, Unjoined
      <3> QED BY <3>1, <3>2, <3>3
    <2> QED BY <2>1, <2>2
  <1>2. DownWhenReturned
    <2>1. CASE stage = "failed"
      BY <2>1 DEF DownWhenReturned, BusyRuns, StageParts
    <2>2. ASSUME NEW c \in Callers, caller[c] = "returned"
          PROVE  /\ up \subseteq {"signer"} \cup (told \cap Unjoined)
                 /\ busy \subseteq Unjoined
      BY <2>2, Ranks DEF Phases, BusyRuns, Joined, Joinable, Loops, Unjoined
    <2> QED BY <2>1, <2>2 DEF DownWhenReturned
  <1> QED BY <1>1, <1>2 DEF CloseOrderly

\* Close never takes the index or the client from under a job or a worker it joins, and a rescan or an
\* announcement under way has been told to end before it loses the pipeline or the client.  When Close
\* has returned, or New has failed, every worker has ended but these and the pruning, told to end;
\* goroutines of autoIndex, which nobody joins, are not counted.
THEOREM ClosesInOrder == Spec => []CloseOrderly
  <1>1. Init => TypeOK /\ CloseInv
    BY InitType, InitClose
  <1>2. TypeOK /\ CloseInv /\ [Next]_vars => TypeOK' /\ CloseInv'
    BY TypeStep, CloseStep
  <1> QED BY <1>1, <1>2, CloseInvImplies, PTL DEF Spec

-----------------------------------------------------------------------------
(* New. *)

LEMMA AutoStep == TypeOK /\ CloseInv /\ AutoInv /\ [Next]_vars => AutoInv'
  <1> SUFFICES ASSUME TypeOK, CloseInv, AutoInv, [Next]_vars PROVE AutoInv'
    OBVIOUS
  <1> USE Names DEF TypeOK, AutoInv, torrentVars, autoVars, closeVars
  <1>1. CASE Starting
    <2> USE StageOrder DEF At, StartUnchanged
    <2>1. CASE RestoreSession
      BY <1>1, <2>1 DEF RestoreSession
    <2>2. CASE StartAPI
      BY <1>1, <2>2 DEF StartAPI
    <2>3. CASE OpenIndex
      BY <1>1, <2>3 DEF OpenIndex
    <2>4. CASE SetSigner \/ StartCompanion
      BY <1>1, <2>4 DEF SetSigner, StartCompanion
    <2>5. CASE LoadIdentity \/ StartClient \/ LoadSession
      BY <1>1, <2>5 DEF LoadIdentity, StartClient, LoadSession
    <2> QED BY <1>1, <2>1, <2>2, <2>3, <2>4, <2>5 DEF Starting
  <1>2. CASE Teardown
    <2> USE CloseOrder DEF CloseUnchanged, Closing, Stopped, Phases, CloseInv
    <2>1. CASE CloseClient
      BY <2>1 DEF CloseClient
    <2>2. CASE close' # "no" /\ UNCHANGED <<stage, auto, indexing, doc>>
      BY <2>2
    <2>3. ASSUME NEW p \in Stopped, Tell(p) PROVE close' # "no" /\ UNCHANGED <<stage, auto, indexing, doc>>
      BY <2>3 DEF Tell
    <2>4. ASSUME NEW p \in Stopped \cup {"ckpt"}, Join(p) PROVE close' # "no" /\ UNCHANGED <<stage, auto, indexing, doc>>
      BY <2>4 DEF Join
    <2>5. CASE JoinJobs \/ StopAPI \/ CloseEngine \/ CloseSwarm \/ CloseIndex
      BY <2>2, <2>5 DEF JoinJobs, StopAPI, CloseEngine, CloseSwarm, CloseIndex
    <2> QED BY <1>2, <2>1, <2>2, <2>3, <2>4, <2>5 DEF Teardown
  <1>3. ASSUME NEW j \in Jobs, goBG(j) PROVE AutoInv'
    BY <1>3 DEF goBG
  <1>4. ASSUME NEW w \in Workers, Begin(w) \/ End(w) \/ Leave(w) PROVE AutoInv'
    BY <1>4 DEF Begin, End, Leave
  <1>5. ASSUME NEW t \in Torrents, AutoIndex(t) PROVE AutoInv'
    <2> USE DEF Step
    <2>1. CASE GotInfo(t)
      BY <2>1 DEF GotInfo
    <2>2. CASE mintAggregateRecords(t)
      BY <2>2 DEF mintAggregateRecords
    <2>3. CASE publishTorrent(t)
      BY <2>3 DEF publishTorrent
    <2>4. CASE writeTorrentDoc(t)
      <3>1. /\ auto[t] = "write" /\ auto' = [auto EXCEPT ![t] = "done"]
            /\ UNCHANGED <<conf, stage, up, indexing, minted, submitted, close>>
        BY <2>4 DEF writeTorrentDoc
      <3>2. \A u \in Torrents \ {t} : doc'[u] = doc[u]
        BY <2>4 DEF writeTorrentDoc
      <3>3. t \notin indexing => doc'[t] = doc[t]
        BY <2>4 DEF writeTorrentDoc, writes
      <3>4. "index" \in up /\ t \in indexing => doc'[t] # "none"
        BY <2>4 DEF writeTorrentDoc, writes, CloseInv, Supported
      <3>5. stage \in {"api", "up"}
        BY <3>1
      <3> QED BY <3>1, <3>2, <3>3, <3>4, <3>5
    <2> QED BY <1>5, <2>1, <2>2, <2>3, <2>4 DEF AutoIndex
  <1>6. ASSUME NEW c \in Callers, CallClose(c) \/ Returns(c) PROVE AutoInv'
    BY <1>6 DEF CallClose, Returns
  <1>7. CASE UNCHANGED vars
    BY <1>7 DEF vars
  <1> QED BY <1>1, <1>2, <1>3, <1>4, <1>5, <1>6, <1>7 DEF Next, Finishing

\* Every restored torrent whose metadata came has its records minted, its keywords submitted and, with
\* its indexing on, the write of its document tried (it may fail), as far as the node runs a signer, a
\* publisher and an index: New wires them before it restores.  With indexing off it has no document.
THEOREM RestoresWired == Spec => []RestoredComplete
  <1>1. Init => TypeOK /\ CloseInv /\ AutoInv
    BY InitType, InitClose DEF Init, AutoInv
  <1>2. TypeOK /\ CloseInv /\ AutoInv /\ [Next]_vars => TypeOK' /\ CloseInv' /\ AutoInv'
    BY TypeStep, CloseStep, AutoStep
  <1>3. TypeOK /\ AutoInv => RestoredComplete
    BY DEF AutoInv, RestoredComplete
  <1> QED BY <1>1, <1>2, <1>3, PTL DEF Spec
=============================================================================
