---------------------------- MODULE DaemonLifecycle ----------------------------
(***************************************************************************)
(* Starting and stopping a node (internal/daemon/daemon.go, New and Close  *)
(* of internal/engine/engine.go).  New brings the parts up in a fixed      *)
(* order, and two of them may abort it; Close takes them down while their  *)
(* goroutines are busy, and joins some of them.  Torrents restored from    *)
(* the session start goroutines that nobody joins, and three loops are     *)
(* only told to end.                                                       *)
(*                                                                         *)
(* A part is its name in the set up.  A worker is busy from the moment it  *)
(* takes work, one round or several in a row, until that work ends, by     *)
(* itself, by the context or by a timeout.                                 *)
(***************************************************************************)
EXTENDS Naturals, Sequences, FiniteSets

CONSTANTS
    Torrents,   \* the rows of the session file
    Jobs,       \* functions handed to goBG
    Callers,    \* the callers of Daemon.Close
    Configs     \* the configurations a node may start with

VARIABLES
    conf,       \* [identity, noIndex, index, dht, publish, api]: what the configuration asks for
    stage,      \* what New does next
    up,         \* the parts that run
    told,       \* the workers told to stop
    busy,       \* the workers in the middle of some work
    auto,       \* the goroutine of autoIndex of each restored torrent
    indexing,   \* the torrents restored with indexing on
    minted, submitted,  \* the torrents whose records and keywords are in
    doc,        \* the torrent document of each: "none", "written", or its write "failed"
    bgClosed,
    close,      \* what Daemon.Close does next
    caller      \* per caller of Close: "no", "waits" on closeOnce, "returned"
vars == <<conf, stage, up, told, busy, auto, indexing, minted, submitted, doc, bgClosed, close, caller>>

torrentVars == <<auto, indexing, minted, submitted, doc>>
autoVars == <<auto, indexing>>
closeVars == <<bgClosed, close, caller>>

Loops == {"rescan", "ckpt", "prune"}    \* the loops of engine.New, on the engine's context
\* What a worker uses while it is busy.
Uses == [pipeline |-> {"index", "client"}, compsub |-> {"index", "client"}, comppub |-> {"index", "client"},
         layerd |-> {"client"}, rescan |-> {"pipeline", "client"}, announce |-> {"client"}, ckpt |-> {}, prune |-> {}]
\* The workers that are told to end and not waited for: the rescan, the pruning of records and
\* announceWorker of the swarm protocol.
Unjoined == {"rescan", "prune", "announce"}
Workers == DOMAIN Uses \cup Jobs
UsedBy(w) == IF w \in Jobs THEN {"client"} ELSE Uses[w]
Parts == DOMAIN Uses \cup {"client", "index", "signer", "api"}

\* noIndex is the flag; without it there is an index if there is a directory for it.
AllConfigs ==
    {c \in [identity : BOOLEAN, noIndex : BOOLEAN, index : BOOLEAN, dht : BOOLEAN, publish : BOOLEAN, api : BOOLEAN] :
        c.index => ~c.noIndex}
ASSUME ConfigsAssumption == Configs \subseteq AllConfigs

\* A job is a function value, not one of the node's parts.
ASSUME JobsAssumption == Jobs \cap Parts = {}

-----------------------------------------------------------------------------
(* New. *)

\* Mutant: the session is restored before the signer is installed.
RestoreFirst(s) ==
    CASE s = "identity" -> "engine" [] s = "engine" -> "session" [] s = "session" -> "index"
      [] s = "index" -> "restore" [] s = "restore" -> "signer" [] s = "signer" -> "companion"
      [] s = "companion" -> "api" [] s = "api" -> "up"

StageAfter(s) ==
    CASE s = "identity" -> "engine" [] s = "engine" -> "session" [] s = "session" -> "index"
      [] s = "index" -> "signer" [] s = "signer" -> "companion" [] s = "companion" -> "restore"
      [] s = "restore" -> "api" [] s = "api" -> "up"

At(s) == stage = s /\ stage' = StageAfter(s)
StartUnchanged == UNCHANGED <<busy, minted, submitted, doc, closeVars>>

\* A failed load leaves the node without an identity.
LoadIdentity ==
    /\ At("identity")
    /\ \E ok \in BOOLEAN : conf' = [conf EXCEPT !.identity = @ /\ ok]
    /\ UNCHANGED <<up, told, autoVars>> /\ StartUnchanged

\* The swarm protocol, with its announceWorker, is up before the client, whose callbacks use it.
StartClient ==
    /\ stage = "engine"
    /\ \/ At("engine") /\ up' = up \cup {"announce", "client"} /\ UNCHANGED told
       \/ stage' = "failed" /\ UNCHANGED <<up, told>>      \* Validate failed
       \/ stage' = "failed" /\ up' = up \cup {"announce"} /\ told' = told \cup {"announce"}   \* NewClient failed
    /\ UNCHANGED <<conf, autoVars>> /\ StartUnchanged

\* Mutant: announceWorker is left running.
SessionFailsLeaky == up' = up \ {"client"} /\ UNCHANGED told

\* Without its torrents directory the engine does not start: swarm.Close and the client's.
SessionFails == up' = up \ {"client"} /\ told' = told \cup {"announce"}

LoadSession ==
    /\ stage = "session"
    /\ \/ At("session") /\ up' = up \cup Loops /\ UNCHANGED told
       \/ stage' = "failed" /\ SessionFails
    /\ UNCHANGED <<conf, autoVars>> /\ StartUnchanged

\* OpenWithLogger and SetIndex; an index that does not open closes the engine again.
OpenIndex ==
    /\ stage = "index"
    /\ \/ /\ At("index")
          /\ up' = up \cup (IF conf.index THEN {"index", "pipeline"} ELSE {})
          /\ UNCHANGED close
       \/ conf.index /\ stage' = "aborts" /\ close' = "engine" /\ UNCHANGED up
    /\ UNCHANGED <<conf, torrentVars, told, busy, bgClosed, caller>>

publishingActive == ~conf.noIndex /\ conf.publish

\* SetSigner brings the Layer-D publisher up, when there is a DHT and it may publish; a manifest
\* that does not load leaves the node without one.
SetSigner ==
    LET layerd == IF conf.dht /\ publishingActive THEN {"layerd"} ELSE {}
    IN  /\ At("signer")
        /\ IF conf.identity THEN \E built \in SUBSET layerd : up' = up \cup {"signer"} \cup built
           ELSE UNCHANGED up
        /\ UNCHANGED <<conf, told, autoVars>> /\ StartUnchanged

\* Two independent legs, each of which may fail without harm.
StartCompanion ==
    LET legs == IF conf.index /\ conf.dht
                THEN {"compsub"} \cup (IF conf.identity THEN {"comppub"} ELSE {}) ELSE {}
    IN  /\ At("companion")
        /\ \E started \in SUBSET legs : up' = up \cup started
        /\ UNCHANGED <<conf, told, autoVars>> /\ StartUnchanged

\* Rows that fail to restore are skipped.  The row's indexing flag is in the handle before its
\* goroutine starts.
RestoreSession ==
    /\ At("restore")
    /\ \E restored \in SUBSET Torrents :
          /\ auto' = [t \in Torrents |-> IF t \in restored THEN "wait" ELSE "none"]
          /\ indexing' \in SUBSET restored
    /\ UNCHANGED <<conf, up, told>> /\ StartUnchanged

StartAPI ==
    /\ At("api")
    /\ \E bound \in SUBSET (IF conf.api THEN {"api"} ELSE {}) :     \* an address that is taken: a warning
           up' = up \cup bound
    /\ UNCHANGED <<conf, told, autoVars>> /\ StartUnchanged

-----------------------------------------------------------------------------
(* The node at work. *)

\* goBG: once Close has begun nothing more is started.
goBG(j) ==
    /\ stage = "up" /\ ~bgClosed /\ j \notin busy
    /\ busy' = busy \cup {j}
    /\ UNCHANGED <<conf, stage, up, told, torrentVars, closeVars>>

\* Engine.Close holds idxMu while the pipeline stops.
idxMuHeld == close = "pipeline" /\ "pipeline" \in told

\* A worker that has not been told to stop takes work; a rescan has none without a pipeline.  A round
\* of pruning uses no part and nobody waits for its end: it is no work here.
Begin(w) ==
    /\ w \in up \ told /\ w \notin busy /\ w # "prune"
    /\ w = "rescan" => "pipeline" \in up /\ ~idxMuHeld
    /\ busy' = busy \cup {w}
    /\ UNCHANGED <<conf, stage, up, told, torrentVars, closeVars>>

End(w) ==
    /\ w \in busy
    /\ busy' = busy \ {w}
    /\ UNCHANGED <<conf, stage, up, told, torrentVars, closeVars>>

\* Between two pieces of work it sees that it is to stop.
Leave(w) ==
    /\ w \in told \cap up /\ w \notin busy
    /\ up' = up \ {w}
    /\ UNCHANGED <<conf, stage, told, busy, torrentVars, closeVars>>

\* autoIndex waits for the metadata, or for the end of the engine.
Step(t, from, to) == auto[t] = from /\ auto' = [auto EXCEPT ![t] = to]
GotInfo(t) ==
    /\ \/ Step(t, "wait", "mint")
       \/ "ckpt" \in told /\ Step(t, "wait", "gone")
    /\ UNCHANGED <<conf, stage, up, told, busy, indexing, minted, submitted, doc, closeVars>>

mintAggregateRecords(t) ==
    /\ Step(t, "mint", "publish")
    /\ minted' = IF "signer" \in up THEN minted \cup {t} ELSE minted
    /\ UNCHANGED <<conf, stage, up, told, busy, indexing, submitted, doc, closeVars>>

publishTorrent(t) ==
    /\ Step(t, "publish", "write")
    /\ submitted' = IF "layerd" \in up THEN submitted \cup {t} ELSE submitted
    /\ UNCHANGED <<conf, stage, up, told, busy, indexing, minted, doc, closeVars>>

\* Mutant: the document of every torrent is written.
writesAny(t) == conf.index

\* The index is there, if closed, and the torrent is to be indexed.
writes(t) == conf.index /\ t \in indexing

\* A closed index refuses the document, and an open one may: the failure is logged.
writeTorrentDoc(t) ==
    /\ ~idxMuHeld /\ Step(t, "write", "done")
    /\ doc' \in IF writes(t)
                THEN {[doc EXCEPT ![t] = d] : d \in {"failed"} \cup (IF "index" \in up THEN {"written"} ELSE {})}
                ELSE {doc}
    /\ UNCHANGED <<conf, stage, up, told, busy, indexing, minted, submitted, closeVars>>

-----------------------------------------------------------------------------
(* Close. *)

\* Mutant: the index is closed before the engine that writes into it.
CloseIndexFirst(p) ==
    CASE p = "jobs" -> "api" [] p = "api" -> "compsub" [] p = "compsub" -> "comppub" [] p = "comppub" -> "index"
      [] p = "index" -> "engine" [] p = "engine" -> "pipeline" [] p = "pipeline" -> "swarm"
      [] p = "swarm" -> "layerd" [] p = "layerd" -> "ckpt" [] p = "ckpt" -> "client" [] p = "client" -> "done"

\* The daemon's order, with the engine's own from engine to client.
CloseAfter(p) ==
    CASE p = "jobs" -> "api" [] p = "api" -> "compsub" [] p = "compsub" -> "comppub" [] p = "comppub" -> "engine"
      [] p = "engine" -> "pipeline" [] p = "pipeline" -> "swarm" [] p = "swarm" -> "layerd"
      [] p = "layerd" -> "ckpt" [] p = "ckpt" -> "client" [] p = "client" -> "index" [] p = "index" -> "done"

\* closeOnce: the first caller closes, the others wait for it.
CallClose(c) ==
    /\ stage = "up" /\ caller[c] = "no"
    /\ caller' = [caller EXCEPT ![c] = "waits"]
    /\ close' = IF close = "no" THEN "jobs" ELSE close
    /\ bgClosed' = TRUE
    /\ UNCHANGED <<conf, stage, up, told, busy, torrentVars>>

Returns(c) ==
    /\ close = "done" /\ caller[c] = "waits"
    /\ caller' = [caller EXCEPT ![c] = "returned"]
    /\ UNCHANGED <<conf, stage, up, told, busy, torrentVars, bgClosed, close>>

Closing(p) == close = p /\ close' = CloseAfter(p)
CloseUnchanged == UNCHANGED <<conf, torrentVars, bgClosed, caller>>

\* bgWG.Wait
JoinJobs == Closing("jobs") /\ busy \cap Jobs = {} /\ UNCHANGED <<stage, up, told, busy>> /\ CloseUnchanged

\* The listener closes at once, and Shutdown waits three seconds at most for the requests served.
StopAPI == Closing("api") /\ up' = up \ {"api"} /\ UNCHANGED <<stage, told, busy>> /\ CloseUnchanged

\* Stop of a companion worker, of the pipeline and of the Layer-D publisher: tell it, then wait for it.
Stopped == {"compsub", "comppub", "pipeline", "layerd"}
Tell(p) ==
    /\ close = p /\ p \in up \ told
    /\ told' = told \cup {p}
    /\ UNCHANGED <<stage, up, busy, close>> /\ CloseUnchanged
Join(p) == Closing(p) /\ p \notin up /\ UNCHANGED <<stage, up, told, busy>> /\ CloseUnchanged

\* Mutant: the checkpoint loop runs on a context of its own, which Close does not cancel.
bgCancelButCkpt == Loops \ {"ckpt"}

bgCancel == Loops

CloseEngine ==
    /\ Closing("engine")
    /\ told' = told \cup bgCancel
    /\ UNCHANGED <<stage, up, busy>> /\ CloseUnchanged

\* Protocol.Close closes a channel and waits for nobody.
CloseSwarm ==
    /\ Closing("swarm")
    /\ told' = told \cup {"announce"}
    /\ UNCHANGED <<stage, up, busy>> /\ CloseUnchanged

\* The end of Engine.Close, in Daemon.Close or in New.
CloseClient ==
    /\ close = "client"
    /\ up' = up \ {"client"}
    /\ IF stage = "aborts" THEN stage' = "failed" /\ close' = "no"
       ELSE close' = CloseAfter("client") /\ UNCHANGED stage
    /\ UNCHANGED <<told, busy>> /\ CloseUnchanged

CloseIndex ==
    /\ Closing("index")
    /\ up' = up \ {"index"}
    /\ UNCHANGED <<stage, told, busy>> /\ CloseUnchanged

-----------------------------------------------------------------------------
Init ==
    /\ conf \in Configs
    /\ stage = "identity" /\ up = {} /\ told = {} /\ busy = {}
    /\ auto = [t \in Torrents |-> "none"] /\ indexing = {} /\ minted = {} /\ submitted = {}
    /\ doc = [t \in Torrents |-> "none"]
    /\ bgClosed = FALSE /\ close = "no" /\ caller = [c \in Callers |-> "no"]

Starting == \/ LoadIdentity \/ StartClient \/ LoadSession \/ OpenIndex \/ SetSigner
            \/ StartCompanion \/ RestoreSession \/ StartAPI
AutoIndex(t) == GotInfo(t) \/ mintAggregateRecords(t) \/ publishTorrent(t) \/ writeTorrentDoc(t)
Teardown ==
    \/ JoinJobs \/ StopAPI \/ CloseEngine \/ CloseSwarm \/ Join("ckpt")
    \/ CloseClient \/ CloseIndex \/ \E p \in Stopped : Tell(p) \/ Join(p)
Finishing(w) == End(w) \/ Leave(w)

Next ==
    \/ Starting \/ Teardown
    \/ \E j \in Jobs : goBG(j)
    \/ \E w \in Workers : Begin(w) \/ Finishing(w)
    \/ \E t \in Torrents : AutoIndex(t)
    \/ \E c \in Callers : CallClose(c) \/ Returns(c)

Spec == Init /\ [][Next]_vars

\* Goroutines run; the work of a worker ends, by its context or by a timeout of its own.
FairSpec == /\ Spec /\ WF_vars(Starting) /\ WF_vars(Teardown)
            /\ \A w \in Workers : WF_vars(Finishing(w))
            /\ \A c \in Callers : WF_vars(Returns(c))

-----------------------------------------------------------------------------
(* Properties. *)

\* A worker that Close joins, or a job of goBG, never works on the index or the client after Close
\* has taken it down: it would lose an import, a content chunk or a seed half way.  The pipeline and
\* the client do go under a rescan or an announcement that Close does not wait for, but these have
\* been told to end by then (indexRescanOnce, announceWorker; README, section 6).
NeverPulledAway == \A w \in busy : UsedBy(w) \subseteq up \/ w \in Unjoined \cap told

\* Every torrent that New restored has its records minted, its keywords submitted and the write of
\* its document tried whenever its metadata comes, as far as the node runs a signer, a Layer-D
\* publisher and an index and the session has the torrent's indexing on; with it off no document is
\* written.  New wires what autoIndex of a restored torrent uses before it restores, or the torrent
\* stays unpublished until the next start.  A write that fails is logged and not tried again.
RestoredComplete ==
    /\ close = "no" => \A t \in Torrents : auto[t] = "done" =>
        /\ "signer" \in up => t \in minted
        /\ "layerd" \in up => t \in submitted
        /\ "index" \in up /\ t \in indexing => doc[t] # "none"
    /\ \A t \in Torrents \ indexing : doc[t] = "none"

\* When New has failed, or a Close has returned to any of its callers, every worker has ended but
\* those that are only told to end.  A goroutine of autoIndex may still run: nobody joins it, and one
\* whose torrent has its metadata does not look at the engine's context any more.
DownWhenReturned ==
    stage = "failed" \/ (\E c \in Callers : caller[c] = "returned")
        => /\ up \subseteq {"signer"} \cup (told \cap Unjoined)
           /\ busy \subseteq Unjoined

\* Close takes nothing from under a worker it joins, and none of these runs when it has returned.
CloseOrderly == NeverPulledAway /\ DownWhenReturned

\* Every call of Close returns.
CloseReturns == \A c \in Callers : caller[c] = "waits" ~> caller[c] = "returned"

=============================================================================
