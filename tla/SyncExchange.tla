---------------------------- MODULE SyncExchange ----------------------------
(***************************************************************************)
(* One set-reconciliation session between an initiator and a responder     *)
(* (internal/swarmsearch: sync_session.go, sync_dispatch.go): sync_begin,  *)
(* the responder's stream of coded-symbol batches, the initiator's         *)
(* sync_need and push, the responder's sync_records, sync_end.             *)
(*                                                                         *)
(* Each inbound frame is handled on its own goroutine, so frames take      *)
(* effect in any order; a frame that finds no worker free is dropped.      *)
(* SyncSession methods hold s.mu and are atomic.                           *)
(*                                                                         *)
(* Symbols are counted in batches.  The RIBLT decoder is abstracted to the *)
(* number of batches, `full', from which it knows the whole difference;    *)
(* before, a prefix shorter than convergeSymbolFloor may look converged.   *)
(***************************************************************************)
EXTENDS Integers, FiniteSets, Sequences

CONSTANTS Plays,            \* the instances: what the two peers and their connection are like
          MaxPending,       \* maxPendingSymbolBatches
          RecCap            \* MaxRecordsPerMessage

ASSUME ExchangeAssumption ==
    /\ MaxPending \in Nat /\ RecCap \in Nat \ {0}
    /\ \A p \in Plays :
        /\ IsFiniteSet(p.iOnly) /\ IsFiniteSet(p.rOnly)
        /\ p.iOnly \subseteq Nat /\ p.rOnly \subseteq Nat /\ p.iOnly \cap p.rOnly = {}
        /\ {p.maxBatches, p.floor, p.byteBudget, p.workers} \subseteq Nat \ {0}
        /\ {p.common, p.lossy, p.dups, p.closes} \subseteq BOOLEAN

I == "initiator"
R == "responder"

VARIABLES
    play,       \* the instance of this behaviour
    only,       \* the records only that side has when the session starts
    full,       \* batches the decoder needs (MaxBatches + 1: more than there are)
    net,        \* frames sent and not yet handled
    ini,        \* the initiator: its session, handlers past ApplySymbols, the one
                \* in initiatorConverge, and how many sync_need it has sent
    rsp,        \* the responder's session and pump
    got,        \* records each side's sink has absorbed from this session
    lost,       \* a frame was dropped
    charged,    \* sides that charged their peer with misbehaviour
    applied     \* batches folded into the decoder, in order

vars == <<play, only, full, net, ini, rsp, got, lost, charged, applied>>

IOnly == play.iOnly             \* records that only the initiator may have
ROnly == play.rOnly             \* records that only the responder may have
Common == play.common           \* there are records both have
MaxBatches == play.maxBatches   \* the symbol budget (maxSymbols)
Floor == play.floor             \* convergeSymbolFloor
ByteBudget == play.byteBudget   \* maxBytes, in records
Workers == play.workers         \* maxInboundSnSearchWorkers
Lossy == play.lossy             \* frames may be dropped
Dups == play.dups               \* a frame may be handled again
Closes == play.closes           \* the caller closes the session once Finalized

Phases == {"idle", "begun", "flowing", "needed", "fulfilled", "ended"}

Begin == [type |-> "begin", to |-> R]
Symbols(i, done) == [type |-> "symbols", to |-> I, index |-> i, done |-> done]
Need(ids) == [type |-> "need", to |-> R, ids |-> ids]
RecordsTo(x, recs) == [type |-> "records", to |-> x, recs |-> recs]
End(x) == [type |-> "end", to |-> x]

Recs == IOnly \cup ROnly
Frames ==
    {Begin} \cup {Symbols(i, d) : i \in 0..MaxBatches, d \in BOOLEAN}
    \cup {Need(s) : s \in SUBSET ROnly} \cup {End(x) : x \in {I, R}}
    \cup {RecordsTo(I, s) : s \in SUBSET ROnly} \cup {RecordsTo(R, s) : s \in SUBSET IOnly}

TypeOK ==
    /\ play \in Plays
    /\ only[I] \subseteq IOnly /\ only[R] \subseteq ROnly
    /\ full \in 1..(MaxBatches + 1)
    /\ net \subseteq Frames
    /\ ini \in [reg : BOOLEAN, phase : Phases, symbolsIn : 0..MaxBatches,
                pending : SUBSET {Symbols(i, d) : i \in 0..MaxBatches, d \in BOOLEAN},
                done : BOOLEAN, fired : BOOLEAN, bytesIn : 0..ByteBudget,
                checks : 0..Workers, conv : {"none", "need", "push", "over"},
                needs : 0..Workers]
    /\ rsp \in [reg : BOOLEAN, phase : Phases, symbolsOut : 0..MaxBatches,
                stopped : BOOLEAN, pump : {"none", "check", "produce", "over"},
                bytesIn : 0..ByteBudget]
    /\ got \in [{I, R} -> SUBSET Recs]
    /\ lost \in BOOLEAN /\ charged \subseteq {I, R}
    /\ applied \in Seq(0..MaxBatches)

\* StartSync: the session is registered, then sync_begin is sent.
Init ==
    /\ play \in Plays
    /\ only \in {[x \in {I, R} |-> IF x = I THEN a ELSE b] :
                   a \in SUBSET IOnly, b \in SUBSET ROnly}
    /\ full \in 1..(MaxBatches + 1)
    /\ net = {Begin}
    /\ ini = [reg |-> TRUE, phase |-> "begun", symbolsIn |-> 0, pending |-> {},
              done |-> FALSE, fired |-> FALSE, bytesIn |-> 0, checks |-> 0,
              conv |-> "none", needs |-> 0]
    /\ rsp = [reg |-> FALSE, phase |-> "idle", symbolsOut |-> 0, stopped |-> FALSE,
              pump |-> "none", bytesIn |-> 0]
    /\ got = [x \in {I, R} |-> {}]
    /\ lost = FALSE /\ charged = {} /\ applied = <<>>

\* The frame m is handled now (and again later, if Dups); out is sent.
Handled(m, out) == \E rest \in {net \ {m}} \cup (IF Dups THEN {net} ELSE {}) : net' = rest \cup out

(***************************************************************************)
(* The network and the inbound semaphore.                                  *)
(***************************************************************************)
\* A frame is dropped: its worker slot, or the reply's, was not to be had.
Drop(m) ==
    /\ Lossy
    /\ net' = net \ {m}
    /\ lost' = TRUE
    /\ UNCHANGED <<play, only, full, ini, rsp, got, charged, applied>>

\* A frame for a session that was released is dropped silently.
Unknown(m) ==
    /\ m.type # "begin" /\ IF m.to = I THEN ~ini.reg ELSE ~rsp.reg
    /\ net' = net \ {m}
    /\ UNCHANGED <<play, only, full, ini, rsp, got, lost, charged, applied>>

(***************************************************************************)
(* The responder.                                                          *)
(***************************************************************************)
\* onSyncBegin: a responder without records ends the session at once.  (A
\* repeated sync_begin is SyncRegistry's subject.)
AcceptBegin(m) ==
    /\ m.type = "begin" /\ rsp.phase = "idle"
    /\ IF only[R] = {} /\ ~Common
       THEN /\ rsp' = [rsp EXCEPT !.phase = "ended"]
            /\ net' = (net \ {m}) \cup {End(I)}
       ELSE /\ rsp' = [rsp EXCEPT !.reg = TRUE, !.phase = "begun", !.pump = "check"]
            /\ net' = net \ {m}
    /\ UNCHANGED <<play, only, full, ini, got, lost, charged, applied>>

\* runSyncPump: look at the stop channel, then produce and send a batch.
PumpCheck ==
    /\ rsp.pump = "check"
    /\ rsp' = [rsp EXCEPT !.pump = IF rsp.stopped THEN "over" ELSE "produce"]
    /\ UNCHANGED <<play, only, full, net, ini, got, lost, charged, applied>>

\* Mutant of ProduceSymbols: the last batch does not say done.
ProduceSilent ==
    /\ rsp.pump = "produce"
    /\ rsp' = [rsp EXCEPT !.symbolsOut = @ + 1, !.phase = "flowing",
                          !.pump = IF rsp.symbolsOut + 1 >= MaxBatches THEN "over" ELSE "check"]
    /\ net' = net \cup {Symbols(rsp.symbolsOut, FALSE)}
    /\ UNCHANGED <<play, only, full, ini, got, lost, charged, applied>>

ProduceSymbols ==
    LET last == rsp.symbolsOut + 1 >= MaxBatches IN
    /\ rsp.pump = "produce"
    /\ rsp' = [rsp EXCEPT !.symbolsOut = @ + 1, !.phase = "flowing",
                          !.pump = IF last THEN "over" ELSE "check"]
    /\ net' = net \cup {Symbols(rsp.symbolsOut, last)}
    /\ UNCHANGED <<play, only, full, ini, got, lost, charged, applied>>

\* sendRecordsChunked: frames of at most RecCap records, at least one frame.
Rank(S, r) == Cardinality({x \in S : x <= r})
Chunk(S, k) == {r \in S : (k - 1) * RecCap < Rank(S, r) /\ Rank(S, r) <= k * RecCap}
FrameCount(n) == IF n = 0 THEN 1 ELSE (n + RecCap - 1) \div RecCap
sendRecordsChunked(x, S) == {RecordsTo(x, Chunk(S, k)) : k \in 1..FrameCount(Cardinality(S))}

\* onSyncNeed: the pump is stopped and the records it has are sent.
onSyncNeed(m) ==
    /\ m.type = "need" /\ rsp.reg
    /\ rsp' = [rsp EXCEPT !.stopped = TRUE, !.phase = "fulfilled"]
    /\ Handled(m, sendRecordsChunked(I, m.ids \cap only[R]))
    /\ UNCHANGED <<play, only, full, ini, got, lost, charged, applied>>

(***************************************************************************)
(* Records and ends, on either side; errors.                               *)
(***************************************************************************)
\* endWithError on frame m: only the budgets are free of charge.
endWithError(m, x, free) ==
    /\ charged' = IF free THEN charged ELSE charged \cup {x}
    /\ Handled(m, {End(IF x = I THEN R ELSE I)})

\* Mutant of RecordsLegal: the strict gate before out-of-order dispatch.
RecordsLegalStrict(phase) == phase \in {"needed", "fulfilled"}

RecordsLegal(phase) == phase \notin {"idle", "begun"}

\* onSyncRecords at the initiator: the replies to its sync_need.
InitiatorRecords(m) ==
    LET legal == RecordsLegal(ini.phase)
        fits == ini.bytesIn + Cardinality(m.recs) <= ByteBudget IN
    /\ m.type = "records" /\ m.to = I /\ ini.reg
    /\ IF legal /\ fits
       THEN /\ ini' = [ini EXCEPT !.bytesIn = @ + Cardinality(m.recs), !.phase = "fulfilled"]
            /\ got' = [got EXCEPT ![I] = @ \cup m.recs]
            /\ Handled(m, {}) /\ UNCHANGED charged
       ELSE /\ ini' = [ini EXCEPT !.reg = FALSE, !.phase = "ended"]
            /\ endWithError(m, I, legal) /\ UNCHANGED got
    /\ UNCHANGED <<play, only, full, rsp, lost, applied>>

\* onSyncRecords at the responder: what the initiator pushes.
ResponderRecords(m) ==
    LET legal == RecordsLegal(rsp.phase)
        fits == rsp.bytesIn + Cardinality(m.recs) <= ByteBudget IN
    /\ m.type = "records" /\ m.to = R /\ rsp.reg
    /\ IF legal /\ fits
       THEN /\ rsp' = [rsp EXCEPT !.bytesIn = @ + Cardinality(m.recs), !.phase = "fulfilled"]
            /\ got' = [got EXCEPT ![R] = @ \cup m.recs]
            /\ Handled(m, {}) /\ UNCHANGED charged
       ELSE /\ rsp' = [rsp EXCEPT !.reg = FALSE, !.phase = "ended", !.stopped = TRUE]
            /\ endWithError(m, R, legal) /\ UNCHANGED got
    /\ UNCHANGED <<play, only, full, ini, lost, applied>>

onSyncEnd(m) ==
    /\ m.type = "end"
    /\ IF m.to = I
       THEN ini.reg /\ ini' = [ini EXCEPT !.reg = FALSE, !.phase = "ended"] /\ UNCHANGED rsp
       ELSE /\ rsp.reg /\ UNCHANGED ini
            /\ rsp' = [rsp EXCEPT !.reg = FALSE, !.phase = "ended", !.stopped = TRUE]
    /\ Handled(m, {})
    /\ UNCHANGED <<play, only, full, got, lost, charged, applied>>

(***************************************************************************)
(* The initiator's decoder.                                                *)
(***************************************************************************)
\* Mutant of AtHead: a batch behind the stream is applied again.
NotAhead(m) == m.index <= ini.symbolsIn

AtHead(m) == m.index = ini.symbolsIn

\* The stream position after m and the buffered batches that follow it.
Top(m) ==
    LET has(k) == \E b \in ini.pending \cup {m} : b.index = k
    IN CHOOSE k \in (m.index + 1)..(m.index + Cardinality(ini.pending) + 1) :
        ~has(k) /\ \A j \in m.index..(k - 1) : has(j)

\* ApplySymbols: a batch behind the stream is dropped, one ahead of it is
\* buffered, and one at its head is applied with the run that follows it.
\* (The pump keeps to the smaller of the two budgets, so the initiator's own
\* check never fires.)
ApplySymbols(m) ==
    LET next == [ini EXCEPT !.phase = "flowing", !.checks = @ + 1]
        run == {b \in ini.pending \cup {m} : m.index <= b.index /\ b.index < Top(m)}
    IN
    /\ m.type = "symbols" /\ ini.reg /\ ini.checks < Workers
    /\ \/ /\ m.index < ini.symbolsIn \/ m \in ini.pending
          /\ ini' = next
          /\ Handled(m, {}) /\ UNCHANGED <<charged, applied>>
       \/ /\ m.index > ini.symbolsIn /\ m \notin ini.pending
          /\ Cardinality(ini.pending) < MaxPending
          /\ ini' = [next EXCEPT !.pending = @ \cup {m}]
          /\ Handled(m, {}) /\ UNCHANGED <<charged, applied>>
       \/ /\ m.index > ini.symbolsIn /\ m \notin ini.pending
          /\ Cardinality(ini.pending) >= MaxPending
          /\ ini' = [ini EXCEPT !.reg = FALSE, !.phase = "ended"]
          /\ endWithError(m, I, FALSE) /\ UNCHANGED applied
       \/ /\ AtHead(m)
          /\ ini' = [next EXCEPT !.symbolsIn = Top(m), !.pending = @ \ run,
                                 !.done = @ \/ \E b \in run : b.done]
          /\ applied' = applied \o [j \in 1..(Top(m) - m.index) |-> m.index + j - 1]
          /\ Handled(m, {}) /\ UNCHANGED charged
    /\ UNCHANGED <<play, only, full, rsp, got, lost>>

\* What the decoder says of the batches so far: below the floor it may take
\* a short prefix for the whole.
LooksConverged == ini.symbolsIn >= full \/ ini.symbolsIn < Floor

\* Mutant of Ready: convergence is trusted on any prefix.
ReadyEarly == LooksConverged \/ ini.done

Ready == (LooksConverged /\ ini.symbolsIn >= Floor) \/ ini.done

\* Mutant of ShouldInitiatorConverge: no once-guard.
ConvergeAgain ==
    /\ ini.checks > 0
    /\ ini' = [ini EXCEPT !.checks = @ - 1, !.fired = @ \/ Ready,
                          !.conv = IF Ready THEN "need" ELSE @]
    /\ UNCHANGED <<play, only, full, net, rsp, got, lost, charged, applied>>

\* ShouldInitiatorConverge, called after every batch: TRUE at most once.
ShouldInitiatorConverge ==
    /\ ini.checks > 0
    /\ IF ~ini.fired /\ Ready
       THEN ini' = [ini EXCEPT !.checks = @ - 1, !.fired = TRUE, !.conv = "need"]
       ELSE ini' = [ini EXCEPT !.checks = @ - 1]
    /\ UNCHANGED <<play, only, full, net, rsp, got, lost, charged, applied>>

\* What has been peeled of S, one side of the difference.
Decoded(S) == IF ini.symbolsIn >= full THEN {S} ELSE SUBSET S

\* initiatorConverge: ask for what is missing (a difference that decodes
\* within the budget fits one sync_need), then push what the peer lacks.
SendNeed ==
    /\ ini.conv = "need"
    /\ ini' = [ini EXCEPT !.conv = "push", !.phase = "needed", !.needs = @ + 1]
    /\ \E ids \in Decoded(only[R]) : net' = net \cup {Need(ids)}
    /\ UNCHANGED <<play, only, full, rsp, got, lost, charged, applied>>

SendPush ==
    /\ ini.conv = "push"
    /\ \E recs \in Decoded(only[I]) :
        IF recs = {} THEN ini' = [ini EXCEPT !.conv = "over"] /\ UNCHANGED net
        ELSE /\ ini' = [ini EXCEPT !.conv = "over", !.phase = "fulfilled"]
             /\ net' = net \cup sendRecordsChunked(R, recs)
    /\ UNCHANGED <<play, only, full, rsp, got, lost, charged, applied>>

\* The caller, told by WaitSyncConverged that the session is Finalized.
CloseSession ==
    /\ Closes /\ ini.fired /\ ini.reg
    /\ ini' = [ini EXCEPT !.reg = FALSE, !.phase = "ended"]
    /\ net' = net \cup {End(R)}
    /\ UNCHANGED <<play, only, full, rsp, got, lost, charged, applied>>

Handle(m) ==
    \/ Unknown(m) \/ AcceptBegin(m) \/ onSyncNeed(m) \/ onSyncEnd(m)
    \/ InitiatorRecords(m) \/ ResponderRecords(m) \/ ApplySymbols(m)

Goroutines ==
    \/ PumpCheck \/ ProduceSymbols
    \/ ShouldInitiatorConverge \/ SendNeed \/ SendPush

Next ==
    \/ \E m \in net : Handle(m) \/ Drop(m)
    \/ Goroutines
    \/ CloseSession

Spec == Init /\ [][Next]_vars

\* Runnable goroutines run and a connection that stays up delivers: some
\* frame is handled, or some goroutine takes a step, as long as any can.
FairSpec == Spec /\ WF_vars((\E m \in net : Handle(m)) \/ Goroutines)

(***************************************************************************)
(* Properties.                                                             *)
(***************************************************************************)
\* The decoder is fed the stream in order, without a gap or a repetition,
\* whatever order the batches' goroutines run in: it takes the n-th symbol
\* it is given for the n-th of the stream.
InOrder == applied = [j \in 1..ini.symbolsIn |-> j - 1]

\* An initiator asks once: batches still in flight when it converges do not
\* make it send sync_need again.
NeedsOnce == ini.needs <= 1

\* Two honest peers never charge one another with misbehaviour: not for a
\* frame that overtook another, was handled twice or was dropped by a busy
\* worker pool.  (A gap longer than the reorder buffer is charged, and a
\* stream of 20 batches fits the buffer of 32.)
HonestUncharged == MaxBatches <= MaxPending + 1 => charged = {}

\* A session of honest peers whose frames are reordered, lost and handled
\* twice: the decoder is fed in order, one sync_need is sent, nobody is
\* charged.
HonestSession == InOrder /\ NeedsOnce /\ HonestUncharged

\* Every frame is handled and every goroutine is done.
Settled ==
    /\ net = {} /\ ini.checks = 0 /\ ini.conv \in {"none", "over"}
    /\ rsp.pump \in {"none", "over"}

Union == got[I] = only[R] /\ got[R] = only[I]

\* A session that decoded the difference and lost nothing leaves both sides
\* with the union of their records: nothing is forgotten because it came in
\* a second frame, past a short prefix, or before its reader was ready.
Reconciled ==
    Settled /\ ini.fired /\ ini.reg /\ rsp.reg /\ ~lost /\ full <= MaxBatches => Union

\* Finalized: "the safe signal for a caller to wait on before closing the
\* session": closing then costs no record, unless a budget was exceeded.
SafeClose ==
    Settled /\ ini.fired /\ ~lost /\ charged = {} /\ full <= MaxBatches => Union

\* A session that loses no frame and repeats none comes to a decision: the
\* initiator finalizes (converged, or the responder's budget is spent), or
\* the session ends.
Finalizes == <>(ini.fired \/ ~ini.reg \/ lost \/ Dups)
=============================================================================
