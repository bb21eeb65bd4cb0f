-------------------------------- MODULE Admission --------------------------------
(***************************************************************************)
(* The deny-by-default publisher admission of internal/admission over the  *)
(* reputation tracker (daemon.reputationView), composed with Reputation:   *)
(* the tracker changes between and during its calls.  The endorsements are *)
(* those of the peer_announce handler (swarmsearch.handlePeerAnnounce).    *)
(***************************************************************************)
EXTENDS Reputation

CONSTANTS
    Anchors,                \* configured trust anchors
    MaxTracked,             \* MaxTrackedPublishers, 100 in the code
    EndorsementThreshold    \* 3 in the code

ASSUME AdmissionAssumption ==
    Anchors \subseteq Keys /\ MaxTracked \in Nat \ {0} /\ EndorsementThreshold \in Nat \ {0}

VARIABLES
    admitted,       \* State.admitted
    anchorsAdmitted,\* State.anchorsAdmitted
    endorsements,   \* State.endorsements
    observed,       \* State.observed
    call            \* the call between its two locked sections: [src, pub]
avars == <<admitted, anchorsAdmitted, endorsements, observed, call>>
vars == <<rvars, avars>>

NoCall == [src |-> "none", pub |-> Self]
Calls == [src : {"none", "bep51", "endorsement", "anchor", "seed"}, pub : Keys]

AInit ==
    /\ admitted = {} /\ anchorsAdmitted = {} /\ observed = {}
    /\ endorsements = [k \in Keys |-> {}]
    /\ call = NoCall

Init == RInit /\ AInit

-----------------------------------------------------------------------------
\* Mutant: the neutral prior counts as earned.
earnedAtPrior(pub) == Score(pub) >= 500 \/ IsSeeded(pub)

\* policy.earned: strictly above the unknown prior, or seeded.
earned(pub) == Score(pub) > 500 \/ IsSeeded(pub)

strongEndorsers(cand) == Cardinality({e \in endorsements[cand] : earned(e)})

\* AnchorRule, EndorsementRule and CrawlRule
Admit(src, pub) == src = "anchor" \/ strongEndorsers(pub) >= EndorsementThreshold \/ earned(pub)

UnderCap == Cardinality(admitted) - Cardinality(anchorsAdmitted) < MaxTracked

\* CandidateFromCrawl, for a verified signature: observed, then admit in a second section.
CandidateFromCrawl(pub) ==
    /\ call = NoCall /\ pub \notin admitted /\ Spend("notes")
    /\ observed' = observed \cup {pub}
    /\ call' = [src |-> "bep51", pub |-> pub]
    /\ UNCHANGED <<admitted, anchorsAdmitted, endorsements>>

\* IngestEndorsement; the announce handler drops self-endorsements.
IngestEndorsement(endorser, cand) ==
    /\ call = NoCall /\ endorser # cand /\ Spend("notes")
    /\ endorsements' = [endorsements EXCEPT ![cand] = @ \cup {endorser}]
    /\ call' = IF cand \in admitted THEN NoCall ELSE [src |-> "endorsement", pub |-> cand]
    /\ UNCHANGED <<admitted, anchorsAdmitted, observed>>

AdmitAnchor(pub) ==
    /\ call = NoCall /\ pub \in Anchors \ admitted /\ Spend("notes")
    /\ call' = [src |-> "anchor", pub |-> pub]
    /\ UNCHANGED <<admitted, anchorsAdmitted, endorsements, observed>>

\* AdmissionEngine.admit: already in, denied, capped, or admitted; anchors are exempt from the cap.
admit ==
    LET in == /\ call.pub \notin admitted
              /\ Admit(call.src, call.pub)
              /\ call.src = "anchor" \/ UnderCap
    IN  /\ call.src \in {"bep51", "endorsement", "anchor"}
        /\ admitted' = IF in THEN admitted \cup {call.pub} ELSE admitted
        /\ anchorsAdmitted' = IF in /\ call.src = "anchor" THEN anchorsAdmitted \cup {call.pub} ELSE anchorsAdmitted
        /\ call' = IF in /\ call.src = "anchor" THEN [call EXCEPT !.src = "seed"] ELSE NoCall
        /\ UNCHANGED <<endorsements, observed>>

\* reputationView.MarkSeeded, after the lock is released.
SeedAnchor ==
    /\ call.src = "seed"
    /\ records' = IF "tracker" \in loaded THEN MarkSeeded(records, {call.pub}) ELSE records
    /\ call' = NoCall
    /\ UNCHANGED <<admitted, anchorsAdmitted, endorsements, observed,
                   indexers, sources, bloom, trusted, loaded, disk, ckpt, work, search, promised,
                   operator, claims, left>>

AdmissionNext ==
    \/ \E pub \in Keys : CandidateFromCrawl(pub) \/ AdmitAnchor(pub)
    \/ \E endorser, cand \in Keys : IngestEndorsement(endorser, cand)

\* newState of a new process: nothing of the admission is persisted.
NewEngine ==
    /\ admitted' = {} /\ anchorsAdmitted' = {} /\ observed' = {}
    /\ endorsements' = [k \in Keys |-> {}]
    /\ call' = NoCall

AllButLeft == <<indexers, records, sources, bloom, trusted, loaded, disk, ckpt, work, search,
                promised, operator, claims>>

Next ==
    \/ (LookupNext \/ FeedbackNext) /\ UNCHANGED avars
    \/ AdmissionNext /\ UNCHANGED AllButLeft
    \/ admit /\ UNCHANGED rvars
    \/ SeedAnchor
    \/ \E files \in SUBSET {"bloom", "tracker", "trust"} : Restart(files) /\ NewEngine

Spec == Init /\ [][Next]_vars

-----------------------------------------------------------------------------
(* Every store holds what its Go type says. *)
TypeOK ==
    /\ StoresTyped
    /\ admitted \in SUBSET Keys /\ anchorsAdmitted \in SUBSET admitted /\ observed \in SUBSET Keys
    /\ endorsements \in [Keys -> SUBSET Keys]
    /\ call \in Calls

\* A key some local signal vouches for: a confirmed hit or a place on the seed list.
Rooted(k) == records[k].confirmed > 0 \/ records[k].seeded >= 0

(* No crowd of fresh keys admits itself: whoever is admitted is an anchor, has a confirmed *)
(* hit or a seed entry of its own, or has EndorsementThreshold endorsers that do, whatever *)
(* the order of endorsements, crawls, confirms and flags; and the publishers admitted      *)
(* without being anchors stay within MaxTrackedPublishers (policy.go, engine.go admit).    *)
RootedAdmission ==
    /\ TypeOK
    /\ \A p \in admitted :
         \/ p \in anchorsAdmitted \/ Rooted(p)
         \/ Cardinality({e \in endorsements[p] : Rooted(e)}) >= EndorsementThreshold
    /\ Cardinality(admitted \ anchorsAdmitted) <= MaxTracked

=============================================================================
