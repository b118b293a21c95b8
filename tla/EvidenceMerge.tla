---------------------------- MODULE EvidenceMerge ----------------------------
(***************************************************************************)
(* Automatic evidence and its merge with direct rows: proxies drawn from   *)
(* the price series, the KSEI profile of an issuer, regulatory alerts      *)
(* among its events, and what finalize_job makes of all of them.  A KSEI   *)
(* profile is <<>> or one record.                                          *)
(***************************************************************************)
EXTENDS IssuerEvidence, MarketContext

\* build_broker_inventory_proxy.  tape has counts of days among the last twenty; pressure and
\* dryness stand for its readings of volume and close, observed for how many there are.
Persisted(t) == Clip(35 + 7 * t.accumulation + 5 * t.absorption - 8 * t.distribution - 5 * t.failed)
ProxyScore(f) ==
    LET dryness == Clip((30 * Persisted(f.tape) + 70 * f.tape.dryness) \div 100)
    IN Clip((35 * f.tape.pressure + 25 * Persisted(f.tape) + 20 * dryness + 20 * Finite(f.cycle, 50)) \div 100)

ProxyShift(f) ==
    IF f.tape.distribution >= 4 \/ f.tape.failed >= 4 \/ CyclePhase(f) = "RELEASE" THEN "INVENTORY_RELEASE"
    ELSE IF CyclePhase(f) = "COLLECTION" /\ ProxyScore(f) >= 60 THEN "COLLECTION_PERSISTING"
    ELSE IF ProxyScore(f) >= 65 /\ Persisted(f.tape) >= 60 THEN "COLLECTION_PERSISTING"
    ELSE IF ProxyScore(f) >= 55 \/ (CyclePhase(f) = "BOTTOMING" /\ ProxyScore(f) >= 54) THEN "BOTTOMING"
    ELSE "NONE"

\* At most 72 percent of coverage: it is no broker's identity.
BrokerProxy(f) ==
    [score |-> ProxyScore(f), coverage |-> Min({72, (72 * f.tape.observed) \div 9}), shift |-> ProxyShift(f),
     phase |-> CyclePhase(f), cannibalisation |-> 0, provenance |-> "PROXY"]

\* build_orderbook_proxy: acceptance, absorption, up value, proximity and volume of the last
\* session; friction and gap risk count against them.
BookProxy(f) ==
    [score |-> Clip(f.tape.acceptance - Max({0, f.friction - 45}) \div 10),
     coverage |-> (60 * f.tape.observed) \div 9, price |-> f.prices.high20, provenance |-> "PROXY"]

\* A direct row replaces the proxy whether or not it is verified.
BrokerOf(f, rows) == IF rows = <<>> THEN BrokerProxy(f) ELSE ParseBroker(rows)
BookOf(f, rows) == IF rows = <<>> THEN BookProxy(f) ELSE ParseOrderbook(rows)

-----------------------------------------------------------------------------
(* ksei_profiles_to_maps.                                                  *)

KseiOwnership(k) ==
    LET seen == {x \in {"shares", "local", "foreign", "scripless"} : k[x]} IN
    [score |-> IF k.verified /\ k.scripless THEN 57 ELSE NaN,
     coverage |-> IF k.verified THEN (45 * Cardinality(seen)) \div 4 ELSE 0,
     float |-> NaN, provenance |-> IF k.verified THEN "AUTO_PUBLIC" ELSE "PROVIDER_FAILED"]

\* Corporate actions that still need a look: not cancelled, undated or not long past.
ActiveAction(a) == a.material /\ ~a.cancelled /\ (~Seen(a.age) \/ (a.age >= -365 /\ a.age <= 180))

\* Of the critical fields the profile answers for the suspension alone; a provider's error is
\* not among the answers that count as unknown later.
KseiIntegrity(k) ==
    LET told == k.verified /\ k.status # ""
        stopped == told /\ k.status # "ACTIVE"
        active == \E a \in DOMAIN k.actions : ActiveAction(k.actions[a])
    IN [score |-> IF ~k.verified THEN NaN ELSE IF stopped THEN 5 ELSE IF active THEN 72 ELSE 88,
        coverage |-> IF k.verified THEN 42 ELSE 0, hard |-> stopped,
        state |-> IF ~k.verified THEN "AUTO_PUBLIC_PROVIDER_ERROR"
                  ELSE IF stopped THEN "AUTO_PUBLIC_PROXY_HARD_BLOCK" ELSE "AUTO_PUBLIC_PROXY_PARTIAL",
        provenance |-> IF k.verified THEN "AUTO_PUBLIC" ELSE "PROVIDER_FAILED",
        unknown |-> 5 + IF told THEN 0 ELSE 1, float |-> NaN,
        known |-> {"suspended"},
        cleared |-> k.verified /\ ~stopped /\ ~active]

\* What there is of an issuer KSEI says nothing about.
NoProfile == [score |-> NaN, coverage |-> 0, hard |-> FALSE, state |-> "MISSING", provenance |-> "",
              unknown |-> 99, float |-> NaN, known |-> {}, cleared |-> FALSE]

-----------------------------------------------------------------------------

\* Mutant: an event without a date is taken for one of today.
PointInTime_KeepsUndated(events) == RestrictValues(events, LAMBDA e : ~e.future)

\* _point_in_time_event_frame: what was not public at the decision, or has no date, is dropped.
PointInTime(events) == RestrictValues(events, LAMBDA e : ~e.future /\ Seen(e.age))

\* An alert is the set of critical fields an event speaks of.
Regulator(e) == e.verified \/ e.regulatorUrl
Alerting(e) == e.alert # {} /\ (~Seen(e.age) \/ e.age \in 0..120)

\* apply_regulatory_event_overlay: only a regulator's own alert blocks; what the press says
\* lowers the score and nothing else.
Overlay(base, events) ==
    LET alerting == {k \in DOMAIN events : Alerting(events[k])}
        official == {k \in alerting : Regulator(events[k])}
        said == UNION {events[k].alert : k \in official}
        known == base.known \cup said \cup (IF "special" \in said THEN {"fca"} ELSE {})
                 \cup UNION {events[k].alert \cap {"uma"} : k \in alerting}
        hard == base.hard \/ said \ {"uma"} # {}
    IN IF alerting = {} THEN base
       ELSE [score |-> IF hard THEN 5 ELSE Min({72, Finite(base.score, 72)}),
             coverage |-> Max({base.coverage, IF official # {} THEN 68 ELSE 60}), hard |-> hard,
             state |-> IF hard THEN "AUTO_PUBLIC_REGULATORY_HARD_BLOCK" ELSE "AUTO_PUBLIC_REGULATORY_CAUTION",
             provenance |-> "AUTO_PUBLIC",
             unknown |-> Cardinality(Critical \ known) + 1 + (IF Seen(base.float) THEN 0 ELSE 1),
             float |-> base.float, known |-> known, cleared |-> base.cleared]

-----------------------------------------------------------------------------
(* _merge_evidence_profile_maps: a direct value wins where there is one,   *)
(* coverage never falls, a block is never lifted, and two sources that     *)
(* differ in provenance are of neither.                                    *)

Provenance(base, direct) ==
    CASE base # "" /\ direct # "" /\ base # direct -> "MIXED"
      [] base = "" -> direct
      [] OTHER -> base

MergeIntegrity(base, rows) ==
    LET direct == IntegrityOf(Last(rows)) IN
    IF rows = <<>> THEN base
    ELSE [direct EXCEPT !.score = Finite(@, base.score), !.coverage = Max({@, base.coverage}),
                        !.hard = @ \/ base.hard, !.float = Finite(@, base.float),
                        !.provenance = Provenance(base.provenance, @)]

\* Registration and free float are different facts: their coverages add up.
MergeOwnership(base, rows) ==
    LET direct == OwnershipOf(Last(rows)) IN
    IF rows = <<>> THEN base
    ELSE [direct EXCEPT !.score = Finite(@, base.score), !.coverage = Min({100, @ + base.coverage}),
                        !.provenance = Provenance(base.provenance, @)]

\* _bridge_verified_ownership_free_float_to_integrity: a seventh of the coverage, a possible
\* block, and no clearance.
Bridged(owner, integrity) ==
    IF ~owner.direct \/ ~Seen(owner.float) \/ owner.float > 1000 THEN integrity
    ELSE [integrity EXCEPT !.float = Finite(@, owner.float),
                           !.coverage = IF Seen(integrity.float) THEN @ ELSE Min({100, @ + 14}),
                           !.hard = @ \/ owner.float < ExtremeFloat]

\* finalize_job: the evidence of one issuer on its ownership and its standing with the exchange.
OwnerEvidence(ksei, rows) ==
    LET base == IF ksei = <<>> THEN [score |-> NaN, coverage |-> 0, float |-> NaN, provenance |-> ""]
                ELSE KseiOwnership(Head(ksei))
        merged == MergeOwnership(base, rows)
    IN [score |-> merged.score, coverage |-> merged.coverage, float |-> merged.float,
        direct |-> rows # <<>> /\ Last(rows).verified # "no"]

IntegrityEvidence(ksei, rows, owner, events) ==
    LET profile == IF ksei = <<>> THEN NoProfile ELSE KseiIntegrity(Head(ksei))
        base == Overlay(profile, PointInTime(events))
        bridged == Bridged(owner, MergeIntegrity(base, rows))
    IN \* without any source the scoring assumes a block
       IF bridged.provenance = "" THEN [bridged EXCEPT !.hard = TRUE] ELSE bridged
=============================================================================
