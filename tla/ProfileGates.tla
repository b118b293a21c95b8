---------------------------- MODULE ProfileGates ----------------------------
(***************************************************************************)
(* build_emir_profile: one issuer's evidence d becomes a row of the radar, *)
(* with its decision state, its real-money gate and its caps.  Caps are in *)
(* tenths of a percent, risk budgets in hundredths, turnover and capital   *)
(* in million rupiah.                                                      *)
(***************************************************************************)
EXTENDS ExecutionPlan, EvidenceMerge, NarrativeState

Flow(d) ==
    IF d.broker.coverage = 0 /\ Seen(d.features.smart)
    THEN [score |-> d.features.smart, coverage |-> (60 * d.features.smartCoverage) \div 100]
    ELSE Weighted(<<Part(d.features.smart, 60, d.features.smartCoverage),
                    Part(d.broker.score, 40, d.broker.coverage)>>)

Observed(f) == f.coverage > 0 /\ (Seen(f.conversion) \/ f.quality > 0)
FundamentalGate(f, coverage) ==
    Observed(f) /\ f.coverage >= coverage /\ Finite(f.conversion, 0) >= 55 /\ f.quality >= 75

\* The eleven parts of the conviction; structure is price geometry alone.
Components(d) ==
    LET story == Weighted(<<Part(d.story.score, 40, d.story.coverage), Part(d.story.reach, 60, d.story.coverage)>>)
        owner == Weighted(<<Part(d.story.reach, 55, d.story.coverage), Part(d.owner.score, 45, d.owner.coverage)>>)
        context == Weighted(<<Part(d.sector.score, 65, d.sector.coverage), Part(d.market.score, 35, d.market.coverage)>>)
        float == IF d.owner.float \in 100..350 THEN 80 ELSE IF d.owner.float \in 50..500 THEN 55 ELSE NaN
        liquid == Weighted(<<Self(LiquidityScore(d.features.adtv), 65),
                             Part(float, 35, IF Seen(float) THEN d.owner.coverage ELSE 0)>>)
        Group(g, weight) == Part(g.score, weight, g.coverage)
    IN <<Group(Flow(d), 18), Part(d.fund.conversion, 16, d.fund.coverage), Group(story, 14),
         Self(d.features.geometry, 13), Group(context, 10),
         Part(d.story.bridge, 8, IF Seen(d.story.bridge) THEN d.story.coverage ELSE 0), Group(owner, 7),
         Group(d.integrity, 5), Group(d.book, 4), Self(d.features.trend, 3), Group(liquid, 2)>>

\* Fundamentals nobody provided leave the denominator.
Counted(components, f) == IF Observed(f) THEN components ELSE RemoveAt(components, 2)
EvidenceCoverage(d) == Weighted(Counted(Components(d), d.fund)).coverage

Sells(broker) == broker.shift \in {"DISTRIBUTION_DOMINANT", "INVENTORY_RELEASE"}
BrokerSells(d) == d.broker.coverage >= 52 /\ Sells(d.broker)
Distribution(d) == IF BrokerSells(d) THEN Max({d.features.distribution, 70}) ELSE d.features.distribution

Penalty(d) ==
    (18 * (IF BrokerSells(d) THEN Distribution(d) ELSE 0) + 13 * Max({0, d.features.crowding - 55})
     + 8 * d.broker.cannibalisation + 6 * Max({0, d.features.friction - 45})
     + (IF d.story.state = "CONTRADICTED_OR_NEGATIVE" THEN 1200 ELSE 0)) \div 100

Less(raw, penalty) == IF Seen(raw) THEN Clip(raw - penalty) ELSE NaN
Conviction(d) == Less(Weighted(Components(d)).score, Penalty(d))

LifecycleOf(d) == Lifecycle(d.features.smart, d.broker.score, d.story, d.features.distribution,
                            d.features.crowding, PriceStage(d.features),
                            IF d.broker.shift = "INVENTORY_RELEASE" THEN "RELEASE" ELSE d.broker.phase)

PlanOf(d) == Plan(d.features.prices, LifecycleOf(d),
                  [verified |-> d.book.provenance = "DIRECT", price |-> d.book.price])

\* The readings of the evidence that the gates below share, as r.
Reading(d) ==
    [conviction |-> Conviction(d), coverage |-> EvidenceCoverage(d), lifecycle |-> LifecycleOf(d),
     plan |-> PlanOf(d)]

LeaderException(d) ==
    d.market.regime = "RISK_OFF" /\ d.sector.state = "LEADING" /\ d.sector.score >= 65
    /\ d.sector.strength > 0 /\ d.sector.momentum >= 0
MarketAllows(d) == d.market.regime # "RISK_OFF" \/ LeaderException(d)

DataBlock(d) ==
    \/ ~d.features.ok
    \/ OhlcvState(d.features) \in {"STALE_DATA_BLOCK", "INSUFFICIENT_HISTORY", "ILLIQUID_OR_SUSPENDED_PATTERN"}
    \/ d.features.anomaly /\ ~d.integrity.cleared

CalibrationBlock(d, r) ==
    /\ d.account.calibration = "GUARDED"
    /\ SelectCalibration(d.outcomes, r.lifecycle, StructureMode(d.features)) = "EMPIRICAL_EDGE_REJECTED"

\* The thesis gate; the automatic one has lower floors and lower ceilings.
Thesis(d, r, conviction, coverage, fundamental, flow, distribution, crowding, friction) ==
    /\ d.deep /\ AtLeast(r.conviction, conviction) /\ r.coverage >= coverage
    /\ FundamentalGate(d.fund, fundamental)
    /\ d.story.coverage >= 30 /\ AtLeast(d.story.bridge, 45)
    /\ d.story.verified >= 1 \/ d.story.independent >= 2
    /\ Flow(d).coverage >= flow /\ StructureScore(d.features) >= 54
    /\ LiquidityScore(d.features.adtv) >= 45
    /\ Distribution(d) < distribution /\ d.features.crowding < crowding /\ d.features.friction < friction
    /\ r.lifecycle \in {"EARLY_CONVERGENCE", "MOMENTUM_TRIGGERED"}
    /\ StructureMode(d.features) # "NO_CLEAR_STRUCTURE" /\ MarketAllows(d)
    /\ ~DataBlock(d) /\ ~CalibrationBlock(d, r)

CoreThesis(d, r) == Thesis(d, r, 62, 56, 45, 52, 52, 70, 72)
AutoThesis(d, r) == Thesis(d, r, 55, 50, 35, 45, 50, 68, 68)

IntegrityReady(d) == d.integrity.provenance = "DIRECT" /\ d.integrity.coverage >= 70 /\ ~d.integrity.hard
IntegrityAuto(d) ==
    d.integrity.provenance = "AUTO_PUBLIC" /\ d.integrity.coverage >= 70 /\ d.integrity.unknown = 0
    /\ ~d.integrity.hard

-----------------------------------------------------------------------------
(* Capacity, in tenths of a percent of the capital.                        *)

RequestedCap(d) ==
    LET cap == Max({0, Min({d.account.maxCap, 300})}) IN
    IF d.account.mode = "GUARDED_REAL_MONEY"
    THEN Min({cap, IF d.market.regime = "RISK_OFF" THEN 50 ELSE 75}) ELSE cap

StrongCap(d, r) ==
    IF AtLeast(r.conviction, 78) /\ LiquidityScore(d.features.adtv) >= 70 THEN 200
    ELSE IF AtLeast(r.conviction, 70) THEN 120 ELSE 70

\* What the turnover bears, in thousandths of a million.
SafeValue(d) ==
    LET liquidity == LiquidityScore(d.features.adtv)
        share == IF liquidity >= 85 THEN 25 ELSE IF liquidity >= 70 THEN 15 ELSE IF liquidity >= 55 THEN 10 ELSE 5
    IN d.features.adtv * share
RequestedValue(d, r) == d.account.capital * Min({RequestedCap(d), StrongCap(d, r)})

CapacityBlock(d, r) == d.features.adtv <= 0 \/ RequestedValue(d, r) > SafeValue(d) \/ d.features.slips

-----------------------------------------------------------------------------
(* Readiness and the decision state.                                       *)

AutoEodReady(d, r) ==
    AutoThesis(d, r) /\ IntegrityAuto(d) /\ d.book.provenance = "PROXY" /\ d.book.coverage >= 45
    /\ AtLeast(d.book.score, 52) /\ d.broker.coverage >= 45 /\ ~CapacityBlock(d, r)

PreciseReady(d, r) ==
    CoreThesis(d, r) /\ IntegrityReady(d) /\ d.book.provenance = "DIRECT" /\ d.book.coverage >= 60
    /\ AtLeast(d.book.score, 55) /\ ~CapacityBlock(d, r)

ThesisReady(d, r) == CoreThesis(d, r) \/ AutoThesis(d, r)

FundamentalState(f) ==
    IF ~Observed(f) \/ f.coverage < 35 THEN "EMIR_FUNDAMENTAL_EVIDENCE_PENDING"
    ELSE IF Finite(f.conversion, 0) < 55 THEN "EMIR_WAIT_FUNDAMENTAL_CONVERSION"
    ELSE IF f.quality < 75 THEN "EMIR_FUNDAMENTAL_QUALITY_PENDING" ELSE "OK"

LifecycleState(d, r) ==
    CASE r.lifecycle = "INVENTORY_COLLECTION" -> "EMIR_WATCH_INVENTORY_COLLECTION"
      [] r.lifecycle = "MARKUP_REACCUMULATION_REQUIRED" -> "EMIR_WAIT_REACCUMULATION"
      [] r.lifecycle = "FLOW_LEADS_NARRATIVE" -> "EMIR_WAIT_NARRATIVE"
      [] r.lifecycle = "STORY_LEADS_FLOW" -> "EMIR_WAIT_MONEY_FLOW"
      [] r.lifecycle = "RETAIL_EUPHORIA" -> "EMIR_AVOID_RETAIL_EUPHORIA"
      [] r.lifecycle = "SMART_MONEY_DISTRIBUTION" -> "EMIR_REJECT_SMART_MONEY_DISTRIBUTION"
      [] OTHER -> IF r.coverage < 56 THEN "EMIR_EVIDENCE_PENDING" ELSE "EMIR_NO_EDGE_YET"

\* The first of these that applies.
DecisionState(d, r) ==
    IF d.integrity.provenance = "DIRECT" /\ d.integrity.hard THEN "EMIR_REJECT_IDX_INTEGRITY"
    ELSE IF DataBlock(d) THEN "EMIR_DATA_INTEGRITY_BLOCK"
    ELSE IF ~d.deep THEN "EMIR_RADAR_ONLY_NOT_DEEP_REVIEWED"
    ELSE IF CalibrationBlock(d, r) THEN "EMIR_CALIBRATION_REJECTED"
    ELSE IF PreciseReady(d, r) THEN "EMIR_READY_WITH_PRECISE_TRIGGER"
    ELSE IF AutoEodReady(d, r) THEN "EMIR_AUTO_EOD_READY"
    ELSE IF ThesisReady(d, r) /\ ~IntegrityReady(d) /\ ~IntegrityAuto(d) THEN "EMIR_CORE_THESIS_READY_WAIT_IDX_INTEGRITY"
    ELSE IF ThesisReady(d, r) THEN "EMIR_THESIS_READY_WAIT_BID_OFFER"
    ELSE IF FundamentalState(d.fund) # "OK" THEN FundamentalState(d.fund)
    ELSE LifecycleState(d, r)

-----------------------------------------------------------------------------
(* The real-money gate.                                                    *)

\* Quality of the cash flow; rows of older releases carry only the amounts.
CashflowQuality(f) ==
    IF f.cashQuality # "" THEN f.cashQuality
    ELSE IF ~Seen(f.ocf) THEN "CASHFLOW_NOT_AVAILABLE"
    ELSE IF f.ocf < 0 THEN IF Below(f.fcf, 0) THEN "OCF_AND_FCF_NEGATIVE" ELSE "OCF_NEGATIVE"
    ELSE IF Below(f.fcf, 0) THEN "FCF_NEGATIVE_CAPEX_REVIEW"
    ELSE IF Below(f.ocfConversion, 50) THEN "CASHFLOW_POSITIVE_WEAK_CONVERSION"
    ELSE IF AtLeast(f.ocfConversion, 70) THEN "CASHFLOW_POSITIVE_CONVERTING" ELSE "CASHFLOW_POSITIVE_PARTIAL"

CashflowMissing(f) == ~f.cashObserved \/ CashflowQuality(f) = "CASHFLOW_NOT_AVAILABLE"
CashflowBurns(f) == CashflowQuality(f) \in {"OCF_NEGATIVE", "OCF_AND_FCF_NEGATIVE"}
CashflowReview(f) == CashflowQuality(f) \in {"FCF_NEGATIVE_CAPEX_REVIEW", "CASHFLOW_POSITIVE_WEAK_CONVERSION"}
GrowthReview(f) == f.growth \in {"TURNAROUND_INFLECTION_UNCONFIRMED", "LATEST_QUARTER_DECELERATION_YTD_POSITIVE",
                                 "QUARTER_YTD_DIVERGENCE_REVIEW"}
ProxyOnly(f) == f.official < 50

VerifiedStory(s) == s.verified >= 1 \/ s.official >= 1
StoryProxy(s) == AtLeast(s.score, 42) /\ s.coverage >= 60 /\ s.events >= 5 /\ s.independent >= 2
                 /\ s.independence >= 45 /\ s.materiality >= 28 /\ s.contradiction < 45

Named(name, holds) == IF holds THEN {name} ELSE {}

Blockers(d, r) ==
    LET f == d.fund
        seen == Observed(f)
    IN Named("NOT_DEEP_REVIEWED", ~d.deep)
       \cup Named("FUNDAMENTAL_DATA_QUALITY_LT_75", seen /\ f.quality < 75)
       \cup Named("OPERATING_CASH_FLOW_NEGATIVE", ~CashflowMissing(f) /\ CashflowBurns(f))
       \cup Named("FUNDAMENTAL_PERIOD_NOT_CURRENT", seen /\ f.freshness \in {"STALE", "LAGGING"})
       \cup Named("QUARTER_AND_YTD_WEAK", seen /\ f.growth = "QUARTER_AND_YTD_WEAK")
       \cup Named("LEVERAGE", seen /\ f.leverage \in {"HIGH_LEVERAGE", "EXTREME_LEVERAGE"})
       \cup Named("FUNDAMENTAL_CONVERSION_LT_55", seen /\ Finite(f.conversion, 0) < 55)
       \cup Named("NO_VERIFIED_NARRATIVE_OR_OFFICIAL_EVENT", ~VerifiedStory(d.story) /\ ~StoryProxy(d.story))
       \cup Named("MARKET_RISK_OFF", ~MarketAllows(d))
       \cup Named("LIQUIDITY_LT_45", LiquidityScore(d.features.adtv) < 45)
       \cup Named("DISTRIBUTION_GE_40", Distribution(d) >= 40)
       \cup Named("CROWDING_GE_65", d.features.crowding >= 65)
       \cup Named("EXECUTION_FRICTION_GE_60", d.features.friction >= 60)
       \cup Named("STRUCTURE_LT_60", StructureScore(d.features) < 60)
       \cup Named("EXECUTION_CAPACITY_BLOCK", CapacityBlock(d, r))
       \cup Named("EXECUTION_GEOMETRY_INVALID", ~GeometryValid(r.plan))
       \cup Named("NO_EXECUTION_PATH_WITH_MIN_RR", GeometryValid(r.plan) /\ ~MinRRPass(r.plan))
       \cup Named("EXECUTION_TARGETS_NOT_STRUCTURAL", ~r.plan.chosen.structural)

\* What a person has still to look at, before any authorization.
Unresolved(d) ==
    LET f == d.fund
        seen == Observed(f)
    IN Named("FUNDAMENTAL_NOT_AVAILABLE_MANUAL_VERIFY", ~seen)
       \cup Named("PROXY_FUNDAMENTAL_MANUAL_VERIFY", seen /\ ProxyOnly(f))
       \cup Named("CASHFLOW_PROXY_OR_MANUAL_VERIFY", CashflowMissing(f))
       \cup Named("CASHFLOW_REVIEW", ~CashflowMissing(f) /\ CashflowReview(f))
       \cup Named("AGING_FUNDAMENTAL_PERIOD_MANUAL_VERIFY", seen /\ f.freshness = "AGING")
       \cup Named("GROWTH_REVIEW", seen /\ (GrowthReview(f) \/ f.growth = "YTD_NOT_AVAILABLE"))
       \cup Named("PUBLIC_NARRATIVE_MANUAL_VERIFY", ~VerifiedStory(d.story) /\ StoryProxy(d.story))

EntryCandidate(candidate, state) ==
    candidate /\ state \in {"EMIR_READY_WITH_PRECISE_TRIGGER", "EMIR_AUTO_EOD_READY",
                            "EMIR_CORE_THESIS_READY_WAIT_IDX_INTEGRITY", "EMIR_THESIS_READY_WAIT_BID_OFFER",
                            "EMIR_WATCH_INVENTORY_COLLECTION"}

DirectFundamental(f) ==
    ~ProxyOnly(f) /\ ~CashflowMissing(f) /\ ~CashflowBurns(f) /\ f.pointInTime

RealMoneyReady(d, r, entry) ==
    /\ entry /\ DirectFundamental(d.fund) /\ VerifiedStory(d.story)
    /\ PreciseReady(d, r) /\ Unresolved(d) = {}

Manual(d, entry, ready) == Unresolved(d) \cup Named("CONFIRM_BEFORE_ENTRY", entry /\ ~ready)

\* Risks that say evidence is missing, not that something is wrong.
GapFlags(d) ==
    Named("DIRECT_BID_OFFER_TRIGGER_MISSING", d.book.provenance # "DIRECT")
    \cup Named("IDX_CRITICAL_FIELDS_UNKNOWN_NOT_VERIFIED", d.integrity.unknown > 0)
    \cup Named("IDX_INTEGRITY_EVIDENCE_MISSING", d.integrity.provenance # "DIRECT")
    \cup Named("FUNDAMENTAL_NOT_AVAILABLE_NOT_SCORED", ~Observed(d.fund))

GateState(candidate, entry, ready) ==
    IF ~candidate THEN "REAL_MONEY_BLOCKED"
    ELSE IF ~entry THEN "REAL_MONEY_WAIT_TIMING"
    ELSE IF ready THEN "REAL_MONEY_DIRECT_VERIFIED_READY"
    ELSE "REAL_MONEY_MANUAL_CONFIRMATION_REQUIRED"

EntryAuthorization(candidate, entry, ready) ==
    IF ready THEN "SCANNER_AUTHORIZED_DIRECT_VERIFIED"
    ELSE IF entry THEN "MANUAL_CONFIRMATION_REQUIRED"
    ELSE IF candidate THEN "WAIT_TIMING_NO_ENTRY" ELSE "NO_ENTRY_AUTHORIZATION"

-----------------------------------------------------------------------------
(* Risk budget and caps.                                                   *)

Guarded(d) == d.account.mode = "GUARDED_REAL_MONEY"

RiskBudget(d, entry, ready) ==
    LET asked == Max({0, d.account.risk})
        mode == IF Guarded(d) THEN Min({asked, 75}) ELSE asked
        proxy == IF Guarded(d) /\ (ProxyOnly(d.fund) \/ CashflowMissing(d.fund)) THEN Min({mode, 50}) ELSE mode
    IN IF entry /\ ~ready THEN Min({proxy, 50})
       ELSE IF ready THEN Min({proxy, 75}) ELSE proxy

ManualCap(d, entry) ==
    LET base == IF ~entry THEN 0
                ELSE Min({RequestedCap(d), IF d.market.regime = "RISK_OFF" THEN 50 ELSE 75})
        proxy == ProxyOnly(d.fund) \/ CashflowMissing(d.fund) \/ ~VerifiedStory(d.story)
    IN Min({base, IF proxy THEN 30 ELSE base,
            IF GrowthReview(d.fund) \/ CashflowReview(d.fund) THEN 20 ELSE base})

\* What the scan itself would put in, before the gate is known.
ModelCap(d, r) ==
    LET base == IF PreciseReady(d, r) THEN StrongCap(d, r)
                ELSE IF AtLeast(r.conviction, 75) /\ LiquidityScore(d.features.adtv) >= 70 THEN 80 ELSE 50
        liquid == IF d.account.capital > 0 THEN SafeValue(d) \div d.account.capital ELSE 0
        cap == Min({RequestedCap(d), base, liquid})
    IN IF ~PreciseReady(d, r) /\ ~AutoEodReady(d, r) THEN 0
       ELSE IF LeaderException(d) THEN Min({cap, 50}) ELSE cap

\* Mutant: the exception of a leading sector is forgotten once the row is ready.
PositionCap_ForgetsRegime(d, r, entry, ready) ==
    LET manual == IF entry THEN Min({d.account.maxCap, 75}) ELSE 0
    IN IF ready THEN Min({manual, 100}) ELSE IF Guarded(d) THEN 0 ELSE ModelCap(d, r)

PositionCap(d, r, entry, ready) ==
    IF ready
    THEN Min({IF ModelCap(d, r) > 0 THEN ModelCap(d, r) ELSE ManualCap(d, entry), 100,
              IF ManualCap(d, entry) > 0 THEN ManualCap(d, entry) ELSE 100})
    ELSE IF Guarded(d) THEN 0 ELSE ModelCap(d, r)

TrimState(d) ==
    IF Sells(d.broker) THEN "TRIM_OR_EXIT_ON_VERIFIED_BROKER_DISTRIBUTION"
    ELSE IF d.features.crowding >= 72 \/ d.features.distribution >= 55 \/ d.features.extended
    THEN "TRIM_OVERSHOOT_OR_DISTRIBUTION" ELSE "HOLD_SCENARIO_UNTIL_INVALIDATED"

\* The row as it goes into the radar.
Gated(d, r, blockers, state) ==
    LET candidate == blockers = {}
        entry == EntryCandidate(candidate, state)
        ready == RealMoneyReady(d, r, entry)
    IN
    [state |-> state, gate |-> GateState(candidate, entry, ready),
     entryState |-> EntryAuthorization(candidate, entry, ready), candidate |-> candidate, entry |-> entry,
     ready |-> ready, blockers |-> blockers, manual |-> Manual(d, entry, ready), gaps |-> GapFlags(d),
     plan |-> r.plan, geometry |-> GeometryValid(r.plan), pays |-> MinRRPass(r.plan),
     conviction |-> r.conviction, coverage |-> r.coverage,
     risk |-> RiskBudget(d, entry, ready), cap |-> PositionCap(d, r, entry, ready),
     manualCap |-> ManualCap(d, entry), trim |-> TrimState(d)]
Gates(d, r) == Gated(d, r, Blockers(d, r), DecisionState(d, r))
Profile(d) == Gates(d, Reading(d))
=============================================================================
