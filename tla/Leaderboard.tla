----------------------------- MODULE Leaderboard -----------------------------
(***************************************************************************)
(* top3_dashboard_legacy: the dashboard scores of a row, The Next Leader   *)
(* and the block on banks.  d is the evidence of the row (ProfileGates),   *)
(* d.business the part of it only the leaderboard reads; growth rates and  *)
(* scores are whole percents.                                              *)
(***************************************************************************)
EXTENDS MarketContext

\* The mean of what was observed, each part weighed with its coverage.
Sure(p) == IF Seen(p.value) THEN p.weight * p.coverage ELSE 0
SureValue(p) == Sure(p) * Clip(p.value)
ByCoverage(parts) ==
    [score |-> IF Total(Sure, parts) = 0 THEN 50 ELSE Total(SureValue, parts) \div Total(Sure, parts),
     coverage |-> IF Total(Sure, parts) = 0 THEN 0 ELSE Total(Sure, parts) \div Total(AllWeight, parts)]

OrElse(x, default) == Clip(Finite(x, default))

\* calculate_dashboard_scores: price acceptance, persistence and the like stand in
\* `technical`, one reading for each score.
DashboardFlow(row, d) ==
    OrElse(Weighted(<<Self(d.broker.score, 40), Self(row.smart, 35), Self(d.technical.absorption, 15),
                      Self(d.technical.acceptance, 10)>>).score, Finite(row.smart, 0))
DashboardSilent(d) ==
    OrElse(Weighted(<<Self(d.technical.dryness, 42), Self(d.technical.persistence, 15),
                      Self(d.technical.absorption, 14), Self(d.technical.acceptance, 10),
                      Self(100 - OrElse(d.features.distribution, 100), 12), Self(d.broker.score, 7)>>).score,
           Finite(d.broker.score, 0))

-----------------------------------------------------------------------------

\* Piecewise linear through <<x, y>> points, flat outside them.
Interpolate(x, points) ==
    LET below == {i \in DOMAIN points : points[i][1] <= x}
        i == Max(below)
        here == points[i]
        next == points[i + 1]
    IN IF below = {} THEN points[1][2]
       ELSE IF i = Len(points) THEN here[2]
       ELSE here[2] + ((next[2] - here[2]) * (x - here[1])) \div (next[1] - here[1])

\* _growth_score; a growth nobody reported is neutral.
RevenueGrowth(v) ==
    IF ~Seen(v) THEN 50
    ELSE Interpolate(v, << <<-30, 5>>, <<-10, 20>>, <<0, 35>>, <<10, 55>>, <<20, 70>>, <<30, 85>>, <<50, 97>>, <<80, 100>> >>)
EarningsGrowth(v) ==
    IF ~Seen(v) THEN 50
    ELSE Interpolate(v, << <<-50, 5>>, <<-15, 20>>, <<0, 35>>, <<15, 55>>, <<30, 70>>, <<50, 85>>, <<80, 97>>, <<150, 100>> >>)

Adjustment(growth) ==
    CASE growth = "QUARTER_AND_YTD_CONFIRMED" -> 5
      [] growth = "TURNAROUND_INFLECTION_UNCONFIRMED" -> -10
      [] growth = "LATEST_QUARTER_DECELERATION_YTD_POSITIVE" -> -6
      [] growth = "QUARTER_YTD_DIVERGENCE_REVIEW" -> -7
      [] growth = "QUARTER_AND_YTD_WEAK" -> -15
      [] growth = "YTD_NOT_AVAILABLE" -> -3
      [] growth = "Q1_YTD_EQUALS_QUARTER" -> -2
      [] OTHER -> 0

\* _business_momentum: the year to date once it has two quarters, else the latest quarter.
YearToDate(b) == b.quarters >= 2 /\ (Seen(b.revenueYtd) \/ Seen(b.earningsYtd))
Momentum(b, growth) ==
    LET revenue == IF YearToDate(b) THEN b.revenueYtd ELSE b.revenueQuarter
        earnings == IF YearToDate(b) THEN b.earningsYtd ELSE b.earningsQuarter
    IN IF \A v \in {b.revenueYtd, b.earningsYtd, b.revenueQuarter, b.earningsQuarter} : ~Seen(v) THEN NaN
       ELSE Clip((60 * RevenueGrowth(revenue) + 40 * EarningsGrowth(earnings)) \div 100 + Adjustment(growth))

LossMaking(b) == Below(b.margin, 0) \/ Below(b.roe, 0)

AtMost(x, ceiling, applies) == IF applies /\ Seen(x) /\ x > ceiling THEN ceiling ELSE x

\* A momentum that rests on a loss, an abnormal base or revenue by hand-over has a ceiling.
CappedMomentum(b, growth) ==
    LET m1 == AtMost(Momentum(b, growth), 60, LossMaking(b))
        m2 == AtMost(m1, 72, "EARNINGS_BASE_EFFECT_EXTREME" \in b.abnormal)
        m3 == AtMost(m2, 68, "EARNINGS_SMALL_BASE" \in b.abnormal)
        m4 == AtMost(m3, 85, "REVENUE_GROWTH_EXTREME_REVIEW" \in b.abnormal)
    IN AtMost(m4, 90, b.property)

FundamentalObserved(d) ==
    d.fund.coverage > 0 /\ (Seen(d.fund.conversion) \/ Seen(d.fund.quality) \/ Seen(Momentum(d.business, d.fund.growth))
                            \/ Seen(d.business.margin) \/ Seen(d.business.roe))

\* Ratios of an industrial company say little of a bank.
LeaderFundamental(d) == AtMost(OrElse(d.fund.conversion, 0), 70, d.business.bank /\ Seen(d.fund.conversion))
LeaderQuality(d) == AtMost(d.fund.quality, 75, d.business.bank /\ FundamentalObserved(d))

\* The direct forward signal where the row has one; older rows only the whole score.
Forward(b) ==
    IF b.lineage THEN [value |-> b.direct, coverage |-> b.directCoverage]
    ELSE [value |-> b.future, coverage |-> b.futureCoverage]

Model(row, d) ==
    LET f == d.fund
        forward == Forward(d.business)
        Whole(value, weight) == Part(value, weight, IF Seen(value) THEN 100 ELSE 0)
    IN ByCoverage(<<Part(IF Seen(f.conversion) THEN LeaderFundamental(d) ELSE NaN, 27, f.coverage),
                    Part(CappedMomentum(d.business, f.growth), 18, f.coverage),
                    Part(LeaderQuality(d), 5, f.coverage),
                    Part(forward.value, 15, forward.coverage),
                    Part(d.story.reach, 8, d.story.coverage), Part(d.story.bridge, 12, d.story.coverage),
                    Part(d.sector.score, 8, d.sector.coverage), Part(row.smart, 2, row.smartCoverage),
                    Part(d.broker.score, 2, d.broker.coverage), Whole(row.structure, 1),
                    Whole(row.liquidity, 1), Part(d.owner.score, 1, d.owner.coverage)>>)

Points(n, holds) == IF holds THEN n ELSE 0

\* Every explicit adverse observation costs its points; what is missing costs nothing.
LeaderPenalty(d) ==
    LET f == d.fund
        b == d.business
        seen == FundamentalObserved(d)
        revenue == IF b.quarters >= 2 /\ Seen(b.revenueYtd) THEN b.revenueYtd ELSE b.revenueQuarter
        earnings == IF b.quarters >= 2 /\ Seen(b.earningsYtd) THEN b.earningsYtd ELSE b.earningsQuarter
    IN Points(12, seen /\ f.coverage < 55)
       + Points(10, seen /\ Below(LeaderQuality(d), 55))
       + Points(10, f.cashQuality \in {"OCF_NEGATIVE", "OCF_AND_FCF_NEGATIVE"})
       + Points(3, f.cashQuality = "FCF_NEGATIVE_CAPEX_REVIEW")
       + Points(2, f.cashQuality = "CASHFLOW_POSITIVE_WEAK_CONVERSION")
       + Points(4, seen /\ f.official <= 0)
       + Points(5, b.futureState = "FUTURE_FUNDAMENTAL_WEAK_OR_UNPROVEN" /\ b.futureCoverage >= 50)
       + Points(6, seen /\ f.freshness = "AGING") + Points(10, seen /\ f.freshness = "LAGGING")
       + Points(15, seen /\ f.freshness = "STALE")
       + Points(10, seen /\ f.growth = "TURNAROUND_INFLECTION_UNCONFIRMED")
       + Points(8, seen /\ f.growth = "LATEST_QUARTER_DECELERATION_YTD_POSITIVE")
       + Points(6, seen /\ f.growth = "QUARTER_YTD_DIVERGENCE_REVIEW")
       + Points(12, seen /\ f.growth = "QUARTER_AND_YTD_WEAK") + Points(2, seen /\ f.growth = "YTD_NOT_AVAILABLE")
       + Points(8, seen /\ ~b.bank /\ f.leverage = "HIGH_LEVERAGE")
       + Points(16, seen /\ ~b.bank /\ f.leverage = "EXTREME_LEVERAGE")
       + Points(4, b.quarters >= 2 /\ Below(b.revenueYtd, 10) /\ AtLeast(b.earningsYtd, 40))
       + Points(8, LossMaking(b)) + Points(6, "EARNINGS_BASE_EFFECT_EXTREME" \in b.abnormal)
       + Points(6, "EARNINGS_SMALL_BASE" \in b.abnormal) + Points(2, "REVENUE_GROWTH_EXTREME_REVIEW" \in b.abnormal)
       + Points(2, b.property /\ (AtLeast(revenue, 80) \/ Below(revenue, -79) \/ AtLeast(earnings, 120) \/ Below(earnings, -119)))
       + Points(5, d.features.distribution >= 70) + Points(8, b.bank)

Broad(d) ==
    d.business.quarters >= 2 /\ d.fund.growth = "QUARTER_AND_YTD_CONFIRMED" /\ ~LossMaking(d.business)
    /\ AtLeast(d.business.revenueYtd, 20) /\ AtLeast(d.business.earningsYtd, 25)

LeaderScore(row, d) == Clip(Model(row, d).score + Points(3, Broad(d)) - LeaderPenalty(d))

LeaderEligible(row, d) ==
    /\ IF FundamentalObserved(d)
       THEN d.fund.coverage >= 35 /\ AtLeast(d.fund.quality, 35) /\ Seen(d.fund.conversion)
       ELSE Model(row, d).coverage >= 30
    /\ ~(FundamentalObserved(d) /\ d.business.weak /\ Below(d.fund.conversion, 42))

\* What no source told is absent from a row: a hole among other issuers' answers, which
\* counts as a block, and nothing once the row was stored and read back.
LeaderDataBlock(row, d) ==
    \/ OhlcvState(d.features) = "CORPORATE_ACTION_REVIEW_REQUIRED"
    \/ d.features.anomaly /\ ~d.integrity.cleared
    \/ IF d.integrity.provenance = "" THEN d.othersTold /\ ~row.loaded ELSE d.integrity.hard

\* What may be shown; the state alone does not say it.
LeaderPresentable(row, d) ==
    /\ LeaderEligible(row, d) /\ ~LeaderDataBlock(row, d)
    /\ FundamentalObserved(d) => d.fund.freshness \notin {"STALE", "LAGGING"} /\ AtLeast(LeaderQuality(d), 70)

-----------------------------------------------------------------------------

\* calculate_real_money_candidate_score: execution first, but not alone.  Reward over
\* risk of the selected plan, three to one being all of it.
RewardScore(plan) ==
    IF plan.path = "NONE" \/ plan.chosen.ref <= plan.chosen.stop THEN 0
    ELSE Clip((100 * (plan.chosen.tp1 - plan.chosen.ref)) \div (3 * (plan.chosen.ref - plan.chosen.stop)))

RealMoneyScore(row, d) ==
    Clip(Finite(Weighted(<<Self(LeaderScore(row, d), 15), Self(row.final, 10), Self(row.silentShown, 14),
                           Self(row.flowShown, 11), Self(OrElse(row.structure, 0), 14),
                           Self(OrElse(row.liquidity, 0), 10), Self(d.fund.conversion, 10),
                           Self(OrElse(row.smart, 0), 5), Self(100 - OrElse(d.features.distribution, 100), 5),
                           Self(RewardScore(row.plan), 6)>>).score, 0))

\* The bank block of enrich_dashboard_scores: the row keeps its caps and its size.
BankBlock(row, d) ==
    IF d.business.bank /\ d.business.bankMetrics < 60
    THEN [row EXCEPT !.blockers = @ \cup {"BANK_SPECIFIC_RISK_METRICS_NOT_MODELED"}, !.candidate = FALSE,
                     !.entry = FALSE, !.ready = FALSE, !.gate = "REAL_MONEY_BLOCKED",
                     !.entryState = "NO_ENTRY_AUTHORIZATION", !.manualCap = 0]
    ELSE row
=============================================================================
