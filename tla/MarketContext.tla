---------------------------- MODULE MarketContext ----------------------------
(***************************************************************************)
(* What the scan makes of prices: the state of one issuer's series, the    *)
(* regime of the market and the quadrant of a sector.                      *)
(***************************************************************************)
EXTENDS Observed

\* calculate_market_features: one reading of a price series.  The verdicts on the
\* series come from the age of its last bar, its length and its anomalies, in this order.
OhlcvState(f) ==
    CASE f.age > 7 -> "STALE_DATA_BLOCK"
      [] f.age <= 7 /\ f.bars < 220 -> "INSUFFICIENT_HISTORY"
      [] f.age <= 7 /\ f.bars >= 220 /\ f.zeroDays >= 5 -> "ILLIQUID_OR_SUSPENDED_PATTERN"
      [] f.age <= 7 /\ f.bars >= 220 /\ f.zeroDays < 5 /\ f.anomaly -> "CORPORATE_ACTION_REVIEW_REQUIRED"
      [] OTHER -> "VALID"

CyclePhase(f) ==
    LET shift == Finite(f.recentInventory, 50) - Finite(f.longInventory, 50) IN
    CASE Finite(f.cycle, 0) >= 65 /\ shift >= -5 -> "COLLECTION"
      [] ~(Finite(f.cycle, 0) >= 65 /\ shift >= -5) /\ AtLeast(f.longInventory, 62) /\ shift <= -12 -> "RELEASE"
      [] Below(f.longInventory, 52) /\ shift >= 10 /\ ~(Finite(f.cycle, 0) >= 65) -> "BOTTOMING"
      [] OTHER -> "MIXED"

\* The best of three readings of the structure, unless even that is weak.
StructureScore(f) == Max({f.reversal, f.continuation, f.sideways})
StructureMode(f) ==
    CASE StructureScore(f) < 52 -> "NO_CLEAR_STRUCTURE"
      [] StructureScore(f) >= 52 /\ f.reversal = StructureScore(f) -> "REVERSAL_SETUP"
      [] StructureScore(f) >= 52 /\ f.reversal # StructureScore(f) /\ f.continuation = StructureScore(f)
           -> "CONTINUATION_SETUP"
      [] OTHER -> "SIDEWAYS_ACCUMULATION"

PriceStage(f) ==
    CASE f.distribution >= 60 -> "DISTRIBUTION"
      [] f.distribution < 60 /\ f.trendUp /\ f.momentum > 3 -> "MARKUP"
      [] f.distribution < 60 /\ ~(f.trendUp /\ f.momentum > 3) /\ f.aboveEma50 /\ f.stealth >= 58
           -> "SILENT_ACCUMULATION"
      [] f.distribution < 60 /\ ~f.aboveEma50 /\ f.emaFalling -> "MARKDOWN"
      [] OTHER -> "BASE_TRANSITION"

\* _liquidity_score of the average daily turnover, in million rupiah.
LiquidityScore(adtv) ==
    CASE adtv >= 100000 -> 95
      [] 25000 <= adtv /\ adtv < 100000 -> 85
      [] 7500 <= adtv /\ adtv < 25000 -> 72
      [] 2000 <= adtv /\ adtv < 7500 -> 55
      [] 500 <= adtv /\ adtv < 2000 -> 38
      [] 0 < adtv /\ adtv < 500 -> 20
      [] OTHER -> 0

-----------------------------------------------------------------------------

Unavailable == [regime |-> "UNAVAILABLE", score |-> NaN, coverage |-> 0, distribution |-> NaN, breadth |-> NaN]

\* calculate_market_context, of the index; fewer than sixty bars are no index.
FromBenchmark(index) ==
    LET score == Clip((55 * index.trend + 25 * (100 - index.distribution)
                       + 20 * Clip(50 + 2 * index.momentum)) \div 100)
    IN IF index.bars < 60 THEN Unavailable
       ELSE [regime |-> CASE score >= 68 -> "RISK_ON"
                          [] score <= 40 \/ (score < 68 /\ index.distribution >= 60) -> "RISK_OFF"
                          [] OTHER -> "SELECTIVE",
             score |-> score, coverage |-> 100, distribution |-> index.distribution, breadth |-> NaN]

\* calculate_market_context_from_universe: medians over the issuers that have features.
FromUniverse(u) ==
    LET seen == Cardinality({m \in {"breadth", "trend", "distribution", "flow", "momentum"} : Seen(u[m])})
        score == Clip((30 * Finite(u.breadth, 50) + 25 * Finite(u.trend, 50)
                       + 20 * (100 - Finite(u.distribution, 50)) + 15 * Finite(u.flow, 50)
                       + 10 * Clip(50 + 2 * Finite(u.momentum, 0))) \div 100)
    IN IF u.valid < 20 \/ seen < 4 THEN Unavailable
       ELSE [regime |-> CASE score >= 65 /\ Finite(u.breadth, 0) >= 55 -> "RISK_ON"
                          [] ~(score >= 65 /\ Finite(u.breadth, 0) >= 55)
                             /\ (score <= 38 \/ Finite(u.distribution, 0) >= 65 \/ Finite(u.breadth, 100) < 25)
                               -> "RISK_OFF"
                          [] OTHER -> "SELECTIVE",
             score |-> score, coverage |-> Min({85, 55 + (30 * u.valid) \div 100}),
             distribution |-> u.distribution, breadth |-> u.breadth]

\* blend_market_context: either alone stands for both; together they are weighed anew,
\* whatever regime each of them had.
Blend(b, u) ==
    LET score == Clip((60 * b.score + 40 * u.score) \div 100)
        distribution == Finite(b.distribution, 50)
        on == score >= 65 /\ Finite(u.breadth, 0) >= 55 /\ distribution < 60
        off == score <= 38 \/ Finite(u.breadth, 100) < 25
               \/ (distribution >= 75 /\ Finite(u.breadth, 100) < 40)
    IN IF ~Seen(b.score) THEN u
       ELSE IF ~Seen(u.score) THEN b
       ELSE [regime |-> IF on THEN "RISK_ON" ELSE IF off THEN "RISK_OFF" ELSE "SELECTIVE",
             score |-> score, coverage |-> Min({100, (60 * b.coverage + 40 * u.coverage) \div 100}),
             distribution |-> b.distribution, breadth |-> u.breadth]

-----------------------------------------------------------------------------

Quadrant(strong, rising) ==
    CASE strong /\ rising -> "LEADING"
      [] ~strong /\ rising -> "IMPROVING"
      [] strong /\ ~rising -> "WEAKENING"
      [] OTHER -> "LAGGING"

\* Twice the median, so that it stays whole.
Median2(values) ==
    LET sorted == SetToSortSeq(values, LAMBDA a, b : a[1] < b[1] \/ (a[1] = b[1] /\ a[2] < b[2]))
        n == Len(sorted)
    IN sorted[(n + 1) \div 2][1] + sorted[n \div 2 + 1][1]

\* calculate_sector_context: a sector against the median of its peers, next to its
\* own sign.  sectors is a function from names to medians of strength and momentum.
SectorContext(sectors, s) ==
    LET here == sectors[s]
        known == Seen(here.strength) /\ Seen(here.momentum)
        strengths == {<<sectors[r].strength, r>> : r \in {q \in DOMAIN sectors : Seen(sectors[q].strength)}}
        momenta == {<<sectors[r].momentum, r>> : r \in {q \in DOMAIN sectors : Seen(sectors[q].momentum)}}
    IN [state |-> IF ~known THEN "UNKNOWN"
                  ELSE Quadrant(2 * here.strength >= Median2(strengths), 2 * here.momentum >= Median2(momenta)),
        absolute |-> IF ~known THEN "UNKNOWN" ELSE Quadrant(here.strength >= 0, here.momentum >= 0),
        score |-> Clip((30 * Finite(here.breadth, 50) + 25 * Clip(50 + (3 * Finite(here.strength, 0)) \div 2)
                        + 20 * Clip(50 + 2 * Finite(here.momentum, 0)) + 25 * Finite(here.flow, 50)) \div 100),
        coverage |-> Clip((Min({100, 25 * here.members})
                           * Cardinality({m \in {"breadth", "strength", "momentum", "flow"} : Seen(here[m])})) \div 4),
        strength |-> Finite(here.strength, 0), momentum |-> Finite(here.momentum, 0)]
=============================================================================
