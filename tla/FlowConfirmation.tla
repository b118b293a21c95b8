-------------------------- MODULE FlowConfirmation --------------------------
(***************************************************************************)
(* Flow that outside providers report and what it may do to a scored row:  *)
(* foreign flow (ZAPI) and the public broker cache.  A history of foreign  *)
(* flow is a function from session i, 1 being the latest completed one, to *)
(* [seen, buy, sell, net, volume]; participations are tenths of a percent. *)
(***************************************************************************)
EXTENDS Observed

\* Sessions a score expects.
Expected == 20

Reported(h, n) == {i \in 1..n : h[i].seen}
NetIn(h, n) == {i \in Reported(h, n) : Seen(h[i].net)}
SumOver(S, value(_)) == SumFunction([i \in S |-> value(i)])

Participation(h, n) ==
    LET volume == SumOver(Reported(h, n), LAMBDA i : h[i].volume)
    IN IF volume = 0 \/ NetIn(h, n) = {} THEN NaN
       ELSE (1000 * SumOver(NetIn(h, n), LAMBDA i : h[i].net)) \div volume

\* Share of the observed sessions, in percent, with a net purchase.
PositiveDays(h, n) ==
    IF NetIn(h, n) = {} THEN NaN
    ELSE (100 * Cardinality({i \in NetIn(h, n) : h[i].net > 0})) \div Cardinality(Reported(h, n))

BuyRatio(h, n) ==
    LET buy == SumOver(Reported(h, n), LAMBDA i : h[i].buy)
        sell == SumOver(Reported(h, n), LAMBDA i : h[i].sell)
    IN IF buy + sell = 0 THEN NaN ELSE (100 * buy) \div (buy + sell)

\* Percent of the coverage left by the age of the newest session.
Freshness(lag) == IF lag = 0 THEN 100 ELSE IF lag = 1 THEN 85 ELSE IF lag = 2 THEN 55 ELSE 0

AbsScore(ratio) == IF Seen(ratio) THEN Clip(50 + (5 * ratio) \div 2) ELSE NaN

\* Rank of t among the values that were observed, in percent; of fewer than three, the middle.
CrossSection(values, t) ==
    LET seen == {u \in DOMAIN values : Seen(values[u])}
        below == Cardinality({u \in seen : values[u] < values[t]})
        ties == Cardinality({u \in seen : values[u] = values[t]})
    IN IF t \notin seen THEN NaN
       ELSE IF Cardinality(seen) < 3 THEN 50
       ELSE (50 * (2 * below + ties + 1)) \div Cardinality(seen)

WindowScore(histories, n, t) ==
    LET ratios == [u \in DOMAIN histories |-> Participation(histories[u], n)]
    IN IF Seen(ratios[t]) THEN (55 * CrossSection(ratios, t) + 45 * AbsScore(ratios[t])) \div 100 ELSE NaN

\* score_foreign_history, of one issuer among those that are scored together.
ForeignFlow(histories, t) ==
    LET h == histories[t]
        observed == Reported(h, Expected)
        lag == Min(observed) - 1
        newest == h[Min(observed)]
        score == Weighted(<<Self(WindowScore(histories, 20, t), 30), Self(WindowScore(histories, 5, t), 30),
                            Self(PositiveDays(h, 20), 18), Self(PositiveDays(h, 5), 12),
                            Self(BuyRatio(h, 20), 10)>>).score
    IN IF observed = {}
       THEN [coverage |-> 0, one |-> NaN, five |-> NaN, twenty |-> NaN, score |-> NaN, smart |-> NaN, acc |-> NaN]
       ELSE [coverage |-> (100 * Cardinality(observed) * Freshness(lag)) \div (100 * Expected),
             one |-> IF Seen(newest.net) /\ newest.volume > 0 THEN (1000 * newest.net) \div newest.volume ELSE NaN,
             five |-> Participation(h, 5), twenty |-> Participation(h, 20), score |-> score,
             smart |-> IF Seen(score) THEN Clip((75 * score + 25 * Finite(PositiveDays(h, 20), 50)) \div 100)
                       ELSE NaN,
             acc |-> IF Seen(score)
                     THEN Clip((70 * score + 20 * Finite(PositiveDays(h, 20), 50) + 10 * Finite(PositiveDays(h, 5), 50)) \div 100)
                     ELSE NaN]

NetDistribution(f) == Seen(f.twenty) /\ f.twenty <= -3

-----------------------------------------------------------------------------
(* The public broker cache: a set of [day, code, net, rank, buyer] over    *)
(* the last twenty days it has, as one issuer's confirmation.              *)

BrokerDays(rows) == {r.day : r \in rows}
Buyers(rows) == {r \in rows : r.buyer}
NetOf(rows) == SumFunction([r \in rows |-> r.net])

\* The days on which the most frequent of the three best buyers was one of them.
Persisting(rows) ==
    LET top == {r \in Buyers(rows) :
                   Cardinality({q \in Buyers(rows) : q.day = r.day /\ q.rank < r.rank}) < 3}
        times == {Cardinality({r \in top : r.code = c}) : c \in {r.code : r \in top}}
    IN IF top = {} THEN NaN ELSE (100 * Max(times)) \div Cardinality(BrokerDays(rows))

Dominance(rows) ==
    LET bought == NetOf(Buyers(rows))
        sold == -NetOf({r \in rows : ~r.buyer})
    IN IF bought <= 0 THEN 30
       ELSE IF sold <= 0 THEN 100 ELSE Clip(50 + (15 * bought) \div sold)

\* score_broker_history; the rank among the issuers is given.
BrokerFlow(rows, rank) ==
    LET codes == {r.code : r \in Buyers(rows)}
        best == Max({NetOf({r \in Buyers(rows) : r.code = c}) : c \in codes})
        total == NetOf(Buyers(rows))
        concentration == IF codes = {} \/ total <= 0 \/ best <= 0 THEN 0 ELSE (100 * best) \div total
        accumulation == Clip((35 * Finite(rank, 50) + 25 * Finite(Persisting(rows), 0)
                              + 20 * concentration + 20 * Dominance(rows)) \div 100)
    IN IF rows = {} THEN [coverage |-> 0, smart |-> NaN]
       ELSE [coverage |-> Min({100, 5 * Cardinality(BrokerDays(rows))}),
             smart |-> Clip((70 * accumulation + 30 * Finite(rank, 50)) \div 100)]

-----------------------------------------------------------------------------
(* What a confirmation does to a row.  A row carries for each provider its *)
(* lineage: what it was declared to be, how many of its base values it     *)
(* still has, and whether it bears a mark of having been enriched.         *)

BaseValues == 3
Fresh == [declared |-> "", base |-> 0, marked |-> FALSE]

\* Mutant: a row an older release enriched, which declares nothing, is taken for a new one.
LineageState_NoMarker(l) ==
    IF l.declared # "" THEN l.declared ELSE IF l.base = BaseValues THEN "CANONICAL" ELSE "PRISTINE"

\* _classify_zapi_enrichment_row and _classify_broker_enrichment_row, the same ladder.
LineageState(l) ==
    IF l.declared \in {"LEGACY", "AMBIGUOUS"} THEN l.declared
    ELSE IF l.declared = "CANONICAL" /\ l.base # BaseValues THEN "AMBIGUOUS"
    ELSE IF l.declared = "PRISTINE"
    THEN IF l.marked \/ l.base \in 1..(BaseValues - 1) THEN "AMBIGUOUS" ELSE "PRISTINE"
    ELSE IF l.base = BaseValues THEN "CANONICAL"
    ELSE IF l.base > 0 THEN "AMBIGUOUS"
    ELSE IF l.marked THEN "LEGACY" ELSE "PRISTINE"

\* _blend: the outside score weighs at most weight percent, and stands alone when there is
\* no other.
Confirm(base, coverage, other, otherCoverage, weight) ==
    LET w == (weight * Clip(otherCoverage)) \div 100 IN
    IF ~Seen(other) \/ otherCoverage <= 0 THEN [score |-> base, coverage |-> Clip(coverage)]
    ELSE IF Seen(base)
    THEN [score |-> Clip(((100 - w) * base + w * other) \div 100),
          coverage |-> Clip(Clip(coverage) + ((100 - Clip(coverage)) * Clip(otherCoverage) * weight) \div 10000)]
    ELSE [score |-> Clip(other), coverage |-> Min({55, w})]

\* Points a flow adds to or takes from the conviction: at most bound tenths.
Delta(score, coverage, bound) ==
    LET d == (bound * (Clip(score) - 50) * Clip(coverage)) \div 5000
    IN IF Seen(score) /\ coverage > 0 THEN d ELSE 0

\* The base values that a row can remember are those it has.
Remembered(values) == Cardinality({i \in DOMAIN values : Seen(values[i])})

\* Mutant: whatever the row says of itself, the flow of the day is added.
EnrichForeign_Anew(row, f) ==
    LET smart == Confirm(row.smart, row.smartCoverage, f.smart, f.coverage, 30)
    IN [row EXCEPT !.flow = f, !.smart = smart.score, !.smartCoverage = smart.coverage,
                   !.foreign = [declared |-> "CANONICAL", marked |-> TRUE, base |-> BaseValues]]

\* enrich_emir_radar: derived once, from the values before it; a row with any other
\* lineage is kept as it is.
EnrichForeign(row, f) ==
    LET smart == Confirm(row.smart, row.smartCoverage, f.smart, f.coverage, 30) IN
    IF LineageState(row.foreign) # "PRISTINE"
    THEN [row EXCEPT !.foreign.declared = LineageState(row.foreign)]
    ELSE [row EXCEPT !.flow = f, !.smart = smart.score, !.smartCoverage = smart.coverage,
                     !.conviction = IF Seen(row.conviction)
                                    THEN Clip(row.conviction + Delta(f.score, f.coverage, 25) \div 10)
                                    ELSE row.conviction,
                     !.foreign = [declared |-> "CANONICAL", marked |-> TRUE,
                                  base |-> Remembered(<<row.smart, row.smartCoverage, row.conviction>>)]]

\* enrich_emir_broker, after it: the same with a fifth of the weight and at most 1.5 points.
EnrichBroker(row, b) ==
    LET smart == Confirm(row.smart, 0, IF Seen(row.smart) THEN b.smart ELSE NaN, b.coverage, 20) IN
    IF LineageState(row.broker) # "PRISTINE"
    THEN [row EXCEPT !.broker.declared = LineageState(row.broker)]
    ELSE [row EXCEPT !.smart = smart.score,
                     !.conviction = IF Seen(row.conviction)
                                    THEN Clip(row.conviction + Delta(Finite(b.smart, 50), b.coverage, 15) \div 10)
                                    ELSE row.conviction,
                     !.broker = [declared |-> "CANONICAL", marked |-> TRUE,
                                 base |-> Remembered(<<row.smart, row.conviction, row.final>>)]]
=============================================================================
