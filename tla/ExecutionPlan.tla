--------------------------- MODULE ExecutionPlan ---------------------------
(***************************************************************************)
(* build_execution_plan: an accumulation plan and a breakout plan, and the *)
(* one that is selected.  Prices are whole rupiah; U makes the percentages *)
(* of the source exact, so that a value is compared and rounded in units   *)
(* of 1/U rupiah.                                                          *)
(***************************************************************************)
EXTENDS Observed

U == 200

\* idx_tick of a price in units.
IdxTick(units) ==
    CASE units < 200 * U -> 1
      [] units >= 200 * U /\ units < 500 * U -> 2
      [] units >= 500 * U /\ units < 2000 * U -> 5
      [] units >= 2000 * U /\ units < 5000 * U -> 10
      [] OTHER -> 25

\* round_idx: to the tick of the price that is rounded; no price at or below zero.
RoundDown(units) ==
    IF ~Seen(units) \/ units <= 0 THEN NaN
    ELSE (units \div (IdxTick(units) * U)) * IdxTick(units)
RoundUp(units) ==
    IF ~Seen(units) \/ units <= 0 THEN NaN
    ELSE -((-units) \div (IdxTick(units) * U)) * IdxTick(units)

Larger(a, b) == IF b > a THEN b ELSE a
Smaller(a, b) == IF b < a THEN b ELSE a

\* target lies at least tenths/10 risks above entry.
Pays(entry, target, stop, tenths) ==
    Seen(entry) /\ Seen(target) /\ Seen(stop) /\ entry > stop
    /\ 10 * (target - entry) >= tenths * (entry - stop)

\* The entry band of plan A and the trigger of plan B.
Trigger(p, lifecycle, book) ==
    IF book.verified /\ Seen(book.price) THEN RoundUp(book.price * U)
    ELSE RoundUp((IF lifecycle = "MOMENTUM_TRIGGERED" THEN Larger(p.close, p.high20) ELSE p.high20) * U)

Band(p, lifecycle, trigger) ==
    LET low == IF lifecycle = "MOMENTUM_TRIGGERED"
               THEN RoundDown(Larger(p.ema20 * U, trigger * U - 130 * p.atr))
               ELSE RoundDown(Larger(p.low20 * U, p.ema20 * U - 90 * p.atr))
        high == IF lifecycle = "MOMENTUM_TRIGGERED"
                THEN RoundUp(trigger * U + 40 * p.atr)
                ELSE RoundUp(Smaller(trigger * U, Larger(p.close * U, p.ema20 * U + 40 * p.atr)))
    IN [low |-> Smaller(low, high), high |-> Larger(low, high)]

\* Observed prior highs, on the tick grid.
Resistance(p) == {RoundUp(h * U) : h \in {x \in p.highs : x > 0}}

\* The first level above entry that pays the first floor, and the next that pays the second.
Structural(p, entry, stop, floor1, floor2) ==
    LET first == {t \in Resistance(p) : t > entry /\ Pays(entry, t, stop, floor1)}
        second == {t \in Resistance(p) : t > Min(first) /\ Pays(entry, t, stop, floor2)}
    IN IF first = {} THEN <<>> ELSE IF second = {} THEN <<>> ELSE <<Min(first), Min(second)>>

NoPlan == [valid |-> FALSE, structural |-> FALSE, pays |-> FALSE, low |-> NaN, ref |-> NaN,
           stop |-> NaN, tp1 |-> NaN, tp2 |-> NaN]

\* Mutant: the wider of the two stops.
StopA_Wider(p, band) ==
    LET structure == RoundDown(Smaller(p.low20 * U, band.low * U - 220 * p.atr))
        hard == RoundDown(95 * (band.low + band.high))
        tight == IF Seen(structure) THEN Smaller(structure, hard) ELSE NaN
    IN IF Seen(tight) /\ tight >= band.low
       THEN RoundDown((band.low - IdxTick(band.low * U)) * U) ELSE tight

\* The tighter of the structure and five percent below the middle, one tick below the
\* band when that lies inside it.  Python's max keeps a NaN that comes first.
StopA(p, band) ==
    LET structure == RoundDown(Smaller(p.low20 * U, band.low * U - 220 * p.atr))
        hard == RoundDown(95 * (band.low + band.high))
        tight == IF Seen(structure) THEN Larger(structure, hard) ELSE NaN
    IN IF Seen(tight) /\ tight >= band.low
       THEN RoundDown((band.low - IdxTick(band.low * U)) * U) ELSE tight

FromStopA(p, band, stop) ==
    LET mid == 100 * (band.low + band.high)          \* in units
        risk == mid - stop * U
        targets == Structural(p, band.high, stop, 15, 20)
        tp1 == IF targets # <<>> THEN targets[1] ELSE RoundUp(mid + (9 * risk) \div 5)
        tp2 == IF targets # <<>> THEN targets[2] ELSE RoundUp(mid + 3 * risk)
    IN IF ~Seen(stop) \/ risk <= 0 THEN NoPlan
       ELSE [valid |-> stop < band.low /\ band.high < tp1 /\ tp1 < tp2,
             structural |-> targets # <<>>, pays |-> Pays(band.high, tp1, stop, 15),
             low |-> band.low, ref |-> band.high, stop |-> stop, tp1 |-> tp1, tp2 |-> tp2]
PlanA(p, band) == FromStopA(p, band, StopA(p, band))

\* Its own stop, at most six percent away, and its own targets.
StopB(p, band, trigger) ==
    LET structure == Smaller((band.high - IdxTick(trigger * U)) * U,
                             trigger * U - Larger(250 * p.atr, 4 * trigger))
        tight == RoundDown(Larger(structure, 188 * trigger))
    IN IF Seen(tight) /\ tight >= trigger
       THEN RoundDown((trigger - IdxTick(trigger * U)) * U) ELSE tight

FromStopB(p, trigger, stop) ==
    LET risk == trigger - stop
        targets == Structural(p, trigger, stop, 18, 25)
        tp1 == IF targets # <<>> THEN targets[1] ELSE RoundUp(trigger * U + 360 * risk)
        tp2 == IF targets # <<>> THEN targets[2] ELSE RoundUp(trigger * U + 600 * risk)
    IN IF ~Seen(stop) \/ risk <= 0 THEN NoPlan
       ELSE [valid |-> stop < trigger /\ trigger < tp1 /\ tp1 < tp2,
             structural |-> targets # <<>>, pays |-> Pays(trigger, tp1, stop, 18),
             low |-> trigger, ref |-> trigger, stop |-> stop, tp1 |-> tp1, tp2 |-> tp2]
PlanB(p, band, trigger) == FromStopB(p, trigger, StopB(p, band, trigger))

\* The lifecycles that prefer a breakout need no case of their own: a breakout that
\* pays comes next for every lifecycle.
PrefersA == {"INVENTORY_COLLECTION", "FLOW_LEADS_NARRATIVE", "STORY_LEADS_FLOW"}

\* One path: the one the lifecycle prefers if it pays, else one that pays, else a valid one.
Selected(a, b, lifecycle) ==
    LET paysA == a.valid /\ a.pays
        paysB == b.valid /\ b.pays
    IN CASE lifecycle \in PrefersA /\ paysA -> "A"
         [] ~(lifecycle \in PrefersA /\ paysA) /\ (paysB \/ (b.valid /\ ~paysA)) -> "B"
         [] OTHER -> "A"

Refused == [path |-> "NONE", chosen |-> NoPlan, a |-> NoPlan, b |-> NoPlan, trigger |-> NaN,
            band |-> [low |-> NaN, high |-> NaN]]

\* An accumulation plan without valid geometry refuses the breakout plan as well.
Choice(p, lifecycle, trigger, band, a, b) ==
    LET path == Selected(a, b, lifecycle) IN
    IF p.atr <= 0 \/ ~Seen(p.close) \/ ~Seen(trigger) \/ ~Seen(band.low) \/ ~a.valid THEN Refused
    ELSE [path |-> path, chosen |-> IF path = "A" THEN a ELSE b, a |-> a, b |-> b, trigger |-> trigger, band |-> band]
InBand(p, lifecycle, trigger, band) ==
    Choice(p, lifecycle, trigger, band, PlanA(p, band), PlanB(p, band, trigger))
AtTrigger(p, lifecycle, trigger) == InBand(p, lifecycle, trigger, Band(p, lifecycle, trigger))
Plan(p, lifecycle, book) == AtTrigger(p, lifecycle, Trigger(p, lifecycle, book))

\* What the page and the export may act on.
GeometryValid(plan) ==
    /\ plan.path # "NONE" /\ plan.chosen.valid
    /\ plan.chosen.stop < plan.chosen.ref /\ plan.chosen.ref < plan.chosen.tp1
    /\ plan.chosen.tp1 < plan.chosen.tp2
MinRRPass(plan) == plan.path # "NONE" /\ plan.chosen.valid /\ plan.chosen.pays
=============================================================================
