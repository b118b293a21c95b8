--------------------------- MODULE NarrativeState ---------------------------
(***************************************************************************)
(* From public events to a narrative, from narrative and flow to a         *)
(* lifecycle, and from verified outcomes to the calibration of one.        *)
(* What the words of an event amount to (its score, its category, whether  *)
(* it is about the issuer) is given with the event.                        *)
(***************************************************************************)
EXTENDS Observed

Official(e) == e.regulatorUrl \/ (e.tier \in {"OFFICIAL", "ISSUER", "REGULATOR"} /\ e.verified)
EvidenceVerified(e) == e.verified \/ e.regulatorUrl
\* An explicit ticker tag is trusted; a search result has to name the issuer.
Relevant(e) == e.verified \/ e.tier \in {"OFFICIAL", "ISSUER", "REGULATOR"} \/ e.namesIssuer

\* Eligible, not administrative, public at the time of the decision, about the issuer.
Eligible(e) == e.eligible /\ ~e.administrative /\ ~e.future /\ Relevant(e)

\* Event k comes before n: by score, then in the order of the table.
Better(events, k, n) ==
    events[k].score > events[n].score \/ (events[k].score = events[n].score /\ k < n)

\* One event for each story, the one with the highest score.
Stories(scored) ==
    RestrictDomain(scored, LAMBDA n : \A k \in DOMAIN scored :
                                         scored[k].story = scored[n].story => ~Better(scored, k, n))
Rank(stories, n) == 1 + Cardinality({k \in DOMAIN stories : Better(stories, k, n)})

Number(events) == Cardinality(DOMAIN events)
Count(events, Is(_)) == Number(RestrictValues(events, Is))
\* Words of hype and of bad news in an event; all of them count towards the state.
Hype(e) == e.hype
Negative(e) == e.negative

\* Rank i of the best five weighs from 1 down to 0.55.
RankWeight(i, n) == IF n = 1 THEN 100 ELSE 100 - (45 * (i - 1)) \div (n - 1)

NoStory == [score |-> NaN, coverage |-> 0, state |-> "NO_ACTIVE_PUBLIC_NARRATIVE", events |-> 0,
            independent |-> 0, verified |-> 0, official |-> 0, contradiction |-> NaN,
            bridge |-> NaN, materiality |-> NaN, reach |-> NaN, retail |-> "UNKNOWN", independence |-> NaN]

\* score_narrative_events.  reach stands for the four softer readings of an event: runway,
\* top-down catalyst, industry translation and alignment with the issuer.
StoryState(score, coverage, official, hype, negative) ==
    CASE negative >= 2 -> "CONTRADICTED_OR_NEGATIVE"
      [] negative < 2 /\ hype >= 2 /\ score >= 58 -> "PUBLIC_HYPE_CROWDED"
      [] negative < 2 /\ ~(hype >= 2 /\ score >= 58) /\ score >= 70
         /\ coverage >= 55 /\ official >= 1 -> "MATERIAL_THESIS_CONFIRMED"
      [] negative < 2 /\ ~(hype >= 2 /\ score >= 58) /\ score >= 56
         /\ ~(score >= 70 /\ coverage >= 55 /\ official >= 1) -> "THESIS_FORMING"
      [] OTHER -> "WEAK_OR_UNCONVERTED"

Told(scored, stories) ==
    LET top == RestrictDomain(stories, LAMBDA n : Rank(stories, n) <= 5)
        Mean(field) == Weighted([n \in DOMAIN top |-> Part(top[n][field], 1, 0)]).score
        score == Weighted([n \in DOMAIN top |->
                              Part(top[n].score, RankWeight(Rank(stories, n), Number(top)), 0)]).score
        publishers == Cardinality({stories[i].publisher : i \in DOMAIN stories})
        official == Count(stories, Official)
        verified == Count(stories, EvidenceVerified)
        hype == Total(Hype, stories)
        coverage == Clip(10 * Min({5, Number(stories)}) + 8 * Min({3, publishers})
                         + 14 * Min({2, official}) + 8 * Min({2, verified}))
    IN [score |-> score, coverage |-> coverage,
        state |-> StoryState(score, coverage, official, hype, Total(Negative, stories)),
        events |-> Number(scored), independent |-> Number(stories), verified |-> verified, official |-> official,
        contradiction |-> (100 * Count(stories, LAMBDA e : e.negative > 0)) \div Number(stories),
        bridge |-> Mean("bridge"), materiality |-> Mean("materiality"), reach |-> Mean("reach"),
        retail |-> IF hype >= 2 THEN "EUPHORIA" ELSE IF hype = 1 THEN "ADOPTION"
                   ELSE IF Number(scored) >= 2 THEN "EARLY_AWARENESS" ELSE "PRE_RETAIL",
        independence |-> Clip((100 * Number(stories)) \div Number(scored))]

Narrative(events) ==
    LET scored == RestrictValues(events, Eligible)
    IN IF DOMAIN scored = {} THEN NoStory ELSE Told(scored, Stories(scored))

-----------------------------------------------------------------------------

\* classify_lifecycle: what is being distributed, crowded or contradicted is named first.
Lifecycle(flow, inventory, story, distribution, crowding, stage, phase) ==
    LET sold == Max({distribution, IF Seen(inventory) THEN 100 - inventory ELSE 0})
        collecting == stage \in {"SILENT_ACCUMULATION", "BASE_TRANSITION"}
    IN IF story.state = "CONTRADICTED_OR_NEGATIVE" \/ sold >= 65 \/ phase = "RELEASE"
       THEN "SMART_MONEY_DISTRIBUTION"
       ELSE IF crowding >= 68 \/ story.state = "PUBLIC_HYPE_CROWDED" \/ story.retail = "EUPHORIA"
       THEN "RETAIL_EUPHORIA"
       ELSE IF AtLeast(story.score, 58) /\ ~AtLeast(flow, 52) THEN "STORY_LEADS_FLOW"
       ELSE IF AtLeast(flow, 62) /\ story.coverage < 30 THEN "FLOW_LEADS_NARRATIVE"
       ELSE IF AtLeast(flow, 62) /\ AtLeast(story.score, 60)
       THEN IF stage = "MARKUP" THEN "MOMENTUM_TRIGGERED" ELSE "EARLY_CONVERGENCE"
       ELSE IF stage = "MARKUP" /\ (AtLeast(inventory, 58) \/ AtLeast(flow, 58))
       THEN "MARKUP_REACCUMULATION_REQUIRED"
       ELSE IF (AtLeast(inventory, 62) /\ (collecting \/ phase = "BOTTOMING"))
               \/ (AtLeast(flow, 56) /\ collecting)
       THEN "INVENTORY_COLLECTION"
       ELSE "NO_EDGE"

-----------------------------------------------------------------------------

\* build_outcome_calibration: one group of verified outcomes.  Percentages are whole.
GroupState(g) ==
    CASE g.pit < 100 -> "SURVIVORSHIP_BIAS_UNCONTROLLED_SHADOW_ONLY"
      [] g.pit >= 100 /\ g.n < 30 -> "INSUFFICIENT_SAMPLE_SHADOW_ONLY"
      [] g.pit >= 100 /\ g.n >= 30 /\ (g.winRate < 40 \/ g.median <= 0 \/ g.drawdown <= -18)
           -> "EMPIRICAL_EDGE_REJECTED"
      [] g.pit >= 100 /\ g.n >= 30 /\ g.winRate >= 52 /\ g.median > 0 /\ g.drawdown > -18
           -> "EMPIRICAL_EDGE_SUPPORTED"
      [] OTHER -> "EMPIRICAL_EDGE_MIXED"

\* select_outcome_calibration: the group of lifecycle and structure, else all outcomes.
SelectCalibration(groups, lifecycle, structure) ==
    IF groups = <<>> THEN "NO_OUTCOME_MEMORY"
    ELSE LET own == SelectSeq(groups, LAMBDA g : g.lifecycle = lifecycle /\ g.structure = structure)
             all == SelectSeq(groups, LAMBDA g : g.lifecycle = "GLOBAL")
         IN IF own # <<>> THEN GroupState(Head(own)) ELSE GroupState(Head(all))
=============================================================================
