------------------------------ MODULE Observed ------------------------------
(***************************************************************************)
(* Values that may be missing, and the mean and coverage of a group of     *)
(* them.  Scores are whole percents; the source's floats are cut to these. *)
(***************************************************************************)
EXTENDS Integers, Sequences, SequencesExt, FiniteSets, FiniteSetsExt

\* Outside every range of values the modules use.
NaN == -100000

Seen(x) == x # NaN
Finite(x, default) == IF Seen(x) THEN x ELSE default
Clip(x) == IF x < 0 THEN 0 ELSE IF x > 100 THEN 100 ELSE x

\* A comparison with NaN is false.
AtLeast(x, floor) == Seen(x) /\ x >= floor
Below(x, ceiling) == Seen(x) /\ x < ceiling

Total(op(_), parts) == SumFunction([i \in DOMAIN parts |-> op(parts[i])])

Covered(p) == p.weight * Clip(p.coverage)
Scored(p) == IF Seen(p.value) THEN p.weight * Clip(p.value) ELSE 0
ScoredWeight(p) == IF Seen(p.value) THEN p.weight ELSE 0
AllWeight(p) == p.weight

\* _weighted_fixed: quality is the mean of what was observed, coverage keeps the
\* full denominator.
Weighted(parts) ==
    [score |-> IF Total(ScoredWeight, parts) = 0 THEN NaN
               ELSE Total(Scored, parts) \div Total(ScoredWeight, parts),
     coverage |-> IF Total(AllWeight, parts) = 0 THEN 0
                  ELSE Total(Covered, parts) \div Total(AllWeight, parts)]

Part(value, weight, coverage) == [value |-> value, weight |-> weight, coverage |-> coverage]
\* A part that covers itself wholly when it is there.
Self(value, weight) == Part(value, weight, IF Seen(value) THEN 100 ELSE 0)

\* A tri-state regulatory flag of a row whose source is or is not verified.
Flag(value, verified) ==
    IF ~verified THEN "UNKNOWN"
    ELSE CASE value = "yes" -> "TRUE" [] value = "no" -> "FALSE" [] OTHER -> "UNKNOWN"
=============================================================================
