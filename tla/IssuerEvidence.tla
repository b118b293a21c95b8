--------------------------- MODULE IssuerEvidence ---------------------------
(***************************************************************************)
(* How rows of evidence about one issuer become what the scoring sees:     *)
(* IDX integrity, ownership, order book and broker summary.  Each takes    *)
(* the rows of one ticker in the order of the table.                       *)
(***************************************************************************)
EXTENDS Observed

\* Free float in tenths of a percent, age in days.
StaleAfter == 60
ExtremeFloat == 75
LowFloat == 150

Critical == {"hsc", "special", "fca", "suspended", "uma", "sanctions"}

Flags(row) == [f \in Critical |-> Flag(row.flags[f], row.verified)]

\* Mutant: only what the source says counts, not how old it is.
BlockReasons_NoAge(row) ==
    LET flag == Flags(row) IN
    {f \in {"suspended", "hsc", "sanctions"} : flag[f] = "TRUE"}
    \cup (IF flag["special"] = "TRUE" \/ flag["fca"] = "TRUE" THEN {"special_or_fca"} ELSE {})
    \cup (IF Below(row.float, ExtremeFloat) THEN {"float"} ELSE {})

BlockReasons(row) ==
    LET flag == Flags(row) IN
    {f \in {"suspended", "hsc", "sanctions"} : flag[f] = "TRUE"}
    \cup (IF flag["special"] = "TRUE" \/ flag["fca"] = "TRUE" THEN {"special_or_fca"} ELSE {})
    \cup (IF Below(row.float, ExtremeFloat) THEN {"float"} ELSE {})
    \cup (IF ~Seen(row.age) \/ row.age > StaleAfter THEN {"stale"} ELSE {})

Unknown(row) == Cardinality({f \in Critical : Flags(row)[f] = "UNKNOWN"})

\* Seven fields; special monitoring and full call auction count as one.
FieldsPresent(row) ==
    LET flag == Flags(row)
        present == <<row.board, Seen(row.float), flag["hsc"] # "UNKNOWN",
                     flag["special"] # "UNKNOWN" \/ flag["fca"] # "UNKNOWN",
                     flag["suspended"] # "UNKNOWN", Seen(row.age), row.url>>
    IN Cardinality({i \in DOMAIN present : present[i]})

Caution(row) ==
    \/ Flags(row)["uma"] = "TRUE"
    \/ AtLeast(row.float, ExtremeFloat) /\ row.float < LowFloat
    \/ Flag(row.action, row.verified) = "TRUE"
    \/ Flag(row.over1, row.verified) # "TRUE"
    \/ Unknown(row) > 0

\* The quality of the evidence, in percent; freshness is a seventh part of it.
IntegrityScore(row) ==
    LET flag == Flags(row)
        Off(n, holds) == IF holds THEN n ELSE 0
        base == 100 - Off(45, flag["hsc"] = "TRUE")
                    - Off(55, flag["special"] = "TRUE" \/ flag["fca"] = "TRUE")
                    - Off(90, flag["suspended"] = "TRUE") - Off(18, flag["uma"] = "TRUE")
                    - Off(40, flag["sanctions"] = "TRUE") - Off(12, Flag(row.action, row.verified) = "TRUE")
                    - Off(45, Below(row.float, ExtremeFloat))
                    - Off(22, AtLeast(row.float, ExtremeFloat) /\ row.float < LowFloat)
        fresh == IF row.age <= 35 THEN 100 ELSE IF row.age <= StaleAfter THEN 65 ELSE 20
    IN Clip(IF Seen(row.age) THEN (85 * base + 15 * fresh) \div 100 ELSE base)

IntegrityState(row) ==
    CASE ~row.verified -> "UNVERIFIED_NOT_USED_FOR_PRODUCTION"
      [] row.verified /\ BlockReasons(row) # {} -> "IDX_INTEGRITY_HARD_BLOCK"
      [] row.verified /\ BlockReasons(row) = {} /\ Caution(row) -> "IDX_INTEGRITY_CAUTION"
      [] OTHER -> "IDX_INTEGRITY_CLEAR"

\* What is said of one row; an unverified row says only that it blocks.
IntegrityOf(row) ==
    [score |-> IF row.verified THEN IntegrityScore(row) ELSE NaN,
     coverage |-> IF row.verified THEN (100 * FieldsPresent(row)) \div 7 ELSE 0,
     hard |-> ~row.verified \/ BlockReasons(row) # {},
     state |-> IntegrityState(row),
     provenance |-> IF row.verified THEN "DIRECT" ELSE "UNVERIFIED",
     unknown |-> Unknown(row) + (IF row.board THEN 0 ELSE 1) + (IF Seen(row.float) THEN 0 ELSE 1),
     cleared |-> Flag(row.action, row.verified) = "FALSE", float |-> IF row.verified THEN row.float ELSE NaN]

-----------------------------------------------------------------------------

FloatScore(float) ==
    CASE ~Seen(float) -> NaN
      [] Seen(float) /\ 100 <= float /\ float <= 350 -> 85
      [] float \in 50..500 /\ float \notin 100..350 -> 62
      [] OTHER -> 30

\* An ownership row that does not say otherwise counts as verified.
OwnershipOf(row) ==
    LET verified == row.verified # "no"
        float == IF ~Seen(row.float) THEN NaN
                 ELSE IF row.float < Finite(row.affiliated, 0) THEN 0
                 ELSE row.float - Finite(row.affiliated, 0)
        network == Weighted(<<Self(row.alignment, 35), Self(row.relationship, 25),
                              Self(row.concentration, 15), Self(FloatScore(float), 15),
                              Self(IF row.over1 THEN 80 ELSE NaN, 5),
                              Self(IF row.insider THEN 80 ELSE NaN, 5)>>)
    IN IF verified
       THEN [score |-> network.score, coverage |-> network.coverage, float |-> float, provenance |-> "DIRECT"]
       ELSE [score |-> NaN, coverage |-> 0, float |-> NaN, provenance |-> "UNVERIFIED"]

-----------------------------------------------------------------------------

Verified(row) == row.verified

\* Among the verified rows the last of the table, whenever it was observed.
ParseOrderbook(rows) ==
    LET verified == {k \in DOMAIN rows : Verified(rows[k])}
        latest == rows[Max(verified)]
        trigger == Weighted(<<Self(latest.stack, 40), Self(latest.speed, 35), Self(latest.value, 25)>>)
    IN IF rows = <<>> THEN [score |-> NaN, coverage |-> 0, price |-> NaN, provenance |-> "NONE"]
       ELSE IF verified = {}
       THEN [score |-> NaN, coverage |-> 0, price |-> NaN, provenance |-> "UNVERIFIED"]
       ELSE [score |-> trigger.score, coverage |-> trigger.coverage, price |-> latest.price,
             provenance |-> "DIRECT"]

-----------------------------------------------------------------------------

Net(row) == row.buy - row.sell
Gross(row) == row.buy + row.sell
RetailNet(row) == IF row.retail THEN Net(row) ELSE 0
SmartNet(row) == IF row.retail THEN 0 ELSE Net(row)
FundNet(row) == IF row.fund THEN Net(row) ELSE 0
Size(row) == IF Net(row) < 0 THEN -Net(row) ELSE Net(row)

Months(rows) == {rows[i].month : i \in DOMAIN rows}
MonthNet(rows, m) == Total(Net, RestrictValues(rows, LAMBDA r : r.month = m))

\* Share of the months, in percent, in which more was bought than sold.
Persistence(rows) ==
    (100 * Cardinality({m \in Months(rows) : MonthNet(rows, m) > 0})) \div Cardinality(Months(rows))

\* Net over gross value, in percent.
NetRatio(rows) == IF Total(Gross, rows) = 0 THEN NaN ELSE (100 * Total(Net, rows)) \div Total(Gross, rows)

ShiftState(rows) ==
    LET net == Total(Net, rows) IN
    CASE Persistence(rows) >= 65 /\ net > 0 -> "COLLECTION_PERSISTING"
      [] 10 * net < -Total(Gross, rows) -> "DISTRIBUTION_DOMINANT"
      [] OTHER -> "MIXED_OR_BOTTOMING"

NoBroker == [score |-> NaN, coverage |-> 0, shift |-> "NONE", phase |-> "NONE",
             cannibalisation |-> 0, provenance |-> "NONE"]

\* aggregate_broker_summary: only verified rows count.  The level that large crossings
\* defend is left out of the score.
Inventory(rows) ==
    LET retail == \E i \in DOMAIN rows : rows[i].retail
        fund == \E i \in DOMAIN rows : rows[i].fund
        ratio == NetRatio(rows)
        score == IF Seen(ratio) THEN Clip(50 + (5 * ratio) \div 2) ELSE NaN
        years == (Max(Months(rows)) - Min(Months(rows))) \div 12
        size == Total(Size, rows)
        dryness == Clip((55 * Persistence(rows) + 25 * Finite(score, 50)
                         + 20 * (IF \E i \in DOMAIN rows : rows[i].buyback THEN 85 ELSE 45)) \div 100)
        exit == IF ~retail THEN NaN
                ELSE IF Total(RetailNet, rows) < 0 /\ Total(SmartNet, rows) > 0 THEN 85 ELSE 50
    IN Weighted(<<Part(score, 28, 100), Part(Persistence(rows), 24, 40 + 30 * years), Self(exit, 16),
                  Self(IF ~fund THEN NaN
                       ELSE Clip(50 + IF size = 0 THEN 0 ELSE (250 * Total(FundNet, rows)) \div size), 12),
                  Self(NaN, 12), Part(dryness, 8, 100)>>)

ParseBroker(rows) ==
    LET verified == RestrictValues(rows, Verified)
        retail == \E i \in DOMAIN verified : verified[i].retail
        inventory == Inventory(verified)
    IN IF rows = <<>> THEN NoBroker
       ELSE IF DOMAIN verified = {} THEN [NoBroker EXCEPT !.provenance = "UNVERIFIED"]
       ELSE [score |-> inventory.score, coverage |-> inventory.coverage, shift |-> ShiftState(verified), phase |-> "NONE",
             cannibalisation |->
                 IF ~retail THEN 0
                 ELSE IF Total(RetailNet, verified) > 0 /\ Total(SmartNet, verified) <= 0 THEN 80 ELSE 15,
             provenance |-> "DIRECT"]
=============================================================================
