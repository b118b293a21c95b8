------------------------- MODULE SharedMetricsProofs -------------------------
(***************************************************************************)
(* Theorems about SharedMetrics, for every bound and every choice of parts. *)
(***************************************************************************)
EXTENDS SharedMetrics, TLAPS

\* A row carries the period of its figure, and an official one the figure of a report
\* that was filed and verified, whether or not it was superseded since.
RowShape == \A r \in rows : r.period = r.figure.period /\ (r.official => Filed(r.figure))

MetricsInv == MetricsTypeOK /\ RowShape

-----------------------------------------------------------------------------
(* The writers.                                                            *)

\* Rows that any writer may have are typed, and official ones are of trusted reports.
GoodRow(r) == r \in AnyRow /\ r.period = r.figure.period /\ (r.official => Filed(r.figure))

LEMMA FactRowsGood ==
    ASSUME MetricsTypeOK, NEW r \in FactRows(reports)
    PROVE  GoodRow(r)
<1>1. PICK report \in reports, metric \in Reported :
        r = Row(Trusted(report), metric, Figure("issuer", report.period, report.made), report.made)
    BY DEF FactRows
<1>2. report \in Report
    BY DEF MetricsTypeOK
<1>3. Figure("issuer", report.period, report.made) \in AnyFigure
    BY <1>2, SharedMetricsAssumption DEF Figure, AnyFigure, Report, Period, Seen
<1>4. Trusted(report) \in BOOLEAN /\ metric \in Metric /\ report.made \in Seen /\ report.period \in 0..MaxPeriod
    BY <1>2, SharedMetricsAssumption DEF Trusted, Metric, Report, Period
<1>5. r \in AnyRow /\ r.period = r.figure.period
    BY <1>1, <1>3, <1>4 DEF Row, Figure, AnyRow
<1>6. r.official => Filed(r.figure)
    BY <1>1 DEF Row, Filed, Trusted
<1> QED
    BY <1>5, <1>6 DEF GoodRow

\* Snapshots, vendors and scans only observe.
LEMMA ObservedRowsGood ==
    ASSUME NEW origin \in {"blend", "vendor"}, NEW metric \in Metric,
           NEW period \in 0..MaxPeriod, NEW seen \in Seen
    PROVE  GoodRow(Row(FALSE, metric, Figure(origin, period, seen), seen))
    BY DEF GoodRow, Row, Figure, AnyRow, AnyFigure

-----------------------------------------------------------------------------
(* The steps.                                                              *)

\* What was filed stays filed.
LEMMA FiledStays ==
    ASSUME NEW period \in Period, NEW fam \in ReportFamily, NEW verified \in BOOLEAN,
           MetricsTypeOK, File(period, fam, verified), NEW figure, Filed(figure)
    PROVE  Filed(figure)'
<1>1. PICK r \in reports :
        r.family = "IDX_OFFICIAL_XBRL" /\ r.verified /\ figure = Figure("issuer", r.period, r.made)
    BY DEF Filed
<1> DEFINE s == IF r.period = period THEN [r EXCEPT !.current = FALSE] ELSE r
<1>2. r \in Report
    BY DEF MetricsTypeOK
<1>3. s.family = r.family /\ s.verified = r.verified /\ s.period = r.period /\ s.made = r.made
    BY <1>2 DEF Report
<1>4. s \in reports'
    BY DEF File, Superseded
<1> QED
    BY <1>1, <1>3, <1>4 DEF Filed

LEMMA FileTyped ==
    ASSUME NEW period \in Period, NEW fam \in ReportFamily, NEW verified \in BOOLEAN,
           MetricsTypeOK, File(period, fam, verified)
    PROVE  reports' \subseteq Report
<1>1. Superseded(period) \subseteq Report
    BY DEF Superseded, MetricsTypeOK, Report
<1>2. [period |-> period, made |-> now, family |-> fam, verified |-> verified, current |-> TRUE] \in Report
    BY DEF Report, MetricsTypeOK
<1> QED
    BY <1>1, <1>2 DEF File

\* An upsert of good rows, in whatever parts.
LEMMA UpsertStep ==
    ASSUME MetricsInv, NEW new, \A r \in new : GoodRow(r), Upsert(new)
    PROVE  MetricsInv'
<1>1. PICK part \in Parts : rows' = rows \cup {r \in new : r.metric \in part}
    BY DEF Upsert
<1>2. UNCHANGED <<reports, now>> /\ writes' \in 0..MaxWrites
    BY SharedMetricsAssumption DEF Upsert, MetricsInv, MetricsTypeOK
<1>3. \A f : Filed(f) => Filed(f)'
    BY <1>2 DEF Filed
<1> QED
    BY <1>1, <1>2, <1>3 DEF MetricsInv, MetricsTypeOK, RowShape, GoodRow

LEMMA MetricsInitInv == MetricsInit => MetricsInv
    BY SharedMetricsAssumption DEF MetricsInit, MetricsInv, MetricsTypeOK, RowShape, Seen

LEMMA MetricsNextInv ==
    ASSUME MetricsInv, [MetricsNext]_metricVars
    PROVE  MetricsInv'
<1>1. ASSUME NEW period \in Period, NEW fam \in ReportFamily, NEW verified \in BOOLEAN,
             File(period, fam, verified)
      PROVE  MetricsInv'
    <2>1. reports' \subseteq Report /\ UNCHANGED <<rows, now, writes>>
        BY <1>1, FileTyped DEF MetricsInv, File
    <2>2. \A r \in rows : Filed(r.figure) => Filed(r.figure)'
        <3> TAKE r \in rows
        <3>1. ASSUME NEW figure, Filed(figure) PROVE Filed(figure)'
            BY <1>1, <3>1, FiledStays DEF MetricsInv
        <3> QED BY <2>1, <3>1
    <2> QED BY <2>1, <2>2 DEF MetricsInv, MetricsTypeOK, RowShape
<1>2. CASE BridgeFacts
    BY <1>2, FactRowsGood, UpsertStep DEF BridgeFacts, MetricsInv
<1>3. ASSUME NEW named \in BOOLEAN, NEW metrics \in Parts, NEW period \in 0..MaxPeriod,
             BridgeSnapshot(named, metrics, period)
      PROVE  MetricsInv'
    <2>1. \A r \in SnapshotRows(named, metrics, period, now) : GoodRow(r)
        BY ObservedRowsGood, SharedMetricsAssumption DEF SnapshotRows, MetricsInv, MetricsTypeOK
    <2> QED BY <1>3, <2>1, UpsertStep DEF BridgeSnapshot
<1>4. ASSUME NEW pluang \in Answer, NEW yahoo \in Answer, NEW metrics \in Parts,
             NEW period \in 0..MaxPeriod, Collect(pluang, yahoo, metrics, period)
      PROVE  MetricsInv'
    <2>1. \A r \in Structured(pluang, yahoo, metrics, period, now) : GoodRow(r)
        BY ObservedRowsGood, SharedMetricsAssumption DEF Structured, VendorRows, MetricsInv, MetricsTypeOK
    <2> QED BY <1>4, <2>1, UpsertStep DEF Collect
<1>5. ASSUME NEW shared \in BOOLEAN, NEW period \in 0..MaxPeriod, NEW seen \in Seen,
             PublishFrame(shared, period, seen)
      PROVE  MetricsInv'
    <2>1. \A r \in PublishedRows(shared, period, seen) : GoodRow(r)
        BY ObservedRowsGood DEF PublishedRows, Metric
    <2> QED BY <1>5, <2>1, UpsertStep DEF PublishFrame
<1>6. CASE Tick
    <2>1. UNCHANGED <<reports, rows, writes>> /\ now' \in Seen
        BY <1>6, SharedMetricsAssumption DEF Tick, MetricsInv, MetricsTypeOK, Seen
    <2> QED BY <2>1 DEF MetricsInv, MetricsTypeOK, RowShape, Filed
<1>7. CASE UNCHANGED metricVars
    BY <1>7 DEF metricVars, MetricsInv, MetricsTypeOK, RowShape, Filed
<1> QED
    BY <1>1, <1>2, <1>3, <1>4, <1>5, <1>6, <1>7 DEF MetricsNext, ReadBundle

\* The invariant of every behaviour of the table.
THEOREM MetricsInvariant == MetricsSpec => []MetricsInv
    BY MetricsInitInv, MetricsNextInv, PTL DEF MetricsSpec

-----------------------------------------------------------------------------
(* The reader.                                                             *)

\* The official figures of a reading are those of official rows of one period.
LEMMA OfficialOfOnePeriod ==
    ASSUME MetricsInv, NEW got \in SUBSET rows, NEW m \in Metric, NEW f \in OfficialPayload(got)[m]
    PROVE  Filed(f) /\ f.period \in OfficialPeriods(got)
<1>1. f \in Official(got, m)
    BY DEF OfficialPayload
<1>2. PICK r \in CurrentOfficial(got) : f = r.figure
    BY <1>1 DEF Official, Given, LastSeen, Of
<1>3. r \in rows /\ r.official /\ r.period \in OfficialPeriods(got)
    BY <1>2 DEF CurrentOfficial
<1> QED
    BY <1>2, <1>3 DEF MetricsInv, RowShape

LEMMA OnePeriod ==
    ASSUME MetricsInv, NEW got \in SUBSET rows, NEW a \in OfficialPeriods(got), NEW b \in OfficialPeriods(got)
    PROVE  a = b
<1>1. a <= b /\ b <= a
    BY DEF OfficialPeriods, Greatest
<1>2. a \in Nat /\ b \in Nat
    BY SharedMetricsAssumption DEF OfficialPeriods, Greatest, MetricsInv, MetricsTypeOK, AnyRow
<1> QED
    BY <1>1, <1>2

\* An official figure is that of a verified XBRL report and all of them are of one period,
\* whatever was written in whatever parts, and whatever pages a scan got
\* (normalize_operational_financial_facts, canonicalize_metric_rows, _official_payload).
THEOREM OfficialFiled == MetricsSpec => []OfficialIsFiled
<1>1. MetricsInv => OfficialIsFiled
    BY OfficialOfOnePeriod, OnePeriod DEF OfficialIsFiled, Readings
<1> QED
    BY <1>1, MetricsInvariant, PTL

\* The table and the reports stay typed within their bounds.
THEOREM MetricsTyped == MetricsSpec => []MetricsTypeOK
    BY MetricsInvariant, PTL DEF MetricsInv
=============================================================================
