------------------------------ MODULE SharedFacts ------------------------------
(***************************************************************************)
(* The figures of a ticker in evidence_fundamental_metrics, the table the  *)
(* two scanners share, and what a scan makes of them.                      *)
(*                                                                         *)
(* Reports that are filed in IDX XBRL are bridged figure by figure and may *)
(* be official.  Snapshots blend sources, vendors only observe: what comes *)
(* of them is never official.  A scan reads the rows, or a public           *)
(* projection of them, into a proxy and an official payload.               *)
(***************************************************************************)
EXTENDS Naturals, FiniteSets

\* Two figures that are reported and one that is made of them where it is not given.
Reported == {"revenue", "income"}
Metric == Reported \cup {"margin"}

\* A row: what figure of what period (0: unknown) it has, whether it is official, and when
\* it was observed.  Figures are told apart by where they are from.
Row(official, metric, figure, seen) ==
    [official |-> official, metric |-> metric, figure |-> figure, period |-> figure.period, seen |-> seen]
Figure(origin, period, made) == [origin |-> origin, period |-> period, made |-> made]

-----------------------------------------------------------------------------
(* Writers.                                                                *)

\* Facts of a report that is current; they are official when their lineage says that the
\* source is verified and the report is of the XBRL family.
Trusted(report) == report.verified /\ report.family = "IDX_OFFICIAL_XBRL"
FactRows(reports) ==
    {Row(Trusted(report), metric, Figure("issuer", report.period, report.made), report.made) :
        report \in {r \in reports : r.current}, metric \in Reported}

\* A snapshot of whatever families, whose own verification is not that of its figures.  A
\* snapshot that names no families or no time of observation has no rows.
PromotedRows(named, metrics, period, seen) ==  \* a variant that takes a snapshot for its sources
    {Row(named, metric, Figure("blend", period, seen), seen) : metric \in metrics}
SnapshotRows(named, metrics, period, seen) ==
    {Row(FALSE, metric, Figure("blend", period, seen), seen) : metric \in IF named THEN metrics ELSE {}}

\* Pluang is asked first, in three requests, then Yahoo, in four.  A refusal for the month
\* or the minute ends it for both.
VendorRows(metrics, period, seen) ==
    {Row(FALSE, metric, Figure("vendor", period, seen), seen) : metric \in metrics}
Refused == {"month", "minute"}
Answer == {"rows", "none"} \cup Refused
Structured(pluang, yahoo, metrics, period, seen) ==
    IF pluang = "rows" \/ (pluang = "none" /\ yahoo = "rows") THEN VendorRows(metrics, period, seen) ELSE {}

\* A scan publishes the margins and growth of the snapshots it fetched itself, as observed
\* when it fetched them; what it has of the table it does not publish again.
PublishedRows(shared, period, seen) ==
    IF shared THEN {} ELSE {Row(FALSE, "margin", Figure("vendor", period, seen), seen)}

-----------------------------------------------------------------------------
(* The reader.                                                             *)

Greatest(set) == {n \in set : \A m \in set : m <= n}
Of(rows, metric) == {r \in rows : r.metric = metric}
LastSeen(rows) == {r \in rows : \A q \in rows : q.seen <= r.seen}

\* Of the rows that are not official the last observed counts, of rows observed at once
\* that of the later period, whatever the period of the other figures.
Unofficial(rows) == {r \in rows : ~r.official}
Supersedes(r, q) == q.seen < r.seen \/ (q.seen = r.seen /\ q.period <= r.period)
Proxy(rows, metric) ==
    LET mine == Of(Unofficial(rows), metric) IN
    {r.figure : r \in {r \in mine : \A q \in mine : Supersedes(r, q)}}

\* Of the official rows those of the newest period count, of each metric the last observed;
\* a margin is made of revenue and income when it is not there.
OfficialPeriods(rows) == Greatest({r.period : r \in {q \in rows : q.official /\ q.period # 0}})
CurrentOfficial(rows) == {r \in rows : r.official /\ r.period \in OfficialPeriods(rows)}
Given(rows, metric) == {r.figure : r \in LastSeen(Of(CurrentOfficial(rows), metric))}
Official(rows, metric) ==
    IF metric = "margin" /\ Given(rows, metric) = {} /\ Given(rows, "revenue") # {}
    THEN Given(rows, "income")
    ELSE Given(rows, metric)

\* What is official stands in for a proxy figure that is missing.
WithFallback(rows, metric) ==
    IF Proxy(rows, metric) # {} THEN Proxy(rows, metric) ELSE Official(rows, metric)

\* The period of the proxy is the newest of any row that is not official.
ProxyPeriods(rows) ==
    LET periods == {r.period : r \in Unofficial(rows)} \ {0} IN
    IF periods # {} THEN Greatest(periods) ELSE OfficialPeriods(rows)

\* The figures of the proxy payload: reported ones are left out where they are the
\* official ones, a margin is taken for one of twelve months wherever it is from.
ProxyPayload(rows) ==
    [metric \in Metric |->
        IF metric \in Reported THEN WithFallback(rows, metric) \ Official(rows, metric)
        ELSE WithFallback(rows, metric)]
OfficialPayload(rows) == [metric \in Metric |-> Official(rows, metric)]

\* Whether a payload spares the providers, when a report of period "expected" should be out.
SharedGood(period, covered, expected) == period # 0 /\ covered /\ expected <= period
OfficialGood(period, expected) == period # 0 /\ expected <= period

\* The private table, or the public projection when that has nothing for any ticker asked for.
ReadShared(private, public) == IF private # {} THEN private ELSE public
=============================================================================
