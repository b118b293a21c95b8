----------------------------- MODULE SharedMetrics -----------------------------
(***************************************************************************)
(* evidence_fundamental_metrics of one ticker while its writers write and  *)
(* scans read.  Nobody deletes a row: a report that is restated leaves its *)
(* rows behind, an upsert in batches may stop half way, and a read in      *)
(* pages, which are not ordered, may miss rows.                            *)
(***************************************************************************)
EXTENDS SharedFacts

CONSTANTS
    MaxPeriod,   \* reporting periods (bound)
    MaxSeen,     \* times of observation (bound)
    MaxReports,  \* reports that come out (bound)
    MaxWrites,   \* how often the table is written (bound)
    Parts        \* the figures a source may have, or a batch may bring, at once

ASSUME SharedMetricsAssumption ==
    /\ MaxPeriod \in Nat \ {0} /\ MaxSeen \in Nat \ {0}
    /\ MaxReports \in Nat /\ MaxWrites \in Nat /\ Parts \subseteq SUBSET Metric

VARIABLES
    reports,   \* the reports of the operational tables, current or superseded
    rows,      \* the rows of the table
    now,       \* the time
    writes     \* how often the table was written

metricVars == <<reports, rows, now, writes>>

Period == 1..MaxPeriod
Seen == 1..MaxSeen
ReportFamily == {"IDX_OFFICIAL_XBRL", "OTHER"}
Report == [period : Period, made : Seen, family : ReportFamily, verified : BOOLEAN, current : BOOLEAN]
AnyFigure == [origin : {"issuer", "blend", "vendor"}, period : 0..MaxPeriod, made : Seen]
AnyRow == [official : BOOLEAN, metric : Metric, figure : AnyFigure, period : 0..MaxPeriod, seen : Seen]

MetricsTypeOK ==
    /\ reports \subseteq Report /\ rows \subseteq AnyRow
    /\ now \in Seen /\ writes \in 0..MaxWrites

MetricsInit == reports = {} /\ rows = {} /\ now = 1 /\ writes = 0

\* A report comes out; of a period only the last one is current.
Superseded(period) == {IF r.period = period THEN [r EXCEPT !.current = FALSE] ELSE r : r \in reports}
File(period, family, verified) ==
    /\ Cardinality(reports) < MaxReports
    /\ reports' = Superseded(period) \cup
                  {[period |-> period, made |-> now, family |-> family, verified |-> verified, current |-> TRUE]}
    /\ UNCHANGED <<rows, now, writes>>

\* An upsert, of which the first batches or all get through.
Upsert(new) ==
    /\ writes < MaxWrites
    /\ \E part \in Parts : rows' = rows \cup {r \in new : r.metric \in part}
    /\ writes' = writes + 1
    /\ UNCHANGED <<reports, now>>

BridgeFacts == Upsert(FactRows(reports))
BridgeSnapshot(named, metrics, period) == Upsert(SnapshotRows(named, metrics, period, now))
Collect(pluang, yahoo, metrics, period) == Upsert(Structured(pluang, yahoo, metrics, period, now))
PublishFrame(shared, period, seen) == seen <= now /\ Upsert(PublishedRows(shared, period, seen))

\* A scan reads, which changes nothing.
ReadBundle == UNCHANGED metricVars

Tick ==
    /\ now < MaxSeen
    /\ now' = now + 1
    /\ UNCHANGED <<reports, rows, writes>>

MetricsNext ==
    \/ \E period \in Period, family \in ReportFamily, verified \in BOOLEAN : File(period, family, verified)
    \/ BridgeFacts
    \/ \E metrics \in Parts, period \in 0..MaxPeriod :
        \/ \E named \in BOOLEAN : BridgeSnapshot(named, metrics, period)
        \/ \E pluang, yahoo \in Answer : Collect(pluang, yahoo, metrics, period)
    \/ \E shared \in BOOLEAN, period \in 0..MaxPeriod, seen \in Seen : PublishFrame(shared, period, seen)
    \/ ReadBundle \/ Tick

MetricsSpec == MetricsInit /\ [][MetricsNext]_metricVars

\* What a scan may get of the table.
Readings == SUBSET rows

\* The figure of a report that was filed and verified, superseded or not.
Filed(figure) ==
    \E r \in reports :
        /\ r.family = "IDX_OFFICIAL_XBRL" /\ r.verified
        /\ figure = Figure("issuer", r.period, r.made)

\* Whoever wrote what in whatever order, and whatever pages a scan got, an official figure
\* is that of a verified XBRL report, all of one period (shared_structured_fundamental_evidence.py:176:
\* "Aggregate source verification must never be promoted to field-level official verification").
OfficialIsFiled ==
    \A got \in Readings : \A m, n \in Metric :
        \A f \in OfficialPayload(got)[m], g \in OfficialPayload(got)[n] : Filed(f) /\ f.period = g.period
=============================================================================
