------------------------------ MODULE Decisions ------------------------------
(***************************************************************************)
(* The decisions of one scan, from the evidence on hand to the lanes of    *)
(* the page: finalize_job scores every issuer and finalizes the radar; a   *)
(* later release, or a page that reads back rows of an older one,          *)
(* finalizes it again.  Evidence is given by name: a catalogue holds what  *)
(* each name stands for.                                                   *)
(***************************************************************************)
EXTENDS FinalDecision

CONSTANTS Issuers,       \* tickers of the universe
          Catalogue,     \* block of evidence -> name -> value
          Cases,         \* records: names for the scan, for each issuer, and what the
                         \* providers may answer about their flow
          MaxRelease     \* releases that finalize the same radar, one after the other

\* What each block of evidence is known to be; NaN is a number too.
Percent == 0..100 \cup {NaN}
IsFeatures(f) ==
    /\ f.smart \in Percent /\ f.smartCoverage \in Nat /\ f.tape.observed \in Nat
    /\ {f.age, f.adtv, f.geometry, f.trend, f.distribution, f.crowding, f.friction, f.cycle,
        f.reversal, f.continuation, f.sideways} \subseteq Int
    /\ {f.prices.close, f.prices.atr, f.prices.ema20, f.prices.high20, f.prices.low20} \subseteq Int
    /\ {f.tape.accumulation, f.tape.absorption, f.tape.distribution, f.tape.failed, f.tape.pressure,
        f.tape.dryness, f.tape.acceptance} \subseteq Int
IsEvent(e) == {e.score, e.bridge, e.materiality, e.reach} \subseteq Int
IsOwnerRow(r) == {r.alignment, r.relationship, r.concentration} \subseteq Int
IsBookRow(r) == {r.stack, r.speed, r.value, r.price} \subseteq Int
IsBrokerRow(r) == r.buy \in Nat /\ r.sell \in Nat /\ r.month \in Int
IsIndex(x) == {x.trend, x.distribution, x.momentum} \subseteq Int
IsUniverse(u) == {u.breadth, u.trend, u.distribution, u.flow, u.momentum} \subseteq Int /\ u.valid \in Nat
IsSector(s) == {s.breadth, s.strength, s.momentum, s.flow} \subseteq Int /\ s.members \in Nat
IsBusiness(b) ==
    /\ {b.revenueYtd, b.earningsYtd, b.revenueQuarter, b.earningsQuarter, b.margin, b.roe, b.direct, b.future} \subseteq Int
    /\ b.directCoverage \in Nat /\ b.futureCoverage \in Nat
IsAccount(a) == a.capital \in Nat /\ a.risk \in Nat /\ a.maxCap \in Int
IsSession(s) == s.buy \in Nat /\ s.sell \in Nat /\ s.volume \in Nat /\ s.net \in Int
IsDeal(r) == r.net \in Int

\* A fundamental that official filings cover has a period and so an age (_official_payload,
\* _period_freshness).  Its ocf is the cash flow that its quality was judged from, and a
\* quality that is neither missing nor negative was judged from one that is not negative
\* (_cashflow_quality_state).
IsFund(f) ==
    /\ {f.conversion, f.quality, f.official, f.ocf} \subseteq Int /\ f.coverage \in Nat
    /\ f.official >= 50 => f.freshness \in {"CURRENT", "AGING", "STALE", "LAGGING"}
    /\ f.cashQuality \notin {"", "CASHFLOW_NOT_AVAILABLE", "OCF_NEGATIVE", "OCF_AND_FCF_NEGATIVE"} => f.ocf >= 0

Rows(x, IsRow(_)) ==
    DOMAIN x = 1..Len(x) /\ Len(x) \in Nat /\ x = [k \in DOMAIN x |-> x[k]] /\ \A k \in DOMAIN x : IsRow(x[k])

ScanBlocks == {"index", "universe", "sectors", "outcomes", "account"}
IssuerBlocks == {"features", "deep", "events", "ksei", "integrityRows", "ownerRows", "bookRows", "brokerRows", "fund", "business"}
Known(block) == {Catalogue[block][name] : name \in DOMAIN Catalogue[block]}

ASSUME DecisionsAssumption ==
    /\ IsFiniteSet(Issuers) /\ MaxRelease \in Nat \ {0}
    /\ \A c \in Cases :
          /\ \A b \in ScanBlocks : c.scan[b] \in DOMAIN Catalogue[b]
          /\ \A i \in Issuers, b \in IssuerBlocks : c.issuers[i][b] \in DOMAIN Catalogue[b]
          /\ \A i \in Issuers : Catalogue["features"][c.issuers[i]["features"]].sector
                                 \in DOMAIN Catalogue["sectors"][c.scan["sectors"]]
          /\ \A a \in c.answers, i \in Issuers :
                a.foreign[i] \in DOMAIN Catalogue["foreign"] /\ a.broker[i] \in DOMAIN Catalogue["broker"]
    /\ \A f \in Known("features") : IsFeatures(f)
    /\ \A rows \in Known("events") : Rows(rows, IsEvent)
    /\ \A rows \in Known("ownerRows") : Rows(rows, IsOwnerRow)
    /\ \A rows \in Known("bookRows") : Rows(rows, IsBookRow)
    /\ \A rows \in Known("brokerRows") : Rows(rows, IsBrokerRow)
    /\ \A f \in Known("fund") : IsFund(f)
    /\ \A b \in Known("business") : IsBusiness(b)
    /\ \A x \in Known("index") : IsIndex(x)
    /\ \A u \in Known("universe") : IsUniverse(u)
    /\ \A s \in Known("sectors") : \A name \in DOMAIN s : IsSector(s[name])
    /\ \A a \in Known("account") : IsAccount(a)
    /\ \A h \in Known("foreign") : 1..Expected \subseteq DOMAIN h /\ \A k \in 1..Expected : IsSession(h[k])
    /\ \A b \in Known("broker") : IsFiniteSet(b.rows) /\ b.rank \in Int /\ \A r \in b.rows : IsDeal(r)

VARIABLES case,      \* what was known when the scan was scored
          radar,     \* the rows, in the order of radar_sort; empty before
          given,     \* the conviction of each issuer as the scan scored it
          release    \* the release that is running

vars == <<case, radar, given, release>>

Common(block) == Catalogue[block][case.scan[block]]
Held(i, block) == Catalogue[block][case.issuers[i][block]]

Owner(i) == OwnerEvidence(Held(i, "ksei"), Held(i, "ownerRows"))
Integrity(i) == IntegrityEvidence(Held(i, "ksei"), Held(i, "integrityRows"), Owner(i), Held(i, "events"))

Market == Blend(FromBenchmark(Common("index")), FromUniverse(Common("universe")))

\* What finalize_job hands to the scoring of one issuer; only a shortlisted one has events.
Evidence(i) ==
    LET f == Held(i, "features") IN
    [features |-> f, deep |-> Held(i, "deep"),
     story |-> Narrative(IF Held(i, "deep") THEN PointInTime(Held(i, "events")) ELSE <<>>),
     broker |-> BrokerOf(f, Held(i, "brokerRows")), owner |-> Owner(i),
     book |-> BookOf(f, Held(i, "bookRows")), integrity |-> Integrity(i),
     othersTold |-> \E j \in Issuers : Integrity(j).provenance # "", market |-> Market,
     sector |-> SectorContext(Common("sectors"), f.sector), fund |-> Held(i, "fund"),
     business |-> Held(i, "business"), technical |-> f.technical,
     outcomes |-> Common("outcomes"), account |-> Common("account")]

Foreign(names) ==
    LET histories == [i \in Issuers |-> Catalogue["foreign"][names[i]]]
    IN [i \in Issuers |-> ForeignFlow(histories, i)]
Broker(names) ==
    [i \in Issuers |-> LET b == Catalogue["broker"][names[i]] IN BrokerFlow(b.rows, b.rank)]

-----------------------------------------------------------------------------

Init == case \in Cases /\ radar = <<>> /\ given = <<>> /\ release = 1

\* finalize_job, up to the heartbeat RADAR_SCORED.
Score ==
    /\ radar = <<>>
    /\ radar' \in RadarSort({RadarRow(i, Evidence(i)) : i \in Issuers})
    /\ given' = [i \in Issuers |-> Profile(Evidence(i)).conviction]
    /\ UNCHANGED <<case, release>>

\* The page reads back rows that an older release enriched in place: its flow columns are
\* persisted with them, the values they had before are not.
LoadOlder ==
    LET Older(row, f) ==
            [row EXCEPT !.flow = f, !.conviction = IF Seen(@) THEN Clip(@ + Delta(f.score, f.coverage, 25) \div 10) ELSE @,
                        !.foreign.marked = TRUE, !.broker.marked = TRUE, !.loaded = TRUE]
    IN /\ radar # <<>> /\ release = 1
       /\ \A k \in DOMAIN radar : radar[k].foreign = Fresh /\ radar[k].release = 0
       /\ \E answer \in case.answers :
             LET f == Foreign(answer.foreign)
             IN radar' = [k \in DOMAIN radar |-> Older(radar[k], f[radar[k].issuer])]
       /\ UNCHANGED <<case, given, release>>

\* finalize_decision_snapshot of rows this release has not frozen; a frozen radar is copied.
Finalize ==
    /\ radar # <<>>
    /\ \A k \in DOMAIN radar : radar[k].release # release
    /\ \E answer \in case.answers :
          radar' = Finalized(radar, [i \in Issuers |-> Evidence(i)],
                             Foreign(answer.foreign), Broker(answer.broker), release)
    /\ UNCHANGED <<case, given, release>>

\* A new release is deployed; it reads the rows back and does not take the old one's for frozen.
Upgrade ==
    /\ radar # <<>> /\ radar[1].release = release /\ release < MaxRelease
    /\ release' = release + 1
    /\ radar' = [k \in DOMAIN radar |-> [radar[k] EXCEPT !.loaded = TRUE]]
    /\ UNCHANGED <<case, given>>

Next == Score \/ LoadOlder \/ Finalize \/ Upgrade

Spec == Init /\ [][Next]_vars

-----------------------------------------------------------------------------
(* What the raw evidence says, before any of it is parsed or merged.       *)

Final == radar # <<>> /\ radar[1].release > 0

\* A verified row of the exchange that rules the issuer out, or is too old to rely on.
Condemned(row) ==
    row.verified /\ (\/ \E f \in {"hsc", "special", "fca", "suspended", "sanctions"} : row.flags[f] = "yes"
                     \/ (Seen(row.float) /\ row.float < 75) \/ ~Seen(row.age) \/ row.age > 60)
Direct(i) == Held(i, "integrityRows") # <<>> /\ Last(Held(i, "integrityRows")).verified
DirectBlock(i) == Direct(i) /\ Condemned(Last(Held(i, "integrityRows")))
KseiStopped(i) == Held(i, "ksei") # <<>> /\ Head(Held(i, "ksei")).verified
                  /\ Head(Held(i, "ksei")).status \notin {"", "ACTIVE"}
\* A regulator's own alert, public at the decision and at most 120 days old.
OfficialAlert(i) ==
    \E k \in DOMAIN Held(i, "events") :
       LET e == Held(i, "events")[k]
       IN Regulator(e) /\ ~e.future /\ e.age \in 0..120 /\ e.alert \ {"uma"} # {}
NoAlert(i) == \A k \in DOMAIN Held(i, "events") : Held(i, "events")[k].alert = {}

\* The row and its numbers; a production rank belongs to authorized rows and to no other, and
\* a radar has each issuer once.
TypeOK ==
    /\ release \in 1..MaxRelease
    /\ radar = <<>> \/ {radar[k].issuer : k \in DOMAIN radar} = Issuers
    /\ Len(radar) \in {0, Cardinality(Issuers)}
    /\ \A k \in DOMAIN radar :
          LET row == radar[k]
          IN /\ row.conviction \in 0..100 \cup {NaN} /\ row.smart \in 0..100 \cup {NaN}
             /\ row.cap \in 0..200 /\ row.manualCap \in 0..75 /\ row.risk \in Nat /\ row.lots \in Nat
             /\ row.productionRank > 0 <=> row.authorized
             /\ row.rawRank \in 0..Len(radar) /\ row.guardedRank \in 0..Len(radar)

\* Who is shown as ready for real money was reviewed in depth, has a verified and current row
\* of the exchange that does not rule it out, a direct order book, a filed fundamental and a
\* verified event, and nothing official speaks against it (build_emir_profile through
\* production_authorization_mask: no merge, proxy or default stands in for one of these).
AuthorizedOnCleanEvidence ==
    \A i \in ExecutionLane(radar) :
       /\ Held(i, "deep") /\ Direct(i) /\ ~DirectBlock(i) /\ ~KseiStopped(i) /\ ~OfficialAlert(i)
       /\ \E k \in DOMAIN Held(i, "bookRows") : Held(i, "bookRows")[k].verified
       /\ \E k \in DOMAIN Held(i, "events") : EvidenceVerified(Held(i, "events")[k])
       /\ Held(i, "fund").official >= 50 /\ Held(i, "fund").freshness = "CURRENT"
       /\ Held(i, "features").age <= 7 /\ Held(i, "fund").ocf >= 0

\* An issuer is held back on integrity only by something that was public when it was decided:
\* a row of the exchange, its status at KSEI, a dated official alert, a float below 7.5
\* percent, or the absence of any source (_point_in_time_event_frame, finalize_job).
BlocksAreGrounded ==
    radar # <<>> =>
        \A i \in Issuers : Integrity(i).hard =>
            \/ Held(i, "integrityRows") # <<>> /\ (~Direct(i) \/ DirectBlock(i))
            \/ KseiStopped(i) \/ OfficialAlert(i)
            \/ Owner(i).direct /\ Owner(i).float < 75
            \/ Held(i, "integrityRows") = <<>> /\ Held(i, "ksei") = <<>>

\* An issuer the exchange's own verified row rules out, when that is all there is on its
\* integrity, is in none of the lanes that lead to money; the research lane may show it
\* (production_hard_block_mask, select_guarded_top3).
RejectedStaysOut ==
    Final => \A i \in Issuers :
        DirectBlock(i) /\ Held(i, "ksei") = <<>> /\ NoAlert(i) =>
            i \notin GuardedLane(radar) \cup ExecutionLane(radar) \cup WatchLane(radar) \cup NextLeaders(radar)

\* Foreign selling of eight percent of a day's volume takes the authorization of the day; when
\* it persists over the week or the month, the entry as well (_apply_foreign_shock_guard).
ShockDelays ==
    Final => \A k \in DOMAIN radar :
        LET f == radar[k].flow IN
        f.coverage >= 60 /\ Seen(f.one) /\ f.one <= -80 =>
            /\ radar[k].issuer \notin ExecutionLane(radar)
            /\ Seen(f.twenty) /\ f.twenty <= -10 => ~radar[k].entry

\* In a market that is risk-off no row, in any mode, is given more than half a percent of the
\* capital, not even the leader of a leading sector (the caps of build_emir_profile).
CapFollowsRegime ==
    Market.regime = "RISK_OFF" => \A k \in DOMAIN radar : radar[k].cap <= 50 /\ radar[k].manualCap <= 50

\* The stop of the path a row would be traded on lies below its whole band, and at most six
\* percent and two ticks below the low end of it (build_execution_plan).
StopBounded ==
    \A k \in DOMAIN radar :
       LET plan == radar[k].plan
           c == plan.chosen
       IN plan.path # "NONE" /\ c.valid =>
             c.stop < c.low /\ 100 * (c.stop + 2 * IdxTick(c.low * U)) >= 94 * c.low

\* However often and by whichever release a row is finalized, and whatever the providers
\* answer by then, its conviction stays within five points of what the scan gave it: each
\* provider confirms a row once (classify_zapi_enrichment_state, classify_broker_enrichment_state).
EnrichedOnce ==
    \A k \in DOMAIN radar :
       LET row == radar[k] IN
       Seen(row.conviction) => row.conviction - given[row.issuer] \in -5..5

Level == [REAL_MONEY_BLOCKED |-> 0, REAL_MONEY_WAIT_TIMING |-> 1,
          REAL_MONEY_MANUAL_CONFIRMATION_REQUIRED |-> 2, REAL_MONEY_DIRECT_VERIFIED_READY |-> 3]
Weaker(old, new) ==
    /\ Level[new.gate] <= Level[old.gate]
    /\ new.ready => old.ready
    /\ new.entry => old.entry
    /\ new.candidate => old.candidate
    /\ new.cap <= old.cap /\ new.manualCap <= old.manualCap /\ new.lots <= old.lots
    /\ old.manual \subseteq new.manual /\ old.blockers \subseteq new.blockers

\* What comes after the scoring, flow, dashboard, guards and tiers, by any release, never
\* raises a row: not its gate, not its caps or size, and no condition on it is dropped.
NothingPromotes ==
    [][\A k \in DOMAIN radar, n \in DOMAIN radar' :
          radar[k].issuer = radar'[n].issuer => Weaker(radar[k], radar'[n])]_vars

\* A radar that was finalized is what it was, but for the release's name: a later release
\* that asks the providers anew changes no decision, score or rank of it.  Excepted is the
\* listing as a next leader of an issuer no source told of, whose block is lost on the way.
RefinalizeKeeps ==
    [][Final => \A k \in DOMAIN radar :
          radar'[k] = [radar[k] EXCEPT !.release = radar'[k].release, !.foreign = radar'[k].foreign,
                                       !.broker = radar'[k].broker, !.loaded = radar'[k].loaded,
                          !.presentable = IF Integrity(radar[k].issuer).provenance = ""
                                          THEN radar'[k].presentable ELSE @]]_vars

\* "Direct regulator URLs/verified records can hard-block" (autonomous_enrichment.py:588): an
\* issuer that the exchange's verified row, KSEI or an official alert rules out is no
\* candidate for real money and is not in the guarded lane.
HardBlockHolds ==
    Final => \A k \in DOMAIN radar :
        LET i == radar[k].issuer IN
        DirectBlock(i) \/ KseiStopped(i) \/ OfficialAlert(i) =>
            ~radar[k].entry /\ i \notin GuardedLane(radar)
=============================================================================
