---------------------------- MODULE FinalDecision ----------------------------
(***************************************************************************)
(* From a scored issuer to a frozen row: its size, the confirmation by     *)
(* outside flow, the dashboard scores, the guards that may only demote,    *)
(* the three ranks and the lanes that read them.  A radar is a sequence of *)
(* rows; d is the evidence a row was scored from (ProfileGates).           *)
(***************************************************************************)
EXTENDS ProfileGates, FlowConfirmation, Leaderboard

\* position_builder: lots of a hundred shares, within the risk budget and the cap, for an
\* entry in the middle of the band; entry2 is twice that.
Lots(d, plan, cap, risk) ==
    LET entry2 == plan.chosen.low + plan.chosen.ref
        perShare2 == entry2 - 2 * plan.chosen.stop
        budget == d.account.capital * 100 * risk
        value == d.account.capital * 1000 * cap
    IN IF plan.path = "NONE" \/ cap <= 0 \/ perShare2 <= 0 \/ entry2 <= 0 THEN 0
       ELSE Max({0, Min({(2 * budget) \div (100 * perShare2), (2 * value) \div (100 * entry2)})})

NoFlow == [coverage |-> 0, one |-> NaN, five |-> NaN, twenty |-> NaN, score |-> NaN, smart |-> NaN, acc |-> NaN]

\* A row as finalize_job hands it to the final decision.  A risk budget of zero is read
\* as none given, and the account's own takes its place.
Sized(issuer, d, row) ==
    LET risk == IF row.risk = 0 THEN d.account.risk ELSE row.risk
    IN [state |-> row.state, gate |-> row.gate, entryState |-> row.entryState, candidate |-> row.candidate,
        entry |-> row.entry, ready |-> row.ready, blockers |-> row.blockers, manual |-> row.manual,
        gaps |-> row.gaps, plan |-> row.plan, geometry |-> row.geometry, pays |-> row.pays,
        conviction |-> row.conviction, coverage |-> row.coverage, risk |-> row.risk, cap |-> row.cap,
        manualCap |-> row.manualCap, issuer |-> issuer, final |-> NaN, lots |-> Lots(d, row.plan, row.cap, risk),
        smart |-> d.features.smart, smartCoverage |-> d.features.smartCoverage,
        structure |-> StructureScore(d.features), liquidity |-> LiquidityScore(d.features.adtv),
        flow |-> NoFlow, foreign |-> Fresh, broker |-> Fresh, flowShown |-> NaN, silentShown |-> NaN,
        leader |-> NaN, presentable |-> FALSE, money |-> NaN, class |-> "", tier |-> "",
        rawRank |-> 0, guardedRank |-> 0, productionRank |-> 0, authorized |-> FALSE, release |-> 0,
        loaded |-> FALSE]
RadarRow(issuer, d) == Sized(issuer, d, Profile(d))

\* radar_sort: by state, then by conviction; states that are not listed come last.
StateOrder == <<{"EMIR_READY_WITH_PRECISE_TRIGGER"}, {"EMIR_AUTO_EOD_READY"},
                {"EMIR_CORE_THESIS_READY_WAIT_IDX_INTEGRITY", "EMIR_THESIS_READY_WAIT_BID_OFFER"},
                {"EMIR_WATCH_INVENTORY_COLLECTION"}, {"EMIR_WAIT_NARRATIVE"}, {"EMIR_WAIT_MONEY_FLOW"},
                {"EMIR_EVIDENCE_PENDING"}, {"EMIR_NO_EDGE_YET"}, {"EMIR_RADAR_ONLY_NOT_DEEP_REVIEWED"},
                {"EMIR_AVOID_RETAIL_EUPHORIA"}, {"EMIR_REJECT_SMART_MONEY_DISTRIBUTION"},
                {"EMIR_DATA_INTEGRITY_BLOCK"}, {"EMIR_REJECT_IDX_INTEGRITY"}, {"EMIR_CALIBRATION_REJECTED"}>>
Order(state) == Min({i \in DOMAIN StateOrder : state \in StateOrder[i]} \cup {99})
Ahead(a, b) == Order(a.state) < Order(b.state) \/ (Order(a.state) = Order(b.state) /\ a.conviction > b.conviction)

\* Rows that are level come in any order; the code goes on to inventory, flow and liquidity.
RadarSort(rows) == {order \in SetToSeqs(rows) : \A p, q \in DOMAIN order : p < q => ~Ahead(order[q], order[p])}

-----------------------------------------------------------------------------

\* enrich_dashboard_scores, blend_emir_dashboard_output and _recompute_real_money: what the
\* dashboard shows of the row after the flow has confirmed it.
Dashboard(row, d) ==
    LET final == [BankBlock(row, d) EXCEPT !.final = OrElse(row.conviction, 0)]
        shown == [final EXCEPT
            !.flowShown = Confirm(DashboardFlow(row, d), 100, row.flow.score, row.flow.coverage, 30).score,
            !.silentShown = Confirm(DashboardSilent(d), 100, row.flow.acc, row.flow.coverage, 20).score,
            !.leader = LeaderScore(row, d), !.presentable = LeaderPresentable(row, d)]
    IN [shown EXCEPT !.money = RealMoneyScore(shown, d)]

Severe(f) == f.coverage >= 60 /\ Seen(f.one) /\ f.one <= -80
Persistent(f) == (Seen(f.five) /\ f.five <= -10) \/ (Seen(f.twenty) /\ f.twenty <= -10) \/ NetDistribution(f)

\* Mutant: a shock asks for confirmation whether or not it persists, and takes nothing back.
ForeignGuard_AsksOnly(row) ==
    IF ~Severe(row.flow) THEN row
    ELSE [row EXCEPT !.manual = @ \cup {"ZAPI_FOREIGN_SHOCK_REQUIRE_ABSORPTION_RECLAIM"}]

\* _apply_foreign_shock_guard: selling of a day delays, selling that persists sends a
\* candidate back to waiting.  Caps other than the manual one stay.
ForeignGuard(row) ==
    IF ~Severe(row.flow) THEN row
    ELSE IF Persistent(row.flow)
    THEN LET told == [row EXCEPT !.manual = @ \cup {"ZAPI_FOREIGN_DISTRIBUTION_WAIT_STABILIZATION"}, !.ready = FALSE]
         IN IF row.candidate
            THEN [told EXCEPT !.entry = FALSE, !.gate = "REAL_MONEY_WAIT_TIMING",
                              !.entryState = "WAIT_TIMING_NO_ENTRY", !.manualCap = 0]
            ELSE told
    ELSE LET told == [row EXCEPT !.manual = @ \cup {"ZAPI_FOREIGN_SHOCK_REQUIRE_ABSORPTION_RECLAIM"}, !.ready = FALSE]
         IN IF row.entry
            THEN [told EXCEPT !.gate = "REAL_MONEY_MANUAL_CONFIRMATION_REQUIRED",
                              !.entryState = "MANUAL_CONFIRMATION_REQUIRED"]
            ELSE told

\* No blocker bears the name of an evidence gap, so each of them is a hard one.
GateAudit(row) ==
    [row EXCEPT !.class =
        CASE row.gate = "REAL_MONEY_DIRECT_VERIFIED_READY" -> "DIRECT_VERIFIED_READY"
          [] row.gate = "REAL_MONEY_MANUAL_CONFIRMATION_REQUIRED" -> "MANUAL_CONFIRMATION"
          [] row.gate = "REAL_MONEY_WAIT_TIMING" -> "WAIT_TIMING"
          [] row.gate = "REAL_MONEY_BLOCKED" /\ row.blockers # {} -> "HARD_BLOCK"
          [] row.gate = "REAL_MONEY_BLOCKED" /\ row.blockers = {} /\ row.gaps # {} -> "EVIDENCE_GAP_ONLY_OR_OTHER"
          [] OTHER -> "NOT_AUTHORIZED_OTHER"]

\* Mutant: a gap in the evidence is asked about, whatever else blocks the row.
Tier_GapsAlone(row) ==
    IF row.gate = "REAL_MONEY_BLOCKED" /\ row.gaps # {}
    THEN [row EXCEPT !.tier = "PROXY_EXECUTION_ELIGIBLE_MANUAL_CONFIRMATION", !.ready = FALSE,
                     !.gate = "REAL_MONEY_MANUAL_CONFIRMATION_REQUIRED", !.class = "MANUAL_CONFIRMATION",
                     !.entryState = "MANUAL_CONFIRMATION_REQUIRED"]
    ELSE [row EXCEPT !.tier = IF row.blockers # {} THEN "HARD_BLOCKED" ELSE "WAIT_TIMING"]

\* refine_emir_proxy_authorization_tier; a block that rests on gaps alone becomes a question.
Tier(row) ==
    LET able == row.candidate /\ row.entry
        tier == CASE row.blockers # {} -> "HARD_BLOCKED"
                  [] row.blockers = {} /\ row.gate = "REAL_MONEY_DIRECT_VERIFIED_READY" -> "DIRECT_VERIFIED_READY"
                  [] row.blockers = {} /\ row.gate # "REAL_MONEY_DIRECT_VERIFIED_READY" /\ able /\ row.gaps # {}
                       -> "PROXY_EXECUTION_ELIGIBLE_MANUAL_CONFIRMATION"
                  [] row.blockers = {} /\ row.gate # "REAL_MONEY_DIRECT_VERIFIED_READY" /\ able
                     /\ row.gaps = {} /\ row.manual # {} -> "MANUAL_CONFIRMATION_REQUIRED"
                  [] OTHER -> IF row.candidate THEN "WAIT_TIMING" ELSE "RESEARCH_ONLY_OR_NOT_CANDIDATE"
    IN IF tier = "PROXY_EXECUTION_ELIGIBLE_MANUAL_CONFIRMATION" /\ row.gate = "REAL_MONEY_BLOCKED"
       THEN [row EXCEPT !.tier = tier, !.gate = "REAL_MONEY_MANUAL_CONFIRMATION_REQUIRED", !.ready = FALSE,
                        !.entryState = "MANUAL_CONFIRMATION_REQUIRED", !.class = "MANUAL_CONFIRMATION"]
       ELSE [row EXCEPT !.tier = tier]

-----------------------------------------------------------------------------
(* evidence_governance: who may be acted on, and the three ranks.          *)

Rejected == {"EMIR_DATA_INTEGRITY_BLOCK", "EMIR_REJECT_IDX_INTEGRITY", "EMIR_REJECT_SMART_MONEY_DISTRIBUTION",
             "EMIR_AVOID_RETAIL_EUPHORIA", "EMIR_CALIBRATION_REJECTED"}

\* Mutant: what was counted and classed is a block, what was decided is not.
HardBlock_ByCount(row) == row.blockers # {} \/ row.tier = "HARD_BLOCKED" \/ row.class = "HARD_BLOCK"

\* production_hard_block_mask
HardBlock(row) ==
    row.blockers # {} \/ row.tier = "HARD_BLOCKED" \/ row.class = "HARD_BLOCK" \/ row.state \in Rejected

\* production_authorization_mask
Authorized(row) ==
    /\ row.state = "EMIR_READY_WITH_PRECISE_TRIGGER" /\ row.candidate /\ row.entry
    /\ row.ready /\ row.gate = "REAL_MONEY_DIRECT_VERIFIED_READY"
    /\ row.entryState = "SCANNER_AUTHORIZED_DIRECT_VERIFIED"
    /\ ~HardBlock(row) /\ row.geometry /\ row.pays

Unblocked(radar) == {i \in DOMAIN radar : ~HardBlock(radar[i])}
Tradable(radar) == {i \in DOMAIN radar : Authorized(radar[i])}

\* Place of i among the members of S, by Before and then by the order of the radar.
Place(rows, S, i, Before(_, _)) ==
    1 + Cardinality({k \in S : Before(rows[k], rows[i]) \/ (k < i /\ ~Before(rows[i], rows[k]))})

\* _rank: the best score is first; 0 stands for no rank.
Ranks(radar, field, eligible) ==
    LET S == {i \in eligible : Seen(radar[i][field])}
    IN [i \in DOMAIN radar |-> IF i \in S THEN Place(radar, S, i, LAMBDA a, b : a[field] > b[field]) ELSE 0]

\* Mutant: the production rank counts everything that is not blocked.
ThreeRanks_Broad(radar) ==
    LET raw == Ranks(radar, "conviction", DOMAIN radar)
        guarded == Ranks(radar, "leader", Unblocked(radar))
        production == Ranks(radar, "money", Unblocked(radar))
    IN [i \in DOMAIN radar |-> [radar[i] EXCEPT !.rawRank = raw[i], !.guardedRank = guarded[i],
                                    !.productionRank = production[i], !.authorized = Authorized(radar[i])]]

\* apply_three_rank_contract
ThreeRanks(radar) ==
    LET raw == Ranks(radar, "conviction", DOMAIN radar)
        guarded == Ranks(radar, "leader", Unblocked(radar))
        production == Ranks(radar, "money", Tradable(radar))
    IN [i \in DOMAIN radar |-> [radar[i] EXCEPT !.rawRank = raw[i], !.guardedRank = guarded[i],
                                    !.productionRank = production[i], !.authorized = Authorized(radar[i])]]

\* finalize_decision_snapshot of rows that are not frozen under this release: provider flow
\* is asked for every row, rows that were enriched before keep what they have.
Finalized(radar, evidence, foreign, broker, release) ==
    LET Row(row) ==
            LET d == evidence[row.issuer]
                confirmed == EnrichBroker(EnrichForeign(row, foreign[row.issuer]), broker[row.issuer])
            IN [Tier(GateAudit(ForeignGuard(Dashboard(confirmed, d)))) EXCEPT !.release = release]
    IN ThreeRanks([i \in DOMAIN radar |-> Row(radar[i])])

-----------------------------------------------------------------------------
(* The lanes of the page: at most three rows each, in the order of a rank. *)

InRank(radar, field, eligible) ==
    LET S == {i \in eligible : radar[i][field] > 0}
    IN {radar[i].issuer : i \in {k \in S : Place(radar, S, k, LAMBDA a, b : a[field] < b[field]) <= 3}}

GuardedLane(radar) == InRank(radar, "guardedRank", Unblocked(radar))
ExecutionLane(radar) == InRank(radar, "productionRank", Tradable(radar))

\* Watched rows have no production rank; the order is that of their scores.
WatchLane(radar) ==
    LET S == {i \in DOMAIN radar : radar[i].candidate /\ ~radar[i].entry /\ ~HardBlock(radar[i])}
    IN {radar[i].issuer : i \in {k \in S : Place(radar, S, k, LAMBDA a, b : a.money > b.money) <= 3}}

NextLeaders(radar) == {radar[i].issuer : i \in {k \in DOMAIN radar : radar[k].presentable}}
=============================================================================
