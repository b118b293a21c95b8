----------------------------- MODULE MCDecisions -----------------------------
(***************************************************************************)
(* A scan of two issuers.  Every block of evidence has a base under which  *)
(* the issuer is authorized, and deviations from it; a case deviates from  *)
(* the base in at most two blocks, the scan's own ones included.           *)
(***************************************************************************)
EXTENDS Decisions

Prices == [close |-> 1000, atr |-> 30, ema20 |-> 980, high20 |-> 1010, low20 |-> 930, highs |-> {1010, 1120, 1200, 1300}]
Tape == [accumulation |-> 6, absorption |-> 4, distribution |-> 0, failed |-> 0, pressure |-> 75,
         dryness |-> 70, observed |-> 9, acceptance |-> 75]
Features ==
    [ok |-> TRUE, age |-> 1, bars |-> 260, zeroDays |-> 0, anomaly |-> FALSE, smart |-> 75, smartCoverage |-> 90,
     geometry |-> 78, trend |-> 75, adtv |-> 30000, reversal |-> 50, continuation |-> 78, sideways |-> 40,
     distribution |-> 20, crowding |-> 30, friction |-> 25, momentum |-> 6, trendUp |-> TRUE, aboveEma50 |-> TRUE,
     emaFalling |-> FALSE, stealth |-> 60, cycle |-> 70, longInventory |-> 65, recentInventory |-> 68,
     slips |-> FALSE, extended |-> FALSE, sector |-> "ENERGY", prices |-> Prices, tape |-> Tape,
     technical |-> [absorption |-> 70, acceptance |-> 75, dryness |-> 70, persistence |-> 70]]

Event(publisher, story) ==
    [eligible |-> TRUE, administrative |-> FALSE, future |-> FALSE, verified |-> TRUE, tier |-> "ISSUER",
     regulatorUrl |-> FALSE, namesIssuer |-> TRUE, score |-> 78, story |-> story, hype |-> 0,
     negative |-> 0, publisher |-> publisher, bridge |-> 75, materiality |-> 70, reach |-> 72,
     age |-> 5, alert |-> {}]
Press(story) == [Event("paper", story) EXCEPT !.verified = FALSE, !.tier = "PRESS"]
Alert(alert) == [Event("exchange", "alert") EXCEPT !.eligible = FALSE, !.regulatorUrl = TRUE, !.alert = alert]
News == <<Event("issuer", "contract"), Event("paper", "capacity"), Press("order book")>>

IntegrityRow ==
    [verified |-> TRUE, flags |-> [f \in Critical |-> "no"], float |-> 300, age |-> 10, board |-> TRUE,
     url |-> TRUE, action |-> "no", over1 |-> "yes"]
Ksei == [verified |-> TRUE, shares |-> TRUE, local |-> TRUE, foreign |-> TRUE, scripless |-> TRUE,
         status |-> "ACTIVE", actions |-> <<>>]
OwnerRow == [verified |-> "yes", float |-> 300, affiliated |-> 20, alignment |-> 70, relationship |-> 60,
             concentration |-> 55, over1 |-> TRUE, insider |-> FALSE]
BookRow == [verified |-> TRUE, stack |-> 75, speed |-> 70, value |-> 72, price |-> 1010]
Fund == [coverage |-> 85, conversion |-> 78, quality |-> 85, official |-> 80,
         cashQuality |-> "CASHFLOW_POSITIVE_CONVERTING", cashObserved |-> TRUE, ocf |-> 100, fcf |-> 50,
         ocfConversion |-> 90, leverage |-> "LOW_LEVERAGE", freshness |-> "CURRENT",
         growth |-> "QUARTER_AND_YTD_CONFIRMED", pointInTime |-> TRUE]
Business == [quarters |-> 2, revenueYtd |-> 25, earningsYtd |-> 30, revenueQuarter |-> 24, earningsQuarter |-> 28,
             margin |-> 15, roe |-> 18, abnormal |-> {}, property |-> FALSE, bank |-> FALSE, bankMetrics |-> 0,
             lineage |-> TRUE, direct |-> 75, directCoverage |-> 70, future |-> 70, futureCoverage |-> 60,
             futureState |-> "FUTURE_FUNDAMENTAL_STRONG", weak |-> FALSE]

Day(net) == [seen |-> TRUE, buy |-> 500 + net, sell |-> 500, net |-> net, volume |-> 1000]
History(first, rest) == [i \in 1..Expected |-> IF i = 1 THEN Day(first) ELSE Day(rest)]
NoHistory == [i \in 1..Expected |-> [seen |-> FALSE, buy |-> 0, sell |-> 0, net |-> NaN, volume |-> 0]]
Bought(net) == {[day |-> day, code |-> "AK", net |-> net, rank |-> 1, buyer |-> TRUE] : day \in 1..20}
Sold(net) == {[day |-> day, code |-> "YP", net |-> -net, rank |-> 1, buyer |-> FALSE] : day \in 1..20}

Universe == [breadth |-> 65, trend |-> 68, distribution |-> 30, flow |-> 62, momentum |-> 4, valid |-> 40]
Sector(strength) == [strength |-> strength, momentum |-> strength \div 2, breadth |-> 60, flow |-> 60, members |-> 6]
Account == [mode |-> "GUARDED_REAL_MONEY", capital |-> 50, maxCap |-> 200, risk |-> 100, calibration |-> "GUARDED"]
Group(lifecycle) == [lifecycle |-> lifecycle, structure |-> "CONTINUATION_SETUP", pit |-> 100, n |-> 40, winRate |-> 60,
                     median |-> 4, drawdown |-> -9]

MCIssuers == {"AAAA", "BBBB"}

Book ==
    [features |-> [base |-> Features,
                   stale |-> [Features EXCEPT !.age = 20],
                   anomaly |-> [Features EXCEPT !.anomaly = TRUE],
                   weak |-> [Features EXCEPT !.smart = 40, !.geometry = 20, !.trend = 15, !.distribution = 75, !.crowding = 90,
                                             !.friction = 95, !.tape.distribution = 6],
                   unseen |-> [Features EXCEPT !.smart = NaN, !.smartCoverage = 0],
                   thin |-> [Features EXCEPT !.adtv = 300],
                   penny |-> [Features EXCEPT !.prices = [close |-> 60, atr |-> 3, ema20 |-> 58, high20 |-> 61, low20 |-> 55,
                                                          highs |-> {61, 70, 80, 95}]],
                   wide |-> [Features EXCEPT !.prices.atr = 60, !.prices.low20 = 800, !.prices.highs = {1010, 1120, 1300, 1500}]],
     deep |-> [base |-> TRUE, no |-> FALSE],
     events |-> [base |-> News,
                 none |-> <<>>,
                 press |-> <<Press("a"), Press("b"), Press("c"), Press("d"), Press("e")>>,
                 hsc |-> Append(News, Alert({"hsc"})),
                 suspended |-> Append(News, Alert({"suspended"})),
                 undated |-> Append(News, [Alert({"suspended"}) EXCEPT !.age = NaN]),
                 future |-> Append(News, [Alert({"suspended"}) EXCEPT !.future = TRUE, !.age = -10])],
     ksei |-> [base |-> <<>>, active |-> <<Ksei>>, stopped |-> <<[Ksei EXCEPT !.status = "SUSPENDED"]>>,
               error |-> <<[Ksei EXCEPT !.verified = FALSE]>>],
     integrityRows |-> [base |-> <<IntegrityRow>>,
                        none |-> <<>>,
                        hsc |-> <<[IntegrityRow EXCEPT !.flags["hsc"] = "yes"]>>,
                        stale |-> <<[IntegrityRow EXCEPT !.age = 90]>>,
                        float |-> <<[IntegrityRow EXCEPT !.float = 60]>>,
                        unverified |-> <<[IntegrityRow EXCEPT !.verified = FALSE]>>],
     ownerRows |-> [base |-> <<OwnerRow>>, none |-> <<>>, low |-> <<[OwnerRow EXCEPT !.float = 90, !.affiliated = 30]>>],
     bookRows |-> [base |-> <<BookRow>>, none |-> <<>>, unverified |-> <<[BookRow EXCEPT !.verified = FALSE]>>],
     brokerRows |-> [base |-> <<>>,
                     selling |-> [m \in 1..6 |-> [month |-> m, buy |-> 20, sell |-> 90, retail |-> FALSE,
                                                  fund |-> FALSE, buyback |-> FALSE, verified |-> TRUE]]],
     fund |-> [base |-> Fund,
               proxy |-> [Fund EXCEPT !.official = 20],
               burns |-> [Fund EXCEPT !.cashQuality = "OCF_NEGATIVE", !.ocf = -100],
               aging |-> [Fund EXCEPT !.freshness = "AGING"],
               weak |-> [Fund EXCEPT !.conversion = 40]],
     business |-> [base |-> Business, bank |-> [Business EXCEPT !.bank = TRUE]],
     index |-> [base |-> [bars |-> 250, trend |-> 75, distribution |-> 25, momentum |-> 6],
                off |-> [bars |-> 250, trend |-> 15, distribution |-> 70, momentum |-> -15]],
     universe |-> [base |-> Universe,
                   off |-> [Universe EXCEPT !.breadth = 15, !.trend = 20, !.distribution = 70, !.flow = 30]],
     sectors |-> [base |-> [ENERGY |-> Sector(20), BANKS |-> Sector(-4)],
                  lagging |-> [ENERGY |-> Sector(-10), BANKS |-> Sector(8)]],
     outcomes |-> [base |-> <<Group("EARLY_CONVERGENCE"), Group("MOMENTUM_TRIGGERED"), Group("GLOBAL")>>,
                   rejected |-> <<[Group("MOMENTUM_TRIGGERED") EXCEPT !.winRate = 30], Group("GLOBAL")>>],
     account |-> [base |-> Account, research |-> [Account EXCEPT !.mode = "RESEARCH", !.calibration = "OFF"],
                  small |-> [Account EXCEPT !.capital = 5, !.risk = 25]],
     foreign |-> [none |-> NoHistory, buying |-> History(200, 150), shock |-> History(-120, 10),
                  selling |-> History(-200, -100)],
     broker |-> [none |-> [rows |-> {}, rank |-> NaN], buying |-> [rows |-> Bought(90), rank |-> 95],
                 selling |-> [rows |-> Sold(90), rank |-> 5]]]

Base(blocks) == [b \in blocks |-> "base"]
Deviations(blocks) == UNION {{<<b, name>> : name \in DOMAIN Book[b] \ {"base"}} : b \in blocks}
With(names, deviations) == [b \in DOMAIN names |->
    IF \E d \in deviations : d[1] = b THEN (CHOOSE d \in deviations : d[1] = b)[2] ELSE names[b]]

Answer(foreign, broker) ==
    [foreign |-> [i \in MCIssuers |-> IF i = "AAAA" THEN foreign ELSE "none"],
     broker |-> [i \in MCIssuers |-> IF i = "AAAA" THEN broker ELSE "none"]]

\* Deviations of the first issuer or of the scan; the second stays at the base.
Deviating(deviations, answers) ==
    [scan |-> With(Base(ScanBlocks), deviations),
     issuers |-> [i \in MCIssuers |-> IF i = "AAAA" THEN With(Base(IssuerBlocks), deviations) ELSE Base(IssuerBlocks)],
     answers |-> answers]

All == Deviations(ScanBlocks \cup IssuerBlocks)
Pairs == {{p[1], p[2]} : p \in {q \in All \X All : q[1][1] # q[2][1]}}
Few == {Answer("none", "none"), Answer("selling", "selling"), Answer("shock", "none")}
Every == Few \cup {Answer("buying", "buying"), Answer("selling", "none")}
MCCases == {Deviating(d, Every) : d \in {{}} \cup {{e} : e \in Deviations({"features", "account"})}}
           \cup {Deviating({e}, Few) : e \in All} \cup {Deviating(p, {Answer("none", "none")}) : p \in Pairs}
=============================================================================
