---------------------------- MODULE SourceProviders ----------------------------
(***************************************************************************)
(* What the providers of a source can answer.                              *)
(*                                                                         *)
(* Every family asks a chain of providers, and a provider that refuses for *)
(* the moment is asked again.  Two tries stand for the two to four of the  *)
(* code.  The chain ends in one answer for a ticker:                       *)
(*   full     current bars, a resolved profile, all statements, the report *)
(*            of the newest period, some news                              *)
(*   late     bars that end before the last session                        *)
(*   partial  the few bars of KSEI's page, a profile without composition,   *)
(*            a snapshot that lacks statements, the report of an earlier    *)
(*            period                                                       *)
(*   thin     an unresolved profile, no verified report, no news           *)
(*   failed   nothing to go on                                             *)
(***************************************************************************)
EXTENDS KseiProfile, SharedFacts

\* One request: what was asked for, a sound page without it, a refusal that may pass, a failure.
Reply == {"data", "nothing", "busy", "broken"}
Again(first, second, retried) == IF first \in retried THEN second ELSE first

-----------------------------------------------------------------------------
(* Bars.                                                                   *)

\* A frame lacks a column or a positive price, ends with a session that is still open
\* or has nothing but that session, or ends with the last or an earlier session.
Frame == {"unusable", "unfinished", "opening", "last", "earlier"}
Sanitized(frame) == frame # "unusable"
CompletedSession(frame) ==
    CASE frame \in {"last", "unfinished"} -> "full"
      [] frame = "earlier" -> "late"
      [] OTHER -> "none"
Usable(frame) == Sanitized(frame) /\ CompletedSession(frame) # "none"

\* The chart of Yahoo, five years or a window of it, from two hosts in turn.
Bars(reply, frame) == IF reply = "data" /\ Usable(frame) THEN CompletedSession(frame) ELSE "none"
YahooChart == {Bars(Again(a, b, {"busy"}), f) : a, b \in Reply, f \in Frame}
YahooWindow == YahooChart
YFinance == {Bars(a, f) : a \in Reply, f \in Frame}

\* KSEI shows the prices of a few weeks next to the profile; volumes in lots.
KseiPrices == {Bars(Again(a, b, {"busy"}), f) : a, b \in Reply, f \in Frame}

FirstOf(chart, library) == IF chart # "none" THEN chart ELSE library

\* The tail that extends cached bars.
TailOf(chart, library) ==
    IF FirstOf(chart, library) # "none" THEN FirstOf(chart, library) ELSE "failed"

\* All bars.  KSEI's are taken for five years as well, current or late.
HistoryOf(chart, library, ksei) ==
    CASE FirstOf(chart, library) # "none" -> FirstOf(chart, library)
      [] FirstOf(chart, library) = "none" /\ ksei = "full" -> "partial"
      [] FirstOf(chart, library) = "none" /\ ksei = "late" -> "late"
      [] OTHER -> "failed"
History == {HistoryOf(c, l, k) : c \in YahooChart, l \in YFinance, k \in KseiPrices}

\* A ticker that failed is asked once more, on its own, if it is among the first forty.
Recovered(first, second) == IF first = "failed" THEN second ELSE first
ColdBars == {Recovered(a, b) : a, b \in History}
TailBars == {TailOf(c, l) : c \in YahooWindow, l \in YFinance}

-----------------------------------------------------------------------------
(* Statements.                                                             *)

Statement == {"income", "balance", "cashflow", "trailing"}

\* A statement that cannot be read counts as one that is empty.
SafeStatement(reply) == reply = "data"

\* Only a ticker that cannot be opened at all is a failure of the provider.
SnapshotOf(opened, replies) ==
    CASE ~opened -> "failed"
      [] opened /\ \A s \in Statement : SafeStatement(replies[s]) -> "full"
      [] OTHER -> "partial"
Snapshots == {SnapshotOf(o, r) : o \in BOOLEAN, r \in [Statement -> {"data", "broken"}]}

-----------------------------------------------------------------------------
(* The official report.                                                    *)

\* What is in instance.zip: a report, no instance, or one without figures or without a period.
Content == {"report", "no zip", "no instance", "no figures", "no period"}
Extracted(content) == content \notin {"no zip", "no instance"}
Parsed(content) == content \notin {"no figures", "no period"}
Report(reply, content) ==
    IF reply = "data" /\ ~(Extracted(content) /\ Parsed(content)) THEN "broken" ELSE reply

\* A period is asked of two hosts; one that does not have it ("nothing": 403, 404) is not asked again.
OneHost == LET replies == {Report(r, c) : r \in Reply, c \in Content} IN
           {Again(a, b, {"busy"}) : a, b \in replies}
Filed(first, second) == "data" \in {first, second}

\* The newest period that can be had is the answer, verified; an earlier one stands in
\* for a period that is published and could not be had.
ReportOf(published, newest, earlier) ==
    CASE newest \/ (~published /\ earlier) -> "full"
      [] published /\ ~newest /\ earlier -> "partial"
      [] OTHER -> "thin"
Reports == LET found == {Filed(a, b) : a, b \in OneHost} IN
           {ReportOf(p, n, e) : p \in BOOLEAN, n, e \in found}

-----------------------------------------------------------------------------
(* News.                                                                   *)

\* Items without a title are dropped, and no items is not a failure.
Titled(reply, titles) == IF reply = "data" /\ ~titles THEN "nothing" ELSE reply
YahooNews == {Titled(r, t) : r \in Reply, t \in BOOLEAN}
GoogleNews == {Titled(r, t) : r \in Reply, t \in BOOLEAN}
NewsOf(yahoo, google) ==
    CASE "data" \in {yahoo, google} -> "full"
      [] "data" \notin {yahoo, google} /\ "nothing" \in {yahoo, google} -> "thin"
      [] OTHER -> "failed"
News == {NewsOf(y, g) : y \in YahooNews, g \in GoogleNews}

\* Forward research takes the items of a search that are recent, name the issuer and are of
\* a category that matters; a search that fails is kept as one that found nothing.
Matching == {"recent", "issuer", "category"}
ForwardOf(reply, item) == IF reply = "data" /\ Matching \subseteq item THEN "full" ELSE "thin"
Forward == {ForwardOf(reply, item) : reply \in Reply, item \in SUBSET Matching}
=============================================================================
