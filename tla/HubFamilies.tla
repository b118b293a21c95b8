----------------------------- MODULE HubFamilies -----------------------------
(***************************************************************************)
(* The evidence families of the shared hub, as data.                       *)
(*                                                                         *)
(* Every family hands SharedEvidenceCoordinator.get_or_refresh the same    *)
(* five things: the lease key of a request, the filter its rows are read   *)
(* with, what the provider is asked for, what becomes of an item while it  *)
(* is normalised, and which rows the validator refuses.  Two requests, p   *)
(* and q, stand for two callers of the family whose arguments differ       *)
(* where the family lets them.                                             *)
(***************************************************************************)
EXTENDS Naturals, FiniteSets

Item == 1..3               \* what the provider has to report
Request == {"p", "q"}

\* An item without an issuer, one of another period, one with a malformed figure.
Kind == {"good", "unnamed", "misdated", "malformed"}
Fate == {"row", "skip", "raise"}

Each(x) == [r \in Request |-> x]
Split(x, y) == [r \in Request |-> IF r = "p" THEN x ELSE y]
Fates(unnamed, misdated, malformed) ==
    [k \in Kind |-> CASE k = "good" -> "row" [] k = "unnamed" -> unnamed
                      [] k = "misdated" -> misdated [] k = "malformed" -> malformed]
Odd == Kind \ {"good"}

(* Stock summary: the two callers have universes of their own, and four fifths of *)
(* one must be there; rows of any universe count.                                 *)
Breadth(n) == (4 * n + 4) \div 5
StockFates == Fates("skip", "raise", "row")
StockRefuses == Odd
StockPolicy ==
    [key |-> Each("all"), tag |-> Each("all"), asks |-> Split({1, 2}, {2, 3}),
     min |-> Each(Breadth(2)), breadth |-> Each(Breadth(2)),
     ttl |-> FALSE, empty |-> FALSE, open |-> FALSE, fates |-> StockFates, refuses |-> StockRefuses]

(* Trade detail: the callers differ in the breadth they ask for. *)
ParticipantFates == Fates("skip", "row", "row")
ParticipantPolicy ==
    [key |-> Each("all"), tag |-> Each("all"), asks |-> Each({1, 2}),
     min |-> Split(2, 1), breadth |-> Split(2, 1),
     ttl |-> FALSE, empty |-> FALSE, open |-> FALSE, fates |-> ParticipantFates, refuses |-> {}]

(* Announcements and press releases of one day: two feeds of one table. *)
AnnouncementFates == Fates("skip", "skip", "raise")
AnnouncementRefuses == Odd
AnnouncementPolicy ==
    [key |-> Split("p", "q"), tag |-> Split("p", "q"), asks |-> Split({1, 2}, {3}),
     min |-> Each(1), breadth |-> Each(1),
     ttl |-> FALSE, empty |-> FALSE, open |-> TRUE, fates |-> AnnouncementFates, refuses |-> AnnouncementRefuses]

(* Capital actions of one month, observed on two dates.  The lease and the empty   *)
(* verdict belong to the month, the rows to the date they were observed on.  One   *)
(* of its feeds, additional-listings, raises where the others skip; as any call of *)
(* the provider may raise, what it does is among what the others do.               *)
CapitalFates == Fates("skip", "skip", "raise")
CapitalRefuses == Odd
CapitalPolicy ==
    [key |-> Each("all"), tag |-> Split("p", "q"), asks |-> Each({1, 2}),
     min |-> Each(1), breadth |-> Each(1),
     ttl |-> FALSE, empty |-> TRUE, open |-> TRUE, fates |-> CapitalFates, refuses |-> CapitalRefuses]

(* Risk notices of two windows that overlap; a notice is one row whatever the window. *)
RiskFates == Fates("skip", "skip", "raise")
RiskRefuses == Odd
RiskPolicy ==
    [key |-> Split("p", "q"), tag |-> Split("p", "q"), asks |-> Split({1, 2}, {2}),
     min |-> Each(1), breadth |-> Each(1),
     ttl |-> FALSE, empty |-> FALSE, open |-> TRUE, fates |-> RiskFates, refuses |-> RiskRefuses]

(* The company directory, asked for in two months: two leases for the same rows. *)
Monthly(asks, fates, refuses) ==
    [key |-> Split("p", "q"), tag |-> Each("all"), asks |-> Each(asks),
     min |-> Each(1), breadth |-> Each(1),
     ttl |-> TRUE, empty |-> FALSE, open |-> FALSE, fates |-> fates, refuses |-> refuses]
DirectoryFates == Fates("skip", "row", "row")
DirectoryRefuses == {"unnamed", "malformed"}
DirectoryPolicy == Monthly({1, 2}, DirectoryFates, DirectoryRefuses)

(* The profile of one company, and one reference list. *)
ProfileFates == Fates("raise", "row", "raise")
ProfilePolicy == Monthly({1}, ProfileFates, DirectoryRefuses)

ReferenceFates == Fates("skip", "row", "raise")
ReferenceRefuses == {"unnamed"}
ReferencePolicy == Monthly({1, 2}, ReferenceFates, ReferenceRefuses)

(* Exchange members, and their turnover of one day. *)
MemberFates == Fates("raise", "row", "raise")
MemberRefuses == {"unnamed", "malformed"}
MemberPolicy == Monthly({1, 2}, MemberFates, MemberRefuses)

Daily(fates, refuses) ==
    [key |-> Split("p", "q"), tag |-> Split("p", "q"), asks |-> Split({1, 2}, {3}),
     min |-> Each(1), breadth |-> Each(1),
     ttl |-> FALSE, empty |-> FALSE, open |-> FALSE, fates |-> fates, refuses |-> refuses]
TurnoverFates == Fates("raise", "raise", "raise")
TurnoverRefuses == Odd
TurnoverPolicy == Daily(TurnoverFates, TurnoverRefuses)

(* An ownership publication: the rows of its workbook. *)
OwnershipFates == Fates("skip", "raise", "row")
OwnershipRefuses == Odd
OwnershipPolicy == Daily(OwnershipFates, OwnershipRefuses)

(* The XBRL facts of one report, of which three make it usable. *)
FinancialFates == Fates("skip", "skip", "raise")
FinancialRefuses == Odd
FinancialPolicy ==
    [key |-> Each("all"), tag |-> Each("all"), asks |-> Each({1, 2, 3}),
     min |-> Each(3), breadth |-> Each(3),
     ttl |-> FALSE, empty |-> FALSE, open |-> FALSE, fates |-> FinancialFates, refuses |-> FinancialRefuses]

Policies ==
    [STOCK |-> StockPolicy, PARTICIPANT |-> ParticipantPolicy, ANNOUNCEMENT |-> AnnouncementPolicy,
     CAPITAL |-> CapitalPolicy, RISK |-> RiskPolicy, DIRECTORY |-> DirectoryPolicy,
     PROFILE |-> ProfilePolicy, REFERENCE |-> ReferencePolicy, MEMBER |-> MemberPolicy,
     TURNOVER |-> TurnoverPolicy, OWNERSHIP |-> OwnershipPolicy, FINANCIAL |-> FinancialPolicy]
Family == DOMAIN Policies
Key == {"p", "q", "all"}
Tag == {"p", "q", "all"}

-----------------------------------------------------------------------------

\* Families that may take a part of a feed for all of it: an empty page ends the directory,
\* the risk notices and the turnover whatever more is promised, the files of an ownership
\* publication are those of the first index page that names one, and of the stock summary
\* one page is asked for, whatever its total.
EndsEarly == {"DIRECTORY", "RISK", "TURNOVER", "OWNERSHIP", "STOCK"}

\* What a family may read of the items its provider has.
Answers(f, items) == IF f \in EndsEarly THEN SUBSET items ELSE {items}

\* A variant that keeps the pages it got when the budget ends first.
FetchedInPart(f, items, kind, truncated) ==
    LET fate == Policies[f].fates
        rows == {i \in items : fate[kind[i]] = "row"} IN
    [raised |-> \E i \in items : fate[kind[i]] = "raise",
     rows |-> {i \in rows : truncated => \E j \in rows : i < j}]

\* What was read is normalised as a whole; a page budget that ends first raises.
Fetched(f, items, kind, truncated) ==
    LET fate == Policies[f].fates
        rows == {i \in items : fate[kind[i]] = "row"} IN
    [raised |-> truncated \/ \E i \in items : fate[kind[i]] = "raise",
     rows |-> rows]

\* A variant that takes a feed without a row, of whatever family, for an empty one.
NoRowsReadAsEmpty(f, items, rows) == rows = {}

\* A family whose months may be empty takes no rows for a month without actions,
\* unless the provider sent some that all were skipped.
ReadsAsEmpty(f, items, rows) == Policies[f].empty /\ rows = {} /\ items = {}

Validated(f, r, rows, kind) ==
    /\ rows # {}
    /\ Cardinality(rows) >= Policies[f].breadth[r]
    /\ \A i \in rows : kind[i] \notin Policies[f].refuses
=============================================================================
