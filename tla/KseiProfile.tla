------------------------------ MODULE KseiProfile ------------------------------
(***************************************************************************)
(* The KSEI profile of a ticker, put together of three places.             *)
(*                                                                         *)
(* The page of the security comes first.  A ticker whose page is a shell   *)
(* gets the row of KSEI's monthly archive in its place; whatever part of   *)
(* the composition is missing after that is filled in from the archive,    *)
(* and then from the rows the shared hub has of the same archive.  Each    *)
(* place may be unavailable, and none of them is ever waited for.          *)
(***************************************************************************)

\* What a profile can tell: who issued, how many shares, what status, the share that is
\* scripless, how that divides between local and foreign holders, and, in the archive
\* only, how many shares the holders of each class have.
OnPage == {"issuer", "shares", "status", "scripless", "pair"}
Supplement == {"shares", "scripless", "pair", "holders"}
Composition == {"scripless", "pair"}
Identity == {"issuer", "shares", "status"}

Shell(facts) == [facts |-> facts, verified |-> FALSE]
Verified(facts) == [facts |-> facts, verified |-> TRUE]

\* The page, which is verified when it names the issuer, the shares and the status.
Page(facts) == IF Identity \subseteq facts THEN Verified(facts) ELSE Shell(facts)
Unanswered == Shell({})

\* One request of it.  A shell is asked for again like a refusal, a failure is not; what was
\* asked for in vain is an empty shell.
Try == [reply : {"busy", "broken"}, page : {Unanswered}]
       \cup [reply : {"data"}, page : {Page(facts) : facts \in SUBSET OnPage}]
Asked(first, second) ==
    IF first.page.verified \/ first.reply = "broken" THEN first.page ELSE second.page
Pages == {Asked(first, second) : first, second \in Try}

-----------------------------------------------------------------------------
(* The monthly archive.                                                    *)

\* Its address stands on the archive page, or is guessed from the ends of the month.
Discovered(listed, guessed) == listed \/ guessed

\* A line has the number of shares, the totals of local and foreign holders, or both.
Totals(counted, divided) ==
    {"holders"} \cup (IF counted THEN {"shares"} ELSE {}) \cup (IF divided THEN {"pair"} ELSE {})
        \cup (IF counted /\ divided THEN {"scripless"} ELSE {})
Lines == {Verified(Totals(counted, divided)) : counted, divided \in BOOLEAN}

\* An archive that cannot be found or read is like one without the ticker.  One that was
\* read is kept for half a day; what was not is asked for again by the next in the chain.
Absent == Unanswered
Archived(listed, guessed, readable, line) ==
    IF Discovered(listed, guessed) /\ readable THEN line ELSE Absent
Archive == {Archived(l, g, r, line) : l, g, r \in BOOLEAN, line \in {Absent} \cup Lines}
Kept(first, second) == IF first # Absent THEN first ELSE second

\* A line takes the place of a shell, of whatever the shell knew; a verified page stays.
Replaced(page, line) == IF ~page.verified /\ line.verified THEN line ELSE page

-----------------------------------------------------------------------------
(* Completion.                                                             *)

Complete(profile) == Composition \subseteq profile.facts

\* What a supplement adds is what is missing, never issuer or status, and it makes the
\* profile as verified as the supplement.
Added(profile, supplement) == (supplement.facts \cap Supplement) \ profile.facts
Merged(profile, supplement) ==
    IF Added(profile, supplement) = {} THEN profile
    ELSE [facts |-> profile.facts \cup Added(profile, supplement),
          verified |-> profile.verified \/ supplement.verified]
Completed(profile, line) == IF Complete(profile) THEN profile ELSE Merged(profile, line)

\* The hub's rows of a ticker: one of each kind, of an older or the newest month, not fit
\* for use (unverified or not valid), or none.  Only the newest month counts.
Kind == {"security", "scripless", "local", "foreign"}
Canonical(rows) ==
    LET of(month) == {k \in Kind : rows[k] = month}
        kinds == IF of("newest") # {} THEN of("newest") ELSE of("older") IN
    IF kinds = {} THEN Absent
    ELSE Verified((IF "security" \in kinds THEN {"shares"} ELSE {}) \cup (kinds \cap {"scripless"})
                  \cup (IF {"local", "foreign"} \subseteq kinds THEN {"pair"} ELSE {}))
Shared == {Canonical(rows) : rows \in [Kind -> {"none", "unfit", "older", "newest"}]}

\* fetch_many_ksei_profiles as it is installed: every wrapper asks the one below it.
Chain(page, first, second, shared) ==
    Merged(Completed(Replaced(page, first), Kept(first, second)), shared)

\* The database takes a profile that is verified and has an identity; one it does not take
\* may still be held by a scan.
DatabaseValid(profile) == profile.verified /\ Identity \subseteq profile.facts
GradeOf(profile) ==
    CASE ~DatabaseValid(profile) -> "thin"
      [] DatabaseValid(profile) /\ ~Complete(profile) -> "partial"
      [] OTHER -> "full"
KseiProfiles == {GradeOf(Chain(page, first, second, shared)) :
                    page \in Pages, first, second \in Archive, shared \in Shared}
=============================================================================
