----------------------------- MODULE SourceCache -----------------------------
(***************************************************************************)
(* The cache a scan keeps its sources in, seen from one ticker.            *)
(*                                                                         *)
(* A stage of a scan reads the row of a family, refreshes it from the       *)
(* provider when it is not fresh, writes it back and reads the hash again;  *)
(* if that is not the hash it wrote, it writes once more, and then the scan *)
(* pauses and does the chunk over.  FINALIZE, in whatever process the scan  *)
(* has come to by then, loads the rows again and calls no provider, but for *)
(* forward research, which it collects itself.  Two scans may be at it.     *)
(* KSEI rows are guarded: the database keeps the old row when a profile is  *)
(* unresolved, and reports success.                                        *)
(***************************************************************************)
EXTENDS SourceProviders, FiniteSets

CONSTANTS
    Scan,        \* scans that use the cache
    Families,    \* the families of this instance
    MaxEdition   \* how often the source changes or the rows grow older (bound)

Family == {"OHLCV", "MARKET_FEATURES", "KSEI", "FUNDAMENTAL", "IDX_FUNDAMENTAL", "NEWS",
           "FORWARD_RESEARCH"}

ASSUME SourceCacheAssumption == Families \subseteq Family /\ MaxEdition \in Nat \ {0}

VARIABLES
    family,   \* the family of this behaviour
    row,      \* its row of the ticker in cak_ohlcv_cache or cak_source_cache
    edition,  \* what the provider has by now
    memory,   \* research memory holds a payload that can be used
    scan      \* what a scan is doing, holds, and is about to write

vars == <<family, row, edition, memory, scan>>

\* Of the grades of SourceProviders a row may have full, partial and thin; a thin statement
\* is one of an old schema.
Grade == {"full", "partial", "thin"}
Whole == {"full", "partial"}

\* Age: within the time to live (bars: of the last session), within the fallback, beyond it.
Entry == [grade : Grade \cup {"none"}, edition : 0..MaxEdition, age : 0..2, intact : BOOLEAN]
Nothing == [grade |-> "none", edition |-> 0, age |-> 0, intact |-> TRUE]

\* Negative answers and empty lists are the same whenever they are given.
Made(grade, n) ==
    [grade |-> grade, edition |-> IF grade = "thin" /\ family # "KSEI" THEN 0 ELSE n,
     age |-> 0, intact |-> TRUE]

\* Bars and what is made of them: the source changes with every session, and only then.
ByDay == family \in {"OHLCV", "MARKET_FEATURES"}

\* Where a scan has what it holds from.
Origin == {"none", "cache", "fallback", "provider", "memory"}
Places == {"idle", "fetch", "guard", "write", "verify", "rewrite", "recheck", "paused",
           "processed", "look", "loaded"}
Rested == [at |-> "idle", held |-> Nothing, from |-> "none", write |-> Nothing]

TypeOK ==
    /\ family \in Families
    /\ row \in Entry /\ edition \in 1..MaxEdition /\ memory \in BOOLEAN
    /\ scan \in [Scan -> [at : Places, held : Entry, from : Origin, write : Entry]]

Init ==
    /\ family \in Families
    /\ row \in {Nothing} \cup [grade : Grade, edition : {0, 1}, age : 0..2, intact : BOOLEAN]
    /\ (row.edition = 1) <=> (ByDay /\ row # Nothing /\ row.age = 0)
    /\ ~row.intact => row.age = 0
    /\ row.grade = "thin" => ~ByDay
    /\ row.grade = "partial" => family \in {"OHLCV", "KSEI", "FUNDAMENTAL", "IDX_FUNDAMENTAL"}
    /\ edition = 1
    /\ memory \in BOOLEAN /\ (memory => family \in {"FUNDAMENTAL", "IDX_FUNDAMENTAL"})
    /\ scan = [s \in Scan |-> Rested]

-----------------------------------------------------------------------------
(* Reading.                                                                *)

\* A row with a wrong hash is no row, and neither is a statement of an old schema.
Intact(e) == IF e.intact THEN e ELSE Nothing
Compatible(e) == family = "FUNDAMENTAL" => e.grade \in Whole
ReadUnchecked(e) == IF Compatible(e) THEN e ELSE Nothing  \* a variant that trusts the row
Read(e) == IF Compatible(Intact(e)) THEN Intact(e) ELSE Nothing

\* A quarter is expected some time after it is out.  A statement of a quarter before the
\* one expected is refreshed however young the row is.
Expected == edition - 1
Lags(e) == family = "FUNDAMENTAL" /\ e.edition < Expected
Hit(e) == e # Nothing /\ e.age = 0 /\ ~Lags(e)

\* A report that was not found is looked up in the shared table before that is believed.
Believed(e) == family = "IDX_FUNDAMENTAL" => e.grade \in Whole

\* What FINALIZE finds in a row: no bars of an earlier session, no unverified report.
Loadable(e) ==
    /\ e # Nothing /\ e.intact /\ Compatible(e)
    /\ ByDay => e.age = 0
    /\ family = "IDX_FUNDAMENTAL" => e.grade \in Whole

\* Research memory stands in for a row FINALIZE cannot use; for statements only when
\* there is no row or its hash is wrong.
MemoryLoads(e) == memory /\ (family = "FUNDAMENTAL" => Intact(e) = Nothing)

-----------------------------------------------------------------------------
(* What the cache-first fetch of each family makes of the row it read and  *)
(* of the provider's answer: what the stage holds and what it writes.      *)

Answers(e) ==
    CASE family = "OHLCV" -> IF e = Nothing THEN ColdBars ELSE TailBars
      [] family = "MARKET_FEATURES" -> {"full", "failed"}
      [] family = "KSEI" -> KseiProfiles
      [] family = "FUNDAMENTAL" -> Snapshots
      [] family = "IDX_FUNDAMENTAL" -> Reports
      [] OTHER -> News

Result(held, from, write) == [held |-> held, from |-> from, write |-> write]
Refreshed(grade) == Result(Made(grade, edition), "provider", Made(grade, edition))
StandIn(e) == IF e.age <= 1 THEN Result(e, "fallback", Nothing) ELSE Result(Nothing, "none", Nothing)
Remembered == Result(Made("full", 0), "memory", Nothing)
Empty == Result(Nothing, "none", Nothing)

\* Bars without a row are fetched for five years; a row is extended by its tail, of
\* however few bars it is, and when the provider fails it is used for ten days.
RefreshOhlcv(e, answer) ==
    LET grade == IF e # Nothing THEN e.grade ELSE IF answer = "partial" THEN "partial" ELSE "full"
        late == [Made(grade, edition - 1) EXCEPT !.age = 1] IN
    CASE answer \in Whole -> Refreshed(grade)
      [] answer = "late" -> Result(late, "provider", late)
      [] answer = "failed" /\ e # Nothing -> StandIn(e)
      [] OTHER -> Empty

\* Features come of current bars only.
RefreshFeatures(e, answer) == IF answer = "full" THEN Refreshed("full") ELSE Empty

\* The profile of a ticker always comes, resolved or not, and is written.
RefreshKsei(e, answer) == Refreshed(answer)

\* A snapshot of whatever statements could be read replaces the row.
RefreshFundamental(e, answer) ==
    IF answer # "failed" THEN Refreshed(answer)
    ELSE IF e # Nothing THEN StandIn(e)
    ELSE IF memory THEN Remembered ELSE Empty

\* So does the report of whatever period, and what is not verified is written as a
\* negative answer over whatever was there.
RefreshIdx(e, answer) ==
    IF answer # "thin" THEN Refreshed(answer)
    ELSE [(IF memory THEN Remembered ELSE Empty) EXCEPT !.write = Made("thin", edition)]

\* News merges with all the old items it has: these are written again, as new, when
\* the providers have none and when they fail.
RefreshNews(e, answer) ==
    CASE answer = "full" -> Refreshed("full")
      [] answer # "full" /\ e.grade = "full" ->
            Result([e EXCEPT !.age = 0], "provider", [e EXCEPT !.age = 0])
      [] answer = "thin" /\ e.grade # "full" -> Refreshed("thin")
      [] OTHER -> Empty

\* Statements are taken from the shared table, of what quarter they may be, if it is the
\* one expected or a later one: figures without statements, or the official report.
FromShared(quarters) ==
    LET grade == IF family = "FUNDAMENTAL" THEN "partial" ELSE "full" IN
    IF family \notin {"FUNDAMENTAL", "IDX_FUNDAMENTAL"} THEN {}
    ELSE {Result(Made(grade, n), "provider", Made(grade, n)) : n \in quarters}
Shareable ==
    {n \in 1..edition : IF family = "FUNDAMENTAL" THEN SharedGood(n, TRUE, Expected)
                       ELSE OfficialGood(n, Expected)}

\* FINALIZE fills what is missing from the shared table, of whatever quarter.
StandingIn == {Empty} \cup FromShared(1..edition)

\* Of the tickers that are left the first eight are asked of the structured vendors.
FromVendors == IF family = "FUNDAMENTAL" THEN {Refreshed("partial")} ELSE {}

Refresh(e, answer) ==
    CASE family = "OHLCV" -> RefreshOhlcv(e, answer)
      [] family = "MARKET_FEATURES" -> RefreshFeatures(e, answer)
      [] family = "KSEI" -> RefreshKsei(e, answer)
      [] family = "FUNDAMENTAL" -> RefreshFundamental(e, answer)
      [] family = "IDX_FUNDAMENTAL" -> RefreshIdx(e, answer)
      [] OTHER -> RefreshNews(e, answer)

-----------------------------------------------------------------------------
(* A stage of a scan.                                                      *)

At(s, place) == scan[s].at = place
Go(s, place) == scan' = [scan EXCEPT ![s].at = place]

\* A paused chunk is done over and keeps nothing.
Pause(s) == scan' = [scan EXCEPT ![s] = [Rested EXCEPT !.at = "paused"]]

\* The write the database would quietly not do.
NeverGuarded(e) == FALSE  \* a variant without the guard of the scan
WouldBeGuarded(e) == family = "KSEI" /\ e.grade = "thin"

\* Forward research has no stage.
Start(s) ==
    /\ At(s, "idle")
    /\ Go(s, IF family = "FORWARD_RESEARCH" THEN "processed" ELSE "fetch")
    /\ UNCHANGED <<family, row, edition, memory>>

\* Where what a stage gets may come from: a young row, the shared table, a structured
\* vendor, the row or the provider of the family.
Gets(e) ==
    IF Hit(e) /\ Believed(e) THEN {Result(e, "cache", Nothing)}
    ELSE FromShared(Shareable) \cup FromVendors \cup
         (IF Hit(e) THEN {Result(e, "cache", Nothing)}
          ELSE {Refresh(e, answer) : answer \in Answers(e)})

\* A chunk that has nothing to write is through; a cache that cannot be read is a miss.
Fetch(s, readable) ==
    /\ At(s, "fetch")
    /\ \E got \in Gets(IF readable THEN Read(row) ELSE Nothing) :
        scan' = [scan EXCEPT ![s] =
                   [at |-> CASE got.write = Nothing -> "processed"
                             [] WouldBeGuarded(got.write) -> "guard"
                             [] OTHER -> "write",
                    held |-> got.held, from |-> got.from, write |-> got.write]]
    /\ UNCHANGED <<family, row, edition, memory>>

\* An unresolved profile gives way to the row it would not replace, of whatever age.
Guard(s, readable) ==
    LET e == IF readable THEN Intact(row) ELSE Nothing IN
    /\ At(s, "guard")
    /\ IF e # Nothing
       THEN scan' = [scan EXCEPT ![s] = [at |-> "processed", held |-> e, from |-> "cache", write |-> Nothing]]
       ELSE Go(s, "write")
    /\ UNCHANGED <<family, row, edition, memory>>

\* guard_ksei_source_cache_profile keeps the old row and lets the upsert report success.
Stored(e) == IF family = "KSEI" /\ e.grade = "thin" /\ row # Nothing THEN row ELSE e

Outcome == {"ok", "refused", "lost"}

Write(s, outcome) ==
    /\ scan[s].at \in {"write", "rewrite"}
    /\ row' = IF outcome = "refused" THEN row ELSE Stored(scan[s].write)
    /\ IF outcome = "ok" THEN Go(s, IF At(s, "write") THEN "verify" ELSE "recheck") ELSE Pause(s)
    /\ UNCHANGED <<family, edition, memory>>

\* The hash on record must be the hash that was written; another one is written over, once
\* for the two times of the code.
SameHash(e, f) == e.grade = f.grade /\ e.edition = f.edition

Retry(s) == Go(s, "rewrite")
Verify(s, readable) ==
    /\ scan[s].at \in {"verify", "recheck"}
    /\ CASE readable /\ SameHash(row, scan[s].write) ->
               scan' = [scan EXCEPT ![s].at = "processed", ![s].write = Nothing]
         [] readable /\ ~SameHash(row, scan[s].write) /\ At(s, "verify") -> Retry(s)
         [] OTHER -> Pause(s)
    /\ UNCHANGED <<family, row, edition, memory>>

Resume(s) ==
    /\ At(s, "paused")
    /\ Go(s, "fetch")
    /\ UNCHANGED <<family, row, edition, memory>>

\* The page closes in the middle of a chunk; the next one does the chunk over.
Die(s) ==
    /\ scan[s].at \in {"guard", "write", "verify", "rewrite", "recheck"}
    /\ Pause(s)
    /\ UNCHANGED <<family, row, edition, memory>>

\* FINALIZE loads; features that are not of the last session are made again of the
\* bars, if these are, and written without asking what became of the write.
Load(s, readable) ==
    /\ At(s, "processed") /\ family # "FORWARD_RESEARCH"
    /\ \/ /\ readable /\ Loadable(row)
          /\ scan' = [scan EXCEPT ![s] = [at |-> "loaded", held |-> row, from |-> "cache", write |-> Nothing]]
          /\ UNCHANGED row
       \/ /\ ~(readable /\ Loadable(row))
          /\ LET e == IF readable THEN row ELSE Nothing IN
             \E got \in IF MemoryLoads(e) THEN {Remembered} ELSE StandingIn :
             scan' = [scan EXCEPT ![s] = [at |-> "loaded", held |-> got.held, from |-> got.from, write |-> Nothing]]
          /\ UNCHANGED row
       \/ /\ family = "MARKET_FEATURES" /\ ~(readable /\ Loadable(row))
          /\ scan' = [scan EXCEPT ![s] = [at |-> "loaded", held |-> Made("full", edition),
                                          from |-> "provider", write |-> Nothing]]
          /\ row' \in {row, Made("full", edition)}
    /\ UNCHANGED <<family, edition, memory>>

\* Forward research is collected for a ticker without a row of the last 24 hours and
\* written, found or not, without asking what became of the write: once with the name of
\* the issuer, and, if that left no row, once more without.
Look(s, next, readable, written) ==
    LET e == IF readable THEN Intact(row) ELSE Nothing IN
    /\ IF e # Nothing /\ e.age = 0
       THEN /\ scan' = [scan EXCEPT ![s] = [at |-> next, held |-> e, from |-> "cache", write |-> Nothing]]
            /\ UNCHANGED row
       ELSE \E grade \in Forward :
            /\ scan' = [scan EXCEPT ![s] = [at |-> next, held |-> Made(grade, edition),
                                            from |-> "provider", write |-> Nothing]]
            /\ row' = IF written THEN Made(grade, edition) ELSE row
    /\ UNCHANGED <<family, edition, memory>>
LookByName(s, readable, written) ==
    family = "FORWARD_RESEARCH" /\ At(s, "processed") /\ Look(s, "look", readable, written)
LookByTicker(s, readable, written) == At(s, "look") /\ Look(s, "loaded", readable, written)

Rest(s) ==
    /\ At(s, "loaded")
    /\ scan' = [scan EXCEPT ![s] = Rested]
    /\ UNCHANGED <<family, row, edition, memory>>

\* Time passes: the source changes, and what was read of it may be older than it was.
AgedForever(e) == IF e = Nothing THEN e ELSE [e EXCEPT !.age = @ + 1]  \* a variant without a last age
Aged(e) == [e EXCEPT !.age = IF e = Nothing \/ @ = 2 THEN @ ELSE @ + 1]
Pass ==
    /\ edition < MaxEdition
    /\ edition' = edition + 1
    /\ \/ ~ByDay /\ UNCHANGED <<row, scan>>
       \/ /\ row' = Aged(row)
          /\ scan' = [s \in Scan |-> [scan[s] EXCEPT !.held = Aged(@), !.write = Aged(@)]]
    /\ UNCHANGED <<family, memory>>

Next ==
    \/ \E s \in Scan :
        \/ Start(s) \/ Resume(s) \/ Die(s) \/ Rest(s)
        \/ \E readable \in BOOLEAN : Fetch(s, readable) \/ Guard(s, readable)
                                     \/ Verify(s, readable) \/ Load(s, readable)
                                     \/ \E written \in BOOLEAN : LookByName(s, readable, written)
                                                               \/ LookByTicker(s, readable, written)
        \/ \E outcome \in Outcome : Write(s, outcome)
    \/ Pass

Spec == Init /\ [][Next]_vars

\* A scan that is at work goes on and a paused one is resumed.  Calls of the database fail
\* and pages close now and then, but not for ever.
Sound(s) ==
    \/ Resume(s) \/ Fetch(s, TRUE) \/ Guard(s, TRUE) \/ Verify(s, TRUE) \/ Write(s, "ok")
Failure(s) ==
    \/ Die(s) \/ Fetch(s, FALSE) \/ Guard(s, FALSE) \/ Verify(s, FALSE)
    \/ Write(s, "refused") \/ Write(s, "lost")
Fairness ==
    /\ \A s \in Scan : WF_vars(Sound(s))
    /\ <>[][\A s \in Scan : Failure(s) => Sound(s)]_vars

FairSpec == Spec /\ Fairness

-----------------------------------------------------------------------------
(* Properties.                                                             *)

\* What a stage has found, FINALIZE finds too, in another process and without a provider,
\* whatever other scans wrote meanwhile (_process_cache_stage against the load_cached_
\* functions).  Bars that have aged or stood in are left out by design.  Three losses are
\* the code's own: bars over which a slower scan wrote those of an earlier session, a
\* statement remembered over a row of an old schema, and a report that another scan's
\* negative answer replaced while memory has none.
ProcessedIsLoaded ==
    \A s \in Scan :
        /\ At(s, "processed") /\ scan[s].from # "none"
        /\ ByDay => scan[s].held.age = 0 /\ row.edition >= scan[s].held.edition
        /\ family = "FUNDAMENTAL" => scan[s].from # "memory"
        /\ family = "IDX_FUNDAMENTAL" => memory
        => Loadable(row) \/ MemoryLoads(row)

\* Every chunk gets through in the end: another scan's writes, a refused or lost write, a
\* closed page and the database's guard pause it, and none of them for good
\* (runtime_cache_checkpoint_hotfix.py: the guard's outcome "is an expected guard outcome,
\* not a cache-corruption event").  A KSEI row whose hash is wrong may pause it for good, and
\* so may a scan that is given bars of an earlier session again and again.
Blocked == (family = "KSEI" /\ ~row.intact) \/ (family = "OHLCV" /\ \E s \in Scan : scan[s].write.age = 1)
EveryChunkLands == \A s \in Scan : At(s, "fetch") ~> At(s, "processed") \/ Blocked
=============================================================================
