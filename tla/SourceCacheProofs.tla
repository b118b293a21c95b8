-------------------------- MODULE SourceCacheProofs --------------------------
(***************************************************************************)
(* Theorems about SourceCache, for any number of scans, every choice of    *)
(* families and every bound on how often the source changes.               *)
(***************************************************************************)
EXTENDS SourceCache, TLAPS

Activity == [at : Places, held : Entry, from : Origin, write : Entry]

\* What a scan holds and writes, and what the table has, was made by some answer.
Known(e) == e = Nothing \/ e.grade \in Grade

\* Fit to be loaded, but for its age and for reports nobody verified.
Good(e) == e # Nothing /\ e.intact /\ Compatible(e)

\* Bars are of the last session exactly when they are as new as the source.
Dated(e) ==
    ByDay /\ e # Nothing =>
        e.grade \in Whole /\ e.edition <= edition /\ (e.age = 0 <=> e.edition = edition)

\* A row with a wrong hash is one that was there before: its edition is none a scan writes
\* under KSEI's guard.
RowShape(r) ==
    /\ Known(r) /\ Dated(r)
    /\ r.intact \/ ByDay \/ r.edition = 0

\* What a scan is doing, against the row of the table: what is written is good, a row that
\* was written or found is there, and good unless the guard kept a bad one.
ScanShape(x, r) ==
    /\ Known(x.held) /\ Known(x.write) /\ Dated(x.held) /\ Dated(x.write)
    /\ x.at \in {"idle", "fetch", "paused"} => x.from = "none" /\ x.held = Nothing /\ x.write = Nothing
    /\ x.write # Nothing => Good(x.write) /\ (family = "KSEI" => x.write.edition > 0)
    /\ x.at \in {"guard", "write", "rewrite", "verify", "recheck"} => x.write # Nothing
    /\ x.at = "guard" => family = "KSEI"
    /\ x.at = "look" => family = "FORWARD_RESEARCH"
    /\ x.from # "none" => x.held # Nothing
    /\ x.from = "memory" => family \in {"FUNDAMENTAL", "IDX_FUNDAMENTAL"}
    /\ x.at \in {"verify", "recheck"} => r # Nothing /\ (family # "KSEI" => Good(r))
    /\ x.at = "processed" /\ x.from \notin {"none", "memory"} => Good(r)

CacheInv ==
    /\ TypeOK /\ RowShape(row)
    /\ memory => family \in {"FUNDAMENTAL", "IDX_FUNDAMENTAL"}
    /\ \A s \in Scan : ScanShape(scan[s], row)

-----------------------------------------------------------------------------
(* What the providers answer.                                              *)

LEMMA BarAnswers == ColdBars \subseteq {"full", "late", "partial", "failed"} /\ TailBars \subseteq {"full", "late", "failed"}
<1>1. \A reply \in Reply, frame \in Frame : Bars(reply, frame) \in {"full", "late", "none"}
    BY DEF Bars, Usable, CompletedSession, Frame
<1>2. YahooChart \subseteq {"full", "late", "none"}
    BY <1>1 DEF YahooChart, Again
<1>3. YFinance \subseteq {"full", "late", "none"}
    BY <1>1 DEF YFinance
<1>4. KseiPrices \subseteq {"full", "late", "none"}
    BY <1>1 DEF KseiPrices, Again
<1>5. History \subseteq {"full", "late", "partial", "failed"}
    BY <1>2, <1>3, <1>4 DEF History, HistoryOf, FirstOf
<1>6. ColdBars \subseteq {"full", "late", "partial", "failed"}
    BY <1>5 DEF ColdBars, Recovered
<1>7. TailBars \subseteq {"full", "late", "failed"}
    BY <1>2, <1>3 DEF TailBars, TailOf, FirstOf, YahooWindow
<1> QED BY <1>6, <1>7

LEMMA OtherAnswers ==
    /\ KseiProfiles \subseteq {"full", "partial", "thin"} /\ Snapshots \subseteq {"full", "partial", "failed"}
    /\ Reports \subseteq {"full", "partial", "thin"} /\ News \subseteq {"full", "thin", "failed"}
    /\ Forward \subseteq {"full", "thin"}
<1>1. KseiProfiles \subseteq {"full", "partial", "thin"}
    <2>1. \A profile : GradeOf(profile) \in {"full", "partial", "thin"}
        BY DEF GradeOf
    <2> QED BY <2>1 DEF KseiProfiles
<1>2. Snapshots \subseteq {"full", "partial", "failed"}
    <2>1. \A opened, replies : SnapshotOf(opened, replies) \in {"full", "partial", "failed"}
        BY DEF SnapshotOf
    <2> QED BY <2>1 DEF Snapshots
<1>3. Reports \subseteq {"full", "partial", "thin"}
    <2>1. \A published, newest, earlier : ReportOf(published, newest, earlier) \in {"full", "partial", "thin"}
        BY DEF ReportOf
    <2> QED BY <2>1 DEF Reports
<1>4. News \subseteq {"full", "thin", "failed"}
    <2>1. \A yahoo, google : NewsOf(yahoo, google) \in {"full", "thin", "failed"}
        BY DEF NewsOf
    <2> QED BY <2>1 DEF News
<1>5. Forward \subseteq {"full", "thin"}
    BY DEF Forward, ForwardOf
<1> QED BY <1>1, <1>2, <1>3, <1>4, <1>5

-----------------------------------------------------------------------------
(* Entries.                                                                *)

LEMMA NothingIs == Nothing \in Entry /\ Known(Nothing) /\ Dated(Nothing) /\ Nothing.intact /\ Nothing.edition = 0
    BY SourceCacheAssumption DEF Nothing, Entry, Known, Dated

\* What a scan makes is typed, dated, and good unless it is a statement of an old schema.
LEMMA MadeIs ==
    ASSUME TypeOK, NEW grade \in Grade, NEW n \in 0..edition,
           ByDay => grade \in Whole /\ n = edition, family = "FUNDAMENTAL" => grade \in Whole
    PROVE  /\ Made(grade, n) \in Entry /\ Known(Made(grade, n)) /\ Dated(Made(grade, n))
           /\ Good(Made(grade, n)) /\ (family = "KSEI" => Made(grade, n).edition = n)
<1>1. edition \in 1..MaxEdition /\ MaxEdition \in Nat
    BY SourceCacheAssumption DEF TypeOK
<1>2. Made(grade, n) = [grade |-> grade, edition |-> IF grade = "thin" /\ family # "KSEI" THEN 0 ELSE n,
                        age |-> 0, intact |-> TRUE]
    BY DEF Made
<1>3. Made(grade, n) \in Entry
    BY <1>1, <1>2 DEF Entry
<1>4. Made(grade, n) # Nothing
    BY <1>2 DEF Nothing, Grade
<1>5. Known(Made(grade, n)) /\ Good(Made(grade, n))
    BY <1>2, <1>4 DEF Known, Good, Compatible, Whole
<1>6. Dated(Made(grade, n))
    BY <1>2 DEF Dated, Whole
<1> QED BY <1>2, <1>3, <1>5, <1>6

\* A row that is read is good or nothing.
LEMMA ReadIs ==
    ASSUME TypeOK, NEW e \in Entry, Known(e), Dated(e)
    PROVE  /\ Read(e) \in Entry /\ Known(Read(e)) /\ Dated(Read(e))
           /\ Read(e) # Nothing => Read(e) = e /\ Good(e)
           /\ Intact(e) \in Entry /\ Known(Intact(e)) /\ Dated(Intact(e))
           /\ Intact(e) # Nothing => Intact(e) = e /\ e.intact
    BY NothingIs DEF Read, Intact, Good

-----------------------------------------------------------------------------
(* What a stage gets.                                                      *)

\* An answer to a chunk that read e, whoever gave it: what is held but not written was read.
Answered(got, e) ==
    /\ got \in [held : Entry, from : Origin, write : Entry]
    /\ Known(got.held) /\ Known(got.write) /\ Dated(got.held) /\ Dated(got.write)
    /\ got.write # Nothing => Good(got.write) /\ (family = "KSEI" => got.write.edition > 0)
    /\ got.from # "none" => got.held # Nothing
    /\ got.from = "memory" => family \in {"FUNDAMENTAL", "IDX_FUNDAMENTAL"}
    /\ got.write = Nothing /\ got.from \notin {"none", "memory"} => Good(e)

\* What was read, or nothing in its place.
ReadOk(e) == e \in Entry /\ Known(e) /\ Dated(e) /\ (e # Nothing => Good(e))

LEMMA EmptyAnswers == ASSUME NEW e PROVE Answered(Empty, e)
    BY NothingIs DEF Answered, Empty, Result, Origin

LEMMA ReadAnswers ==
    ASSUME NEW e, ReadOk(e), e # Nothing, NEW from \in {"cache", "fallback"}
    PROVE  Answered(Result(e, from, Nothing), e)
    BY NothingIs DEF Answered, Result, Origin, ReadOk

LEMMA RefreshedAnswers ==
    ASSUME TypeOK, NEW e, NEW grade \in Grade,
           ByDay \/ family = "FUNDAMENTAL" => grade \in Whole
    PROVE  Answered(Refreshed(grade), e)
<1> DEFINE m == Made(grade, edition)
<1>1. edition \in 0..edition /\ edition > 0
    BY SourceCacheAssumption DEF TypeOK
<1>2. m \in Entry /\ Known(m) /\ Dated(m) /\ Good(m) /\ (family = "KSEI" => m.edition > 0)
    BY <1>1, MadeIs
<1>3. m # Nothing
    BY <1>2 DEF Good
<1> HIDE DEF m
<1>4. Answered(Result(m, "provider", m), e)
    BY <1>2, <1>3 DEF Answered, Result, Origin
<1> QED BY <1>4 DEF Refreshed, m

LEMMA RememberedAnswers ==
    ASSUME TypeOK, NEW e, family \in {"FUNDAMENTAL", "IDX_FUNDAMENTAL"}
    PROVE  Answered(Remembered, e)
<1> DEFINE m == Made("full", 0)
<1>1. 0 \in 0..edition /\ ~ByDay
    BY SourceCacheAssumption DEF TypeOK, ByDay
<1>2. m \in Entry /\ Known(m) /\ Dated(m) /\ Good(m)
    BY <1>1, MadeIs DEF Grade, Whole
<1>3. m # Nothing
    BY <1>2 DEF Good
<1> HIDE DEF m
<1>4. Answered(Result(m, "memory", Nothing), e)
    BY <1>2, <1>3, NothingIs DEF Answered, Result, Origin
<1> QED BY <1>4 DEF Remembered, m

LEMMA StandInAnswers ==
    ASSUME NEW e, ReadOk(e), e # Nothing
    PROVE  Answered(StandIn(e), e)
    BY ReadAnswers, EmptyAnswers DEF StandIn, Empty

LEMMA SharedAnswers ==
    ASSUME TypeOK, NEW e, NEW quarters \in SUBSET (1..edition), NEW got \in FromShared(quarters)
    PROVE  Answered(got, e)
<1> DEFINE grade == IF family = "FUNDAMENTAL" THEN "partial" ELSE "full"
<1>1. PICK n \in quarters : got = Result(Made(grade, n), "provider", Made(grade, n))
    BY DEF FromShared
<1>2. family \in {"FUNDAMENTAL", "IDX_FUNDAMENTAL"}
    BY DEF FromShared
<1> DEFINE m == Made(grade, n)
<1>3. n \in 0..edition /\ grade \in Grade /\ grade \in Whole /\ ~ByDay
    BY <1>2, SourceCacheAssumption DEF TypeOK, Grade, Whole, ByDay
<1>4. m \in Entry /\ Known(m) /\ Dated(m) /\ Good(m)
    BY <1>3, MadeIs
<1>5. m # Nothing
    BY <1>4 DEF Good
<1>6. got = Result(m, "provider", m)
    BY <1>1
<1> HIDE DEF m
<1> QED BY <1>2, <1>4, <1>5, <1>6 DEF Answered, Result, Origin

LEMMA AgeIs ==
    ASSUME NEW e \in Entry, NEW age
    PROVE  [e EXCEPT !.age = age] = [grade |-> e.grade, edition |-> e.edition, age |-> age, intact |-> e.intact]
    BY DEF Entry

LEMMA LateIs ==
    ASSUME NEW grade \in Whole, NEW n \in 0..MaxEdition
    PROVE  [Made(grade, n) EXCEPT !.age = 1] = [grade |-> grade, edition |-> n, age |-> 1, intact |-> TRUE]
<1>1. Made(grade, n) = [grade |-> grade, edition |-> n, age |-> 0, intact |-> TRUE]
    BY DEF Made, Whole
<1>2. Made(grade, n) \in Entry
    BY <1>1 DEF Entry, Whole, Grade
<1>3. [Made(grade, n) EXCEPT !.age = 1]
        = [grade |-> Made(grade, n).grade, edition |-> Made(grade, n).edition, age |-> 1, intact |-> Made(grade, n).intact]
    BY <1>2, AgeIs
<1> QED BY <1>1, <1>3

LEMMA OhlcvAnswers ==
    ASSUME TypeOK, NEW e, ReadOk(e), family = "OHLCV", NEW answer \in Answers(e)
    PROVE  Answered(RefreshOhlcv(e, answer), e)
<1> DEFINE grade == IF e # Nothing THEN e.grade ELSE IF answer = "partial" THEN "partial" ELSE "full"
           m == Made(grade, edition - 1)
           late == [m EXCEPT !.age = 1]
<1>1. answer \in {"full", "late", "partial", "failed"}
    BY BarAnswers DEF Answers
<1>2. grade \in Whole /\ grade \in Grade /\ ByDay
    BY DEF ReadOk, Dated, ByDay, Whole, Grade
<1>3. CASE answer \in Whole
    <2>1. RefreshOhlcv(e, answer) = Refreshed(grade)
        BY <1>3 DEF RefreshOhlcv, Whole
    <2> HIDE DEF grade
    <2> QED BY <1>2, <2>1, RefreshedAnswers
<1>4. CASE answer = "late"
    <2>1. edition - 1 \in 0..MaxEdition /\ edition - 1 # edition /\ edition - 1 <= edition
        BY SourceCacheAssumption DEF TypeOK
    <2>2. RefreshOhlcv(e, answer) = Result(late, "provider", late)
        BY <1>4 DEF RefreshOhlcv, Whole
    <2> HIDE DEF grade
    <2>3. late = [grade |-> grade, edition |-> edition - 1, age |-> 1, intact |-> TRUE]
        BY <1>2, <2>1, LateIs
    <2> HIDE DEF m, late
    <2>4. late \in Entry /\ late # Nothing
        BY <1>2, <2>1, <2>3 DEF Entry, Nothing
    <2>5. Known(late) /\ Dated(late) /\ Good(late)
        BY <1>2, <2>1, <2>3, <2>4 DEF Known, Dated, Good, Compatible
    <2> QED BY <2>2, <2>4, <2>5 DEF Answered, Result, Origin
<1>5. CASE answer = "failed"
    BY <1>5, StandInAnswers, EmptyAnswers DEF RefreshOhlcv, Whole
<1> QED BY <1>1, <1>3, <1>4, <1>5 DEF Whole

LEMMA StatementAnswers ==
    ASSUME TypeOK, NEW e, ReadOk(e), family = "FUNDAMENTAL", NEW answer \in Answers(e)
    PROVE  Answered(RefreshFundamental(e, answer), e)
<1>1. answer \in {"full", "partial", "failed"}
    BY OtherAnswers DEF Answers
<1>2. CASE answer # "failed"
    BY <1>1, <1>2, RefreshedAnswers DEF RefreshFundamental, Whole, Grade
<1>3. CASE answer = "failed"
    BY <1>3, StandInAnswers, RememberedAnswers, EmptyAnswers DEF RefreshFundamental
<1> QED BY <1>2, <1>3

LEMMA ReportAnswers ==
    ASSUME TypeOK, NEW e, ReadOk(e), family = "IDX_FUNDAMENTAL", NEW answer \in Answers(e)
    PROVE  Answered(RefreshIdx(e, answer), e)
<1>1. answer \in {"full", "partial", "thin"} /\ ~ByDay
    BY OtherAnswers DEF Answers, ByDay
<1>2. CASE answer # "thin"
    BY <1>1, <1>2, RefreshedAnswers DEF RefreshIdx, Whole, Grade
<1>3. CASE answer = "thin"
    <2> DEFINE old == IF memory THEN Remembered ELSE Empty
               m == Made("thin", edition)
    <2>1. Answered(old, e)
        BY RememberedAnswers, EmptyAnswers
    <2>2. m \in Entry /\ Known(m) /\ Dated(m) /\ Good(m) /\ m # Nothing
        <3>1. edition \in 0..edition
            BY SourceCacheAssumption DEF TypeOK
        <3> QED BY <1>1, <3>1, MadeIs DEF Grade, Good
    <2>3. RefreshIdx(e, answer) = [old EXCEPT !.write = m]
        BY <1>3 DEF RefreshIdx
    <2> HIDE DEF old, m
    <2>4. [old EXCEPT !.write = m] = [held |-> old.held, from |-> old.from, write |-> m]
        BY <2>1 DEF Answered
    <2> QED BY <2>1, <2>2, <2>3, <2>4 DEF Answered
<1> QED BY <1>2, <1>3

LEMMA NewsAnswers ==
    ASSUME TypeOK, NEW e, ReadOk(e), family \in {"NEWS", "FORWARD_RESEARCH"}, NEW answer \in Answers(e)
    PROVE  Answered(RefreshNews(e, answer), e)
<1>1. answer \in {"full", "thin", "failed"} /\ ~ByDay
    BY OtherAnswers DEF Answers, ByDay
<1>2. CASE answer = "full"
    BY <1>1, <1>2, RefreshedAnswers DEF RefreshNews, Grade
<1>3. CASE answer # "full" /\ e.grade = "full"
    <2> DEFINE young == [e EXCEPT !.age = 0]
    <2>1. young = [grade |-> e.grade, edition |-> e.edition, age |-> 0, intact |-> e.intact]
        BY DEF ReadOk, Entry
    <2>2. young \in Entry /\ young # Nothing /\ Known(young) /\ Dated(young) /\ Good(young)
        BY <1>1, <1>3, <2>1 DEF ReadOk, Entry, Nothing, Known, Grade, Dated, Good, Compatible
    <2>3. RefreshNews(e, answer) = Result(young, "provider", young)
        BY <1>3 DEF RefreshNews
    <2> HIDE DEF young
    <2> QED BY <2>2, <2>3 DEF Answered, Result, Origin
<1>4. CASE answer = "thin" /\ e.grade # "full"
    BY <1>1, <1>4, RefreshedAnswers DEF RefreshNews, Grade
<1>5. CASE answer = "failed" /\ e.grade # "full"
    BY <1>5, EmptyAnswers DEF RefreshNews
<1> QED BY <1>1, <1>2, <1>3, <1>4, <1>5

\* Whatever the row and the provider, a chunk gets an answer of this kind.
LEMMA GetsAnswered ==
    ASSUME TypeOK, NEW e, ReadOk(e), NEW got \in Gets(e)
    PROVE  Answered(got, e)
<1>1. CASE got = Result(e, "cache", Nothing) /\ Hit(e)
    BY <1>1, ReadAnswers DEF Hit
<1>2. CASE got \in FromShared(Shareable)
    BY <1>2, SharedAnswers DEF Shareable
<1>3. CASE got \in FromVendors
    BY <1>3, RefreshedAnswers DEF FromVendors, Whole, Grade
<1>4. ASSUME NEW answer \in Answers(e), got = Refresh(e, answer)
      PROVE  Answered(got, e)
    <2>1. CASE family = "OHLCV"
        BY <1>4, <2>1, OhlcvAnswers DEF Refresh
    <2>2. CASE family = "MARKET_FEATURES"
        BY <1>4, <2>2, RefreshedAnswers, EmptyAnswers DEF Refresh, RefreshFeatures, Whole, Grade
    <2>3. CASE family = "KSEI"
        <3>1. answer \in Grade /\ ~ByDay
            BY <2>3, OtherAnswers DEF Answers, Grade, ByDay
        <3> QED BY <1>4, <2>3, <3>1, RefreshedAnswers DEF Refresh, RefreshKsei
    <2>4. CASE family = "FUNDAMENTAL"
        BY <1>4, <2>4, StatementAnswers DEF Refresh
    <2>5. CASE family = "IDX_FUNDAMENTAL"
        BY <1>4, <2>5, ReportAnswers DEF Refresh
    <2>6. CASE family \in {"NEWS", "FORWARD_RESEARCH"}
        BY <1>4, <2>6, NewsAnswers DEF Refresh
    <2> QED BY <2>1, <2>2, <2>3, <2>4, <2>5, <2>6, SourceCacheAssumption DEF TypeOK, Family
<1> QED BY <1>1, <1>2, <1>3, <1>4 DEF Gets

-----------------------------------------------------------------------------
(* Steps.                                                                  *)

\* A step of one scan that goes on as "new" and leaves r as the row: what the others hold
\* on to does not suffer if the row stays and stays good.
LEMMA StepKeeps ==
    ASSUME CacheInv, NEW s \in Scan, NEW new \in Activity, NEW r \in Entry,
           UNCHANGED <<family, edition, memory>>, row' = r, scan' = [scan EXCEPT ![s] = new],
           RowShape(r), ScanShape(new, r),
           row # Nothing => r # Nothing, Good(row) => Good(r)
    PROVE  CacheInv'
<1>1. TypeOK'
    BY DEF CacheInv, TypeOK, Activity
<1>2. RowShape(row)'
    BY DEF RowShape, Known, Dated, ByDay
<1>3. ASSUME NEW t \in Scan PROVE ScanShape(scan[t], row)'
    <2>1. ScanShape(scan'[t], r)
        <3>1. CASE t = s
            BY <3>1 DEF CacheInv, TypeOK
        <3>2. CASE t # s
            <4>1. scan'[t] = scan[t] /\ ScanShape(scan[t], row)
                BY <3>2 DEF CacheInv, TypeOK
            <4> QED BY <4>1 DEF ScanShape
        <3> QED BY <3>1, <3>2
    <2> QED BY <2>1 DEF ScanShape, Known, Dated, Good, Compatible, ByDay
<1> QED BY <1>1, <1>2, <1>3 DEF CacheInv

\* Where only the place changes, the rest is as it was.
Moved(x, place) == [at |-> place, held |-> x.held, from |-> x.from, write |-> x.write]

LEMMA GoIs ==
    ASSUME TypeOK, NEW s \in Scan, NEW place, Go(s, place)
    PROVE  scan' = [scan EXCEPT ![s] = Moved(scan[s], place)] /\ (place \in Places => Moved(scan[s], place) \in Activity)
<1>1. scan \in [Scan -> Activity]
    BY DEF TypeOK, Activity
<1>2. scan' = [scan EXCEPT ![s] = [scan[s] EXCEPT !.at = place]]
    BY DEF Go
<1>3. \A x \in Activity : [x EXCEPT !.at = place] = Moved(x, place)
    BY DEF Activity, Moved
<1>4. \A x \in Activity : place \in Places => Moved(x, place) \in Activity
    BY DEF Activity, Moved
<1> QED BY <1>1, <1>2, <1>3, <1>4

\* A step that leaves the row alone.
LEMMA StayKeeps ==
    ASSUME CacheInv, NEW s \in Scan, NEW new \in Activity, UNCHANGED <<family, row, edition, memory>>,
           scan' = [scan EXCEPT ![s] = new], ScanShape(new, row)
    PROVE  CacheInv'
<1>1. row \in Entry /\ RowShape(row)
    BY DEF CacheInv, TypeOK
<1> QED BY <1>1, StepKeeps

LEMMA PauseKeeps ==
    ASSUME CacheInv, NEW s \in Scan, NEW r \in Entry, Pause(s), UNCHANGED <<family, edition, memory>>, row' = r,
           RowShape(r), row # Nothing => r # Nothing, Good(row) => Good(r)
    PROVE  CacheInv'
<1> DEFINE new == [at |-> "paused", held |-> Nothing, from |-> "none", write |-> Nothing]
<1>1. [Rested EXCEPT !.at = "paused"] = new
    <2> DEFINE at == "paused"
    <2> HIDE DEF at
    <2>1. \A x \in Activity : [x EXCEPT !.at = at] = Moved(x, at)
        BY DEF Activity, Moved
    <2>2. Rested \in Activity
        BY NothingIs DEF Rested, Activity, Places, Origin
    <2>3. [Rested EXCEPT !.at = at] = Moved(Rested, at)
        BY <2>1, <2>2
    <2> QED BY <2>3 DEF Moved, Rested, at
<1>2. new \in Activity /\ ScanShape(new, r)
    BY NothingIs DEF Activity, ScanShape, Places, Origin
<1>3. scan' = [scan EXCEPT ![s] = new]
    BY <1>1 DEF Pause
<1> HIDE DEF new
<1> QED BY <1>2, <1>3, StepKeeps

LEMMA StartKeeps == ASSUME CacheInv, NEW s \in Scan, Start(s) PROVE CacheInv'
<1> DEFINE place == IF family = "FORWARD_RESEARCH" THEN "processed" ELSE "fetch"
           new == Moved(scan[s], place)
<1>1. TypeOK /\ place \in Places /\ ScanShape(scan[s], row) /\ scan[s].at = "idle"
    BY DEF CacheInv, Start, Places, At
<1>2. scan' = [scan EXCEPT ![s] = new] /\ new \in Activity
    BY <1>1, GoIs DEF Start
<1>3. ScanShape(new, row)
    BY <1>1 DEF ScanShape, Moved
<1> HIDE DEF new
<1> QED BY <1>2, <1>3, StayKeeps DEF Start

LEMMA ResumeKeeps == ASSUME CacheInv, NEW s \in Scan, Resume(s) PROVE CacheInv'
<1> DEFINE new == Moved(scan[s], "fetch")
<1>1. TypeOK /\ "fetch" \in Places /\ ScanShape(scan[s], row) /\ scan[s].at = "paused"
    BY DEF CacheInv, Resume, Places, At
<1>2. scan' = [scan EXCEPT ![s] = new] /\ new \in Activity
    BY <1>1, GoIs DEF Resume
<1>3. ScanShape(new, row)
    BY <1>1 DEF ScanShape, Moved
<1> HIDE DEF new
<1> QED BY <1>2, <1>3, StayKeeps DEF Resume

LEMMA DieKeeps == ASSUME CacheInv, NEW s \in Scan, Die(s) PROVE CacheInv'
    BY PauseKeeps DEF Die, CacheInv, TypeOK

LEMMA RestKeeps == ASSUME CacheInv, NEW s \in Scan, Rest(s) PROVE CacheInv'
<1>1. scan' = [scan EXCEPT ![s] = Rested]
    BY DEF Rest
<1>2. Rested \in Activity /\ ScanShape(Rested, row)
    BY NothingIs DEF Rested, Activity, ScanShape, Places, Origin
<1> QED BY <1>1, <1>2, StayKeeps DEF Rest

\* What is processed without a write was good when it was read.
LEMMA FetchKeeps ==
    ASSUME CacheInv, NEW s \in Scan, NEW readable \in BOOLEAN, Fetch(s, readable)
    PROVE  CacheInv'
<1> DEFINE e == IF readable THEN Read(row) ELSE Nothing
<1>1. TypeOK /\ row \in Entry /\ Known(row) /\ Dated(row)
    BY DEF CacheInv, TypeOK, RowShape
<1>2. ReadOk(e) /\ (Good(e) => Good(row))
    BY <1>1, ReadIs, NothingIs DEF ReadOk, Good
<1>3. PICK got \in Gets(e) :
        scan' = [scan EXCEPT ![s] =
                   [at |-> CASE got.write = Nothing -> "processed"
                             [] WouldBeGuarded(got.write) -> "guard"
                             [] OTHER -> "write",
                    held |-> got.held, from |-> got.from, write |-> got.write]]
    BY DEF Fetch
<1> HIDE DEF e
<1>4. Answered(got, e)
    BY <1>1, <1>2, GetsAnswered
<1> DEFINE place == CASE got.write = Nothing -> "processed"
                      [] WouldBeGuarded(got.write) -> "guard"
                      [] OTHER -> "write"
           new == [at |-> place, held |-> got.held, from |-> got.from, write |-> got.write]
<1>5. place \in {"processed", "guard", "write"} /\ (place = "processed" <=> got.write = Nothing)
      /\ (place = "guard" => family = "KSEI")
    <2>1. CASE got.write = Nothing
        <3>1. place = "processed"
            BY <2>1 DEF WouldBeGuarded, Nothing
        <3> QED BY <2>1, <3>1
    <2>2. CASE got.write # Nothing /\ WouldBeGuarded(got.write)
        <3>1. place = "guard"
            BY <2>2
        <3> QED BY <2>2, <3>1 DEF WouldBeGuarded
    <2>3. CASE got.write # Nothing /\ ~WouldBeGuarded(got.write)
        <3>1. place = "write"
            BY <2>3
        <3> QED BY <2>3, <3>1
    <2> QED BY <2>1, <2>2, <2>3
<1>6. scan' = [scan EXCEPT ![s] = new]
    BY <1>3
<1> HIDE DEF place
<1>7. new \in Activity
    BY <1>4, <1>5 DEF Answered, Activity, Places
<1>8. ScanShape(new, row)
    BY <1>2, <1>4, <1>5 DEF Answered, ScanShape
<1> HIDE DEF new
<1> QED BY <1>6, <1>7, <1>8, StayKeeps DEF Fetch

LEMMA GuardKeeps ==
    ASSUME CacheInv, NEW s \in Scan, NEW readable \in BOOLEAN, Guard(s, readable)
    PROVE  CacheInv'
<1> DEFINE e == IF readable THEN Intact(row) ELSE Nothing
<1>1. TypeOK /\ row \in Entry /\ Known(row) /\ Dated(row) /\ ScanShape(scan[s], row) /\ scan[s].at = "guard"
    BY DEF CacheInv, TypeOK, RowShape, Guard, At
<1>2. CASE e # Nothing
    <2> DEFINE new == [at |-> "processed", held |-> e, from |-> "cache", write |-> Nothing]
    <2>1. scan' = [scan EXCEPT ![s] = new]
        BY <1>2 DEF Guard
    <2>2. e = row /\ row.intact
        BY <1>1, <1>2, ReadIs
    <2>3. Good(row)
        BY <1>1, <1>2, <2>2 DEF Good, Compatible, ScanShape
    <2>4. new \in Activity /\ ScanShape(new, row)
        BY <1>1, <1>2, <2>2, <2>3, NothingIs DEF Activity, ScanShape, Places, Origin
    <2> HIDE DEF new
    <2> QED BY <2>1, <2>4, StayKeeps DEF Guard
<1>3. CASE e = Nothing
    <2> DEFINE new == Moved(scan[s], "write")
    <2>1. Go(s, "write") /\ "write" \in Places
        BY <1>3 DEF Guard, Places
    <2>2. scan' = [scan EXCEPT ![s] = new] /\ new \in Activity
        BY <1>1, <2>1, GoIs
    <2>3. ScanShape(new, row)
        BY <1>1 DEF ScanShape, Moved
    <2> HIDE DEF new
    <2> QED BY <2>2, <2>3, StayKeeps DEF Guard
<1> QED BY <1>2, <1>3

\* The database keeps a row of KSEI or takes what is written.
LEMMA StoredIs ==
    ASSUME TypeOK, RowShape(row), NEW e \in Entry, Known(e), Dated(e), Good(e)
    PROVE  /\ Stored(e) \in Entry /\ RowShape(Stored(e)) /\ Stored(e) # Nothing
           /\ Good(row) => Good(Stored(e))
           /\ family # "KSEI" => Good(Stored(e))
    BY DEF Stored, RowShape, Good, TypeOK

LEMMA WriteKeeps ==
    ASSUME CacheInv, NEW s \in Scan, NEW outcome \in Outcome, Write(s, outcome)
    PROVE  CacheInv'
<1> DEFINE w == scan[s].write
           r == IF outcome = "refused" THEN row ELSE Stored(w)
<1>1. /\ TypeOK /\ RowShape(row) /\ row \in Entry /\ ScanShape(scan[s], row) /\ w \in Entry
      /\ scan[s].at \in {"write", "rewrite"}
    BY DEF CacheInv, TypeOK, Write
<1>2. Known(w) /\ Dated(w) /\ Good(w)
    BY <1>1 DEF ScanShape
<1>3. /\ Stored(w) \in Entry /\ RowShape(Stored(w)) /\ Stored(w) # Nothing
      /\ Good(row) => Good(Stored(w))
      /\ family # "KSEI" => Good(Stored(w))
    <2> HIDE DEF w
    <2> QED BY <1>1, <1>2, StoredIs
<1>4. row' = r /\ UNCHANGED <<family, edition, memory>>
    BY DEF Write
<1>5. r \in Entry /\ RowShape(r) /\ (row # Nothing => r # Nothing) /\ (Good(row) => Good(r))
    BY <1>1, <1>3
<1> HIDE DEF r
<1>6. CASE outcome = "ok"
    <2> DEFINE place == IF At(s, "write") THEN "verify" ELSE "recheck"
               new == Moved(scan[s], place)
    <2>1. Go(s, place) /\ place \in Places /\ place \in {"verify", "recheck"}
        BY <1>6 DEF Write, Places
    <2>2. scan' = [scan EXCEPT ![s] = new] /\ new \in Activity
        BY <1>1, <2>1, GoIs
    <2>3. r # Nothing /\ (family # "KSEI" => Good(r))
        BY <1>3, <1>6 DEF r
    <2> HIDE DEF place
    <2>4. ScanShape(new, r)
        BY <1>1, <2>1, <2>3 DEF ScanShape, Moved
    <2> HIDE DEF new
    <2> QED BY <1>4, <1>5, <2>2, <2>4, StepKeeps
<1>7. CASE outcome # "ok"
    <2>1. Pause(s)
        BY <1>7 DEF Write
    <2> QED BY <1>4, <1>5, <2>1, PauseKeeps
<1> QED BY <1>6, <1>7

LEMMA VerifyKeeps ==
    ASSUME CacheInv, NEW s \in Scan, NEW readable \in BOOLEAN, Verify(s, readable)
    PROVE  CacheInv'
<1>1. /\ TypeOK /\ RowShape(row) /\ row \in Entry /\ ScanShape(scan[s], row) /\ scan[s] \in Activity
      /\ scan[s].at \in {"verify", "recheck"} /\ UNCHANGED <<family, row, edition, memory>>
    BY DEF CacheInv, TypeOK, Activity, Verify
<1>2. CASE readable /\ SameHash(row, scan[s].write)
    <2> DEFINE new == [at |-> "processed", held |-> scan[s].held, from |-> scan[s].from, write |-> Nothing]
    <2>1. scan' = [scan EXCEPT ![s] = new]
        <3>1. scan' = [scan EXCEPT ![s].at = "processed", ![s].write = Nothing]
            BY <1>2 DEF Verify
        <3>2. scan \in [Scan -> Activity]
            BY <1>1 DEF TypeOK, Activity
        <3> DEFINE first == [scan EXCEPT ![s] = [scan[s] EXCEPT !.at = "processed"]]
        <3>3. scan' = [first EXCEPT ![s] = [first[s] EXCEPT !.write = Nothing]]
            BY <3>1
        <3>4. [scan[s] EXCEPT !.at = "processed"] = Moved(scan[s], "processed") /\ Moved(scan[s], "processed") \in Activity
            BY <1>1 DEF Activity, Moved, Places
        <3>5. \A x \in Activity : [x EXCEPT !.write = Nothing] = [at |-> x.at, held |-> x.held, from |-> x.from, write |-> Nothing]
            BY DEF Activity
        <3>6. first = [scan EXCEPT ![s] = Moved(scan[s], "processed")] /\ first[s] = Moved(scan[s], "processed")
            BY <3>2, <3>4
        <3> HIDE DEF first
        <3>7. scan' = [first EXCEPT ![s] = new]
            BY <3>3, <3>4, <3>5, <3>6 DEF Moved
        <3> HIDE DEF new
        <3> QED BY <3>2, <3>6, <3>7
    <2>2. Good(row)
        BY <1>1, <1>2 DEF ScanShape, SameHash, RowShape, Good, ByDay, Compatible
    <2>3. new \in Activity /\ ScanShape(new, row)
        BY <1>1, <2>2, NothingIs DEF Activity, ScanShape, Places
    <2> HIDE DEF new
    <2> QED BY <1>1, <2>1, <2>3, StayKeeps
<1>3. CASE Retry(s)
    <2> DEFINE new == Moved(scan[s], "rewrite")
    <2>1. Go(s, "rewrite") /\ "rewrite" \in Places
        BY <1>3 DEF Retry, Places
    <2>2. scan' = [scan EXCEPT ![s] = new] /\ new \in Activity
        BY <1>1, <2>1, GoIs
    <2>3. ScanShape(new, row)
        BY <1>1 DEF ScanShape, Moved
    <2> HIDE DEF new
    <2> QED BY <1>1, <2>2, <2>3, StayKeeps
<1>4. CASE Pause(s)
    BY <1>1, <1>4, PauseKeeps
<1> QED BY <1>2, <1>3, <1>4 DEF Verify

\* What FINALIZE loads is of no consequence but for features it makes again.
LEMMA LoadKeeps ==
    ASSUME CacheInv, NEW s \in Scan, NEW readable \in BOOLEAN, Load(s, readable)
    PROVE  CacheInv'
<1>1. /\ TypeOK /\ RowShape(row) /\ row \in Entry /\ edition \in 0..edition
      /\ memory => family \in {"FUNDAMENTAL", "IDX_FUNDAMENTAL"}
      /\ UNCHANGED <<family, edition, memory>>
    BY SourceCacheAssumption DEF CacheInv, TypeOK, Load
<1>2. ASSUME NEW held \in Entry, NEW from \in Origin, Known(held), Dated(held), from # "none" => held # Nothing,
             from = "memory" => family \in {"FUNDAMENTAL", "IDX_FUNDAMENTAL"},
             NEW r \in Entry, RowShape(r), row # Nothing => r # Nothing, Good(row) => Good(r), row' = r,
             scan' = [scan EXCEPT ![s] = [at |-> "loaded", held |-> held, from |-> from, write |-> Nothing]]
      PROVE  CacheInv'
    <2> DEFINE new == [at |-> "loaded", held |-> held, from |-> from, write |-> Nothing]
    <2>1. new \in Activity /\ ScanShape(new, r)
        BY <1>2, NothingIs DEF Activity, ScanShape, Places
    <2>2. scan' = [scan EXCEPT ![s] = new]
        BY <1>2
    <2> HIDE DEF new
    <2> QED BY <1>1, <1>2, <2>1, <2>2, StepKeeps
<1>3. CASE /\ readable /\ Loadable(row)
           /\ scan' = [scan EXCEPT ![s] = [at |-> "loaded", held |-> row, from |-> "cache", write |-> Nothing]]
           /\ UNCHANGED row
    BY <1>1, <1>2, <1>3 DEF Loadable, RowShape, Origin
<1>4. ASSUME NEW e, NEW got \in IF MemoryLoads(e) THEN {Remembered} ELSE StandingIn, UNCHANGED row,
             scan' = [scan EXCEPT ![s] = [at |-> "loaded", held |-> got.held, from |-> got.from, write |-> Nothing]]
      PROVE  CacheInv'
    <2>1. Answered(got, e)
        <3>1. CASE MemoryLoads(e)
            BY <1>1, <1>4, <3>1, RememberedAnswers DEF MemoryLoads
        <3>2. CASE ~MemoryLoads(e)
            BY <1>1, <1>4, <3>2, SharedAnswers, EmptyAnswers DEF StandingIn
        <3> QED BY <3>1, <3>2
    <2> QED BY <1>1, <1>2, <1>4, <2>1 DEF Answered
<1>5. CASE /\ family = "MARKET_FEATURES"
           /\ scan' = [scan EXCEPT ![s] = [at |-> "loaded", held |-> Made("full", edition),
                                           from |-> "provider", write |-> Nothing]]
           /\ row' \in {row, Made("full", edition)}
    <2> DEFINE m == Made("full", edition)
    <2>1. m \in Entry /\ Known(m) /\ Dated(m) /\ Good(m)
        BY <1>1, <1>5, MadeIs DEF Grade, Whole
    <2>2. m # Nothing /\ RowShape(m)
        BY <2>1 DEF Good, RowShape
    <2>3. scan' = [scan EXCEPT ![s] = [at |-> "loaded", held |-> m, from |-> "provider", write |-> Nothing]] /\ row' \in {row, m}
        BY <1>5
    <2> HIDE DEF m
    <2> QED BY <1>1, <1>2, <2>1, <2>2, <2>3 DEF Origin
<1>6. CASE \E got \in IF MemoryLoads(IF readable THEN row ELSE Nothing) THEN {Remembered} ELSE StandingIn :
             /\ scan' = [scan EXCEPT ![s] = [at |-> "loaded", held |-> got.held, from |-> got.from, write |-> Nothing]]
             /\ UNCHANGED row
    BY <1>4, <1>6
<1> QED BY <1>3, <1>5, <1>6 DEF Load

LEMMA LookKeeps ==
    ASSUME CacheInv, NEW s \in Scan, NEW next \in {"look", "loaded"}, family = "FORWARD_RESEARCH",
           NEW readable \in BOOLEAN, NEW written \in BOOLEAN, Look(s, next, readable, written)
    PROVE  CacheInv'
<1> DEFINE e == IF readable THEN Intact(row) ELSE Nothing
<1>1. /\ TypeOK /\ RowShape(row) /\ row \in Entry /\ edition \in 0..edition /\ ~ByDay
      /\ UNCHANGED <<family, edition, memory>>
    BY SourceCacheAssumption DEF CacheInv, TypeOK, Look, ByDay
<1>2. ASSUME NEW held \in Entry, NEW from \in {"cache", "provider"}, Known(held), Dated(held), held # Nothing,
             NEW r \in Entry, RowShape(r), row # Nothing => r # Nothing, Good(row) => Good(r), row' = r,
             scan' = [scan EXCEPT ![s] = [at |-> next, held |-> held, from |-> from, write |-> Nothing]]
      PROVE  CacheInv'
    <2> DEFINE new == [at |-> next, held |-> held, from |-> from, write |-> Nothing]
    <2>1. new \in Activity /\ ScanShape(new, r)
        BY <1>2, NothingIs DEF Activity, ScanShape, Places, Origin
    <2>2. scan' = [scan EXCEPT ![s] = new]
        BY <1>2
    <2> HIDE DEF new
    <2> QED BY <1>1, <1>2, <2>1, <2>2, StepKeeps
<1>3. CASE e # Nothing /\ e.age = 0
    <2>1. e = row /\ Known(row) /\ Dated(row)
        BY <1>1, <1>3, ReadIs DEF RowShape
    <2>2. scan' = [scan EXCEPT ![s] = [at |-> next, held |-> e, from |-> "cache", write |-> Nothing]] /\ row' = row
        BY <1>3 DEF Look
    <2> HIDE DEF e
    <2> QED BY <1>1, <1>2, <1>3, <2>1, <2>2
<1>4. CASE ~(e # Nothing /\ e.age = 0)
    <2>1. PICK grade \in Forward :
            /\ scan' = [scan EXCEPT ![s] = [at |-> next, held |-> Made(grade, edition),
                                            from |-> "provider", write |-> Nothing]]
            /\ row' = IF written THEN Made(grade, edition) ELSE row
        BY <1>4 DEF Look
    <2> DEFINE m == Made(grade, edition)
    <2>2. m \in Entry /\ Known(m) /\ Dated(m) /\ Good(m)
        BY <1>1, OtherAnswers, MadeIs DEF Grade
    <2>3. m # Nothing /\ RowShape(m)
        BY <2>2 DEF Good, RowShape
    <2>4. scan' = [scan EXCEPT ![s] = [at |-> next, held |-> m, from |-> "provider", write |-> Nothing]] /\ row' \in {row, m}
        BY <2>1
    <2> HIDE DEF m
    <2> QED BY <1>1, <1>2, <2>2, <2>3, <2>4
<1> QED BY <1>3, <1>4

LEMMA LooksKeep ==
    ASSUME CacheInv, NEW s \in Scan, NEW readable \in BOOLEAN, NEW written \in BOOLEAN,
           LookByName(s, readable, written) \/ LookByTicker(s, readable, written)
    PROVE  CacheInv'
<1>1. CASE LookByName(s, readable, written)
    BY <1>1, LookKeeps DEF LookByName
<1>2. CASE LookByTicker(s, readable, written)
    <2>1. family = "FORWARD_RESEARCH"
        BY <1>2 DEF LookByTicker, At, CacheInv, ScanShape
    <2> QED BY <1>2, <2>1, LookKeeps DEF LookByTicker
<1> QED BY <1>1, <1>2

\* Age tells nothing of what an entry is.
LEMMA AgedIs ==
    ASSUME TypeOK, NEW e \in Entry, Known(e)
    PROVE  /\ Aged(e) \in Entry /\ Known(Aged(e)) /\ (Aged(e) = Nothing <=> e = Nothing)
           /\ Aged(e).edition = e.edition /\ Aged(e).intact = e.intact /\ Aged(e).grade = e.grade
           /\ e # Nothing => Aged(e).age > 0
<1> DEFINE age == IF e = Nothing \/ e.age = 2 THEN e.age ELSE e.age + 1
<1>1. Aged(e) = [grade |-> e.grade, edition |-> e.edition, age |-> age, intact |-> e.intact]
    <2>1. Aged(e) = [e EXCEPT !.age = age]
        BY DEF Aged
    <2> HIDE DEF age
    <2> QED BY <2>1, AgeIs
<1>2. age \in 0..2 /\ (e # Nothing => age > 0) /\ (e = Nothing => age = 0)
    BY DEF Entry, Nothing
<1> HIDE DEF age
<1>3. Aged(e) \in Entry
    BY <1>1, <1>2 DEF Entry
<1>4. Aged(e) = Nothing <=> e = Nothing
    <2>1. CASE e = Nothing
        BY <1>1, <1>2, <2>1 DEF Nothing
    <2>2. CASE e # Nothing
        <3>1. Aged(e).age # Nothing.age
            BY <1>1, <1>2, <2>2 DEF Nothing
        <3> QED BY <2>2, <3>1
    <2> QED BY <2>1, <2>2
<1> QED BY <1>1, <1>2, <1>3, <1>4 DEF Known

\* An entry that grew older while the source changed is dated.
LEMMA AgedDated ==
    ASSUME TypeOK, NEW e \in Entry, Known(e), Dated(e), edition' = edition + 1, family' = family
    PROVE  (ByDay /\ Aged(e) # Nothing =>
               Aged(e).grade \in Whole /\ Aged(e).edition <= edition' /\ (Aged(e).age = 0 <=> Aged(e).edition = edition'))
<1>1. edition \in Nat /\ e.edition \in Nat
    BY SourceCacheAssumption DEF TypeOK, Entry
<1> QED BY <1>1, AgedIs DEF Dated

LEMMA BothIs ==
    ASSUME NEW x \in Activity, NEW held, NEW write
    PROVE  [x EXCEPT !.held = held, !.write = write] = [at |-> x.at, held |-> held, from |-> x.from, write |-> write]
<1>1. DOMAIN x = {"at", "held", "from", "write"}
    BY DEF Activity
<1> DEFINE y == [x EXCEPT !.held = held]
<1>2. y = [at |-> x.at, held |-> held, from |-> x.from, write |-> x.write]
    BY DEF Activity
<1>3. [x EXCEPT !.held = held, !.write = write] = [y EXCEPT !.write = write]
    OBVIOUS
<1> HIDE DEF y
<1>4. [y EXCEPT !.write = write] = [at |-> x.at, held |-> held, from |-> x.from, write |-> write]
    BY <1>2
<1> QED BY <1>3, <1>4

LEMMA PassKeeps == ASSUME CacheInv, Pass PROVE CacheInv'
<1>1. /\ TypeOK /\ RowShape(row) /\ row \in Entry /\ scan \in [Scan -> Activity]
      /\ edition' = edition + 1 /\ UNCHANGED <<family, memory>>
    BY DEF CacheInv, TypeOK, Pass, Activity
<1>2. ByDay' = ByDay /\ edition' \in 1..MaxEdition
    <2>1. edition \in 1..MaxEdition /\ MaxEdition \in Nat
        BY SourceCacheAssumption DEF CacheInv, TypeOK
    <2>2. edition < MaxEdition
        BY DEF Pass
    <2> QED BY <1>1, <2>1, <2>2 DEF ByDay
<1>3. CASE ~ByDay /\ UNCHANGED <<row, scan>>
    <2>1. TypeOK' /\ RowShape(row)'
        BY <1>1, <1>2, <1>3 DEF TypeOK, RowShape, Known, Dated
    <2>2. \A s \in Scan : ScanShape(scan[s], row)'
        BY <1>1, <1>2, <1>3 DEF CacheInv, ScanShape, Known, Dated, Good, Compatible
    <2> QED BY <1>1, <2>1, <2>2 DEF CacheInv
<1>4. CASE /\ row' = Aged(row)
           /\ scan' = [s \in Scan |-> [scan[s] EXCEPT !.held = Aged(@), !.write = Aged(@)]]
    <2>1. /\ row' \in Entry /\ Known(row)' /\ (row' = Nothing <=> row = Nothing)
          /\ row'.edition = row.edition /\ row'.intact = row.intact /\ row'.grade = row.grade
        BY <1>1, <1>4, AgedIs DEF RowShape
    <2>2. Dated(row)'
        BY <1>1, <1>2, <1>4, AgedDated DEF RowShape, Dated
    <2>3. RowShape(row)'
        BY <1>1, <1>2, <2>1, <2>2 DEF RowShape
    <2>4. Good(row)' <=> Good(row)
        BY <1>1, <2>1 DEF Good, Compatible
    <2>5. ASSUME NEW s \in Scan PROVE scan'[s] \in Activity /\ ScanShape(scan[s], row)'
        <3>1. scan[s] \in Activity /\ ScanShape(scan[s], row)
            BY <1>1 DEF CacheInv
        <3>2. scan'[s] = [at |-> scan[s].at, held |-> Aged(scan[s].held), from |-> scan[s].from,
                          write |-> Aged(scan[s].write)]
            <4>1. scan'[s] = [scan[s] EXCEPT !.held = Aged(scan[s].held), !.write = Aged(scan[s].write)]
                BY <1>4
            <4> QED BY <3>1, <4>1, BothIs
        <3>3. /\ Aged(scan[s].held) \in Entry /\ Known(Aged(scan[s].held))
              /\ (Aged(scan[s].held) = Nothing <=> scan[s].held = Nothing)
              /\ Aged(scan[s].write) \in Entry /\ Known(Aged(scan[s].write))
              /\ (Aged(scan[s].write) = Nothing <=> scan[s].write = Nothing)
              /\ Aged(scan[s].write).edition = scan[s].write.edition
              /\ Aged(scan[s].write).intact = scan[s].write.intact
              /\ Aged(scan[s].write).grade = scan[s].write.grade
            BY <1>1, <3>1, AgedIs DEF Activity, ScanShape
        <3>4. scan'[s] \in Activity
            BY <3>1, <3>2, <3>3 DEF Activity
        <3>5. Dated(scan[s].held)' /\ Dated(scan[s].write)'
            <4>1. /\ scan[s].held \in Entry /\ Known(scan[s].held) /\ Dated(scan[s].held)
                  /\ scan[s].write \in Entry /\ Known(scan[s].write) /\ Dated(scan[s].write)
                BY <3>1 DEF Activity, ScanShape
            <4>2. scan'[s].held = Aged(scan[s].held) /\ scan'[s].write = Aged(scan[s].write)
                BY <3>2
            <4>3. ASSUME NEW e, NEW late, late = Aged(e), e \in Entry, Known(e), Dated(e)
                  PROVE  ByDay /\ late # Nothing =>
                            late.grade \in Whole /\ late.edition <= edition' /\ (late.age = 0 <=> late.edition = edition')
                BY <1>1, <4>3, AgedDated
            <4> QED BY <1>2, <4>1, <4>2, <4>3 DEF Dated
        <3>6. Good(scan[s].write)' <=> Good(scan[s].write)
            BY <1>1, <3>2, <3>3 DEF Good, Compatible
        <3>7. Known(scan[s].held)' /\ Known(scan[s].write)'
            BY <3>2, <3>3 DEF Known
        <3>8. /\ scan'[s].at = scan[s].at /\ scan'[s].from = scan[s].from
              /\ scan'[s].held = Nothing <=> scan[s].held = Nothing
              /\ scan'[s].write = Nothing <=> scan[s].write = Nothing
              /\ scan'[s].write.edition = scan[s].write.edition
            BY <3>2, <3>3
        <3>9. ScanShape(scan[s], row)'
            BY <1>1, <2>1, <2>4, <3>1, <3>5, <3>6, <3>7, <3>8 DEF ScanShape
        <3> QED BY <3>4, <3>9
    <2>6. TypeOK'
        <3>1. scan' \in [Scan -> Activity]
            BY <1>4, <2>5
        <3> QED BY <1>1, <1>2, <2>1, <3>1 DEF TypeOK, Activity
    <2> QED BY <1>1, <2>3, <2>5, <2>6 DEF CacheInv
<1> QED BY <1>3, <1>4 DEF Pass

-----------------------------------------------------------------------------
(* Theorems.                                                               *)

LEMMA CacheInit == ASSUME Init PROVE CacheInv
<1>1. TypeOK
    BY NothingIs, SourceCacheAssumption DEF Init, TypeOK, Entry, Rested, Places, Origin
<1>2. RowShape(row)
    BY NothingIs DEF Init, RowShape, Known, Dated, Grade, Whole
<1>3. \A s \in Scan : ScanShape(scan[s], row)
    BY NothingIs DEF Init, Rested, ScanShape
<1> QED BY <1>1, <1>2, <1>3 DEF CacheInv, Init

LEMMA CacheStep == ASSUME CacheInv, [Next]_vars PROVE CacheInv'
<1>1. ASSUME NEW s \in Scan, Start(s) \/ Resume(s) \/ Die(s) \/ Rest(s)
      PROVE  CacheInv'
    BY <1>1, StartKeeps, ResumeKeeps, DieKeeps, RestKeeps
<1>2. ASSUME NEW s \in Scan, NEW readable \in BOOLEAN,
             Fetch(s, readable) \/ Guard(s, readable) \/ Verify(s, readable) \/ Load(s, readable)
      PROVE  CacheInv'
    BY <1>2, FetchKeeps, GuardKeeps, VerifyKeeps, LoadKeeps
<1>3. ASSUME NEW s \in Scan, NEW readable \in BOOLEAN, NEW written \in BOOLEAN,
             LookByName(s, readable, written) \/ LookByTicker(s, readable, written)
      PROVE  CacheInv'
    BY <1>3, LooksKeep
<1>4. ASSUME NEW s \in Scan, NEW outcome \in Outcome, Write(s, outcome)
      PROVE  CacheInv'
    BY <1>4, WriteKeeps
<1>5. CASE UNCHANGED vars
    BY <1>5 DEF vars, CacheInv, TypeOK, RowShape, ScanShape, Known, Dated, Good, Compatible, ByDay
<1> QED BY <1>1, <1>2, <1>3, <1>4, <1>5, PassKeeps DEF Next

\* The inductive invariant: every row and every scan of the cache keeps its shape.
THEOREM CacheInvariant == Spec => []CacheInv
<1>1. Init => CacheInv
    BY CacheInit
<1>2. CacheInv /\ [Next]_vars => CacheInv'
    BY CacheStep
<1> QED BY <1>1, <1>2, PTL DEF Spec

\* Type correctness of the cache and of the scans that use it.
THEOREM TypeCorrect == Spec => []TypeOK
<1>1. CacheInv => TypeOK
    BY DEF CacheInv
<1> QED BY <1>1, CacheInvariant, PTL

\* What a stage of a scan has found, FINALIZE finds too (ProcessedIsLoaded), whatever
\* other scans write between the two.
THEOREM WhatIsProcessedLoads == Spec => []ProcessedIsLoaded
<1>1. ASSUME CacheInv, NEW s \in Scan,
             At(s, "processed"), scan[s].from # "none",
             ByDay => scan[s].held.age = 0 /\ row.edition >= scan[s].held.edition,
             family = "FUNDAMENTAL" => scan[s].from # "memory",
             family = "IDX_FUNDAMENTAL" => memory
      PROVE  Loadable(row) \/ MemoryLoads(row)
    <2>1. CASE family = "IDX_FUNDAMENTAL"
        BY <1>1, <2>1 DEF MemoryLoads
    <2>2. CASE family # "IDX_FUNDAMENTAL"
        <3>1. Good(row)
            BY <1>1, <2>2 DEF CacheInv, ScanShape, At
        <3>2. ByDay => row.age = 0
            <4>1. ASSUME ByDay PROVE row.edition = edition
                <5>1. scan[s].held # Nothing /\ scan[s].held.edition = edition
                    BY <1>1, <4>1 DEF CacheInv, ScanShape, Dated
                <5>2. row.edition \in Nat /\ row.edition <= edition /\ edition \in Nat
                    BY <1>1, <3>1, <4>1, SourceCacheAssumption DEF CacheInv, TypeOK, Entry, RowShape, Dated, Good
                <5> QED BY <1>1, <4>1, <5>1, <5>2
            <4> QED BY <1>1, <3>1, <4>1 DEF CacheInv, RowShape, Dated, Good
        <3> QED BY <2>2, <3>1, <3>2 DEF Loadable, Good
    <2> QED BY <2>1, <2>2
<1>2. CacheInv => ProcessedIsLoaded
    BY <1>1 DEF ProcessedIsLoaded
<1> QED BY <1>2, CacheInvariant, PTL

=============================================================================
