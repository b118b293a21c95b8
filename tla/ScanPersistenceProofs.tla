------------------------ MODULE ScanPersistenceProofs ------------------------
(***************************************************************************)
(* What holds of the persistence of scan results for any number of scans,  *)
(* tables, rows and faults, as long as no two finalisations work on one    *)
(* scan: a job that says COMPLETED has exactly its rows, its outcomes are  *)
(* not forgotten, and the persistence implements the one-step commit of    *)
(* ResultCommit.                                                           *)
(*                                                                         *)
(* The invariant follows the rows of one finalisation from the POST that   *)
(* wrote them to the terminal patch: as long as the run is there, every    *)
(* table that is behind it and did not fail holds its rows, and every      *)
(* table that was read back has as many rows as it wrote.  Together the    *)
(* two leave no room for the rows of an earlier attempt.                   *)
(*                                                                         *)
(* A second invariant follows the outcomes of one finalisation.  It says   *)
(* nothing of their owners, which other scans change at any time, and      *)
(* nothing of the count that is read back, which other rows may meet: what *)
(* was posted is remembered because no request deletes an outcome.         *)
(***************************************************************************)
EXTENDS ScanPersistence, FiniteSetTheorems, TLAPS

Working == {"post_run", "post", "post_outcomes", "mark", "read", "read_outcomes", "verdict", "commit"}

FinTyped(x) ==
    /\ x \in FinState
    /\ x.step # "idle" => x.scan \in Scan
    /\ x.step \in Working => x.result \in Result
    /\ x.step = "post" => x.table \in DOMAIN Tables

DbTyped ==
    /\ runs \subseteq Scan /\ newer \subseteq Scan \X Scan
    /\ mark \in [Scan -> Marks]
    /\ rows \in [Scan -> [Table -> [Key -> Result \cup {NoRow}]]]
    /\ jobs \in [Scan -> JobState]

Typed ==
    /\ DbTyped
    /\ fin \in [Finalizer -> FinState]
    /\ \A f \in Finalizer : FinTyped(fin[f])
    /\ faults \in 0..MaxFaults

\* No two script runs are at work on one scan.
Exclusive ==
    \A f, g \in Finalizer :
        f # g /\ fin[f].step # "idle" /\ fin[g].step # "idle" => fin[f].scan # fin[g].scan

\* The first n rows that result r has for table i are stored for scan s.
HasRows(s, i, r, n) ==
    \A k \in DOMAIN Rows[r][Tables[i]] : k <= n => rows[s][Tables[i]][Rows[r][Tables[i]][k]] = r

\* The tables that are behind a finalisation, and those it has read back.
Written == {"post_outcomes", "mark", "read", "read_outcomes", "verdict", "commit"}
Behind(x, i) == (x.step = "post" /\ i < x.table) \/ x.step \in Written
Read(x, i) == (x.step = "read" /\ i < x.table) \/ x.step \in {"read_outcomes", "verdict", "commit"}

StoredBy(x) ==
    /\ \A i \in DOMAIN Tables :
          Behind(x, i) /\ i \notin x.failed => HasRows(x.scan, i, x.result, Len(Rows[x.result][Tables[i]]))
    /\ x.step = "post" => HasRows(x.scan, x.table, x.result, x.offset)

CountedBy(x) ==
    \A i \in DOMAIN Tables :
        Read(x, i) /\ i \notin x.unverified => Count(x.scan, Tables[i]) = Len(Rows[x.result][Tables[i]])

FinSound(x) ==
    x.step \in Working =>
        /\ jobs[x.scan].status \in Finalizable
        /\ Held(x.scan) => StoredBy(x) /\ CountedBy(x)
        /\ x.all => x.failed = {}
        /\ x.step \in {"post_run", "post", "post_outcomes", "mark"} => ~x.all
        /\ x.step = "post_run" => x.offset = 0
        /\ x.step \in {"post_outcomes", "mark"} => x.table = 0

\* The radar has rows for the tickers of the universe alone.
RadarOnly ==
    \A s \in Scan, k \in Key : rows[s][Radar][k] # NoRow => \A r \in Result : k \in Image(Rows[r][Radar])

PersistenceInvariant ==
    /\ Typed /\ Exclusive /\ RadarOnly
    /\ \A f \in Finalizer : FinSound(fin[f])
    /\ FullIsExact /\ CompletedRadar

-----------------------------------------------------------------------------
(* Rows and counts.                                                        *)

LEMMA RowFacts ==
    ASSUME ScanPersistenceAssumption, NEW r \in Result, NEW i \in DOMAIN Tables
    PROVE  /\ Tables[i] \in Table /\ DOMAIN Tables = 1..Len(Tables)
           /\ Rows[r][Tables[i]] \in Seq(Key) /\ Distinct(Rows[r][Tables[i]])
<1>1. Tables \in Seq(STRING) /\ Tables[i] \in Table
  BY DEF ScanPersistenceAssumption, Table
<1> QED
  BY <1>1 DEF ScanPersistenceAssumption

LEMMA TableFacts ==
    ASSUME ScanPersistenceAssumption
    PROVE  /\ Len(Tables) \in Nat \ {0} /\ DOMAIN Tables = 1..Len(Tables)
           /\ 1 \in DOMAIN Tables /\ Radar \in Table
           /\ \A t \in Table : \E i \in DOMAIN Tables : t = Tables[i]
<1>1. Tables \in Seq(STRING) /\ Tables # <<>>
  BY DEF ScanPersistenceAssumption
<1>2. Len(Tables) \in Nat \ {0} /\ DOMAIN Tables = 1..Len(Tables) /\ 1 \in DOMAIN Tables
  BY <1>1
<1> QED
  BY <1>2, Zenon DEF Table, Radar

\* A list without repeats has as many elements as places.
LEMMA CountOfDistinct ==
    ASSUME NEW S, NEW seq \in Seq(S), Distinct(seq)
    PROVE  Cardinality(Image(seq)) = Len(seq) /\ Image(seq) \subseteq S
<1> DEFINE n == Len(seq)
           b == [i \in 1..n |-> seq[i]]
           T == Image(seq)
<1>1. n \in Nat /\ DOMAIN seq = 1..n
  OBVIOUS
<1>2. T = {seq[i] : i \in 1..n} /\ T \subseteq S
  BY <1>1 DEF Image
<1>3. \A i, k \in 1..n : seq[i] = seq[k] => i = k
  BY <1>1 DEF Distinct
<1>4. b \in Bijection(1..n, T)
  <2>1. b \in [1..n -> T]
    BY <1>2
  <2>2. \A i, k \in 1..n : b[i] = b[k] => i = k
    BY <1>3
  <2>3. \A t \in T : \E i \in 1..n : b[i] = t
    BY <1>2
  <2> HIDE DEF b, T, n
  <2> QED
    BY <2>1, <2>2, <2>3 DEF Bijection, Injection, Surjection, IsInjective
<1>5. ExistsBijection(1..n, T)
  <2> HIDE DEF b, T, n
  <2> QED
    BY <1>4 DEF ExistsBijection
<1>6. Cardinality(T) = n
  <2> HIDE DEF T, n
  <2> QED
    BY <1>1, <1>5, FS_CountingElements
<1> QED
  BY <1>2, <1>6

\* A table that holds all rows of a result, and as many rows as the result has, holds no
\* other row.
LEMMA CountIsExact ==
    ASSUME ScanPersistenceAssumption, NEW seq \in Seq(Key), Distinct(seq), NEW r \in Result,
           NEW column \in [Key -> Result \cup {NoRow}],
           \A i \in DOMAIN seq : column[seq[i]] = r,
           Cardinality({k \in Key : column[k] # NoRow}) = Len(seq)
    PROVE  column = [k \in Key |-> IF k \in Image(seq) THEN r ELSE NoRow]
<1> DEFINE T == Image(seq)
           S == {k \in Key : column[k] # NoRow}
<1>1. Cardinality(T) = Len(seq) /\ T \subseteq Key
  BY CountOfDistinct, Zenon
<1>2. \A k \in T : column[k] = r
  <2> SUFFICES ASSUME NEW k \in T PROVE column[k] = r
    OBVIOUS
  <2>1. PICK i \in DOMAIN seq : k = seq[i]
    BY DEF Image
  <2> QED
    BY <2>1
<1>3. T \subseteq S
  <2>1. r # NoRow
    BY DEF ScanPersistenceAssumption
  <2> HIDE DEF T
  <2> QED
    BY <1>1, <1>2, <2>1
<1>4. IsFiniteSet(S)
  <2>1. IsFiniteSet(Key) /\ S \in SUBSET Key
    BY DEF ScanPersistenceAssumption
  <2> HIDE DEF S
  <2> QED
    BY <2>1, FS_Subset
<1>5. S = T
  <2>1. Cardinality(S) = Cardinality(T)
    BY <1>1
  <2> HIDE DEF S, T
  <2> QED
    BY <1>3, <1>4, <2>1, FS_Subset
<1>6. \A k \in Key : column[k] = IF k \in T THEN r ELSE NoRow
  BY <1>2, <1>5
<1> HIDE DEF T
<1>7. column = [k \in Key |-> IF k \in T THEN r ELSE NoRow]
  BY <1>6
<1> QED
  BY <1>7 DEF T

-----------------------------------------------------------------------------
(* What a step may do to a scan it does not work on, and to one that has   *)
(* been published.                                                         *)

Quiet(s) == jobs'[s] = jobs[s] /\ (Held(s)' => Held(s) /\ rows'[s] = rows[s])

Keeps ==
    \A s \in Scan :
        Quiet(s) \/ (jobs[s].status \notin Completed /\ jobs'[s].status \notin Completed)

\* A finalisation whose scan is left alone stays sound.
LEMMA SoundKept ==
    ASSUME NEW x, FinSound(x), Quiet(x.scan)
    PROVE  FinSound(x)'
<1> SUFFICES ASSUME x.step \in Working
             PROVE  /\ jobs'[x.scan].status \in Finalizable
                    /\ Held(x.scan)' => (StoredBy(x) /\ CountedBy(x))'
                    /\ x.all => x.failed = {}
                    /\ x.step \in {"post_run", "post", "post_outcomes", "mark"} => ~x.all
                    /\ x.step = "post_run" => x.offset = 0
                    /\ x.step \in {"post_outcomes", "mark"} => x.table = 0
  BY DEF FinSound
<1>1. /\ jobs'[x.scan].status \in Finalizable
      /\ x.all => x.failed = {}
      /\ x.step \in {"post_run", "post", "post_outcomes", "mark"} => ~x.all
      /\ x.step = "post_run" => x.offset = 0
      /\ x.step \in {"post_outcomes", "mark"} => x.table = 0
  BY DEF FinSound, Quiet
<1>2. ASSUME Held(x.scan)' PROVE (StoredBy(x) /\ CountedBy(x))'
  <2>1. StoredBy(x) /\ CountedBy(x) /\ rows'[x.scan] = rows[x.scan]
    BY <1>2 DEF FinSound, Quiet
  <2>2. \A i, r, n : HasRows(x.scan, i, r, n)' = HasRows(x.scan, i, r, n)
    BY <2>1 DEF HasRows
  <2>3. \A table : Count(x.scan, table)' = Count(x.scan, table)
    BY <2>1 DEF Count
  <2> QED
    BY <2>1, <2>2, <2>3 DEF StoredBy, CountedBy
<1> QED
  BY <1>1, <1>2

\* What has been published stays what it is.
LEMMA CommittedKept ==
    ASSUME FullIsExact, CompletedRadar, Keeps
    PROVE  FullIsExact' /\ CompletedRadar'
<1>1. ASSUME NEW s \in Scan, jobs'[s].status \in Completed, Held(s)'
      PROVE  jobs'[s] = jobs[s] /\ Held(s) /\ rows'[s] = rows[s]
  BY <1>1 DEF Keeps, Quiet
<1>2. "COMPLETED" \in Completed
  BY DEF Completed
<1> QED
  BY <1>1, <1>2 DEF FullIsExact, CompletedRadar, Holds

\* One script run moves, and the others find their scans as they were.
LEMMA ActionKeeps ==
    ASSUME PersistenceInvariant, NEW f \in Finalizer, NEW y, FinTyped(y), fin' = [fin EXCEPT ![f] = y],
           DbTyped', faults' \in 0..MaxFaults,
           \A g \in Finalizer \ {f} : fin[g].step # "idle" =>
              Quiet(fin[g].scan) /\ (y.step # "idle" => fin[g].scan # y.scan),
           RadarOnly', FinSound(y)', FullIsExact', CompletedRadar'
    PROVE  PersistenceInvariant'
<1>1. /\ fin'[f] = y
      /\ \A g \in Finalizer \ {f} : fin'[g] = fin[g]
      /\ fin' \in [Finalizer -> FinState]
  BY DEF PersistenceInvariant, Typed, FinTyped
<1>2. \A g \in Finalizer : FinTyped(fin'[g])
  BY <1>1 DEF PersistenceInvariant, Typed
<1>3. Exclusive'
  BY <1>1 DEF PersistenceInvariant, Exclusive
<1>4. ASSUME NEW g \in Finalizer PROVE FinSound(fin[g])'
  <2>1. PICK x : x = fin'[g]
    OBVIOUS
  <2>2. CASE g = f
    BY <1>1, <2>2
  <2>3. CASE g # f /\ fin[g].step # "idle"
    <3>1. x = fin[g] /\ FinSound(x) /\ Quiet(x.scan)
      BY <1>1, <2>1, <2>3 DEF PersistenceInvariant
    <3>2. FinSound(x)'
      BY <3>1, SoundKept
    <3> QED
      BY <2>1, <3>2
  <2>4. CASE g # f /\ fin[g].step = "idle"
    BY <1>1, <2>4 DEF FinSound, Working
  <2> QED
    BY <2>2, <2>3, <2>4
<1> QED
  BY <1>1, <1>2, <1>3, <1>4 DEF PersistenceInvariant, Typed

\* A step that writes nothing but the script run's state, and perhaps a mark.
LEMMA LocalKeeps ==
    ASSUME PersistenceInvariant, UNCHANGED <<runs, newer, rows, jobs>>, mark' \in [Scan -> Marks]
    PROVE  /\ DbTyped' /\ RadarOnly' /\ Keeps /\ FullIsExact' /\ CompletedRadar'
           /\ \A s : Quiet(s)
<1>1. \A s : Quiet(s)
  BY DEF Quiet, Held
<1>2. Keeps
  BY <1>1 DEF Keeps
<1> QED
  BY <1>1, <1>2, CommittedKept DEF PersistenceInvariant, Typed, DbTyped, RadarOnly

\* An idle script run, and one that only prunes, owe nothing.
LEMMA IdleSound == FinTyped(Idle) /\ ~(Idle.step \in Working) /\ Idle.step = "idle"
  BY DEF Idle, FinTyped, FinState, Steps, Working

-----------------------------------------------------------------------------
(* What each action leaves.                                                *)

Goes == PersistenceInvariant' /\ Keeps

Base == ScanPersistenceAssumption /\ ~Overlap /\ PersistenceInvariant /\ faults' \in 0..MaxFaults

\* The state of a script run, and what it shares with nobody.
LEMMA Own ==
    ASSUME Base, NEW f \in Finalizer
    PROVE  /\ FinTyped(fin[f]) /\ FinSound(fin[f])
           /\ fin[f].step # "idle" =>
                \A g \in Finalizer \ {f} : fin[g].step # "idle" => fin[g].scan # fin[f].scan
BY DEF Base, PersistenceInvariant, Typed, Exclusive

\* A step that writes no row, run or job, and leaves the script run in a sound state.
LEMMA LocalStep ==
    ASSUME Base, NEW f \in Finalizer, NEW y, FinTyped(y), fin' = [fin EXCEPT ![f] = y],
           UNCHANGED <<runs, newer, rows, jobs>>, mark' \in [Scan -> Marks], FinSound(y)',
           y.step # "idle" =>
              \A g \in Finalizer \ {f} : fin[g].step # "idle" => fin[g].scan # y.scan
    PROVE  Goes
<1>1. /\ DbTyped' /\ RadarOnly' /\ Keeps /\ FullIsExact' /\ CompletedRadar'
      /\ \A s : Quiet(s)
  BY LocalKeeps DEF Base
<1>2. PersistenceInvariant'
  BY <1>1, ActionKeeps DEF Base
<1> QED
  BY <1>1, <1>2 DEF Goes

LEMMA BeginGoes == ASSUME Base, NEW f \in Finalizer, Begin(f) PROVE Goes
<1>a. PICK s \in Scan, r \in Result, memory \in BOOLEAN :
         \E outcomes \in SUBSET (Remembered \cup Uploaded[s]) :
           /\ jobs[s].status \in Finalizable
           /\ Overlap \/ \A g \in Finalizer : fin[g].step # "idle" => fin[g].scan # s
           /\ fin' = [fin EXCEPT ![f] = [Idle EXCEPT !.step = "post_run", !.scan = s, !.result = r, !.memory = memory,
                                                     !.outcomes = outcomes, !.pending = outcomes]]
  BY Zenon DEF Begin, Put
<1>1. PICK outcomes \in SUBSET (Remembered \cup Uploaded[s]) :
         /\ jobs[s].status \in Finalizable
         /\ Overlap \/ \A g \in Finalizer : fin[g].step # "idle" => fin[g].scan # s
         /\ fin' = [fin EXCEPT ![f] = [Idle EXCEPT !.step = "post_run", !.scan = s, !.result = r, !.memory = memory,
                                                   !.outcomes = outcomes, !.pending = outcomes]]
  BY <1>a, Zenon
<1> DEFINE y == [Idle EXCEPT !.step = "post_run", !.scan = s, !.result = r, !.memory = memory,
                             !.outcomes = outcomes, !.pending = outcomes]
<1>0. outcomes \in SUBSET Outcome
  BY <1>1 DEF Base, ScanPersistenceAssumption, Remembered
<1>2. /\ y.step = "post_run" /\ y.scan = s /\ y.result = r /\ y.offset = 0 /\ y.all = FALSE
      /\ y \in FinState
  BY <1>0, IdleSound DEF Idle, FinState, Steps, FinTyped
<1> HIDE DEF y
<1>3. FinTyped(y)
  BY <1>2 DEF FinTyped
<1>4. UNCHANGED <<runs, newer, mark, rows, jobs>>
  BY DEF Begin
<1>5. FinSound(y)'
  BY <1>1, <1>2, <1>4 DEF FinSound, StoredBy, CountedBy, Behind, Written, Read
<1>6. \A g \in Finalizer \ {f} : fin[g].step # "idle" => fin[g].scan # y.scan
  BY <1>1, <1>2 DEF Base
<1>7. mark' \in [Scan -> Marks] /\ fin' = [fin EXCEPT ![f] = y]
  BY <1>1, <1>4 DEF Base, PersistenceInvariant, Typed, DbTyped, y
<1> QED
  BY <1>3, <1>4, <1>5, <1>6, <1>7, LocalStep

LEMMA NewJobGoes == ASSUME Base, NEW f \in Finalizer, NewJob(f) PROVE Goes
<1>1. PICK s \in Scan :
         /\ \A g \in Finalizer : fin[g].step # "idle" => fin[g].scan # s
         /\ fin' = [fin EXCEPT ![f] = [Idle EXCEPT !.step = "prune", !.scan = s]]
  BY Zenon DEF NewJob, Put
<1> DEFINE y == [Idle EXCEPT !.step = "prune", !.scan = s]
<1>2. y.step = "prune" /\ y.scan = s /\ y \in FinState
  BY IdleSound DEF Idle, FinState, Steps, FinTyped
<1> HIDE DEF y
<1>3. FinTyped(y) /\ FinSound(y)'
  BY <1>1, <1>2 DEF FinTyped, FinSound, Working
<1>4. UNCHANGED <<runs, newer, mark, rows, jobs>>
  BY DEF NewJob
<1>5. mark' \in [Scan -> Marks] /\ fin' = [fin EXCEPT ![f] = y]
  BY <1>1, <1>4 DEF Base, PersistenceInvariant, Typed, DbTyped, y
<1> QED
  BY <1>1, <1>2, <1>3, <1>4, <1>5, LocalStep

LEMMA CrashGoes == ASSUME Base, NEW f \in Finalizer, Crash(f) PROVE Goes
<1>1. fin' = [fin EXCEPT ![f] = Idle] /\ UNCHANGED <<runs, newer, mark, rows, jobs>>
  BY DEF Crash, End, Put
<1>2. FinTyped(Idle) /\ FinSound(Idle)' /\ Idle.step = "idle"
  BY IdleSound DEF FinSound
<1>3. mark' \in [Scan -> Marks]
  BY <1>1 DEF Base, PersistenceInvariant, Typed, DbTyped
<1> QED
  BY <1>1, <1>2, <1>3, LocalStep

LEMMA PruneListGoes == ASSUME Base, NEW f \in Finalizer, PruneList(f) PROVE Goes
<1>1. PICK x, old : /\ x = fin[f]
                    /\ old = {s \in runs \ {fin[f].scan} :
                                KeepRuns <= Cardinality({q \in runs : <<q, s>> \in newer})}
  OBVIOUS
<1> DEFINE y == [x EXCEPT !.step = "prune_delete", !.old = old]
<1>2. FinTyped(x) /\ x.step = "prune" /\ old \subseteq Scan
  BY <1>1, Own DEF PruneList, Base, PersistenceInvariant, Typed, DbTyped
<1>3. y.step = "prune_delete" /\ y.scan = x.scan /\ y \in FinState
  BY <1>2 DEF FinTyped, FinState, Steps
<1>4. fin' = [fin EXCEPT ![f] = y] /\ UNCHANGED <<runs, newer, mark, rows, jobs>>
  BY <1>1 DEF PruneList, Put
<1> HIDE DEF y
<1>5. FinTyped(y) /\ FinSound(y)'
  BY <1>2, <1>3 DEF FinTyped, FinSound, Working
<1>6. mark' \in [Scan -> Marks]
  BY <1>4 DEF Base, PersistenceInvariant, Typed, DbTyped
<1> QED
  BY <1>1, <1>2, <1>3, <1>4, <1>5, <1>6, Own, LocalStep

\* The row of a scan run appears; the scan is being finalised, so nothing was published.
LEMMA PostRunGoes ==
    ASSUME Base, NEW f \in Finalizer, NEW answer \in Answer, PostRun(f, answer) PROVE Goes
<1>1. PICK x, failed : x = fin[f] /\ failed = IF answer = "ok" THEN {} ELSE {0}
  OBVIOUS
<1> DEFINE y == [x EXCEPT !.step = "post", !.table = 1, !.failed = failed]
<1>2. /\ FinTyped(x) /\ FinSound(x) /\ x.step = "post_run" /\ x.scan \in Scan /\ x.result \in Result
      /\ jobs[x.scan].status \in Finalizable /\ x.offset = 0 /\ ~x.all
  BY <1>1, Own DEF PostRun, FinTyped, FinSound, Working
<1>3. 1 \in 0..Len(Tables) /\ failed \subseteq 0..OutcomeTable /\ 1 \in DOMAIN Tables
  BY <1>1, TableFacts DEF Base, OutcomeTable
<1>4. /\ y.step = "post" /\ y.table = 1 /\ y.offset = 0 /\ y.scan = x.scan /\ y.result = x.result
      /\ ~y.all /\ y \in FinState
  BY <1>2, <1>3 DEF FinTyped, FinState, Steps
<1>5. fin' = [fin EXCEPT ![f] = y] /\ UNCHANGED <<rows, jobs>>
  BY <1>1 DEF PostRun, Put
<1> HIDE DEF y
<1>6. FinTyped(y)
  BY <1>2, <1>3, <1>4 DEF FinTyped
<1>7. /\ DbTyped'
      /\ \A s \in Scan \ {x.scan} : Held(s)' => Held(s)
  <2>1. CASE UpsertRun(x.scan)
    <3>1. \A p \in {<<x.scan, q>> : q \in runs} : p \in Scan \X Scan
      BY <1>2 DEF Base, PersistenceInvariant, Typed, DbTyped
    <3>2. "PERSISTING" \in Marks
      BY DEF Marks
    <3> QED
      BY <1>2, <1>5, <2>1, <3>1, <3>2
         DEF UpsertRun, SetMark, Base, PersistenceInvariant, Typed, DbTyped, Held
  <2>2. CASE UNCHANGED <<runs, newer, mark>>
    BY <1>5, <2>2 DEF Base, PersistenceInvariant, Typed, DbTyped, Held
  <2> QED
    BY <1>1, <2>1, <2>2 DEF PostRun
<1>8. \A s \in Scan \ {x.scan} : Quiet(s)
  BY <1>5, <1>7 DEF Quiet
<1>9. Keeps
  BY <1>2, <1>5, <1>8 DEF Keeps, Finalizable, Completed
<1>10. FullIsExact' /\ CompletedRadar' /\ RadarOnly'
  BY <1>5, <1>9, CommittedKept DEF Base, PersistenceInvariant, RadarOnly
<1>11. FinSound(y)'
  <2>1. \A i \in DOMAIN Tables : ~(i < 1)
    BY TableFacts DEF Base
  <2>2. HasRows(y.scan, y.table, y.result, y.offset)'
    <3>1. \A k \in DOMAIN Rows[y.result][Tables[1]] : ~(k <= 0)
      BY <1>2, <1>3, <1>4, RowFacts DEF Base
    <3> QED
      BY <1>4, <3>1 DEF HasRows
  <2> QED
    BY <1>2, <1>4, <1>5, <2>1, <2>2 DEF FinSound, StoredBy, CountedBy, Behind, Written, Read
<1>12. \A g \in Finalizer \ {f} : fin[g].step # "idle" => fin[g].scan # x.scan /\ fin[g].scan \in Scan
  BY <1>1, <1>2, Own DEF FinTyped
<1>13. \A g \in Finalizer \ {f} : fin[g].step # "idle" =>
          Quiet(fin[g].scan) /\ (y.step # "idle" => fin[g].scan # y.scan)
  BY <1>4, <1>8, <1>12
<1>14. PersistenceInvariant'
  BY <1>5, <1>6, <1>7, <1>10, <1>11, <1>13, ActionKeeps DEF Base
<1> QED
  BY <1>9, <1>14 DEF Goes

\* On to the next table: the one that was left has its rows or has failed.
LEMMA NextTableFields ==
    ASSUME ScanPersistenceAssumption, NEW x, FinTyped(x), x.step = "post",
           NEW failed \in SUBSET (0..OutcomeTable)
    PROVE  LET y == NextTable(x, failed) IN
           /\ FinTyped(y) /\ y.scan = x.scan /\ y.result = x.result /\ y.failed = failed /\ y.all = x.all
           /\ y.offset = 0 /\ y.step \in {"post", "post_outcomes"} /\ (y.step = "post_outcomes" => y.table = 0)
           /\ \A i \in DOMAIN Tables : Behind(y, i) => Behind(x, i) \/ i = x.table
<1>1. PICK step, table : /\ step = IF x.table = Len(Tables) THEN "post_outcomes" ELSE "post"
                         /\ table = IF x.table = Len(Tables) THEN 0 ELSE x.table + 1
  OBVIOUS
<1> DEFINE y == [x EXCEPT !.failed = failed, !.offset = 0, !.step = step, !.table = table]
<1>2. NextTable(x, failed) = y
  BY <1>1 DEF NextTable
<1>3. /\ x \in FinState /\ x.scan \in Scan /\ x.result \in Result /\ x.table \in 1..Len(Tables)
      /\ Len(Tables) \in Nat /\ DOMAIN Tables = 1..Len(Tables)
  BY TableFacts DEF FinTyped, Working
<1>4. step \in {"post", "post_outcomes"} /\ table \in 0..Len(Tables) /\ (step = "post" => table \in 1..Len(Tables))
  BY <1>1, <1>3
<1>5. /\ y \in FinState /\ y.step = step /\ y.table = table /\ y.failed = failed /\ y.offset = 0
      /\ y.scan = x.scan /\ y.result = x.result /\ y.all = x.all
  BY <1>3, <1>4 DEF FinState, Steps
<1> HIDE DEF y
<1>6. FinTyped(y)
  BY <1>3, <1>4, <1>5 DEF FinTyped
<1>7. ASSUME NEW i \in DOMAIN Tables, Behind(y, i) PROVE Behind(x, i) \/ i = x.table
  <2>1. CASE x.table = Len(Tables)
    BY <1>3, <2>1 DEF Behind, Written
  <2>2. CASE x.table # Len(Tables)
    <3>1. y.step = "post" /\ y.table = x.table + 1
      BY <1>1, <1>5, <2>2
    <3>2. i < x.table + 1 /\ i \in Nat
      BY <1>3, <1>7, <3>1 DEF Behind, Written
    <3> QED
      BY <1>3, <3>2 DEF Behind, Written
  <2> QED
    BY <2>1, <2>2
<1>8. y.step = "post_outcomes" => y.table = 0
  BY <1>1, <1>5
<1> QED
  BY <1>2, <1>4, <1>5, <1>6, <1>7, <1>8

LEMMA NextTableSound ==
    ASSUME ScanPersistenceAssumption, NEW x, FinTyped(x), x.step = "post", FinSound(x),
           NEW failed \in SUBSET (0..OutcomeTable), x.failed \subseteq failed,
           UNCHANGED <<runs, jobs>>, Held(x.scan) => StoredBy(x)',
           Held(x.scan) /\ x.table \notin failed =>
              HasRows(x.scan, x.table, x.result, Len(Rows[x.result][Tables[x.table]]))'
    PROVE  FinSound(NextTable(x, failed))'
<1>1. PICK y : y = NextTable(x, failed)
  OBVIOUS
<1>2. /\ FinTyped(y) /\ y.scan = x.scan /\ y.result = x.result /\ y.failed = failed /\ y.all = x.all
      /\ y.offset = 0 /\ y.step \in {"post", "post_outcomes"} /\ (y.step = "post_outcomes" => y.table = 0)
      /\ \A i \in DOMAIN Tables : Behind(y, i) => Behind(x, i) \/ i = x.table
  BY <1>1, NextTableFields
<1>3. jobs'[x.scan].status \in Finalizable /\ ~x.all
  BY DEF FinSound, Working
<1>4. ASSUME Held(x.scan) PROVE StoredBy(y)'
  <2>1. y.step = "post" => HasRows(y.scan, y.table, y.result, y.offset)'
    <3> SUFFICES ASSUME y.step = "post" PROVE HasRows(y.scan, y.table, y.result, y.offset)'
      OBVIOUS
    <3>1. y.table \in DOMAIN Tables /\ y.result \in Result
      BY <1>2 DEF FinTyped, Working
    <3>2. \A k \in DOMAIN Rows[y.result][Tables[y.table]] : ~(k <= y.offset)
      BY <1>2, <3>1, RowFacts
    <3> QED
      BY <3>2 DEF HasRows
  <2>2. ASSUME NEW i \in DOMAIN Tables, Behind(y, i), i \notin failed
        PROVE  HasRows(x.scan, i, x.result, Len(Rows[x.result][Tables[i]]))'
    <3>1. CASE Behind(x, i)
      BY <1>4, <2>2, <3>1 DEF StoredBy
    <3>2. CASE i = x.table
      BY <1>4, <2>2, <3>2
    <3> QED
      BY <1>2, <2>2, <3>1, <3>2
  <2> QED
    BY <1>2, <2>1, <2>2 DEF StoredBy
<1>5. CountedBy(y)'
  BY <1>2 DEF CountedBy, Read
<1>6. FinSound(y)'
  BY <1>2, <1>3, <1>4, <1>5 DEF FinSound, Held
<1> QED
  BY <1>1, <1>6

LEMMA PostNothingGoes == ASSUME Base, NEW f \in Finalizer, PostNothing(f) PROVE Goes
<1>1. PICK x, y : x = fin[f] /\ y = NextTable(x, x.failed)
  OBVIOUS
<1>2. /\ FinTyped(x) /\ FinSound(x) /\ x.step = "post" /\ x.failed \in SUBSET (0..OutcomeTable)
      /\ Rows[x.result][Tables[x.table]] = <<>> /\ x.result \in Result /\ x.table \in DOMAIN Tables
  BY <1>1, Own DEF PostNothing, FinTyped, FinState, Working
<1>3. FinTyped(y) /\ y.scan = x.scan /\ y.step \in {"post", "post_outcomes"}
  BY <1>1, <1>2, NextTableFields DEF Base
<1>4. UNCHANGED <<runs, newer, mark, rows, jobs>> /\ fin' = [fin EXCEPT ![f] = y]
  BY <1>1 DEF PostNothing, Put
<1>5. FinSound(y)'
  <2>1. Held(x.scan) => StoredBy(x)'
    <3>1. Held(x.scan) => StoredBy(x)
      BY <1>2 DEF FinSound, Working
    <3>2. \A i, r, n : HasRows(x.scan, i, r, n)' = HasRows(x.scan, i, r, n)
      BY <1>4 DEF HasRows
    <3> QED
      BY <3>1, <3>2 DEF StoredBy
  <2>2. HasRows(x.scan, x.table, x.result, Len(Rows[x.result][Tables[x.table]]))'
    BY <1>2 DEF HasRows
  <2> QED
    BY <1>1, <1>2, <1>4, <2>1, <2>2, NextTableSound DEF Base
<1>6. mark' \in [Scan -> Marks]
  BY <1>4 DEF Base, PersistenceInvariant, Typed, DbTyped
<1>7. \A g \in Finalizer \ {f} : fin[g].step # "idle" => fin[g].scan # y.scan
  BY <1>1, <1>2, <1>3, Own
<1> QED
  BY <1>3, <1>4, <1>5, <1>6, <1>7, LocalStep

\* A chunk was applied: the rows of other scans and tables are as they were, and no row
\* of the result at hand was lost.
LEMMA ChunkWritten ==
    ASSUME ScanPersistenceAssumption, NEW s \in Scan, NEW j \in DOMAIN Tables, NEW r \in Result,
           NEW chunk \in SUBSET Key, UpsertRows(s, Tables[j], chunk, r),
           rows \in [Scan -> [Table -> [Key -> Result \cup {NoRow}]]]
    PROVE  /\ rows' \in [Scan -> [Table -> [Key -> Result \cup {NoRow}]]]
           /\ \A q \in Scan \ {s} : rows'[q] = rows[q]
           /\ \A t \in Table \ {Tables[j]} : rows'[s][t] = rows[s][t]
           /\ \A k \in Key : rows'[s][Tables[j]][k] = IF k \in chunk THEN r ELSE rows[s][Tables[j]][k]
           /\ \A i \in DOMAIN Tables, n \in Nat : HasRows(s, i, r, n) => HasRows(s, i, r, n)'
<1>1. PICK t : t = Tables[j]
  OBVIOUS
<1>2. t \in Table
  BY <1>1, RowFacts
<1>3. PICK column : column = [k \in Key |-> IF k \in chunk THEN r ELSE rows[s][t][k]]
  OBVIOUS
<1>4. column \in [Key -> Result \cup {NoRow}]
  BY <1>2, <1>3
<1>5. rows' = [rows EXCEPT ![s][t] = column]
  BY <1>1, <1>3 DEF UpsertRows
<1>6. PICK old : old = rows[s]
  OBVIOUS
<1>7. old \in [Table -> [Key -> Result \cup {NoRow}]] /\ rows' = [rows EXCEPT ![s] = [old EXCEPT ![t] = column]]
  BY <1>5, <1>6
<1>8. rows'[s] = [old EXCEPT ![t] = column] /\ \A q \in Scan \ {s} : rows'[q] = rows[q]
  BY <1>7
<1>9. /\ rows' \in [Scan -> [Table -> [Key -> Result \cup {NoRow}]]]
      /\ \A u \in Table \ {t} : rows'[s][u] = rows[s][u]
      /\ rows'[s][t] = column
  BY <1>2, <1>4, <1>6, <1>7, <1>8
<1>10. ASSUME NEW i \in DOMAIN Tables, NEW n \in Nat, HasRows(s, i, r, n) PROVE HasRows(s, i, r, n)'
  <2> SUFFICES ASSUME NEW k \in DOMAIN Rows[r][Tables[i]], k <= n
               PROVE  rows'[s][Tables[i]][Rows[r][Tables[i]][k]] = r
    BY DEF HasRows
  <2>1. rows[s][Tables[i]][Rows[r][Tables[i]][k]] = r
    BY <1>10 DEF HasRows
  <2>2. Tables[i] \in Table /\ Rows[r][Tables[i]][k] \in Key
    BY RowFacts
  <2>3. CASE Tables[i] = t
    BY <1>3, <1>9, <2>1, <2>2, <2>3
  <2>4. CASE Tables[i] # t
    BY <1>9, <2>1, <2>2, <2>4
  <2> QED
    BY <2>3, <2>4
<1> QED
  BY <1>1, <1>3, <1>8, <1>9, <1>10

LEMMA PostChunkGoes ==
    ASSUME Base, NEW f \in Finalizer, NEW answer \in Answer, PostChunk(f, answer) PROVE Goes
<1>1. PICK x : x = fin[f]
  OBVIOUS
<1>2. PICK all, upto, chunk :
         /\ all = Rows[x.result][Tables[x.table]] /\ upto = x.offset + ChunkRows
         /\ chunk = {all[i] : i \in {k \in DOMAIN all : x.offset < k /\ k <= upto}}
  OBVIOUS
<1>3. PICK y :
         y = CASE answer # "ok" -> NextTable(x, x.failed \cup {x.table})
               [] answer = "ok" /\ upto < Len(all) -> [x EXCEPT !.offset = upto]
               [] OTHER -> NextTable(x, x.failed)
  OBVIOUS
<1>4. /\ fin' = [fin EXCEPT ![f] = y] /\ UNCHANGED <<runs, newer, mark, jobs>>
      /\ x.step = "post" /\ (Applied(answer) => Held(x.scan))
      /\ IF Applied(answer) THEN UpsertRows(x.scan, Tables[x.table], chunk, x.result) ELSE UNCHANGED rows
  BY <1>1, <1>2, <1>3, Zenon DEF PostChunk, Put
<1>5. /\ FinTyped(x) /\ FinSound(x) /\ x.scan \in Scan /\ x.result \in Result /\ x.table \in DOMAIN Tables
      /\ x.table \in 1..Len(Tables) /\ x.offset \in Nat /\ x.failed \in SUBSET (0..OutcomeTable)
      /\ jobs[x.scan].status \in Finalizable /\ ~x.all
      /\ x \in FinState
  BY <1>1, <1>4, Own, TableFacts DEF Base, FinTyped, FinState, FinSound, Working
<1>6. all \in Seq(Key) /\ upto \in Nat /\ chunk \subseteq Key /\ Tables[x.table] \in Table
  BY <1>2, <1>5, RowFacts DEF Base, ScanPersistenceAssumption
<1>7. rows \in [Scan -> [Table -> [Key -> Result \cup {NoRow}]]]
  BY DEF Base, PersistenceInvariant, Typed, DbTyped
<1>8. Applied(answer) =>
         /\ rows' \in [Scan -> [Table -> [Key -> Result \cup {NoRow}]]]
         /\ \A q \in Scan \ {x.scan} : rows'[q] = rows[q]
         /\ \A t \in Table \ {Tables[x.table]} : rows'[x.scan][t] = rows[x.scan][t]
         /\ \A k \in Key : rows'[x.scan][Tables[x.table]][k] =
               IF k \in chunk THEN x.result ELSE rows[x.scan][Tables[x.table]][k]
         /\ \A i \in DOMAIN Tables, n \in Nat :
               HasRows(x.scan, i, x.result, n) => HasRows(x.scan, i, x.result, n)'
  <2>1. PICK s, j, r : s = x.scan /\ j = x.table /\ r = x.result
    OBVIOUS
  <2>2. s \in Scan /\ j \in DOMAIN Tables /\ r \in Result /\ chunk \in SUBSET Key
    BY <1>5, <1>6, <2>1
  <2>3. Applied(answer) => UpsertRows(s, Tables[j], chunk, r)
    BY <1>4, <2>1
  <2>4. ScanPersistenceAssumption
    BY DEF Base
  <2>5. Applied(answer) =>
         /\ rows' \in [Scan -> [Table -> [Key -> Result \cup {NoRow}]]]
         /\ \A q \in Scan \ {s} : rows'[q] = rows[q]
         /\ \A t \in Table \ {Tables[j]} : rows'[s][t] = rows[s][t]
         /\ \A k \in Key : rows'[s][Tables[j]][k] = IF k \in chunk THEN r ELSE rows[s][Tables[j]][k]
         /\ \A i \in DOMAIN Tables, n \in Nat : HasRows(s, i, r, n) => HasRows(s, i, r, n)'
    BY <1>7, <2>2, <2>3, <2>4, ChunkWritten
  <2> QED
    BY <2>1, <2>5
<1>9. /\ rows' \in [Scan -> [Table -> [Key -> Result \cup {NoRow}]]]
      /\ \A q \in Scan \ {x.scan} : rows'[q] = rows[q]
      /\ \A i \in DOMAIN Tables, n \in Nat : HasRows(x.scan, i, x.result, n) => HasRows(x.scan, i, x.result, n)'
  <2>1. CASE Applied(answer)
    BY <2>1, <1>8
  <2>2. CASE ~Applied(answer)
    BY <1>4, <1>7, <2>2 DEF HasRows
  <2> QED
    BY <2>1, <2>2
<1>10. RadarOnly'
  <2> SUFFICES ASSUME NEW s \in Scan, NEW k \in Key, rows'[s][Radar][k] # NoRow, NEW r \in Result
               PROVE  k \in Image(Rows[r][Radar])
    BY DEF RadarOnly
  <2>1. CASE rows'[s][Radar][k] = rows[s][Radar][k]
    BY <2>1 DEF Base, PersistenceInvariant, RadarOnly
  <2>2. CASE rows'[s][Radar][k] # rows[s][Radar][k]
    <3>1. Applied(answer) /\ s = x.scan
      BY <1>4, <1>9, <2>2
    <3>2. Radar = Tables[x.table] /\ k \in chunk
      BY <1>8, <2>2, <3>1, TableFacts DEF Base
    <3>3. k \in Image(Rows[x.result][Radar])
      BY <1>2, <3>2 DEF Image
    <3> QED
      BY <1>5, <3>3 DEF Base, ScanPersistenceAssumption
  <2> QED
    BY <2>1, <2>2
<1>11. \A s \in Scan \ {x.scan} : Quiet(s)
  BY <1>4, <1>9 DEF Quiet, Held
<1>12. Keeps
  BY <1>4, <1>5, <1>11 DEF Keeps, Finalizable, Completed
<1>13. FullIsExact' /\ CompletedRadar' /\ DbTyped'
  BY <1>4, <1>9, <1>12, CommittedKept DEF Base, PersistenceInvariant, Typed, DbTyped
<1>14. Held(x.scan) => StoredBy(x)'
  <2> SUFFICES ASSUME Held(x.scan) PROVE StoredBy(x)'
    OBVIOUS
  <2>1. StoredBy(x)
    BY <1>4, <1>5 DEF FinSound, Working
  <2>2. \A i \in DOMAIN Tables : Len(Rows[x.result][Tables[i]]) \in Nat
    BY <1>5, RowFacts DEF Base
  <2> QED
    BY <1>4, <1>5, <1>9, <2>1, <2>2 DEF StoredBy
<1>15. answer = "ok" => HasRows(x.scan, x.table, x.result, upto)'
  <2> SUFFICES ASSUME answer = "ok", NEW k \in DOMAIN all, k <= upto
               PROVE  rows'[x.scan][Tables[x.table]][all[k]] = x.result
    BY <1>2 DEF HasRows
  <2>1. Applied(answer) /\ k \in Nat /\ all[k] \in Key
    BY <1>6 DEF Applied
  <2>2. CASE k <= x.offset
    <3>1. HasRows(x.scan, x.table, x.result, x.offset)'
      BY <1>4, <1>14, <2>1 DEF StoredBy
    <3> QED
      BY <1>2, <2>2, <3>1 DEF HasRows
  <2>3. CASE x.offset < k
    <3>1. all[k] \in chunk
      BY <1>2, <2>3
    <3> QED
      BY <1>8, <2>1, <3>1
  <2> QED
    BY <1>5, <2>1, <2>2, <2>3
<1>16. FinTyped(y) /\ FinSound(y)' /\ y.scan = x.scan
  <2>1. CASE answer # "ok"
    <3>1. PICK failed : failed = x.failed \cup {x.table}
      OBVIOUS
    <3>2. y = NextTable(x, failed) /\ failed \in SUBSET (0..OutcomeTable) /\ x.failed \subseteq failed
          /\ x.table \in failed
      BY <1>3, <1>5, <2>1, <3>1 DEF OutcomeTable
    <3>3. FinTyped(y) /\ y.scan = x.scan
      BY <1>4, <1>5, <3>2, NextTableFields DEF Base
    <3>4. UNCHANGED <<runs, jobs>>
      BY <1>4
    <3>5. Held(x.scan) /\ x.table \notin failed =>
             HasRows(x.scan, x.table, x.result, Len(Rows[x.result][Tables[x.table]]))'
      BY <3>2
    <3>6. FinSound(NextTable(x, failed))'
      BY <1>4, <1>5, <1>14, <3>2, <3>4, <3>5, NextTableSound DEF Base
    <3> QED
      BY <3>2, <3>3, <3>6
  <2>2. CASE answer = "ok" /\ upto < Len(all)
    <3>1. y = [x EXCEPT !.offset = upto]
      BY <1>3, <2>2
    <3>2. /\ y \in FinState /\ y.step = x.step /\ y.scan = x.scan /\ y.result = x.result
          /\ y.table = x.table /\ y.failed = x.failed /\ y.all = x.all /\ y.offset = upto
      BY <1>5, <1>6, <3>1 DEF FinState
    <3>3. FinTyped(y)
      BY <1>5, <3>2 DEF FinTyped
    <3>4. ASSUME Held(x.scan) PROVE StoredBy(y)'
      BY <1>4, <1>14, <1>15, <2>2, <3>2, <3>4 DEF StoredBy, Behind, Written
    <3>5. CountedBy(y)'
      BY <1>4, <3>2 DEF CountedBy, Read
    <3>6. FinSound(y)'
      BY <1>4, <1>5, <3>2, <3>4, <3>5 DEF FinSound, Held
    <3> QED
      BY <3>2, <3>3, <3>6
  <2>3. CASE answer = "ok" /\ ~(upto < Len(all))
    <3>1. y = NextTable(x, x.failed)
      BY <1>3, <2>3
    <3>2. FinTyped(y) /\ y.scan = x.scan
      BY <1>4, <1>5, <3>1, NextTableFields DEF Base
    <3>3. UNCHANGED <<runs, jobs>>
      BY <1>4
    <3>4. HasRows(x.scan, x.table, x.result, Len(Rows[x.result][Tables[x.table]]))'
      <4>1. \A k \in DOMAIN all : k <= upto
        BY <1>6, <2>3
      <4> QED
        BY <1>2, <1>15, <2>3, <4>1 DEF HasRows
    <3>5. FinSound(NextTable(x, x.failed))'
      BY <1>4, <1>5, <1>14, <3>3, <3>4, NextTableSound DEF Base
    <3> QED
      BY <3>1, <3>2, <3>5
  <2> QED
    BY <2>1, <2>2, <2>3
<1>17. \A g \in Finalizer \ {f} : fin[g].step # "idle" => fin[g].scan # x.scan /\ fin[g].scan \in Scan
  BY <1>1, <1>4, Own DEF FinTyped
<1>18. \A g \in Finalizer \ {f} : fin[g].step # "idle" =>
          Quiet(fin[g].scan) /\ (y.step # "idle" => fin[g].scan # y.scan)
  BY <1>11, <1>16, <1>17
<1>19. PersistenceInvariant'
  BY <1>4, <1>10, <1>13, <1>16, <1>18, ActionKeeps DEF Base
<1> QED
  BY <1>12, <1>19 DEF Goes

\* The rows are as they were, and so are the counts.
LEMMA SameRows ==
    ASSUME UNCHANGED rows
    PROVE  /\ \A s, i, r, n : HasRows(s, i, r, n)' = HasRows(s, i, r, n)
           /\ \A s, t : Count(s, t)' = Count(s, t)
BY DEF HasRows, Count

\* The outcomes are posted behind the result tables, and touch none of their rows.
LEMMA OutcomesPosted ==
    ASSUME Base, NEW f \in Finalizer, fin[f].step = "post_outcomes",
           NEW pending \in SUBSET Outcome, NEW failed \in SUBSET (0..OutcomeTable), fin[f].failed \subseteq failed,
           NEW step \in {"post_outcomes", "mark"},
           fin' = [fin EXCEPT ![f] = [fin[f] EXCEPT !.step = step, !.pending = pending, !.failed = failed]],
           UNCHANGED <<runs, newer, mark, rows, jobs>>
    PROVE  Goes
<1>1. PICK x : x = fin[f]
  OBVIOUS
<1> DEFINE y == [x EXCEPT !.step = step, !.pending = pending, !.failed = failed]
<1>2. /\ FinTyped(x) /\ FinSound(x) /\ x.step = "post_outcomes" /\ x.scan \in Scan /\ x.result \in Result
      /\ x.table = 0 /\ ~x.all /\ x \in FinState /\ jobs[x.scan].status \in Finalizable
  BY <1>1, Own DEF FinTyped, FinSound, Working
<1>3. /\ y \in FinState /\ y.step = step /\ y.all = x.all /\ y.scan = x.scan /\ y.result = x.result
      /\ y.table = 0 /\ y.failed = failed
  BY <1>2 DEF FinState, Steps
<1>4. fin' = [fin EXCEPT ![f] = y]
  BY <1>1
<1> HIDE DEF y
<1>5. mark' \in [Scan -> Marks]
  BY DEF Base, PersistenceInvariant, Typed, DbTyped
<1>6. FinTyped(y)
  BY <1>2, <1>3 DEF FinTyped
<1>7. ASSUME Held(x.scan) PROVE StoredBy(y)'
  <2>1. StoredBy(x)
    BY <1>2, <1>7 DEF FinSound, Working
  <2>2. x.failed \subseteq failed
    BY <1>1
  <2> QED
    BY <1>2, <1>3, <2>1, <2>2, SameRows DEF StoredBy, Behind, Written
<1>8. CountedBy(y)'
  BY <1>3 DEF CountedBy, Read
<1>9. FinSound(y)'
  <2>1. y.step \in Working /\ y.step # "post_run" /\ ~y.all
    BY <1>2, <1>3 DEF Working
  <2> QED
    BY <1>2, <1>3, <1>7, <1>8, <2>1 DEF FinSound, Held
<1>10. \A g \in Finalizer \ {f} : fin[g].step # "idle" => fin[g].scan # y.scan
  <2>1. fin[f].step # "idle" /\ fin[f].scan = y.scan
    BY <1>1, <1>3
  <2> QED
    BY <2>1, Own
<1> QED
  BY <1>4, <1>5, <1>6, <1>9, <1>10, LocalStep

LEMMA PostNoOutcomesGoes == ASSUME Base, NEW f \in Finalizer, PostNoOutcomes(f) PROVE Goes
<1>1. PICK x : x = fin[f]
  OBVIOUS
<1>2. x \in FinState /\ x.step = "post_outcomes"
  BY <1>1, Own DEF PostNoOutcomes, FinTyped
<1>3. x.pending \in SUBSET Outcome /\ x.failed \in SUBSET (0..OutcomeTable)
  BY <1>2 DEF FinState
<1>4. [x EXCEPT !.step = "mark"] = [x EXCEPT !.step = "mark", !.pending = x.pending, !.failed = x.failed]
  BY <1>2 DEF FinState
<1>5. /\ fin' = [fin EXCEPT ![f] = [x EXCEPT !.step = "mark", !.pending = x.pending, !.failed = x.failed]]
      /\ UNCHANGED <<runs, newer, mark, rows, jobs>>
  BY <1>1, <1>4 DEF PostNoOutcomes, Put
<1>6. PICK step, pending, failed : step = "mark" /\ pending = x.pending /\ failed = x.failed
  OBVIOUS
<1>7. fin' = [fin EXCEPT ![f] = [x EXCEPT !.step = step, !.pending = pending, !.failed = failed]]
  BY <1>5, <1>6
<1>8. /\ step \in {"post_outcomes", "mark"} /\ pending \in SUBSET Outcome
      /\ failed \in SUBSET (0..OutcomeTable) /\ x.failed \subseteq failed
  BY <1>3, <1>6
<1>9. fin[f].step = "post_outcomes" /\ fin[f].failed \subseteq failed
  BY <1>1, <1>2, <1>8
<1>10. fin' = [fin EXCEPT ![f] = [fin[f] EXCEPT !.step = step, !.pending = pending, !.failed = failed]]
  BY <1>1, <1>7
<1>11. /\ UNCHANGED <<runs, newer, mark, rows, jobs>>
       /\ step \in {"post_outcomes", "mark"} /\ pending \in SUBSET Outcome
       /\ failed \in SUBSET (0..OutcomeTable)
  BY <1>5, <1>8
<1> QED
  BY <1>9, <1>10, <1>11, OutcomesPosted

LEMMA PostOutcomesGoes ==
    ASSUME Base, NEW f \in Finalizer, NEW answer \in Answer, PostOutcomes(f, answer) PROVE Goes
<1>1. PICK x : x = fin[f]
  OBVIOUS
<1>2. x \in FinState /\ x.step = "post_outcomes" /\ UNCHANGED <<runs, newer, mark, rows, jobs>>
  BY <1>1, Own DEF PostOutcomes, FinTyped
<1>3. x.pending \in SUBSET Outcome /\ x.failed \in SUBSET (0..OutcomeTable)
  BY <1>2 DEF FinState
<1>4. OutcomeTable \in 0..OutcomeTable
  BY TableFacts DEF Base, OutcomeTable
<1>5. PICK chunk \in SUBSET x.pending :
        fin' = [fin EXCEPT ![f] =
                  CASE answer # "ok" -> [x EXCEPT !.step = "mark", !.pending = {}, !.failed = @ \cup {OutcomeTable}]
                    [] answer = "ok" /\ chunk # x.pending -> [x EXCEPT !.pending = x.pending \ chunk]
                    [] OTHER -> [x EXCEPT !.step = "mark", !.pending = {}]]
  BY <1>1, Zenon DEF PostOutcomes, Put
<1>6. PICK step, pending, failed :
        /\ step = IF answer = "ok" /\ chunk # x.pending THEN "post_outcomes" ELSE "mark"
        /\ pending = IF answer = "ok" /\ chunk # x.pending THEN x.pending \ chunk ELSE {}
        /\ failed = IF answer = "ok" THEN x.failed ELSE x.failed \cup {OutcomeTable}
  OBVIOUS
<1>7. /\ step \in {"post_outcomes", "mark"} /\ pending \in SUBSET Outcome
      /\ failed \in SUBSET (0..OutcomeTable) /\ x.failed \subseteq failed
  BY <1>3, <1>4, <1>6
<1>8. fin' = [fin EXCEPT ![f] = [x EXCEPT !.step = step, !.pending = pending, !.failed = failed]]
  <2>1. CASE answer # "ok"
    BY <1>5, <1>6, <2>1
  <2>2. CASE answer = "ok" /\ chunk # x.pending
    <3>1. [x EXCEPT !.pending = pending] = [x EXCEPT !.step = step, !.pending = pending, !.failed = failed]
      BY <1>2, <1>6, <2>2 DEF FinState
    <3> QED
      BY <1>5, <1>6, <2>2, <3>1
  <2>3. CASE answer = "ok" /\ chunk = x.pending
    <3>1. [x EXCEPT !.step = step, !.pending = pending]
             = [x EXCEPT !.step = step, !.pending = pending, !.failed = failed]
      BY <1>2, <1>6, <2>3 DEF FinState
    <3> QED
      BY <1>5, <1>6, <2>3, <3>1
  <2> QED
    BY <2>1, <2>2, <2>3
<1> QED
  BY <1>1, <1>2, <1>7, <1>8, OutcomesPosted

LEMMA MarkWrittenGoes ==
    ASSUME Base, NEW f \in Finalizer, NEW answer \in Answer, MarkWritten(f, answer) PROVE Goes
<1>1. PICK x, done : x = fin[f] /\ done = (x.failed = {} /\ answer = "ok" /\ Held(x.scan))
  OBVIOUS
<1> DEFINE y == [x EXCEPT !.step = "read", !.all = done]
<1>2. /\ FinTyped(x) /\ FinSound(x) /\ x.step = "mark" /\ x.scan \in Scan /\ x.result \in Result
      /\ x.table = 0 /\ x \in FinState /\ jobs[x.scan].status \in Finalizable
  BY <1>1, Own DEF MarkWritten, FinTyped, FinSound, Working
<1>3. done \in BOOLEAN
  BY <1>1
<1>4. /\ y \in FinState /\ y.step = "read" /\ y.all = done /\ y.scan = x.scan /\ y.result = x.result
      /\ y.table = 0 /\ y.failed = x.failed
  BY <1>2, <1>3 DEF FinState, Steps
<1>5. fin' = [fin EXCEPT ![f] = y] /\ UNCHANGED <<runs, newer, rows, jobs>>
  BY <1>1 DEF MarkWritten, Put
<1> HIDE DEF y
<1>6. mark' \in [Scan -> Marks]
  <2>1. mark \in [Scan -> Marks]
    BY DEF Base, PersistenceInvariant, Typed, DbTyped
  <2>2. "PERSISTED_PENDING_READBACK" \in Marks /\ "WRITE_PARTIAL" \in Marks
    BY DEF Marks
  <2> QED
    BY <1>1, <1>2, <2>1, <2>2 DEF MarkWritten, SetMark
<1>7. FinTyped(y)
  BY <1>2, <1>4 DEF FinTyped
<1>8. ASSUME Held(x.scan) PROVE StoredBy(y)'
  <2>1. StoredBy(x)
    BY <1>2, <1>8 DEF FinSound, Working
  <2> QED
    BY <1>2, <1>4, <1>5, <2>1, SameRows DEF StoredBy, Behind, Written
<1>9. CountedBy(y)'
  <2>1. \A i \in DOMAIN Tables : ~(i < 0)
    BY TableFacts DEF Base
  <2> QED
    BY <1>4, <2>1 DEF CountedBy, Read
<1>10. FinSound(y)'
  BY <1>1, <1>2, <1>4, <1>5, <1>8, <1>9 DEF FinSound, Held
<1> QED
  BY <1>1, <1>2, <1>4, <1>5, <1>6, <1>7, <1>10, Own, LocalStep

LEMMA ReadBackGoes ==
    ASSUME Base, NEW f \in Finalizer, NEW fails \in BOOLEAN, ReadBack(f, fails) PROVE Goes
<1>1. PICK x, bad : x = fin[f] /\ bad = (fails \/ ~Contract(f, x.table))
  OBVIOUS
<1>2. PICK unverified, step, table :
         /\ unverified = IF bad THEN x.unverified \cup {x.table} ELSE x.unverified
         /\ step = IF x.table = Len(Tables) THEN "read_outcomes" ELSE "read"
         /\ table = IF x.table = Len(Tables) THEN 0 ELSE x.table + 1
  OBVIOUS
<1> DEFINE y == [x EXCEPT !.unverified = unverified, !.step = step, !.table = table]
<1>3. /\ FinTyped(x) /\ FinSound(x) /\ x.step = "read" /\ x.scan \in Scan /\ x.result \in Result
      /\ x \in FinState /\ jobs[x.scan].status \in Finalizable
  BY <1>1, Own DEF ReadBack, FinTyped, FinSound, Working
<1>4. /\ x.table \in 0..Len(Tables) /\ Len(Tables) \in Nat /\ DOMAIN Tables = 1..Len(Tables)
      /\ x.unverified \subseteq 0..OutcomeTable
  BY <1>3, TableFacts DEF Base, FinState
<1>5. step \in {"read", "read_outcomes"} /\ table \in 0..Len(Tables) /\ unverified \subseteq 0..OutcomeTable
  BY <1>2, <1>4 DEF OutcomeTable
<1>6. /\ y \in FinState /\ y.step = step /\ y.all = x.all /\ y.scan = x.scan /\ y.result = x.result
      /\ y.table = table /\ y.failed = x.failed /\ y.unverified = unverified
  BY <1>3, <1>5 DEF FinState, Steps
<1>7. fin' = [fin EXCEPT ![f] = y] /\ UNCHANGED <<runs, newer, mark, rows, jobs>>
  BY <1>1, <1>2, Zenon DEF ReadBack, Put
<1> HIDE DEF y
<1>8. mark' \in [Scan -> Marks]
  BY <1>7 DEF Base, PersistenceInvariant, Typed, DbTyped
<1>9. FinTyped(y)
  BY <1>3, <1>5, <1>6 DEF FinTyped
<1>10. ASSUME Held(x.scan) PROVE StoredBy(y)'
  <2>1. StoredBy(x)
    BY <1>3, <1>10 DEF FinSound, Working
  <2> QED
    BY <1>3, <1>5, <1>6, <1>7, <2>1, SameRows DEF StoredBy, Behind, Written
<1>11. ASSUME Held(x.scan) PROVE CountedBy(y)'
  <2> SUFFICES ASSUME NEW i \in DOMAIN Tables, Read(y, i), i \notin unverified
               PROVE  Count(x.scan, Tables[i]) = Len(Rows[x.result][Tables[i]])
    BY <1>6, <1>7, SameRows DEF CountedBy
  <2>1. CountedBy(x)
    BY <1>3, <1>11 DEF FinSound, Working
  <2>2. i \in Nat /\ 1 <= i /\ i <= x.table
    BY <1>2, <1>4, <1>5, <1>6 DEF Read
  <2>3. CASE i < x.table
    BY <1>2, <1>3, <2>1, <2>3 DEF CountedBy, Read
  <2>4. CASE i = x.table
    <3>1. ~bad
      BY <1>2, <2>4
    <3>2. Contract(f, x.table)
      BY <1>1, <3>1, Zenon
    <3> QED
      BY <1>1, <2>2, <2>4, <3>2 DEF Contract
  <2> QED
    BY <1>4, <2>2, <2>3, <2>4
<1>12. FinSound(y)'
  BY <1>3, <1>5, <1>6, <1>7, <1>10, <1>11 DEF FinSound, Held, Working
<1> QED
  BY <1>1, <1>3, <1>6, <1>7, <1>8, <1>9, <1>12, Own, LocalStep

LEMMA ReadOutcomesGoes ==
    ASSUME Base, NEW f \in Finalizer, NEW fails \in BOOLEAN, ReadOutcomes(f, fails) PROVE Goes
<1>1. PICK x, unverified :
        x = fin[f] /\ unverified = IF fails \/ ~OutcomeContract(f) THEN x.unverified \cup {OutcomeTable} ELSE x.unverified
  OBVIOUS
<1> DEFINE y == [x EXCEPT !.unverified = unverified, !.step = "verdict"]
<1>2. /\ FinTyped(x) /\ FinSound(x) /\ x.step = "read_outcomes" /\ x.scan \in Scan /\ x.result \in Result
      /\ x \in FinState /\ jobs[x.scan].status \in Finalizable
  BY <1>1, Own DEF ReadOutcomes, FinTyped, FinSound, Working
<1>3. unverified \subseteq 0..OutcomeTable /\ x.unverified \subseteq unverified
  BY <1>1, <1>2, TableFacts DEF Base, FinState, OutcomeTable
<1>4. /\ y \in FinState /\ y.step = "verdict" /\ y.all = x.all /\ y.scan = x.scan /\ y.result = x.result
      /\ y.failed = x.failed /\ y.unverified = unverified
  BY <1>2, <1>3 DEF FinState, Steps
<1>5. fin' = [fin EXCEPT ![f] = y] /\ UNCHANGED <<runs, newer, mark, rows, jobs>>
  BY <1>1 DEF ReadOutcomes, Put
<1> HIDE DEF y
<1>6. mark' \in [Scan -> Marks]
  BY <1>5 DEF Base, PersistenceInvariant, Typed, DbTyped
<1>7. FinTyped(y)
  BY <1>2, <1>4 DEF FinTyped
<1>8. ASSUME Held(x.scan) PROVE StoredBy(y)' /\ CountedBy(y)'
  <2>1. StoredBy(x) /\ CountedBy(x)
    BY <1>2, <1>8 DEF FinSound, Working
  <2> QED
    BY <1>2, <1>3, <1>4, <1>5, <2>1, SameRows DEF StoredBy, Behind, Written, CountedBy, Read
<1>9. FinSound(y)'
  BY <1>2, <1>4, <1>5, <1>8 DEF FinSound, Held, Working
<1> QED
  BY <1>1, <1>2, <1>4, <1>5, <1>6, <1>7, <1>9, Own, LocalStep

LEMMA MarkVerdictGoes ==
    ASSUME Base, NEW f \in Finalizer, NEW answer \in Answer, MarkVerdict(f, answer) PROVE Goes
<1>1. PICK x : x = fin[f]
  OBVIOUS
<1> DEFINE y == [x EXCEPT !.step = "commit"]
<1>2. /\ FinTyped(x) /\ FinSound(x) /\ x.step = "verdict" /\ x.scan \in Scan /\ x.result \in Result
      /\ x \in FinState /\ jobs[x.scan].status \in Finalizable
  BY <1>1, Own DEF MarkVerdict, FinTyped, FinSound, Working
<1>3. /\ y \in FinState /\ y.step = "commit" /\ y.all = x.all /\ y.scan = x.scan /\ y.result = x.result
      /\ y.failed = x.failed /\ y.unverified = x.unverified
  BY <1>2 DEF FinState, Steps
<1>4. fin' = [fin EXCEPT ![f] = y] /\ UNCHANGED <<runs, newer, rows, jobs>>
  BY <1>1 DEF MarkVerdict, Put
<1> HIDE DEF y
<1>5. mark' \in [Scan -> Marks]
  <2>1. mark \in [Scan -> Marks]
    BY DEF Base, PersistenceInvariant, Typed, DbTyped
  <2>2. "VERIFIED_COMMITTED" \in Marks /\ "PARTIAL_PERSISTENCE" \in Marks
    BY DEF Marks
  <2> QED
    BY <1>1, <1>2, <2>1, <2>2 DEF MarkVerdict, SetMark
<1>6. FinTyped(y)
  BY <1>2, <1>3 DEF FinTyped
<1>7. ASSUME Held(x.scan) PROVE StoredBy(y)' /\ CountedBy(y)'
  <2>1. StoredBy(x) /\ CountedBy(x)
    BY <1>2, <1>7 DEF FinSound, Working
  <2> QED
    BY <1>2, <1>3, <1>4, <2>1, SameRows DEF StoredBy, Behind, Written, CountedBy, Read
<1>8. FinSound(y)'
  BY <1>2, <1>3, <1>4, <1>7 DEF FinSound, Held, Working
<1> QED
  BY <1>1, <1>2, <1>3, <1>4, <1>5, <1>6, <1>8, Own, LocalStep


\* Outcomes are seeded behind the terminal patch, in a table of their own.
LEMMA SeedGoes == ASSUME Base, NEW f \in Finalizer, NEW answer \in Answer, Seed(f, answer) PROVE Goes
<1>1. PICK x : x = fin[f]
  OBVIOUS
<1> DEFINE y == [x EXCEPT !.step = "prune"]
<1>2. FinTyped(x) /\ x.step = "seed" /\ x.scan \in Scan
  BY <1>1, Own DEF Seed, FinTyped
<1>3. y.step = "prune" /\ y.scan = x.scan /\ y \in FinState
  BY <1>2 DEF FinTyped, FinState, Steps
<1>4. fin' = [fin EXCEPT ![f] = y] /\ UNCHANGED <<runs, newer, mark, rows, jobs>>
  BY <1>1 DEF Seed, Put
<1> HIDE DEF y
<1>5. FinTyped(y) /\ FinSound(y)'
  BY <1>2, <1>3 DEF FinTyped, FinSound, Working
<1>6. mark' \in [Scan -> Marks]
  BY <1>4 DEF Base, PersistenceInvariant, Typed, DbTyped
<1> QED
  BY <1>1, <1>2, <1>3, <1>4, <1>5, <1>6, Own, LocalStep

\* The runs beyond the newest go with all their rows; the job at hand may be a new one.
LEMMA PruneDeleteGoes ==
    ASSUME Base, NEW f \in Finalizer, NEW answer \in Answer, PruneDelete(f, answer) PROVE Goes
<1>1. PICK s, old : s = fin[f].scan /\ old = fin[f].old
  OBVIOUS
<1>2. /\ s \in Scan /\ old \subseteq Scan /\ fin' = [fin EXCEPT ![f] = Idle]
      /\ jobs' = IF jobs[s].status = "UNUSED" THEN [jobs EXCEPT ![s].status = "FINALIZE"] ELSE jobs
      /\ IF Applied(answer) THEN DeleteRuns(old) ELSE UNCHANGED <<runs, newer, mark, rows, owner>>
      /\ \A g \in Finalizer \ {f} : fin[g].step # "idle" => fin[g].scan # s /\ fin[g].scan \in Scan
  BY <1>1, Own DEF PruneDelete, End, Put, FinTyped, FinState
<1>3. DbTyped
  BY DEF Base, PersistenceInvariant, Typed
<1>4. /\ jobs' \in [Scan -> JobState]
      /\ \A q \in Scan \ {s} : jobs'[q] = jobs[q]
      /\ jobs'[s] = jobs[s] \/ (jobs[s].status \notin Completed /\ jobs'[s].status \notin Completed)
  <2>1. CASE jobs[s].status = "UNUSED"
    <3>1. PICK new : new = [jobs[s] EXCEPT !.status = "FINALIZE"]
      OBVIOUS
    <3>2. jobs' = [jobs EXCEPT ![s] = new]
      BY <1>2, <2>1, <3>1
    <3>3. jobs[s] \in JobState
      BY <1>2, <1>3 DEF DbTyped
    <3>4. new \in JobState /\ new.status = "FINALIZE"
      BY <3>1, <3>3 DEF JobState, Statuses, Finalizable
    <3>5. jobs'[s] = new /\ \A q \in Scan \ {s} : jobs'[q] = jobs[q]
      BY <1>2, <1>3, <3>2 DEF DbTyped
    <3>6. jobs' \in [Scan -> JobState]
      BY <1>2, <1>3, <3>2, <3>4 DEF DbTyped
    <3>7. jobs[s].status \notin Completed /\ jobs'[s].status \notin Completed
      BY <2>1, <3>4, <3>5 DEF Completed
    <3> QED
      BY <3>5, <3>6, <3>7
  <2>2. CASE jobs[s].status # "UNUSED"
    BY <1>2, <1>3, <2>2 DEF DbTyped
  <2> QED
    BY <2>1, <2>2
<1>5. /\ runs' \subseteq Scan /\ newer' \subseteq Scan \X Scan /\ mark' \in [Scan -> Marks]
      /\ rows' \in [Scan -> [Table -> [Key -> Result \cup {NoRow}]]]
      /\ \A q \in Scan : Held(q)' => Held(q) /\ rows'[q] = rows[q]
      /\ \A q \in Scan : rows'[q] = rows[q] \/ rows'[q] = NoRows
  <2>1. CASE Applied(answer)
    <3>1. "NONE" \in Marks /\ NoRows \in [Table -> [Key -> Result \cup {NoRow}]]
      BY DEF Marks, NoRows
    <3>2. /\ runs' = runs \ old /\ newer' \subseteq newer
          /\ mark' = [q \in Scan |-> IF q \in old THEN "NONE" ELSE mark[q]]
          /\ rows' = [q \in Scan |-> IF q \in old THEN NoRows ELSE rows[q]]
      BY <1>2, <2>1 DEF DeleteRuns
    <3>3. \A q \in Scan : /\ mark'[q] \in Marks
                          /\ rows'[q] \in [Table -> [Key -> Result \cup {NoRow}]]
                          /\ rows'[q] = IF q \in old THEN NoRows ELSE rows[q]
      BY <1>3, <3>1, <3>2 DEF DbTyped
    <3> QED
      BY <1>3, <3>2, <3>3 DEF DbTyped, Held
  <2>2. CASE ~Applied(answer)
    BY <1>2, <1>3, <2>2 DEF DbTyped, Held
  <2> QED
    BY <2>1, <2>2
<1>6. \A q \in Scan \ {s} : Quiet(q)
  BY <1>4, <1>5 DEF Quiet
<1>7. Keeps
  BY <1>4, <1>5, <1>6 DEF Keeps, Quiet
<1>8. FullIsExact' /\ CompletedRadar' /\ DbTyped'
  BY <1>4, <1>5, <1>7, CommittedKept DEF Base, PersistenceInvariant, DbTyped
<1>9. RadarOnly'
  <2>1. \A k \in Key : NoRows[Radar][k] = NoRow
    BY TableFacts DEF Base, NoRows
  <2>2. RadarOnly
    BY DEF Base, PersistenceInvariant
  <2> QED
    BY <1>5, <2>1, <2>2 DEF RadarOnly
<1>10. FinTyped(Idle) /\ FinSound(Idle)' /\ Idle.step = "idle"
  BY IdleSound DEF FinSound
<1>11. \A g \in Finalizer \ {f} : fin[g].step # "idle" =>
          Quiet(fin[g].scan) /\ (Idle.step # "idle" => fin[g].scan # Idle.scan)
  BY <1>2, <1>6, <1>10
<1>12. PersistenceInvariant'
  BY <1>2, <1>8, <1>9, <1>10, <1>11, ActionKeeps DEF Base
<1> QED
  BY <1>7, <1>12 DEF Goes

-----------------------------------------------------------------------------
(* The terminal patch.                                                     *)

\* The step that publishes: its scan was not completed, and its job now says what the
\* finalisation found.
Publishes ==
    \E s \in Scan :
        /\ jobs[s].status \notin Completed /\ jobs'[s].status \in Completed
        /\ \A q \in Scan \ {s} : jobs'[q] = jobs[q]
        /\ UNCHANGED <<runs, rows>>

\* What a completed status vouches for, when the run is still there.
LEMMA VerdictIsTrue ==
    ASSUME Base, NEW f \in Finalizer, fin[f].step = "commit", Held(fin[f].scan),
           NEW i \in DOMAIN Tables,
           \/ TerminalStatus(f) = "COMPLETED"
           \/ i = 1 /\ TerminalStatus(f) \in Completed
    PROVE  Holds(fin[f].scan, Tables[i], fin[f].result)
<1>1. PICK x, seq, column : x = fin[f] /\ seq = Rows[x.result][Tables[i]] /\ column = rows[x.scan][Tables[i]]
  OBVIOUS
<1>2. /\ FinTyped(x) /\ x.step = "commit" /\ x.scan \in Scan /\ x.result \in Result
      /\ StoredBy(x) /\ CountedBy(x) /\ (x.all => x.failed = {})
  BY <1>1, Own DEF FinTyped, FinSound, Working
<1>3. /\ seq \in Seq(Key) /\ Distinct(seq) /\ Tables[i] \in Table
      /\ column \in [Key -> Result \cup {NoRow}]
  BY <1>1, <1>2, RowFacts DEF Base, PersistenceInvariant, Typed, DbTyped
<1>4. ASSUME i \notin x.failed PROVE \A k \in DOMAIN seq : column[seq[k]] = x.result
  <2>1. HasRows(x.scan, i, x.result, Len(seq))
    BY <1>1, <1>2, <1>4 DEF StoredBy, Behind, Written
  <2>2. \A k \in DOMAIN seq : k <= Len(seq)
    BY <1>3
  <2> QED
    BY <1>1, <2>1, <2>2 DEF HasRows
<1>5. CASE TerminalStatus(f) = "COMPLETED"
  <2>1. FullyPersisted(f)
    <3>1. CASE 1 \in fin[f].failed
      BY <1>5, <3>1 DEF TerminalStatus
    <3>2. CASE 1 \notin fin[f].failed /\ ~FullyPersisted(f)
      BY <1>5, <3>2 DEF TerminalStatus
    <3> QED
      BY <3>1, <3>2
  <2>2. x.failed = {} /\ x.unverified = {}
    BY <1>1, <1>2, <2>1 DEF FullyPersisted
  <2>3. Cardinality({k \in Key : column[k] # NoRow}) = Len(seq)
    BY <1>1, <1>2, <2>2 DEF CountedBy, Read, Count
  <2>4. column = [k \in Key |-> IF k \in Image(seq) THEN x.result ELSE NoRow]
    <3>1. ScanPersistenceAssumption
      BY DEF Base
    <3>2. PICK r \in Result : r = x.result
      BY <1>2
    <3>3. \A k \in DOMAIN seq : column[seq[k]] = r
      BY <1>4, <2>2, <3>2
    <3>4. column = [k \in Key |-> IF k \in Image(seq) THEN r ELSE NoRow]
      BY <1>3, <2>3, <3>1, <3>3, CountIsExact
    <3> QED
      BY <3>2, <3>4
  <2> QED
    BY <1>1, <2>4 DEF Holds
<1>6. CASE i = 1 /\ TerminalStatus(f) \in Completed
  <2>1. 1 \notin x.failed
    BY <1>1, <1>6 DEF TerminalStatus, Completed
  <2>2. \A k \in Key : k \in Image(seq) => column[k] = x.result
    BY <1>4, <1>6, <2>1 DEF Image
  <2>3. \A k \in Key : k \notin Image(seq) => column[k] = NoRow
    BY <1>1, <1>2, <1>6 DEF Base, PersistenceInvariant, RadarOnly, Radar
  <2>4. column = [k \in Key |-> IF k \in Image(seq) THEN x.result ELSE NoRow]
    BY <1>3, <2>2, <2>3
  <2> QED
    BY <1>1, <2>4 DEF Holds
<1> QED
  BY <1>5, <1>6

LEMMA CommitJobGoes ==
    ASSUME Base, NEW f \in Finalizer, NEW answer \in Answer, CommitJob(f, answer)
    PROVE  PersistenceInvariant' /\ (Keeps \/ Publishes)
<1>1. PICK s, r, status, outcomes : /\ s = fin[f].scan /\ r = fin[f].result
                                    /\ status = TerminalStatus(f) /\ outcomes = fin[f].outcomes
  OBVIOUS
<1>2. PICK y : y = IF answer = "ok" THEN [Idle EXCEPT !.step = "seed", !.scan = s] ELSE Idle
  OBVIOUS
<1>3. /\ fin[f].step = "commit" /\ fin' = [fin EXCEPT ![f] = y]
      /\ jobs' = IF Applied(answer) THEN [jobs EXCEPT ![s] = [status |-> status, summary |-> r, outcomes |-> outcomes]] ELSE jobs
      /\ UNCHANGED <<runs, newer, mark, rows>>
  BY <1>1, <1>2, Zenon DEF CommitJob, End, Put
<1>4. /\ s \in Scan /\ r \in Result /\ jobs[s].status \in Finalizable
      /\ \A g \in Finalizer \ {f} : fin[g].step # "idle" => fin[g].scan # s /\ fin[g].scan \in Scan
  BY <1>1, <1>3, Own DEF FinTyped, FinSound, Working
<1>5. status \in Statuses /\ outcomes \in SUBSET Outcome
  <2>1. status \in Statuses
    BY <1>1 DEF TerminalStatus, Statuses, Finalizable, Completed
  <2>2. fin[f] \in FinState
    BY Own DEF FinTyped
  <2> QED
    BY <1>1, <2>1, <2>2 DEF FinState
<1>6. /\ \A q \in Scan \ {s} : jobs'[q] = jobs[q]
      /\ jobs' \in [Scan -> JobState]
      /\ jobs'[s] = IF Applied(answer) THEN [status |-> status, summary |-> r, outcomes |-> outcomes] ELSE jobs[s]
  <2>1. jobs \in [Scan -> JobState]
    BY DEF Base, PersistenceInvariant, Typed, DbTyped
  <2> QED
    BY <1>3, <1>4, <1>5, <2>1 DEF JobState
<1>7. /\ FinTyped(y) /\ FinSound(y)'
      /\ \A g \in Finalizer \ {f} : fin[g].step # "idle" =>
            Quiet(fin[g].scan) /\ (y.step # "idle" => fin[g].scan # y.scan)
  <2>1. y.step \in {"idle", "seed"} /\ (y.step = "seed" => y.scan = s) /\ y \in FinState
    BY <1>2, <1>4, IdleSound DEF Idle, FinState, FinTyped, Steps
  <2>2. \A q \in Scan \ {s} : Quiet(q)
    BY <1>3, <1>6 DEF Quiet, Held
  <2> QED
    BY <1>4, <2>1, <2>2 DEF FinTyped, FinSound, Working
<1>8. ASSUME jobs'[s].status \in Completed, Held(s)
      PROVE  jobs'[s].summary = r /\ Holds(s, Radar, r)
             /\ (jobs'[s].status = "COMPLETED" => \A t \in Table : Holds(s, t, r))
  <2>1. Applied(answer) /\ jobs'[s].status = status /\ jobs'[s].summary = r
    BY <1>4, <1>6, <1>8 DEF Finalizable, Completed
  <2>2. Holds(s, Radar, r)
    BY <1>1, <1>3, <1>8, <2>1, TableFacts, VerdictIsTrue DEF Base, Radar
  <2>3. ASSUME status = "COMPLETED", NEW t \in Table PROVE Holds(s, t, r)
    <3>1. PICK i \in DOMAIN Tables : t = Tables[i]
      BY TableFacts DEF Base
    <3> QED
      BY <1>1, <1>3, <1>8, <2>3, <3>1, VerdictIsTrue
  <2> QED
    BY <2>1, <2>2, <2>3
<1>9. FullIsExact' /\ CompletedRadar'
  <2>1. \A q, t, w : Holds(q, t, w)' = Holds(q, t, w)
    BY <1>3 DEF Holds
  <2>2. \A q \in Scan : Held(q)' = Held(q)
    BY <1>3 DEF Held
  <2>3. FullIsExact /\ CompletedRadar
    BY DEF Base, PersistenceInvariant
  <2>4. FullIsExact'
    <3> SUFFICES ASSUME NEW q \in Scan, jobs'[q].status = "COMPLETED", Held(q), NEW t \in Table
                 PROVE  Holds(q, t, jobs'[q].summary)
      BY <2>1, <2>2 DEF FullIsExact
    <3>1. CASE q = s
      BY <1>8, <3>1 DEF Completed
    <3>2. CASE q # s
      BY <1>6, <2>3, <3>2 DEF FullIsExact
    <3> QED
      BY <3>1, <3>2
  <2>5. CompletedRadar'
    <3> SUFFICES ASSUME NEW q \in Scan, jobs'[q].status \in Completed, Held(q)
                 PROVE  Holds(q, Radar, jobs'[q].summary)
      BY <2>1, <2>2 DEF CompletedRadar
    <3>1. CASE q = s
      BY <1>8, <3>1
    <3>2. CASE q # s
      BY <1>6, <2>3, <3>2 DEF CompletedRadar
    <3> QED
      BY <3>1, <3>2
  <2> QED
    BY <2>4, <2>5
<1>10. DbTyped' /\ RadarOnly'
  BY <1>3, <1>6 DEF Base, PersistenceInvariant, Typed, DbTyped, RadarOnly
<1>11. PersistenceInvariant'
  BY <1>3, <1>7, <1>9, <1>10, ActionKeeps DEF Base
<1>12. Keeps \/ Publishes
  <2>1. CASE jobs'[s].status \in Completed
    BY <1>3, <1>4, <1>6, <2>1 DEF Publishes, Finalizable, Completed
  <2>2. CASE jobs'[s].status \notin Completed
    <3>1. jobs[s].status \notin Completed
      BY <1>4 DEF Finalizable, Completed
    <3> QED
      BY <1>3, <1>6, <2>2, <3>1 DEF Keeps, Quiet, Held
  <2> QED
    BY <2>1, <2>2
<1> QED
  BY <1>11, <1>12


-----------------------------------------------------------------------------
(* Every behaviour.                                                        *)

LEMMA InitSound == ASSUME ScanPersistenceAssumption, Init PROVE PersistenceInvariant
<1>1. FinTyped(Idle) /\ Idle.step = "idle" /\ Idle \in FinState
  BY IdleSound DEF FinTyped
<1>2. fin = [f \in Finalizer |-> Idle]
  BY DEF Init
<1>3. \A f \in Finalizer : FinTyped(fin[f]) /\ fin[f].step = "idle" /\ FinSound(fin[f])
  BY <1>1, <1>2, IdleSound DEF FinSound
<1>4. Typed
  <2>1. "NONE" \in Marks /\ "UNUSED" \in Statuses /\ MaxFaults \in Nat
    BY DEF Marks, Statuses, ScanPersistenceAssumption
  <2>2. rows \in [Scan -> [Table -> [Key -> Result \cup {NoRow}]]]
    BY DEF Init, NoRows
  <2>3. jobs \in [Scan -> JobState]
    BY <2>1 DEF Init, JobState
  <2>4. fin \in [Finalizer -> FinState] /\ faults \in 0..MaxFaults
    BY <1>1, <1>2, <2>1 DEF Init
  <2>5. runs \subseteq Scan /\ newer \subseteq Scan \X Scan /\ mark \in [Scan -> Marks]
    BY <2>1 DEF Init
  <2> QED
    BY <1>3, <2>2, <2>3, <2>4, <2>5 DEF Typed, DbTyped
<1>5. \A s \in Scan : jobs[s].status \notin Completed /\ ~Held(s)
  BY DEF Init, Held, Completed
<1>6. FullIsExact /\ CompletedRadar
  BY <1>5 DEF FullIsExact, CompletedRadar
<1>7. RadarOnly
  <2>1. \A s \in Scan, k \in Key : rows[s][Radar][k] = NoRow
    BY TableFacts DEF Init, NoRows
  <2> QED
    BY <2>1 DEF RadarOnly
<1>8. Exclusive
  BY <1>3 DEF Exclusive
<1> QED
  BY <1>3, <1>4, <1>6, <1>7, <1>8 DEF PersistenceInvariant

LEMMA StepSound ==
    ASSUME ScanPersistenceAssumption, ~Overlap, PersistenceInvariant, [Next]_vars
    PROVE  PersistenceInvariant' /\ (Keeps \/ Publishes)
<1>1. CASE UNCHANGED vars
  <2>1. Keeps
    BY <1>1 DEF vars, Keeps, Quiet, Held
  <2>2. PersistenceInvariant'
    <3>1. UNCHANGED rows /\ UNCHANGED runs /\ UNCHANGED jobs /\ UNCHANGED fin
      BY <1>1 DEF vars
    <3>2. \A f \in Finalizer : FinSound(fin[f])'
      <4> SUFFICES ASSUME NEW f \in Finalizer PROVE FinSound(fin[f])'
        OBVIOUS
      <4>1. PICK x : x = fin[f]
        OBVIOUS
      <4>2. FinSound(x) /\ Quiet(x.scan)
        BY <3>1, <4>1 DEF PersistenceInvariant, Quiet, Held
      <4>3. FinSound(x)'
        BY <4>2, SoundKept
      <4>4. fin'[f] = x
        BY <3>1, <4>1
      <4> QED
        BY <4>3, <4>4
    <3> QED
      BY <1>1, <2>1, <3>2, CommittedKept
         DEF vars, PersistenceInvariant, Typed, DbTyped, Exclusive, RadarOnly
  <2> QED
    BY <2>1, <2>2
<1>2. CASE Next
  <2>1. \A happens \in BOOLEAN : Fault(happens) => faults' \in 0..MaxFaults
    BY DEF Fault, PersistenceInvariant, Typed, ScanPersistenceAssumption
  <2>2. PICK f \in Finalizer :
           \/ Local(f) /\ Fault(FALSE)
           \/ Crash(f) /\ Fault(TRUE)
           \/ \E answer \in Answer : Request(f, answer) /\ Fault(answer # "ok")
           \/ \E fails \in BOOLEAN : (ReadBack(f, fails) \/ ReadOutcomes(f, fails)) /\ Fault(fails)
    BY <1>2 DEF Next
  <2>3. faults' \in 0..MaxFaults
    BY <2>1, <2>2
  <2>4. Base
    BY <2>3 DEF Base
  <2>5. CASE Local(f)
    BY <2>4, <2>5, BeginGoes, PostNothingGoes, PostNoOutcomesGoes, NewJobGoes, PruneListGoes DEF Local, Goes
  <2>6. CASE Crash(f)
    BY <2>4, <2>6, CrashGoes DEF Goes
  <2>7. ASSUME NEW answer \in Answer, Request(f, answer)
        PROVE  PersistenceInvariant' /\ (Keeps \/ Publishes)
    <3>1. CASE CommitJob(f, answer)
      BY <2>4, <3>1, CommitJobGoes
    <3>2. CASE PostRun(f, answer) \/ PostChunk(f, answer) \/ PostOutcomes(f, answer)
               \/ MarkWritten(f, answer) \/ MarkVerdict(f, answer) \/ Seed(f, answer) \/ PruneDelete(f, answer)
      BY <2>4, <3>2, PostRunGoes, PostChunkGoes, PostOutcomesGoes, MarkWrittenGoes, MarkVerdictGoes, SeedGoes,
         PruneDeleteGoes DEF Goes
    <3> QED
      BY <2>7, <3>1, <3>2 DEF Request
  <2>8. ASSUME NEW fails \in BOOLEAN, ReadBack(f, fails) \/ ReadOutcomes(f, fails)
        PROVE  PersistenceInvariant' /\ (Keeps \/ Publishes)
    BY <2>4, <2>8, ReadBackGoes, ReadOutcomesGoes DEF Goes
  <2> QED
    BY <2>2, <2>5, <2>6, <2>7, <2>8
<1> QED
  BY <1>1, <1>2

LEMMA AlwaysSound == ASSUME ~Overlap PROVE Spec => []PersistenceInvariant
<1>1. Init => PersistenceInvariant
  BY InitSound, ScanPersistenceAssumption
<1>2. PersistenceInvariant /\ [Next]_vars => PersistenceInvariant'
  BY StepSound, ScanPersistenceAssumption
<1> QED
  BY <1>1, <1>2, PTL DEF Spec

-----------------------------------------------------------------------------
(* The outcome memory.                                                     *)

OwnerTyped == owner \in [Outcome -> Scan \cup {NoScan, NoRow}]

\* Where the outcomes of a finalisation have been sent.
Sent == {"mark", "read", "read_outcomes", "verdict", "commit"}

\* The outcomes that were posted are remembered, all of them unless their table failed.
FinRemembers(x) ==
    /\ x.step \in {"post_run", "post"} => x.pending = x.outcomes
    /\ x.step = "post_outcomes" => x.outcomes \ x.pending \subseteq Remembered
    /\ x.step \in Sent /\ OutcomeTable \notin x.failed => x.outcomes \subseteq Remembered

OutcomeInvariant ==
    /\ OwnerTyped
    /\ \A f \in Finalizer : FinRemembers(fin[f])
    /\ OutcomesRemembered

\* Nothing is forgotten, and what is remembered anew is written alone.
Grows ==
    /\ Remembered \subseteq Remembered'
    /\ Remembered' = Remembered \/ UNCHANGED <<runs, rows, jobs>>

\* An upsert remembers what it writes, whoever had it.
LEMMA UpsertRemembers ==
    ASSUME ScanPersistenceAssumption, NEW s \in Scan, NEW ids \in SUBSET Outcome,
           OwnerTyped, UpsertOutcomes(s, ids)
    PROVE  OwnerTyped' /\ Remembered' = Remembered \cup ids
<1>1. s # NoRow
  BY DEF ScanPersistenceAssumption
<1>2. owner' = [o \in Outcome |-> IF o \in ids THEN s ELSE owner[o]]
  BY DEF UpsertOutcomes
<1>3. OwnerTyped'
  BY <1>2 DEF OwnerTyped
<1> QED
  BY <1>1, <1>2, <1>3 DEF Remembered

\* A deleted run leaves its outcomes without an owner.
LEMMA DeleteForgetsNothing ==
    ASSUME ScanPersistenceAssumption, NEW old \in SUBSET Scan, OwnerTyped, DeleteRuns(old)
    PROVE  OwnerTyped' /\ Remembered' = Remembered
<1>1. NoRow \notin Scan /\ NoRow # NoScan
  BY DEF ScanPersistenceAssumption
<1>2. owner' = [o \in Outcome |-> IF owner[o] \in old THEN NoScan ELSE owner[o]]
  BY DEF DeleteRuns
<1>3. OwnerTyped'
  BY <1>2 DEF OwnerTyped
<1>4. \A o \in Outcome : owner'[o] # NoRow <=> owner[o] # NoRow
  BY <1>1, <1>2
<1> QED
  BY <1>3, <1>4 DEF Remembered

\* One script run moves, and nothing is forgotten.
LEMMA ActionRemembers ==
    ASSUME PersistenceInvariant, OutcomeInvariant, OwnerTyped', Remembered \subseteq Remembered',
           NEW f \in Finalizer, NEW y, fin' = [fin EXCEPT ![f] = y], FinRemembers(y)',
           \A s \in Scan : jobs'[s].status = "COMPLETED" =>
              \/ jobs[s].status = "COMPLETED" /\ jobs'[s].outcomes = jobs[s].outcomes
              \/ jobs'[s].outcomes \subseteq Remembered'
    PROVE  OutcomeInvariant'
<1>1. /\ fin'[f] = y
      /\ \A g \in Finalizer \ {f} : fin'[g] = fin[g]
  BY DEF PersistenceInvariant, Typed
<1>2. ASSUME NEW g \in Finalizer PROVE FinRemembers(fin[g])'
  <2>1. PICK x : x = fin'[g]
    OBVIOUS
  <2>2. CASE g = f
    BY <1>1, <2>2
  <2>3. CASE g # f
    <3>1. x = fin[g] /\ FinRemembers(x)
      BY <1>1, <2>1, <2>3 DEF OutcomeInvariant
    <3>2. FinRemembers(x)'
      BY <3>1 DEF FinRemembers
    <3> QED
      BY <2>1, <3>2
  <2> QED
    BY <2>2, <2>3
<1>3. OutcomesRemembered'
  BY DEF OutcomeInvariant, OutcomesRemembered
<1> QED
  BY <1>2, <1>3 DEF OutcomeInvariant

OutcomeBase == ScanPersistenceAssumption /\ PersistenceInvariant /\ OutcomeInvariant

OutcomeGoes == OutcomeInvariant' /\ Grows

\* A step that writes no outcome and no job.
LEMMA QuietRemembers ==
    ASSUME OutcomeBase, UNCHANGED <<owner, jobs>>,
           NEW f \in Finalizer, NEW y, fin' = [fin EXCEPT ![f] = y], FinRemembers(y)
    PROVE  OutcomeGoes
<1>1. Remembered' = Remembered /\ OwnerTyped'
  BY DEF Remembered, OutcomeBase, OutcomeInvariant, OwnerTyped
<1>2. FinRemembers(y)'
  BY <1>1 DEF FinRemembers
<1>3. OutcomeInvariant'
  BY <1>1, <1>2, ActionRemembers DEF OutcomeBase
<1> QED
  BY <1>1, <1>3 DEF OutcomeGoes, Grows

LEMMA OutcomeOwn ==
    ASSUME OutcomeBase, NEW f \in Finalizer
    PROVE  fin[f] \in FinState /\ FinTyped(fin[f]) /\ FinSound(fin[f]) /\ FinRemembers(fin[f])
BY DEF OutcomeBase, PersistenceInvariant, OutcomeInvariant, Typed

\* A script run that is not at the outcomes yet, or has nothing to do with them.
LEMMA Apart ==
    ASSUME NEW x, x.step \in {"idle", "seed", "prune", "prune_delete"}
    PROVE  FinRemembers(x)
BY DEF FinRemembers, Sent

LEMMA BeginRemembers == ASSUME OutcomeBase, NEW f \in Finalizer, Begin(f) PROVE OutcomeGoes
<1>a. PICK s \in Scan, r \in Result, memory \in BOOLEAN :
         \E outcomes \in SUBSET (Remembered \cup Uploaded[s]) :
           /\ jobs[s].status \in Finalizable
           /\ Overlap \/ \A g \in Finalizer : fin[g].step # "idle" => fin[g].scan # s
           /\ fin' = [fin EXCEPT ![f] = [Idle EXCEPT !.step = "post_run", !.scan = s, !.result = r, !.memory = memory,
                                                     !.outcomes = outcomes, !.pending = outcomes]]
  BY Zenon DEF Begin, Put
<1>1. PICK outcomes \in SUBSET (Remembered \cup Uploaded[s]) :
         fin' = [fin EXCEPT ![f] = [Idle EXCEPT !.step = "post_run", !.scan = s, !.result = r, !.memory = memory,
                                                !.outcomes = outcomes, !.pending = outcomes]]
  BY <1>a, Zenon
<1> DEFINE y == [Idle EXCEPT !.step = "post_run", !.scan = s, !.result = r, !.memory = memory,
                             !.outcomes = outcomes, !.pending = outcomes]
<1>2. y.step = "post_run" /\ y.outcomes = outcomes /\ y.pending = outcomes
  BY DEF Idle
<1>3. fin' = [fin EXCEPT ![f] = y] /\ UNCHANGED <<owner, jobs>>
  BY <1>1 DEF Begin
<1> HIDE DEF y
<1>4. FinRemembers(y)
  BY <1>2 DEF FinRemembers, Sent
<1> QED
  BY <1>3, <1>4, QuietRemembers

LEMMA PostsRemember ==
    ASSUME OutcomeBase, NEW f \in Finalizer,
           NEW answer \in Answer, PostRun(f, answer) \/ PostChunk(f, answer) \/ PostNothing(f)
    PROVE  OutcomeGoes
<1>1. PICK x : x = fin[f]
  OBVIOUS
<1>2. x \in FinState /\ FinRemembers(x) /\ x.step \in {"post_run", "post"} /\ x.pending = x.outcomes
  BY <1>1, OutcomeOwn DEF PostRun, PostChunk, PostNothing, FinRemembers
<1>3. UNCHANGED <<owner, jobs>>
  BY DEF PostRun, PostChunk, PostNothing
<1>4. \E y : /\ fin' = [fin EXCEPT ![f] = y]
             /\ \/ y.step \in {"post", "post_outcomes"} /\ y.pending = x.pending /\ y.outcomes = x.outcomes
  <2>1. \A failed : LET y == NextTable(x, failed) IN
           y.step \in {"post", "post_outcomes"} /\ y.pending = x.pending /\ y.outcomes = x.outcomes
    BY <1>2 DEF NextTable, FinState
  <2>2. CASE PostRun(f, answer)
    <3>1. PICK failed : fin' = [fin EXCEPT ![f] = [x EXCEPT !.step = "post", !.table = 1, !.failed = failed]]
      BY <1>1, <2>2, Zenon DEF PostRun, Put
    <3>2. PICK y : y = [x EXCEPT !.step = "post", !.table = 1, !.failed = failed]
      OBVIOUS
    <3>3. y.step = "post" /\ y.pending = x.pending /\ y.outcomes = x.outcomes
      BY <1>2, <3>2 DEF FinState
    <3> QED
      BY <3>1, <3>2, <3>3
  <2>3. CASE PostNothing(f)
    <3>1. fin' = [fin EXCEPT ![f] = NextTable(x, x.failed)]
      BY <1>1, <2>3 DEF PostNothing, Put
    <3> QED
      BY <2>1, <3>1
  <2>4. CASE PostChunk(f, answer)
    <3>1. PICK upto, all, y :
            /\ fin' = [fin EXCEPT ![f] = y]
            /\ y = CASE answer # "ok" -> NextTable(x, x.failed \cup {x.table})
                     [] answer = "ok" /\ upto < Len(all) -> [x EXCEPT !.offset = upto]
                     [] OTHER -> NextTable(x, x.failed)
      BY <1>1, <2>4, Zenon DEF PostChunk, Put
    <3>2. CASE answer # "ok"
      BY <2>1, <3>1, <3>2
    <3>3. CASE answer = "ok" /\ upto < Len(all)
      <4>1. x.step = "post" /\ y = [x EXCEPT !.offset = upto]
        BY <1>1, <2>4, <3>1, <3>3 DEF PostChunk
      <4>2. y.step = "post" /\ y.pending = x.pending /\ y.outcomes = x.outcomes
        BY <1>2, <4>1 DEF FinState
      <4> QED
        BY <3>1, <4>2
    <3>4. CASE answer = "ok" /\ ~(upto < Len(all))
      BY <2>1, <3>1, <3>4
    <3> QED
      BY <3>2, <3>3, <3>4
  <2> QED
    BY <2>2, <2>3, <2>4
<1>5. PICK y : /\ fin' = [fin EXCEPT ![f] = y]
               /\ y.step \in {"post", "post_outcomes"} /\ y.pending = x.pending /\ y.outcomes = x.outcomes
  BY <1>4
<1>6. FinRemembers(y)
  BY <1>2, <1>5 DEF FinRemembers, Sent
<1> QED
  BY <1>3, <1>5, <1>6, QuietRemembers

LEMMA PostOutcomesRemembers ==
    ASSUME OutcomeBase, NEW f \in Finalizer, NEW answer \in Answer, PostOutcomes(f, answer)
    PROVE  OutcomeGoes
<1>1. PICK x : x = fin[f]
  OBVIOUS
<1>2. /\ x \in FinState /\ x.step = "post_outcomes" /\ x.scan \in Scan
      /\ x.outcomes \ x.pending \subseteq Remembered /\ x.pending \in SUBSET Outcome
      /\ UNCHANGED <<runs, rows, jobs>>
  BY <1>1, OutcomeOwn DEF PostOutcomes, FinRemembers, FinTyped, FinState
<1>3. PICK chunk \in SUBSET x.pending :
        /\ IF Applied(answer) THEN UpsertOutcomes(x.scan, chunk) ELSE UNCHANGED owner
        /\ fin' = [fin EXCEPT ![f] =
                  CASE answer # "ok" -> [x EXCEPT !.step = "mark", !.pending = {}, !.failed = @ \cup {OutcomeTable}]
                    [] answer = "ok" /\ chunk # x.pending -> [x EXCEPT !.pending = x.pending \ chunk]
                    [] OTHER -> [x EXCEPT !.step = "mark", !.pending = {}]]
  BY <1>1, Zenon DEF PostOutcomes, Put
<1>4. /\ OwnerTyped' /\ Remembered \subseteq Remembered'
      /\ answer = "ok" => chunk \subseteq Remembered'
  <2>1. OwnerTyped /\ ScanPersistenceAssumption
    BY DEF OutcomeBase, OutcomeInvariant
  <2>2. CASE Applied(answer)
    <3>1. PICK s \in Scan : s = x.scan
      BY <1>2
    <3>2. OwnerTyped' /\ Remembered' = Remembered \cup chunk
      BY <1>2, <1>3, <2>1, <2>2, <3>1, UpsertRemembers
    <3> QED
      BY <3>2
  <2>3. CASE ~Applied(answer)
    BY <1>3, <2>1, <2>3 DEF Applied, OwnerTyped, Remembered
  <2> QED
    BY <2>2, <2>3
<1>5. PICK y : y = CASE answer # "ok" -> [x EXCEPT !.step = "mark", !.pending = {}, !.failed = @ \cup {OutcomeTable}]
                     [] answer = "ok" /\ chunk # x.pending -> [x EXCEPT !.pending = x.pending \ chunk]
                     [] OTHER -> [x EXCEPT !.step = "mark", !.pending = {}]
  OBVIOUS
<1>6. FinRemembers(y)'
  <2>1. CASE answer # "ok"
    <3>1. y.step = "mark" /\ OutcomeTable \in y.failed
      BY <1>2, <1>5, <2>1 DEF FinState
    <3> QED
      BY <3>1 DEF FinRemembers, Sent
  <2>2. CASE answer = "ok" /\ chunk # x.pending
    <3>1. y.step = "post_outcomes" /\ y.outcomes = x.outcomes /\ y.pending = x.pending \ chunk
      BY <1>2, <1>5, <2>2 DEF FinState
    <3> QED
      BY <1>2, <1>4, <2>2, <3>1 DEF FinRemembers, Sent
  <2>3. CASE answer = "ok" /\ chunk = x.pending
    <3>1. y.step = "mark" /\ y.outcomes = x.outcomes
      BY <1>2, <1>5, <2>3 DEF FinState
    <3> QED
      BY <1>2, <1>4, <2>3, <3>1 DEF FinRemembers, Sent
  <2> QED
    BY <2>1, <2>2, <2>3
<1>7. fin' = [fin EXCEPT ![f] = y]
  BY <1>3, <1>5
<1>8. OutcomeInvariant'
  BY <1>2, <1>4, <1>6, <1>7, ActionRemembers DEF OutcomeBase
<1> QED
  BY <1>2, <1>4, <1>8 DEF OutcomeGoes, Grows

\* From the last POST to the verdict the outcomes and the failures stay what they are.
LEMMA ReadsRemember ==
    ASSUME OutcomeBase, NEW f \in Finalizer, NEW answer \in Answer, NEW fails \in BOOLEAN,
           \/ PostNoOutcomes(f) \/ MarkWritten(f, answer) \/ MarkVerdict(f, answer)
           \/ ReadBack(f, fails) \/ ReadOutcomes(f, fails)
    PROVE  OutcomeGoes
<1>1. PICK x : x = fin[f]
  OBVIOUS
<1>2. /\ x \in FinState /\ FinRemembers(x)
      /\ x.step \in Sent \/ (x.step = "post_outcomes" /\ x.pending = {})
  BY <1>1, OutcomeOwn DEF PostNoOutcomes, MarkWritten, MarkVerdict, ReadBack, ReadOutcomes, Sent
<1>3. UNCHANGED <<owner, jobs>>
  BY DEF PostNoOutcomes, MarkWritten, MarkVerdict, ReadBack, ReadOutcomes
<1>4. OutcomeTable \notin x.failed => x.outcomes \subseteq Remembered
  BY <1>2 DEF FinRemembers
<1>5. \E y : /\ fin' = [fin EXCEPT ![f] = y]
             /\ y.step \in Sent /\ y.outcomes = x.outcomes /\ y.failed = x.failed
  <2>3. CASE PostNoOutcomes(f)
    <3>1. fin' = [fin EXCEPT ![f] = [x EXCEPT !.step = "mark"]]
      BY <1>1, <2>3 DEF PostNoOutcomes, Put
    <3>2. PICK y : y = [x EXCEPT !.step = "mark"]
      OBVIOUS
    <3>3. y.step \in Sent /\ y.outcomes = x.outcomes /\ y.failed = x.failed
      BY <1>2, <3>2 DEF FinState, Sent
    <3> QED
      BY <3>1, <3>2, <3>3
  <2>4. CASE MarkVerdict(f, answer)
    <3>1. fin' = [fin EXCEPT ![f] = [x EXCEPT !.step = "commit"]]
      BY <1>1, <2>4 DEF MarkVerdict, Put
    <3>2. PICK y : y = [x EXCEPT !.step = "commit"]
      OBVIOUS
    <3>3. y.step \in Sent /\ y.outcomes = x.outcomes /\ y.failed = x.failed
      BY <1>2, <3>2 DEF FinState, Sent
    <3> QED
      BY <3>1, <3>2, <3>3
  <2>5. CASE MarkWritten(f, answer)
    <3>1. PICK done : fin' = [fin EXCEPT ![f] = [x EXCEPT !.step = "read", !.all = done]]
      BY <1>1, <2>5, Zenon DEF MarkWritten, Put
    <3>2. PICK y : y = [x EXCEPT !.step = "read", !.all = done]
      OBVIOUS
    <3>3. y.step \in Sent /\ y.outcomes = x.outcomes /\ y.failed = x.failed
      BY <1>2, <3>2 DEF FinState, Sent
    <3> QED
      BY <3>1, <3>2, <3>3
  <2>6. CASE ReadBack(f, fails)
    <3>1. PICK unverified, step, table :
            /\ fin' = [fin EXCEPT ![f] = [x EXCEPT !.unverified = unverified, !.step = step, !.table = table]]
            /\ step \in {"read_outcomes", "read"}
      <4>1. PICK step : step = IF x.table = Len(Tables) THEN "read_outcomes" ELSE "read"
        OBVIOUS
      <4>2. \E unverified, table :
              fin' = [fin EXCEPT ![f] = [x EXCEPT !.unverified = unverified, !.step = step, !.table = table]]
        BY <1>1, <2>6, <4>1, Zenon DEF ReadBack, Put
      <4> QED
        BY <4>1, <4>2
    <3>2. PICK y : y = [x EXCEPT !.unverified = unverified, !.step = step, !.table = table]
      OBVIOUS
    <3>3. y.step \in Sent /\ y.outcomes = x.outcomes /\ y.failed = x.failed
      BY <1>2, <3>1, <3>2 DEF FinState, Sent
    <3> QED
      BY <3>1, <3>2, <3>3
  <2>7. CASE ReadOutcomes(f, fails)
    <3>1. PICK unverified :
            fin' = [fin EXCEPT ![f] = [x EXCEPT !.unverified = unverified, !.step = "verdict"]]
      BY <1>1, <2>7, Zenon DEF ReadOutcomes, Put
    <3>2. PICK y : y = [x EXCEPT !.unverified = unverified, !.step = "verdict"]
      OBVIOUS
    <3>3. y.step \in Sent /\ y.outcomes = x.outcomes /\ y.failed = x.failed
      BY <1>2, <3>2 DEF FinState, Sent
    <3> QED
      BY <3>1, <3>2, <3>3
  <2> QED
    BY <2>3, <2>4, <2>5, <2>6, <2>7
<1>6. PICK y : /\ fin' = [fin EXCEPT ![f] = y]
               /\ y.step \in Sent /\ y.outcomes = x.outcomes /\ y.failed = x.failed
  BY <1>5
<1>7. FinRemembers(y)
  BY <1>4, <1>6 DEF FinRemembers, Sent
<1> QED
  BY <1>3, <1>6, <1>7, QuietRemembers

\* A job is COMPLETED only when no table failed.
LEMMA CommitJobRemembers ==
    ASSUME OutcomeBase, NEW f \in Finalizer, NEW answer \in Answer, CommitJob(f, answer)
    PROVE  OutcomeGoes
<1>1. PICK x, s, y : x = fin[f] /\ s = x.scan
                     /\ y = IF answer = "ok" THEN [Idle EXCEPT !.step = "seed", !.scan = s] ELSE Idle
  OBVIOUS
<1>2. /\ fin' = [fin EXCEPT ![f] = y] /\ UNCHANGED <<runs, rows, owner>> /\ x.step = "commit"
      /\ jobs' = IF Applied(answer)
                 THEN [jobs EXCEPT ![s] = [status |-> TerminalStatus(f), summary |-> x.result, outcomes |-> x.outcomes]]
                 ELSE jobs
  BY <1>1, Zenon DEF CommitJob, End, Put
<1>3. FinTyped(x) /\ FinSound(x) /\ FinRemembers(x) /\ s \in Scan
  BY <1>1, <1>2, OutcomeOwn DEF FinTyped
<1>4. Remembered' = Remembered /\ OwnerTyped'
  BY <1>2 DEF Remembered, OutcomeBase, OutcomeInvariant, OwnerTyped
<1>5. ASSUME TerminalStatus(f) = "COMPLETED" PROVE x.outcomes \subseteq Remembered
  <2>1. FullyPersisted(f)
    <3>1. CASE 1 \in fin[f].failed
      BY <1>5, <3>1 DEF TerminalStatus
    <3>2. CASE 1 \notin fin[f].failed /\ ~FullyPersisted(f)
      BY <1>5, <3>2 DEF TerminalStatus
    <3> QED
      BY <3>1, <3>2
  <2>2. x.failed = {}
    BY <1>1, <1>2, <1>3, <2>1 DEF FullyPersisted, FinSound, Working
  <2> QED
    BY <1>2, <1>3, <2>2 DEF FinRemembers, Sent
<1>6. \A q \in Scan : jobs'[q].status = "COMPLETED" =>
          \/ jobs[q].status = "COMPLETED" /\ jobs'[q].outcomes = jobs[q].outcomes
          \/ jobs'[q].outcomes \subseteq Remembered'
  <2>1. jobs \in [Scan -> JobState]
    BY DEF OutcomeBase, PersistenceInvariant, Typed, DbTyped
  <2>2. CASE Applied(answer)
    <3>1. PICK status, job : /\ status = TerminalStatus(f)
                             /\ job = [status |-> status, summary |-> x.result, outcomes |-> x.outcomes]
      OBVIOUS
    <3>2. jobs' = [jobs EXCEPT ![s] = job]
      BY <1>2, <2>2, <3>1
    <3>3. jobs'[s] = job /\ \A q \in Scan \ {s} : jobs'[q] = jobs[q]
      BY <1>3, <2>1, <3>2
    <3>4. job.status = "COMPLETED" => job.outcomes \subseteq Remembered'
      BY <1>4, <1>5, <3>1
    <3> QED
      BY <3>3, <3>4
  <2>3. CASE ~Applied(answer)
    BY <1>2, <2>3
  <2> QED
    BY <2>2, <2>3
<1>7. FinRemembers(y)'
  <2>1. y.step \in {"idle", "seed"}
    BY <1>1 DEF Idle
  <2> QED
    BY <2>1 DEF FinRemembers, Sent
<1>8. OutcomeInvariant'
  BY <1>2, <1>4, <1>6, <1>7, ActionRemembers DEF OutcomeBase
<1> QED
  BY <1>4, <1>8 DEF OutcomeGoes, Grows

LEMMA SeedRemembers ==
    ASSUME OutcomeBase, NEW f \in Finalizer, NEW answer \in Answer, Seed(f, answer) PROVE OutcomeGoes
<1>1. PICK x, y : x = fin[f] /\ y = [x EXCEPT !.step = "prune"]
  OBVIOUS
<1>2. /\ x \in FinState /\ x.step = "seed" /\ x.scan \in Scan /\ UNCHANGED <<runs, rows, jobs>>
      /\ fin' = [fin EXCEPT ![f] = y]
      /\ UNCHANGED owner \/ \E seeds \in SUBSET Seeds[x.scan] : UpsertOutcomes(x.scan, seeds)
  BY <1>1, OutcomeOwn, Zenon DEF Seed, Put, FinTyped
<1>3. OwnerTyped' /\ Remembered \subseteq Remembered'
  <2>1. OwnerTyped /\ ScanPersistenceAssumption
    BY DEF OutcomeBase, OutcomeInvariant
  <2>2. CASE UNCHANGED owner
    BY <2>1, <2>2 DEF OwnerTyped, Remembered
  <2>3. CASE \E seeds \in SUBSET Seeds[x.scan] : UpsertOutcomes(x.scan, seeds)
    <3>1. PICK s \in Scan : s = x.scan
      BY <1>2
    <3>2. PICK seeds \in SUBSET Outcome : UpsertOutcomes(s, seeds)
      BY <2>1, <2>3, <3>1 DEF ScanPersistenceAssumption
    <3>3. OwnerTyped' /\ Remembered' = Remembered \cup seeds
      BY <2>1, <3>2, UpsertRemembers
    <3> QED
      BY <3>3
  <2> QED
    BY <1>2, <2>2, <2>3
<1>4. FinRemembers(y)'
  <2>1. y.step = "prune"
    BY <1>1, <1>2 DEF FinState
  <2> QED
    BY <2>1 DEF FinRemembers, Sent
<1>5. OutcomeInvariant'
  BY <1>2, <1>3, <1>4, ActionRemembers DEF OutcomeBase
<1> QED
  BY <1>2, <1>3, <1>5 DEF OutcomeGoes, Grows

\* Starting a job, listing old runs, and ending, forget nothing.
LEMMA ApartRemembers ==
    ASSUME OutcomeBase, NEW f \in Finalizer, NewJob(f) \/ PruneList(f) \/ Crash(f) PROVE OutcomeGoes
<1>1. PICK x : x = fin[f]
  OBVIOUS
<1>2. x \in FinState /\ UNCHANGED <<owner, jobs>>
  BY <1>1, OutcomeOwn DEF NewJob, PruneList, Crash
<1>3. \E y : fin' = [fin EXCEPT ![f] = y] /\ y.step \in {"idle", "prune", "prune_delete"}
  <2>1. CASE NewJob(f)
    <3>1. PICK s : fin' = [fin EXCEPT ![f] = [Idle EXCEPT !.step = "prune", !.scan = s]]
      BY <2>1, Zenon DEF NewJob, Put
    <3>2. PICK y : y = [Idle EXCEPT !.step = "prune", !.scan = s]
      OBVIOUS
    <3>3. y.step = "prune"
      BY <3>2 DEF Idle
    <3> QED
      BY <3>1, <3>2, <3>3
  <2>2. CASE PruneList(f)
    <3>1. PICK old : fin' = [fin EXCEPT ![f] = [x EXCEPT !.step = "prune_delete", !.old = old]]
      BY <1>1, <2>2, Zenon DEF PruneList, Put
    <3>2. PICK y : y = [x EXCEPT !.step = "prune_delete", !.old = old]
      OBVIOUS
    <3>3. y.step = "prune_delete"
      BY <1>2, <3>2 DEF FinState
    <3> QED
      BY <3>1, <3>2, <3>3
  <2>3. CASE Crash(f)
    <3>1. fin' = [fin EXCEPT ![f] = Idle] /\ Idle.step = "idle"
      BY <2>3, IdleSound DEF Crash, End, Put
    <3> QED
      BY <3>1, Zenon
  <2> QED
    BY <2>1, <2>2, <2>3
<1>4. PICK y : fin' = [fin EXCEPT ![f] = y] /\ y.step \in {"idle", "prune", "prune_delete"}
  BY <1>3, Zenon
<1>5. FinRemembers(y)
  BY <1>4, Apart
<1> QED
  BY <1>2, <1>4, <1>5, QuietRemembers

\* Runs are deleted, the outcomes they own stay.
LEMMA PruneDeleteRemembers ==
    ASSUME OutcomeBase, NEW f \in Finalizer, NEW answer \in Answer, PruneDelete(f, answer) PROVE OutcomeGoes
<1>1. PICK s, old : s = fin[f].scan /\ old = fin[f].old
  OBVIOUS
<1>2. /\ s \in Scan /\ old \in SUBSET Scan /\ fin' = [fin EXCEPT ![f] = Idle]
      /\ jobs' = IF jobs[s].status = "UNUSED" THEN [jobs EXCEPT ![s].status = "FINALIZE"] ELSE jobs
      /\ IF Applied(answer) THEN DeleteRuns(old) ELSE UNCHANGED <<runs, newer, mark, rows, owner>>
  BY <1>1, OutcomeOwn DEF PruneDelete, End, Put, FinTyped, FinState
<1>3. OwnerTyped /\ ScanPersistenceAssumption /\ jobs \in [Scan -> JobState]
  BY DEF OutcomeBase, OutcomeInvariant, PersistenceInvariant, Typed, DbTyped
<1>4. OwnerTyped' /\ Remembered' = Remembered
  <2>1. CASE Applied(answer)
    BY <1>2, <1>3, <2>1, DeleteForgetsNothing
  <2>2. CASE ~Applied(answer)
    BY <1>2, <1>3, <2>2 DEF OwnerTyped, Remembered
  <2> QED
    BY <2>1, <2>2
<1>5. \A q \in Scan : jobs'[q].status = "COMPLETED" => jobs'[q] = jobs[q]
  <2>1. CASE jobs[s].status = "UNUSED"
    <3>1. PICK new : new = [jobs[s] EXCEPT !.status = "FINALIZE"]
      OBVIOUS
    <3>2. jobs' = [jobs EXCEPT ![s] = new] /\ new.status = "FINALIZE"
      BY <1>2, <1>3, <2>1, <3>1 DEF JobState
    <3> QED
      BY <1>2, <1>3, <3>2
  <2>2. CASE jobs[s].status # "UNUSED"
    BY <1>2, <2>2
  <2> QED
    BY <2>1, <2>2
<1>6. FinRemembers(Idle)'
  BY DEF Idle, FinRemembers, Sent
<1>7. OutcomeInvariant'
  BY <1>2, <1>4, <1>5, <1>6, ActionRemembers DEF OutcomeBase
<1> QED
  BY <1>4, <1>7 DEF OutcomeGoes, Grows

LEMMA OutcomeStep ==
    ASSUME ScanPersistenceAssumption, PersistenceInvariant, OutcomeInvariant, [Next]_vars
    PROVE  OutcomeInvariant' /\ Grows
<1>1. OutcomeBase
  BY DEF OutcomeBase
<1>2. CASE UNCHANGED vars
  <2>1. UNCHANGED <<owner, jobs, fin, runs, rows>>
    BY <1>2 DEF vars
  <2>2. Remembered' = Remembered
    BY <2>1 DEF Remembered
  <2> QED
    BY <2>1, <2>2 DEF OutcomeInvariant, Grows, OwnerTyped, FinRemembers, OutcomesRemembered
<1>3. CASE Next
  <2>1. PICK f \in Finalizer :
           \/ Local(f)
           \/ Crash(f)
           \/ \E answer \in Answer : Request(f, answer)
           \/ \E fails \in BOOLEAN : ReadBack(f, fails) \/ ReadOutcomes(f, fails)
    BY <1>3 DEF Next
  <2>2. "ok" \in Answer
    BY DEF Answer
  <2>3. CASE Local(f)
    BY <1>1, <2>2, <2>3, BeginRemembers, PostsRemember, ReadsRemember, ApartRemembers DEF Local, OutcomeGoes
  <2>4. CASE Crash(f)
    BY <1>1, <2>4, ApartRemembers DEF OutcomeGoes
  <2>5. ASSUME NEW answer \in Answer, Request(f, answer) PROVE OutcomeGoes
    <3>1. CASE PostRun(f, answer) \/ PostChunk(f, answer) \/ PostOutcomes(f, answer)
      BY <1>1, <3>1, PostsRemember, PostOutcomesRemembers
    <3>2. CASE MarkWritten(f, answer) \/ MarkVerdict(f, answer)
      BY <1>1, <3>2, ReadsRemember
    <3>3. CASE CommitJob(f, answer) \/ Seed(f, answer) \/ PruneDelete(f, answer)
      BY <1>1, <3>3, CommitJobRemembers, SeedRemembers, PruneDeleteRemembers
    <3> QED
      BY <2>5, <3>1, <3>2, <3>3 DEF Request
  <2>6. ASSUME NEW fails \in BOOLEAN, ReadBack(f, fails) \/ ReadOutcomes(f, fails) PROVE OutcomeGoes
    BY <1>1, <2>2, <2>6, ReadsRemember
  <2> QED
    BY <2>1, <2>3, <2>4, <2>5, <2>6 DEF OutcomeGoes
<1> QED
  BY <1>2, <1>3

LEMMA InitRemembers == ASSUME ScanPersistenceAssumption, Init PROVE OutcomeInvariant
<1>1. OwnerTyped
  BY DEF Init, OwnerTyped
<1>2. \A f \in Finalizer : FinRemembers(fin[f])
  BY DEF Init, Idle, FinRemembers, Sent
<1>3. OutcomesRemembered
  BY DEF Init, OutcomesRemembered
<1> QED
  BY <1>1, <1>2, <1>3 DEF OutcomeInvariant

LEMMA AlwaysRemembers == ASSUME ~Overlap PROVE Spec => []OutcomeInvariant
<1>1. Init => OutcomeInvariant
  BY InitRemembers, ScanPersistenceAssumption
<1>2. PersistenceInvariant /\ OutcomeInvariant /\ [Next]_vars => OutcomeInvariant'
  BY OutcomeStep, ScanPersistenceAssumption
<1>3. Spec => []PersistenceInvariant
  BY AlwaysSound
<1> QED
  BY <1>1, <1>2, <1>3, PTL DEF Spec

-----------------------------------------------------------------------------
(* The properties.                                                         *)

\* The state of the persistence keeps its type.
THEOREM TypeCorrect == ASSUME ~Overlap PROVE Spec => []TypeOK
<1>1. PersistenceInvariant /\ OutcomeInvariant => TypeOK
  BY DEF PersistenceInvariant, Typed, DbTyped, OutcomeInvariant, OwnerTyped, TypeOK
<1> QED
  BY <1>1, AlwaysSound, AlwaysRemembers, PTL

\* finalize_scan_persistence: as long as no two script runs finalise one scan, a job that
\* says COMPLETED has, in every table whose rows belong to its scan, exactly the rows of
\* the result in its summary, whatever requests failed in this and in earlier attempts.
\* Nothing is said here of the outcome memory, whose rows are shared.
THEOREM FullVerdictIsExact == ASSUME ~Overlap PROVE Spec => []FullIsExact
<1>1. PersistenceInvariant => FullIsExact
  BY DEF PersistenceInvariant
<1> QED
  BY <1>1, AlwaysSound, PTL

\* cak_outcome_memory: the outcomes a COMPLETED job was made with are remembered for good,
\* although other scans take their rows, counts may be met by other rows, and the run that
\* wrote them is pruned.
THEOREM OutcomesKept == ASSUME ~Overlap PROVE Spec => []OutcomesRemembered
<1>1. OutcomeInvariant => OutcomesRemembered
  BY DEF OutcomeInvariant
<1> QED
  BY <1>1, AlwaysRemembers, PTL

\* finalize_job: a job that completes, with partial persistence too, can show its radar.
THEOREM RadarIsExact == ASSUME ~Overlap PROVE Spec => []CompletedRadar
<1>1. PersistenceInvariant => CompletedRadar
  BY DEF PersistenceInvariant
<1> QED
  BY <1>1, AlwaysSound, PTL

-----------------------------------------------------------------------------
(* The refinement.                                                         *)

VerdictMap == [s \in Scan |-> Published(s)]
TablesHeld(s) == IF jobs[s].status \in Completed /\ Held(s)
                 THEN {t \in Table : Holds(s, t, jobs[s].summary)} ELSE {}
HeldMap == [s \in Scan |-> TablesHeld(s)]

\* A scan that is left alone shows what it showed, unless its run is gone.
LEMMA QuietShows ==
    ASSUME NEW s \in Scan,
           Quiet(s) \/ (jobs[s].status \notin Completed /\ jobs'[s].status \notin Completed)
    PROVE  /\ Published(s)' = Published(s)
           /\ TablesHeld(s)' = IF ~Held(s)' THEN {} ELSE TablesHeld(s)
<1>1. CASE jobs[s].status \notin Completed /\ jobs'[s].status \notin Completed
  BY <1>1 DEF Published, TablesHeld, Completed
<1>2. CASE Quiet(s)
  <2>1. Published(s)' = Published(s)
    BY <1>2 DEF Quiet, Published
  <2>2. CASE ~Held(s)'
    BY <2>1, <2>2 DEF TablesHeld
  <2>3. CASE Held(s)'
    BY <1>2, <2>1, <2>3 DEF Quiet, TablesHeld, Holds
  <2> QED
    BY <2>1, <2>2, <2>3
<1> QED
  BY <1>1, <1>2

\* A step that publishes nothing drops the rows of the runs it deletes.
LEMMA KeepsIsDrop ==
    ASSUME Keeps
    PROVE  /\ VerdictMap' = VerdictMap
           /\ HeldMap' = [s \in Scan |-> IF s \in {q \in Scan : ~Held(q)'} THEN {} ELSE HeldMap[s]]
<1>1. \A s \in Scan : /\ Published(s)' = Published(s)
                      /\ TablesHeld(s)' = IF ~Held(s)' THEN {} ELSE TablesHeld(s)
  BY QuietShows DEF Keeps
<1> QED
  BY <1>1 DEF VerdictMap, HeldMap

\* What is shown depends on the runs, their rows and the jobs alone.
LEMMA NothingShown ==
    ASSUME UNCHANGED <<runs, rows, jobs>>
    PROVE  VerdictMap' = VerdictMap /\ HeldMap' = HeldMap
BY DEF VerdictMap, HeldMap, Published, TablesHeld, Held, Holds

\* The terminal patch publishes all tables or at least the radar, or the run is gone.
LEMMA PublishesIsPublish ==
    ASSUME Publishes, FullIsExact', CompletedRadar', ScanPersistenceAssumption
    PROVE  \E s \in Scan, full \in BOOLEAN, tables \in SUBSET Table :
             /\ VerdictMap[s] = "unpublished"
             /\ tables # {} => Radar \in tables
             /\ full /\ tables # {} => tables = Table
             /\ VerdictMap' = [VerdictMap EXCEPT ![s] = IF full THEN "full" ELSE "partial"]
             /\ HeldMap' = [HeldMap EXCEPT ![s] = tables]
<1>1. PICK s \in Scan :
        /\ jobs[s].status \notin Completed /\ jobs'[s].status \in Completed
        /\ \A q \in Scan \ {s} : jobs'[q] = jobs[q]
        /\ UNCHANGED <<runs, rows>>
  BY DEF Publishes
<1>2. PICK full, tables : full = (jobs'[s].status = "COMPLETED") /\ tables = TablesHeld(s)'
  OBVIOUS
<1>3. full \in BOOLEAN /\ tables \in SUBSET Table
  BY <1>2 DEF TablesHeld
<1>4. VerdictMap[s] = "unpublished"
  BY <1>1 DEF VerdictMap, Published, Completed
<1>5. tables # {} => Radar \in tables
  BY <1>1, <1>2, TableFacts DEF TablesHeld, CompletedRadar
<1>6. full /\ tables # {} => tables = Table
  BY <1>1, <1>2 DEF TablesHeld, FullIsExact
<1>7. Published(s)' = IF full THEN "full" ELSE "partial"
  BY <1>1, <1>2 DEF Published, Completed
<1>8. \A q \in Scan \ {s} : Published(q)' = Published(q) /\ TablesHeld(q)' = TablesHeld(q)
  BY <1>1 DEF Published, TablesHeld, Held, Holds
<1>9. VerdictMap' = [VerdictMap EXCEPT ![s] = IF full THEN "full" ELSE "partial"]
  BY <1>7, <1>8 DEF VerdictMap
<1>10. HeldMap' = [HeldMap EXCEPT ![s] = tables]
  BY <1>2, <1>8 DEF HeldMap
<1> QED
  BY <1>3, <1>4, <1>5, <1>6, <1>9, <1>10

\* persist_scan to _combined_persistence_state: whatever requests fail, a result is
\* published in one step, with a verdict that is true then, and its rows are only
\* dropped together; as long as no two script runs finalise one scan.
THEOREM ImplementsCommit == ASSUME ~Overlap PROVE Spec => CommitSpec
<1> USE ScanPersistenceAssumption
<1>1. Init => Commit!Init
  <2> SUFFICES ASSUME Init PROVE Commit!Init
    OBVIOUS
  <2>1. \A s \in Scan : Published(s) = "unpublished" /\ TablesHeld(s) = {}
    BY DEF Init, Published, TablesHeld, Completed
  <2>2. Remembered = {}
    BY DEF Init, Remembered
  <2> QED
    BY <2>1, <2>2 DEF Commit!Init, TablesHeld
<1>2. PersistenceInvariant /\ OutcomeInvariant /\ [Next]_vars => Commit!Next
  <2> SUFFICES ASSUME PersistenceInvariant, OutcomeInvariant, [Next]_vars
               PROVE  Commit!Next
    OBVIOUS
  <2>1. PersistenceInvariant' /\ (Keeps \/ Publishes)
    BY StepSound
  <2>2. Grows
    BY OutcomeStep
  <2>3. CASE Remembered' # Remembered
    <3>1. UNCHANGED <<runs, rows, jobs>>
      BY <2>2, <2>3 DEF Grows
    <3>2. VerdictMap' = VerdictMap /\ HeldMap' = HeldMap
      BY <3>1, NothingShown
    <3>3. PICK outcomes \in SUBSET Outcome : outcomes = Remembered'
      BY DEF Remembered
    <3>4. Commit!Remember(outcomes)
      BY <2>2, <3>2, <3>3 DEF Commit!Remember, Grows, VerdictMap, HeldMap, TablesHeld
    <3> QED
      BY <3>4 DEF Commit!Next
  <2>4. CASE Keeps /\ Remembered' = Remembered
    <3>1. PICK dropped \in SUBSET Scan : dropped = {q \in Scan : ~Held(q)'}
      OBVIOUS
    <3>2. /\ VerdictMap' = VerdictMap
          /\ HeldMap' = [s \in Scan |-> IF s \in dropped THEN {} ELSE HeldMap[s]]
      BY <2>4, <3>1, KeepsIsDrop
    <3>3. Commit!Drop(dropped)
      BY <2>4, <3>2 DEF Commit!Drop, VerdictMap, HeldMap, TablesHeld
    <3> QED
      BY <3>3 DEF Commit!Next
  <2>5. CASE Publishes /\ Remembered' = Remembered
    <3>1. FullIsExact' /\ CompletedRadar'
      BY <2>1 DEF PersistenceInvariant
    <3>2. \E s \in Scan, full \in BOOLEAN, tables \in SUBSET Table : Commit!Publish(s, full, tables)
      BY <2>5, <3>1, PublishesIsPublish DEF Commit!Publish, VerdictMap, HeldMap, TablesHeld
    <3> QED
      BY <3>2 DEF Commit!Next
  <2> QED
    BY <2>1, <2>3, <2>4, <2>5
<1>3. Spec => []PersistenceInvariant
  BY AlwaysSound
<1>4. Spec => []OutcomeInvariant
  BY AlwaysRemembers
<1> QED
  BY <1>1, <1>2, <1>3, <1>4, PTL DEF Spec, CommitSpec, Commit!Spec
=============================================================================
