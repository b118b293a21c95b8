--------------------------- MODULE ScanPersistence ---------------------------
(***************************************************************************)
(* How the result of a scan gets into the database, and out of it again.   *)
(*                                                                         *)
(* A finalisation writes the cak_scan_runs row and the result tables one   *)
(* POST after the other, last the outcome memory, marks the run, reads     *)
(* every table back by count, marks the run again with the verdict,        *)
(* patches the job, seeds outcomes and prunes old scan runs.  Every one of *)
(* these requests may be refused, or may be applied although its answer is *)
(* lost.  A job that is not completed is finalised again, with a result    *)
(* computed anew from the caches.                                          *)
(*                                                                         *)
(* The rows of the result tables belong to one scan: their ids contain it, *)
(* their count is exact and they go with its run.  The rows of the outcome *)
(* memory are shared: every scan writes again what it loaded of earlier    *)
(* ones, which makes the rows its own, a scan may have more of them than   *)
(* it expects, and they stay when the run that owns them is deleted.       *)
(***************************************************************************)
EXTENDS Naturals, Sequences, FiniteSets

CONSTANTS
    Scan,        \* scan ids
    NoScan,      \* an idle script run works on no scan
    Finalizer,   \* script runs that finalise
    Tables,      \* the result tables whose rows belong to one scan, in the order of the writes
    Key,         \* row ids within one scan
    Result,      \* what a finalisation may compute
    Rows,        \* Rows[r][t]: the row ids of result r for table t
    NoRow,       \* no row with this id
    Outcome,     \* row ids of cak_outcome_memory, the same for all scans
    Uploaded,    \* Uploaded[s]: the outcomes a user may have given to the job of scan s
    Seeds,       \* Seeds[s]: the outcomes the maintenance may seed from the radar of scan s
    ChunkRows,   \* rows of one POST
    KeepRuns,    \* scan runs a prune keeps (2)
    MaxFaults,   \* requests that fail, and script runs that end early, in one behaviour
    Overlap      \* two script runs may finalise the same scan

Table == {Tables[i] : i \in DOMAIN Tables}
Radar == Tables[1]

Image(seq) == {seq[i] : i \in DOMAIN seq}
Distinct(seq) == \A i, k \in DOMAIN seq : seq[i] = seq[k] => i = k

ASSUME ScanPersistenceAssumption ==
    /\ Tables \in Seq(STRING) /\ Tables # <<>> /\ Distinct(Tables)
    /\ Rows \in [Result -> [Table -> Seq(Key)]] /\ IsFiniteSet(Key)
    /\ \A r \in Result : \A t \in Table : Distinct(Rows[r][t])
    \* The radar has a row for every ticker of the universe, which a job never changes.
    /\ \A r, q \in Result : Image(Rows[r][Radar]) = Image(Rows[q][Radar])
    /\ \A r \in Result : Rows[r][Radar] # <<>>
    /\ NoRow \notin Result /\ NoScan \notin Scan /\ NoRow \notin Scan \cup {NoScan}
    /\ Uploaded \in [Scan -> SUBSET Outcome] /\ Seeds \in [Scan -> SUBSET Outcome]
    /\ IsFiniteSet(Outcome)
    /\ ChunkRows \in Nat \ {0} /\ KeepRuns \in Nat \ {0} /\ Overlap \in BOOLEAN
    /\ MaxFaults \in Nat

VARIABLES
    runs,   \* scans with a cak_scan_runs row
    newer,  \* their order by created_at: the first was created after the second
    mark,   \* cak_scan_runs.status
    rows,   \* the rows of a scan: by id, the result each was written from
    owner,  \* cak_outcome_memory.scan_id by outcome: NoScan for null, NoRow when there is no row
    jobs,   \* status and result_summary of a scan's job, and the outcomes it was made with
    fin,    \* the finalisations under way
    faults  \* faults so far

vars == <<runs, newer, mark, rows, owner, jobs, fin, faults>>

Marks == {"NONE", "PERSISTING", "PERSISTED_PENDING_READBACK", "WRITE_PARTIAL",
          "VERIFIED_COMMITTED", "PARTIAL_PERSISTENCE"}
Completed == {"COMPLETED", "COMPLETED_PARTIAL_PERSISTENCE"}
Finalizable == {"FINALIZE", "FINALIZE_RETRY_REQUIRED"}
Statuses == {"UNUSED"} \cup Finalizable \cup Completed
Steps == {"idle", "post_run", "post", "post_outcomes", "mark", "read", "read_outcomes", "verdict",
          "commit", "seed", "prune", "prune_delete"}

\* cak_outcome_memory comes behind the result tables.
OutcomeTable == Len(Tables) + 1

\* table is the index of the table at work, 0 for cak_scan_runs; outcomes are the ones to
\* write, pending the ones not posted yet.
Idle == [step |-> "idle", scan |-> NoScan, result |-> NoRow, memory |-> TRUE,
         table |-> 0, offset |-> 0, outcomes |-> {}, pending |-> {},
         failed |-> {}, unverified |-> {}, all |-> FALSE, old |-> {}]

FinState == [step : Steps, scan : Scan \cup {NoScan}, result : Result \cup {NoRow}, memory : BOOLEAN,
             table : 0..Len(Tables), offset : Nat,
             outcomes : SUBSET Outcome, pending : SUBSET Outcome,
             failed : SUBSET (0..OutcomeTable), unverified : SUBSET (0..OutcomeTable),
             all : BOOLEAN, old : SUBSET Scan]
JobState == [status : Statuses, summary : Result \cup {NoRow}, outcomes : SUBSET Outcome]

TypeOK ==
    /\ runs \subseteq Scan /\ newer \subseteq Scan \X Scan
    /\ mark \in [Scan -> Marks]
    /\ rows \in [Scan -> [Table -> [Key -> Result \cup {NoRow}]]]
    /\ owner \in [Outcome -> Scan \cup {NoScan, NoRow}]
    /\ jobs \in [Scan -> JobState]
    /\ fin \in [Finalizer -> FinState]
    /\ faults \in 0..MaxFaults

NoRows == [t \in Table |-> [k \in Key |-> NoRow]]

Init ==
    /\ runs = {} /\ newer = {}
    /\ mark = [s \in Scan |-> "NONE"]
    /\ rows = [s \in Scan |-> NoRows]
    /\ owner = [o \in Outcome |-> NoRow]
    /\ jobs = [s \in Scan |-> [status |-> "UNUSED", summary |-> NoRow, outcomes |-> {}]]
    /\ fin = [f \in Finalizer |-> Idle]
    /\ faults = 0

-----------------------------------------------------------------------------
(* The database.                                                           *)

Held(s) == s \in runs

\* A request is applied and answered, refused, or applied with its answer lost.
Answer == {"ok", "refused", "lost"}
Fault(happens) == /\ faults' = IF happens THEN faults + 1 ELSE faults
                  /\ faults' <= MaxFaults
Applied(answer) == answer # "refused"

SetMark(s, status) == mark' = [mark EXCEPT ![s] = status]

\* Upsert on scan_id; created_at is the column's default, so only an insert sets it.
UpsertRun(s) ==
    /\ runs' = runs \cup {s}
    /\ newer' = IF Held(s) THEN newer ELSE newer \cup {<<s, q>> : q \in runs}
    /\ SetMark(s, "PERSISTING")

\* Upsert on the row id.  Every result table has a foreign key on cak_scan_runs.
UpsertRows(s, t, keys, r) ==
    rows' = [rows EXCEPT ![s][t] = [k \in Key |-> IF k \in keys THEN r ELSE @[k]]]

\* Upsert on outcome_id: the row of another scan becomes a row of this one.
UpsertOutcomes(s, ids) == owner' = [o \in Outcome |-> IF o \in ids THEN s ELSE owner[o]]

Remembered == {o \in Outcome : owner[o] # NoRow}

\* Mutant: the outcomes go with the run that owns them.
DeleteRuns_CascadesOutcomes(old) ==
    /\ runs' = runs \ old
    /\ newer' = {p \in newer : {p[1], p[2]} \cap old = {}}
    /\ mark' = [s \in Scan |-> IF s \in old THEN "NONE" ELSE mark[s]]
    /\ rows' = [s \in Scan |-> IF s \in old THEN NoRows ELSE rows[s]]
    /\ owner' = [o \in Outcome |-> IF owner[o] \in old THEN NoRow ELSE owner[o]]

\* DELETE of runs: ON DELETE CASCADE on the result tables, SET NULL on the outcome memory.
DeleteRuns(old) ==
    /\ runs' = runs \ old
    /\ newer' = {p \in newer : {p[1], p[2]} \cap old = {}}
    /\ mark' = [s \in Scan |-> IF s \in old THEN "NONE" ELSE mark[s]]
    /\ rows' = [s \in Scan |-> IF s \in old THEN NoRows ELSE rows[s]]
    /\ owner' = [o \in Outcome |-> IF owner[o] \in old THEN NoScan ELSE owner[o]]

Count(s, t) == Cardinality({k \in Key : rows[s][t][k] # NoRow})
CountOutcomes(s) == Cardinality({o \in Outcome : owner[o] = s})

-----------------------------------------------------------------------------
(* persist_scan                                                            *)

Put(f, state) == fin' = [fin EXCEPT ![f] = state]
End(f) == Put(f, Idle)

\* Mutant: a finished job can be finalised again.
Begin_Again(f) ==
    /\ fin[f].step = "idle"
    /\ \E s \in Scan, r \in Result, memory \in BOOLEAN :
         /\ jobs[s].status # "UNUSED"
         /\ \A g \in Finalizer : fin[g].step # "idle" => fin[g].scan # s
         /\ Put(f, [Idle EXCEPT !.step = "post_run", !.scan = s, !.result = r, !.memory = memory])
    /\ UNCHANGED <<runs, newer, mark, rows, owner, jobs>>

\* finalize_job loads the outcomes of earlier scans, as far as they are verified and the
\* reads succeed, adds the uploaded ones, computes a result and writes the research memory
\* first.
Begin(f) ==
    /\ fin[f].step = "idle"
    /\ \E s \in Scan, r \in Result, memory \in BOOLEAN :
         \E outcomes \in SUBSET (Remembered \cup Uploaded[s]) :
           /\ jobs[s].status \in Finalizable
           /\ Overlap \/ \A g \in Finalizer : fin[g].step # "idle" => fin[g].scan # s
           /\ Put(f, [Idle EXCEPT !.step = "post_run", !.scan = s, !.result = r, !.memory = memory,
                                  !.outcomes = outcomes, !.pending = outcomes])
    /\ UNCHANGED <<runs, newer, mark, rows, owner, jobs>>

PostRun(f, answer) ==
    /\ fin[f].step = "post_run"
    /\ IF Applied(answer) THEN UpsertRun(fin[f].scan) ELSE UNCHANGED <<runs, newer, mark>>
    /\ Put(f, [fin[f] EXCEPT !.step = "post", !.table = 1,
                             !.failed = IF answer = "ok" THEN {} ELSE {0}])
    /\ UNCHANGED <<rows, owner, jobs>>

\* Mutant: goes on behind the last table.
NextTable_OffByOne(state, failed) ==
    [state EXCEPT !.failed = failed, !.offset = 0,
                  !.step = IF state.table > Len(Tables) THEN "post_outcomes" ELSE "post",
                  !.table = IF state.table > Len(Tables) THEN 0 ELSE @ + 1]

\* On to the next table, whatever became of this one.
NextTable(state, failed) ==
    [state EXCEPT !.failed = failed, !.offset = 0,
                  !.step = IF state.table = Len(Tables) THEN "post_outcomes" ELSE "post",
                  !.table = IF state.table = Len(Tables) THEN 0 ELSE @ + 1]

\* Mutant: a table whose answer was lost counts as written.
PostChunk_TrustsLost(f, answer) ==
    LET s == fin[f].scan
        t == Tables[fin[f].table]
        all == Rows[fin[f].result][t]
        upto == fin[f].offset + ChunkRows
        chunk == {all[i] : i \in {k \in DOMAIN all : fin[f].offset < k /\ k <= upto}}
    IN /\ fin[f].step = "post" /\ all # <<>>
       /\ Applied(answer) => Held(s)
       /\ IF Applied(answer) THEN UpsertRows(s, t, chunk, fin[f].result) ELSE UNCHANGED rows
       /\ Put(f, CASE answer = "refused" -> NextTable(fin[f], fin[f].failed \cup {fin[f].table})
                   [] answer # "refused" /\ upto < Len(all) -> [fin[f] EXCEPT !.offset = upto]
                   [] OTHER -> NextTable(fin[f], fin[f].failed))
       /\ UNCHANGED <<runs, newer, mark, owner, jobs>>

\* _post_payload_in_chunks: the first chunk that raises fails its table; the rows
\* stored before it stay.
PostChunk(f, answer) ==
    LET s == fin[f].scan
        t == Tables[fin[f].table]
        all == Rows[fin[f].result][t]
        upto == fin[f].offset + ChunkRows
        chunk == {all[i] : i \in {k \in DOMAIN all : fin[f].offset < k /\ k <= upto}}
    IN /\ fin[f].step = "post" /\ all # <<>>
       /\ Applied(answer) => Held(s)
       /\ IF Applied(answer) THEN UpsertRows(s, t, chunk, fin[f].result) ELSE UNCHANGED rows
       /\ Put(f, CASE answer # "ok" -> NextTable(fin[f], fin[f].failed \cup {fin[f].table})
                   [] answer = "ok" /\ upto < Len(all) -> [fin[f] EXCEPT !.offset = upto]
                   [] OTHER -> NextTable(fin[f], fin[f].failed))
       /\ UNCHANGED <<runs, newer, mark, owner, jobs>>

\* EMPTY_EXPECTED: nothing is sent.
PostNothing(f) ==
    /\ fin[f].step = "post"
    /\ Rows[fin[f].result][Tables[fin[f].table]] = <<>>
    /\ Put(f, NextTable(fin[f], fin[f].failed))
    /\ UNCHANGED <<runs, newer, mark, rows, owner, jobs>>

\* Mutant: a chunk that raises ends the table without failing it; the count may not tell.
PostOutcomes_GivesUp(f, answer) ==
    LET s == fin[f].scan
        pending == fin[f].pending
    IN /\ fin[f].step = "post_outcomes" /\ pending # {}
       /\ \E chunk \in SUBSET pending :
            /\ Cardinality(chunk) = ChunkRows \/ (chunk = pending /\ Cardinality(chunk) < ChunkRows)
            /\ Applied(answer) => Held(s)
            /\ IF Applied(answer) THEN UpsertOutcomes(s, chunk) ELSE UNCHANGED owner
            /\ Put(f, CASE answer # "ok" -> [fin[f] EXCEPT !.step = "mark", !.pending = {}]
                        [] answer = "ok" /\ chunk # pending -> [fin[f] EXCEPT !.pending = pending \ chunk]
                        [] OTHER -> [fin[f] EXCEPT !.step = "mark", !.pending = {}])
       /\ UNCHANGED <<runs, newer, mark, rows, jobs>>

\* The last table, in chunks like the others.
PostOutcomes(f, answer) ==
    LET s == fin[f].scan
        pending == fin[f].pending
    IN /\ fin[f].step = "post_outcomes" /\ pending # {}
       /\ \E chunk \in SUBSET pending :
            /\ Cardinality(chunk) = ChunkRows \/ (chunk = pending /\ Cardinality(chunk) < ChunkRows)
            /\ Applied(answer) => Held(s)
            /\ IF Applied(answer) THEN UpsertOutcomes(s, chunk) ELSE UNCHANGED owner
            /\ Put(f, CASE answer # "ok" -> [fin[f] EXCEPT !.step = "mark", !.pending = {},
                                                           !.failed = @ \cup {OutcomeTable}]
                        [] answer = "ok" /\ chunk # pending -> [fin[f] EXCEPT !.pending = pending \ chunk]
                        [] OTHER -> [fin[f] EXCEPT !.step = "mark", !.pending = {}])
       /\ UNCHANGED <<runs, newer, mark, rows, jobs>>

PostNoOutcomes(f) ==
    /\ fin[f].step = "post_outcomes" /\ fin[f].pending = {}
    /\ Put(f, [fin[f] EXCEPT !.step = "mark"])
    /\ UNCHANGED <<runs, newer, mark, rows, owner, jobs>>

\* _set_scan_status wants its one row back; a run that was pruned has none.
MarkWritten(f, answer) ==
    LET complete == fin[f].failed = {} IN
    /\ fin[f].step = "mark"
    /\ IF Applied(answer) /\ Held(fin[f].scan)
       THEN SetMark(fin[f].scan, IF complete THEN "PERSISTED_PENDING_READBACK" ELSE "WRITE_PARTIAL")
       ELSE UNCHANGED mark
    /\ Put(f, [fin[f] EXCEPT !.step = "read",
                             !.all = complete /\ answer = "ok" /\ Held(fin[f].scan)])
    /\ UNCHANGED <<runs, newer, rows, owner, jobs>>

-----------------------------------------------------------------------------
(* verify_scan, finalize_scan_persistence and the end of finalize_job      *)

\* Mutant: the policy of the outcome memory for every table.
Contract_AtLeast(f, table) ==
    IF table = 0 THEN Held(fin[f].scan)
    ELSE Count(fin[f].scan, Tables[table]) >= Len(Rows[fin[f].result][Tables[table]])

\* The row-count contract of a table whose rows belong to the scan, EXACT.
Contract(f, table) ==
    IF table = 0 THEN Held(fin[f].scan)
    ELSE Count(fin[f].scan, Tables[table]) = Len(Rows[fin[f].result][Tables[table]])

ReadBack(f, fails) ==
    LET table == fin[f].table
        bad == fails \/ ~Contract(f, table)
    IN /\ fin[f].step = "read"
       /\ Put(f, [fin[f] EXCEPT
                    !.unverified = IF bad THEN @ \cup {table} ELSE @,
                    !.step = IF table = Len(Tables) THEN "read_outcomes" ELSE "read",
                    !.table = IF table = Len(Tables) THEN 0 ELSE @ + 1])
       /\ UNCHANGED <<runs, newer, mark, rows, owner, jobs>>

\* The outcome memory's contract, AT_LEAST: "Extra rows are therefore valid; fewer than
\* expected is not."
OutcomeContract(f) == CountOutcomes(fin[f].scan) >= Cardinality(fin[f].outcomes)

ReadOutcomes(f, fails) ==
    /\ fin[f].step = "read_outcomes"
    /\ Put(f, [fin[f] EXCEPT
                 !.unverified = IF fails \/ ~OutcomeContract(f) THEN @ \cup {OutcomeTable} ELSE @,
                 !.step = "verdict"])
    /\ UNCHANGED <<runs, newer, mark, rows, owner, jobs>>

\* Mutant: the readback is left out of the verdict.
FullyPersisted_WritesOnly(f) == fin[f].all

FullyPersisted(f) == fin[f].all /\ fin[f].unverified = {}

\* Rows of a table count as written only when all of its chunks were.
AnyWritten(f) ==
    \/ 0 \notin fin[f].failed
    \/ \E i \in DOMAIN Tables : i \notin fin[f].failed /\ Rows[fin[f].result][Tables[i]] # <<>>
    \/ OutcomeTable \notin fin[f].failed /\ fin[f].outcomes # {}

\* The mark is best effort: its failure is a remark in the report's detail.
MarkVerdict(f, answer) ==
    /\ fin[f].step = "verdict"
    /\ IF AnyWritten(f) /\ Applied(answer) /\ Held(fin[f].scan)
       THEN SetMark(fin[f].scan, IF FullyPersisted(f) THEN "VERIFIED_COMMITTED" ELSE "PARTIAL_PERSISTENCE")
       ELSE UNCHANGED mark
    /\ Put(f, [fin[f] EXCEPT !.step = "commit"])
    /\ UNCHANGED <<runs, newer, rows, owner, jobs>>

\* Mutant: a full verdict needs no radar of its own.
TerminalStatus_IgnoresRadar(f) ==
    IF FullyPersisted(f) /\ fin[f].memory THEN "COMPLETED" ELSE "COMPLETED_PARTIAL_PERSISTENCE"

\* terminal_status and _combined_persistence_state.
TerminalStatus(f) ==
    CASE 1 \in fin[f].failed -> "FINALIZE_RETRY_REQUIRED"
      [] 1 \notin fin[f].failed /\ FullyPersisted(f) /\ fin[f].memory -> "COMPLETED"
      [] OTHER -> "COMPLETED_PARTIAL_PERSISTENCE"

\* The terminal patch of the job; when it raises, the page stops.
CommitJob(f, answer) ==
    LET s == fin[f].scan IN
    /\ fin[f].step = "commit"
    /\ jobs' = IF Applied(answer)
               THEN [jobs EXCEPT ![s] = [status |-> TerminalStatus(f), summary |-> fin[f].result,
                                         outcomes |-> fin[f].outcomes]]
               ELSE jobs
    /\ IF answer = "ok" THEN Put(f, [Idle EXCEPT !.step = "seed", !.scan = s]) ELSE End(f)
    /\ UNCHANGED <<runs, newer, mark, rows, owner>>

-----------------------------------------------------------------------------
(* run_outcome_maintenance_best_effort and prune_scan_history_best_effort  *)

\* cak_seed_outcomes_for_scan: seeds of the scan's own radar rows, as far as their prices
\* are known; a row that is there and not verified becomes the scan's own.
Seed(f, answer) ==
    LET s == fin[f].scan IN
    /\ fin[f].step = "seed"
    /\ IF Applied(answer) /\ Count(s, Radar) > 0
       THEN \E seeds \in SUBSET Seeds[s] : UpsertOutcomes(s, seeds)
       ELSE UNCHANGED owner
    /\ Put(f, [fin[f] EXCEPT !.step = "prune"])
    /\ UNCHANGED <<runs, newer, mark, rows, jobs>>

\* A new job prunes before its row is posted; its scan then reaches FINALIZE.
NewJob(f) ==
    /\ fin[f].step = "idle"
    /\ \E s \in Scan :
         /\ jobs[s].status = "UNUSED"
         /\ \A g \in Finalizer : fin[g].step # "idle" => fin[g].scan # s
         /\ Put(f, [Idle EXCEPT !.step = "prune", !.scan = s])
    /\ UNCHANGED <<runs, newer, mark, rows, owner, jobs>>

\* The runs beyond the newest KeepRuns by created_at, sparing the scan at hand.
PruneList(f) ==
    /\ fin[f].step = "prune"
    /\ Put(f, [fin[f] EXCEPT !.step = "prune_delete",
                !.old = {s \in runs \ {fin[f].scan} :
                           KeepRuns <= Cardinality({q \in runs : <<q, s>> \in newer})}])
    /\ UNCHANGED <<runs, newer, mark, rows, owner, jobs>>

PruneDelete(f, answer) ==
    /\ fin[f].step = "prune_delete"
    /\ IF Applied(answer) THEN DeleteRuns(fin[f].old) ELSE UNCHANGED <<runs, newer, mark, rows, owner>>
    /\ jobs' = IF jobs[fin[f].scan].status = "UNUSED"
               THEN [jobs EXCEPT ![fin[f].scan].status = "FINALIZE"] ELSE jobs
    /\ End(f)

\* The process ends, or Streamlit abandons the script run.
Crash(f) ==
    /\ fin[f].step # "idle"
    /\ End(f)
    /\ UNCHANGED <<runs, newer, mark, rows, owner, jobs>>

\* What needs no answer of the database, and what does.
Local(f) == Begin(f) \/ PostNothing(f) \/ PostNoOutcomes(f) \/ NewJob(f) \/ PruneList(f)
Request(f, answer) ==
    \/ PostRun(f, answer) \/ PostChunk(f, answer) \/ PostOutcomes(f, answer) \/ MarkWritten(f, answer)
    \/ MarkVerdict(f, answer) \/ CommitJob(f, answer) \/ Seed(f, answer) \/ PruneDelete(f, answer)

Next == \E f \in Finalizer :
    \/ Local(f) /\ Fault(FALSE)
    \/ Crash(f) /\ Fault(TRUE)
    \/ \E answer \in Answer : Request(f, answer) /\ Fault(answer # "ok")
    \/ \E fails \in BOOLEAN : (ReadBack(f, fails) \/ ReadOutcomes(f, fails)) /\ Fault(fails)

Spec == Init /\ [][Next]_vars

-----------------------------------------------------------------------------
(* Properties                                                              *)

\* The rows a table holds for a scan are those of one result, no more and no less.
Holds(s, t, r) ==
    rows[s][t] = [k \in Key |-> IF k \in Image(Rows[r][t]) THEN r ELSE NoRow]

\* "All expected scan rows were written and their row-count contracts were verified."
\* (persistence.py:839) and "The result commit is still atomic" (resumable_scan.py:1112),
\* for the tables whose rows belong to one scan: when a job says COMPLETED, every one of
\* them holds exactly the result its summary was made from, although a count cannot tell
\* one result from another and earlier attempts may have left rows, until the run is pruned.
\* The outcome memory is shared and left to OutcomesRemembered.
FullIsExact ==
    \A s \in Scan : jobs[s].status = "COMPLETED" /\ Held(s) =>
        \A t \in Table : Holds(s, t, jobs[s].summary)

\* "Outcome memory is shared, durable calibration state" (persistence.py:608): the outcomes
\* a COMPLETED job was made with are remembered, whoever took their rows since, and also
\* after the run that wrote them is pruned.
OutcomesRemembered ==
    \A s \in Scan : jobs[s].status = "COMPLETED" => jobs[s].outcomes \subseteq Remembered

\* A job that completes with partial persistence can still show its own radar
\* (finalize_job: otherwise the finalisation is to be retried).
CompletedRadar ==
    \A s \in Scan : jobs[s].status \in Completed /\ Held(s) => Holds(s, Radar, jobs[s].summary)

\* The abstract specification: one step publishes a result, then its rows stay or go
\* together; the outcome memory only grows.
Published(s) ==
    CASE jobs[s].status = "COMPLETED" -> "full"
      [] jobs[s].status = "COMPLETED_PARTIAL_PERSISTENCE" -> "partial"
      [] OTHER -> "unpublished"

Commit == INSTANCE ResultCommit WITH
    Tables <- Table,
    verdict <- [s \in Scan |-> Published(s)],
    held <- [s \in Scan |-> IF jobs[s].status \in Completed /\ Held(s)
                            THEN {t \in Table : Holds(s, t, jobs[s].summary)} ELSE {}],
    memory <- Remembered

\* Publishing is one step and the published rows do not change afterwards, they are only
\* dropped together with their run, which takes nothing from the outcome memory.
CommitSpec == Commit!Spec
=============================================================================
