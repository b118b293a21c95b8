------------------------------- MODULE ScanJob -------------------------------
(***************************************************************************)
(* The resumable scan: one universe, its rows in cak_scan_jobs, their      *)
(* checkpoints in cak_scan_job_chunks, and the Streamlit script runs that  *)
(* work on them.                                                           *)
(*                                                                         *)
(* A script run reads the active job, works on one checkpoint for seconds  *)
(* or minutes, and then patches the job row by its scan_id alone.  Nothing *)
(* stops a second run: another tab, a page reloaded while the old script   *)
(* still runs, or a click that starts a new run while the old one is       *)
(* inside a checkpoint.  The only guard is the unique index that allows    *)
(* one active job per universe and scanner version.                        *)
(*                                                                         *)
(* A failed request, a lost answer and the end of the process all end the  *)
(* run where it stands; the next run starts from the database again.       *)
(***************************************************************************)
EXTENDS Naturals, Sequences, FiniteSets

CONSTANTS
    Job,           \* scan ids
    Run,           \* script runs that may overlap
    Ticker,        \* tickers
    Universe,      \* the tickers of the job, in order
    Shortlists,    \* what FAST_RANKING may choose from the caches it reads
    DeepStages,    \* the deep stages the settings enable
    OfficialLimit, \* official_fundamental_limit (150)
    ChunkSize,     \* tickers per checkpoint (5..50)
    KeepTerminal,  \* terminal jobs a prune keeps (2)
    Beats          \* heartbeats of one finalisation (4)

Active == {"CREATED", "RUNNING", "PAUSED", "FINALIZE_RETRY_REQUIRED"}
Completed == {"COMPLETED", "COMPLETED_PARTIAL_PERSISTENCE"}
\* FAILED, the fourth, is written for an unknown stage alone, which no job here is in.
Terminal == Completed \cup {"CANCELLED"}
Gone == {"UNUSED", "DELETED"}          \* no row with this scan_id

AllDeepStages == {"KSEI_SHORTLIST", "NEWS_SHORTLIST", "FUNDAMENTAL_SHORTLIST",
                  "IDX_FUNDAMENTAL_SHORTLIST"}
CacheStages == {"BENCHMARK", "OHLCV"} \cup AllDeepStages
Stages == CacheStages \cup {"FAST_RANKING", "FINALIZE", "COMPLETED"}

ASSUME ScanJobAssumption ==
    /\ Job # {}
    /\ Universe \in Seq(Ticker) /\ Universe # <<>>
    /\ Shortlists \subseteq Seq(Ticker) /\ Shortlists # {}
    /\ \A list \in Shortlists : Len(list) <= Len(Universe)
    /\ DeepStages \subseteq AllDeepStages
    /\ OfficialLimit \in Nat \ {0} /\ ChunkSize \in Nat \ {0}
    /\ KeepTerminal \in Nat \ {0} /\ Beats \in Nat

VARIABLES
    jobs,      \* cak_scan_jobs by scan_id
    newer,     \* the order of the rows by updated_at: the first was updated after the second
    chunks,    \* cak_scan_job_chunks
    run        \* script runs

vars == <<jobs, newer, chunks, run>>

\* Where a job stands: the part of its row a checkpoint starts from.
Position == [stage: Stages, offset: 0..Len(Universe), chunk: Nat, shortlist: Seq(Ticker),
             processed: 0..Len(Universe)]
Row == [status: Active \cup Terminal \cup Gone, at: Position]

Chunk == [job: Job, stage: Stages, no: Nat, tickers: SUBSET Ticker, ok: BOOLEAN]

Steps == {"idle", "seen", "chunk_ok", "chunk_failed", "ranked", "final",
          "prune", "prune_delete", "create_delete", "create_post"}
RunState == [step: Steps, job: Job, at: Position, list: Seq(Ticker), beat: Nat, old: SUBSET Job]

TypeOK ==
    /\ jobs \in [Job -> Row]
    /\ newer \subseteq Job \X Job
    /\ chunks \subseteq Chunk
    /\ run \in [Run -> RunState]

Start == [stage |-> "BENCHMARK", offset |-> 0, chunk |-> 0, shortlist |-> <<>>, processed |-> 0]

Ended == [step |-> "idle", job |-> CHOOSE j \in Job : TRUE, at |-> Start, list |-> <<>>,
          beat |-> 0, old |-> {}]

Init ==
    /\ jobs = [j \in Job |-> [status |-> "UNUSED", at |-> Start]]
    /\ newer = {}
    /\ chunks = {}
    /\ run = [r \in Run |-> Ended]

-----------------------------------------------------------------------------
(* Stages and chunks.                                                      *)

Smaller(a, b) == IF a < b THEN a ELSE b

\* The tickers a cache stage works through.  BENCHMARK has the index alone.
Items(stage, shortlist) ==
    CASE stage = "OHLCV" -> Universe
      [] stage = "IDX_FUNDAMENTAL_SHORTLIST" ->
           SubSeq(shortlist, 1, Smaller(OfficialLimit, Len(shortlist)))
      [] OTHER -> shortlist

NextOffset(items, offset) == Smaller(offset + ChunkSize, Len(items))
NextChunk(items, offset) == {items[i] : i \in {k \in DOMAIN items : offset < k /\ k <= offset + ChunkSize}}

DeepOrder == <<"KSEI_SHORTLIST", "NEWS_SHORTLIST", "FUNDAMENTAL_SHORTLIST",
               "IDX_FUNDAMENTAL_SHORTLIST">>

\* The first enabled deep stage after the given one; an empty shortlist has none.
NextDeepStage(after, shortlist) ==
    LET from == IF after = "FAST_RANKING" THEN 0
                ELSE CHOOSE i \in DOMAIN DeepOrder : DeepOrder[i] = after
        later == {i \in DOMAIN DeepOrder : i > from /\ DeepOrder[i] \in DeepStages}
    IN IF shortlist = <<>> \/ later = {} THEN "FINALIZE"
       ELSE DeepOrder[CHOOSE i \in later : \A k \in later : i <= k]

\* Where a committed checkpoint leaves the job, computed from the position the
\* run read when it started.
AfterChunk(at) ==
    LET items == Items(at.stage, at.shortlist)
        next == NextOffset(items, at.offset)
        done == at.offset + ChunkSize >= Len(items)
    IN CASE at.stage = "BENCHMARK" ->
              [at EXCEPT !.stage = "OHLCV", !.offset = 0, !.chunk = @ + 1]
         [] at.stage = "OHLCV" ->
              [at EXCEPT !.stage = IF done THEN "FAST_RANKING" ELSE @,
                         !.offset = IF done THEN 0 ELSE next,
                         !.chunk = @ + 1,
                         !.processed = Smaller(Len(Universe),
                             @ + Cardinality(NextChunk(items, at.offset)))]
         [] OTHER ->
              [at EXCEPT !.stage = IF done THEN NextDeepStage(@, at.shortlist) ELSE @,
                         !.offset = IF done THEN 0 ELSE next,
                         !.chunk = @ + 1]

AfterRanking(at, list) ==
    [at EXCEPT !.stage = NextDeepStage("FAST_RANKING", list), !.offset = 0,
               !.chunk = @ + 1, !.shortlist = list]

-----------------------------------------------------------------------------
(* The database.                                                           *)

Exists(j) == jobs[j].status \notin Gone

\* The unique index: a row may be active only when no other row is.
IndexAllows(j, status) ==
    status \in Active => \A k \in Job \ {j} : jobs[k].status \notin Active

\* The row of j gets a new updated_at.
Touched(j) == {p \in newer : j \notin {p[1], p[2]}} \cup {<<j, k>> : k \in {k \in Job \ {j} : Exists(k)}}

\* PATCH cak_scan_jobs?scan_id=eq.j: no status, version or time is compared.
Patch(j, status, at) ==
    /\ Exists(j) /\ IndexAllows(j, status)
    /\ jobs' = [jobs EXCEPT ![j] = [status |-> status, at |-> at]]
    /\ newer' = Touched(j)

\* A patch that fails: no such row, or the index refuses it.
PatchFails(j, status) ==
    /\ ~(Exists(j) /\ IndexAllows(j, status))
    /\ UNCHANGED <<jobs, newer>>

\* Upsert on chunk_id = scan_id:stage:chunk_no.
RecordChunk(c) ==
    chunks' = {d \in chunks : <<d.job, d.stage, d.no>> # <<c.job, c.stage, c.no>>} \cup {c}

\* Deleting a job cascades to its chunks.
DeleteJobs(old) ==
    /\ jobs' = [j \in Job |-> IF j \in old /\ Exists(j)
                              THEN [status |-> "DELETED", at |-> Start] ELSE jobs[j]]
    /\ newer' = {p \in newer : {p[1], p[2]} \cap old = {}}
    /\ chunks' = {c \in chunks : c.job \notin old}

\* The terminal jobs that were updated after j.
NewerTerminal(j) == {k \in Job : <<k, j>> \in newer /\ jobs[k].status \in Terminal}

\* Mutant: one job too few is kept.
Prunable_KeepsOneLess(spared) ==
    {j \in Job \ spared : /\ jobs[j].status \in Terminal
                          /\ KeepTerminal <= Cardinality(NewerTerminal(j)) + 1}

\* Terminal jobs beyond the newest KeepTerminal, sparing the given one.
Prunable(spared) ==
    {j \in Job \ spared : /\ jobs[j].status \in Terminal
                          /\ KeepTerminal <= Cardinality(NewerTerminal(j))}

-----------------------------------------------------------------------------
(* A script run: what it reads, and the buttons it may be started by.      *)

End(r) == run' = [run EXCEPT ![r] = Ended]

\* The script finds the active job of the universe and keeps what it read.
SeeJob(r) ==
    /\ run[r].step = "idle"
    /\ \E j \in Job :
         /\ jobs[j].status \in Active
         /\ run' = [run EXCEPT ![r] = [Ended EXCEPT !.step = "seen", !.job = j, !.at = jobs[j].at]]
    /\ UNCHANGED <<jobs, newer, chunks>>

\* Jeda: the job is paused and this run ends.
Pause(r) ==
    LET j == run[r].job IN
    /\ run[r].step = "seen"
    /\ Patch(j, "PAUSED", jobs[j].at) \/ PatchFails(j, "PAUSED")
    /\ End(r)
    /\ UNCHANGED chunks

\* Lanjut otomatis: the run goes on with the row the patch returned.
Resume(r) ==
    LET j == run[r].job IN
    /\ run[r].step = "seen"
    /\ Patch(j, "RUNNING", jobs[j].at)
    /\ run' = [run EXCEPT ![r].at = jobs[j].at]
    /\ UNCHANGED chunks

\* Batalkan job aktif.
Cancel(r) ==
    LET j == run[r].job IN
    /\ run[r].step = "seen"
    /\ Patch(j, "CANCELLED", jobs[j].at) \/ PatchFails(j, "CANCELLED")
    /\ End(r)
    /\ UNCHANGED chunks

\* Mulai Scan with no active job in sight: old terminal jobs are listed ...
StartScan(r) ==
    /\ run[r].step = "idle"
    /\ \A j \in Job : jobs[j].status \notin Active
    /\ \E j \in Job :
         /\ jobs[j].status = "UNUSED"
         /\ \A q \in Run : run[q].step \in {"create_delete", "create_post"} => run[q].job # j
         /\ run' = [run EXCEPT ![r] = [Ended EXCEPT
                      !.step = "create_delete", !.job = j, !.old = Prunable({j})]]
    /\ UNCHANGED <<jobs, newer, chunks>>

\* ... and deleted ...
PruneBeforeCreate(r) ==
    /\ run[r].step = "create_delete"
    /\ DeleteJobs(run[r].old)
    /\ run' = [run EXCEPT ![r].step = "create_post", ![r].old = {}]

\* ... and the new row is posted.  When the index refuses it the run falls back
\* on the job that is there, which the next run finds.
Create(r) ==
    LET j == run[r].job IN
    /\ run[r].step = "create_post"
    /\ IF IndexAllows(j, "CREATED")
       THEN /\ jobs' = [jobs EXCEPT ![j] = [status |-> "CREATED", at |-> Start]]
            /\ newer' = Touched(j)
       ELSE UNCHANGED <<jobs, newer>>
    /\ End(r)
    /\ UNCHANGED chunks

\* An exception, a lost answer, the end of the process, or nothing left to do:
\* the page only shows the job, or the job stands at COMPLETED already.
Crash(r) ==
    /\ run[r].step # "idle"
    /\ End(r)
    /\ UNCHANGED <<jobs, newer, chunks>>

-----------------------------------------------------------------------------
(* process_next_job_step on the position the run read.                     *)

ChunkOf(r, tickers, ok) ==
    [job |-> run[r].job, stage |-> run[r].at.stage, no |-> run[r].at.chunk + 1,
     tickers |-> tickers, ok |-> ok]

\* A cache stage fetches its chunk, commits the cache rows, and records the
\* chunk with the verdict on that commit.  A chunk of a deleted job is refused.
ProcessChunk(r, ok) ==
    LET at == run[r].at IN
    /\ run[r].step = "seen" /\ at.stage \in CacheStages
    /\ Exists(run[r].job)
    /\ RecordChunk(ChunkOf(r, IF at.stage = "BENCHMARK" THEN {}
                              ELSE NextChunk(Items(at.stage, at.shortlist), at.offset), ok))
    /\ run' = [run EXCEPT ![r].step = IF ok THEN "chunk_ok" ELSE "chunk_failed"]
    /\ UNCHANGED <<jobs, newer>>

\* Mutant: the row is read again and advanced from wherever it stands by now.
CommitChunk_FromTheRow(r) ==
    LET j == run[r].job IN
    /\ run[r].step = "chunk_ok"
    /\ \/ /\ jobs[j].at.stage \in CacheStages
          /\ Patch(j, "RUNNING", AfterChunk(jobs[j].at))
       \/ PatchFails(j, "RUNNING")
    /\ End(r)
    /\ UNCHANGED chunks

\* The patch writes the position but not the shortlist.
CommitChunk(r) ==
    LET j == run[r].job IN
    /\ run[r].step = "chunk_ok"
    /\ \/ Patch(j, "RUNNING", [AfterChunk(run[r].at) EXCEPT !.shortlist = jobs[j].at.shortlist])
       \/ PatchFails(j, "RUNNING")
    /\ End(r)
    /\ UNCHANGED chunks

\* Mutants: after a failed commit the stage starts over; or the chunk is passed over.
PauseForRetry_StageStartsOver(r) ==
    LET j == run[r].job IN
    /\ run[r].step = "chunk_failed"
    /\ Patch(j, "PAUSED", [jobs[j].at EXCEPT !.offset = 0]) \/ PatchFails(j, "PAUSED")
    /\ End(r)
    /\ UNCHANGED chunks
PauseForRetry_PassesOver(r) ==
    LET j == run[r].job IN
    /\ run[r].step = "chunk_failed"
    /\ Patch(j, "PAUSED", AfterChunk(run[r].at)) \/ PatchFails(j, "PAUSED")
    /\ End(r)
    /\ UNCHANGED chunks

\* "Cache checkpoint failed; same chunk will be retried."
PauseForRetry(r) ==
    LET j == run[r].job IN
    /\ run[r].step = "chunk_failed"
    /\ Patch(j, "PAUSED", jobs[j].at) \/ PatchFails(j, "PAUSED")
    /\ End(r)
    /\ UNCHANGED chunks

\* FAST_RANKING chooses the shortlist from the caches as they are now.
Rank(r) ==
    /\ run[r].step = "seen" /\ run[r].at.stage = "FAST_RANKING"
    /\ Exists(run[r].job)
    /\ RecordChunk(ChunkOf(r, {Universe[i] : i \in DOMAIN Universe}, TRUE))
    /\ \E list \in Shortlists : run' = [run EXCEPT ![r].step = "ranked", ![r].list = list]
    /\ UNCHANGED <<jobs, newer>>

\* The patch leaves processed_tickers as the row has it.
CommitRanking(r) ==
    LET j == run[r].job IN
    /\ run[r].step = "ranked"
    /\ \/ Patch(j, "RUNNING", [AfterRanking(run[r].at, run[r].list) EXCEPT
                                 !.processed = jobs[j].at.processed])
       \/ PatchFails(j, "RUNNING")
    /\ End(r)
    /\ UNCHANGED chunks

BeginFinal(r) ==
    /\ run[r].step = "seen" /\ run[r].at.stage = "FINALIZE"
    /\ run' = [run EXCEPT ![r].step = "final"]
    /\ UNCHANGED <<jobs, newer, chunks>>

\* Mutant: the phase of the finalisation is written into the status.
Heartbeat_PhaseAsStatus(r) ==
    LET j == run[r].job IN
    /\ run[r].step = "final" /\ run[r].beat < Beats
    /\ run' = [run EXCEPT ![r].beat = @ + 1]
    /\ \/ Patch(j, "FINALIZING", [jobs[j].at EXCEPT !.stage = "FINALIZE"])
       \/ UNCHANGED <<jobs, newer>>
    /\ UNCHANGED chunks

\* Progress telemetry: its failure is swallowed.
Heartbeat(r) ==
    LET j == run[r].job IN
    /\ run[r].step = "final" /\ run[r].beat < Beats
    /\ run' = [run EXCEPT ![r].beat = @ + 1]
    /\ \/ Patch(j, "RUNNING", [jobs[j].at EXCEPT !.stage = "FINALIZE"])
       \/ UNCHANGED <<jobs, newer>>
    /\ UNCHANGED chunks

\* Mutant: a finalisation to be retried is parked at stage COMPLETED.
CommitFinal_ParksRetry(r) ==
    LET j == run[r].job IN
    /\ run[r].step = "final" /\ run[r].beat = Beats
    /\ \E status \in Completed \cup {"FINALIZE_RETRY_REQUIRED"} :
         \/ /\ Patch(j, status, [jobs[j].at EXCEPT !.stage = "COMPLETED", !.offset = 0])
            /\ run' = [run EXCEPT ![r].step = "prune"]
         \/ /\ PatchFails(j, status)
            /\ IF Exists(j) THEN End(r) ELSE run' = [run EXCEPT ![r].step = "prune"]
    /\ UNCHANGED chunks

\* The terminal patch asks for no row back, so a deleted job goes unnoticed and
\* only the index can refuse it.
CommitFinal(r) ==
    LET j == run[r].job IN
    /\ run[r].step = "final" /\ run[r].beat = Beats
    /\ \E status \in Completed \cup {"FINALIZE_RETRY_REQUIRED"} :
         \/ /\ Patch(j, status,
                     [jobs[j].at EXCEPT !.stage = IF status \in Completed THEN "COMPLETED"
                                                  ELSE "FINALIZE",
                                        !.offset = 0])
            /\ run' = [run EXCEPT ![r].step = "prune"]
         \/ /\ PatchFails(j, status)
            /\ IF Exists(j) THEN End(r) ELSE run' = [run EXCEPT ![r].step = "prune"]
    /\ UNCHANGED chunks

\* Best-effort housekeeping: list the old terminal jobs, then delete them by id.
PruneList(r) ==
    /\ run[r].step = "prune"
    /\ run' = [run EXCEPT ![r].step = "prune_delete", ![r].old = Prunable({run[r].job})]
    /\ UNCHANGED <<jobs, newer, chunks>>

PruneDelete(r) ==
    /\ run[r].step = "prune_delete"
    /\ DeleteJobs(run[r].old)
    /\ End(r)

Next == \E r \in Run :
    \/ SeeJob(r) \/ Pause(r) \/ Resume(r) \/ Cancel(r) \/ Crash(r)
    \/ StartScan(r) \/ PruneBeforeCreate(r) \/ Create(r)
    \/ \E ok \in BOOLEAN : ProcessChunk(r, ok)
    \/ CommitChunk(r) \/ PauseForRetry(r) \/ Rank(r) \/ CommitRanking(r)
    \/ BeginFinal(r) \/ Heartbeat(r) \/ CommitFinal(r) \/ PruneList(r) \/ PruneDelete(r)

Spec == Init /\ [][Next]_vars

-----------------------------------------------------------------------------
(* Properties                                                              *)

StageNo == [s \in Stages |->
    CASE s = "BENCHMARK" -> 1 [] s = "OHLCV" -> 2 [] s = "FAST_RANKING" -> 3
      [] s = "FINALIZE" -> 8 [] s = "COMPLETED" -> 9
      [] OTHER -> 3 + CHOOSE i \in DOMAIN DeepOrder : DeepOrder[i] = s]

\* The work a position claims to be behind it: place i of the items of a stage.
Behind(at, s, i) == StageNo[s] < StageNo[at.stage] \/ (s = at.stage /\ i <= at.offset)
Worked(j, s, i, c) ==
    c.job = j /\ c.stage = s /\ Items(s, jobs[j].at.shortlist)[i] \in c.tickers

\* The stored stage and offset are enough to resume from (process_next_job_step,
\* resumable_scan.py:983): whatever crashes, overlaps and stale patches happened,
\* every ticker before the stored checkpoint has been worked on for that job.
NothingSkipped ==
    \A j \in Job : Exists(j) =>
        \A s \in DeepStages \cup {"OHLCV"} : \A i \in DOMAIN Items(s, jobs[j].at.shortlist) :
            Behind(jobs[j].at, s, i) => \E c \in chunks : Worked(j, s, i, c)

\* With one run at a time the chunk on record was also committed: a failed cache
\* commit never lets the job pass the chunk.
NothingLost ==
    \A j \in Job : Exists(j) =>
        \A s \in DeepStages \cup {"OHLCV"} : \A i \in DOMAIN Items(s, jobs[j].at.shortlist) :
            Behind(jobs[j].at, s, i) => \E c \in chunks : Worked(j, s, i, c) /\ c.ok

\* With one run at a time processed_tickers, a running sum over checkpoints that
\* may be retried after a crash, counts every ticker once.
ProcessedMatchesOffset ==
    \A j \in Job : Exists(j) =>
        jobs[j].at.processed = CASE jobs[j].at.stage = "BENCHMARK" -> 0
                                 [] jobs[j].at.stage = "OHLCV" -> jobs[j].at.offset
                                 [] OTHER -> Len(Universe)

\* With one run at a time no committed checkpoint is done again: "the next session
\* resumes from the last committed checkpoint" (resumable_scan.py:986).
ForwardOnly ==
    [][\A j \in Job : Exists(j) /\ Exists(j)' =>
         \/ StageNo[jobs'[j].at.stage] > StageNo[jobs[j].at.stage]
         \/ /\ jobs'[j].at.stage = jobs[j].at.stage
            /\ jobs'[j].at.offset >= jobs[j].at.offset]_vars

\* With one run at a time a prune takes only terminal jobs, and never one of the
\* newest KeepTerminal of them.
PruneSparesTheNewest ==
    [][\A j \in Job : Exists(j) /\ ~Exists(j)' =>
         /\ jobs[j].status \in Terminal
         /\ KeepTerminal <= Cardinality(NewerTerminal(j))]_vars

\* The heartbeats of a finalisation "only report liveness" (resumable_scan.py:1112):
\* they change no job that has ended.
HeartbeatOnlyReports ==
    [][(\E r \in Run : Heartbeat(r)) =>
         \A j \in Job : jobs[j].status \in Terminal => jobs'[j] = jobs[j]]_vars

-----------------------------------------------------------------------------
(* Liveness, for one page that is opened again and again: an active job is *)
(* picked up, a run that is under way goes on, and a checkpoint, a commit  *)
(* and a finalisation succeed if they are tried again and again.  Clicks   *)
(* and crashes are unfair.                                                 *)

Finalizes(r) == CommitFinal(r) /\ jobs'[run[r].job].status \in Completed
Housekeeping(r) == PauseForRetry(r) \/ PruneList(r) \/ PruneDelete(r)

Fairness ==
    \A r \in Run :
        /\ WF_vars(SeeJob(r)) /\ WF_vars(Housekeeping(r))
        /\ SF_vars(ProcessChunk(r, TRUE)) /\ SF_vars(CommitChunk(r))
        /\ SF_vars(Rank(r)) /\ SF_vars(CommitRanking(r))
        /\ SF_vars(BeginFinal(r)) /\ SF_vars(Heartbeat(r))
        /\ SF_vars(Finalizes(r))

FairSpec == Spec /\ Fairness

\* Every active job ends, completed, cancelled or deleted, however often its run
\* crashes, is paused, or has to retry a chunk or the finalisation.
JobEnds == \A j \in Job : jobs[j].status \in Active ~> jobs[j].status \notin Active
=============================================================================
