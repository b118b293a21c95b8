# Verification of the EMIR scanner

EMIR / Cuan-Maksimal scans the Indonesian stock exchange, scores every issuer on
evidence from a dozen providers, and decides which of them may be bought with real
money. This directory holds TLA+ models of it: how a scan survives the death of the
process that runs it, how its sources are cached and its results stored, how two
scanners share facts, how the evening ingestion settles its queue, and how evidence
becomes a decision. TLC checks small instances, TLAPS proves the most important
properties for all.

`PROJECT.json` lists components, runs, mutants, theorems, findings and hazards, and maps
every definition to the source lines it stands for.

## 1. Inventory

| Component | State | Operations | Interacts with | Hard behaviour | Correct when |
|---|---|---|---|---|---|
| XBRL ingestion: `database/migration_v37` to `v43`, `supabase/functions/emir-xbrl-worker` | queue table, evidence snapshots, ranking | seed, claim, finish, reclaim, finalize, reconcile, kick, watchdog; worker invocation with chain | ranking SQL, filing catalog, cron, pg_net, Edge runtime | killed isolates, lost requests, overlapping chains and finalizers, slow ranking | one worker per filing, no stranded row, verdicts stand, final ranking is current, everything settles |
| Resumable job: `scan_jobs.py`, `resumable_scan.py`, controls in `app.py` | `cak_scan_jobs`, `cak_scan_job_chunks`, session state | create, one checkpoint of a stage, pause, resume, cancel, finalise, heartbeat, prune | source cache, persistence | two tabs, reload during a checkpoint, crash between two writes | no ticker skipped, nothing lost, jobs end |
| Scan persistence: `persistence.py`, `free_tier_storage.py` | tables of rows of one scan, outcome memory of all scans, run marks | write in chunks, readback by count, verdict, seed, prune | finalisation, result loading | failure in the middle, retry over old rows, shared rows, two finalisers | full only if every table of the scan holds exactly this result; no outcome is forgotten |
| Source cache: `persistent_cache.py`, `runtime_cache_checkpoint_hotfix.py` | one row per ticker and family, research memory | cache-first read, write, hash readback, rewrite, KSEI guard, load | providers, shared table, every cache stage, `FINALIZE` | two scans on one row, guarded write that reports success, rows that age | what a stage found, `FINALIZE` finds; every chunk gets through |
| Providers: `autonomous_enrichment.py`, `data_providers.py`, `idx_official_fundamentals.py`, KSEI patches | none | chains of providers, merge with direct rows | source cache, hub | silence, partial answers, shells | — |
| Shared evidence hub: `shared_evidence_hub.py`, the `shared_*` families, `migration_v13` | leases, evidence tables, provider state | get or refresh under a lease, append-only upserts, readback | two scanners, providers | expired leases, late writers, feeds cut off | success is fenced, served rows are whole where the feed is read to its end |
| Shared figures: `shared_fundamental_runtime*.py`, `shared_structured_fundamental_evidence.py` | `evidence_fundamental_metrics` | bridge, publish, read in pages | both scanners, statements | five writers in any order, half batches, torn reads | official figures were filed |
| Scoring: `narrative_flow_engine.py`, `future_fundamental.py` | none | market, sector and narrative context, evidence, plan, gates, caps | finalisation | unobserved values, defaults, merges | caps follow the regime, stops are bounded, blocks stand on something |
| Decisions: `final_decision.py`, `evidence_governance.py`, `top3_dashboard*.py`, ZAPI modules | the radar of a scan | flow confirmation, guards, tiers, ranks, lanes; again by a later release | scoring, providers of flow, page | eight passes, repeated finalisation | authorization needs clean evidence; nothing promotes; confirmed once |
| Research memory, outcome SQL, ranking SQL, calendar, tools, workflows | tables of their own | upsert, set-oriented SQL, date arithmetic | — | — | — |

How the parts meet: the page (`app.py`) finds or creates a job and calls
`process_next_job_step` until it ends (`ScanJob`). A cache stage fills the source cache
(`SourceCache`) from providers (`SourceProviders`) of which some ask the hub
(`EvidenceHub`, `SharedMetrics`). `FAST_RANKING` chooses the shortlist from the cache;
`FINALIZE` loads the cache, scores and finalizes the radar (`Decisions`), persists it
and prunes (`ScanPersistence`). The ingestion runs by itself in the database and the edge
function (`XbrlQueue`) and meets the scan only through the ranking it publishes.

The hazards are in `PROJECT.json`, each at its line, with the properties that catch it
or the reason why none does.

## 2. Modules

| Module | What it is | Extends |
|---|---|---|
| `XbrlQueue` | the ingestion: state, actions, properties, fairness | |
| `ScanJob` | the resumable job: state, actions, properties, fairness | |
| `ScanPersistence` | the requests of a finalisation and of a prune | |
| `ResultCommit` | the abstract specification of `ScanPersistence`: publish in one step, then only drop; remember outcomes for good | |
| `SourceCache` | one row of a family between two scans, with fairness | `SourceProviders` |
| `SourceProviders` | what the provider chains of the seven families answer, by grade | `KseiProfile`, `SharedFacts` |
| `KseiProfile` | page, monthly archive and hub rows become one KSEI profile | |
| `SharedFacts` | figures, reports, snapshots, vendors; proxy and official payload | |
| `SharedMetrics` | the table of figures under its five writers and its reader | `SharedFacts` |
| `EvidenceHub` | two clients, leases, upserts, readbacks, provider state | `HubFamilies` |
| `HubFamilies` | the families of the hub as data: key, filter, request, feed, policy | |
| `Observed` | values that may be missing; mean and coverage | |
| `MarketContext` | state of a price series, market regime, sector quadrant | `Observed` |
| `NarrativeState` | events, narrative, lifecycle, calibration | `Observed` |
| `IssuerEvidence` | rows of integrity, ownership, book, broker | `Observed` |
| `EvidenceMerge` | proxies, KSEI, alerts, and their merge with direct rows | `IssuerEvidence`, `MarketContext` |
| `ExecutionPlan` | entry bands, stops, targets, the chosen path | `Observed` |
| `ProfileGates` | `build_emir_profile`: gates, caps, blockers | `ExecutionPlan`, `EvidenceMerge`, `NarrativeState` |
| `FlowConfirmation` | foreign flow and broker history as a confirmation | `Observed` |
| `Leaderboard` | dashboard scores, The Next Leader, the block on banks | `MarketContext` |
| `FinalDecision` | sizing, the passes of the finalisation, ranks and lanes | `ProfileGates`, `FlowConfirmation`, `Leaderboard` |
| `Decisions` | the state machine: score, finalize, load older rows, finalize again | `FinalDecision` |
| `MCXbrlQueue`, `MCScanJob`, `MCScanPersistence`, `MCSourceCache`, `MCEvidenceHub`, `MCDecisions` | values for TLC; `MCEvidenceHub` composes `EvidenceHub` with `SharedMetrics` | |
| `XbrlQueueProofs`, `ScanJobProofs`, `ScanJobSafety`, `ScanPersistenceProofs`, `EvidenceHubProofs`, `SharedMetricsProofs`, `SourceCacheProofs`, `DecisionsProofs` | theorems | |

### XbrlQueue and the code

One `rank_date`. `queue[t]` is the row of a ticker (`ABSENT` if there is none), with
`wait` for `next_retry_at`, `age` for the time since `claimed_at` and `file` for
`source_file_id`; file 0 is no filing. `catalog` is the newest filing with an XBRL
attachment, `evidence` the snapshots by `source_file_id`. `worker` holds the
invocations of the edge function: the request on its way, the claimed batch, the step
within `processJob`. `refresh` is the transaction of the finalizer that computes the
ranking.

| Actions | Code |
|---|---|
| `Init`, `Seeded`, `Reconciled` | the seed function of v37 and the reconciliation of v43 |
| `Claim`, `Finished` (in `FinishStored`, `FinishFailed`) | the claim and finish functions of v37 |
| `FinalizeBegin`, `FinalizeEnd`, `FinalizeFails` | the finalize function of v43, cut where it waits for the ranking |
| `Watchdog`, `CronFinalize`, `CronKick` | v41/v42 and the cron entries of v37 |
| `Claim`, `Store`, `FinishStored`, `FinishFailed`, `Chain`, `Drain` | `Deno.serve`, `processPool`, `processJob` |
| `Poisoned`, `Die`, `Expire`, `Publish`, `Tick` | runtime, catalog and time (external) |

Abstractions:

* Every SQL function is one transaction and one action, except the finalizer, whose
  ranking takes long. What it reclaimed before is part of that transaction: the rows
  look RUNNING to everyone else, are locked, and fall back if the ranking raises. The
  ranking sees the evidence of the moment it started from.
* The ranking is a constant function from evidence to ranks. The proofs need nothing
  of it; TLC gets rankings in which evidence moves issuers across the boundary.
* Time is relative: `Tick` ages claims, retries and isolates together. A waiting request
  does not age, so a kick may be late.
* A call of the worker either happens and answers, or raises and has not happened;
  `LossyReplies` adds calls that happen and whose answer is lost, and calls that are
  lost. A call never outlives its isolate (hazard on `migration_v37:280`).
* Which of several equally old filings is preferred, coverage below 50 percent and the
  parser itself are the choice between storing and failing. Filings only get newer.
* The worker's `body.limit` of 3 is `BatchLimit`; rows are processed one at a time.

### ScanJob and the code

One universe and scanner version, so at most one active job. `jobs[j]` holds status
and position (`current_stage`, `current_offset`, `current_chunk`, `shortlist`,
`processed_tickers`); `newer` is the order by `updated_at`, a set of pairs; `chunks` the
checkpoint table; `run[r]` what a script run has read and where it is. The actions cut
the code where it calls the database: reading the job, recording the chunk, patching the
job, listing and deleting for the prune.

| Actions | Code |
|---|---|
| `SeeJob`, `Pause`, `Resume`, `Cancel`, `StartScan`, `Crash` | `app.py` |
| `PruneBeforeCreate`, `Create` | `create_scan_job` |
| `ProcessChunk`, `CommitChunk`, `PauseForRetry` | `_process_cache_stage` |
| `Rank`, `CommitRanking`, `BeginFinal` | `process_next_job_step` |
| `Heartbeat`, `CommitFinal` | `finalize_job` |
| `PruneList`, `PruneDelete` | `prune_scan_history_best_effort` |

Abstractions: a chunk is the set of its tickers and the verdict on the cache commit.
The order of `finalize_job` is heartbeats, terminal patch, prune; what it computes and
persists is the choice of its status (`ScanPersistence` has the rest). A run that raises,
loses an answer, or is abandoned by Streamlit ends (`Crash`). A patch is applied when it
is sent or not at all; one that arrives later is the same as a slower run. The prune looks
at all rows, the code at the 80 newest. `FAILED` is left out: the code
writes it for an unknown stage alone (`resumable_scan.py:1078`), and no position of the model is one. A `scan_id` comes from a timestamp with sub-second precision and is not reused.

### ScanPersistence, ResultCommit and the code

`runs` are the rows of `cak_scan_runs`, `newer` their order by `created_at`, `mark` their
status column. `rows[s][t][k]` says which result the row with id `k` was written from:
ids are derived from scan, ticker and rank, so results of one scan share them.
`owner[o]` is the `scan_id` of a row of `cak_outcome_memory`. Its ids name no scan: a
finalisation loads the verified outcomes of all scans and writes them back as its own.
`fin[f]` is a script run inside `persist_scan`, `verify_scan`, `finalize_job` or a prune.

| Actions | Code |
|---|---|
| `Begin`, `CommitJob` | `finalize_job` with `load_verified_outcome_memory`, `_combined_persistence_state` |
| `PostRun`, `PostChunk`, `PostNothing`, `PostOutcomes`, `PostNoOutcomes`, `MarkWritten` | `persist_scan`, `_post_payload_in_chunks`, `_set_scan_status` |
| `ReadBack` (`EXACT`), `ReadOutcomes` (`AT_LEAST`), `MarkVerdict` | `verify_scan`, `finalize_scan_persistence` |
| `Seed` | `run_outcome_maintenance_best_effort`, `cak_seed_outcomes_for_scan` |
| `NewJob`, `PruneList`, `PruneDelete` | `create_scan_job`, `prune_scan_history_best_effort` |
| `Crash` | the process or the page |

Every request is answered, refused, or applied with its answer lost. Two tables stand for
the five whose rows belong to one scan: the radar, which a page cannot do without and whose rows are the tickers of the
universe, and one that may be empty. Foreign keys delete their rows with the run; outcomes stay, with no scan
(`ON DELETE SET NULL`). Which outcomes are verified, and hence loaded, is left open. The prune lists all runs, the code the 50 newest. A job
reaches `FINALIZE` in one step of a prune, since what comes before is `ScanJob`. With `Overlap` off
no two script runs finalise one scan.

`ResultCommit` has a verdict per scan, the tables that hold exactly what was published, and the outcomes remembered.
The refinement mapping reads the verdict off the job's status, and the tables off the rows
and the job's `result_summary`, while the job is completed and its run is there.

### SourceCache, SourceProviders, KseiProfile and the code

One ticker and one of the seven families (bars, market features, KSEI profiles, fundamentals,
IDX fundamentals, news, forward research) per behaviour. A row has a grade, an age, an edition (which
answer of the provider it holds) and whether its hash is right. `scan[s]` goes through the
requests of a cache stage and then of `FINALIZE`, which is another process.

| Actions | Code |
|---|---|
| `Fetch` | the cache-first readers and `_process_cache_stage` |
| `Guard`, `Write`, `Verify` | the bundle writers, the KSEI guard in the client and in the database, the SHA readback and the one rewrite |
| `LookByName`, `LookByTicker` | the look into research memory and the shared table |
| `Load` | the `load_cached_*` functions of `FINALIZE` |
| `Start`, `Resume`, `Die`, `Rest`, `Pass` | the page, the process, time and the provider |

What a provider answers is not chosen freely: `SourceProviders` derives the set of grades
per family from its chain of providers with their retries, fallbacks and validation, and
`KseiProfile` does so for the chain of wrappers that the runtime patches install around
`fetch_many_ksei_profiles`. Two tries stand for two to four.

### EvidenceHub, SharedMetrics and the code

`EvidenceHub` is `get_or_refresh` cut at its requests: classify, acquire the lease, fetch,
persist, read back, complete or fail the lease, record the provider state. A behaviour is
one family, two requests whose arguments differ where the family lets them, and a
provider with three items of which one may be odd (without an issuer, of another period, malformed).
`HubFamilies` gives for each family the lease key, the filter, whether its feed may end early
(`EndsEarly`, `Answers`), that a page budget which ends first raises, what the normaliser skips and what the
validator refuses. Leases may run out at any time, and a client may die or lose an answer
at any request. `GrowOld` takes the rows beyond the maximum age.

`SharedMetrics` has the rows of one ticker: what `bridge_*` make of filed reports and of
snapshots, `publish` of a frame and of vendors, and what the reader makes of pages.
A batch may end half way, and a read may miss any rows.

### Decisions and the code

The functions from `Observed` to `FinalDecision` are pure, one operator per function of
the source: scores are whole percents, prices whole rupiah, floats are cut to these.
`Decisions` puts them in order: `Score` is `finalize_job` up to the radar, `Finalize` the
passes of `finalize_decision_snapshot` under the current release, `Upgrade` a new release, `LoadOlder`
the page that reads back rows a former release stored, flow columns included, and enriched in place. The answers of flow providers are chosen anew
at every finalization, among those of the case. `case` names for every issuer a block of evidence from a catalogue.
`radar_sort` breaks a tie of state and conviction by inventory, flow and liquidity; in the model rows that are level come in any order.

## 3. Runs

| Run | Result | Shows | Distinct states |
|---|---|---|---|
| `XbrlQueue_safety` | pass | `TypeOK`, `WaitingIsClaimable`, `CompleteHasEvidence`, `FinalRankingIsCurrent`, `VerdictStands` while filings are replaced and isolates die | 168,628 |
| `XbrlQueue_live` | pass | `OneWorkerPerFiling`, `ReclaimSparesLiveWorkers`, `EveryJobSettles`, `RankingConverges` with a poison filing, crashes and lost answers | 19,773 |
| `XbrlQueue_poison` | violation | `FailedWasTried`: a poison filing takes a batch-mate down with it |  |
| `ScanJob_overlap` | pass | `TypeOK`, `NothingSkipped` with two overlapping runs and one shortlist | 294,536 |
| `ScanJob_single` | pass | `NothingLost`, `ForwardOnly`, `PruneSparesTheNewest`, `JobEnds` with one run and three jobs | 48,244 |
| `ScanJob_heartbeat` | violation | `HeartbeatOnlyReports`: a heartbeat revives an ended job |  |
| `ScanPersistence_safety` | pass | `TypeOK`, `FullIsExact`, `CompletedRadar`, `OutcomesRemembered` and the refinement `CommitSpec` with two finalisers of two scans and two faults | 889,317 |
| `ScanPersistence_overlap` | violation | `FullIsExact` when two script runs finalise one scan |  |
| `SourceCache_live` | pass | `TypeOK`, `ProcessedIsLoaded`, `EveryChunkLands` for each of the seven families with two scans | 110,673 |
| `EvidenceHub_safety` | pass | `TypeOK`, `SuccessIsFenced`, `ServedIsWhole`, `EmptyIsEmpty`, `OneHolderFetches`, `CachedStaysCached` for every family, `OfficialIsFiled` for the table of figures | 511,504 |
| `Decisions_safety` | pass | ten properties of the decisions (section 4) over all cases, two releases and changing answers | 8,639 |
| `Decisions_hardblock` | violation | `HardBlockHolds`: a merged hard block is not acted on |  |

**Bounds, XBRL.** Two isolates are enough for two claimants of one row and for a worker
next to a finalizer. Two issuers for one place, three in the poison run, let evidence push one out and another
in. `WallClock` 1 and `StaleAfter` 1 put the isolate's ceiling right at the threshold; the
real distance is wider. `BatchLimit` 2 makes batch-mates, `MaxAttempts` 2 (3 in the poison
run) makes the last attempt reachable, `MaxDepth` 1 ends a chain. `SeedStaleAfter` is larger
than `StaleAfter` as in the code. `MaxFile` 2 lets a filing be replaced while it is in work.

**Bounds, jobs.** Two or three tickers with chunks of one or two give stages of one chunk
and of several, the last of them short; `OfficialLimit` 1 makes the official stage shorter
than the shortlist; one heartbeat stands for four. `DeepStages` enables the second and the
last of the four deep stages, so that `NextDeepStage` skips one and ends. Three jobs in the
single run let a prune choose. In the overlap run one job is enough, since stale patches
stay within a job, and one shortlist: two runs that rank different shortlists can leave
work on one list counted for the other (section 7), which `NothingSkipped` does not survive.
`CHECK_DEADLOCK FALSE`: once every scan id is used and ended, nothing is left to do.

**Bounds, persistence.** Two scans and `KeepRuns` 1 make every prune choose; two tables with
up to two rows in chunks of one give a table of several chunks, an empty one and results of different
size; two faults let one attempt fail and the next one too. The outcome memory meets the tables of a scan only in the
verdict, so `MCScanPersistence` explores the tables without outcomes, and outcomes with one result
whose rows no fault keeps from the other tables unless a prune took their run (the faults of those requests are the first half's): two outcomes in chunks of one,
of which the maintenance of either scan may seed the one and a user upload the other with any job. In the overlap run one scan and no fault are enough.
`CHECK_DEADLOCK FALSE`: when all jobs are completed nothing is left to do.

**Bounds, cache and hub.** Two scans, a source that changes or rows that grow older up to twice; one row, since rows of different tickers meet only in a chunk that is redone as a whole. Two
clients, two requests, three items of which one may be odd. Both requests are asked in the families
where their leases meet, or rows that no property excepts, and one in the others. The table of figures has two
periods, two times, two reports and two writes; a source brings all figures of a report or
the revenue alone. `MCEvidenceHub` explores the leased
families and the table of figures side by side, one while the other rests: they share no
variable.

**Bounds, decisions.** Two issuers, a base of evidence under which they are authorized,
and cases in which one of them or the scan deviates from it: in one block or none with up to five
pairs of answers by the providers of flow, in any two blocks without such answers; two releases. Two deviations are what it takes to combine a block
with a merge or a default; the base keeps single deviations one step from authorization.
`CHECK_DEADLOCK FALSE`: a radar that the last release has finalized is only copied.

**Fairness, XBRL.** The platform runs what has been started and time passes (`WF` on
worker steps and `Tick`). Watchdog and finalizers recur (`WF`); in the code
the watchdog fires every five minutes from 19:00 to 22:55 WIB and the finalizers twice
an evening, so the liveness results hold for an evening that is long enough, and what
is left at 22:55 waits for the next day. `SF` on `FinalizeEnd`, on the kick of a watchdog
and on `Claim` says that rankings, kicks and requests do not fail every time. Crashes,
publication and the two evening kicks are unfair.

**Fairness, jobs.** Somebody opens the page and an active job is picked up (`WF` on
`SeeJob`); a checkpoint, a commit and a finalisation that are tried again and again
succeed some time (`SF`). Clicks and crashes are unfair, so a job may be paused or cut
off any number of times. With one run only: two runs can keep a job alive for ever
(`ScanJob_heartbeat`).

**Fairness, cache.** A scan at work goes on and a paused one is resumed (`WF`), which is the
auto-continue of the page; and failures of requests and pages end some day. Without the
second, two scans whose writes are lost in turn can rewrite one row for ever.

## 4. Properties

* `OneWorkerPerFiling`, `ReclaimSparesLiveWorkers` — there is no claim token: `finish`
  asks for a ticker alone. What keeps two workers off one filing is the clock.
* `WaitingIsClaimable`, `EveryJobSettles` — reclaims, failures and reconciliation must
  agree on when a row's attempts are used up; `migration_v40` did not.
* `CompleteHasEvidence`, `VerdictStands`, `FinalRankingIsCurrent`, `RankingConverges` — rows
  are seeded again for new filings, and ranking and reconciliation feed each other.
* `NothingSkipped`, `NothingLost`, `ForwardOnly` — what the
  stored checkpoint says against what was done. `PruneSparesTheNewest`, `JobEnds`. `ProcessedMatchesOffset`, the
  progress count, is proved and has no run of its own.
* `FullIsExact`, `CompletedRadar`, `CommitSpec` — a count cannot tell one result from
  another, and rows of earlier attempts stay; still a full verdict is true of the tables whose rows belong to one scan.
* `OutcomesRemembered` — of the shared outcome memory a full verdict promises less, and a count of
  at least so many rows does not show it: what the job was made with is there, under whatever scan.
* `ProcessedIsLoaded`, `EveryChunkLands` — a row that was verified by one scan may be
  another's by the time it is loaded; a guard that keeps the old row must not pause a chunk for ever.
* `SuccessIsFenced`, `OneHolderFetches`, `ServedIsWhole`, `CachedStaysCached`,
  `EmptyIsEmpty` — the lease fences success but not the upserts; what late and cut-off
  refreshes leave must still be whole for whoever reads it. `ServedIsWhole` is about the
  families that read their feed to its end: trade details, announcements, profiles, references, members, XBRL facts.
* `OfficialIsFiled` — no order of writers and no torn read makes an observation official.
* `AuthorizedOnCleanEvidence`, `BlocksAreGrounded`, `RejectedStaysOut`, `ShockDelays`,
  `CapFollowsRegime`, `StopBounded` — what many functions apart must agree on.
* `EnrichedOnce`, `NothingPromotes`, `RefinalizeKeeps` — passes that rewrite what earlier passes
  wrote, and releases that run them again.

Every property of a passing run has a mutant in `PROJECT.json`: an operator defined in
the module that changes one definition the way a plausible mistake in that code would, and
breaks the property. Two of them are the code of earlier migrations
(`ReclaimedRow_AlwaysRetries` is v40, `FinalizeEnd_NoRecount` is v42).

Some properties carry exceptions, each written at the property; they are losses of the
code's own (section 7).

## 5. Findings

* **Batch-mates of a poison filing** (`XbrlQueue_poison`). Claiming three rows counts an
  attempt for each. If the first kills the isolate, all three lose one, and since they
  are claimed by rank they tend to be claimed together again. After three times the
  innocent two are `PARSE_FAILED` although nobody opened them.
* **Heartbeats write status and stage** (`ScanJob_heartbeat`): a late heartbeat of a
  finalisation makes a cancelled or completed job RUNNING again, since job patches name
  only the `scan_id`.
* **Two finalisations of one job mix their rows** (`ScanPersistence_overlap`): counts agree,
  the job says COMPLETED, and the tables hold rows of both results.
* **A merged hard block is not acted on** (`Decisions_hardblock`): the gates read the
  provenance of the integrity evidence, and a merge of two sources changes it.

## 6. Theorems

All for any value of the constants that satisfies the module's named assumption.

| Theorem | Assumes besides | Says |
|---|---|---|
| `XbrlQueueProofs!TypeCorrect` | | `Spec => []TypeOK` |
| `ReclaimIsSafe` | | `Spec => ReclaimSparesLiveWorkers` |
| `WorkersAreExclusive`, `NoRowIsStranded`, `CompleteIsBacked`, `FinalIsCurrent` | `~LossyReplies` | `[]OneWorkerPerFiling`, `[]WaitingIsClaimable`, `[]CompleteHasEvidence`, `[]FinalRankingIsCurrent` |
| `VerdictsStand` | `~LossyReplies` | `Spec => VerdictStands` |
| `ScanJobProofs!TypeCorrect` | | `Spec => []TypeOK` |
| `ScanJobSafety!NothingIsLost` | one script run | `Spec => []NothingLost` |
| `ProcessedIsOffset` | one run, no ticker twice in the universe | `Spec => []ProcessedMatchesOffset` |
| `CheckpointsAdvance`, `PruneIsSafe` | one run | `ForwardOnly`, `PruneSparesTheNewest` |
| `NothingIsSkipped` | one run, or one shortlist | `Spec => []NothingSkipped` |
| `ScanPersistenceProofs!TypeCorrect`, `FullVerdictIsExact`, `RadarIsExact`, `OutcomesKept` | `~Overlap` | `[]TypeOK`, `[]FullIsExact`, `[]CompletedRadar`, `[]OutcomesRemembered` |
| `ScanPersistenceProofs!ImplementsCommit` | `~Overlap` | `Spec => CommitSpec`, the refinement |
| `EvidenceHubProofs!TypeCorrect`, `SuccessFenced`, `EmptyMonths`, `OneHolder` | | `[]TypeOK`, `[]SuccessIsFenced`, `[]EmptyIsEmpty`, `OneHolderFetches` |
| `ServedWhole`, `CachedStays` | | `[]ServedIsWhole`, `CachedStaysCached` |
| `SharedMetricsProofs!OfficialFiled`, `MetricsTyped` | | `[]OfficialIsFiled`, `[]MetricsTypeOK` |
| `SourceCacheProofs!TypeCorrect`, `WhatIsProcessedLoads` | | `[]TypeOK`, `[]ProcessedIsLoaded` |
| `DecisionsProofs!DecisionsInvariant`, `FinalInvariant` | | `[]DecInv`, `[]FinalInv` (below) |
| `BlocksGrounded`, `AuthorizedIsClean`, `RejectedIsOut` | | `[]BlocksAreGrounded`, `[]AuthorizedOnCleanEvidence`, `[]RejectedStaysOut` |
| `ShockIsDelayed`, `CapIsBounded`, `StopIsBounded` | | `[]ShockDelays`, `[]CapFollowsRegime`, `[]StopBounded` |
| `NeverPromotes`, `RefinalizingKeeps` | | `Spec => NothingPromotes`, `Spec => RefinalizeKeeps` |
| `ConfirmedOnce`, `Typed` | | `[]EnrichedOnce`, `[]TypeOK` |

**XbrlQueue.** The one assumption of substance is `WallClock <= StaleAfter` (150 seconds
and 5 minutes in the code, `migration_v42:1-2`).

1. `TInv`: types, plus that a worker has a batch exactly in the steps that work on one
   (`BatchStep`), and that no row names a filing newer than the catalogue's while an open
   row, or one in a worker's hands, names a real one (`FileNamed`).
2. `LockedStale`, `YoungClaims`: the claim of a row in a live worker's hands is never
   older than the worker, while a reclaimed or locked row is older than `StaleAfter`. An
   isolate dies at `WallClock`, so no live worker holds such a row: `ReclaimIsSafe`. This
   needs no word about replies; a finish by another worker only resets the age.
3. `HeldIsRunning`, `HeldOnce`, `RefreshQuiet`: without lost replies a held row is
   RUNNING, carries the filing the worker has, and is held once; and no worker holds a row
   while a ranking is computed. Together with 1 and 2 this is inductive (`Core`). It gives
   `WorkersAreExclusive`. `RefreshQuiet` is what keeps the reconciliation from replacing a
   row in work: the ranking begins with no open row, and only its end opens one.
4. `RowSteps`: under `Core` every step keeps a row, takes it for a worker, lets it go, or
   seeds it again. From this follow the invariants on single rows.
5. `FinalQuiet`: while the outcome is FINALIZED nobody can store evidence, because nothing
   is open to be claimed; so the ranking stays current.

**ScanJob.** With one run (`OneRun`) a run that acts still sees the row it has read
(`RunSound`), and a position is `Sound` for the chunks on record: everything behind it is
in a chunk that was committed. Committing a chunk appends exactly the next items, so
soundness is kept (`CommitSound`); all other patches keep the position. `Kept` says of
every step that a row that stays is not behind itself and one that goes is an old terminal one,
and gives the two action properties. With two runs `RunSound` fails, and so do these
theorems.

*Runs that overlap* skip nothing all the same, as long as they rank the same shortlist
(`NothingIsSkipped`). What a run holds may be behind or ahead of the row, but every position,
stored or in a run's hands, is on the one course that the universe and the shortlist lay down
(`OnCourse`): its offset is a whole number of chunks or the end of the stage, and its chunk
number follows from stage and offset. So two runs that record the same chunk number record the same tickers, and an upsert
takes nothing away. All that a position is ahead of is on record (`HasBehind`), chunks
stay until their job is deleted, and so a stale patch takes the job back to a position that was sound
and still is. The shortlist has to be one: section 7 has the counterexample.

**ScanPersistence.** `FinSound` follows the rows of one finalisation from the POST that
wrote them to the terminal patch: while the run is there, every table behind it that did
not fail holds all its rows (`StoredBy`), and every table it has read back has as many rows
as it wrote (`CountedBy`). A set of rows that contains these and is not larger is these
(`CountIsExact`), so rows of an earlier attempt have no place. The radar needs no
count: its ids are those of the universe (`RadarOnly`). Every other step leaves a published scan alone or deletes its
run whole (`Keeps`), which maps to `Drop` or a stutter; the terminal patch maps to
`Publish`, and the posting or seeding of outcomes to `Remember`. Outcomes have an invariant of their own
(`OutcomeInvariant`): of what a finalisation has to write, everything is remembered but what is pending, or the table has failed.
It says nothing of owners and counts, which other scans change: no request deletes an outcome. Exclusive finalisation is needed: without it `ScanPersistence_overlap` is the
counterexample.

**EvidenceHub.** A client at work has lost its lease exactly when the table names somebody
else (`LeaseShape`); rows in hand and the verdict "empty" go back to what the provider
had (`GotShape`, `EmptyShape`). `RowsInv` adds the rows: an item is in the table only for
a request that asks for it (`RowsAsked`), a client in possession of rows has all the good ones of its
request (`GotWhole`), and where a row of a request stands, all of its good ones do
(`RowsWhole`), since the upserts of one request are one batch and no other takes rows away.

**SharedMetrics.** A row carries the period of its figure,
and an official one the figure of a filed and verified report (`RowShape`); a reader picks
one period, so a torn read loses figures but does not mix them.

**SourceCache.** `CacheInv` says what a row may be: known and dated, and intact unless its
family is guarded by day or nobody has written it yet (`RowShape`); and what a scan has in hand at
each of its steps (`ScanShape`): what it holds and writes loads, and a row it has found or
verified, if another scan's answer is in its place by now, was replaced by one that loads
as well. Memory is filled only in the two families of statements.

**Decisions.** For any issuers, catalogue of evidence, answers and number of releases.
`DecisionsAssumption` types what the providers and the indicators deliver (`IsFeatures`, `IsEvent`, ...; a
missing number is `NaN`, which is a number too), and says that a case names blocks the
catalogue has. Two parts of `IsFund` are more than types. A fundamental that official filings
cover has a period, hence an age: both producers of official payloads refuse one without (`idx_official_fundamentals.py:181`,
`shared_fundamental_runtime_patch.py:129`). `ocf` is the cash flow that the label of its
quality was judged from, and a label that is neither missing nor negative is judged from one that is
not negative (`_cashflow_quality_state`, `autonomous_enrichment.py:949`). Without them `AuthorizedIsClean`
would have to allow an official fundamental without a date, or a label that contradicts its amount.

1. `BlocksGrounded` needs no history: an integrity profile is hard only because of a
   verified row, a KSEI status or an official alert, through every way of merging them.
2. `DecInv` ties each row of the radar to the profile its issuer was scored with (`RowInv`): state, path and cap
   are the profile's, a row is ready only if the profile was, and a row that is presentable had no hard
   block under a known provenance. Evidence does not change (`EvidenceStays`), so this is kept if each
   pass keeps it. Each pass has a lemma that it is `Passed`: the columns it may not touch stay,
   and the row is `Weaker` or equal. `Passed` composes, which gives `NeverPromotes` for
   whole finalizations, and leaves the safety theorems to the scoring: what `Profile` demands
   of a READY row (`AuthorizedIsClean`), and what a hard block, a risk-off market or a path allow.
3. The clause of `DecInv` on finalized rows, `Delayed`, is what the guard on foreign selling establishes and later passes
   keep. It has to be in the invariant, as a later release reads the row back and not the answer.
4. `FinalInv` is about repetition. A row is `Confirmed`: open to flow with the scan's own
   conviction, or closed to all further flow and within five points of it. A finalized row is `Frozen`,
   a fixed point of dashboard, guards, audit and tiers (`Pass`), and the radar is `Ranked`: its
   ranks are those of its scores. So a later finalization with other answers finds the
   rows closed, computes the same row, and ranks it the same (`RefinalizingKeeps`). Neither
   part is inductive alone: that a tier is computed again unchanged needs that the
   conviction it reads is final.
5. `Typed` needs that scores are numbers from end to end. Means and sums are folds over
   finite sets, for which the library has no induction that can be instantiated here;
   `SumsExist` and `SumIn` argue by a least counterexample instead (`LeastNumber`). A
   rank is one more than the number of rows before it (`Place`).

TLC finds `DecInv` and `FinalInv` true on the instance of `Decisions_safety` as well.

**Only model-checked.** All liveness (`EveryJobSettles`, `RankingConverges`, `JobEnds`,
`EveryChunkLands`): fairness and ENABLED are out of the prover's reach.
`OneWorkerPerFiling` under lost replies, where no inductive invariant was found.

## 7. What the models show besides

Losses and surprises of the code that a property excepts or that no property states:

* **Cache.** A slow scan can write bars of an earlier session over newer ones, and
  `FINALIZE` loses the ticker. The rewrite of a failed verification puts a scan's row over another's newer
  one. A KSEI row with a wrong hash pauses its chunk for good. The newest report failing for
  the moment makes an earlier period's report the verified answer, and a negative answer replaces a
  verified report. `_safe_statement` (`autonomous_enrichment.py:856`) swallows every
  exception, so an outage writes a blank snapshot over a good one, although
  `persistent_cache.py:107` says that an outage does not erase durable research memory.
  KSEI's price page, a few weeks long, is stored as a period of five years
  (`persistent_cache.py:497`). The completed KSEI frame is discarded by its stage
  (`resumable_scan.py:884`) and not completed again when loaded. A forward check that
  failed is stored as fresh for a day.
* **Job.** Two script runs that rank different shortlists can skip a ticker: the chunk of one
  list is committed as an offset into the other, because the patch of a checkpoint
  (`resumable_scan.py:968`) names neither the list nor the position it came from. `ScanJob_overlap.cfg`
  with `Shortlists <- TwoShortlists` violates `NothingSkipped` within seconds. A late failed checkpoint pauses a completed job (`resumable_scan.py:949`).
* **Persistence.** The run mark is best effort and may stay behind the verdict. Every finalisation takes the verified
  outcomes of earlier scans over: `scan_id` becomes its own, and their payload shrinks to the columns
  `load_verified_outcome_memory` reads (anchor price and resolver are lost). So the count of an earlier scan falls, while
  `load_persisted_scan_result` goes on to call it exact. The outcome count of a COMPLETED job is a lower bound that rows of
  another attempt or of the maintenance may meet. Uploaded outcomes without an `outcome_id` collapse to one as soon as the memory has
  rows (`resumable_scan.py:1278`). The maintenance also seeds from a finalisation that is to be retried. The function that deletes
  outcomes after 400 days (`cak_free_tier_housekeeping`) is not called since `migration_v11`.
* **Hub.** Upserts and provider states are not fenced by the lease; the client does not look again
  after it acquired one, so a second call of the provider may follow the first. The verdict VALID_EMPTY never
  expires. Answers with holes are stored as a success by five families: RISK, DIRECTORY and TURNOVER take an empty page
  that promises more for the end, OWNERSHIP stops at the first index page that names a file, and the stock
  summary is one page of at most 5000, whatever the total. CAPITAL and ANNOUNCEMENT raise on such a page;
  ANNOUNCEMENT relies on a feed that is sorted with the newest first. Rows of risk notices and capital actions go to the last
  request that read them. Announcements of a day that is not over stay cached.
* **Figures.** The proxy's period is the newest over all rows while each figure is the one observed
  last, so a figure of an earlier period can stand under a newer one. Restated reports
  leave their rows behind. The `bridge_*` functions have no caller in this repository.
* **Decisions.** A merged integrity profile cannot reach READY when any KSEI profile is
  there; `EMIR_AUTO_EOD_READY` is dead in this path. The demotion after a foreign shock
  leaves the risk budget at 0.75. Benchmark 40 with universe 38 is SELECTIVE although both are weak
  (`README.md:25` of the repository). Lots are sized before the finalization demotes a
  row, and the block on banks keeps caps. An issuer without any source can
  become presentable when it is finalized again (`top3_dashboard_legacy.py:453`). The label of
a reconciled fundamental's cash flow is judged from the official report alone (`autonomous_enrichment.py:1512`); a
vendor's trailing cash flow of the other sign stays beside it, and the gate reads the label.

## 8. Not modelled, and what is left

Not modelled: the XBRL parser, worker tokens and the 14-day prune; payload shapes and the
result that `load_persisted_scan_result` rebuilds; HTTP sessions and backoff; the
indicators computed from price series (inputs of `MarketContext`); `_adjust_cost_confidence`,
walk-forward calibration and the coverage reports; rendering; ownership changes and
dilution events derived in the hub; the research memory, the SQL that resolves outcomes, ranking SQL, calendar and
operator tools, which upsert or compute in one step and share no state with
anything that runs beside them. `PROJECT.json` has the reason for each.

Left, in order of worth: `ResumablePass`, an abstract specification of the job as a growing
set of work done, which `ScanJob` with one run implements; the composition of `ScanJob`'s
`CommitFinal` with `ScanPersistence`; a delayed finish in `XbrlQueue` as a message in
flight; research memory beside the cache.
