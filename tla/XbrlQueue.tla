------------------------------ MODULE XbrlQueue ------------------------------
(***************************************************************************)
(* The evening ingestion of official XBRL filings: the queue table         *)
(* cak_idx_fundamental_ingestion_queue and its SQL functions, the edge     *)
(* worker emir-xbrl-worker, and the cron jobs (five-minute watchdog and    *)
(* the two finalizers) that keep the pair going.                           *)
(*                                                                         *)
(* A row is claimed in a batch, its filing is downloaded, parsed and       *)
(* stored as evidence, and the row is finished.  The isolate that runs the *)
(* worker may be killed at any moment; its rows then stay RUNNING until a  *)
(* finalizer reclaims them.  When no row is open the finalizer recomputes  *)
(* the ranking from the evidence, reconciles the queue with the new top of *)
(* the ranking, and declares it final once nothing is open.                *)
(*                                                                         *)
(* One rank_date is modelled.  Init is the state the 19:35 seed leaves.    *)
(* Time is relative: a row remembers the ticks since its claim and the     *)
(* ticks to its next retry, so behaviours are infinite and states finite.  *)
(***************************************************************************)
EXTENDS Naturals, Sequences, FiniteSets

CONSTANTS
    Ticker,          \* issuers that can reach the ranking
    Worker,          \* slots for concurrent invocations of the edge function
    Special,         \* tickers whose stock name starts with MVS
    Poison,          \* filings whose parsing makes the runtime kill the isolate
    MaxFile,         \* filings are numbered 1..MaxFile per ticker; 0 is none
    RankOf,          \* evidence -> ranking, a stand-in for cak_refresh_idx_ranking_v2
    Top,             \* size of the ranking the queue covers (900)
    BatchLimit,      \* rows claimed by one invocation (3)
    MaxAttempts,     \* claims of one filing (3)
    MaxDepth,        \* hops of one chain (300)
    WallClock,       \* ticks an isolate may live (150 seconds)
    RetryDelay,      \* ticks before a failed filing is retried (5 minutes)
    StaleAfter,      \* ticks after which a finalizer reclaims a row (5 minutes)
    SeedStaleAfter,  \* the same threshold in the seed (15 minutes)
    AnyCrash,        \* may an isolate die anywhere, or only on a poison filing?
    LossyReplies     \* may a call of the worker be lost, or applied and its answer lost?

File == 0..MaxFile
Filing == Ticker \X (1..MaxFile)
Max2(a, b) == IF a > b THEN a ELSE b
AgeCap == Max2(StaleAfter, SeedStaleAfter) + 1

\* The thresholds of the code satisfy the last conjunct: an isolate lives 150
\* seconds and a claim is stale after 5 minutes (migration_v42:1-2).
ASSUME QueueAssumption ==
    /\ MaxFile \in Nat /\ Top \in Nat /\ BatchLimit \in Nat \ {0}
    /\ MaxAttempts \in Nat \ {0} /\ MaxDepth \in Nat
    /\ WallClock \in Nat /\ RetryDelay \in Nat
    /\ StaleAfter \in Nat /\ SeedStaleAfter \in Nat
    /\ Special \subseteq Ticker /\ Poison \subseteq Filing
    /\ RankOf \in [SUBSET Filing -> [Ticker -> Nat]]
    /\ AnyCrash \in BOOLEAN /\ LossyReplies \in BOOLEAN
    /\ WallClock <= StaleAfter

VARIABLES
    queue,       \* the queue table: one row per ticker, ABSENT when there is none
    catalog,     \* the newest filing published for each ticker
    evidence,    \* filings stored in cak_idx_fundamental_snapshot
    ranked,      \* the evidence the committed ranking was computed from
    worker,      \* invocations of the edge function
    refresh,     \* the finalizer transaction that is recomputing the ranking, if any
    outcome,     \* the state the last finalizer reported
    tried        \* history: filings an invocation has started on

vars == <<queue, catalog, evidence, ranked, worker, refresh, outcome, tried>>

Open == {"PENDING", "RUNNING", "RETRY"}
Settled == {"COMPLETE", "PARSE_FAILED", "OFFICIAL_FILING_UNAVAILABLE", "SPECIAL_INSTRUMENT"}
Row == [status: Open \cup Settled \cup {"ABSENT"}, attempts: 0..MaxAttempts, file: File,
        rank: Nat, wait: 0..RetryDelay, age: 0..AgeCap]
NoRow == [status |-> "ABSENT", attempts |-> 0, file |-> 0, rank |-> 0, wait |-> 0, age |-> 0]

Slot == [step: {"idle", "requested", "job", "stored", "failed", "chain", "drain"},
         batch: Seq(Filing), depth: 0..MaxDepth, age: 0..WallClock]
Idle == [step |-> "idle", batch |-> <<>>, depth |-> 0, age |-> 0]
Request(depth) == [Idle EXCEPT !.step = "requested", !.depth = depth]
NoRefresh == [on |-> FALSE, evidence |-> {}, locked |-> {}]

TypeOK ==
    /\ queue \in [Ticker -> Row]
    /\ catalog \in [Ticker -> File]
    /\ evidence \subseteq Filing
    /\ ranked \subseteq Filing
    /\ worker \in [Worker -> Slot]
    /\ refresh \in [on: BOOLEAN, evidence: SUBSET Filing, locked: SUBSET Ticker]
    /\ outcome \in {"NONE", "EVIDENCE_PENDING", "TOP900_RECONCILIATION_PENDING", "FINALIZED"}
    /\ tried \subseteq Filing

-----------------------------------------------------------------------------
(* The seed: what the queue gets for the top of a ranking.                  *)

Member(ranking, t) == ranking[t] <= Top

SeedStatus(t) ==
    IF t \in Special THEN "SPECIAL_INSTRUMENT"
    ELSE IF catalog[t] = 0 THEN "OFFICIAL_FILING_UNAVAILABLE"
    ELSE IF <<t, catalog[t]>> \in evidence THEN "COMPLETE" ELSE "PENDING"

\* Mutants: the conflict branch keeps the status of a row whose filing changed;
\* or starts every row over.
Seeded_KeepsStatus(old, ranking, t) ==
    IF old.status = "ABSENT"
    THEN [NoRow EXCEPT !.status = SeedStatus(t), !.file = catalog[t], !.rank = ranking[t]]
    ELSE [old EXCEPT !.file = catalog[t], !.rank = ranking[t]]
Seeded_StartsOver(old, ranking, t) ==
    [NoRow EXCEPT !.status = SeedStatus(t), !.file = catalog[t], !.rank = ranking[t]]

\* INSERT ... ON CONFLICT over the old row: a new row, a row whose filing changed
\* (which starts over, keeping only its next_retry_at), a RUNNING row that is very
\* stale, or an unchanged row with a new rank.
Seeded(old, ranking, t) ==
    LET fresh == [NoRow EXCEPT !.status = SeedStatus(t), !.file = catalog[t], !.rank = ranking[t]]
    IN IF old.status = "ABSENT" THEN fresh
       ELSE IF old.file # catalog[t] THEN [fresh EXCEPT !.wait = old.wait]
       ELSE IF old.status = "RUNNING" /\ old.age > SeedStaleAfter
            THEN [old EXCEPT !.status = "RETRY", !.rank = ranking[t], !.age = 0]
       ELSE [old EXCEPT !.rank = ranking[t]]

\* Delete the rows that left the top of the ranking, then seed the rest.
Reconciled(rows, ranking) ==
    [t \in Ticker |-> IF Member(ranking, t) THEN Seeded(rows[t], ranking, t) ELSE NoRow]

Init ==
    /\ catalog \in [Ticker -> {0, 1} \cap File]
    /\ evidence = {} /\ ranked = {} /\ tried = {}
    /\ queue = [t \in Ticker |->
                  IF Member(RankOf[{}], t)
                  THEN [NoRow EXCEPT !.status = SeedStatus(t), !.file = catalog[t],
                                     !.rank = RankOf[{}][t]]
                  ELSE NoRow]
    /\ worker = [w \in Worker |-> Idle]
    /\ refresh = NoRefresh
    /\ outcome = "NONE"

-----------------------------------------------------------------------------
(* The SQL functions as updates of the queue.                              *)

OpenTickers(q) == {t \in Ticker : q[t].status \in Open}

\* Mutant: the claim takes new rows only.
Claimable_NoRetry == {t \in Ticker : /\ queue[t].status = "PENDING"
                                     /\ queue[t].wait = 0
                                     /\ queue[t].attempts < MaxAttempts}

Claimable == {t \in Ticker : /\ queue[t].status \in {"PENDING", "RETRY"}
                             /\ queue[t].wait = 0
                             /\ queue[t].attempts < MaxAttempts}

\* A batch is the best-ranked claimable rows, in any order: RETURNING has none.
Batches ==
    {b \in UNION {[1..n -> Claimable] : n \in 0..BatchLimit} :
        /\ \A i, j \in DOMAIN b : i # j => b[i] # b[j]
        /\ \A t \in Claimable : \/ \E i \in DOMAIN b : b[i] = t
                                \/ /\ Len(b) = BatchLimit
                                   /\ \A i \in DOMAIN b : queue[b[i]].rank <= queue[t].rank}

Claimed(batch) ==
    [t \in Ticker |->
        IF \E i \in DOMAIN batch : batch[i] = t
        THEN [queue[t] EXCEPT !.status = "RUNNING", !.attempts = @ + 1, !.age = 0]
        ELSE queue[t]]

\* cak_idx_finish_fundamental_job_v1: nothing says who may finish a row.  A locked
\* row is finished after the transaction that locked it.
Finished(t, success) ==
    LET spent == queue[t].attempts >= MaxAttempts IN
    [queue EXCEPT ![t] = [@ EXCEPT
        !.status = IF success THEN "COMPLETE" ELSE IF spent THEN "PARSE_FAILED" ELSE "RETRY",
        !.wait = IF success \/ spent THEN 0 ELSE RetryDelay,
        !.age = 0]]

\* Mutants: a claim is stale at once; or a stale row is retried although its
\* attempts are used up (as in migration_v40).
Stale_AnyAge(t) == queue[t].status = "RUNNING"
ReclaimedRow_AlwaysRetries(t) == [queue[t] EXCEPT !.status = "RETRY", !.wait = 0, !.age = 0]

\* The finalizer takes back rows whose claim is older than the stale threshold.
Stale(t) == queue[t].status = "RUNNING" /\ queue[t].age > StaleAfter
ReclaimedRow(t) ==
    [queue[t] EXCEPT !.status = IF queue[t].attempts >= MaxAttempts THEN "PARSE_FAILED" ELSE "RETRY",
                     !.wait = 0, !.age = 0]
ReclaimedIf(stale) == [t \in Ticker |-> IF t \in stale THEN ReclaimedRow(t) ELSE queue[t]]

\* A kick posts a request with depth 0; the request may be lost on the way, and
\* it is lost when every slot is taken.
Kick(slots) ==
    \/ worker' = slots
    \/ \E w \in Worker : slots[w] = Idle /\ worker' = [slots EXCEPT ![w] = Request(0)]

\* cak_idx_finalize_fundamental_evidence_v1 reclaims, counts, and kicks the worker if
\* rows are open.  If none is, it computes the ranking, which is slow: FinalizeEnd or
\* FinalizeFails is the rest of the same transaction.  Until then the rows it settled
\* stay locked and look RUNNING.  Another finalizer waits for them, or gets to the
\* ranking, collides on the rows of cak_idx_rank_daily and rolls back.
FinalizeBegin(slots) ==
    LET stale == {t \in Ticker : Stale(t)}
        q == ReclaimedIf(stale)
    IN /\ refresh.locked = {}
       /\ \/ /\ OpenTickers(q) # {}
             /\ queue' = q /\ outcome' = "EVIDENCE_PENDING"
             /\ Kick(slots)
             /\ UNCHANGED refresh
          \/ /\ OpenTickers(q) = {} /\ ~refresh.on
             /\ refresh' = [on |-> TRUE, evidence |-> evidence, locked |-> stale]
             /\ worker' = slots
             /\ UNCHANGED <<queue, outcome>>
          \/ /\ OpenTickers(q) = {} /\ refresh.on
             /\ worker' = slots
             /\ UNCHANGED <<queue, refresh, outcome>>

\* Mutant: the ranking is declared final without a second count (before v43).
FinalizeEnd_NoRecount ==
    /\ refresh.on
    /\ ranked' = refresh.evidence
    /\ queue' = Reconciled(ReclaimedIf(refresh.locked), RankOf[refresh.evidence])
    /\ refresh' = NoRefresh
    /\ outcome' = "FINALIZED"
    /\ UNCHANGED <<catalog, evidence, worker, tried>>

\* The ranking is written, the queue reconciled with it and counted again.
FinalizeEnd ==
    LET q == Reconciled(ReclaimedIf(refresh.locked), RankOf[refresh.evidence]) IN
    /\ refresh.on
    /\ ranked' = refresh.evidence
    /\ queue' = q
    /\ refresh' = NoRefresh
    /\ IF OpenTickers(q) # {}
       THEN outcome' = "TOP900_RECONCILIATION_PENDING" /\ Kick(worker)
       ELSE outcome' = "FINALIZED" /\ UNCHANGED worker
    /\ UNCHANGED <<catalog, evidence, tried>>

\* An error while the ranking is computed takes the reclaims back too.
FinalizeFails ==
    /\ refresh.on
    /\ refresh' = NoRefresh
    /\ UNCHANGED <<queue, catalog, evidence, ranked, worker, outcome, tried>>

\* Cron: the watchdog runs every five minutes and does nothing when no row is
\* open; the evening finalizers call the same function unconditionally.
Watchdog ==
    /\ OpenTickers(queue) # {}
    /\ FinalizeBegin(worker)
    /\ UNCHANGED <<catalog, evidence, ranked, tried>>

CronFinalize ==
    /\ FinalizeBegin(worker)
    /\ UNCHANGED <<catalog, evidence, ranked, tried>>

CronKick ==
    /\ \E w \in Worker : worker[w] = Idle /\ worker' = [worker EXCEPT ![w] = Request(0)]
    /\ UNCHANGED <<queue, catalog, evidence, ranked, refresh, outcome, tried>>

-----------------------------------------------------------------------------
(* The edge worker.                                                        *)

Goto(w, step) == [worker EXCEPT ![w].step = step]

\* The last row of a batch is followed by the next hop of the chain.
NextJob(w) ==
    LET rest == Tail(worker[w].batch) IN
    [worker EXCEPT ![w].batch = rest, ![w].step = IF rest = <<>> THEN "chain" ELSE "job"]

\* A request arrives and claims a batch; with nothing to claim it finalizes.
Claim(w) ==
    /\ worker[w].step = "requested"
    /\ \E b \in Batches :
         /\ queue' = Claimed(b)
         /\ worker' = [worker EXCEPT
                ![w].step = IF b = <<>> THEN "drain" ELSE "job",
                ![w].batch = [i \in DOMAIN b |-> <<b[i], queue[b[i]].file>>],
                ![w].age = 0]
    /\ UNCHANGED <<catalog, evidence, ranked, refresh, outcome, tried>>

\* Download, parse and upsert the snapshot of the first filing of the batch.
Store(w) ==
    LET f == Head(worker[w].batch) IN
    /\ worker[w].step = "job" /\ f \notin Poison
    /\ tried' = tried \cup {f}
    /\ \/ evidence' = evidence \cup {f} /\ worker' = Goto(w, "stored")
       \/ UNCHANGED evidence /\ worker' = Goto(w, "failed")
       \/ LossyReplies /\ evidence' = evidence \cup {f} /\ worker' = Goto(w, "failed")
    /\ UNCHANGED <<queue, catalog, ranked, refresh, outcome>>

\* finish(success).  A deleted row raises QUEUE_JOB_NOT_FOUND; that and a lost
\* reply both lead to the catch block, which reports a failure.
FinishStored(w) ==
    LET t == Head(worker[w].batch)[1] IN
    /\ worker[w].step = "stored"
    /\ \/ /\ queue[t].status # "ABSENT"
          /\ t \notin refresh.locked
          /\ queue' = Finished(t, TRUE)
          /\ \/ worker' = NextJob(w)
             \/ LossyReplies /\ worker' = Goto(w, "failed")
       \/ /\ queue[t].status = "ABSENT" \/ LossyReplies
          /\ worker' = Goto(w, "failed")
          /\ UNCHANGED queue
    /\ UNCHANGED <<catalog, evidence, ranked, refresh, outcome, tried>>

\* finish(failure); its own error is not looked at.
FinishFailed(w) ==
    LET t == Head(worker[w].batch)[1] IN
    /\ worker[w].step = "failed"
    /\ worker' = NextJob(w)
    /\ \/ /\ queue[t].status # "ABSENT" /\ t \notin refresh.locked
          /\ queue' = Finished(t, FALSE)
       \/ (queue[t].status = "ABSENT" \/ LossyReplies) /\ UNCHANGED queue
    /\ UNCHANGED <<catalog, evidence, ranked, refresh, outcome, tried>>

\* Mutant: the chain has no bound.
Chain_Unbounded(w) ==
    /\ worker[w].step = "chain"
    /\ worker' = [worker EXCEPT ![w] = Request(@.depth + 1)]
    /\ UNCHANGED <<queue, catalog, evidence, ranked, refresh, outcome, tried>>

\* The next hop of the chain takes the slot over.
Chain(w) ==
    /\ worker[w].step = "chain"
    /\ worker' = [worker EXCEPT ![w] =
            IF @.depth + 1 <= MaxDepth THEN Request(@.depth + 1) ELSE Idle]
    /\ UNCHANGED <<queue, catalog, evidence, ranked, refresh, outcome, tried>>

\* An invocation that claimed nothing calls the finalizer and ends.
Drain(w) ==
    /\ worker[w].step = "drain"
    /\ FinalizeBegin([worker EXCEPT ![w] = Idle])
    /\ UNCHANGED <<catalog, evidence, ranked, tried>>

-----------------------------------------------------------------------------
(* The environment: isolates die, filings are published, time passes.      *)

\* What an isolate was working on when it died.
Started(w) == IF worker[w].step = "job" THEN {Head(worker[w].batch)} ELSE {}

\* Parsing a poison filing takes the isolate down, with the rest of its batch.
Poisoned(w) ==
    /\ worker[w].step = "job" /\ Head(worker[w].batch) \in Poison
    /\ tried' = tried \cup Started(w)
    /\ worker' = [worker EXCEPT ![w] = Idle]
    /\ UNCHANGED <<queue, catalog, evidence, ranked, refresh, outcome>>

\* A lost request, or an isolate that dies anywhere else.
Die(w) ==
    /\ AnyCrash /\ worker[w] # Idle
    /\ tried' = tried \cup Started(w)
    /\ worker' = [worker EXCEPT ![w] = Idle]
    /\ UNCHANGED <<queue, catalog, evidence, ranked, refresh, outcome>>

\* The platform stops an isolate at its wall-clock ceiling.
Running(w) == worker[w].step \notin {"idle", "requested"}
Expire(w) ==
    /\ Running(w) /\ worker[w].age >= WallClock
    /\ tried' = tried \cup Started(w)
    /\ worker' = [worker EXCEPT ![w] = Idle]
    /\ UNCHANGED <<queue, catalog, evidence, ranked, refresh, outcome>>

Publish(t) ==
    /\ catalog[t] < MaxFile
    /\ catalog' = [catalog EXCEPT ![t] = @ + 1]
    /\ UNCHANGED <<queue, evidence, ranked, worker, refresh, outcome, tried>>

Tick ==
    /\ \A w \in Worker : Running(w) => worker[w].age < WallClock
    /\ worker' = [w \in Worker |->
            IF Running(w) THEN [worker[w] EXCEPT !.age = @ + 1] ELSE worker[w]]
    /\ queue' = [t \in Ticker |->
            [queue[t] EXCEPT !.wait = IF @ > 0 THEN @ - 1 ELSE 0,
                             !.age = IF queue[t].status = "RUNNING" /\ @ < AgeCap THEN @ + 1 ELSE @]]
    /\ UNCHANGED <<catalog, evidence, ranked, refresh, outcome, tried>>

Next ==
    \/ Watchdog \/ CronFinalize \/ CronKick \/ FinalizeEnd \/ FinalizeFails \/ Tick
    \/ \E w \in Worker : \/ Claim(w) \/ Store(w) \/ FinishStored(w) \/ FinishFailed(w)
                         \/ Chain(w) \/ Drain(w) \/ Poisoned(w) \/ Die(w) \/ Expire(w)
    \/ \E t \in Ticker : Publish(t)

Spec == Init /\ [][Next]_vars

-----------------------------------------------------------------------------
(* Properties                                                              *)

\* The tickers an invocation still has to finish.
InHand(w) == {worker[w].batch[i][1] : i \in DOMAIN worker[w].batch}

\* A finalizer never takes a row from under a live worker: whatever replies were
\* lost and whoever finished the row before, no isolate is left that holds a row it
\* reclaims, at once or when its ranking is written.  The stale threshold of
\* migration_v42 and the wall-clock ceiling are meant to guarantee this; no claim
\* token does.
ReclaimSparesLiveWorkers ==
    [][\A t \in Ticker :
         /\ \/ Watchdog \/ CronFinalize \/ \E w \in Worker : Drain(w)
            \/ t \in refresh.locked
         /\ queue[t].status = "RUNNING" /\ queue'[t].status # "RUNNING"
         => \A w \in Worker : t \notin InHand(w)]_vars

\* No filing is in the hands of two live invocations, though kicks, chains and
\* retries overlap freely and finishing a row checks no claim.
OneWorkerPerFiling ==
    \A v, w \in Worker : v # w =>
        \A i \in DOMAIN worker[v].batch, j \in DOMAIN worker[w].batch :
            worker[v].batch[i] # worker[w].batch[j]

\* A row is COMPLETE only when the filing it names has been stored as evidence,
\* also when the filing changed or the row was deleted and seeded again.
CompleteHasEvidence ==
    \A t \in Ticker : queue[t].status = "COMPLETE" => <<t, queue[t].file>> \in evidence

\* A row waiting to be claimed can still be claimed: no path leaves a row open
\* with its attempts used up, which no worker would take and no watchdog settle.
WaitingIsClaimable ==
    \A t \in Ticker : queue[t].status \in {"PENDING", "RETRY"} => queue[t].attempts < MaxAttempts

\* The ranking declared final was computed from all the evidence there is and
\* every issuer at its top is settled (migration_v43:1-3: newly admitted issuers
\* are ingested before the ranking is declared final).
FinalRankingIsCurrent ==
    outcome = "FINALIZED" =>
        /\ ranked = evidence
        /\ \A t \in Ticker : Member(RankOf[ranked], t) <=> queue[t].status \in Settled

\* A verdict stands: only a new filing reopens a settled row, never a late or
\* duplicate worker.
VerdictStands ==
    [][\A t \in Ticker : queue[t].status \in Settled /\ queue'[t].status \in Open
            => queue'[t].file # queue[t].file]_vars

\* A filing that failed for good was at least looked at: "Make that failure
\* terminal after three bounded attempts and keep the rest of the issuer queue
\* moving" (migration_v41:1-3).
FailedWasTried ==
    \A t \in Ticker : queue[t].status = "PARSE_FAILED" => <<t, queue[t].file>> \in tried

-----------------------------------------------------------------------------
(* Liveness.  The workers run and the platform kills the ones that do not  *)
(* end; the watchdog and the finalizers recur; a kick and a request may be *)
(* lost any number of times, but not every time, and the ranking may fail  *)
(* any number of times, but not every time.  Crashes, publications and the *)
(* evening's two kicks are unfair: they may happen or not.                 *)

WorkerStep(w) == \/ Store(w) \/ FinishStored(w) \/ FinishFailed(w) \/ Chain(w)
                 \/ Drain(w) \/ Poisoned(w) \/ Expire(w)

KickArrives == Watchdog /\ worker' # worker

Fairness ==
    /\ WF_vars(Tick) /\ WF_vars(Watchdog) /\ WF_vars(CronFinalize)
    /\ SF_vars(FinalizeEnd) /\ SF_vars(KickArrives)
    /\ \A w \in Worker : WF_vars(WorkerStep(w)) /\ SF_vars(Claim(w))

FairSpec == Spec /\ Fairness

\* Every open row is settled or leaves the queue, whatever isolates die on the
\* way and although its neighbours may poison every batch it is in.
EveryJobSettles ==
    \A t \in Ticker : queue[t].status \in Open ~> queue[t].status \notin Open

\* Ranking and reconciliation chase each other only finitely often: the ranking
\* is declared final, and stays so.
RankingConverges == <>[](outcome = "FINALIZED")

=============================================================================
