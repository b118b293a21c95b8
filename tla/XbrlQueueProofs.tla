--------------------------- MODULE XbrlQueueProofs ---------------------------
(***************************************************************************)
(* Theorems about XbrlQueue, for every value of its constants.             *)
(***************************************************************************)
EXTENDS XbrlQueue, SequenceTheorems, TLAPS

\* An invocation holds filings exactly while it works on one of them.
BatchStep ==
    \A w \in Worker : worker[w].step \in {"job", "stored", "failed"} <=> worker[w].batch # <<>>

\* Nobody works on a filing that does not exist: an open row names one, a row names
\* one no newer than the newest, and a row in hand is never reseeded without one.
FileNamed ==
    /\ \A t \in Ticker : queue[t].file <= catalog[t]
    /\ \A t \in Ticker : queue[t].status \in Open => queue[t].file > 0
    /\ \A w \in Worker : \A i \in DOMAIN worker[w].batch :
         LET t == worker[w].batch[i][1] IN
         /\ catalog[t] > 0
         /\ queue[t].status # "ABSENT" => queue[t].file > 0

\* A row locked by the transaction of a finalizer stays as the finalizer found it.
LockedStale == \A t \in refresh.locked : Stale(t)

\* The inductive strengthening of TypeOK; it takes LockedStale to keep it.
TInv == TypeOK /\ BatchStep /\ FileNamed

-----------------------------------------------------------------------------
(* What the queue operators return.                                        *)

\* A seeded row is a row of the table.
LEMMA SeededTyped ==
    ASSUME TypeOK, NEW old \in Row, NEW ranking \in [Ticker -> Nat], NEW t \in Ticker
    PROVE  Seeded(old, ranking, t) \in Row
<1>1. SeedStatus(t) \in Open \cup Settled
    BY DEF SeedStatus, Open, Settled
<1>2. /\ catalog[t] \in File /\ ranking[t] \in Nat
      /\ 0 \in 0..MaxAttempts /\ 0 \in 0..RetryDelay /\ 0 \in 0..AgeCap
    BY QueueAssumption DEF TypeOK, AgeCap, Max2
<1> QED
    BY <1>1, <1>2 DEF Seeded, Row, NoRow, Open

\* What the seed decides from: a COMPLETE row has its evidence, a waiting one a filing.
LEMMA SeedStatusMeaning ==
    ASSUME TypeOK, NEW t \in Ticker
    PROVE  /\ SeedStatus(t) \in Settled \cup {"PENDING"}
           /\ SeedStatus(t) = "PENDING" => catalog[t] > 0
           /\ SeedStatus(t) = "COMPLETE" => <<t, catalog[t]>> \in evidence
    BY QueueAssumption DEF SeedStatus, Settled, TypeOK, File

\* Reconciliation yields a table.
LEMMA ReconciledTyped ==
    ASSUME TypeOK, NEW rows \in [Ticker -> Row], NEW ranking \in [Ticker -> Nat]
    PROVE  Reconciled(rows, ranking) \in [Ticker -> Row]
<1>1. NoRow \in Row
    BY QueueAssumption DEF NoRow, Row, File, AgeCap, Max2
<1>2. \A t \in Ticker : Seeded(rows[t], ranking, t) \in Row
    BY SeededTyped
<1> QED
    BY <1>1, <1>2 DEF Reconciled

\* A reclaimed row keeps its filing, and waits only with an attempt to spare.
LEMMA ReclaimedShape ==
    ASSUME TypeOK, NEW stale
    PROVE  /\ ReclaimedIf(stale) \in [Ticker -> Row]
           /\ \A t \in Ticker :
                /\ ReclaimedIf(stale)[t].file = queue[t].file
                /\ t \notin stale => ReclaimedIf(stale)[t] = queue[t]
                /\ t \in stale => \/ ReclaimedIf(stale)[t].status = "PARSE_FAILED"
                                  \/ /\ ReclaimedIf(stale)[t].status = "RETRY"
                                     /\ ReclaimedIf(stale)[t].attempts < MaxAttempts
<1>1. 0 \in 0..RetryDelay /\ 0 \in 0..AgeCap
    BY QueueAssumption DEF AgeCap, Max2
<1>2. \A t \in Ticker : queue[t] \in Row /\ queue[t].attempts \in Nat /\ MaxAttempts \in Nat
    BY QueueAssumption DEF TypeOK, Row
<1>3. ASSUME NEW t \in Ticker
      PROVE  /\ ReclaimedRow(t) \in Row
             /\ ReclaimedRow(t).file = queue[t].file
             /\ \/ ReclaimedRow(t).status = "PARSE_FAILED"
                \/ ReclaimedRow(t).status = "RETRY" /\ ReclaimedRow(t).attempts < MaxAttempts
    <2>1. CASE queue[t].attempts >= MaxAttempts
        <3>1. ReclaimedRow(t) = [queue[t] EXCEPT !.status = "PARSE_FAILED", !.wait = 0, !.age = 0]
            BY <2>1 DEF ReclaimedRow
        <3> QED BY <1>1, <1>2, <3>1 DEF Row, Settled
    <2>2. CASE ~(queue[t].attempts >= MaxAttempts)
        <3>1. ReclaimedRow(t) = [queue[t] EXCEPT !.status = "RETRY", !.wait = 0, !.age = 0]
            BY <2>2 DEF ReclaimedRow
        <3>2. queue[t] \in Row /\ queue[t].attempts < MaxAttempts
            BY <1>2, <2>2
        <3>3. ReclaimedRow(t) \in Row
            BY <1>1, <3>1, <3>2 DEF Row, Open
        <3>4. /\ ReclaimedRow(t).status = "RETRY" /\ ReclaimedRow(t).file = queue[t].file
              /\ ReclaimedRow(t).attempts = queue[t].attempts
            BY <3>1, <3>2 DEF Row
        <3> QED BY <3>2, <3>3, <3>4
    <2> QED BY <2>1, <2>2
<1>4. \A t \in Ticker : ReclaimedIf(stale)[t] = IF t \in stale THEN ReclaimedRow(t) ELSE queue[t]
    BY DEF ReclaimedIf
<1>5. ReclaimedIf(stale) \in [Ticker -> Row]
    BY <1>2, <1>3 DEF ReclaimedIf
<1> QED
    BY <1>3, <1>4, <1>5

\* The same for the rows whose claims are stale, which are all RUNNING.
LEMMA StaleReclaimed ==
    ASSUME TypeOK, NEW stale, \A t \in stale : Stale(t)
    PROVE  \A t \in Ticker :
              \/ ReclaimedIf(stale)[t] = queue[t]
              \/ /\ queue[t].status = "RUNNING" /\ queue[t].age > StaleAfter
                 /\ ReclaimedIf(stale)[t].file = queue[t].file
                 /\ \/ ReclaimedIf(stale)[t].status = "PARSE_FAILED"
                    \/ /\ ReclaimedIf(stale)[t].status = "RETRY"
                       /\ ReclaimedIf(stale)[t].attempts < MaxAttempts
    BY ReclaimedShape DEF Stale

\* Finishing a row touches that row only, and leaves it complete, failed or waiting
\* with an attempt to spare.
LEMMA FinishedShape ==
    ASSUME TypeOK, NEW t \in Ticker, NEW success \in BOOLEAN, queue[t].status # "ABSENT"
    PROVE  /\ Finished(t, success) \in [Ticker -> Row]
           /\ \A u \in Ticker \ {t} : Finished(t, success)[u] = queue[u]
           /\ Finished(t, success)[t].file = queue[t].file
           /\ success => Finished(t, success)[t].status = "COMPLETE"
           /\ ~success => \/ Finished(t, success)[t].status = "PARSE_FAILED"
                          \/ /\ Finished(t, success)[t].status = "RETRY"
                             /\ Finished(t, success)[t].attempts < MaxAttempts
<1>1. /\ 0 \in 0..RetryDelay /\ 0 \in 0..AgeCap /\ RetryDelay \in 0..RetryDelay
      /\ queue \in [Ticker -> Row] /\ queue[t] \in Row /\ queue[t].attempts \in 0..MaxAttempts
    BY QueueAssumption DEF AgeCap, Max2, TypeOK, Row
<1>2. Finished(t, success) \in [Ticker -> Row]
    BY <1>1 DEF Finished, Row, Open, Settled
<1>3. \A u \in Ticker \ {t} : Finished(t, success)[u] = queue[u]
    BY <1>1 DEF Finished
<1>4. /\ Finished(t, success)[t].file = queue[t].file
      /\ Finished(t, success)[t].attempts = queue[t].attempts
      /\ Finished(t, success)[t].status =
           IF success THEN "COMPLETE"
           ELSE IF queue[t].attempts >= MaxAttempts THEN "PARSE_FAILED" ELSE "RETRY"
    BY <1>1 DEF Finished, Row
<1> QED
    BY <1>1, <1>2, <1>3, <1>4, QueueAssumption

\* A batch is a sequence of distinct claimable tickers.
LEMMA BatchShape ==
    ASSUME NEW b \in Batches
    PROVE  \E n \in 0..BatchLimit :
             /\ b \in [1..n -> Claimable]
             /\ \A i, j \in 1..n : i # j => b[i] # b[j]
<1>1. PICK n \in 0..BatchLimit : b \in [1..n -> Claimable]
    BY DEF Batches
<1>2. \A i, j \in 1..n : i # j => b[i] # b[j]
    BY <1>1 DEF Batches
<1> QED
    BY <1>1, <1>2

\* Claiming a batch makes its rows RUNNING at age 0 and leaves the others alone.
LEMMA ClaimedShape ==
    ASSUME TypeOK, NEW b \in Batches
    PROVE  /\ Claimed(b) \in [Ticker -> Row]
           /\ \A t \in Ticker :
                /\ Claimed(b)[t].file = queue[t].file
                /\ \/ Claimed(b)[t] = queue[t] /\ \A i \in DOMAIN b : b[i] # t
                   \/ /\ t \in Claimable /\ \E i \in DOMAIN b : b[i] = t
                      /\ Claimed(b)[t].status = "RUNNING" /\ Claimed(b)[t].age = 0
<1>1. PICK n \in 0..BatchLimit : b \in [1..n -> Claimable]
    BY BatchShape
<1>2. \A i \in DOMAIN b : b[i] \in Claimable
    BY <1>1
<1>3. \A t \in Claimable : queue[t].attempts + 1 \in 0..MaxAttempts
    BY QueueAssumption DEF Claimable, TypeOK, Row
<1>4. 0 \in 0..AgeCap
    BY QueueAssumption DEF AgeCap, Max2
<1>5. \A t \in Ticker : queue[t] \in Row
    BY DEF TypeOK
<1> QED
    BY <1>2, <1>3, <1>4, <1>5 DEF Claimed, Row, Open

\* The filings handed to the worker are those the claimed rows name.
LEMMA HandedOver ==
    ASSUME TypeOK, FileNamed, NEW b \in Batches
    PROVE  LET handed == [i \in DOMAIN b |-> <<b[i], queue[b[i]].file>>] IN
           /\ handed \in Seq(Filing)
           /\ handed = <<>> <=> b = <<>>
           /\ DOMAIN handed = DOMAIN b
<1> DEFINE handed == [i \in DOMAIN b |-> <<b[i], queue[b[i]].file>>]
<1>1. PICK n \in 0..BatchLimit : b \in [1..n -> Claimable]
    BY BatchShape
<1>2. DOMAIN b = 1..n /\ n \in Nat
    BY <1>1, QueueAssumption
<1>3. \A i \in 1..n : b[i] \in Claimable
    BY <1>1
<1>4. \A i \in 1..n : <<b[i], queue[b[i]].file>> \in Filing
    BY <1>3, QueueAssumption DEF Claimable, Filing, FileNamed, TypeOK, Row, File, Open
<1>5. handed \in [1..n -> Filing]
    BY <1>2, <1>4
<1>6. handed \in Seq(Filing)
    BY <1>2, <1>5, SeqDef
<1>7. handed = <<>> <=> b = <<>>
    <2>1. b \in Seq(Claimable)
        BY <1>1, <1>2, SeqDef
    <2>2. Len(b) = n /\ Len(handed) = n
        BY <1>2, <1>5, <1>6, <2>1, LenProperties
    <2>3. b = <<>> <=> n = 0
        BY <2>1, <2>2, EmptySeq
    <2>4. handed = <<>> <=> n = 0
        BY <1>6, <2>2, EmptySeq
    <2> QED BY <2>3, <2>4
<1> QED
    BY <1>6, <1>7

-----------------------------------------------------------------------------
(* What the steps of the workers and the finalizers do to the slots.       *)

\* The first element of a sequence and the rest of it.
LEMMA FirstAndRest ==
    ASSUME NEW S, NEW s \in Seq(S), s # <<>>
    PROVE  /\ 1 \in DOMAIN s /\ Head(s) = s[1] /\ Head(s) \in S
           /\ Tail(s) \in Seq(S)
           /\ \A i \in DOMAIN Tail(s) : i + 1 \in DOMAIN s /\ Tail(s)[i] = s[i + 1]
<1>1. Len(s) \in Nat \ {0} /\ DOMAIN s = 1..Len(s)
    BY EmptySeq, LenProperties
<1>2. Tail(s) \in Seq(S) /\ Len(Tail(s)) = Len(s) - 1 /\ Head(s) \in S
    BY HeadTailProperties
<1>3. DOMAIN Tail(s) = 1..(Len(s) - 1)
    BY <1>2, LenProperties
<1>4. \A i \in 1..(Len(s) - 1) : Tail(s)[i] = s[i + 1]
    BY <1>2, HeadTailProperties
<1> QED
    BY <1>1, <1>2, <1>3, <1>4

\* Going on to the next filing drops the first of the batch.
LEMMA NextJobShape ==
    ASSUME TypeOK, NEW w \in Worker, worker[w].batch # <<>>
    PROVE  /\ NextJob(w) \in [Worker -> Slot]
           /\ \A v \in Worker \ {w} : NextJob(w)[v] = worker[v]
           /\ NextJob(w)[w].age = worker[w].age
           /\ NextJob(w)[w].batch = Tail(worker[w].batch)
           /\ NextJob(w)[w].step = IF Tail(worker[w].batch) = <<>> THEN "chain" ELSE "job"
<1>1. worker \in [Worker -> Slot] /\ worker[w] \in Slot
    BY DEF TypeOK
<1>2. Tail(worker[w].batch) \in Seq(Filing)
    BY <1>1, FirstAndRest DEF Slot
<1> QED
    BY <1>1, <1>2 DEF NextJob, Slot

\* Slots as the steps leave them.
LEMMA SlotShapes ==
    /\ Idle \in Slot /\ Idle.step = "idle" /\ Idle.batch = <<>>
    /\ \A d \in 0..MaxDepth : /\ Request(d) \in Slot
                              /\ Request(d).step = "requested" /\ Request(d).batch = <<>>
<1>1. <<>> \in Seq(Filing)
    BY EmptySeq
<1>2. 0 \in 0..MaxDepth /\ 0 \in 0..WallClock
    BY QueueAssumption
<1> QED
    BY <1>1, <1>2 DEF Idle, Request, Slot

\* The rows a finalizer would reclaim now.
StaleNow == {t \in Ticker : Stale(t)}

\* Whatever becomes of its kick, a finalizer reclaims stale rows or none, and
\* changes no slot that holds filings.
LEMMA FinalizeBeginShape ==
    ASSUME TypeOK, NEW slots \in [Worker -> Slot], FinalizeBegin(slots)
    PROVE  /\ queue' = ReclaimedIf(StaleNow) \/ queue' = queue
           /\ worker' \in [Worker -> Slot]
           /\ \A w \in Worker : \/ worker'[w] = slots[w]
                                \/ slots[w] = Idle /\ worker'[w] = Request(0)
           /\ refresh' \in [on: BOOLEAN, evidence: SUBSET Filing, locked: SUBSET Ticker]
           /\ outcome' \in {"NONE", "EVIDENCE_PENDING", "TOP900_RECONCILIATION_PENDING", "FINALIZED"}
<1>1. Request(0) \in Slot
    BY SlotShapes, QueueAssumption
<1>2. CASE /\ queue' = ReclaimedIf(StaleNow) /\ outcome' = "EVIDENCE_PENDING"
           /\ Kick(slots) /\ UNCHANGED refresh
    BY <1>1, <1>2 DEF Kick, TypeOK
<1>3. CASE /\ refresh' = [on |-> TRUE, evidence |-> evidence, locked |-> StaleNow]
           /\ worker' = slots /\ UNCHANGED <<queue, outcome>>
    BY <1>3 DEF TypeOK, StaleNow
<1>4. CASE worker' = slots /\ UNCHANGED <<queue, refresh, outcome>>
    BY <1>4 DEF TypeOK
<1> QED
    BY <1>2, <1>3, <1>4 DEF FinalizeBegin, StaleNow

\* A finalizer keeps the strengthened type invariant.
LEMMA FinalizeBeginTInv ==
    ASSUME TInv, NEW slots \in [Worker -> Slot], FinalizeBegin(slots),
           \A w \in Worker : slots[w] = worker[w] \/ (slots[w] = Idle /\ worker[w].batch = <<>>),
           UNCHANGED <<catalog, evidence, ranked, tried>>
    PROVE  TInv'
<1>1. TypeOK /\ BatchStep /\ FileNamed
    BY DEF TInv
<1>2. /\ queue' = ReclaimedIf(StaleNow) \/ queue' = queue
      /\ worker' \in [Worker -> Slot]
      /\ \A w \in Worker : \/ worker'[w] = slots[w]
                           \/ slots[w] = Idle /\ worker'[w] = Request(0)
      /\ refresh' \in [on: BOOLEAN, evidence: SUBSET Filing, locked: SUBSET Ticker]
      /\ outcome' \in {"NONE", "EVIDENCE_PENDING", "TOP900_RECONCILIATION_PENDING", "FINALIZED"}
    BY <1>1, FinalizeBeginShape
<1>3. /\ Idle.step = "idle" /\ Idle.batch = <<>>
      /\ Request(0).step = "requested" /\ Request(0).batch = <<>>
    BY SlotShapes, QueueAssumption
<1>4. \A w \in Worker : \/ worker'[w] = worker[w]
                        \/ /\ worker'[w].step \in {"idle", "requested"}
                           /\ worker'[w].batch = <<>>
    BY <1>2, <1>3
<1>5. \A t \in Ticker :
        /\ queue'[t].file = queue[t].file
        /\ queue'[t].status = queue[t].status
           \/ (queue[t].status = "RUNNING" /\ queue'[t].status # "ABSENT")
    BY <1>1, <1>2, StaleReclaimed DEF StaleNow
<1>6. TypeOK'
    BY <1>1, <1>2, ReclaimedShape DEF TypeOK
<1>7. BatchStep'
    BY <1>1, <1>4 DEF BatchStep
<1>8. FileNamed'
    <2>1. \A t \in Ticker : queue'[t].file <= catalog'[t]
        BY <1>1, <1>5 DEF FileNamed
    <2>2. \A t \in Ticker : queue'[t].status \in Open => queue'[t].file > 0
        BY <1>1, <1>5 DEF FileNamed, Open
    <2>3. \A w \in Worker : \A i \in DOMAIN worker'[w].batch :
            worker'[w] = worker[w] /\ worker'[w].batch[i][1] \in Ticker
        <3>1. ASSUME NEW w \in Worker, NEW i \in DOMAIN worker'[w].batch
              PROVE  worker'[w] = worker[w] /\ worker'[w].batch[i][1] \in Ticker
            <4>1. worker'[w].batch # <<>> /\ worker'[w].batch \in Seq(Filing)
                BY <1>2, <3>1, EmptySeq, LenProperties DEF Slot
            <4>2. worker'[w].batch[i] \in Filing
                BY <4>1, <3>1, ElementOfSeq, LenProperties
            <4> QED BY <1>4, <4>1, <4>2 DEF Filing
        <3> QED BY <3>1
    <2>4. \A w \in Worker : \A i \in DOMAIN worker'[w].batch :
            LET t == worker'[w].batch[i][1] IN
            catalog'[t] > 0 /\ (queue'[t].status # "ABSENT" => queue'[t].file > 0)
        BY <1>1, <1>5, <2>3 DEF FileNamed
    <2> QED BY <2>1, <2>2, <2>4 DEF FileNamed
<1> QED
    BY <1>6, <1>7, <1>8 DEF TInv

-----------------------------------------------------------------------------
(* Type correctness.                                                       *)

\* FileNamed survives a step that keeps every row's filing, opens no row without
\* one, brings no row back, and hands no slot a new filing.
LEMMA FileNamedKept ==
    ASSUME TInv, UNCHANGED catalog,
           \A t \in Ticker :
              /\ queue'[t].file = queue[t].file
              /\ queue'[t].status \in Open => queue[t].file > 0
              /\ queue'[t].status # "ABSENT" => queue[t].status # "ABSENT",
           \A w \in Worker : \A i \in DOMAIN worker'[w].batch :
              \E j \in DOMAIN worker[w].batch : worker'[w].batch[i] = worker[w].batch[j]
    PROVE  FileNamed'
<1>1. \A w \in Worker : \A j \in DOMAIN worker[w].batch : worker[w].batch[j][1] \in Ticker
    <2>1. ASSUME NEW w \in Worker, NEW j \in DOMAIN worker[w].batch
          PROVE  worker[w].batch[j] \in Filing
        <3>1. worker[w].batch \in Seq(Filing)
            BY DEF TInv, TypeOK, Slot
        <3> QED BY <2>1, <3>1, ElementOfSeq, LenProperties
    <2> QED BY <2>1 DEF Filing
<1>2. \A t \in Ticker : /\ queue'[t].file <= catalog'[t]
                        /\ queue'[t].status \in Open => queue'[t].file > 0
    BY DEF TInv, FileNamed
<1>3. ASSUME NEW w \in Worker, NEW i \in DOMAIN worker'[w].batch
      PROVE  LET t == worker'[w].batch[i][1] IN
             catalog'[t] > 0 /\ (queue'[t].status # "ABSENT" => queue'[t].file > 0)
    <2>1. PICK j \in DOMAIN worker[w].batch : worker'[w].batch[i] = worker[w].batch[j]
        BY <1>3
    <2> DEFINE t == worker[w].batch[j][1]
    <2>2. t \in Ticker
        BY <1>1
    <2>3. catalog[t] > 0 /\ (queue[t].status # "ABSENT" => queue[t].file > 0)
        BY DEF TInv, FileNamed
    <2> QED BY <2>1, <2>2, <2>3
<1> QED
    BY <1>2, <1>3 DEF FileNamed

\* A slot that goes on to the next filing, or keeps its batch, or empties.
LEMMA WorkerTInv ==
    ASSUME TInv, NEW w \in Worker,
           UNCHANGED <<catalog, ranked, refresh, outcome>>,
           evidence' \subseteq Filing, tried' \subseteq Filing,
           queue' \in [Ticker -> Row],
           \A t \in Ticker :
              /\ queue'[t].file = queue[t].file
              /\ queue'[t].status \in Open => queue[t].file > 0
              /\ queue'[t].status # "ABSENT" => queue[t].status # "ABSENT",
           worker' \in [Worker -> Slot],
           \A v \in Worker \ {w} : worker'[v] = worker[v],
           \/ /\ worker'[w].batch = worker[w].batch
              /\ worker'[w].step \in {"job", "stored", "failed"}
                   <=> worker[w].step \in {"job", "stored", "failed"}
           \/ worker'[w].batch = <<>> /\ worker'[w].step \notin {"job", "stored", "failed"}
           \/ worker[w].batch # <<>> /\ worker' = NextJob(w)
    PROVE  TInv'
<1>1. TypeOK'
    BY DEF TInv, TypeOK
<1>2. CASE /\ worker'[w].batch = worker[w].batch
           /\ worker'[w].step \in {"job", "stored", "failed"}
                <=> worker[w].step \in {"job", "stored", "failed"}
    <2>1. BatchStep'
        BY <1>2 DEF TInv, BatchStep
    <2>2. \A v \in Worker : worker'[v].batch = worker[v].batch
        BY <1>2
    <2>3. FileNamed'
        BY <2>2, FileNamedKept
    <2> QED BY <1>1, <2>1, <2>3 DEF TInv
<1>3. CASE worker'[w].batch = <<>> /\ worker'[w].step \notin {"job", "stored", "failed"}
    <2>1. BatchStep'
        BY <1>3 DEF TInv, BatchStep
    <2>2. DOMAIN worker'[w].batch = {}
        <3>1. worker'[w].batch \in Seq(Filing) /\ Len(worker'[w].batch) = 0
            BY <1>3, EmptySeq
        <3> QED BY <3>1, LenProperties
    <2>3. \A v \in Worker : \A i \in DOMAIN worker'[v].batch :
            \E j \in DOMAIN worker[v].batch : worker'[v].batch[i] = worker[v].batch[j]
        BY <2>2
    <2>4. FileNamed'
        BY <2>3, FileNamedKept
    <2> QED BY <1>1, <2>1, <2>4 DEF TInv
<1>4. CASE worker[w].batch # <<>> /\ worker' = NextJob(w)
    <2>1. /\ worker'[w].batch = Tail(worker[w].batch)
          /\ worker'[w].step = IF Tail(worker[w].batch) = <<>> THEN "chain" ELSE "job"
        BY <1>4, NextJobShape DEF TInv
    <2>2. BatchStep'
        BY <2>1 DEF TInv, BatchStep
    <2>3. worker[w].batch \in Seq(Filing)
        BY DEF TInv, TypeOK, Slot
    <2>4. \A i \in DOMAIN worker'[w].batch :
            \E j \in DOMAIN worker[w].batch : worker'[w].batch[i] = worker[w].batch[j]
        BY <1>4, <2>1, <2>3, FirstAndRest
    <2>5. \A v \in Worker : \A i \in DOMAIN worker'[v].batch :
            \E j \in DOMAIN worker[v].batch : worker'[v].batch[i] = worker[v].batch[j]
        BY <2>4
    <2>6. FileNamed'
        BY <2>5, FileNamedKept
    <2> QED BY <1>1, <2>2, <2>6 DEF TInv
<1> QED
    BY <1>2, <1>3, <1>4

\* The first filing of a batch, and its row.
LEMMA InHandFacts ==
    ASSUME TInv, NEW w \in Worker, worker[w].batch # <<>>
    PROVE  LET f == Head(worker[w].batch) IN
           /\ f \in Filing /\ f[1] \in Ticker /\ f[2] \in File
           /\ queue[f[1]].status # "ABSENT" => queue[f[1]].file > 0
<1>1. worker[w].batch \in Seq(Filing)
    BY DEF TInv, TypeOK, Slot
<1>2. /\ 1 \in DOMAIN worker[w].batch /\ Head(worker[w].batch) = worker[w].batch[1]
      /\ Head(worker[w].batch) \in Filing
    BY <1>1, FirstAndRest
<1>3. queue[worker[w].batch[1][1]].status # "ABSENT" => queue[worker[w].batch[1][1]].file > 0
    BY <1>2 DEF TInv, FileNamed
<1> QED
    BY <1>2, <1>3, QueueAssumption DEF Filing, File

\* Init satisfies the strengthened type invariant.
LEMMA TInvInit == Init => TInv
<1> SUFFICES ASSUME Init PROVE TInv
    OBVIOUS
<1>1. RankOf[{}] \in [Ticker -> Nat]
    BY QueueAssumption
<1>2. NoRow \in Row
    BY QueueAssumption DEF NoRow, Row, File, AgeCap, Max2
<1>0. \A t \in Ticker : catalog[t] \in {0, 1} /\ catalog[t] \in File
    BY DEF Init
<1>3. \A t \in Ticker : SeedStatus(t) \in Settled \cup {"PENDING"}
                        /\ (SeedStatus(t) = "PENDING" => catalog[t] > 0)
    BY <1>0 DEF SeedStatus, Settled
<1>4. \A t \in Ticker : [NoRow EXCEPT !.status = SeedStatus(t), !.file = catalog[t],
                                      !.rank = RankOf[{}][t]] \in Row
    BY <1>1, <1>2, <1>3, QueueAssumption DEF Init, Row, File, Open, NoRow
<1>5. queue \in [Ticker -> Row]
    BY <1>2, <1>4 DEF Init
<1>6. \A w \in Worker : worker[w] = Idle
    BY DEF Init
<1>7. TypeOK
    <2>1. refresh = [on |-> FALSE, evidence |-> {}, locked |-> {}]
        BY DEF Init, NoRefresh
    <2>2. refresh \in [on: BOOLEAN, evidence: SUBSET Filing, locked: SUBSET Ticker]
        BY <2>1
    <2>3. worker \in [Worker -> Slot]
        BY <1>6, SlotShapes DEF Init
    <2>4. catalog \in [Ticker -> File]
        BY DEF Init
    <2> QED BY <1>5, <2>2, <2>3, <2>4 DEF Init, TypeOK
<1>8. BatchStep
    BY <1>6, SlotShapes DEF BatchStep
<1>9. \A t \in Ticker : /\ queue[t].file <= catalog[t]
                        /\ queue[t].status \in Open => queue[t].file > 0
    <2>1. ASSUME NEW t \in Ticker
          PROVE  /\ queue[t].file <= catalog[t]
                 /\ queue[t].status \in Open => queue[t].file > 0
        <3>1. CASE queue[t] = NoRow
            BY <1>0, <3>1 DEF NoRow, Open
        <3>2. CASE queue[t] = [NoRow EXCEPT !.status = SeedStatus(t), !.file = catalog[t],
                                            !.rank = RankOf[{}][t]]
            <4>1. queue[t].file = catalog[t] /\ queue[t].status = SeedStatus(t)
                BY <3>2 DEF NoRow
            <4> QED BY <1>0, <1>3, <4>1 DEF Open, Settled
        <3> QED BY <3>1, <3>2 DEF Init
    <2> QED BY <2>1
<1>10. \A w \in Worker : DOMAIN worker[w].batch = {}
    <2>1. <<>> \in Seq(Filing) /\ Len(<<>>) = 0
        BY EmptySeq
    <2> QED BY <1>6, <2>1, SlotShapes, LenProperties
<1> QED
    BY <1>7, <1>8, <1>9, <1>10 DEF TInv, FileNamed

\* Claiming a batch keeps the strengthened type invariant.
LEMMA ClaimTInv == ASSUME TInv, NEW w \in Worker, Claim(w) PROVE TInv'
<1>1. TypeOK /\ BatchStep /\ FileNamed
    BY DEF TInv
<1>2. PICK b \in Batches :
        /\ queue' = Claimed(b)
        /\ worker' = [worker EXCEPT
                ![w].step = IF b = <<>> THEN "drain" ELSE "job",
                ![w].batch = [i \in DOMAIN b |-> <<b[i], queue[b[i]].file>>],
                ![w].age = 0]
    BY DEF Claim
<1> DEFINE handed == [i \in DOMAIN b |-> <<b[i], queue[b[i]].file>>]
<1>3. handed \in Seq(Filing) /\ (handed = <<>> <=> b = <<>>) /\ DOMAIN handed = DOMAIN b
    BY <1>1, HandedOver
<1> HIDE DEF handed
<1>4. /\ worker' \in [Worker -> Slot]
      /\ \A v \in Worker \ {w} : worker'[v] = worker[v]
      /\ worker'[w].batch = handed
      /\ worker'[w].step = IF b = <<>> THEN "drain" ELSE "job"
    <2>1. worker \in [Worker -> Slot] /\ 0 \in 0..WallClock
        BY <1>1, QueueAssumption DEF TypeOK
    <2>2. worker' = [worker EXCEPT ![w] = [@ EXCEPT
                !.step = IF b = <<>> THEN "drain" ELSE "job", !.batch = handed, !.age = 0]]
        BY <1>2 DEF handed
    <2> QED BY <1>3, <2>1, <2>2 DEF Slot
<1>5. /\ queue' \in [Ticker -> Row]
      /\ \A t \in Ticker : /\ queue'[t].file = queue[t].file
                           /\ queue'[t] = queue[t] \/ t \in Claimable
    BY <1>1, <1>2, ClaimedShape
<1>6. TypeOK'
    BY <1>1, <1>4, <1>5 DEF Claim, TypeOK
<1>7. BatchStep'
    BY <1>1, <1>3, <1>4 DEF BatchStep
<1>8. \A t \in Ticker : /\ queue'[t].file <= catalog'[t]
                        /\ queue'[t].status \in Open => queue'[t].file > 0
    BY <1>1, <1>5 DEF Claim, FileNamed, Claimable, Open
<1>9. \A t \in Claimable : t \in Ticker /\ catalog[t] > 0 /\ queue[t].file > 0
    <2>1. ASSUME NEW t \in Claimable PROVE t \in Ticker /\ catalog[t] > 0 /\ queue[t].file > 0
        <3>1. t \in Ticker /\ queue[t].file > 0 /\ queue[t].file <= catalog[t]
            BY <1>1 DEF Claimable, FileNamed, Open
        <3>2. queue[t].file \in Nat /\ catalog[t] \in Nat
            BY <1>1, <3>1, QueueAssumption DEF TypeOK, Row, File
        <3> QED BY <3>1, <3>2
    <2> QED BY <2>1
<1>10. ASSUME NEW v \in Worker, NEW i \in DOMAIN worker'[v].batch
       PROVE  LET t == worker'[v].batch[i][1] IN
              catalog'[t] > 0 /\ (queue'[t].status # "ABSENT" => queue'[t].file > 0)
    <2>1. CASE v = w
        <3>1. worker'[v].batch[i][1] = b[i] /\ b[i] \in Claimable
            BY <1>3, <1>4, <1>10, <2>1, BatchShape DEF handed
        <3> QED BY <1>5, <1>9, <3>1 DEF Claim
    <2>2. CASE v # w
        <3> DEFINE t == worker[v].batch[i][1]
        <3>1. worker[v].batch \in Seq(Filing) /\ i \in DOMAIN worker[v].batch
            BY <1>1, <1>4, <1>10, <2>2 DEF TypeOK, Slot
        <3>2. t \in Ticker
            BY <3>1, ElementOfSeq, LenProperties DEF Filing
        <3>3. catalog[t] > 0 /\ (queue[t].status # "ABSENT" => queue[t].file > 0)
            BY <1>1, <3>1 DEF FileNamed
        <3>4. queue'[t].status # "ABSENT" => queue'[t].file > 0
            BY <1>5, <1>9, <3>2, <3>3
        <3> QED BY <1>4, <2>2, <3>3, <3>4 DEF Claim
    <2> QED BY <2>1, <2>2
<1> QED
    BY <1>6, <1>7, <1>8, <1>10 DEF TInv, FileNamed

\* A seeded row names the newest filing, and is settled, fresh, or as it was, except
\* that a very stale RUNNING row waits again.
LEMMA SeededShape ==
    ASSUME TypeOK, NEW old \in Row, NEW ranking \in [Ticker -> Nat], NEW t \in Ticker
    PROVE  /\ Seeded(old, ranking, t).file = catalog[t]
           /\ Seeded(old, ranking, t).status # "ABSENT"
           /\ \/ /\ old.status = "ABSENT" \/ old.file # catalog[t]
                 /\ Seeded(old, ranking, t).status = SeedStatus(t)
                 /\ Seeded(old, ranking, t).attempts = 0
              \/ /\ old.file = catalog[t]
                 /\ old.status # "ABSENT"
                 /\ Seeded(old, ranking, t).attempts = old.attempts
                 /\ \/ Seeded(old, ranking, t).status = old.status
                    \/ old.status = "RUNNING" /\ Seeded(old, ranking, t).status = "RETRY"
<1>1. SeedStatus(t) # "ABSENT"
    BY SeedStatusMeaning DEF Settled
<1>2. CASE old.status = "ABSENT"
    BY <1>1, <1>2 DEF Seeded, NoRow, Row
<1>3. CASE old.status # "ABSENT" /\ old.file # catalog[t]
    BY <1>1, <1>3 DEF Seeded, NoRow, Row
<1>4. CASE old.status # "ABSENT" /\ old.file = catalog[t]
    BY <1>4 DEF Seeded, Row
<1> QED
    BY <1>2, <1>3, <1>4

\* Recomputing the ranking and reconciling keeps the strengthened type invariant.
LEMMA FinalizeEndTInv == ASSUME TInv, LockedStale, FinalizeEnd PROVE TInv'
<1>1. TypeOK /\ BatchStep /\ FileNamed
    BY DEF TInv
<1> DEFINE ranking == RankOf[refresh.evidence]
           rows == ReclaimedIf(refresh.locked)
<1>2. ranking \in [Ticker -> Nat] /\ rows \in [Ticker -> Row]
    BY <1>1, ReclaimedShape, QueueAssumption DEF TypeOK
<1>3. queue' = Reconciled(rows, ranking) /\ catalog' = catalog
    BY DEF FinalizeEnd
<1>0. \A t \in Ticker : rows[t].file = queue[t].file
                        /\ (rows[t].status \in Open => queue[t].status \in Open)
    BY <1>1, StaleReclaimed DEF LockedStale, Open
<1>4. queue' \in [Ticker -> Row]
    BY <1>1, <1>2, <1>3, ReconciledTyped
<1>5. Request(0) \in Slot /\ Request(0).step = "requested" /\ Request(0).batch = <<>>
      /\ Idle.batch = <<>>
    BY SlotShapes, QueueAssumption
<1>6. /\ worker' \in [Worker -> Slot]
      /\ \A w \in Worker : \/ worker'[w] = worker[w]
                           \/ worker[w] = Idle /\ worker'[w] = Request(0)
    <2>1. Kick(worker) \/ worker' = worker
        BY DEF FinalizeEnd
    <2> QED BY <1>1, <1>5, <2>1 DEF Kick, TypeOK
<1>7. TypeOK'
    BY <1>1, <1>4, <1>6 DEF FinalizeEnd, TypeOK, NoRefresh
<1>8. BatchStep'
    BY <1>1, <1>5, <1>6 DEF BatchStep
<1>9. \A t \in Ticker : /\ queue'[t].file \in {0, catalog[t]}
                        /\ queue'[t].status # "ABSENT" => queue'[t].file = catalog[t]
                        /\ queue'[t].status \in Open => catalog[t] > 0
    <2>1. ASSUME NEW t \in Ticker
          PROVE  /\ queue'[t].file \in {0, catalog[t]}
                 /\ queue'[t].status # "ABSENT" => queue'[t].file = catalog[t]
                 /\ queue'[t].status \in Open => catalog[t] > 0
        <3>1. CASE queue'[t] = NoRow
            BY <3>1 DEF NoRow, Open
        <3>2. CASE queue'[t] = Seeded(rows[t], ranking, t)
            <4>1. /\ queue'[t].file = catalog[t]
                  /\ \/ queue'[t].status = SeedStatus(t)
                     \/ /\ rows[t].file = catalog[t]
                        /\ \/ queue'[t].status = rows[t].status
                           \/ rows[t].status = "RUNNING"
                BY <1>1, <1>2, <3>2, SeededShape
            <4>2. SeedStatus(t) \in Settled \cup {"PENDING"}
                  /\ (SeedStatus(t) = "PENDING" => catalog[t] > 0)
                BY <1>1, SeedStatusMeaning
            <4>3. rows[t].status \in Open => rows[t].file > 0
                BY <1>0, <1>1 DEF FileNamed
            <4> QED BY <4>1, <4>2, <4>3 DEF Open, Settled
        <3> QED BY <1>3, <3>1, <3>2 DEF Reconciled
    <2> QED BY <2>1
<1>10. \A t \in Ticker : catalog[t] \in Nat
    BY <1>1, QueueAssumption DEF TypeOK, File
<1>11. \A t \in Ticker : /\ queue'[t].file <= catalog'[t]
                         /\ queue'[t].status \in Open => queue'[t].file > 0
    BY <1>3, <1>9, <1>10 DEF Open
<1>12. ASSUME NEW w \in Worker, NEW i \in DOMAIN worker'[w].batch
       PROVE  LET t == worker'[w].batch[i][1] IN
              catalog'[t] > 0 /\ (queue'[t].status # "ABSENT" => queue'[t].file > 0)
    <2>1. worker'[w].batch = worker[w].batch
        BY <1>5, <1>6
    <2>2. worker[w].batch \in Seq(Filing)
        BY <1>1 DEF TypeOK, Slot
    <2>3. worker[w].batch[i][1] \in Ticker
        BY <1>12, <2>1, <2>2, ElementOfSeq, LenProperties DEF Filing
    <2>4. catalog[worker[w].batch[i][1]] > 0
        BY <1>1, <1>12, <2>1 DEF FileNamed
    <2> QED BY <1>3, <1>9, <2>1, <2>3, <2>4
<1> QED
    BY <1>7, <1>8, <1>11, <1>12 DEF TInv, FileNamed

\* Time keeps the strengthened type invariant.
LEMMA TickTInv == ASSUME TInv, Tick PROVE TInv'
<1>1. TypeOK /\ BatchStep /\ FileNamed
    BY DEF TInv
<1>2. \A t \in Ticker :
        /\ queue'[t] \in Row /\ queue'[t].file = queue[t].file
        /\ queue'[t].status = queue[t].status
    <2>1. ASSUME NEW t \in Ticker
          PROVE  /\ queue'[t] \in Row /\ queue'[t].file = queue[t].file
                 /\ queue'[t].status = queue[t].status
        <3>1. queue[t] \in Row /\ RetryDelay \in Nat /\ AgeCap \in Nat
            BY <1>1, QueueAssumption DEF TypeOK, AgeCap, Max2
        <3>2. queue'[t] = [queue[t] EXCEPT
                  !.wait = IF @ > 0 THEN @ - 1 ELSE 0,
                  !.age = IF queue[t].status = "RUNNING" /\ @ < AgeCap THEN @ + 1 ELSE @]
            BY DEF Tick
        <3> DEFINE wait == IF queue[t].wait > 0 THEN queue[t].wait - 1 ELSE 0
                   age == IF queue[t].status = "RUNNING" /\ queue[t].age < AgeCap
                          THEN queue[t].age + 1 ELSE queue[t].age
        <3>3. queue[t].wait \in 0..RetryDelay /\ queue[t].age \in 0..AgeCap
            BY <3>1 DEF Row
        <3>4. wait \in 0..RetryDelay
            BY <3>1, <3>3
        <3>5. age \in 0..AgeCap
            BY <3>1, <3>3
        <3>6. queue'[t] = [queue[t] EXCEPT !.wait = wait, !.age = age]
            BY <3>1, <3>2 DEF Row
        <3> HIDE DEF wait, age
        <3> QED BY <3>1, <3>4, <3>5, <3>6 DEF Row
    <2> QED BY <2>1
<1>3. queue' \in [Ticker -> Row]
    BY <1>2 DEF Tick
<1>4. \A w \in Worker :
        /\ worker'[w] \in Slot /\ worker'[w].batch = worker[w].batch
        /\ worker'[w].step = worker[w].step
    <2>1. ASSUME NEW w \in Worker
          PROVE  /\ worker'[w] \in Slot /\ worker'[w].batch = worker[w].batch
                 /\ worker'[w].step = worker[w].step
        <3>1. worker[w] \in Slot /\ worker[w].age \in Nat /\ WallClock \in Nat
            BY <1>1, QueueAssumption DEF TypeOK, Slot
        <3>2. CASE Running(w)
            <4>1. worker[w].age < WallClock /\ worker'[w] = [worker[w] EXCEPT !.age = @ + 1]
                BY <3>2 DEF Tick
            <4>2. worker[w].age + 1 \in 0..WallClock
                BY <3>1, <4>1
            <4> QED BY <3>1, <4>1, <4>2 DEF Slot
        <3>3. CASE ~Running(w)
            BY <3>1, <3>3 DEF Tick
        <3> QED BY <3>2, <3>3
    <2> QED BY <2>1
<1>5. worker' \in [Worker -> Slot]
    BY <1>4 DEF Tick
<1>6. TypeOK'
    BY <1>1, <1>3, <1>5 DEF Tick, TypeOK
<1>7. BatchStep'
    BY <1>1, <1>4 DEF BatchStep
<1>8. FileNamed'
    <2>1. \A t \in Ticker :
            /\ queue'[t].file = queue[t].file
            /\ queue'[t].status \in Open => queue[t].file > 0
            /\ queue'[t].status # "ABSENT" => queue[t].status # "ABSENT"
        BY <1>1, <1>2 DEF FileNamed
    <2> QED BY <1>4, <2>1, FileNamedKept DEF Tick
<1> QED
    BY <1>6, <1>7, <1>8 DEF TInv

\* Moving a slot to another step keeps its batch.
LEMMA GotoShape ==
    ASSUME TypeOK, NEW w \in Worker, NEW step \in {"stored", "failed"}
    PROVE  /\ Goto(w, step) \in [Worker -> Slot]
           /\ \A v \in Worker \ {w} : Goto(w, step)[v] = worker[v]
           /\ Goto(w, step)[w].batch = worker[w].batch
           /\ Goto(w, step)[w].age = worker[w].age
           /\ Goto(w, step)[w].step = step
    BY DEF TypeOK, Goto, Slot

\* Rows that stay as they are satisfy what WorkerTInv asks of the rows.
LEMMA RowsUnchanged ==
    ASSUME TInv, UNCHANGED queue
    PROVE  /\ queue' \in [Ticker -> Row]
           /\ \A t \in Ticker :
                /\ queue'[t].file = queue[t].file
                /\ queue'[t].status \in Open => queue[t].file > 0
                /\ queue'[t].status # "ABSENT" => queue[t].status # "ABSENT"
    BY DEF TInv, TypeOK, FileNamed

\* So does the row a worker has just finished.
LEMMA RowsFinished ==
    ASSUME TInv, NEW w \in Worker, worker[w].batch # <<>>, NEW success \in BOOLEAN,
           queue[Head(worker[w].batch)[1]].status # "ABSENT",
           queue' = Finished(Head(worker[w].batch)[1], success)
    PROVE  /\ queue' \in [Ticker -> Row]
           /\ \A t \in Ticker :
                /\ queue'[t].file = queue[t].file
                /\ queue'[t].status \in Open => queue[t].file > 0
                /\ queue'[t].status # "ABSENT" => queue[t].status # "ABSENT"
<1> DEFINE u == Head(worker[w].batch)[1]
<1>1. u \in Ticker /\ queue[u].file > 0
    BY InHandFacts
<1>2. /\ queue' \in [Ticker -> Row]
      /\ \A t \in Ticker \ {u} : queue'[t] = queue[t]
      /\ queue'[u].file = queue[u].file
    BY <1>1, FinishedShape DEF TInv
<1>3. \A t \in Ticker : queue[t].status \in Open => queue[t].file > 0
    BY DEF TInv, FileNamed
<1> QED
    BY <1>1, <1>2, <1>3

\* Every step of a worker on its batch keeps the strengthened type invariant.
LEMMA WorkerStepTInv ==
    ASSUME TInv, NEW w \in Worker,
           Store(w) \/ FinishStored(w) \/ FinishFailed(w) \/ Chain(w)
             \/ Poisoned(w) \/ Die(w) \/ Expire(w)
    PROVE  TInv'
<1>1. TypeOK /\ BatchStep /\ FileNamed
    BY DEF TInv
<1>2. evidence \subseteq Filing /\ tried \subseteq Filing /\ worker \in [Worker -> Slot]
    BY <1>1 DEF TypeOK
<1>3. worker[w].step \in {"job", "stored", "failed"} =>
        worker[w].batch # <<>> /\ Head(worker[w].batch) \in Filing
    BY <1>1, InHandFacts DEF BatchStep
<1>4. CASE Store(w)
    <2>1. PICK step \in {"stored", "failed"} : worker' = Goto(w, step)
        BY <1>4 DEF Store
    <2>2. /\ worker' \in [Worker -> Slot]
          /\ \A v \in Worker \ {w} : worker'[v] = worker[v]
          /\ worker'[w].batch = worker[w].batch /\ worker'[w].step = step
        BY <1>1, <2>1, GotoShape
    <2>3. evidence' \subseteq Filing /\ tried' \subseteq Filing
        BY <1>2, <1>3, <1>4 DEF Store
    <2> QED BY <1>4, <2>2, <2>3, RowsUnchanged, WorkerTInv DEF Store
<1>5. CASE FinishStored(w)
    <2>1. UNCHANGED queue \/ (/\ queue[Head(worker[w].batch)[1]].status # "ABSENT"
                              /\ queue' = Finished(Head(worker[w].batch)[1], TRUE))
        BY <1>5 DEF FinishStored
    <2>2. /\ queue' \in [Ticker -> Row]
          /\ \A t \in Ticker :
               /\ queue'[t].file = queue[t].file
               /\ queue'[t].status \in Open => queue[t].file > 0
               /\ queue'[t].status # "ABSENT" => queue[t].status # "ABSENT"
        BY <1>3, <1>5, <2>1, RowsUnchanged, RowsFinished DEF FinishStored
    <2>3. CASE worker' = NextJob(w)
        BY <1>1, <1>2, <1>3, <1>5, <2>2, <2>3, NextJobShape, WorkerTInv DEF FinishStored
    <2>4. CASE worker' = Goto(w, "failed")
        <3>1. /\ worker' \in [Worker -> Slot]
              /\ \A v \in Worker \ {w} : worker'[v] = worker[v]
              /\ worker'[w].batch = worker[w].batch /\ worker'[w].step = "failed"
            BY <1>1, <2>4, GotoShape
        <3> QED BY <1>2, <1>5, <2>2, <3>1, WorkerTInv DEF FinishStored
    <2> QED BY <1>5, <2>3, <2>4 DEF FinishStored
<1>6. CASE FinishFailed(w)
    <2>1. UNCHANGED queue \/ (/\ queue[Head(worker[w].batch)[1]].status # "ABSENT"
                              /\ queue' = Finished(Head(worker[w].batch)[1], FALSE))
        BY <1>6 DEF FinishFailed
    <2>2. /\ queue' \in [Ticker -> Row]
          /\ \A t \in Ticker :
               /\ queue'[t].file = queue[t].file
               /\ queue'[t].status \in Open => queue[t].file > 0
               /\ queue'[t].status # "ABSENT" => queue[t].status # "ABSENT"
        BY <1>3, <1>6, <2>1, RowsUnchanged, RowsFinished DEF FinishFailed
    <2> QED BY <1>1, <1>2, <1>3, <1>6, <2>2, NextJobShape, WorkerTInv DEF FinishFailed
<1>7. CASE Chain(w)
    <2>1. worker[w].depth \in 0..MaxDepth /\ MaxDepth \in Nat
        BY <1>2, QueueAssumption DEF Slot
    <2>2. worker' = [worker EXCEPT ![w] =
              IF worker[w].depth + 1 <= MaxDepth THEN Request(worker[w].depth + 1) ELSE Idle]
        BY <1>7 DEF Chain
    <2>3. /\ worker' \in [Worker -> Slot]
          /\ \A v \in Worker \ {w} : worker'[v] = worker[v]
          /\ worker'[w].batch = <<>> /\ worker'[w].step \notin {"job", "stored", "failed"}
        <3>1. CASE worker[w].depth + 1 <= MaxDepth
            <4>1. worker[w].depth + 1 \in 0..MaxDepth
                BY <2>1, <3>1
            <4> QED BY <1>2, <2>2, <3>1, <4>1, SlotShapes
        <3>2. CASE ~(worker[w].depth + 1 <= MaxDepth)
            BY <1>2, <2>2, <3>2, SlotShapes
        <3> QED BY <3>1, <3>2
    <2> QED BY <1>2, <1>7, <2>3, RowsUnchanged, WorkerTInv DEF Chain
<1>8. CASE Poisoned(w) \/ Die(w) \/ Expire(w)
    <2>1. Started(w) \subseteq Filing
        BY <1>3 DEF Started
    <2>2. /\ worker' = [worker EXCEPT ![w] = Idle] /\ tried' = tried \cup Started(w)
          /\ UNCHANGED <<queue, catalog, evidence, ranked, refresh, outcome>>
        BY <1>8 DEF Poisoned, Die, Expire
    <2>3. /\ worker' \in [Worker -> Slot]
          /\ \A v \in Worker \ {w} : worker'[v] = worker[v]
          /\ worker'[w].batch = <<>> /\ worker'[w].step \notin {"job", "stored", "failed"}
        BY <1>2, <2>2, SlotShapes
    <2>4. tried' \subseteq Filing
        BY <1>2, <2>1, <2>2
    <2> QED BY <1>2, <2>2, <2>3, <2>4, RowsUnchanged, WorkerTInv
<1> QED
    BY <1>4, <1>5, <1>6, <1>7, <1>8

\* Every step keeps the strengthened type invariant.
LEMMA TInvStep == TInv /\ LockedStale /\ [Next]_vars => TInv'
<1> SUFFICES ASSUME TInv, LockedStale, [Next]_vars PROVE TInv'
    OBVIOUS
<1>1. TypeOK /\ BatchStep /\ FileNamed /\ worker \in [Worker -> Slot]
    BY DEF TInv, TypeOK
<1>2. CASE Watchdog
    BY <1>1, <1>2, FinalizeBeginTInv DEF Watchdog
<1>3. CASE CronFinalize
    BY <1>1, <1>3, FinalizeBeginTInv DEF CronFinalize
<1>4. CASE CronKick
    <2>1. PICK w \in Worker : worker[w] = Idle /\ worker' = [worker EXCEPT ![w] = Request(0)]
        BY <1>4 DEF CronKick
    <2>2. /\ worker' \in [Worker -> Slot]
          /\ \A v \in Worker \ {w} : worker'[v] = worker[v]
          /\ worker'[w].batch = <<>> /\ worker'[w].step \notin {"job", "stored", "failed"}
        BY <1>1, <2>1, SlotShapes, QueueAssumption
    <2>3. evidence' \subseteq Filing /\ tried' \subseteq Filing
        BY <1>1, <1>4 DEF CronKick, TypeOK
    <2> QED BY <1>4, <2>2, <2>3, RowsUnchanged, WorkerTInv DEF CronKick
<1>5. CASE FinalizeEnd
    BY <1>5, FinalizeEndTInv
<1>6. CASE Tick
    BY <1>6, TickTInv
<1>7. ASSUME NEW w \in Worker, Claim(w) PROVE TInv'
    BY <1>7, ClaimTInv
<1>8. ASSUME NEW w \in Worker,
             Store(w) \/ FinishStored(w) \/ FinishFailed(w) \/ Chain(w)
               \/ Poisoned(w) \/ Die(w) \/ Expire(w)
      PROVE  TInv'
    BY <1>8, WorkerStepTInv
<1>9. ASSUME NEW w \in Worker, Drain(w) PROVE TInv'
    <2>1. worker[w].batch = <<>>
        BY <1>1, <1>9 DEF Drain, BatchStep
    <2>2. [worker EXCEPT ![w] = Idle] \in [Worker -> Slot]
        BY <1>1, SlotShapes
    <2>3. \A v \in Worker : \/ [worker EXCEPT ![w] = Idle][v] = worker[v]
                            \/ [worker EXCEPT ![w] = Idle][v] = Idle /\ worker[v].batch = <<>>
        BY <1>1, <2>1
    <2> QED BY <1>9, <2>2, <2>3, FinalizeBeginTInv DEF Drain
<1>10. ASSUME NEW t \in Ticker, Publish(t) PROVE TInv'
    <2>1. /\ catalog' \in [Ticker -> File]
          /\ \A u \in Ticker : catalog[u] \in Nat /\ catalog'[u] >= catalog[u]
        <3>1. catalog \in [Ticker -> File] /\ catalog[t] \in 0..MaxFile /\ MaxFile \in Nat
            BY <1>1, QueueAssumption DEF TypeOK, File
        <3>2. catalog[t] + 1 \in File
            BY <1>10, <3>1 DEF Publish, File
        <3> QED BY <1>10, <3>1, <3>2 DEF Publish, File
    <2>2. TypeOK'
        BY <1>1, <1>10, <2>1 DEF Publish, TypeOK
    <2>3. BatchStep'
        BY <1>1, <1>10 DEF Publish, BatchStep
    <2>4. \A u \in Ticker : queue[u].file \in Nat /\ queue[u].file <= catalog[u]
        BY <1>1, QueueAssumption DEF TypeOK, Row, File, FileNamed
    <2>5. \A u \in Ticker : /\ queue'[u].file <= catalog'[u]
                            /\ queue'[u].status \in Open => queue'[u].file > 0
        BY <1>1, <1>10, <2>1, <2>4, QueueAssumption DEF Publish, FileNamed, File
    <2>6. ASSUME NEW w \in Worker, NEW i \in DOMAIN worker[w].batch
          PROVE  LET u == worker[w].batch[i][1] IN
                 catalog'[u] > 0 /\ (queue[u].status # "ABSENT" => queue[u].file > 0)
        <3>1. worker[w].batch \in Seq(Filing)
            BY <1>1 DEF Slot
        <3>2. worker[w].batch[i][1] \in Ticker
            BY <2>6, <3>1, ElementOfSeq, LenProperties DEF Filing
        <3> QED BY <1>1, <2>1, <3>2, QueueAssumption DEF FileNamed, File
    <2>7. FileNamed'
        BY <1>10, <2>5, <2>6 DEF Publish, FileNamed
    <2> QED BY <2>2, <2>3, <2>7 DEF TInv
<1>11. CASE UNCHANGED vars
    BY <1>1, <1>11 DEF vars, TInv, TypeOK, BatchStep, FileNamed
<1>12. CASE FinalizeFails
    BY <1>1, <1>12 DEF FinalizeFails, NoRefresh, TInv, TypeOK, BatchStep, FileNamed
<1> QED
    BY <1>2, <1>3, <1>4, <1>5, <1>6, <1>7, <1>8, <1>9, <1>10, <1>11, <1>12 DEF Next

\* Nobody writes a locked row: it is RUNNING, so no claim takes it, and finishing it
\* and reclaiming it wait for the transaction.
LEMMA LockedStaleStep == TInv /\ LockedStale /\ [Next]_vars => LockedStale'
<1> SUFFICES ASSUME TInv, LockedStale, [Next]_vars PROVE LockedStale'
    OBVIOUS
<1>1. TypeOK /\ queue \in [Ticker -> Row] /\ refresh.locked \subseteq Ticker
    BY DEF TInv, TypeOK
<1>2. ASSUME UNCHANGED refresh, \A t \in refresh.locked : queue'[t] = queue[t]
      PROVE  LockedStale'
    BY <1>2 DEF LockedStale, Stale
<1>3. ASSUME NEW slots, FinalizeBegin(slots) PROVE LockedStale'
    <2>1. refresh.locked = {}
        BY <1>3 DEF FinalizeBegin
    <2>2. CASE UNCHANGED refresh
        BY <2>1, <2>2 DEF LockedStale
    <2>3. CASE UNCHANGED queue /\ refresh'.locked = {t \in Ticker : Stale(t)}
        BY <2>3 DEF LockedStale, Stale
    <2> QED BY <1>3, <2>2, <2>3 DEF FinalizeBegin
<1>4. CASE FinalizeEnd \/ FinalizeFails
    BY <1>4 DEF FinalizeEnd, FinalizeFails, NoRefresh, LockedStale
<1>5. CASE Tick
    <2>1. ASSUME NEW t \in refresh.locked PROVE Stale(t)'
        <3>1. queue[t] \in Row /\ Stale(t) /\ queue[t].age \in Nat /\ StaleAfter \in Nat
            BY <1>1, QueueAssumption DEF LockedStale, Row, AgeCap, Max2
        <3>2. /\ queue'[t].status = queue[t].status
              /\ queue'[t].age \in {queue[t].age, queue[t].age + 1}
            BY <1>1, <1>5, <3>1 DEF Tick, Row
        <3> QED BY <3>1, <3>2 DEF Stale
    <2> QED BY <1>5, <2>1 DEF Tick, LockedStale
<1>6. ASSUME NEW w \in Worker, Claim(w) PROVE LockedStale'
    <2>1. PICK b \in Batches : queue' = Claimed(b)
        BY <1>6 DEF Claim
    <2>2. \A t \in refresh.locked : t \notin Claimable
        BY DEF LockedStale, Stale, Claimable
    <2>3. \A t \in refresh.locked : queue'[t] = queue[t]
        BY <1>1, <2>1, <2>2, ClaimedShape
    <2> QED BY <1>2, <1>6, <2>3 DEF Claim
<1>7. ASSUME NEW w \in Worker, FinishStored(w) \/ FinishFailed(w) PROVE LockedStale'
    <2> DEFINE u == Head(worker[w].batch)[1]
    <2>1. \/ UNCHANGED queue
          \/ u \notin refresh.locked /\ \E success \in BOOLEAN : queue' = Finished(u, success)
        BY <1>7 DEF FinishStored, FinishFailed
    <2>2. \A t \in refresh.locked : queue'[t] = queue[t]
        BY <1>1, <2>1 DEF Finished
    <2> QED BY <1>2, <1>7, <2>2 DEF FinishStored, FinishFailed
<1>8. CASE UNCHANGED <<queue, refresh>>
    BY <1>2, <1>8
<1>9. CASE Watchdog \/ CronFinalize \/ \E w \in Worker : Drain(w)
    BY <1>3, <1>9 DEF Watchdog, CronFinalize, Drain
<1>10. CASE \/ CronKick \/ (\E t \in Ticker : Publish(t)) \/ UNCHANGED vars
            \/ \E w \in Worker : Store(w) \/ Chain(w) \/ Poisoned(w) \/ Die(w) \/ Expire(w)
    BY <1>8, <1>10 DEF CronKick, Publish, vars, Store, Chain, Poisoned, Die, Expire
<1> QED
    BY <1>4, <1>5, <1>6, <1>7, <1>9, <1>10 DEF Next

\* Nothing is locked in the beginning.
LEMMA LockedStaleInit == Init => LockedStale
<1>1. Init => refresh = NoRefresh
    BY DEF Init
<1>2. NoRefresh.locked = {}
    BY DEF NoRefresh
<1> QED
    BY <1>1, <1>2 DEF LockedStale

\* The strengthened type invariant holds in every reachable state.
THEOREM TInvHolds == Spec => [](TInv /\ LockedStale)
    BY TInvInit, LockedStaleInit, TInvStep, LockedStaleStep, PTL DEF Spec

\* Every variable keeps its type: attempts, depths and ages stay within the bounds
\* of the code, and a worker only ever holds filings that exist.
THEOREM TypeCorrect == Spec => []TypeOK
<1>1. TInv => TypeOK
    BY DEF TInv
<1> QED
    BY <1>1, TInvHolds, PTL


-----------------------------------------------------------------------------
(* A claim is never older than the isolate that made it.                   *)

\* A RUNNING row that an isolate holds was claimed no earlier than the isolate began
\* to run, so its claim cannot outlive the wall-clock ceiling.
YoungClaims ==
    \A w \in Worker : \A i \in DOMAIN worker[w].batch :
        LET t == worker[w].batch[i][1] IN
        queue[t].status = "RUNNING" => queue[t].age <= worker[w].age

\* The entries of a batch are filings of tickers.
LEMMA EntryTyped ==
    ASSUME TypeOK, NEW w \in Worker, NEW i \in DOMAIN worker[w].batch
    PROVE  /\ worker[w].batch[i] \in Filing
           /\ worker[w].batch[i][1] \in Ticker
           /\ worker[w].batch[i] = <<worker[w].batch[i][1], worker[w].batch[i][2]>>
           /\ worker[w].batch # <<>>
<1>1. worker[w].batch \in Seq(Filing)
    BY DEF TypeOK, Slot
<1>2. worker[w].batch[i] \in Filing /\ worker[w].batch # <<>>
    BY <1>1, ElementOfSeq, EmptySeq, LenProperties
<1> QED
    BY <1>2 DEF Filing

\* YoungClaims survives a step that turns rows RUNNING at age 0 only and hands a
\* slot filings whose rows have age 0 only.
LEMMA YoungClaimsKept ==
    ASSUME TypeOK, TypeOK', YoungClaims,
           \A t \in Ticker : queue'[t].status = "RUNNING" =>
              \/ queue[t].status = "RUNNING" /\ queue'[t].age = queue[t].age
              \/ queue'[t].age = 0,
           \A w \in Worker : \A i \in DOMAIN worker'[w].batch :
              \/ /\ worker'[w].age = worker[w].age
                 /\ \E j \in DOMAIN worker[w].batch : worker'[w].batch[i] = worker[w].batch[j]
              \/ queue'[worker'[w].batch[i][1]].age = 0
    PROVE  YoungClaims'
<1> SUFFICES ASSUME NEW w \in Worker, NEW i \in DOMAIN worker'[w].batch,
                    queue'[worker'[w].batch[i][1]].status = "RUNNING"
             PROVE  queue'[worker'[w].batch[i][1]].age <= worker'[w].age
    BY DEF YoungClaims
<1>1. worker'[w].age \in Nat
    BY QueueAssumption DEF TypeOK, Slot
<1>2. CASE queue'[worker'[w].batch[i][1]].age = 0
    BY <1>1, <1>2
<1>3. CASE /\ worker'[w].age = worker[w].age
           /\ queue'[worker'[w].batch[i][1]].age # 0
           /\ \E j \in DOMAIN worker[w].batch : worker'[w].batch[i] = worker[w].batch[j]
    <2>1. PICK j \in DOMAIN worker[w].batch : worker'[w].batch[i] = worker[w].batch[j]
        BY <1>3
    <2>2. worker[w].batch[j][1] \in Ticker
        BY EntryTyped
    <2> QED BY <1>3, <2>1, <2>2 DEF YoungClaims
<1> QED
    BY <1>2, <1>3

\* What a step of a worker on its batch, or a kick, does to slots and rows.
LEMMA QuietWorkerStep ==
    ASSUME TInv, NEW w \in Worker,
           Store(w) \/ FinishStored(w) \/ FinishFailed(w) \/ Chain(w)
             \/ Poisoned(w) \/ Die(w) \/ Expire(w)
    PROVE  /\ \A v \in Worker \ {w} : worker'[v] = worker[v]
           /\ \/ worker'[w].batch = <<>>
              \/ worker'[w].batch = worker[w].batch /\ worker'[w].age = worker[w].age
              \/ /\ worker[w].batch # <<>> /\ worker'[w].age = worker[w].age
                 /\ worker'[w].batch = Tail(worker[w].batch)
           /\ \A t \in Ticker : queue'[t].status = "RUNNING" => queue'[t] = queue[t]
<1>1. TypeOK /\ BatchStep /\ worker \in [Worker -> Slot]
    BY DEF TInv, TypeOK
<1>2. worker[w].step \in {"job", "stored", "failed"} =>
        worker[w].batch # <<>> /\ Head(worker[w].batch)[1] \in Ticker
    BY <1>1, InHandFacts DEF BatchStep
<1>3. CASE Store(w)
    <2>1. PICK step \in {"stored", "failed"} : worker' = Goto(w, step)
        BY <1>3 DEF Store
    <2> QED BY <1>1, <1>3, <2>1, GotoShape DEF Store
<1>4. CASE FinishStored(w) \/ FinishFailed(w)
    <2> DEFINE u == Head(worker[w].batch)[1]
    <2>1. u \in Ticker /\ worker[w].batch # <<>>
        BY <1>2, <1>4 DEF FinishStored, FinishFailed
    <2>2. \/ UNCHANGED queue
          \/ \E success \in BOOLEAN : queue[u].status # "ABSENT" /\ queue' = Finished(u, success)
        BY <1>4 DEF FinishStored, FinishFailed
    <2>3. \A t \in Ticker : queue'[t].status = "RUNNING" => queue'[t] = queue[t]
        BY <1>1, <2>1, <2>2, FinishedShape
    <2>4. worker' = NextJob(w) \/ worker' = Goto(w, "failed")
        BY <1>4 DEF FinishStored, FinishFailed
    <2> QED BY <1>1, <2>1, <2>3, <2>4, NextJobShape, GotoShape
<1>5. CASE Chain(w)
    <2>1. worker[w].depth \in 0..MaxDepth /\ MaxDepth \in Nat
        BY <1>1, QueueAssumption DEF Slot
    <2>2. Idle.batch = <<>> /\ Request(worker[w].depth + 1).batch = <<>>
        BY SlotShapes DEF Request, Idle
    <2>3. worker'[w] \in {Idle, Request(worker[w].depth + 1)}
        BY <1>1, <1>5 DEF Chain
    <2> QED BY <1>1, <1>5, <2>2, <2>3 DEF Chain
<1>6. CASE Poisoned(w) \/ Die(w) \/ Expire(w)
    BY <1>1, <1>6, SlotShapes DEF Poisoned, Die, Expire
<1> QED
    BY <1>3, <1>4, <1>5, <1>6

\* A finalizer leaves every batch as it is, and a row RUNNING only untouched.
LEMMA QuietFinalizer ==
    ASSUME TInv, Watchdog \/ CronFinalize \/ \E w \in Worker : Drain(w)
    PROVE  /\ queue' = ReclaimedIf(StaleNow) \/ queue' = queue
           /\ \A v \in Worker : worker'[v] = worker[v] \/ worker'[v].batch = <<>>
           /\ \A v \in Worker : worker[v].batch # <<>> => worker'[v] = worker[v]
           /\ UNCHANGED <<catalog, evidence, ranked, tried>>
<1>1. TypeOK /\ BatchStep /\ worker \in [Worker -> Slot]
    BY DEF TInv, TypeOK
<1>2. Idle.batch = <<>> /\ Request(0).batch = <<>>
    BY SlotShapes, QueueAssumption
<1>3. CASE Watchdog \/ CronFinalize
    <2>1. FinalizeBegin(worker)
        BY <1>3 DEF Watchdog, CronFinalize
    <2> QED BY <1>1, <1>2, <1>3, <2>1, FinalizeBeginShape DEF Watchdog, CronFinalize
<1>4. ASSUME NEW w \in Worker, Drain(w)
      PROVE  /\ queue' = ReclaimedIf(StaleNow) \/ queue' = queue
             /\ \A v \in Worker : worker'[v] = worker[v] \/ worker'[v].batch = <<>>
             /\ \A v \in Worker : worker[v].batch # <<>> => worker'[v] = worker[v]
             /\ UNCHANGED <<catalog, evidence, ranked, tried>>
    <2>1. worker[w].batch = <<>>
        BY <1>1, <1>4 DEF Drain, BatchStep
    <2>2. [worker EXCEPT ![w] = Idle] \in [Worker -> Slot]
        BY <1>1, SlotShapes
    <2>3. FinalizeBegin([worker EXCEPT ![w] = Idle])
        BY <1>4 DEF Drain
    <2> QED BY <1>1, <1>2, <1>4, <2>1, <2>2, <2>3, FinalizeBeginShape DEF Drain
<1> QED
    BY <1>3, <1>4

\* Nothing is in an empty batch.
LEMMA EmptyDomain == DOMAIN <<>> = {}
<1>1. <<>> \in Seq(Filing) /\ Len(<<>>) = 0
    BY EmptySeq
<1> QED
    BY <1>1, LenProperties

\* A batch after a step of its worker holds only what it held.
LEMMA QuietBatch ==
    ASSUME TypeOK, NEW w \in Worker,
           \/ worker'[w].batch = <<>>
           \/ worker'[w].batch = worker[w].batch /\ worker'[w].age = worker[w].age
           \/ /\ worker[w].batch # <<>> /\ worker'[w].age = worker[w].age
              /\ worker'[w].batch = Tail(worker[w].batch)
    PROVE  \/ worker'[w].batch = <<>>
           \/ /\ worker'[w].age = worker[w].age
              /\ \E k \in {0, 1} : \A i \in DOMAIN worker'[w].batch :
                   /\ i + k \in DOMAIN worker[w].batch
                   /\ worker'[w].batch[i] = worker[w].batch[i + k]
<1>1. worker[w].batch \in Seq(Filing)
    BY DEF TypeOK, Slot
<1>2. \A i \in DOMAIN worker[w].batch : i + 0 = i
    BY <1>1, LenProperties
<1> QED
    BY <1>1, <1>2, FirstAndRest

\* The same, for the invariant of the ages.
LEMMA QuietAges ==
    ASSUME TypeOK, NEW w \in Worker,
           \/ worker'[w].batch = <<>>
           \/ worker'[w].batch = worker[w].batch /\ worker'[w].age = worker[w].age
           \/ /\ worker[w].batch # <<>> /\ worker'[w].age = worker[w].age
              /\ worker'[w].batch = Tail(worker[w].batch)
    PROVE  \A i \in DOMAIN worker'[w].batch :
              /\ worker'[w].age = worker[w].age
              /\ \E j \in DOMAIN worker[w].batch : worker'[w].batch[i] = worker[w].batch[j]
    BY QuietBatch, EmptyDomain

\* Init satisfies YoungClaims.
LEMMA YoungClaimsInit == Init => YoungClaims
    BY EmptyDomain, SlotShapes DEF Init, YoungClaims

\* Every step keeps YoungClaims.
LEMMA YoungClaimsStep == TInv /\ TInv' /\ YoungClaims /\ [Next]_vars => YoungClaims'
<1> SUFFICES ASSUME TInv, TInv', YoungClaims, [Next]_vars PROVE YoungClaims'
    OBVIOUS
<1>1. TypeOK /\ TypeOK' /\ BatchStep /\ worker \in [Worker -> Slot]
    BY DEF TInv, TypeOK
<1>2. CASE Watchdog \/ CronFinalize \/ \E w \in Worker : Drain(w)
    <2>1. \A t \in Ticker : queue'[t].status = "RUNNING" => queue'[t] = queue[t]
        BY <1>1, <1>2, QuietFinalizer, StaleReclaimed DEF StaleNow
    <2>2. \A w \in Worker : \A i \in DOMAIN worker'[w].batch : worker'[w] = worker[w]
        BY <1>2, QuietFinalizer, EmptyDomain
    <2> QED BY <1>1, <2>1, <2>2, YoungClaimsKept
<1>3. CASE CronKick
    <2>1. PICK w \in Worker : worker[w] = Idle /\ worker' = [worker EXCEPT ![w] = Request(0)]
        BY <1>3 DEF CronKick
    <2>2. \A v \in Worker : \A i \in DOMAIN worker'[v].batch : worker'[v] = worker[v]
        BY <1>1, <2>1, SlotShapes, EmptyDomain, QueueAssumption
    <2> QED BY <1>1, <1>3, <2>2, YoungClaimsKept DEF CronKick
<1>4. CASE FinalizeEnd
    <2> DEFINE ranking == RankOf[refresh.evidence]
               rows == ReclaimedIf(refresh.locked)
    <2>1. ranking \in [Ticker -> Nat] /\ rows \in [Ticker -> Row]
        BY <1>1, ReclaimedShape, QueueAssumption DEF TypeOK
    <2>2. ASSUME NEW t \in Ticker, queue'[t].status = "RUNNING"
          PROVE  queue[t].status = "RUNNING" /\ queue'[t].age = queue[t].age
        <3>1. queue'[t] = Seeded(rows[t], ranking, t)
            BY <1>4, <2>2 DEF FinalizeEnd, Reconciled, NoRow
        <3>2. SeedStatus(t) # "RUNNING"
            BY <1>1, SeedStatusMeaning DEF Settled
        <3>3. rows[t].status = "RUNNING" /\ rows[t].file = catalog[t]
            BY <1>1, <2>1, <2>2, <3>1, <3>2, SeededShape
        <3>4. rows[t] \in Row
            BY <2>1
        <3>5. queue'[t].age = rows[t].age
            BY <2>2, <3>1, <3>3, <3>4 DEF Seeded, Row
        <3>6. rows[t] = queue[t]
            BY <1>1, <3>3, ReclaimedShape
        <3> QED BY <3>3, <3>5, <3>6
    <2>3. \A w \in Worker : \A i \in DOMAIN worker'[w].batch : worker'[w] = worker[w]
        <3>1. Kick(worker) \/ worker' = worker
            BY <1>4 DEF FinalizeEnd
        <3> QED BY <1>1, <3>1, SlotShapes, EmptyDomain, QueueAssumption DEF Kick
    <2> QED BY <1>1, <2>2, <2>3, YoungClaimsKept
<1>5. CASE Tick
    <2> SUFFICES ASSUME NEW w \in Worker, NEW i \in DOMAIN worker'[w].batch,
                        queue'[worker'[w].batch[i][1]].status = "RUNNING"
                 PROVE  queue'[worker'[w].batch[i][1]].age <= worker'[w].age
        BY DEF YoungClaims
    <2>1. worker[w] \in Slot /\ worker[w].age \in Nat
        BY <1>1, QueueAssumption DEF Slot
    <2>2. worker'[w].batch = worker[w].batch
        BY <1>5, <2>1 DEF Tick, Slot
    <2> DEFINE t == worker[w].batch[i][1]
    <2>3. t \in Ticker /\ worker[w].batch # <<>>
        BY <1>1, <2>2, EntryTyped
    <2>4. Running(w)
        BY <1>1, <2>3 DEF BatchStep, Running
    <2>5. worker'[w].age = worker[w].age + 1
        BY <1>5, <2>1, <2>4 DEF Tick, Slot
    <2>6. queue[t] \in Row /\ queue[t].age \in Nat
        <3>1. queue[t] \in Row
            BY <1>1, <2>3 DEF TypeOK
        <3> QED BY <3>1 DEF Row
    <2>7. /\ queue'[t].status = queue[t].status
          /\ queue'[t].age = IF queue[t].status = "RUNNING" /\ queue[t].age < AgeCap
                             THEN queue[t].age + 1 ELSE queue[t].age
        BY <1>5, <2>3, <2>6 DEF Tick, Row
    <2>8. queue[t].age <= worker[w].age
        BY <2>2, <2>7 DEF YoungClaims
    <2> QED BY <2>1, <2>2, <2>5, <2>6, <2>7, <2>8
<1>6. ASSUME NEW w \in Worker, Claim(w) PROVE YoungClaims'
    <2>1. PICK b \in Batches :
            /\ queue' = Claimed(b)
            /\ worker' = [worker EXCEPT
                    ![w].step = IF b = <<>> THEN "drain" ELSE "job",
                    ![w].batch = [i \in DOMAIN b |-> <<b[i], queue[b[i]].file>>],
                    ![w].age = 0]
        BY <1>6 DEF Claim
    <2>2. \A t \in Ticker : queue'[t].status = "RUNNING" =>
              \/ queue[t].status = "RUNNING" /\ queue'[t].age = queue[t].age
              \/ queue'[t].age = 0
        BY <1>1, <2>1, ClaimedShape
    <2>3. \A v \in Worker \ {w} : worker'[v] = worker[v]
        BY <1>1, <2>1
    <2>4. worker'[w].batch = [i \in DOMAIN b |-> <<b[i], queue[b[i]].file>>]
        BY <1>1, <2>1 DEF Slot
    <2>5. ASSUME NEW i \in DOMAIN worker'[w].batch
          PROVE  queue'[worker'[w].batch[i][1]].age = 0
        <3>1. i \in DOMAIN b /\ worker'[w].batch[i][1] = b[i] /\ b[i] \in Claimable
            BY <2>4, <2>5, BatchShape
        <3>2. b[i] \in Ticker
            BY <3>1 DEF Claimable
        <3>3. \A t \in Ticker : (\E k \in DOMAIN b : b[k] = t) => Claimed(b)[t].age = 0
            BY <1>1, ClaimedShape
        <3> QED BY <2>1, <3>1, <3>2, <3>3
    <2>6. \A v \in Worker : \A i \in DOMAIN worker'[v].batch :
            \/ /\ worker'[v].age = worker[v].age
               /\ \E j \in DOMAIN worker[v].batch : worker'[v].batch[i] = worker[v].batch[j]
            \/ queue'[worker'[v].batch[i][1]].age = 0
        BY <2>3, <2>5
    <2> QED BY <1>1, <2>2, <2>6, YoungClaimsKept
<1>7. ASSUME NEW w \in Worker,
             Store(w) \/ FinishStored(w) \/ FinishFailed(w) \/ Chain(w)
               \/ Poisoned(w) \/ Die(w) \/ Expire(w)
      PROVE  YoungClaims'
    <2>1. /\ \A v \in Worker \ {w} : worker'[v] = worker[v]
          /\ \/ worker'[w].batch = <<>>
             \/ worker'[w].batch = worker[w].batch /\ worker'[w].age = worker[w].age
             \/ /\ worker[w].batch # <<>> /\ worker'[w].age = worker[w].age
                /\ worker'[w].batch = Tail(worker[w].batch)
          /\ \A t \in Ticker : queue'[t].status = "RUNNING" => queue'[t] = queue[t]
        BY <1>7, QuietWorkerStep
    <2>2. \A i \in DOMAIN worker'[w].batch :
            /\ worker'[w].age = worker[w].age
            /\ \E j \in DOMAIN worker[w].batch : worker'[w].batch[i] = worker[w].batch[j]
        BY <1>1, <2>1, QuietAges
    <2>3. \A v \in Worker : \A i \in DOMAIN worker'[v].batch :
            /\ worker'[v].age = worker[v].age
            /\ \E j \in DOMAIN worker[v].batch : worker'[v].batch[i] = worker[v].batch[j]
        BY <2>1, <2>2
    <2> QED BY <1>1, <2>1, <2>3, YoungClaimsKept
<1>8. CASE FinalizeFails \/ (\E t \in Ticker : Publish(t)) \/ UNCHANGED vars
    BY <1>8 DEF FinalizeFails, Publish, vars, YoungClaims
<1> QED
    BY <1>2, <1>3, <1>4, <1>5, <1>6, <1>7, <1>8 DEF Next

\* No live worker holds a row whose claim is stale, whatever was lost.
LEMMA StaleIsNotInHand ==
    ASSUME TInv, YoungClaims, NEW t \in Ticker, Stale(t), NEW w \in Worker
    PROVE  t \notin InHand(w)
<1>1. TypeOK
    BY DEF TInv
<1>2. /\ queue[t].age \in Nat /\ worker[w].age \in Nat /\ worker[w].age <= WallClock
      /\ WallClock \in Nat /\ StaleAfter \in Nat /\ WallClock <= StaleAfter
    BY <1>1, QueueAssumption DEF TypeOK, Row, Slot, AgeCap, Max2
<1>3. ASSUME t \in InHand(w) PROVE FALSE
    <2>1. PICK i \in DOMAIN worker[w].batch : worker[w].batch[i][1] = t
        BY <1>3 DEF InHand
    <2>2. queue[t].age <= worker[w].age
        BY <2>1 DEF YoungClaims, Stale
    <2> QED BY <1>2, <2>2 DEF Stale
<1> QED
    BY <1>3

\* A row that a finalizer takes back, at once or when its transaction ends, is stale.
LEMMA ReclaimStep ==
    ASSUME TInv, LockedStale, YoungClaims, NEW t \in Ticker,
           \/ Watchdog \/ CronFinalize \/ \E w \in Worker : Drain(w)
           \/ t \in refresh.locked,
           queue[t].status = "RUNNING", queue'[t].status # "RUNNING",
           NEW w \in Worker
    PROVE  t \notin InHand(w)
<1>1. TypeOK
    BY DEF TInv
<1>2. CASE t \in refresh.locked
    BY <1>2, StaleIsNotInHand DEF LockedStale
<1>3. CASE Watchdog \/ CronFinalize \/ \E v \in Worker : Drain(v)
    <2>1. queue' = ReclaimedIf(StaleNow) \/ queue' = queue
        BY <1>3, QuietFinalizer
    <2>2. Stale(t)
        BY <1>1, <2>1, StaleReclaimed DEF StaleNow, Stale
    <2> QED BY <2>2, StaleIsNotInHand
<1> QED
    BY <1>2, <1>3

\* No finalizer ever takes a row from under a live worker, for any number of workers
\* and filings, also when replies are lost: what the stale threshold and the
\* wall-clock ceiling are for.
THEOREM ReclaimIsSafe == Spec => ReclaimSparesLiveWorkers
<1>1. Init => TInv /\ LockedStale /\ YoungClaims
    BY TInvInit, LockedStaleInit, YoungClaimsInit
<1>2. TInv /\ LockedStale /\ YoungClaims /\ [Next]_vars => (TInv /\ LockedStale /\ YoungClaims)'
    BY TInvStep, LockedStaleStep, YoungClaimsStep
<1>3. TInv /\ LockedStale /\ YoungClaims =>
        [\A t \in Ticker :
           /\ \/ Watchdog \/ CronFinalize \/ \E w \in Worker : Drain(w)
              \/ t \in refresh.locked
           /\ queue[t].status = "RUNNING" /\ queue'[t].status # "RUNNING"
           => \A w \in Worker : t \notin InHand(w)]_vars
    BY ReclaimStep
<1> QED
    BY <1>1, <1>2, <1>3, PTL DEF Spec, ReclaimSparesLiveWorkers

-----------------------------------------------------------------------------
(* What holds while no reply is lost: a filing in hand is a RUNNING row.    *)

\* Every filing in hand is the filing its RUNNING row names.
HeldIsRunning ==
    \A w \in Worker : \A i \in DOMAIN worker[w].batch :
        LET f == worker[w].batch[i] IN
        queue[f[1]].status = "RUNNING" /\ queue[f[1]].file = f[2]

\* No row is in hand twice.
HeldOnce ==
    \A v, w \in Worker : \A i \in DOMAIN worker[v].batch, j \in DOMAIN worker[w].batch :
        worker[v].batch[i][1] = worker[w].batch[j][1] => v = w /\ i = j

\* While the ranking is recomputed nothing is open but the rows the finalizer has
\* locked, and the evidence is the one it read.
RefreshQuiet ==
    refresh.on => OpenTickers(queue) \subseteq refresh.locked /\ refresh.evidence = evidence

Core == TInv /\ LockedStale /\ YoungClaims /\ HeldIsRunning /\ HeldOnce /\ RefreshQuiet

\* While the ranking is recomputed no isolate holds a filing.
LEMMA NothingHeld ==
    ASSUME Core, refresh.on, NEW w \in Worker
    PROVE  worker[w].batch = <<>> /\ DOMAIN worker[w].batch = {}
<1>1. worker[w].batch \in Seq(Filing)
    BY DEF Core, TInv, TypeOK, Slot
<1>2. ASSUME NEW i \in DOMAIN worker[w].batch PROVE FALSE
    <2>1. worker[w].batch[i][1] \in Ticker
        BY EntryTyped DEF Core, TInv
    <2>2. queue[worker[w].batch[i][1]].status = "RUNNING"
        BY DEF Core, HeldIsRunning
    <2>3. Stale(worker[w].batch[i][1])
        BY <2>1, <2>2 DEF Core, RefreshQuiet, LockedStale, OpenTickers, Open
    <2> QED BY <2>1, <2>3, StaleIsNotInHand DEF Core, InHand
<1>3. worker[w].batch = <<>>
    BY <1>1, <1>2, FirstAndRest
<1> QED
    BY <1>3, EmptyDomain

\* The three ways a finalizer may go.
LEMMA FinalizerBranches ==
    ASSUME Watchdog \/ CronFinalize \/ \E w \in Worker : Drain(w)
    PROVE  /\ refresh.locked = {}
           /\ \/ /\ OpenTickers(ReclaimedIf(StaleNow)) # {}
                 /\ queue' = ReclaimedIf(StaleNow) /\ outcome' = "EVIDENCE_PENDING"
                 /\ UNCHANGED refresh
              \/ /\ OpenTickers(ReclaimedIf(StaleNow)) = {}
                 /\ refresh' = [on |-> TRUE, evidence |-> evidence, locked |-> StaleNow]
                 /\ UNCHANGED <<queue, outcome>>
              \/ UNCHANGED <<queue, refresh, outcome>>
    BY DEF Watchdog, CronFinalize, Drain, FinalizeBegin, StaleNow

\* A row that stays open although the stale ones are reclaimed is itself open.
LEMMA OpenBefore ==
    ASSUME TypeOK, NEW t \in Ticker
    PROVE  /\ t \in OpenTickers(ReclaimedIf(StaleNow)) => t \in OpenTickers(queue)
           /\ t \in OpenTickers(queue) => t \in StaleNow \/ t \in OpenTickers(ReclaimedIf(StaleNow))
    BY StaleReclaimed, ReclaimedShape DEF StaleNow, OpenTickers, Open

\* A worker that loses no reply finishes the row of the filing it goes on from, or
\* leaves the rows alone.
LEMMA LosslessWorkerStep ==
    ASSUME ~LossyReplies, Core, NEW w \in Worker,
           Store(w) \/ FinishStored(w) \/ FinishFailed(w) \/ Chain(w)
             \/ Poisoned(w) \/ Die(w) \/ Expire(w)
    PROVE  \/ UNCHANGED queue
           \/ /\ worker[w].batch # <<>> /\ worker' = NextJob(w)
              /\ UNCHANGED evidence
              /\ \/ /\ worker[w].step = "stored"
                    /\ queue' = Finished(Head(worker[w].batch)[1], TRUE)
                 \/ queue' = Finished(Head(worker[w].batch)[1], FALSE)
<1>1. worker[w].step \in {"stored", "failed"} => worker[w].batch # <<>>
    BY DEF Core, TInv, BatchStep
<1>2. CASE FinishStored(w)
    BY <1>1, <1>2 DEF FinishStored
<1>3. CASE FinishFailed(w)
    BY <1>1, <1>3 DEF FinishFailed
<1>4. CASE Store(w) \/ Chain(w) \/ Poisoned(w) \/ Die(w) \/ Expire(w)
    BY <1>4 DEF Store, Chain, Poisoned, Die, Expire
<1> QED
    BY <1>2, <1>3, <1>4

\* The filing in hand that comes first, and its row.
LEMMA FirstInHand ==
    ASSUME Core, NEW w \in Worker, worker[w].batch # <<>>
    PROVE  LET f == Head(worker[w].batch) IN
           /\ 1 \in DOMAIN worker[w].batch /\ f = worker[w].batch[1]
           /\ f[1] \in Ticker /\ f = <<f[1], f[2]>>
           /\ queue[f[1]].status = "RUNNING" /\ queue[f[1]].file = f[2]
           /\ ~refresh.on
<1>1. worker[w].batch \in Seq(Filing)
    BY DEF Core, TInv, TypeOK, Slot
<1>2. 1 \in DOMAIN worker[w].batch /\ Head(worker[w].batch) = worker[w].batch[1]
    BY <1>1, FirstAndRest
<1>3. /\ worker[w].batch[1][1] \in Ticker
      /\ worker[w].batch[1] = <<worker[w].batch[1][1], worker[w].batch[1][2]>>
    BY <1>2, EntryTyped DEF Core, TInv
<1> QED
    BY <1>2, <1>3, NothingHeld DEF Core, HeldIsRunning

\* HeldIsRunning and HeldOnce survive when every slot holds part of what it held and
\* the rows it still holds are as they were.
LEMMA HeldKept ==
    ASSUME Core, TypeOK',
           \A w \in Worker :
              \/ worker'[w].batch = <<>>
              \/ \E k \in {0, 1} : \A i \in DOMAIN worker'[w].batch :
                   /\ i + k \in DOMAIN worker[w].batch
                   /\ worker'[w].batch[i] = worker[w].batch[i + k]
                   /\ LET t == worker[w].batch[i + k][1] IN
                      /\ queue'[t].status = queue[t].status
                      /\ queue'[t].file = queue[t].file
    PROVE  HeldIsRunning' /\ HeldOnce'
<1>1. \A w \in Worker : \E k \in {0, 1} : \A i \in DOMAIN worker'[w].batch :
          /\ i + k \in DOMAIN worker[w].batch
          /\ worker'[w].batch[i] = worker[w].batch[i + k]
          /\ LET t == worker[w].batch[i + k][1] IN
             queue'[t].status = queue[t].status /\ queue'[t].file = queue[t].file
    BY EmptyDomain
<1>2. HeldIsRunning'
    <2>1. ASSUME NEW w \in Worker, NEW i \in DOMAIN worker'[w].batch
          PROVE  LET f == worker'[w].batch[i] IN
                 queue'[f[1]].status = "RUNNING" /\ queue'[f[1]].file = f[2]
        <3>1. PICK k \in {0, 1} :
                /\ i + k \in DOMAIN worker[w].batch
                /\ worker'[w].batch[i] = worker[w].batch[i + k]
                /\ LET t == worker[w].batch[i + k][1] IN
                   queue'[t].status = queue[t].status /\ queue'[t].file = queue[t].file
            BY <1>1
        <3> QED BY <3>1 DEF Core, HeldIsRunning
    <2> QED BY <2>1 DEF HeldIsRunning
<1>3. HeldOnce'
    <2>1. ASSUME NEW v \in Worker, NEW w \in Worker,
                 NEW i \in DOMAIN worker'[v].batch, NEW j \in DOMAIN worker'[w].batch,
                 worker'[v].batch[i][1] = worker'[w].batch[j][1]
          PROVE  v = w /\ i = j
        <3>1. PICK k \in {0, 1} : \A x \in DOMAIN worker'[v].batch :
                x + k \in DOMAIN worker[v].batch /\ worker'[v].batch[x] = worker[v].batch[x + k]
            BY <1>1
        <3>2. PICK l \in {0, 1} : \A x \in DOMAIN worker'[w].batch :
                x + l \in DOMAIN worker[w].batch /\ worker'[w].batch[x] = worker[w].batch[x + l]
            BY <1>1
        <3>3. v = w /\ i + k = j + l
            BY <2>1, <3>1, <3>2 DEF Core, HeldOnce
        <3>4. v = w /\ j + k \in DOMAIN worker[w].batch /\ worker'[w].batch[j] = worker[w].batch[j + k]
            BY <3>1, <3>3
        <3>5. j + k = j + l
            BY <3>2, <3>4 DEF Core, HeldOnce
        <3>6. i + k = j + k
            BY <3>3, <3>5
        <3>7. i \in Int /\ j \in Int
            <4>1. worker'[v].batch \in Seq(Filing) /\ worker'[w].batch \in Seq(Filing)
                BY DEF TypeOK, Slot
            <4> QED BY <2>1, <4>1, LenProperties
        <3> QED BY <3>3, <3>6, <3>7
    <2> QED BY <2>1 DEF HeldOnce
<1> QED
    BY <1>2, <1>3

\* Core is kept by finalizers.
LEMMA FinalizerCore ==
    ASSUME Core, TInv', LockedStale', YoungClaims', Watchdog \/ CronFinalize \/ \E w \in Worker : Drain(w)
    PROVE  Core'
<1>1. TypeOK /\ TypeOK' /\ TInv /\ LockedStale /\ YoungClaims
    BY DEF Core, TInv
<1>2. /\ queue' = ReclaimedIf(StaleNow) \/ queue' = queue
      /\ \A v \in Worker : worker'[v] = worker[v] \/ worker'[v].batch = <<>>
      /\ UNCHANGED evidence
    BY <1>1, QuietFinalizer
<1>3. ASSUME NEW w \in Worker, NEW i \in DOMAIN worker[w].batch
      PROVE  LET t == worker[w].batch[i][1] IN
             queue'[t].status = queue[t].status /\ queue'[t].file = queue[t].file
    <2> DEFINE t == worker[w].batch[i][1]
    <2>1. t \in Ticker /\ t \in InHand(w)
        BY <1>1, EntryTyped DEF InHand
    <2>2. queue[t].status = "RUNNING"
        BY DEF Core, HeldIsRunning
    <2>3. queue'[t].status = "RUNNING"
        BY <1>1, <2>1, <2>2, ReclaimStep
    <2>4. queue'[t] = queue[t]
        BY <1>1, <1>2, <2>1, <2>3, StaleReclaimed DEF StaleNow
    <2> QED BY <2>4
<1>4. \A w \in Worker :
        \/ worker'[w].batch = <<>>
        \/ \E k \in {0, 1} : \A i \in DOMAIN worker'[w].batch :
             /\ i + k \in DOMAIN worker[w].batch
             /\ worker'[w].batch[i] = worker[w].batch[i + k]
             /\ LET t == worker[w].batch[i + k][1] IN
                queue'[t].status = queue[t].status /\ queue'[t].file = queue[t].file
    <2>1. ASSUME NEW w \in Worker, worker'[w] = worker[w]
          PROVE  \A i \in DOMAIN worker'[w].batch :
                   /\ i + 0 \in DOMAIN worker[w].batch
                   /\ worker'[w].batch[i] = worker[w].batch[i + 0]
                   /\ LET t == worker[w].batch[i + 0][1] IN
                      queue'[t].status = queue[t].status /\ queue'[t].file = queue[t].file
        <3>1. worker[w].batch \in Seq(Filing)
            BY <1>1 DEF TypeOK, Slot
        <3>2. \A i \in DOMAIN worker[w].batch : i + 0 = i
            BY <3>1, LenProperties
        <3> QED BY <1>3, <2>1, <3>2
    <2> QED BY <1>2, <2>1
<1>5. HeldIsRunning' /\ HeldOnce'
    BY <1>1, <1>4, HeldKept
<1>6. RefreshQuiet'
    <2>1. CASE OpenTickers(ReclaimedIf(StaleNow)) # {} /\ UNCHANGED refresh
        <3>1. ASSUME refresh.on PROVE FALSE
            <4>1. OpenTickers(queue) = {}
                BY <3>1, FinalizerBranches DEF Core, RefreshQuiet
            <4> QED BY <1>1, <2>1, <4>1, OpenBefore DEF OpenTickers
        <3> QED BY <2>1, <3>1 DEF RefreshQuiet
    <2>2. CASE /\ OpenTickers(ReclaimedIf(StaleNow)) = {} /\ UNCHANGED queue
               /\ refresh' = [on |-> TRUE, evidence |-> evidence, locked |-> StaleNow]
        <3>1. OpenTickers(queue) \subseteq StaleNow
            BY <1>1, <2>2, OpenBefore DEF OpenTickers
        <3>2. refresh'.evidence = evidence /\ refresh'.locked = StaleNow
            BY <2>2
        <3>3. OpenTickers(queue)' = OpenTickers(queue)
            BY <2>2 DEF OpenTickers
        <3> QED BY <1>2, <3>1, <3>2, <3>3 DEF RefreshQuiet
    <2>3. CASE UNCHANGED <<queue, refresh>>
        BY <1>2, <2>3 DEF Core, RefreshQuiet, OpenTickers
    <2> QED BY <2>1, <2>2, <2>3, FinalizerBranches
<1> QED
    BY <1>5, <1>6 DEF Core

\* Core is kept by a claim.
LEMMA ClaimCore ==
    ASSUME Core, TInv', LockedStale', YoungClaims', NEW w \in Worker, Claim(w)
    PROVE  Core'
<1>1. TypeOK /\ TypeOK' /\ worker \in [Worker -> Slot]
    BY DEF Core, TInv, TypeOK
<1>2. PICK b \in Batches :
        /\ queue' = Claimed(b)
        /\ worker' = [worker EXCEPT
                ![w].step = IF b = <<>> THEN "drain" ELSE "job",
                ![w].batch = [i \in DOMAIN b |-> <<b[i], queue[b[i]].file>>],
                ![w].age = 0]
    BY DEF Claim
<1>3. \A v \in Worker \ {w} : worker'[v] = worker[v]
    BY <1>1, <1>2
<1>4. worker'[w].batch = [i \in DOMAIN b |-> <<b[i], queue[b[i]].file>>]
    BY <1>1, <1>2 DEF Slot
<1>5. /\ \A i \in DOMAIN b : b[i] \in Claimable
      /\ \A i, j \in DOMAIN b : i # j => b[i] # b[j]
    BY BatchShape
<1>6. \A t \in Claimable : t \in Ticker /\ queue[t].status \in {"PENDING", "RETRY"}
    BY DEF Claimable
<1>7. \A t \in Ticker :
        /\ queue'[t].file = queue[t].file
        /\ \/ queue'[t] = queue[t] /\ \A i \in DOMAIN b : b[i] # t
           \/ t \in Claimable /\ queue'[t].status = "RUNNING"
    BY <1>1, <1>2, ClaimedShape
<1>8. \A v \in Worker : \A i \in DOMAIN worker[v].batch :
        /\ worker[v].batch[i][1] \in Ticker
        /\ queue[worker[v].batch[i][1]].status = "RUNNING"
        /\ queue[worker[v].batch[i][1]].file = worker[v].batch[i][2]
    BY <1>1, EntryTyped DEF Core, HeldIsRunning
<1>9. HeldIsRunning'
    <2>1. ASSUME NEW v \in Worker, NEW i \in DOMAIN worker'[v].batch
          PROVE  LET f == worker'[v].batch[i] IN
                 queue'[f[1]].status = "RUNNING" /\ queue'[f[1]].file = f[2]
        <3>1. CASE v = w
            <4>1. i \in DOMAIN b /\ worker'[v].batch[i] = <<b[i], queue[b[i]].file>>
                BY <1>4, <2>1, <3>1
            <4>2. b[i] \in Ticker
                BY <1>5, <1>6, <4>1
            <4>3. queue'[b[i]].status = "RUNNING" /\ queue'[b[i]].file = queue[b[i]].file
                BY <1>7, <4>1, <4>2
            <4> QED BY <4>1, <4>3
        <3>2. CASE v # w
            BY <1>3, <1>6, <1>7, <1>8, <2>1, <3>2
        <3> QED BY <3>1, <3>2
    <2> QED BY <2>1 DEF HeldIsRunning
<1>10. \A i \in DOMAIN worker'[w].batch :
         i \in DOMAIN b /\ worker'[w].batch[i][1] = b[i] /\ b[i] \in Claimable
    BY <1>4, <1>5
<1>11. HeldOnce'
    <2>1. ASSUME NEW u \in Worker, NEW v \in Worker,
                 NEW i \in DOMAIN worker'[u].batch, NEW j \in DOMAIN worker'[v].batch,
                 worker'[u].batch[i][1] = worker'[v].batch[j][1]
          PROVE  u = v /\ i = j
        <3>1. CASE u = w /\ v = w
            BY <1>5, <1>10, <2>1, <3>1
        <3>2. CASE u = w /\ v # w
            BY <1>3, <1>6, <1>8, <1>10, <2>1, <3>2
        <3>3. CASE u # w /\ v = w
            BY <1>3, <1>6, <1>8, <1>10, <2>1, <3>3
        <3>4. CASE u # w /\ v # w
            BY <1>3, <2>1, <3>4 DEF Core, HeldOnce
        <3> QED BY <3>1, <3>2, <3>3, <3>4
    <2> QED BY <2>1 DEF HeldOnce
<1>12. RefreshQuiet'
    <2>1. ASSUME refresh.on
          PROVE  OpenTickers(queue') \subseteq refresh.locked /\ refresh.evidence = evidence
        <3>1. OpenTickers(queue) \subseteq refresh.locked /\ refresh.evidence = evidence
            BY <2>1 DEF Core, RefreshQuiet
        <3>2. \A t \in refresh.locked : queue[t].status = "RUNNING"
            BY DEF Core, LockedStale, Stale
        <3>3. \A t \in Ticker : queue'[t] = queue[t]
            BY <1>6, <1>7, <3>1, <3>2 DEF OpenTickers, Open
        <3> QED BY <3>1, <3>3 DEF OpenTickers
    <2> QED BY <2>1 DEF Claim, RefreshQuiet
<1> QED
    BY <1>9, <1>11, <1>12 DEF Core

\* Core is kept by a worker that loses no reply.
LEMMA WorkerCore ==
    ASSUME ~LossyReplies, Core, TInv', LockedStale', YoungClaims', NEW w \in Worker,
           Store(w) \/ FinishStored(w) \/ FinishFailed(w) \/ Chain(w)
             \/ Poisoned(w) \/ Die(w) \/ Expire(w)
    PROVE  Core'
<1>1. TypeOK /\ TypeOK' /\ TInv
    BY DEF Core, TInv
<1>2. /\ \A v \in Worker \ {w} : worker'[v] = worker[v]
      /\ \/ worker'[w].batch = <<>>
         \/ worker'[w].batch = worker[w].batch /\ worker'[w].age = worker[w].age
         \/ /\ worker[w].batch # <<>> /\ worker'[w].age = worker[w].age
            /\ worker'[w].batch = Tail(worker[w].batch)
    BY <1>1, QuietWorkerStep
<1>3. UNCHANGED refresh
    BY DEF Store, FinishStored, FinishFailed, Chain, Poisoned, Die, Expire
<1>4. \A v \in Worker : worker[v].batch \in Seq(Filing)
    BY <1>1 DEF TypeOK, Slot
<1>5. \A v \in Worker : \A i \in DOMAIN worker[v].batch : i + 0 = i
    BY <1>4, LenProperties
<1>6. CASE UNCHANGED queue
    <2>1. \A v \in Worker :
            \/ worker'[v].batch = <<>>
            \/ \E k \in {0, 1} : \A i \in DOMAIN worker'[v].batch :
                 /\ i + k \in DOMAIN worker[v].batch
                 /\ worker'[v].batch[i] = worker[v].batch[i + k]
        BY <1>1, <1>2, <1>5, QuietBatch
    <2>2. HeldIsRunning' /\ HeldOnce'
        BY <1>1, <1>6, <2>1, HeldKept
    <2>3. RefreshQuiet'
        <3>1. UNCHANGED evidence \/ worker[w].batch # <<>>
            BY <1>1 DEF Store, FinishStored, FinishFailed, Chain, Poisoned, Die, Expire, TInv, BatchStep
        <3> QED BY <1>3, <1>6, <3>1, NothingHeld DEF Core, RefreshQuiet
    <2> QED BY <2>2, <2>3 DEF Core
<1>7. CASE /\ worker[w].batch # <<>> /\ worker' = NextJob(w)
           /\ \E success \in BOOLEAN : queue' = Finished(Head(worker[w].batch)[1], success)
    <2> DEFINE u == Head(worker[w].batch)[1]
    <2>1. /\ 1 \in DOMAIN worker[w].batch /\ u = worker[w].batch[1][1] /\ u \in Ticker
          /\ queue[u].status = "RUNNING" /\ ~refresh.on
        BY <1>7, FirstInHand
    <2>2. \A t \in Ticker \ {u} : queue'[t] = queue[t]
        BY <1>1, <1>7, <2>1, FinishedShape
    <2>3. ASSUME NEW v \in Worker, NEW i \in DOMAIN worker[v].batch, v # w \/ i # 1
          PROVE  LET t == worker[v].batch[i][1] IN
                 queue'[t].status = queue[t].status /\ queue'[t].file = queue[t].file
        <3>1. worker[v].batch[i][1] \in Ticker
            BY <1>1, EntryTyped
        <3>2. worker[v].batch[i][1] # u
            BY <2>1, <2>3 DEF Core, HeldOnce
        <3> QED BY <2>2, <3>1, <3>2
    <2>4. \A i \in DOMAIN worker'[w].batch :
            /\ i + 1 \in DOMAIN worker[w].batch /\ i + 1 # 1
            /\ worker'[w].batch[i] = worker[w].batch[i + 1]
        <3>1. worker'[w].batch = Tail(worker[w].batch)
            BY <1>1, <1>7, NextJobShape
        <3>2. \A i \in DOMAIN Tail(worker[w].batch) : i \in Int /\ i > 0
            BY <1>4, <1>7, FirstAndRest, LenProperties
        <3> QED BY <1>4, <1>7, <3>1, <3>2, FirstAndRest
    <2>5. \A v \in Worker :
            \E k \in {0, 1} : \A i \in DOMAIN worker'[v].batch :
               /\ i + k \in DOMAIN worker[v].batch
               /\ worker'[v].batch[i] = worker[v].batch[i + k]
               /\ LET t == worker[v].batch[i + k][1] IN
                  queue'[t].status = queue[t].status /\ queue'[t].file = queue[t].file
        <3>1. ASSUME NEW v \in Worker, v # w
              PROVE  \A i \in DOMAIN worker'[v].batch :
                       /\ i + 0 \in DOMAIN worker[v].batch
                       /\ worker'[v].batch[i] = worker[v].batch[i + 0]
                       /\ LET t == worker[v].batch[i + 0][1] IN
                          queue'[t].status = queue[t].status /\ queue'[t].file = queue[t].file
            BY <1>2, <1>5, <2>3, <3>1
        <3>2. \A i \in DOMAIN worker'[w].batch :
                 /\ i + 1 \in DOMAIN worker[w].batch
                 /\ worker'[w].batch[i] = worker[w].batch[i + 1]
                 /\ LET t == worker[w].batch[i + 1][1] IN
                    queue'[t].status = queue[t].status /\ queue'[t].file = queue[t].file
            BY <2>3, <2>4
        <3> QED BY <3>1, <3>2
    <2>6. HeldIsRunning' /\ HeldOnce'
        BY <1>1, <2>5, HeldKept
    <2>7. RefreshQuiet'
        BY <1>3, <2>1 DEF RefreshQuiet
    <2> QED BY <2>6, <2>7 DEF Core
<1> QED
    BY <1>6, <1>7, LosslessWorkerStep

\* HeldIsRunning and HeldOnce survive when every slot keeps or drops its batch and no
\* row changes its status or its filing.
LEMMA HeldKeptWhole ==
    ASSUME Core, TypeOK',
           \A w \in Worker : worker'[w].batch \in {<<>>, worker[w].batch},
           \A t \in Ticker :
              queue'[t].status = queue[t].status /\ queue'[t].file = queue[t].file
    PROVE  HeldIsRunning' /\ HeldOnce'
<1>1. ASSUME NEW w \in Worker, worker'[w].batch = worker[w].batch
      PROVE  \A i \in DOMAIN worker'[w].batch :
               /\ i + 0 \in DOMAIN worker[w].batch
               /\ worker'[w].batch[i] = worker[w].batch[i + 0]
               /\ LET t == worker[w].batch[i + 0][1] IN
                  queue'[t].status = queue[t].status /\ queue'[t].file = queue[t].file
    <2>1. worker[w].batch \in Seq(Filing) /\ TypeOK
        BY DEF Core, TInv, TypeOK, Slot
    <2>2. \A i \in DOMAIN worker[w].batch : i + 0 = i
        BY <2>1, LenProperties
    <2>3. \A i \in DOMAIN worker[w].batch : worker[w].batch[i][1] \in Ticker
        BY <2>1, EntryTyped
    <2> QED BY <1>1, <2>2, <2>3
<1> QED
    BY <1>1, HeldKept

\* Nothing is in hand and nothing is recomputed in the beginning.
LEMMA CoreInit == Init => Core
<1> SUFFICES ASSUME Init PROVE Core
    OBVIOUS
<1>1. \A w \in Worker : DOMAIN worker[w].batch = {}
    BY EmptyDomain, SlotShapes DEF Init
<1>2. ~refresh.on
    BY DEF Init, NoRefresh
<1> QED
    BY <1>1, <1>2, TInvInit, LockedStaleInit, YoungClaimsInit DEF Core, HeldIsRunning, HeldOnce, RefreshQuiet

\* Every step keeps Core, as long as no reply to a worker is lost.
LEMMA CoreStep ==
    ASSUME ~LossyReplies
    PROVE  Core /\ [Next]_vars => Core'
<1> SUFFICES ASSUME Core, [Next]_vars PROVE Core'
    OBVIOUS
<1>1. TInv /\ TInv' /\ LockedStale' /\ YoungClaims'
    BY TInvStep, LockedStaleStep, YoungClaimsStep DEF Core
<1>2. TypeOK /\ TypeOK' /\ worker \in [Worker -> Slot] /\ queue \in [Ticker -> Row]
    BY <1>1 DEF TInv, TypeOK
<1>3. CASE Watchdog \/ CronFinalize \/ \E w \in Worker : Drain(w)
    BY <1>1, <1>3, FinalizerCore
<1>4. CASE CronKick
    <2>1. \A w \in Worker : worker'[w].batch \in {<<>>, worker[w].batch}
        BY <1>2, <1>4, SlotShapes, QueueAssumption DEF CronKick
    <2> QED BY <1>1, <1>2, <1>4, <2>1, HeldKeptWhole DEF CronKick, Core, RefreshQuiet
<1>5. CASE FinalizeEnd
    <2>1. refresh.on /\ ~refresh'.on
        BY <1>5 DEF FinalizeEnd, NoRefresh
    <2>2. Kick(worker) \/ worker' = worker
        BY <1>5 DEF FinalizeEnd
    <2>3. \A w \in Worker : DOMAIN worker'[w].batch = {}
        BY <1>2, <2>1, <2>2, NothingHeld, SlotShapes, EmptyDomain, QueueAssumption DEF Kick
    <2> QED BY <1>1, <2>1, <2>3 DEF Core, HeldIsRunning, HeldOnce, RefreshQuiet
<1>6. CASE Tick
    <2>1. \A w \in Worker : worker'[w].batch = worker[w].batch
        BY <1>2, <1>6 DEF Tick, Slot
    <2>2. \A t \in Ticker : queue'[t].status = queue[t].status /\ queue'[t].file = queue[t].file
        BY <1>2, <1>6 DEF Tick, Row
    <2>3. HeldIsRunning' /\ HeldOnce'
        BY <1>2, <2>1, <2>2, HeldKeptWhole
    <2>4. RefreshQuiet'
        BY <1>6, <2>2 DEF Tick, Core, RefreshQuiet, OpenTickers
    <2> QED BY <1>1, <2>3, <2>4 DEF Core
<1>7. ASSUME NEW w \in Worker, Claim(w) PROVE Core'
    BY <1>1, <1>7, ClaimCore
<1>8. ASSUME NEW w \in Worker,
             Store(w) \/ FinishStored(w) \/ FinishFailed(w) \/ Chain(w)
               \/ Poisoned(w) \/ Die(w) \/ Expire(w)
      PROVE  Core'
    BY <1>1, <1>8, WorkerCore
<1>9. CASE (\E t \in Ticker : Publish(t)) \/ UNCHANGED vars
    BY <1>1, <1>9 DEF Publish, vars, Core, HeldIsRunning, HeldOnce, RefreshQuiet, OpenTickers
<1>10. CASE FinalizeFails
    <2>1. ~refresh'.on
        BY <1>10 DEF FinalizeFails, NoRefresh
    <2> QED BY <1>1, <1>10, <2>1 DEF FinalizeFails, Core, HeldIsRunning, HeldOnce, RefreshQuiet
<1> QED
    BY <1>3, <1>4, <1>5, <1>6, <1>7, <1>8, <1>9, <1>10 DEF Next

\* No filing is in the hands of two live invocations, for any number of workers.
THEOREM WorkersAreExclusive ==
    ASSUME ~LossyReplies PROVE Spec => []OneWorkerPerFiling
<1>1. Core => OneWorkerPerFiling
    BY DEF Core, HeldOnce, OneWorkerPerFiling
<1> QED
    BY <1>1, CoreInit, CoreStep, PTL DEF Spec

-----------------------------------------------------------------------------
(* How a row may change.                                                    *)

\* What a worker has stored is evidence.
StoredIsEvidence ==
    \A w \in Worker : worker[w].step = "stored" => Head(worker[w].batch) \in evidence

\* The ways one row may change in a step: not at all, claimed, finished or reclaimed,
\* deleted by the reconciliation, or seeded afresh by it.
Kept(t) == /\ queue'[t].status = queue[t].status /\ queue'[t].file = queue[t].file
           /\ queue'[t].attempts = queue[t].attempts
Taken(t) == /\ queue[t].status \in {"PENDING", "RETRY"} /\ queue'[t].status = "RUNNING"
            /\ queue'[t].file = queue[t].file
LetGo(t) == /\ queue[t].status = "RUNNING" /\ queue'[t].file = queue[t].file
            /\ \/ queue'[t].status = "COMPLETE" /\ <<t, queue[t].file>> \in evidence
               \/ queue'[t].status = "PARSE_FAILED"
               \/ queue'[t].status = "RETRY" /\ queue'[t].attempts < MaxAttempts
Reseeded(t) == /\ queue[t].status = "ABSENT" \/ queue[t].file # queue'[t].file
               /\ queue'[t].file = catalog[t] /\ queue'[t].status = SeedStatus(t)
               /\ queue'[t].attempts = 0

\* Evidence only grows, and only while a filing is in hand.
LEMMA EvidenceGrows ==
    ASSUME TInv, [Next]_vars
    PROVE  /\ evidence \subseteq evidence'
           /\ evidence' = evidence \/ \E w \in Worker : worker[w].batch # <<>>
<1>1. ASSUME NEW w \in Worker, Store(w)
      PROVE  evidence \subseteq evidence' /\ worker[w].batch # <<>>
    BY <1>1 DEF Store, TInv, BatchStep
<1>2. CASE (\E w \in Worker : Store(w)) \/ evidence' = evidence
    BY <1>1, <1>2
<1> QED
    BY <1>2 DEF Next, vars, Watchdog, CronFinalize, CronKick, FinalizeEnd, FinalizeFails, Tick, Claim,
       FinishStored, FinishFailed, Chain, Drain, Poisoned, Die, Expire, Publish

\* StoredIsEvidence is kept: the step is entered by storing the head of the batch.
LEMMA StoredStep ==
    ASSUME ~LossyReplies, Core, Core', StoredIsEvidence, [Next]_vars
    PROVE  StoredIsEvidence'
<1>1. TInv /\ TypeOK /\ BatchStep /\ worker \in [Worker -> Slot]
    BY DEF Core, TInv, TypeOK
<1>2. evidence \subseteq evidence'
    BY <1>1, EvidenceGrows
<1>3. ASSUME \A w \in Worker : \/ worker'[w].step # "stored"
                               \/ /\ worker'[w].step = worker[w].step
                                  /\ worker'[w].batch = worker[w].batch
      PROVE  StoredIsEvidence'
    BY <1>2, <1>3 DEF StoredIsEvidence
<1>4. CASE Watchdog \/ CronFinalize \/ \E w \in Worker : Drain(w)
    <2>1. \A w \in Worker : worker'[w] = worker[w] \/ worker'[w].batch = <<>>
        BY <1>1, <1>4, QuietFinalizer
    <2>2. \A w \in Worker : worker'[w].batch = <<>> => worker'[w].step # "stored"
        BY DEF Core, TInv, BatchStep
    <2> QED BY <1>3, <2>1, <2>2
<1>5. CASE CronKick \/ FinalizeEnd
    <2>1. Kick(worker) \/ worker' = worker
        BY <1>5 DEF CronKick, FinalizeEnd, Kick
    <2> QED BY <1>1, <1>3, <2>1, SlotShapes, QueueAssumption DEF Kick
<1>6. CASE Tick
    BY <1>1, <1>3, <1>6 DEF Tick, Slot
<1>7. ASSUME NEW w \in Worker, Claim(w) PROVE StoredIsEvidence'
    <2>1. PICK b \in Batches : worker' = [worker EXCEPT
              ![w].step = IF b = <<>> THEN "drain" ELSE "job",
              ![w].batch = [i \in DOMAIN b |-> <<b[i], queue[b[i]].file>>],
              ![w].age = 0]
        BY <1>7 DEF Claim
    <2>2. /\ \A v \in Worker \ {w} : worker'[v] = worker[v]
          /\ worker'[w].step \in {"drain", "job"}
        BY <1>1, <2>1 DEF Slot
    <2> QED BY <1>3, <2>2
<1>8. ASSUME NEW w \in Worker, Store(w) PROVE StoredIsEvidence'
    <2>1. \/ /\ evidence' = evidence \cup {Head(worker[w].batch)}
             /\ worker' = Goto(w, "stored")
          \/ worker' = Goto(w, "failed")
        BY <1>8 DEF Store
    <2>2. CASE worker' = Goto(w, "failed")
        BY <1>1, <1>3, <2>2, GotoShape
    <2>3. CASE /\ evidence' = evidence \cup {Head(worker[w].batch)}
               /\ worker' = Goto(w, "stored")
        BY <1>1, <2>3, GotoShape DEF StoredIsEvidence
    <2> QED BY <2>1, <2>2, <2>3
<1>9. ASSUME NEW w \in Worker, FinishStored(w) \/ FinishFailed(w) PROVE StoredIsEvidence'
    <2>1. worker[w].batch # <<>>
        BY <1>1, <1>9 DEF FinishStored, FinishFailed, BatchStep
    <2>2. worker' = NextJob(w) \/ worker' = Goto(w, "failed")
        BY <1>9 DEF FinishStored, FinishFailed
    <2> QED BY <1>1, <1>3, <2>1, <2>2, NextJobShape, GotoShape
<1>10. ASSUME NEW w \in Worker, Chain(w) \/ Poisoned(w) \/ Die(w) \/ Expire(w)
       PROVE  StoredIsEvidence'
    <2>1. worker[w].depth \in 0..MaxDepth /\ MaxDepth \in Nat
        BY <1>1, QueueAssumption DEF Slot
    <2>2. /\ \A v \in Worker \ {w} : worker'[v] = worker[v]
          /\ worker'[w].step \in {"idle", "requested"}
        <3>1. CASE Chain(w)
            BY <1>1, <2>1, <3>1, SlotShapes DEF Chain
        <3>2. CASE Poisoned(w) \/ Die(w) \/ Expire(w)
            BY <1>1, <3>2, SlotShapes DEF Poisoned, Die, Expire
        <3> QED BY <1>10, <3>1, <3>2
    <2> QED BY <1>3, <2>2
<1>11. CASE FinalizeFails \/ (\E t \in Ticker : Publish(t)) \/ UNCHANGED vars
    BY <1>11 DEF FinalizeFails, Publish, vars, StoredIsEvidence
<1> QED
    BY <1>4, <1>5, <1>6, <1>7, <1>8, <1>9, <1>10, <1>11 DEF Next

\* Every row changes in one of these ways, and a seeding only when nothing is open.
LEMMA RowSteps ==
    ASSUME ~LossyReplies, Core, StoredIsEvidence, [Next]_vars, NEW t \in Ticker
    PROVE  \/ Kept(t) \/ Taken(t) \/ LetGo(t)
           \/ FinalizeEnd /\ (queue'[t].status = "ABSENT" \/ Reseeded(t))
<1>1. TInv /\ TypeOK /\ BatchStep /\ queue \in [Ticker -> Row]
    BY DEF Core, TInv, TypeOK
<1>2. CASE Watchdog \/ CronFinalize \/ \E w \in Worker : Drain(w)
    <2>1. queue' = ReclaimedIf(StaleNow) \/ queue' = queue
        BY <1>1, <1>2, QuietFinalizer
    <2> QED BY <1>1, <2>1, StaleReclaimed DEF StaleNow, Kept, LetGo
<1>3. CASE FinalizeEnd
    <2> DEFINE ranking == RankOf[refresh.evidence]
               row == ReclaimedIf(refresh.locked)[t]
    <2>1. ranking \in [Ticker -> Nat] /\ row \in Row
        BY <1>1, ReclaimedShape, QueueAssumption DEF TypeOK
    <2>2. queue'[t] = Seeded(row, ranking, t) \/ queue'[t] = NoRow
        BY <1>3 DEF FinalizeEnd, Reconciled
    <2>3. \/ row = queue[t] /\ row.status \notin Open
          \/ /\ queue[t].status = "RUNNING" /\ row.file = queue[t].file
             /\ \/ row.status = "PARSE_FAILED"
                \/ row.status = "RETRY" /\ row.attempts < MaxAttempts
        BY <1>1, <1>3, StaleReclaimed, ReclaimedShape
           DEF FinalizeEnd, Core, RefreshQuiet, LockedStale, Stale, OpenTickers
    <2> HIDE DEF ranking, row
    <2>4. CASE queue'[t] = NoRow
        BY <1>3, <2>4 DEF NoRow
    <2>5. CASE queue'[t] = Seeded(row, ranking, t)
        <3>1. /\ queue'[t].file = catalog[t]
              /\ \/ /\ row.status = "ABSENT" \/ row.file # catalog[t]
                    /\ queue'[t].status = SeedStatus(t) /\ queue'[t].attempts = 0
                 \/ /\ row.file = catalog[t] /\ queue'[t].attempts = row.attempts
                    /\ \/ queue'[t].status = row.status
                       \/ row.status = "RUNNING"
            BY <1>1, <2>1, <2>5, SeededShape
        <3> QED BY <1>3, <2>3, <3>1 DEF Kept, LetGo, Reseeded, Open
    <2> QED BY <2>2, <2>4, <2>5
<1>4. CASE Tick
    BY <1>1, <1>4 DEF Tick, Row, Kept
<1>5. ASSUME NEW w \in Worker, Claim(w) PROVE Kept(t) \/ Taken(t)
    <2>1. PICK b \in Batches : queue' = Claimed(b)
        BY <1>5 DEF Claim
    <2> QED BY <1>1, <2>1, ClaimedShape DEF Kept, Taken, Claimable
<1>6. ASSUME NEW w \in Worker,
             Store(w) \/ FinishStored(w) \/ FinishFailed(w) \/ Chain(w)
               \/ Poisoned(w) \/ Die(w) \/ Expire(w)
      PROVE  Kept(t) \/ LetGo(t)
    <2>1. CASE UNCHANGED queue
        BY <2>1 DEF Kept
    <2>2. CASE /\ worker[w].batch # <<>>
               /\ \/ /\ worker[w].step = "stored"
                     /\ queue' = Finished(Head(worker[w].batch)[1], TRUE)
                  \/ queue' = Finished(Head(worker[w].batch)[1], FALSE)
        <3> DEFINE f == Head(worker[w].batch)
        <3>1. /\ f[1] \in Ticker /\ f = <<f[1], f[2]>>
              /\ queue[f[1]].status = "RUNNING" /\ queue[f[1]].file = f[2]
            BY <2>2, FirstInHand
        <3>2. worker[w].step = "stored" => f \in evidence
            BY DEF StoredIsEvidence
        <3>3. PICK success \in BOOLEAN :
                queue' = Finished(f[1], success) /\ (success => f \in evidence)
            BY <2>2, <3>2
        <3> HIDE DEF f
        <3>4. queue[f[1]].status # "ABSENT"
            BY <3>1
        <3>5. /\ \A u \in Ticker \ {f[1]} : queue'[u] = queue[u]
              /\ queue'[f[1]].file = queue[f[1]].file
              /\ success => queue'[f[1]].status = "COMPLETE"
              /\ ~success => \/ queue'[f[1]].status = "PARSE_FAILED"
                             \/ /\ queue'[f[1]].status = "RETRY"
                                /\ queue'[f[1]].attempts < MaxAttempts
            BY <1>1, <3>1, <3>3, <3>4, FinishedShape
        <3>7. CASE t = f[1]
            BY <3>1, <3>3, <3>5, <3>7 DEF LetGo
        <3>6. CASE t # f[1]
            BY <3>5, <3>6 DEF Kept
        <3> QED BY <3>6, <3>7
    <2> QED BY <1>6, <2>1, <2>2, LosslessWorkerStep
<1>7. CASE CronKick \/ FinalizeFails \/ (\E u \in Ticker : Publish(u)) \/ UNCHANGED vars
    BY <1>7 DEF CronKick, FinalizeFails, Publish, vars, Kept
<1> QED
    BY <1>2, <1>3, <1>4, <1>5, <1>6, <1>7 DEF Next

-----------------------------------------------------------------------------
(* The invariants about rows and evidence.                                  *)

Rows == Core /\ StoredIsEvidence /\ CompleteHasEvidence /\ WaitingIsClaimable

LEMMA RowsInit == Init => Rows
<1> SUFFICES ASSUME Init PROVE Rows
    OBVIOUS
<1>1. Core
    BY CoreInit
<1>2. TypeOK
    BY <1>1 DEF Core, TInv
<1>3. StoredIsEvidence
    BY SlotShapes DEF Init, StoredIsEvidence
<1>4. ASSUME NEW t \in Ticker
      PROVE  /\ queue[t].status = "COMPLETE" => <<t, queue[t].file>> \in evidence
             /\ queue[t].attempts < MaxAttempts
    <2>1. queue[t] \in {NoRow, [NoRow EXCEPT !.status = SeedStatus(t), !.file = catalog[t],
                                             !.rank = RankOf[{}][t]]}
        BY DEF Init
    <2>2. 0 < MaxAttempts
        BY QueueAssumption
    <2>3. CASE queue[t] = NoRow
        BY <2>2, <2>3 DEF NoRow
    <2>4. CASE queue[t] # NoRow
        <3>1. /\ queue[t].status = SeedStatus(t) /\ queue[t].file = catalog[t]
              /\ queue[t].attempts = 0
            BY <2>1, <2>4 DEF NoRow
        <3> QED BY <1>2, <2>2, <3>1, SeedStatusMeaning
    <2> QED BY <2>3, <2>4
<1> QED
    BY <1>1, <1>3, <1>4 DEF Rows, CompleteHasEvidence, WaitingIsClaimable

LEMMA RowsStep ==
    ASSUME ~LossyReplies
    PROVE  Rows /\ [Next]_vars => Rows'
<1> SUFFICES ASSUME Rows, [Next]_vars PROVE Rows'
    OBVIOUS
<1>1. Core /\ StoredIsEvidence /\ CompleteHasEvidence /\ WaitingIsClaimable /\ TInv /\ TypeOK
    BY DEF Rows, Core, TInv
<1>2. Core' /\ StoredIsEvidence'
    BY <1>1, CoreStep, StoredStep
<1>3. evidence \subseteq evidence'
    BY <1>1, EvidenceGrows
<1>4. ASSUME NEW t \in Ticker
      PROVE  \/ Kept(t) \/ Taken(t) \/ LetGo(t)
             \/ queue'[t].status = "ABSENT" \/ Reseeded(t)
    BY <1>1, RowSteps
<1>5. CompleteHasEvidence'
    <2> SUFFICES ASSUME NEW t \in Ticker, queue'[t].status = "COMPLETE"
                 PROVE  <<t, queue'[t].file>> \in evidence
        BY <1>3 DEF CompleteHasEvidence
    <2>1. CASE Kept(t)
        BY <1>1, <2>1 DEF Kept, CompleteHasEvidence
    <2>2. CASE LetGo(t)
        BY <2>2 DEF LetGo
    <2>3. CASE Reseeded(t)
        BY <1>1, <2>3, SeedStatusMeaning DEF Reseeded
    <2> QED BY <1>4, <2>1, <2>2, <2>3 DEF Taken
<1>6. WaitingIsClaimable'
    <2> SUFFICES ASSUME NEW t \in Ticker, queue'[t].status \in {"PENDING", "RETRY"}
                 PROVE  queue'[t].attempts < MaxAttempts
        BY DEF WaitingIsClaimable
    <2>1. CASE Kept(t)
        BY <1>1, <2>1 DEF Kept, WaitingIsClaimable
    <2>2. CASE LetGo(t)
        BY <2>2 DEF LetGo
    <2>3. CASE Reseeded(t)
        BY <2>3, QueueAssumption DEF Reseeded
    <2> QED BY <1>4, <2>1, <2>2, <2>3 DEF Taken
<1> QED
    BY <1>2, <1>5, <1>6 DEF Rows

\* No row waits with its attempts used up: whatever isolates die and whichever
\* finalizer comes first, an open row is claimable, RUNNING, or settled.
THEOREM NoRowIsStranded ==
    ASSUME ~LossyReplies PROVE Spec => []WaitingIsClaimable
<1>1. Rows => WaitingIsClaimable
    BY DEF Rows
<1> QED
    BY <1>1, RowsInit, RowsStep, PTL DEF Spec

\* A COMPLETE row always has the evidence of the filing it names.
THEOREM CompleteIsBacked ==
    ASSUME ~LossyReplies PROVE Spec => []CompleteHasEvidence
<1>1. Rows => CompleteHasEvidence
    BY DEF Rows
<1> QED
    BY <1>1, RowsInit, RowsStep, PTL DEF Spec

\* A settled row opens again only for another filing.
THEOREM VerdictsStand ==
    ASSUME ~LossyReplies PROVE Spec => VerdictStands
<1>1. Rows /\ [Next]_vars =>
        [\A t \in Ticker : queue[t].status \in Settled /\ queue'[t].status \in Open
            => queue'[t].file # queue[t].file]_vars
    <2> SUFFICES ASSUME Rows, [Next]_vars, NEW t \in Ticker,
                        queue[t].status \in Settled, queue'[t].status \in Open
                 PROVE  queue'[t].file # queue[t].file
        OBVIOUS
    <2>1. \/ Kept(t) \/ Taken(t) \/ LetGo(t)
          \/ queue'[t].status = "ABSENT" \/ Reseeded(t)
        BY RowSteps DEF Rows
    <2> QED BY <2>1 DEF Kept, Taken, LetGo, Reseeded, Open, Settled
<1> QED
    BY <1>1, RowsInit, RowsStep, PTL DEF Spec, VerdictStands

-----------------------------------------------------------------------------
(* The final ranking.                                                       *)

\* Once the ranking is final nothing is open.
FinalQuiet == outcome = "FINALIZED" => OpenTickers(queue) = {}

Final == Rows /\ FinalQuiet /\ FinalRankingIsCurrent

\* The step that ends the recomputation establishes what its outcome says.
LEMMA FinalizeEndFinal ==
    ASSUME Rows, FinalizeEnd
    PROVE  FinalQuiet' /\ FinalRankingIsCurrent'
<1> DEFINE ranking == RankOf[refresh.evidence]
           rows == ReclaimedIf(refresh.locked)
<1>1. TypeOK /\ refresh.evidence = evidence
    BY DEF Rows, Core, TInv, RefreshQuiet, FinalizeEnd
<1>2. ranking \in [Ticker -> Nat] /\ rows \in [Ticker -> Row]
    BY <1>1, ReclaimedShape, QueueAssumption DEF TypeOK
<1>3. /\ queue' = Reconciled(rows, ranking) /\ ranked' = refresh.evidence /\ evidence' = evidence
      /\ outcome' = "FINALIZED" => OpenTickers(queue') = {}
    BY DEF FinalizeEnd
<1>4. ASSUME OpenTickers(queue') = {}, NEW t \in Ticker
      PROVE  Member(ranking, t) <=> queue'[t].status \in Settled
    <2>1. CASE Member(ranking, t)
        <3>1. queue'[t] = Seeded(rows[t], ranking, t) /\ queue' \in [Ticker -> Row]
            BY <1>1, <1>2, <1>3, <2>1, ReconciledTyped DEF Reconciled
        <3>2. queue'[t].status # "ABSENT" /\ queue'[t].status \notin Open
            BY <1>1, <1>2, <1>4, <3>1, SeededShape DEF OpenTickers
        <3> QED BY <2>1, <3>1, <3>2 DEF Row
    <2>2. CASE ~Member(ranking, t)
        BY <1>3, <2>2 DEF Reconciled, NoRow, Settled
    <2> QED BY <2>1, <2>2
<1> QED
    BY <1>1, <1>3, <1>4 DEF FinalQuiet, FinalRankingIsCurrent

\* Every other step leaves the outcome, the evidence, the ranking and the verdicts as
\* they are once the ranking is final, or reports another outcome.
LEMMA FinalStep ==
    ASSUME ~LossyReplies
    PROVE  Final /\ [Next]_vars => Final'
<1> SUFFICES ASSUME Final, [Next]_vars PROVE Final'
    OBVIOUS
<1>1. Rows /\ Rows' /\ Core /\ TInv /\ TypeOK
    BY RowsStep DEF Final, Rows, Core, TInv
<1>2. CASE FinalizeEnd
    BY <1>1, <1>2, FinalizeEndFinal DEF Final
<1>3. CASE ~FinalizeEnd /\ outcome' = "FINALIZED"
    <2>1. outcome = "FINALIZED" /\ ranked' = ranked
        <3>1. CASE Watchdog \/ CronFinalize \/ \E w \in Worker : Drain(w)
            BY <1>1, <1>3, <3>1, FinalizerBranches, QuietFinalizer
        <3>2. CASE ~(Watchdog \/ CronFinalize \/ \E w \in Worker : Drain(w))
            BY <1>3, <3>2 DEF Next, vars, CronKick, FinalizeFails, Tick, Claim, Store, FinishStored,
               FinishFailed, Chain, Poisoned, Die, Expire, Publish
        <3> QED BY <3>1, <3>2
    <2>2. OpenTickers(queue) = {}
        BY <2>1 DEF Final, FinalQuiet
    <2>3. \A t \in Ticker : queue'[t].status = queue[t].status
        <3>1. ASSUME NEW t \in Ticker PROVE Kept(t)
            <4>1. Kept(t) \/ Taken(t) \/ LetGo(t)
                BY <1>1, <1>3, RowSteps DEF Rows
            <4> QED BY <2>2, <4>1 DEF OpenTickers, Open, Taken, LetGo
        <3> QED BY <3>1 DEF Kept
    <2>4. \A w \in Worker : worker[w].batch = <<>>
        <3>1. ASSUME NEW w \in Worker, worker[w].batch # <<>> PROVE FALSE
            BY <1>1, <2>2, <3>1, FirstInHand DEF OpenTickers, Open
        <3> QED BY <3>1
    <2>5. evidence' = evidence
        BY <1>1, <2>4, EvidenceGrows
    <2> QED BY <1>1, <2>1, <2>2, <2>3, <2>5 DEF Final, FinalQuiet, FinalRankingIsCurrent, OpenTickers
<1>4. CASE outcome' # "FINALIZED"
    BY <1>1, <1>4 DEF Final, FinalQuiet, FinalRankingIsCurrent
<1> QED
    BY <1>2, <1>3, <1>4

\* The ranking declared final is the ranking of all the evidence there is, and every
\* issuer at its top is settled.
THEOREM FinalIsCurrent ==
    ASSUME ~LossyReplies PROVE Spec => []FinalRankingIsCurrent
<1>1. Init => Final
    BY RowsInit DEF Init, Final, FinalQuiet, FinalRankingIsCurrent
<1>2. Final => FinalRankingIsCurrent
    BY DEF Final
<1> QED
    BY <1>1, <1>2, FinalStep, PTL DEF Spec
=============================================================================
