---------------------------- MODULE ScanJobSafety ----------------------------
(***************************************************************************)
(* What holds of the scan job, for every universe, shortlist, chunk size   *)
(* and set of deep stages.                                                 *)
(*                                                                         *)
(* While one script run at a time works on it, the stored checkpoint       *)
(* claims only work that is done and committed, goes only forward and      *)
(* counts every ticker once, and a prune spares the newest jobs.  The      *)
(* invariant says more of the chunks on record than the properties do: the *)
(* chunk that vouches for a place has a number no greater than the row's,  *)
(* so the upsert of the next chunk, which bears the next number, cannot    *)
(* replace it.  And of the run: what it holds is what the row says.        *)
(*                                                                         *)
(* With any number of runs that overlap, crash and patch the row late, the *)
(* checkpoint still claims only work that was done (second part).          *)
(***************************************************************************)
EXTENDS ScanJobProofs

OneRun == \A q, r \in Run : q = r
NoRepeats == \A i, k \in DOMAIN Universe : Universe[i] = Universe[k] => i = k

\* C are the chunks on record, j a job, at the position its row claims.
WorkedIn(C, j, at, s, i) ==
    \E c \in C : /\ c.job = j /\ c.stage = s /\ c.no <= at.chunk
                 /\ Items(s, at.shortlist)[i] \in c.tickers /\ c.ok

DoneIn(C, j, at) ==
    \A s \in DeepStages \cup {"OHLCV"} : \A i \in DOMAIN Items(s, at.shortlist) :
        Behind(at, s, i) => WorkedIn(C, j, at, s, i)

Counted(at) ==
    /\ at.stage = "BENCHMARK" => at.processed = 0
    /\ at.stage = "OHLCV" => at.processed = at.offset
    /\ at.stage \notin {"BENCHMARK", "OHLCV"} => at.processed = Len(Universe)

Sound(C, j, at) ==
    /\ DoneIn(C, j, at)
    /\ at.stage = "FINALIZE" => at.offset = 0
    /\ NoRepeats => Counted(at)

JobsSound == \A j \in Job : Exists(j) => Sound(chunks, j, jobs[j].at)

\* The chunk a run has just committed.
Committed(C, j, at) ==
    \E c \in C : /\ c.job = j /\ c.stage = at.stage /\ c.no = at.chunk + 1 /\ c.ok
                 /\ c.tickers = NextChunk(Items(at.stage, at.shortlist), at.offset)

RunSound(x) ==
    /\ x.step \in {"seen", "chunk_ok", "chunk_failed", "ranked", "final"} =>
          Exists(x.job) /\ x.at = jobs[x.job].at
    /\ x.step = "chunk_ok" /\ x.at.stage # "BENCHMARK" => Committed(chunks, x.job, x.at)
    /\ x.step = "ranked" => x.at.stage = "FAST_RANKING"
    /\ x.step = "final" => x.at.stage = "FINALIZE"
    /\ x.step \in {"create_delete", "create_post"} => jobs[x.job].status = "UNUSED"
    /\ x.step \in {"create_delete", "prune_delete"} => x.old \subseteq Prunable({x.job})

OneRunInvariant == Typed /\ JobsSound /\ \A r \in Run : RunSound(run[r])

\* A later position, and what a step may do to a row.
Ahead(a, b) ==
    \/ StageNo[b.stage] > StageNo[a.stage]
    \/ b.stage = a.stage /\ b.offset >= a.offset

Kept ==
    \A j \in Job :
        /\ Exists(j) /\ Exists(j)' => Ahead(jobs[j].at, jobs'[j].at)
        /\ Exists(j) /\ ~Exists(j)' =>
              jobs[j].status \in Terminal /\ KeepTerminal <= Cardinality(NewerTerminal(j))

-----------------------------------------------------------------------------
(* Positions.                                                              *)

\* A position is ahead of itself.
LEMMA AheadSelf == ASSUME NEW at \in Position PROVE Ahead(at, at)
BY DEF Ahead, Position

\* Committing a chunk that is on record leaves a sound position that is ahead.
LEMMA CommitSound ==
    ASSUME ScanJobAssumption, NEW C, NEW j, NEW at, Fits(at), at.stage \in CacheStages,
           Sound(C, j, at), at.stage # "BENCHMARK" => Committed(C, j, at),
           NEW new, new.stage = AfterChunk(at).stage, new.offset = AfterChunk(at).offset,
           new.chunk = AfterChunk(at).chunk, new.processed = AfterChunk(at).processed,
           new.shortlist = at.shortlist,
           \A c \in C : c.no \in Nat
    PROVE  Sound(C, j, new) /\ Ahead(at, new)
<1> DEFINE items == Items(at.stage, at.shortlist)
           done == at.offset + ChunkSize >= Len(items)
           next == NextOffset(items, at.offset)
<1>1. /\ at \in Position /\ at.shortlist \in Choices /\ at.stage \in Stages
      /\ at.offset \in Nat /\ at.chunk \in Nat /\ ChunkSize \in Nat /\ ChunkSize > 0
      /\ at.offset \in 0..Len(Universe) /\ Len(Universe) \in Nat
      /\ DeepStages \subseteq AllDeepStages
  BY DEF Fits, Position, ScanJobAssumption
<1>2. items \in Seq(Ticker) /\ Len(items) \in Nat
  BY <1>1, ItemTypes
<1>3. /\ new.chunk = at.chunk + 1
      /\ at.stage = "BENCHMARK" =>
            new.stage = "OHLCV" /\ new.offset = 0 /\ new.processed = at.processed
      /\ at.stage = "OHLCV" =>
            /\ new.stage = (IF done THEN "FAST_RANKING" ELSE "OHLCV")
            /\ new.offset = (IF done THEN 0 ELSE next)
            /\ new.processed = Smaller(Len(Universe),
                         at.processed + Cardinality(NextChunk(items, at.offset)))
      /\ at.stage \in AllDeepStages =>
            /\ new.stage = (IF done THEN NextDeepStage(at.stage, at.shortlist) ELSE at.stage)
            /\ new.offset = (IF done THEN 0 ELSE next)
            /\ new.processed = at.processed
  BY <1>1, AfterChunkFields
<1>4. next = (IF done THEN Len(items) ELSE at.offset + ChunkSize)
  <2> HIDE DEF items
  <2> QED
    BY <1>1, <1>2 DEF NextOffset, Smaller
<1>5. DoneIn(C, j, new)
  <2> SUFFICES ASSUME NEW s \in DeepStages \cup {"OHLCV"}, NEW i \in DOMAIN Items(s, at.shortlist),
                      Behind(new, s, i)
               PROVE  WorkedIn(C, j, new, s, i)
    BY DEF DoneIn
  <2>1. CASE Behind(at, s, i)
    <3>1. WorkedIn(C, j, at, s, i)
      BY <2>1 DEF Sound, DoneIn
    <3> QED
      BY <1>1, <1>3, <3>1 DEF WorkedIn
  <2>2. CASE ~Behind(at, s, i)
    <3>1. s = at.stage /\ i \in DOMAIN items /\ at.stage # "BENCHMARK"
      <4>1. s \in Stages /\ i \in Nat /\ i >= 1
        <5>1. Items(s, at.shortlist) \in Seq(Ticker)
          BY <1>1, ItemTypes DEF Stages, CacheStages
        <5> QED
          BY <1>1, <5>1 DEF Stages, CacheStages
      <4>0. /\ StageNo[s] \in 2..7 /\ (s # "OHLCV" => StageNo[s] \in 4..7)
            /\ StageNo["OHLCV"] = 2 /\ StageNo["FAST_RANKING"] = 3
        BY <1>1, StageNumbers
      <4>2. CASE at.stage = "BENCHMARK"
        <5>1. new.stage = "OHLCV" /\ new.offset = 0
          BY <1>3, <4>2
        <5> QED
          BY <4>0, <4>1, <5>1 DEF Behind
      <4>3. CASE at.stage = "OHLCV"
        <5>1. new.stage \in {"FAST_RANKING", "OHLCV"}
          BY <1>3, <4>3
        <5>2. s = "OHLCV"
          BY <4>0, <5>1 DEF Behind
        <5> QED
          BY <4>3, <5>2
      <4>4. CASE at.stage \in AllDeepStages
        <5> SUFFICES ASSUME s # at.stage PROVE FALSE
          BY <4>4 DEF AllDeepStages
        <5>1. StageNo[s] >= StageNo[at.stage] /\ StageNo[at.stage] \in 4..7
          <6>1. StageNo[at.stage] \in 4..7
            BY <4>4, StageNumbers
          <6> QED
            BY <2>2, <4>0, <6>1 DEF Behind
        <5>2. s \in DeepStages /\ StageNo[at.stage] < StageNo[s]
          <6>1. s \in DeepStages /\ s \in AllDeepStages
            BY <1>1, <4>0, <5>1
          <6>2. Rank4(s) # Rank4(at.stage)
            BY <4>4, <6>1, DeepPlaces
          <6>3. /\ StageNo[s] = 3 + Rank4(s) /\ Rank4(s) \in 1..4
                /\ StageNo[at.stage] = 3 + Rank4(at.stage) /\ Rank4(at.stage) \in 1..4
            BY <4>4, <6>1, StageNumbers, DeepPlaces
          <6> QED
            BY <5>1, <6>1, <6>2, <6>3
        <5>3. done /\ new.stage = NextDeepStage(at.stage, at.shortlist) /\ new.offset = 0
          <6>1. done \/ new.stage = at.stage
            BY <1>3, <4>4
          <6>2. new.stage # at.stage
            BY <4>0, <5>1, <5>2 DEF Behind
          <6> HIDE DEF done
          <6> QED
            BY <1>3, <4>4, <6>1, <6>2
        <5>4. at.shortlist # <<>>
          <6> SUFFICES ASSUME at.shortlist = <<>> PROVE FALSE
            OBVIOUS
          <6>1. Len(Items(s, at.shortlist)) = 0 /\ Items(s, at.shortlist) \in Seq(Ticker)
            BY <1>1, <4>1, <5>2, ItemTypes DEF AllDeepStages
          <6> QED
            BY <4>1, <6>1
        <5>5. StageNo[new.stage] <= StageNo[s] /\ StageNo[new.stage] \in Nat
          <6>1. new.stage \in Stages
            BY <1>1, <4>4, <5>3, NextDeep DEF Stages, CacheStages
          <6>2. \A t \in DeepStages : StageNo[at.stage] < StageNo[t] =>
                   StageNo[NextDeepStage(at.stage, at.shortlist)] <= StageNo[t]
            BY <4>4, <5>4, NextDeep
          <6>3. StageNo[new.stage] \in 1..9
            BY <6>1, StageNumbers
          <6> QED
            BY <5>2, <5>3, <6>2, <6>3
        <5>6. ~(StageNo[s] < StageNo[new.stage])
          BY <4>0, <5>5
        <5>7. s = new.stage /\ i <= new.offset
          BY <5>6 DEF Behind
        <5>8. new.offset = 0 /\ i >= 1 /\ i \in Nat
          BY <4>1, <5>3
        <5> QED
          BY <5>7, <5>8
      <4> QED
        BY <4>2, <4>3, <4>4 DEF CacheStages
    <3>2. at.offset < i /\ i <= at.offset + ChunkSize
      <4>1. i \in 1..Len(items)
        BY <1>2, <3>1
      <4>2. ~(i <= at.offset)
        BY <2>2, <3>1 DEF Behind
      <4>3. CASE done
        <5> HIDE DEF items
        <5> QED
          BY <1>1, <1>2, <4>1, <4>2, <4>3
      <4>4. CASE ~done
        <5>1. new.stage = at.stage /\ new.offset = at.offset + ChunkSize
          <6>1. at.stage = "OHLCV" \/ at.stage \in AllDeepStages
            BY <3>1 DEF CacheStages
          <6> HIDE DEF items, done, next
          <6> QED
            BY <1>3, <1>4, <4>4, <6>1
        <5>2. i <= new.offset
          <6>1. s = new.stage /\ StageNo[s] \in 1..9
            BY <1>1, <3>1, <5>1, StageNumbers
          <6> QED
            BY <6>1 DEF Behind
        <5> HIDE DEF items
        <5> QED
          BY <1>1, <4>1, <4>2, <5>1, <5>2
      <4> QED
        BY <4>3, <4>4
    <3>3. items[i] \in NextChunk(items, at.offset)
      BY <3>1, <3>2 DEF NextChunk
    <3> QED
      BY <1>1, <1>3, <3>1, <3>3 DEF Committed, WorkedIn
  <2> QED
    BY <2>1, <2>2
<1>6. new.stage = "FINALIZE" => new.offset = 0
  BY <1>3 DEF CacheStages, AllDeepStages
<1>7. ASSUME NoRepeats PROVE Counted(new)
  <2>1. Counted(at)
    BY <1>7 DEF Sound
  <2>2. CASE at.stage = "BENCHMARK"
    BY <1>3, <2>1, <2>2 DEF Counted
  <2>3. CASE at.stage = "OHLCV"
    <3>1. items = Universe /\ at.processed = at.offset
      BY <2>1, <2>3 DEF Items, Counted
    <3>2. Cardinality(NextChunk(items, at.offset)) = next - at.offset
      <4>1. (\A i, k \in DOMAIN items : items[i] = items[k] => i = k) /\ at.offset <= Len(items)
        BY <1>1, <1>7, <3>1 DEF NoRepeats
      <4> HIDE DEF items
      <4> QED
        BY <1>1, <1>2, <4>1, ChunkTypes
    <3>3. next \in 0..Len(Universe) /\ (done => next = Len(Universe))
      BY <1>1, <1>4, <3>1
    <3>4. new.processed = next
      <4> HIDE DEF next, items
      <4>1. at.processed + (next - at.offset) = next
        BY <1>1, <3>1, <3>3
      <4>2. new.processed = Smaller(Len(Universe), next)
        BY <1>3, <2>3, <3>2, <4>1
      <4> QED
        BY <1>1, <3>3, <4>2 DEF Smaller
    <3> QED
      BY <1>3, <2>3, <3>3, <3>4 DEF Counted
  <2>4. CASE at.stage \in AllDeepStages
    <3>1. at.processed = Len(Universe) /\ new.processed = at.processed
      BY <1>3, <2>1, <2>4 DEF Counted, AllDeepStages
    <3>2. new.stage \in AllDeepStages \cup {"FINALIZE"}
      BY <1>1, <1>3, <2>4, NextDeep
    <3> QED
      BY <3>1, <3>2 DEF Counted, AllDeepStages
  <2> QED
    BY <2>2, <2>3, <2>4 DEF CacheStages
<1>8. Ahead(at, new)
  <2>1. CASE at.stage \in AllDeepStages /\ done
    BY <1>3, <2>1, NextDeep DEF Ahead
  <2>2. CASE at.stage = "OHLCV" /\ done
    BY <1>3, <2>2, StageNumbers DEF Ahead
  <2>3. CASE at.stage # "BENCHMARK" /\ ~done
    BY <1>1, <1>3, <1>4, <2>3 DEF Ahead, CacheStages
  <2>4. CASE at.stage = "BENCHMARK"
    BY <1>3, <2>4, StageNumbers DEF Ahead
  <2> QED
    BY <2>1, <2>2, <2>3, <2>4 DEF CacheStages
<1> QED
  BY <1>5, <1>6, <1>7, <1>8 DEF Sound

\* Choosing the shortlist leaves a sound position that is ahead: the deep stages it
\* goes past have nothing to do.
LEMMA RankSound ==
    ASSUME ScanJobAssumption, NEW C, NEW j, NEW at, Fits(at), at.stage = "FAST_RANKING",
           Sound(C, j, at), NEW list \in Choices,
           NEW new, new.stage = NextDeepStage("FAST_RANKING", list), new.offset = 0,
           new.chunk = at.chunk + 1, new.processed = at.processed, new.shortlist = list,
           \A c \in C : c.no \in Nat
    PROVE  Sound(C, j, new) /\ Ahead(at, new)
<1> DEFINE next == NextDeepStage("FAST_RANKING", list)
<1>1. /\ next \in DeepStages \cup {"FINALIZE"} /\ DeepStages \subseteq AllDeepStages
      /\ 3 < StageNo[next]
      /\ list = <<>> \/ \A s \in DeepStages : 3 < StageNo[s] => StageNo[next] <= StageNo[s]
  BY NextDeep, StageNumbers DEF ScanJobAssumption
<1>2. at.chunk \in Nat
  BY DEF Fits, Position
<1>3. next \in Stages /\ StageNo[next] \in 1..9
  BY <1>1, StageNumbers DEF Stages, CacheStages
<1>4. DoneIn(C, j, new)
  <2> SUFFICES ASSUME NEW s \in DeepStages \cup {"OHLCV"}, NEW i \in DOMAIN Items(s, list),
                      Behind(new, s, i)
               PROVE  WorkedIn(C, j, new, s, i)
    BY DEF DoneIn
  <2>1. s \in Stages /\ Items(s, list) \in Seq(Ticker)
    BY <1>1, ItemTypes DEF Stages, CacheStages
  <2>2. i \in Nat /\ i >= 1
    BY <2>1
  <2>3. s = "OHLCV"
    <3> SUFFICES ASSUME s # "OHLCV" PROVE FALSE
      OBVIOUS
    <3>1. s \in DeepStages /\ StageNo[s] \in 4..7
      BY <1>1, StageNumbers
    <3>2. ~(s = new.stage /\ i <= new.offset)
      BY <2>2
    <3>3. StageNo[s] < StageNo[next]
      BY <3>2 DEF Behind
    <3>4. list = <<>>
      BY <1>1, <1>3, <3>1, <3>3
    <3>5. Len(Items(s, list)) = 0
      BY <2>1, <3>4, ItemTypes
    <3> QED
      BY <2>1, <3>5
  <2>4. Items(s, list) = Universe /\ Items(s, at.shortlist) = Universe
    BY <2>3 DEF Items
  <2>5. Behind(at, s, i)
    BY <2>3, StageNumbers DEF Behind
  <2>6. WorkedIn(C, j, at, s, i)
    BY <2>4, <2>5 DEF Sound, DoneIn
  <2> QED
    BY <1>2, <2>4, <2>6 DEF WorkedIn
<1>5. ASSUME NoRepeats PROVE Counted(new)
  <2>1. at.processed = Len(Universe)
    BY <1>5 DEF Sound, Counted
  <2>2. next \notin {"BENCHMARK", "OHLCV"}
    BY <1>1 DEF AllDeepStages
  <2> HIDE DEF next
  <2> QED
    BY <2>1, <2>2 DEF Counted, next
<1>6. Ahead(at, new)
  BY <1>1, StageNumbers DEF Ahead
<1> QED
  BY <1>4, <1>5, <1>6 DEF Sound

\* A finalised row, or one whose finalisation is to be tried again.
LEMMA FinalSound ==
    ASSUME ScanJobAssumption, NEW C, NEW j, NEW at, Fits(at), at.stage = "FINALIZE", Sound(C, j, at),
           NEW new, new.stage \in {"FINALIZE", "COMPLETED"}, new.offset = 0,
           new.chunk = at.chunk, new.processed = at.processed, new.shortlist = at.shortlist
    PROVE  Sound(C, j, new) /\ Ahead(at, new)
<1>1. DeepStages \subseteq AllDeepStages
  BY DEF ScanJobAssumption
<1>2. ASSUME NEW s \in DeepStages \cup {"OHLCV"}, NEW i
      PROVE  Behind(at, s, i)
  BY <1>1, StageNumbers DEF Behind
<1>3. DoneIn(C, j, new)
  BY <1>2 DEF Sound, DoneIn, WorkedIn
<1>4. at.offset = 0 /\ Ahead(at, new)
  BY StageNumbers DEF Ahead, Sound
<1>5. NoRepeats => Counted(new)
  BY DEF Sound, Counted
<1> QED
  BY <1>3, <1>4, <1>5 DEF Sound

-----------------------------------------------------------------------------
(* What each kind of write leaves of the rows and of the chunks.           *)

\* A sound position written over the row of j.
LEMMA PatchSound ==
    ASSUME Typed, JobsSound, NEW j \in Job, NEW status \in Active \cup Terminal, NEW at,
           Exists(j) => Sound(chunks, j, at) /\ Ahead(jobs[j].at, at),
           Patch(j, status, at) \/ PatchFails(j, status), UNCHANGED chunks
    PROVE  JobsSound' /\ Kept
<1>1. CASE UNCHANGED <<jobs, newer>>
  <2>1. \A k \in Job : jobs[k].at \in Position
    BY DEF Typed, JobsTyped, Row
  <2>2. \A k \in Job : Ahead(jobs[k].at, jobs[k].at)
    BY <2>1, AheadSelf
  <2> QED
    BY <1>1, <2>2 DEF JobsSound, Kept, Exists
<1>2. CASE Patch(j, status, at)
  <2> DEFINE row == [status |-> status, at |-> at]
  <2>1. jobs' = [jobs EXCEPT ![j] = row] /\ Exists(j)
    BY <1>2 DEF Patch
  <2>2. row.status = status /\ row.at = at /\ status \notin Gone
    BY DEF Active, Terminal, Completed, Gone
  <2>3. \A k \in Job : jobs'[k] = IF k = j THEN row ELSE jobs[k]
    <3> HIDE DEF row
    <3> QED
      BY <2>1 DEF Typed, JobsTyped
  <2>4. ASSUME NEW k \in Job
        PROVE  /\ Exists(k)' => Exists(k) /\ Sound(chunks, k, jobs'[k].at)
               /\ Exists(k) => Exists(k)' /\ Ahead(jobs[k].at, jobs'[k].at)
    <3>1. CASE k = j
      <4> HIDE DEF row
      <4> QED
        BY <2>1, <2>2, <2>3, <3>1 DEF Exists
    <3>2. CASE k # j
      <4>1. jobs'[k] = jobs[k] /\ jobs[k].at \in Position
        BY <2>3, <3>2 DEF Typed, JobsTyped, Row
      <4>2. Ahead(jobs[k].at, jobs[k].at)
        BY <4>1, AheadSelf
      <4> QED
        BY <4>1, <4>2 DEF Exists, JobsSound
    <3> QED
      BY <3>1, <3>2
  <2> QED
    BY <2>4 DEF JobsSound, Kept
<1> QED
  BY <1>1, <1>2 DEF PatchFails

\* Nothing but the run, or the run and the chunks, is written.
LEMMA IdleKept == ASSUME Typed, UNCHANGED jobs PROVE Kept
<1>1. \A k \in Job : jobs[k].at \in Position
  BY DEF Typed, JobsTyped, Row
<1> QED
  BY <1>1, AheadSelf DEF Kept, Exists

\* A chunk recorded under the next number replaces none that vouches for a place.
LEMMA RecordSound ==
    ASSUME Typed, JobsSound, NEW d, Exists(d.job), d.no = jobs[d.job].at.chunk + 1, d.job \in Job,
           RecordChunk(d), UNCHANGED jobs
    PROVE  JobsSound'
<1> SUFFICES ASSUME NEW k \in Job, Exists(k) PROVE Sound(chunks', k, jobs[k].at)
  BY DEF JobsSound, Exists
<1>1. Sound(chunks, k, jobs[k].at)
  BY DEF JobsSound
<1>2. ASSUME NEW s, NEW i, WorkedIn(chunks, k, jobs[k].at, s, i)
      PROVE  WorkedIn(chunks', k, jobs[k].at, s, i)
  <2>1. PICK c \in chunks : /\ c.job = k /\ c.stage = s /\ c.no <= jobs[k].at.chunk
                            /\ Items(s, jobs[k].at.shortlist)[i] \in c.tickers /\ c.ok
    BY <1>2 DEF WorkedIn
  <2>2. jobs[k].at.chunk \in Nat /\ c.no \in Nat
    BY DEF Typed, JobsTyped, Row, Position, Chunk
  <2>3. c.job # d.job \/ c.no # d.no
    BY <2>1, <2>2
  <2>4. c \in chunks'
    BY <2>3 DEF RecordChunk
  <2> QED
    BY <2>1, <2>4 DEF WorkedIn
<1> QED
  BY <1>1, <1>2 DEF Sound, DoneIn

\* Deleting jobs takes their chunks along and nothing else; and as the jobs are still
\* prunable, it spares the newest.
LEMMA DeleteSound ==
    ASSUME Typed, JobsSound, NEW old, NEW spared, old \subseteq Prunable(spared), DeleteJobs(old)
    PROVE  JobsSound' /\ Kept
<1> DEFINE gone == [status |-> "DELETED", at |-> Start]
<1>1. ASSUME NEW k \in Job
      PROVE  jobs'[k] = IF k \in old /\ Exists(k) THEN gone ELSE jobs[k]
  BY DEF DeleteJobs
<1>2. gone.status \in Gone
  BY DEF Gone
<1> HIDE DEF gone
<1>3. ASSUME NEW k \in Job, Exists(k)'
      PROVE  k \notin old /\ jobs'[k] = jobs[k] /\ Exists(k)
  <2>1. ~(k \in old /\ Exists(k))
    BY <1>1, <1>2, <1>3 DEF Exists
  <2>2. jobs'[k] = jobs[k]
    BY <1>1, <2>1
  <2> QED
    BY <1>3, <2>1, <2>2 DEF Exists
<1>4. ASSUME NEW k \in Job, Exists(k)'
      PROVE  Sound(chunks', k, jobs'[k].at)
  <2>1. Sound(chunks, k, jobs[k].at) /\ jobs'[k] = jobs[k] /\ k \notin old
    BY <1>3, <1>4 DEF JobsSound
  <2>2. ASSUME NEW s, NEW i, WorkedIn(chunks, k, jobs[k].at, s, i)
        PROVE  WorkedIn(chunks', k, jobs[k].at, s, i)
    BY <2>1, <2>2 DEF WorkedIn, DeleteJobs
  <2> QED
    BY <2>1, <2>2 DEF Sound, DoneIn
<1>5. ASSUME NEW k \in Job, Exists(k), Exists(k)'
      PROVE  Ahead(jobs[k].at, jobs'[k].at)
  <2>1. jobs'[k] = jobs[k] /\ jobs[k].at \in Position
    BY <1>3, <1>5 DEF Typed, JobsTyped, Row
  <2> QED
    BY <2>1, AheadSelf
<1>6. ASSUME NEW k \in Job, Exists(k), ~Exists(k)'
      PROVE  jobs[k].status \in Terminal /\ KeepTerminal <= Cardinality(NewerTerminal(k))
  <2>1. k \in old
    BY <1>1, <1>6 DEF Exists
  <2> QED
    BY <2>1 DEF Prunable
<1> QED
  BY <1>4, <1>5, <1>6 DEF JobsSound, Kept

-----------------------------------------------------------------------------
(* What each action leaves, of the rows and of the run.                    *)

RunsSound == \A r \in Run : RunSound(run[r])
Goes == JobsSound' /\ Kept /\ RunsSound'

LEMMA Statuses ==
    /\ \A s \in Active \cup Terminal : s \notin Gone
    /\ \A j \in Job : jobs[j].status \in Active => Exists(j)
    /\ {"RUNNING", "PAUSED", "CANCELLED", "FINALIZE_RETRY_REQUIRED"} \cup Completed
          \subseteq Active \cup Terminal
BY DEF Active, Terminal, Completed, Gone, Exists

\* A run that ends owes nothing.
LEMMA EndSound == ASSUME OneRun, Typed, NEW r \in Run, End(r) PROVE RunsSound'
<1>1. \A q \in Run : run'[q] = Ended
  BY DEF OneRun, Typed, End
<1>2. Ended.step = "idle"
  BY DEF Ended
<1> QED
  BY <1>1, <1>2 DEF RunsSound, RunSound

\* What holds of a run that stands at a row.
LEMMA AtRow ==
    ASSUME ScanJobAssumption, OneRunInvariant, NEW r \in Run,
           run[r].step \in {"seen", "chunk_ok", "chunk_failed", "ranked", "final"}
    PROVE  LET j == run[r].job IN
           /\ j \in Job /\ Exists(j) /\ run[r].at = jobs[j].at
           /\ Fits(jobs[j].at) /\ Sound(chunks, j, jobs[j].at) /\ Ahead(jobs[j].at, jobs[j].at)
<1>1. run[r].job \in Job /\ Fits(jobs[run[r].job].at) /\ RunSound(run[r])
  BY RunFields DEF OneRunInvariant
<1>2. Exists(run[r].job) /\ run[r].at = jobs[run[r].job].at
  BY <1>1 DEF RunSound
<1>3. Sound(chunks, run[r].job, jobs[run[r].job].at)
  BY <1>1, <1>2 DEF OneRunInvariant, JobsSound
<1> QED
  BY <1>1, <1>2, <1>3, AheadSelf DEF Fits

\* The new state of the only run.
LEMMA OnlyRun ==
    ASSUME OneRun, Typed, NEW r \in Run, NEW y, run' = [run EXCEPT ![r] = y]
    PROVE  \A q \in Run : run'[q] = y
BY DEF OneRun, Typed

LEMMA SeeJobSound ==
    ASSUME ScanJobAssumption, OneRun, OneRunInvariant, NEW r \in Run, SeeJob(r) PROVE Goes
<1>1. PICK j \in Job :
         /\ jobs[j].status \in Active
         /\ run' = [run EXCEPT ![r] = [Ended EXCEPT !.step = "seen", !.job = j, !.at = jobs[j].at]]
  BY Zenon DEF SeeJob
<1> DEFINE y == [Ended EXCEPT !.step = "seen", !.job = j, !.at = jobs[j].at]
<1>2. \A q \in Run : run'[q] = y
  <2> HIDE DEF y
  <2> QED
    BY <1>1, OnlyRun DEF y, OneRunInvariant
<1>3. y.step = "seen" /\ y.job = j /\ y.at = jobs[j].at
  BY DEF Ended
<1>4. UNCHANGED <<jobs, newer, chunks>> /\ Exists(j)
  BY <1>1, Statuses DEF SeeJob
<1>5. RunsSound'
  <2> HIDE DEF y
  <2> QED
    BY <1>2, <1>3, <1>4 DEF RunsSound, RunSound, Exists
<1> QED
  BY <1>4, <1>5, IdleKept DEF Goes, OneRunInvariant, JobsSound, Exists

LEMMA ClickSound ==
    ASSUME ScanJobAssumption, OneRun, OneRunInvariant, NEW r \in Run,
           Pause(r) \/ Cancel(r) \/ PauseForRetry(r)
    PROVE  Goes
<1> DEFINE j == run[r].job
<1>1. run[r].step \in {"seen", "chunk_failed"}
  BY DEF Pause, Cancel, PauseForRetry
<1>2. j \in Job /\ Sound(chunks, j, jobs[j].at) /\ Ahead(jobs[j].at, jobs[j].at)
  BY <1>1, AtRow
<1>3. PICK status \in {"PAUSED", "CANCELLED"} :
         (Patch(j, status, jobs[j].at) \/ PatchFails(j, status)) /\ End(r) /\ UNCHANGED chunks
  BY DEF Pause, Cancel, PauseForRetry
<1>4. JobsSound' /\ Kept
  <2>1. status \in Active \cup Terminal
    BY Statuses
  <2> HIDE DEF j
  <2> QED
    BY <1>2, <1>3, <2>1, PatchSound DEF OneRunInvariant
<1> QED
  BY <1>3, <1>4, EndSound DEF Goes, OneRunInvariant

LEMMA ResumeSound ==
    ASSUME ScanJobAssumption, OneRun, OneRunInvariant, NEW r \in Run, Resume(r) PROVE Goes
<1>0. PICK j, at : j = run[r].job /\ at = jobs[j].at
  OBVIOUS
<1> DEFINE x == run[r]
           y == [x EXCEPT !.at = at]
<1>1. j \in Job /\ Sound(chunks, j, at) /\ Ahead(at, at) /\ x \in RunState /\ x.step = "seen"
  BY <1>0, AtRow, RunFields DEF Resume, OneRunInvariant
<1>2. Patch(j, "RUNNING", at) /\ UNCHANGED chunks
  BY <1>0 DEF Resume
<1>3. JobsSound' /\ Kept
  <2>1. "RUNNING" \in Active \cup Terminal
    BY Statuses
  <2> QED
    BY <1>0, <1>1, <1>2, <2>1, PatchSound DEF OneRunInvariant
<1>4. Exists(j)' /\ jobs'[j].at = at
  <2> DEFINE row == [status |-> "RUNNING", at |-> at]
  <2>1. jobs' = [jobs EXCEPT ![j] = row] /\ row.status \notin Gone /\ row.at = at
    BY <1>2 DEF Patch, Gone
  <2>2. jobs'[j] = row
    <3> HIDE DEF row
    <3> QED
      BY <1>1, <2>1 DEF OneRunInvariant, Typed, JobsTyped
  <2> HIDE DEF row
  <2> QED
    BY <2>1, <2>2 DEF Exists
<1>5. y.step = "seen" /\ y.job = j /\ y.at = at
  <2> HIDE DEF x
  <2> QED
    BY <1>0, <1>1, RunFields DEF RunState, x, OneRunInvariant
<1>6. \A q \in Run : run'[q] = y
  <2>1. run' = [run EXCEPT ![r] = y]
    BY <1>0 DEF Resume
  <2> HIDE DEF y
  <2> QED
    BY <2>1, OnlyRun DEF OneRunInvariant
<1>7. RunsSound'
  <2>1. \A q \in Run : run'[q].step = "seen" /\ run'[q].job = j /\ run'[q].at = at
    BY <1>5, <1>6
  <2> QED
    BY <1>4, <2>1 DEF RunsSound, RunSound
<1> QED
  BY <1>3, <1>7 DEF Goes

LEMMA CrashSound ==
    ASSUME ScanJobAssumption, OneRun, OneRunInvariant, NEW r \in Run, Crash(r) PROVE Goes
BY EndSound, IdleKept DEF Crash, Goes, OneRunInvariant, JobsSound, Exists

LEMMA StartScanSound ==
    ASSUME ScanJobAssumption, OneRun, OneRunInvariant, NEW r \in Run, StartScan(r) PROVE Goes
<1>1. PICK j \in Job :
         /\ jobs[j].status = "UNUSED"
         /\ run' = [run EXCEPT ![r] = [Ended EXCEPT !.step = "create_delete", !.job = j, !.old = Prunable({j})]]
  BY Zenon DEF StartScan
<1>2. PICK old : old = Prunable({j})
  OBVIOUS
<1> DEFINE y == [Ended EXCEPT !.step = "create_delete", !.job = j, !.old = old]
<1>3. \A q \in Run : run'[q] = y
  <2>1. run' = [run EXCEPT ![r] = y]
    BY <1>1, <1>2
  <2> HIDE DEF y
  <2> QED
    BY <2>1, OnlyRun DEF OneRunInvariant
<1>4. y.step = "create_delete" /\ y.job = j /\ y.old = old
  BY DEF Ended
<1>5. UNCHANGED <<jobs, newer, chunks>>
  BY DEF StartScan
<1>6. jobs'[j].status = "UNUSED" /\ Prunable({j})' = old
  BY <1>1, <1>2, <1>5 DEF Prunable, NewerTerminal
<1>7. RunsSound'
  <2> HIDE DEF y
  <2> QED
    BY <1>3, <1>4, <1>6 DEF RunsSound, RunSound
<1> QED
  BY <1>5, <1>7, IdleKept DEF Goes, OneRunInvariant, JobsSound, Exists

LEMMA PruneBeforeCreateSound ==
    ASSUME ScanJobAssumption, OneRun, OneRunInvariant, NEW r \in Run, PruneBeforeCreate(r) PROVE Goes
<1>0. PICK j, old : j = run[r].job /\ old = run[r].old
  OBVIOUS
<1>1. j \in Job /\ jobs[j].status = "UNUSED" /\ old \subseteq Prunable({j}) /\ DeleteJobs(old)
  BY <1>0, RunFields DEF PruneBeforeCreate, OneRunInvariant, RunSound
<1>2. JobsSound' /\ Kept
  BY <1>1, DeleteSound DEF OneRunInvariant
<1>3. jobs'[j].status = "UNUSED"
  <2>1. ~Exists(j)
    BY <1>1 DEF Exists, Gone
  <2> QED
    BY <1>1, <2>1 DEF DeleteJobs
<1> DEFINE x == run[r]
           y == [x EXCEPT !.step = "create_post", !.old = {}]
<1>4. y.step = "create_post" /\ y.job = j
  <2>1. x \in RunState /\ x.job = j
    BY <1>0, RunFields DEF OneRunInvariant
  <2> HIDE DEF x
  <2> QED
    BY <2>1 DEF RunState
<1>5. \A q \in Run : run'[q] = y
  <2>1. run' = [run EXCEPT ![r] = y]
    BY DEF PruneBeforeCreate
  <2> HIDE DEF y
  <2> QED
    BY <2>1, OnlyRun DEF OneRunInvariant
<1>6. RunsSound'
  <2>1. \A q \in Run : run'[q].step = "create_post" /\ run'[q].job = j
    BY <1>4, <1>5
  <2> QED
    BY <1>3, <2>1 DEF RunsSound, RunSound
<1> QED
  BY <1>2, <1>6 DEF Goes

\* A new row claims nothing.
LEMMA StartSound == ASSUME ScanJobAssumption, NEW C, NEW j PROVE Sound(C, j, Start)
<1>1. Start.stage = "BENCHMARK" /\ Start.offset = 0 /\ Start.shortlist = <<>> /\ Start.processed = 0
  BY DEF Start
<1>2. ASSUME NEW s \in DeepStages \cup {"OHLCV"}, NEW i
      PROVE  ~Behind(Start, s, i)
  <2>1. s \in AllDeepStages \cup {"OHLCV"}
    BY DEF ScanJobAssumption
  <2>2. StageNo[s] \in 2..7 /\ StageNo["BENCHMARK"] = 1 /\ s # "BENCHMARK"
    BY <2>1, StageNumbers DEF AllDeepStages
  <2> QED
    BY <1>1, <2>2 DEF Behind
<1>3. Counted(Start)
  BY <1>1 DEF Counted
<1> QED
  BY <1>1, <1>2, <1>3 DEF Sound, DoneIn

LEMMA CreateSound ==
    ASSUME ScanJobAssumption, OneRun, OneRunInvariant, NEW r \in Run, Create(r) PROVE Goes
<1>0. PICK j : j = run[r].job
  OBVIOUS
<1>1. j \in Job /\ ~Exists(j) /\ run[r].step = "create_post"
  BY <1>0, RunFields DEF Create, OneRunInvariant, RunSound, Exists, Gone
<1>2. UNCHANGED chunks /\ End(r)
  BY DEF Create
<1> DEFINE row == [status |-> "CREATED", at |-> Start]
<1>3. UNCHANGED jobs \/ jobs' = [jobs EXCEPT ![j] = row]
  BY <1>0 DEF Create
<1> SUFFICES JobsSound' /\ Kept
  BY <1>2, EndSound DEF Goes, OneRunInvariant
<1>4. CASE UNCHANGED jobs
  BY <1>2, <1>4, IdleKept DEF OneRunInvariant, JobsSound, Exists
<1>5. CASE jobs' = [jobs EXCEPT ![j] = row]
  <2>1. row.at = Start
    OBVIOUS
  <2>2. ASSUME NEW k \in Job, k # j
        PROVE  jobs'[k] = jobs[k] /\ jobs[k].at \in Position
    <3> HIDE DEF row
    <3> QED
      BY <1>5, <2>2 DEF OneRunInvariant, Typed, JobsTyped, Row
  <2>3. jobs'[j].at = Start
    <3> HIDE DEF row
    <3> QED
      BY <1>1, <1>5, <2>1 DEF OneRunInvariant, Typed, JobsTyped
  <2>4. ASSUME NEW k \in Job
        PROVE  /\ Exists(k)' => Sound(chunks, k, jobs'[k].at)
               /\ Exists(k) => Exists(k)' /\ Ahead(jobs[k].at, jobs'[k].at)
    <3>1. CASE k = j
      BY <1>1, <2>3, <3>1, StartSound
    <3>2. CASE k # j
      BY <2>2, <3>2, AheadSelf DEF OneRunInvariant, JobsSound, Exists
    <3> QED
      BY <3>1, <3>2
  <2> QED
    BY <1>2, <2>4 DEF JobsSound, Kept
<1> QED
  BY <1>3, <1>4, <1>5

\* The chunk on record has the next number, and after an unfailing commit the run knows it.
LEMMA ProcessChunkSound ==
    ASSUME ScanJobAssumption, OneRun, OneRunInvariant, NEW r \in Run, NEW ok \in BOOLEAN,
           ProcessChunk(r, ok)
    PROVE  Goes
<1>0. PICK j, at : j = run[r].job /\ at = run[r].at
  OBVIOUS
<1>1. /\ j \in Job /\ Exists(j) /\ at = jobs[j].at /\ Fits(at) /\ at.stage \in CacheStages
      /\ run[r] \in RunState
  BY <1>0, AtRow, RunFields DEF ProcessChunk, OneRunInvariant
<1>2. PICK tickers : tickers = IF at.stage = "BENCHMARK" THEN {}
                               ELSE NextChunk(Items(at.stage, at.shortlist), at.offset)
  OBVIOUS
<1> DEFINE d == ChunkOf(r, tickers, ok)
<1>3. RecordChunk(d)
  BY <1>0, <1>2 DEF ProcessChunk
<1>4. /\ d.job = j /\ d.stage = at.stage /\ d.no = at.chunk + 1 /\ d.tickers = tickers /\ d.ok = ok
      /\ d \in chunks'
  BY <1>0, <1>3 DEF ChunkOf, RecordChunk
<1>5. UNCHANGED <<jobs, newer>>
  BY DEF ProcessChunk
<1>6. JobsSound'
  <2> HIDE DEF d
  <2> QED
    BY <1>1, <1>3, <1>4, <1>5, RecordSound DEF OneRunInvariant
<1> DEFINE x == run[r]
           step == IF ok THEN "chunk_ok" ELSE "chunk_failed"
           y == [x EXCEPT !.step = step]
<1>7. y.step = step /\ y.job = j /\ y.at = at
  <2>1. x \in RunState /\ x.job = j /\ x.at = at
    BY <1>0, <1>1
  <2> HIDE DEF x, step
  <2> QED
    BY <2>1 DEF RunState
<1>8. \A q \in Run : run'[q] = y
  <2>1. run' = [run EXCEPT ![r] = y]
    BY DEF ProcessChunk
  <2> HIDE DEF y
  <2> QED
    BY <2>1, OnlyRun DEF OneRunInvariant
<1>9. ASSUME NEW q \in Run PROVE RunSound(run[q])'
  <2>1. run'[q].step = step /\ run'[q].job = j /\ run'[q].at = at
    <3> HIDE DEF y, step
    <3> QED
      BY <1>7, <1>8
  <2>2. step \in {"chunk_ok", "chunk_failed"} /\ (step = "chunk_ok" => ok)
    <3>1. CASE ok
      BY <3>1
    <3>2. CASE ~ok
      BY <3>2
    <3> QED
      BY <3>1, <3>2
  <2>3. Exists(j)' /\ at = jobs'[j].at
    BY <1>1, <1>5 DEF Exists
  <2>4. step = "chunk_ok" /\ at.stage # "BENCHMARK" => Committed(chunks', j, at)
    <3> HIDE DEF d, step
    <3> QED
      BY <1>2, <1>4, <2>2 DEF Committed
  <2>5. PICK z : z = run'[q]
    OBVIOUS
  <2>6. /\ z.step \in {"chunk_ok", "chunk_failed"} /\ Exists(z.job)' /\ z.at = jobs'[z.job].at
        /\ z.step = "chunk_ok" /\ z.at.stage # "BENCHMARK" => Committed(chunks', z.job, z.at)
    <3> HIDE DEF step
    <3> QED
      BY <2>1, <2>2, <2>3, <2>4, <2>5
  <2> QED
    BY <2>5, <2>6 DEF RunSound
<1> QED
  BY <1>5, <1>6, <1>9, IdleKept DEF Goes, OneRunInvariant, RunsSound

LEMMA CommitChunkSound ==
    ASSUME ScanJobAssumption, OneRun, OneRunInvariant, NEW r \in Run, CommitChunk(r) PROVE Goes
<1>0. PICK j, at : j = run[r].job /\ at = run[r].at
  OBVIOUS
<1>1. /\ j \in Job /\ Exists(j) /\ at = jobs[j].at /\ Fits(at) /\ at.stage \in CacheStages
      /\ Sound(chunks, j, at) /\ (at.stage # "BENCHMARK" => Committed(chunks, j, at))
  BY <1>0, AtRow, RunFields DEF CommitChunk, OneRunInvariant, RunSound
<1> DEFINE x == AfterChunk(at)
           new == [x EXCEPT !.shortlist = at.shortlist]
<1>2. /\ new.stage = x.stage /\ new.offset = x.offset /\ new.chunk = x.chunk
      /\ new.processed = x.processed /\ new.shortlist = at.shortlist
  <2>1. x \in Position
    BY <1>1, AfterChunkFields DEF Fits
  <2> HIDE DEF x
  <2> QED
    BY <2>1 DEF Position
<1>3. \A c \in chunks : c.no \in Nat
  BY DEF OneRunInvariant, Typed, Chunk
<1>4. Sound(chunks, j, new) /\ Ahead(at, new)
  <2> HIDE DEF new
  <2> QED
    BY <1>1, <1>2, <1>3, CommitSound
<1>5. (Patch(j, "RUNNING", new) \/ PatchFails(j, "RUNNING")) /\ End(r) /\ UNCHANGED chunks
  BY <1>0, <1>1 DEF CommitChunk
<1>6. JobsSound' /\ Kept
  <2>1. "RUNNING" \in Active \cup Terminal
    BY Statuses
  <2> HIDE DEF new
  <2> QED
    BY <1>1, <1>4, <1>5, <2>1, PatchSound DEF OneRunInvariant
<1> QED
  BY <1>5, <1>6, EndSound DEF Goes, OneRunInvariant

\* FAST_RANKING's own chunk, and the list the run holds.
LEMMA RankActionSound ==
    ASSUME ScanJobAssumption, OneRun, OneRunInvariant, NEW r \in Run, Rank(r) PROVE Goes
<1>0. PICK j, at : j = run[r].job /\ at = run[r].at
  OBVIOUS
<1>1. /\ j \in Job /\ Exists(j) /\ at = jobs[j].at /\ at.stage = "FAST_RANKING"
      /\ run[r] \in RunState
  BY <1>0, AtRow, RunFields DEF Rank, OneRunInvariant
<1> DEFINE d == ChunkOf(r, {Universe[i] : i \in DOMAIN Universe}, TRUE)
<1>2. RecordChunk(d) /\ UNCHANGED <<jobs, newer>>
  BY DEF Rank
<1>3. d.job = j /\ d.no = at.chunk + 1
  BY <1>0 DEF ChunkOf
<1>4. JobsSound'
  <2> HIDE DEF d
  <2> QED
    BY <1>1, <1>2, <1>3, RecordSound DEF OneRunInvariant
<1>5. PICK list \in Shortlists : run' = [run EXCEPT ![r].step = "ranked", ![r].list = list]
  BY DEF Rank
<1> DEFINE x == run[r]
           y == [x EXCEPT !.step = "ranked", !.list = list]
<1>6. y.step = "ranked" /\ y.job = j /\ y.at = at
  <2>1. x \in RunState /\ x.job = j /\ x.at = at
    BY <1>0, <1>1
  <2> HIDE DEF x
  <2> QED
    BY <2>1 DEF RunState
<1>7. \A q \in Run : run'[q] = y
  <2>1. run' = [run EXCEPT ![r] = y]
    BY <1>5
  <2> HIDE DEF y
  <2> QED
    BY <2>1, OnlyRun DEF OneRunInvariant
<1>8. RunsSound'
  <2>1. \A q \in Run : run'[q].step = "ranked" /\ run'[q].job = j /\ run'[q].at = at
    BY <1>6, <1>7
  <2> QED
    BY <1>1, <1>2, <2>1 DEF RunsSound, RunSound, Exists
<1> QED
  BY <1>2, <1>4, <1>8, IdleKept DEF Goes, OneRunInvariant

LEMMA CommitRankingSound ==
    ASSUME ScanJobAssumption, OneRun, OneRunInvariant, NEW r \in Run, CommitRanking(r) PROVE Goes
<1>0. PICK j, at, list : j = run[r].job /\ at = run[r].at /\ list = run[r].list
  OBVIOUS
<1>1. /\ j \in Job /\ Exists(j) /\ at = jobs[j].at /\ Fits(at) /\ at.stage = "FAST_RANKING"
      /\ Sound(chunks, j, at) /\ list \in Choices
  BY <1>0, AtRow, RunFields DEF CommitRanking, OneRunInvariant, RunSound
<1> DEFINE x == AfterRanking(at, list)
           new == [x EXCEPT !.processed = at.processed]
<1>2. /\ new.stage = NextDeepStage("FAST_RANKING", list) /\ new.offset = 0 /\ new.chunk = at.chunk + 1
      /\ new.processed = at.processed /\ new.shortlist = list
  <2>1. /\ x \in Position /\ x.shortlist = list /\ x.chunk = at.chunk + 1 /\ x.offset = 0
        /\ x.stage = NextDeepStage("FAST_RANKING", list)
    BY <1>1, AfterRankingFields DEF Fits
  <2> HIDE DEF x
  <2> QED
    BY <2>1 DEF Position
<1>3. \A c \in chunks : c.no \in Nat
  BY DEF OneRunInvariant, Typed, Chunk
<1>4. Sound(chunks, j, new) /\ Ahead(at, new)
  <2> HIDE DEF new
  <2> QED
    BY <1>1, <1>2, <1>3, RankSound
<1>5. (Patch(j, "RUNNING", new) \/ PatchFails(j, "RUNNING")) /\ End(r) /\ UNCHANGED chunks
  BY <1>0, <1>1 DEF CommitRanking
<1>6. JobsSound' /\ Kept
  <2>1. "RUNNING" \in Active \cup Terminal
    BY Statuses
  <2> HIDE DEF new
  <2> QED
    BY <1>1, <1>4, <1>5, <2>1, PatchSound DEF OneRunInvariant
<1> QED
  BY <1>5, <1>6, EndSound DEF Goes, OneRunInvariant

LEMMA BeginFinalSound ==
    ASSUME ScanJobAssumption, OneRun, OneRunInvariant, NEW r \in Run, BeginFinal(r) PROVE Goes
<1>0. PICK j, at : j = run[r].job /\ at = run[r].at
  OBVIOUS
<1>1. Exists(j) /\ at = jobs[j].at /\ at.stage = "FINALIZE" /\ run[r] \in RunState
  BY <1>0, AtRow, RunFields DEF BeginFinal, OneRunInvariant
<1> DEFINE x == run[r]
           y == [x EXCEPT !.step = "final"]
<1>2. y.step = "final" /\ y.job = j /\ y.at = at
  <2>1. x \in RunState /\ x.job = j /\ x.at = at
    BY <1>0, <1>1
  <2> HIDE DEF x
  <2> QED
    BY <2>1 DEF RunState
<1>3. \A q \in Run : run'[q] = y
  <2>1. run' = [run EXCEPT ![r] = y]
    BY DEF BeginFinal
  <2> HIDE DEF y
  <2> QED
    BY <2>1, OnlyRun DEF OneRunInvariant
<1>4. UNCHANGED <<jobs, newer, chunks>>
  BY DEF BeginFinal
<1>5. RunsSound'
  <2>1. \A q \in Run : run'[q].step = "final" /\ run'[q].job = j /\ run'[q].at = at
    BY <1>2, <1>3
  <2> QED
    BY <1>1, <1>4, <2>1 DEF RunsSound, RunSound, Exists
<1> QED
  BY <1>4, <1>5, IdleKept DEF Goes, OneRunInvariant, JobsSound, Exists

LEMMA HeartbeatSound ==
    ASSUME ScanJobAssumption, OneRun, OneRunInvariant, NEW r \in Run, Heartbeat(r) PROVE Goes
<1>0. PICK j, at : j = run[r].job /\ at = run[r].at
  OBVIOUS
<1>1. /\ j \in Job /\ Exists(j) /\ at = jobs[j].at /\ Fits(at) /\ at.stage = "FINALIZE"
      /\ run[r].step = "final" /\ Sound(chunks, j, at) /\ run[r] \in RunState
  BY <1>0, AtRow, RunFields DEF Heartbeat, OneRunInvariant, RunSound
<1> DEFINE new == [at EXCEPT !.stage = "FINALIZE"]
<1>2. new = at
  BY <1>1 DEF Fits, Position
<1>3. Patch(j, "RUNNING", at) \/ UNCHANGED <<jobs, newer>>
  BY <1>0, <1>1, <1>2 DEF Heartbeat
<1>4. Ahead(at, at) /\ UNCHANGED chunks
  BY <1>1, AheadSelf DEF Fits, Heartbeat
<1>5. JobsSound' /\ Kept
  <2>1. CASE Patch(j, "RUNNING", at)
    <3>1. "RUNNING" \in Active \cup Terminal
      BY Statuses
    <3> QED
      BY <1>1, <1>4, <2>1, <3>1, PatchSound DEF OneRunInvariant
  <2>2. CASE UNCHANGED <<jobs, newer>>
    BY <1>4, <2>2, IdleKept DEF OneRunInvariant, JobsSound, Exists
  <2> QED
    BY <1>3, <2>1, <2>2
<1>6. Exists(j)' /\ jobs'[j].at = at
  <2>1. CASE Patch(j, "RUNNING", at)
    <3> DEFINE row == [status |-> "RUNNING", at |-> at]
    <3>1. jobs' = [jobs EXCEPT ![j] = row] /\ row.status \notin Gone /\ row.at = at
      BY <2>1 DEF Patch, Gone
    <3> HIDE DEF row
    <3> QED
      BY <1>1, <3>1 DEF OneRunInvariant, Typed, JobsTyped, Exists
  <2>2. CASE UNCHANGED <<jobs, newer>>
    BY <1>1, <2>2 DEF Exists
  <2> QED
    BY <1>3, <2>1, <2>2
<1> DEFINE x == run[r]
           n == x.beat + 1
           y == [x EXCEPT !.beat = n]
<1>7. y.step = "final" /\ y.job = j /\ y.at = at
  <2>1. x \in RunState /\ x.job = j /\ x.at = at /\ x.step = "final"
    BY <1>0, <1>1
  <2> HIDE DEF x, n
  <2> QED
    BY <2>1 DEF RunState
<1>8. \A q \in Run : run'[q] = y
  <2>1. run' = [run EXCEPT ![r] = y]
    BY DEF Heartbeat
  <2> HIDE DEF y
  <2> QED
    BY <2>1, OnlyRun DEF OneRunInvariant
<1>9. RunsSound'
  <2>1. \A q \in Run : run'[q].step = "final" /\ run'[q].job = j /\ run'[q].at = at
    BY <1>7, <1>8
  <2> QED
    BY <1>1, <1>6, <2>1 DEF RunsSound, RunSound
<1> QED
  BY <1>5, <1>9 DEF Goes

LEMMA CommitFinalSound ==
    ASSUME ScanJobAssumption, OneRun, OneRunInvariant, NEW r \in Run, CommitFinal(r) PROVE Goes
<1>0. PICK j, at : j = run[r].job /\ at = run[r].at
  OBVIOUS
<1>1. /\ j \in Job /\ Exists(j) /\ at = jobs[j].at /\ Fits(at) /\ at.stage = "FINALIZE"
      /\ Sound(chunks, j, at)
  BY <1>0, AtRow, RunFields DEF CommitFinal, OneRunInvariant, RunSound
<1>2. PICK status \in Completed \cup {"FINALIZE_RETRY_REQUIRED"} :
         \/ /\ Patch(run[r].job, status,
                     [jobs[run[r].job].at EXCEPT
                         !.stage = IF status \in Completed THEN "COMPLETED" ELSE "FINALIZE",
                         !.offset = 0])
            /\ run' = [run EXCEPT ![r].step = "prune"]
         \/ /\ PatchFails(run[r].job, status)
            /\ IF Exists(run[r].job) THEN End(r) ELSE run' = [run EXCEPT ![r].step = "prune"]
  BY Zenon DEF CommitFinal
<1>3. PICK stage : stage = IF status \in Completed THEN "COMPLETED" ELSE "FINALIZE"
  OBVIOUS
<1> DEFINE new == [at EXCEPT !.stage = stage, !.offset = 0]
<1>4. /\ new.stage = stage /\ new.offset = 0 /\ new.chunk = at.chunk
      /\ new.processed = at.processed /\ new.shortlist = at.shortlist
  BY <1>1 DEF Fits, Position
<1>5. Sound(chunks, j, new) /\ Ahead(at, new)
  <2>1. stage \in {"FINALIZE", "COMPLETED"}
    BY <1>3
  <2> HIDE DEF new
  <2> QED
    BY <1>1, <1>4, <2>1, FinalSound
<1>6. (Patch(j, status, new) \/ PatchFails(j, status)) /\ UNCHANGED chunks
  BY <1>0, <1>1, <1>2, <1>3 DEF CommitFinal
<1>7. JobsSound' /\ Kept
  <2>1. status \in Active \cup Terminal
    BY Statuses
  <2> HIDE DEF new
  <2> QED
    BY <1>1, <1>5, <1>6, <2>1, PatchSound DEF OneRunInvariant
<1>8. RunsSound'
  <2>1. End(r) \/ run' = [run EXCEPT ![r].step = "prune"]
    BY <1>2
  <2>2. CASE End(r)
    BY <2>2, EndSound DEF OneRunInvariant
  <2>3. CASE run' = [run EXCEPT ![r].step = "prune"]
    <3> DEFINE x == run[r]
               y == [x EXCEPT !.step = "prune"]
    <3>1. y.step = "prune"
      <4>1. x \in RunState
        BY RunFields DEF OneRunInvariant
      <4> HIDE DEF x
      <4> QED
        BY <4>1 DEF RunState
    <3>2. \A q \in Run : run'[q] = y
      <4>1. run' = [run EXCEPT ![r] = y]
        BY <2>3
      <4> HIDE DEF y
      <4> QED
        BY <4>1, OnlyRun DEF OneRunInvariant
    <3>3. \A q \in Run : run'[q].step = "prune"
      BY <3>1, <3>2
    <3> QED
      BY <3>3 DEF RunsSound, RunSound
  <2> QED
    BY <2>1, <2>2, <2>3
<1> QED
  BY <1>7, <1>8 DEF Goes

LEMMA PruneListSound ==
    ASSUME ScanJobAssumption, OneRun, OneRunInvariant, NEW r \in Run, PruneList(r) PROVE Goes
<1>0. PICK j, old : j = run[r].job /\ old = Prunable({j})
  OBVIOUS
<1> DEFINE x == run[r]
           y == [x EXCEPT !.step = "prune_delete", !.old = old]
<1>1. y.step = "prune_delete" /\ y.job = j /\ y.old = old
  <2>1. x \in RunState /\ x.job = j
    BY <1>0, RunFields DEF OneRunInvariant
  <2> HIDE DEF x
  <2> QED
    BY <2>1 DEF RunState
<1>2. \A q \in Run : run'[q] = y
  <2>1. run' = [run EXCEPT ![r] = y]
    BY <1>0 DEF PruneList
  <2> HIDE DEF y
  <2> QED
    BY <2>1, OnlyRun DEF OneRunInvariant
<1>3. UNCHANGED <<jobs, newer, chunks>>
  BY DEF PruneList
<1>4. Prunable({j})' = old
  BY <1>0, <1>3 DEF Prunable, NewerTerminal
<1>5. RunsSound'
  <2>1. \A q \in Run : run'[q].step = "prune_delete" /\ run'[q].job = j /\ run'[q].old = old
    BY <1>1, <1>2
  <2> QED
    BY <1>4, <2>1 DEF RunsSound, RunSound
<1> QED
  BY <1>3, <1>5, IdleKept DEF Goes, OneRunInvariant, JobsSound, Exists

LEMMA PruneDeleteSound ==
    ASSUME ScanJobAssumption, OneRun, OneRunInvariant, NEW r \in Run, PruneDelete(r) PROVE Goes
<1>1. run[r].old \subseteq Prunable({run[r].job}) /\ DeleteJobs(run[r].old)
  BY DEF PruneDelete, OneRunInvariant, RunSound
<1>2. JobsSound' /\ Kept
  BY <1>1, DeleteSound DEF OneRunInvariant
<1> QED
  BY <1>2, EndSound DEF PruneDelete, Goes, OneRunInvariant

-----------------------------------------------------------------------------
(* The specification.                                                      *)

LEMMA OneRunStart == ScanJobAssumption /\ Init => OneRunInvariant
<1> SUFFICES ASSUME ScanJobAssumption, Init PROVE OneRunInvariant
  OBVIOUS
<1>1. \A j \in Job : ~Exists(j)
  BY DEF Init, Exists, Gone
<1>2. \A r \in Run : run[r].step = "idle"
  BY DEF Init, Ended
<1> QED
  BY <1>1, <1>2, TypedStart DEF OneRunInvariant, JobsSound, RunSound

LEMMA OneRunStep ==
    ASSUME ScanJobAssumption, OneRun, OneRunInvariant, [Next]_vars
    PROVE  OneRunInvariant' /\ Kept
<1>1. CASE UNCHANGED vars
  <2>1. Kept
    BY <1>1, IdleKept DEF OneRunInvariant, vars
  <2>2. jobs' = jobs /\ newer' = newer /\ chunks' = chunks /\ run' = run
    BY <1>1 DEF vars
  <2>3. JobsSound'
    BY <2>2 DEF OneRunInvariant, JobsSound, Exists
  <2>4. \A j : Exists(j)' = Exists(j) /\ Prunable({j})' = Prunable({j})
    BY <2>2 DEF Exists, Prunable, NewerTerminal
  <2>5. RunsSound'
    BY <2>2, <2>4 DEF OneRunInvariant, RunsSound, RunSound
  <2> QED
    BY <2>1, <2>3, <2>5, TypedStep DEF OneRunInvariant, RunsSound
<1>2. ASSUME NEW r \in Run,
             \/ SeeJob(r) \/ Pause(r) \/ Resume(r) \/ Cancel(r) \/ Crash(r)
             \/ StartScan(r) \/ PruneBeforeCreate(r) \/ Create(r)
      PROVE  Goes
  BY <1>2, SeeJobSound, ClickSound, ResumeSound, CrashSound, StartScanSound,
     PruneBeforeCreateSound, CreateSound
<1>3. ASSUME NEW r \in Run,
             \/ \E ok \in BOOLEAN : ProcessChunk(r, ok)
             \/ CommitChunk(r) \/ PauseForRetry(r) \/ Rank(r) \/ CommitRanking(r)
      PROVE  Goes
  BY <1>3, ProcessChunkSound, CommitChunkSound, ClickSound, RankActionSound, CommitRankingSound
<1>4. ASSUME NEW r \in Run,
             BeginFinal(r) \/ Heartbeat(r) \/ CommitFinal(r) \/ PruneList(r) \/ PruneDelete(r)
      PROVE  Goes
  BY <1>4, BeginFinalSound, HeartbeatSound, CommitFinalSound, PruneListSound, PruneDeleteSound
<1>5. CASE Next
  <2>1. Goes
    BY <1>2, <1>3, <1>4, <1>5 DEF Next
  <2> QED
    BY <2>1, TypedStep DEF Goes, OneRunInvariant, RunsSound
<1> QED
  BY <1>1, <1>5

LEMMA AlwaysOneRun == ASSUME OneRun PROVE Spec => [](OneRunInvariant) /\ [][Kept]_vars
<1>1. Init => OneRunInvariant
  BY ScanJobAssumption, OneRunStart
<1>2. OneRunInvariant /\ [Next]_vars => OneRunInvariant' /\ [Kept]_vars
  BY ScanJobAssumption, OneRunStep
<1> QED
  BY <1>1, <1>2, PTL DEF Spec

\* A failed cache commit, a crash, a pause or a retry never lets the stored checkpoint
\* pass a ticker whose chunk is not on record as committed.
THEOREM NothingIsLost == ASSUME OneRun PROVE Spec => []NothingLost
<1>1. OneRunInvariant => NothingLost
  BY DEF OneRunInvariant, JobsSound, Sound, DoneIn, WorkedIn, NothingLost, Worked
<1> QED
  BY <1>1, AlwaysOneRun, PTL

\* processed_tickers, summed up over checkpoints, is the number of tickers behind the
\* checkpoint, if no ticker stands twice in the universe.
THEOREM ProcessedIsOffset == ASSUME OneRun, NoRepeats PROVE Spec => []ProcessedMatchesOffset
<1>1. OneRunInvariant => ProcessedMatchesOffset
  BY DEF OneRunInvariant, JobsSound, Sound, Counted, ProcessedMatchesOffset
<1> QED
  BY <1>1, AlwaysOneRun, PTL

\* No committed checkpoint is ever done again.
THEOREM CheckpointsAdvance == ASSUME OneRun PROVE Spec => ForwardOnly
<1>1. ASSUME Typed, Typed', Kept
      PROVE  \A j \in Job : Exists(j) /\ Exists(j)' =>
                \/ StageNo[jobs'[j].at.stage] > StageNo[jobs[j].at.stage]
                \/ /\ jobs'[j].at.stage = jobs[j].at.stage
                   /\ jobs'[j].at.offset >= jobs[j].at.offset
  BY <1>1 DEF Kept, Ahead
<1>2. OneRunInvariant => Typed
  BY DEF OneRunInvariant
<1> QED
  BY <1>1, <1>2, AlwaysOneRun, PTL DEF ForwardOnly

\* Housekeeping deletes only jobs that have ended, and spares the newest of them.
THEOREM PruneIsSafe == ASSUME OneRun PROVE Spec => PruneSparesTheNewest
<1>1. Kept => \A j \in Job : Exists(j) /\ ~Exists(j)' =>
                /\ jobs[j].status \in Terminal
                /\ KeepTerminal <= Cardinality(NewerTerminal(j))
  BY DEF Kept
<1> QED
  BY <1>1, AlwaysOneRun, PTL DEF PruneSparesTheNewest

-----------------------------------------------------------------------------
(* Runs that overlap.  A run may hold a position long after the row has    *)
(* left it, and its patch takes the row back there.  What makes this       *)
(* harmless: the numbers of the chunks follow from stage and offset, so a  *)
(* chunk done again replaces one with the same tickers, and what is once   *)
(* on record for a job stays until the job is deleted.                     *)

OneList == \A a, b \in Shortlists : a = b
Choice == CHOOSE list \in Shortlists : TRUE

Work == DeepStages \cup {"OHLCV"}
ItemsOf(s) == Items(s, Choice)

\* The last chunk of a stage, counted from 0, and how many it has.
EndsAt(s, k) == k * ChunkSize < Len(ItemsOf(s)) /\ Len(ItemsOf(s)) <= (k + 1) * ChunkSize
LastChunk(s) == CHOOSE k \in Nat : (\E m \in Nat : EndsAt(s, m)) => EndsAt(s, k)
ChunksOf(s) == IF s \in DeepStages THEN LastChunk(s) + 1 ELSE 0

\* How many checkpoints are committed when a stage begins.
AtRanking == LastChunk("OHLCV") + 2
FirstChunk(s) ==
    CASE s = "OHLCV" -> 1
      [] s = "FAST_RANKING" -> AtRanking
      [] s = "KSEI_SHORTLIST" -> AtRanking + 1
      [] s = "NEWS_SHORTLIST" -> AtRanking + 1 + ChunksOf("KSEI_SHORTLIST")
      [] s = "FUNDAMENTAL_SHORTLIST" ->
           AtRanking + 1 + ChunksOf("KSEI_SHORTLIST") + ChunksOf("NEWS_SHORTLIST")
      [] s = "IDX_FUNDAMENTAL_SHORTLIST" ->
           AtRanking + 1 + ChunksOf("KSEI_SHORTLIST") + ChunksOf("NEWS_SHORTLIST")
                         + ChunksOf("FUNDAMENTAL_SHORTLIST")

\* A position as an undisturbed scan passes it, but for the shortlist a row may have already.
OnCourse(at) ==
    /\ at.shortlist \in {<<>>, Choice}
    /\ at.stage = "BENCHMARK" => at.chunk = 0 /\ at.offset = 0
    /\ at.stage = "FAST_RANKING" => at.chunk = AtRanking
    /\ at.stage \in AllDeepStages => at.stage \in DeepStages
    /\ at.stage \in AllDeepStages \cup {"FINALIZE", "COMPLETED"} => at.shortlist = Choice
    /\ at.stage \in Work => \E k \in Nat : /\ at.chunk = FirstChunk(at.stage) + k
                                           /\ at.offset = k * ChunkSize
                                           /\ at.offset < Len(ItemsOf(at.stage))

\* C has, for job j, the chunks of all the work behind the position.
HasBehind(C, j, at) ==
    \A s \in Work : \A i \in DOMAIN ItemsOf(s) :
        Behind(at, s, i) => \E c \in C : c.job = j /\ c.stage = s /\ ItemsOf(s)[i] \in c.tickers

\* The chunk a run has recorded and not yet committed.
HasChunk(C, j, at) ==
    at.stage \in Work =>
        \E c \in C : /\ c.job = j /\ c.stage = at.stage
                     /\ c.tickers = NextChunk(ItemsOf(at.stage), at.offset)

\* The number of a chunk says which tickers are in it.
Numbered(c) ==
    c.stage \in Work => \E k \in Nat : /\ c.no = FirstChunk(c.stage) + k + 1
                                       /\ c.tickers = NextChunk(ItemsOf(c.stage), k * ChunkSize)

LEMMA Multiples == ASSUME NEW a \in Nat, NEW b \in Nat, NEW c \in Nat, a <= b PROVE a * c <= b * c
OBVIOUS

LEMMA NextMultiple == ASSUME NEW a \in Nat, NEW c \in Nat PROVE (a + 1) * c = a * c + c /\ a * c \in Nat
OBVIOUS

LEMMA OneMultiple ==
    ASSUME NEW n \in Nat, NEW a \in Nat, NEW b \in Nat, NEW c \in Nat,
           a * c < n, n <= (a + 1) * c, b * c < n, n <= (b + 1) * c
    PROVE  a = b
<1>1. ASSUME a < b PROVE FALSE
  <2>1. (a + 1) * c <= b * c
    BY <1>1, Multiples
  <2>2. (a + 1) * c \in Nat /\ b * c \in Nat
    OBVIOUS
  <2> QED
    BY <2>1, <2>2
<1>2. ASSUME b < a PROVE FALSE
  <2>1. (b + 1) * c <= a * c
    BY <1>2, Multiples
  <2>2. (b + 1) * c \in Nat /\ a * c \in Nat
    OBVIOUS
  <2> QED
    BY <2>1, <2>2
<1> QED
  BY <1>1, <1>2

LEMMA TheChoice ==
    ASSUME ScanJobAssumption
    PROVE  /\ Choice \in Shortlists /\ Choice \in Choices
           /\ OneList => \A list \in Shortlists : list = Choice
BY DEF ScanJobAssumption, Choice, Choices, OneList

LEMMA WorkTypes ==
    ASSUME ScanJobAssumption
    PROVE  /\ Work \subseteq Stages /\ Work \subseteq AllDeepStages \cup {"OHLCV"}
           /\ "OHLCV" \in Work /\ DeepStages \subseteq AllDeepStages
           /\ \A s \in Stages : ItemsOf(s) \in Seq(Ticker) /\ Len(ItemsOf(s)) \in Nat
           /\ ItemsOf("OHLCV") = Universe /\ Len(Universe) > 0 /\ Len(Universe) \in Nat
           /\ Choice # <<>> => \A s \in Work : Len(ItemsOf(s)) > 0
           /\ Choice = <<>> => \A s \in DeepStages : DOMAIN ItemsOf(s) = {}
           /\ ChunkSize \in Nat /\ ChunkSize > 0
<1>1. /\ Work \subseteq Stages /\ Work \subseteq AllDeepStages \cup {"OHLCV"}
      /\ "OHLCV" \in Work /\ DeepStages \subseteq AllDeepStages /\ ChunkSize \in Nat /\ ChunkSize > 0
  BY DEF ScanJobAssumption, Work, Stages, CacheStages
<1>2. Choice \in Choices /\ Universe \in Seq(Ticker) /\ Len(Universe) > 0 /\ Len(Universe) \in Nat
  BY TheChoice DEF ScanJobAssumption
<1>3. \A s \in Stages : ItemsOf(s) \in Seq(Ticker) /\ Len(ItemsOf(s)) \in Nat
  BY <1>2, ItemTypes DEF ItemsOf
<1>4. ItemsOf("OHLCV") = Universe
  BY DEF ItemsOf, Items
<1>5. ASSUME NEW s \in DeepStages
      PROVE  s \in Stages /\ s # "OHLCV"
  BY <1>1, <1>5 DEF AllDeepStages, Work
<1>6. ASSUME Choice # <<>>, NEW s \in Work
      PROVE  Len(ItemsOf(s)) > 0
  BY <1>1, <1>2, <1>4, <1>5, <1>6, ItemTypes DEF ItemsOf, Work
<1>7. ASSUME Choice = <<>>, NEW s \in DeepStages
      PROVE  DOMAIN ItemsOf(s) = {}
  <2>1. Len(ItemsOf(s)) = 0 /\ ItemsOf(s) \in Seq(Ticker)
    BY <1>2, <1>5, <1>7, ItemTypes DEF ItemsOf
  <2> QED
    BY <2>1
<1> QED
  BY <1>1, <1>2, <1>3, <1>4, <1>6, <1>7

\* The last chunk of a stage is the one that reaches the end.
LEMMA LastIsLast ==
    ASSUME ScanJobAssumption
    PROVE  /\ \A s : LastChunk(s) \in Nat /\ ChunksOf(s) \in Nat
           /\ \A s \in Stages : \A k \in Nat : EndsAt(s, k) => LastChunk(s) = k
<1>1. ASSUME NEW s
      PROVE  LastChunk(s) \in Nat /\ ((\E m \in Nat : EndsAt(s, m)) => EndsAt(s, LastChunk(s)))
  <2>1. \E k \in Nat : (\E m \in Nat : EndsAt(s, m)) => EndsAt(s, k)
    OBVIOUS
  <2> QED
    BY <2>1 DEF LastChunk
<1>2. ASSUME NEW s \in Stages, NEW k \in Nat, EndsAt(s, k)
      PROVE  LastChunk(s) = k
  <2>1. LastChunk(s) \in Nat /\ EndsAt(s, LastChunk(s))
    BY <1>1, <1>2
  <2>2. Len(ItemsOf(s)) \in Nat /\ ChunkSize \in Nat
    BY WorkTypes
  <2> QED
    BY <1>2, <2>1, <2>2, OneMultiple DEF EndsAt
<1> QED
  BY <1>1, <1>2 DEF ChunksOf

LEMMA FirstTypes ==
    ASSUME ScanJobAssumption
    PROVE  /\ AtRanking \in Nat /\ AtRanking = LastChunk("OHLCV") + 2
           /\ FirstChunk("OHLCV") = 1
           /\ FirstChunk("FAST_RANKING") = AtRanking
           /\ FirstChunk("KSEI_SHORTLIST") = AtRanking + 1
           /\ FirstChunk("NEWS_SHORTLIST") = AtRanking + 1 + ChunksOf("KSEI_SHORTLIST")
           /\ FirstChunk("FUNDAMENTAL_SHORTLIST") =
                AtRanking + 1 + ChunksOf("KSEI_SHORTLIST") + ChunksOf("NEWS_SHORTLIST")
           /\ FirstChunk("IDX_FUNDAMENTAL_SHORTLIST") =
                AtRanking + 1 + ChunksOf("KSEI_SHORTLIST") + ChunksOf("NEWS_SHORTLIST")
                              + ChunksOf("FUNDAMENTAL_SHORTLIST")
           /\ \A s \in Work : FirstChunk(s) \in Nat
<1>1. AtRanking \in Nat /\ \A s : ChunksOf(s) \in Nat
  BY LastIsLast DEF AtRanking
<1>2. AtRanking = LastChunk("OHLCV") + 2
  BY DEF AtRanking
<1>3. /\ FirstChunk("OHLCV") = 1 /\ FirstChunk("FAST_RANKING") = AtRanking
      /\ FirstChunk("KSEI_SHORTLIST") = AtRanking + 1
      /\ FirstChunk("NEWS_SHORTLIST") = AtRanking + 1 + ChunksOf("KSEI_SHORTLIST")
      /\ FirstChunk("FUNDAMENTAL_SHORTLIST") =
           AtRanking + 1 + ChunksOf("KSEI_SHORTLIST") + ChunksOf("NEWS_SHORTLIST")
      /\ FirstChunk("IDX_FUNDAMENTAL_SHORTLIST") =
           AtRanking + 1 + ChunksOf("KSEI_SHORTLIST") + ChunksOf("NEWS_SHORTLIST")
                         + ChunksOf("FUNDAMENTAL_SHORTLIST")
  BY DEF FirstChunk
<1>4. \A s \in Work : FirstChunk(s) \in Nat
  <2>1. /\ ChunksOf("KSEI_SHORTLIST") \in Nat /\ ChunksOf("NEWS_SHORTLIST") \in Nat
        /\ ChunksOf("FUNDAMENTAL_SHORTLIST") \in Nat
    BY <1>1
  <2>2. FirstChunk("OHLCV") \in Nat /\ FirstChunk("KSEI_SHORTLIST") \in Nat
    BY <1>1, <1>3
  <2>3. FirstChunk("NEWS_SHORTLIST") \in Nat
    BY <1>1, <1>3, <2>1
  <2>4. FirstChunk("FUNDAMENTAL_SHORTLIST") \in Nat
    BY <1>1, <1>3, <2>1
  <2>5. FirstChunk("IDX_FUNDAMENTAL_SHORTLIST") \in Nat
    BY <1>1, <1>3, <2>1
  <2>6. \A s \in Work : s \in {"OHLCV", "KSEI_SHORTLIST", "NEWS_SHORTLIST", "FUNDAMENTAL_SHORTLIST",
                              "IDX_FUNDAMENTAL_SHORTLIST"}
    BY WorkTypes DEF AllDeepStages
  <2> QED
    BY <2>2, <2>3, <2>4, <2>5, <2>6
<1> QED
  BY <1>1, <1>2, <1>3, <1>4

\* The stage that follows begins where the last chunk of a stage ends: the stages
\* between them are not enabled.
LEMMA FirstFollows ==
    ASSUME ScanJobAssumption, Choice # <<>>, NEW after \in {"FAST_RANKING"} \cup DeepStages,
           NextDeepStage(after, Choice) \in DeepStages
    PROVE  FirstChunk(NextDeepStage(after, Choice)) =
             FirstChunk(after) + (IF after = "FAST_RANKING" THEN 1 ELSE ChunksOf(after))
<1>1. PICK next : next = NextDeepStage(after, Choice)
  OBVIOUS
<1>2. /\ next \in DeepStages /\ next \in AllDeepStages /\ StageNo[after] < StageNo[next]
      /\ \A s \in DeepStages : StageNo[after] < StageNo[s] => StageNo[next] <= StageNo[s]
  BY <1>1, NextDeep, WorkTypes
<1>3. /\ Rank4("KSEI_SHORTLIST") = 1 /\ Rank4("NEWS_SHORTLIST") = 2
      /\ Rank4("FUNDAMENTAL_SHORTLIST") = 3 /\ Rank4("IDX_FUNDAMENTAL_SHORTLIST") = 4
  <2>1. /\ DeepOrder[1] = "KSEI_SHORTLIST" /\ DeepOrder[2] = "NEWS_SHORTLIST"
        /\ DeepOrder[3] = "FUNDAMENTAL_SHORTLIST" /\ DeepOrder[4] = "IDX_FUNDAMENTAL_SHORTLIST"
    BY DEF DeepOrder
  <2>2. \A i \in 1..4 : Rank4(DeepOrder[i]) = i
    BY DeepPlaces
  <2> QED
    BY <2>1, <2>2
<1>4. /\ StageNo["KSEI_SHORTLIST"] = 4 /\ StageNo["NEWS_SHORTLIST"] = 5
      /\ StageNo["FUNDAMENTAL_SHORTLIST"] = 6 /\ StageNo["IDX_FUNDAMENTAL_SHORTLIST"] = 7
      /\ StageNo["FAST_RANKING"] = 3
  BY <1>3, StageNumbers DEF AllDeepStages
<1>5. \A s : ChunksOf(s) \in Nat /\ (s \notin DeepStages => ChunksOf(s) = 0)
  BY LastIsLast DEF ChunksOf
<1>6. after \in {"FAST_RANKING", "KSEI_SHORTLIST", "NEWS_SHORTLIST", "FUNDAMENTAL_SHORTLIST",
                 "IDX_FUNDAMENTAL_SHORTLIST"}
  BY WorkTypes DEF AllDeepStages
<1>7. ASSUME NEW s \in AllDeepStages, StageNo[after] < StageNo[s], ~(StageNo[next] <= StageNo[s])
      PROVE  ChunksOf(s) = 0
  BY <1>2, <1>5, <1>7
<1>8. /\ next = "NEWS_SHORTLIST" /\ after = "FAST_RANKING" => ChunksOf("KSEI_SHORTLIST") = 0
      /\ next = "FUNDAMENTAL_SHORTLIST" /\ after = "KSEI_SHORTLIST" => ChunksOf("NEWS_SHORTLIST") = 0
      /\ next = "FUNDAMENTAL_SHORTLIST" /\ after = "FAST_RANKING" =>
            ChunksOf("KSEI_SHORTLIST") = 0 /\ ChunksOf("NEWS_SHORTLIST") = 0
      /\ next = "IDX_FUNDAMENTAL_SHORTLIST" /\ after = "NEWS_SHORTLIST" =>
            ChunksOf("FUNDAMENTAL_SHORTLIST") = 0
      /\ next = "IDX_FUNDAMENTAL_SHORTLIST" /\ after = "KSEI_SHORTLIST" =>
            ChunksOf("NEWS_SHORTLIST") = 0 /\ ChunksOf("FUNDAMENTAL_SHORTLIST") = 0
      /\ next = "IDX_FUNDAMENTAL_SHORTLIST" /\ after = "FAST_RANKING" =>
            /\ ChunksOf("KSEI_SHORTLIST") = 0 /\ ChunksOf("NEWS_SHORTLIST") = 0
            /\ ChunksOf("FUNDAMENTAL_SHORTLIST") = 0
  BY <1>4, <1>7 DEF AllDeepStages
<1>9. after = "FAST_RANKING" =>
         FirstChunk(next) = FirstChunk(after) + 1
  <2> SUFFICES ASSUME after = "FAST_RANKING" PROVE FirstChunk(next) = FirstChunk(after) + 1
    OBVIOUS
  <2> QED
    BY <1>2, <1>8, FirstTypes DEF AllDeepStages
<1>10. after # "FAST_RANKING" => FirstChunk(next) = FirstChunk(after) + ChunksOf(after)
  <2>1. PICK a \in Nat, k \in Nat, n \in Nat, f \in Nat :
         /\ a = AtRanking + 1 /\ k = ChunksOf("KSEI_SHORTLIST")
         /\ n = ChunksOf("NEWS_SHORTLIST") /\ f = ChunksOf("FUNDAMENTAL_SHORTLIST")
    BY <1>5, FirstTypes
  <2>2. /\ FirstChunk("KSEI_SHORTLIST") = a /\ FirstChunk("NEWS_SHORTLIST") = a + k
        /\ FirstChunk("FUNDAMENTAL_SHORTLIST") = a + k + n
        /\ FirstChunk("IDX_FUNDAMENTAL_SHORTLIST") = a + k + n + f
    BY <2>1, FirstTypes
  <2>3. /\ after = "KSEI_SHORTLIST" =>
              next \in {"NEWS_SHORTLIST", "FUNDAMENTAL_SHORTLIST", "IDX_FUNDAMENTAL_SHORTLIST"}
        /\ after = "NEWS_SHORTLIST" => next \in {"FUNDAMENTAL_SHORTLIST", "IDX_FUNDAMENTAL_SHORTLIST"}
        /\ after = "FUNDAMENTAL_SHORTLIST" => next = "IDX_FUNDAMENTAL_SHORTLIST"
        /\ after # "IDX_FUNDAMENTAL_SHORTLIST"
    BY <1>2, <1>4 DEF AllDeepStages
  <2>4. CASE after = "KSEI_SHORTLIST"
    <3>1. CASE next = "NEWS_SHORTLIST"
      BY <2>1, <2>2, <2>4, <3>1
    <3>2. CASE next = "FUNDAMENTAL_SHORTLIST"
      BY <1>8, <2>1, <2>2, <2>4, <3>2
    <3>3. CASE next = "IDX_FUNDAMENTAL_SHORTLIST"
      BY <1>8, <2>1, <2>2, <2>4, <3>3
    <3> QED
      BY <2>3, <2>4, <3>1, <3>2, <3>3
  <2>5. CASE after = "NEWS_SHORTLIST"
    <3>1. CASE next = "FUNDAMENTAL_SHORTLIST"
      BY <2>1, <2>2, <2>5, <3>1
    <3>2. CASE next = "IDX_FUNDAMENTAL_SHORTLIST"
      BY <1>8, <2>1, <2>2, <2>5, <3>2
    <3> QED
      BY <2>3, <2>5, <3>1, <3>2
  <2>6. CASE after = "FUNDAMENTAL_SHORTLIST"
    BY <2>1, <2>2, <2>3, <2>6
  <2> QED
    BY <1>6, <2>3, <2>4, <2>5, <2>6
<1> QED
  BY <1>1, <1>9, <1>10

-----------------------------------------------------------------------------
(* A checkpoint leads from one position on course to the next.             *)

\* What the position of a stage with chunks stands for.
LEMMA CourseFields ==
    ASSUME ScanJobAssumption, NEW at, Fits(at), OnCourse(at), at.stage \in CacheStages
    PROVE  /\ at.stage = "BENCHMARK" \/ at.stage \in Work
           /\ at.stage \in Work =>
                /\ Items(at.stage, at.shortlist) = ItemsOf(at.stage)
                /\ at.stage # "OHLCV" => at.shortlist = Choice /\ Choice # <<>>
<1>1. at.stage = "BENCHMARK" \/ at.stage \in Work
  BY DEF CacheStages, OnCourse, Work
<1>2. ASSUME at.stage \in Work, at.stage # "OHLCV"
      PROVE  at.shortlist = Choice /\ Choice # <<>>
  <2>1. at.stage \in AllDeepStages /\ at.stage \in DeepStages /\ at.shortlist = Choice
    BY <1>2, WorkTypes DEF OnCourse
  <2>2. at.offset < Len(ItemsOf(at.stage)) /\ at.offset \in Nat /\ Len(Universe) \in Nat
    BY <1>2, WorkTypes DEF OnCourse, Fits, Position
  <2>3. ASSUME Choice = <<>> PROVE FALSE
    <3>1. ItemsOf(at.stage) \in Seq(Ticker) /\ DOMAIN ItemsOf(at.stage) = {} /\ Len(ItemsOf(at.stage)) \in Nat
      BY <1>2, <2>1, <2>3, WorkTypes
    <3>2. 1 \in DOMAIN ItemsOf(at.stage)
      <4> DEFINE items == ItemsOf(at.stage)
      <4>1. items \in Seq(Ticker) /\ Len(items) > 0
        BY <2>2, <3>1
      <4> HIDE DEF items
      <4> QED
        BY <4>1 DEF items
    <3> QED
      BY <3>1, <3>2
  <2> QED
    BY <2>1, <2>3
<1>3. at.stage \in Work => Items(at.stage, at.shortlist) = ItemsOf(at.stage)
  BY <1>2 DEF ItemsOf, Items
<1> QED
  BY <1>1, <1>2, <1>3

LEMMA CourseAfterChunk ==
    ASSUME ScanJobAssumption, NEW at, Fits(at), OnCourse(at), at.stage \in CacheStages,
           NEW new, new.stage = AfterChunk(at).stage, new.offset = AfterChunk(at).offset,
           new.chunk = AfterChunk(at).chunk, new.shortlist \in {<<>>, Choice},
           at.shortlist = Choice => new.shortlist = Choice
    PROVE  OnCourse(new)
<1> DEFINE items == Items(at.stage, at.shortlist)
           done == at.offset + ChunkSize >= Len(items)
           next == NextOffset(items, at.offset)
<1>1. /\ at \in Position /\ at.shortlist \in Choices /\ at.chunk \in Nat /\ at.offset \in Nat
      /\ ChunkSize \in Nat /\ ChunkSize > 0 /\ DeepStages \subseteq AllDeepStages
  BY DEF Fits, Position, ScanJobAssumption
<1>2. /\ new.chunk = at.chunk + 1
      /\ at.stage = "BENCHMARK" => new.stage = "OHLCV" /\ new.offset = 0
      /\ at.stage = "OHLCV" =>
            /\ new.stage = (IF done THEN "FAST_RANKING" ELSE "OHLCV")
            /\ new.offset = (IF done THEN 0 ELSE next)
      /\ at.stage \in AllDeepStages =>
            /\ new.stage = (IF done THEN NextDeepStage(at.stage, at.shortlist) ELSE at.stage)
            /\ new.offset = (IF done THEN 0 ELSE next)
  BY <1>1, AfterChunkFields
<1>3. CASE at.stage = "BENCHMARK"
  <2>1. new.stage = "OHLCV" /\ new.offset = 0 /\ new.chunk = 1
    BY <1>2, <1>3 DEF OnCourse
  <2>2. /\ new.chunk = FirstChunk("OHLCV") + 0 /\ new.offset = 0 * ChunkSize
        /\ new.offset < Len(ItemsOf("OHLCV"))
    BY <1>1, <2>1, FirstTypes, WorkTypes
  <2>3. \E k \in Nat : /\ new.chunk = FirstChunk(new.stage) + k /\ new.offset = k * ChunkSize
                       /\ new.offset < Len(ItemsOf(new.stage))
    BY <2>1, <2>2
  <2> QED
    BY <2>1, <2>3 DEF OnCourse, AllDeepStages
<1>4. CASE at.stage \in Work
  <2>1. /\ items = ItemsOf(at.stage) /\ Len(items) \in Nat /\ at.stage \in Stages
        /\ at.stage = "OHLCV" \/ at.stage \in DeepStages
        /\ at.stage # "OHLCV" => at.shortlist = Choice /\ Choice # <<>>
    <3>1. items = ItemsOf(at.stage) /\ (at.stage # "OHLCV" => at.shortlist = Choice /\ Choice # <<>>)
      BY <1>4, CourseFields
    <3>2. at.stage \in Stages
      BY <1>4, WorkTypes
    <3>3. Len(ItemsOf(at.stage)) \in Nat
      BY <3>2, WorkTypes
    <3> HIDE DEF items
    <3> QED
      BY <1>4, <3>1, <3>2, <3>3 DEF Work
  <2> HIDE DEF items
  <2>2. PICK k \in Nat : /\ at.chunk = FirstChunk(at.stage) + k /\ at.offset = k * ChunkSize
                         /\ at.offset < Len(items)
    BY <1>4, <2>1 DEF OnCourse
  <2>3. (k + 1) * ChunkSize = at.offset + ChunkSize
    BY <1>1, <2>2, NextMultiple
  <2>4. FirstChunk(at.stage) \in Nat /\ new.chunk = FirstChunk(at.stage) + (k + 1)
    <3>1. FirstChunk(at.stage) \in Nat
      BY <1>4, FirstTypes
    <3> QED
      BY <1>2, <2>2, <3>1
  <2>5. CASE ~done
    <3>1. new.stage = at.stage /\ new.offset = next
      BY <1>2, <2>1, <2>5 DEF AllDeepStages, ScanJobAssumption
    <3>2. new.offset = (k + 1) * ChunkSize /\ new.offset < Len(items)
      <4>1. next = at.offset + ChunkSize
        BY <1>1, <2>1, <2>5 DEF NextOffset, Smaller
      <4> HIDE DEF next
      <4> QED
        BY <1>1, <2>1, <2>3, <2>5, <3>1, <4>1
    <3>3. \E n \in Nat : /\ new.chunk = FirstChunk(new.stage) + n /\ new.offset = n * ChunkSize
                         /\ new.offset < Len(ItemsOf(new.stage))
      <4>1. k + 1 \in Nat
        OBVIOUS
      <4> QED
        BY <2>1, <2>4, <3>1, <3>2, <4>1
    <3>4. new.stage \in DeepStages => new.shortlist = Choice
      BY <1>1, <2>1, <3>1 DEF AllDeepStages
    <3> QED
      BY <1>1, <2>1, <3>1, <3>3, <3>4 DEF OnCourse, AllDeepStages
  <2>6. CASE done
    <3>1. LastChunk(at.stage) = k
      <4>1. EndsAt(at.stage, k)
        BY <1>1, <2>1, <2>2, <2>3, <2>6 DEF EndsAt
      <4> QED
        BY <2>1, <4>1, LastIsLast
    <3>2. CASE at.stage = "OHLCV"
      <4>1. new.stage = "FAST_RANKING"
        BY <1>2, <2>6, <3>2
      <4>2. new.chunk = AtRanking
        BY <2>4, <3>1, <3>2, FirstTypes
      <4> QED
        BY <4>1, <4>2, WorkTypes DEF OnCourse, AllDeepStages
    <3>3. CASE at.stage \in DeepStages
      <4>1. /\ new.stage = NextDeepStage(at.stage, Choice) /\ new.offset = 0
            /\ Choice # <<>> /\ new.shortlist = Choice
        BY <1>1, <1>2, <2>1, <2>6, <3>3 DEF AllDeepStages
      <4>2. new.stage \in DeepStages \cup {"FINALIZE"}
        BY <1>1, <3>3, <4>1, NextDeep
      <4>3. CASE new.stage = "FINALIZE"
        BY <4>1, <4>3, WorkTypes DEF OnCourse, AllDeepStages
      <4>4. CASE new.stage \in DeepStages
        <5>1. FirstChunk(new.stage) = FirstChunk(at.stage) + ChunksOf(at.stage)
          <6>1. FirstChunk(NextDeepStage(at.stage, Choice)) = FirstChunk(at.stage) + ChunksOf(at.stage)
            <7>1. at.stage # "FAST_RANKING"
              BY <1>1, <3>3 DEF AllDeepStages
            <7> QED
              BY <3>3, <4>1, <4>4, <7>1, FirstFollows
          <6> QED
            BY <4>1, <6>1
        <5>2. ChunksOf(at.stage) = k + 1
          BY <3>1, <3>3 DEF ChunksOf
        <5>3. new.stage \in Work /\ FirstChunk(new.stage) \in Nat /\ Len(ItemsOf(new.stage)) > 0
          BY <4>1, <4>4, FirstTypes, WorkTypes DEF Work
        <5>4. new.chunk = FirstChunk(new.stage) + 0 /\ new.offset = 0 * ChunkSize
          BY <1>1, <2>4, <4>1, <5>1, <5>2, <5>3
        <5>5. \E n \in Nat : /\ new.chunk = FirstChunk(new.stage) + n /\ new.offset = n * ChunkSize
                             /\ new.offset < Len(ItemsOf(new.stage))
          BY <4>1, <5>3, <5>4
        <5> QED
          BY <1>1, <4>1, <4>4, <5>5 DEF OnCourse, AllDeepStages
      <4> QED
        BY <4>2, <4>3, <4>4
    <3> QED
      BY <2>1, <3>2, <3>3
  <2> QED
    BY <2>5, <2>6
<1> QED
  BY <1>3, <1>4, CourseFields

LEMMA CourseAfterRanking ==
    ASSUME ScanJobAssumption, NEW at, Fits(at), OnCourse(at), at.stage = "FAST_RANKING",
           NEW new, new.stage = NextDeepStage("FAST_RANKING", Choice), new.offset = 0,
           new.chunk = at.chunk + 1, new.shortlist = Choice
    PROVE  OnCourse(new)
<1>1. /\ new.stage \in DeepStages \cup {"FINALIZE"} /\ DeepStages \subseteq AllDeepStages
      /\ new.stage # "FINALIZE" => Choice # <<>>
  BY NextDeep, WorkTypes
<1>2. CASE new.stage = "FINALIZE"
  BY <1>2, WorkTypes DEF OnCourse, AllDeepStages
<1>3. CASE new.stage \in DeepStages
  <2>0. Choice # <<>>
    BY <1>1, <1>3 DEF AllDeepStages
  <2>1. FirstChunk(new.stage) = AtRanking + 1
    BY <1>3, <2>0, FirstFollows, FirstTypes
  <2>2. new.stage \in Work /\ Len(ItemsOf(new.stage)) > 0 /\ AtRanking \in Nat /\ ChunkSize \in Nat
    BY <1>3, <2>0, FirstTypes, WorkTypes DEF Work
  <2>3. new.chunk = FirstChunk(new.stage) + 0 /\ new.offset = 0 * ChunkSize
    BY <2>1, <2>2 DEF OnCourse
  <2>4. \E n \in Nat : /\ new.chunk = FirstChunk(new.stage) + n /\ new.offset = n * ChunkSize
                       /\ new.offset < Len(ItemsOf(new.stage))
    BY <2>2, <2>3
  <2> QED
    BY <1>1, <1>3, <2>4 DEF OnCourse, AllDeepStages
<1> QED
  BY <1>1, <1>2, <1>3

-----------------------------------------------------------------------------
(* The work behind the next position is the work behind the last one, and  *)
(* the chunk between them.                                                 *)

\* A stage that lies between a deep stage, or FAST_RANKING, and the next is not enabled.
LEMMA NothingBetween ==
    ASSUME ScanJobAssumption, Choice # <<>>, NEW after \in {"FAST_RANKING"} \cup AllDeepStages,
           NEW s \in DeepStages, StageNo[s] < StageNo[NextDeepStage(after, Choice)]
    PROVE  StageNo[s] <= StageNo[after]
<1>1. \A t \in DeepStages : StageNo[after] < StageNo[t] =>
         StageNo[NextDeepStage(after, Choice)] <= StageNo[t]
  BY NextDeep
<1>2. NextDeepStage(after, Choice) \in Stages /\ after \in Stages /\ s \in Stages
  BY NextDeep, WorkTypes DEF Stages, CacheStages
<1>3. /\ StageNo[s] \in 1..9 /\ StageNo[after] \in 1..9
      /\ StageNo[NextDeepStage(after, Choice)] \in 1..9
  BY <1>2, StageNumbers
<1> QED
  BY <1>1, <1>3

LEMMA DeepStagesDiffer ==
    ASSUME NEW s \in AllDeepStages, NEW t \in AllDeepStages, StageNo[s] = StageNo[t] PROVE s = t
BY DeepPlaces, StageNumbers

\* A place that a committed chunk leaves behind was behind before, or is in the chunk.
LEMMA BehindAfterChunk ==
    ASSUME ScanJobAssumption, NEW C, NEW j, NEW at, Fits(at), OnCourse(at), at.stage \in CacheStages,
           HasBehind(C, j, at), HasChunk(C, j, at),
           NEW new, new.stage = AfterChunk(at).stage, new.offset = AfterChunk(at).offset
    PROVE  HasBehind(C, j, new)
<1> DEFINE items == Items(at.stage, at.shortlist)
           done == at.offset + ChunkSize >= Len(items)
           next == NextOffset(items, at.offset)
<1>1. /\ at \in Position /\ at.shortlist \in Choices /\ at.offset \in Nat /\ at.stage \in Stages
      /\ ChunkSize \in Nat /\ ChunkSize > 0 /\ DeepStages \subseteq AllDeepStages
  BY DEF Fits, Position, ScanJobAssumption
<1>2. /\ at.stage = "BENCHMARK" => new.stage = "OHLCV" /\ new.offset = 0
      /\ at.stage = "OHLCV" =>
            /\ new.stage = (IF done THEN "FAST_RANKING" ELSE "OHLCV")
            /\ new.offset = (IF done THEN 0 ELSE next)
      /\ at.stage \in AllDeepStages =>
            /\ new.stage = (IF done THEN NextDeepStage(at.stage, at.shortlist) ELSE at.stage)
            /\ new.offset = (IF done THEN 0 ELSE next)
  BY <1>1, AfterChunkFields
<1> SUFFICES ASSUME NEW s \in Work, NEW i \in DOMAIN ItemsOf(s), Behind(new, s, i), ~Behind(at, s, i)
             PROVE  s = at.stage /\ at.offset < i /\ i <= at.offset + ChunkSize
  <2>1. ASSUME NEW s \in Work, NEW i \in DOMAIN ItemsOf(s), Behind(new, s, i)
        PROVE  \E c \in C : c.job = j /\ c.stage = s /\ ItemsOf(s)[i] \in c.tickers
    <3>1. CASE Behind(at, s, i)
      BY <3>1 DEF HasBehind
    <3>2. CASE ~Behind(at, s, i)
      <4>1. s = at.stage /\ at.offset < i /\ i <= at.offset + ChunkSize
        BY <2>1, <3>2
      <4>2. ItemsOf(s)[i] \in NextChunk(ItemsOf(at.stage), at.offset)
        BY <4>1 DEF NextChunk
      <4>3. PICK c \in C : /\ c.job = j /\ c.stage = at.stage
                          /\ c.tickers = NextChunk(ItemsOf(at.stage), at.offset)
        BY <4>1 DEF HasChunk
      <4> QED
        BY <4>1, <4>2, <4>3
    <3> QED
      BY <3>1, <3>2
  <2> QED
    BY <2>1 DEF HasBehind
<1>3. /\ s \in Stages /\ s \in AllDeepStages \cup {"OHLCV"}
      /\ i \in Nat /\ i >= 1 /\ i <= Len(ItemsOf(s)) /\ Len(ItemsOf(s)) \in Nat
  <2>1. s \in Stages /\ s \in AllDeepStages \cup {"OHLCV"}
    BY WorkTypes
  <2>2. ItemsOf(s) \in Seq(Ticker)
    BY <2>1, WorkTypes
  <2> QED
    BY <2>1, <2>2
<1>4. /\ StageNo[s] \in 2..7 /\ (s # "OHLCV" => StageNo[s] \in 4..7)
      /\ StageNo["OHLCV"] = 2 /\ StageNo["FAST_RANKING"] = 3 /\ StageNo[at.stage] \in 1..9
  BY <1>1, <1>3, StageNumbers
<1>5. s = at.stage
  <2>1. CASE at.stage = "BENCHMARK"
    BY <1>2, <1>3, <1>4, <2>1 DEF Behind
  <2>2. CASE at.stage = "OHLCV"
    <3>1. new.stage \in {"FAST_RANKING", "OHLCV"}
      BY <1>2, <2>2
    <3> QED
      BY <1>4, <2>2, <3>1 DEF Behind
  <2>3. CASE at.stage \in DeepStages
    <3> SUFFICES ASSUME s # at.stage PROVE FALSE
      OBVIOUS
    <3>1. at.stage \in Work /\ at.stage # "OHLCV" /\ at.stage \in AllDeepStages
      BY <1>1, <2>3 DEF Work, AllDeepStages
    <3>2. at.shortlist = Choice /\ Choice # <<>>
      BY <3>1, CourseFields
    <3>3. ~(StageNo[s] < StageNo[at.stage])
      BY DEF Behind
    <3>4. done /\ new.stage = NextDeepStage(at.stage, Choice) /\ new.offset = 0
      <4>1. new.stage # at.stage
        BY <3>3 DEF Behind
      <4> HIDE DEF done
      <4> QED
        BY <1>2, <3>1, <3>2, <4>1
    <3>5. ~(s = new.stage /\ i <= new.offset)
      BY <1>3, <3>4
    <3>6. StageNo[s] < StageNo[NextDeepStage(at.stage, Choice)]
      BY <3>4, <3>5 DEF Behind
    <3>7. s \in DeepStages
      <4>1. StageNo[at.stage] \in 4..7
        BY <3>1, StageNumbers
      <4> QED
        BY <1>4, <3>3, <4>1 DEF Work
    <3>8. StageNo[s] <= StageNo[at.stage]
      BY <3>1, <3>2, <3>6, <3>7, NothingBetween
    <3>9. StageNo[s] = StageNo[at.stage]
      BY <1>4, <3>3, <3>8
    <3> QED
      BY <1>1, <3>1, <3>7, <3>9, DeepStagesDiffer
  <2> QED
    BY <2>1, <2>2, <2>3, CourseFields DEF Work
<1>6. at.offset < i
  BY <1>1, <1>3, <1>5 DEF Behind
<1>7. i <= at.offset + ChunkSize
  <2>1. items = ItemsOf(s) /\ Len(items) \in Nat
    BY <1>3, <1>5, CourseFields
  <2> HIDE DEF items
  <2>2. CASE done
    BY <1>1, <1>3, <2>1, <2>2
  <2>3. CASE ~done
    <3>1. next = at.offset + ChunkSize
      BY <1>1, <2>1, <2>3 DEF NextOffset, Smaller
    <3>2. new.stage = at.stage /\ new.offset = next
      <4>1. at.stage = "OHLCV" \/ at.stage \in AllDeepStages
        BY <1>3, <1>5
      <4> HIDE DEF done, next
      <4> QED
        BY <1>2, <2>3, <4>1
    <3>3. i <= new.offset
      BY <1>4, <1>5, <3>2 DEF Behind
    <3> HIDE DEF next
    <3> QED
      BY <3>1, <3>2, <3>3
  <2> QED
    BY <2>2, <2>3
<1> QED
  BY <1>5, <1>6, <1>7

LEMMA BehindAfterRanking ==
    ASSUME ScanJobAssumption, NEW C, NEW j, NEW at, at.stage = "FAST_RANKING", HasBehind(C, j, at),
           NEW new, new.stage = NextDeepStage("FAST_RANKING", Choice), new.offset = 0
    PROVE  HasBehind(C, j, new)
<1> SUFFICES ASSUME NEW s \in Work, NEW i \in DOMAIN ItemsOf(s), Behind(new, s, i)
             PROVE  Behind(at, s, i)
  BY DEF HasBehind
<1>1. /\ s \in Stages /\ s \in AllDeepStages \cup {"OHLCV"} /\ i \in Nat /\ i >= 1
  <2>1. s \in Stages /\ s \in AllDeepStages \cup {"OHLCV"}
    BY WorkTypes
  <2>2. ItemsOf(s) \in Seq(Ticker)
    BY <2>1, WorkTypes
  <2> QED
    BY <2>1, <2>2
<1>2. CASE s = "OHLCV"
  BY <1>2, StageNumbers DEF Behind
<1>3. CASE s \in DeepStages
  <2>1. Choice # <<>>
    BY <1>3, WorkTypes
  <2>2. StageNo[s] < StageNo[NextDeepStage("FAST_RANKING", Choice)]
    BY <1>1 DEF Behind
  <2>3. StageNo[s] <= 3 /\ StageNo[s] \in 4..7
    BY <1>3, <2>1, <2>2, NothingBetween, StageNumbers, WorkTypes
  <2> QED
    BY <2>3
<1> QED
  BY <1>2, <1>3 DEF Work

\* At FINALIZE all work is behind, and so it is at COMPLETED.
LEMMA BehindAtEnd ==
    ASSUME ScanJobAssumption, NEW C, NEW j, NEW at, at.stage = "FINALIZE", HasBehind(C, j, at),
           NEW new
    PROVE  HasBehind(C, j, new)
<1> SUFFICES ASSUME NEW s \in Work, NEW i \in DOMAIN ItemsOf(s)
             PROVE  Behind(at, s, i)
  BY DEF HasBehind
<1>1. s \in AllDeepStages \cup {"OHLCV"}
  BY WorkTypes
<1>2. StageNo[s] \in 2..7 /\ StageNo["FINALIZE"] = 8
  BY <1>1, StageNumbers
<1> QED
  BY <1>2 DEF Behind

\* A chunk recorded from a position on course is numbered as all others are.
LEMMA NumberedOnCourse ==
    ASSUME NEW at, OnCourse(at), NEW c, c.stage = at.stage, c.no = at.chunk + 1,
           ScanJobAssumption, at.stage \in Work => c.tickers = NextChunk(ItemsOf(at.stage), at.offset)
    PROVE  Numbered(c)
<1> SUFFICES ASSUME at.stage \in Work
             PROVE  \E k \in Nat : /\ c.no = FirstChunk(at.stage) + k + 1
                                   /\ c.tickers = NextChunk(ItemsOf(at.stage), k * ChunkSize)
  BY DEF Numbered
<1>1. PICK k \in Nat : at.chunk = FirstChunk(at.stage) + k /\ at.offset = k * ChunkSize
  BY DEF OnCourse
<1>2. c.no = FirstChunk(at.stage) + k + 1
  BY <1>1, FirstTypes
<1>3. c.tickers = NextChunk(ItemsOf(at.stage), k * ChunkSize)
  BY <1>1
<1> QED
  BY <1>2, <1>3

\* So two chunks of one stage with the same number hold the same tickers.
LEMMA SameNumber ==
    ASSUME ScanJobAssumption, NEW c, NEW d, Numbered(c), Numbered(d), c.stage \in Work,
           d.stage = c.stage, d.no = c.no
    PROVE  d.tickers = c.tickers
<1>1. PICK k \in Nat : /\ c.no = FirstChunk(c.stage) + k + 1
                     /\ c.tickers = NextChunk(ItemsOf(c.stage), k * ChunkSize)
  BY DEF Numbered
<1>2. PICK m \in Nat : /\ d.no = FirstChunk(c.stage) + m + 1
                     /\ d.tickers = NextChunk(ItemsOf(c.stage), m * ChunkSize)
  BY DEF Numbered
<1>3. FirstChunk(c.stage) \in Nat
  BY FirstTypes
<1>4. k = m
  BY <1>1, <1>2, <1>3
<1> QED
  BY <1>1, <1>2, <1>4

-----------------------------------------------------------------------------
(* Rows, runs and chunks together.                                         *)

Holding == {"seen", "chunk_ok", "chunk_failed", "ranked", "final"}
Creating == {"create_delete", "create_post"}

\* A row, and a run: what it holds was true of the row once, and is still done.
RowOnCourse(C, j, row) == row.status \notin Gone => OnCourse(row.at) /\ HasBehind(C, j, row.at)

RunOnCourse(rows, C, x) ==
    /\ x.step \in Creating => rows[x.job].status = "UNUSED"
    /\ x.step \in Holding => rows[x.job].status # "UNUSED"
    /\ x.step \in Holding /\ rows[x.job].status \notin Gone =>
         /\ OnCourse(x.at) /\ HasBehind(C, x.job, x.at)
         /\ x.at.shortlist = Choice => rows[x.job].at.shortlist = Choice
         /\ x.step = "chunk_ok" => HasChunk(C, x.job, x.at)
         /\ x.step = "ranked" => x.at.stage = "FAST_RANKING" /\ x.list = Choice
         /\ x.step = "final" => x.at.stage = "FINALIZE"

RowsOnCourse == \A j \in Job : RowOnCourse(chunks, j, jobs[j])
RunsOnCourse == \A r \in Run : RunOnCourse(jobs, chunks, run[r])
ChunksNumbered == \A c \in chunks : Numbered(c)
CreateApart ==
    \A q, r \in Run : q # r /\ run[q].step \in Creating /\ run[r].step \in Creating => run[q].job # run[r].job

Course == RowsOnCourse /\ RunsOnCourse /\ ChunksNumbered /\ CreateApart
CourseInvariant == Typed /\ Course

\* The chunks of j stay, in the same words; and what a step may do to its row.
Covered(C, D, j) ==
    \A c \in C : c.job = j /\ c.stage \in Work =>
        \E d \in D : d.job = j /\ d.stage = c.stage /\ d.tickers = c.tickers

Tame(j) ==
    /\ jobs'[j].status = "UNUSED" <=> jobs[j].status = "UNUSED"
    /\ jobs'[j].status \notin Gone =>
         /\ jobs[j].status \notin Gone
         /\ jobs[j].at.shortlist = Choice => jobs'[j].at.shortlist = Choice
         /\ Covered(chunks, chunks', j)

LEMMA CoveredKeeps ==
    ASSUME NEW C, NEW D, NEW j, Covered(C, D, j), NEW at
    PROVE  (HasBehind(C, j, at) => HasBehind(D, j, at)) /\ (HasChunk(C, j, at) => HasChunk(D, j, at))
<1>1. ASSUME HasBehind(C, j, at) PROVE HasBehind(D, j, at)
  <2> SUFFICES ASSUME NEW s \in Work, NEW i \in DOMAIN ItemsOf(s), Behind(at, s, i)
               PROVE  \E d \in D : d.job = j /\ d.stage = s /\ ItemsOf(s)[i] \in d.tickers
    BY DEF HasBehind
  <2>1. PICK c \in C : c.job = j /\ c.stage = s /\ ItemsOf(s)[i] \in c.tickers
    BY <1>1 DEF HasBehind
  <2>2. PICK d \in D : d.job = j /\ d.stage = c.stage /\ d.tickers = c.tickers
    BY <2>1 DEF Covered
  <2> QED
    BY <2>1, <2>2
<1>2. ASSUME HasChunk(C, j, at) PROVE HasChunk(D, j, at)
  BY <1>2 DEF HasChunk, Covered
<1> QED
  BY <1>1, <1>2

LEMMA RunStaysOnCourse ==
    ASSUME NEW x, RunOnCourse(jobs, chunks, x), Tame(x.job) PROVE RunOnCourse(jobs', chunks', x)
<1>1. x.step \in Creating => jobs'[x.job].status = "UNUSED"
  BY DEF RunOnCourse, Tame
<1>2. x.step \in Holding => jobs'[x.job].status # "UNUSED"
  BY DEF RunOnCourse, Tame
<1>3. ASSUME x.step \in Holding, jobs'[x.job].status \notin Gone
      PROVE  /\ OnCourse(x.at) /\ HasBehind(chunks', x.job, x.at)
             /\ x.at.shortlist = Choice => jobs'[x.job].at.shortlist = Choice
             /\ x.step = "chunk_ok" => HasChunk(chunks', x.job, x.at)
             /\ x.step = "ranked" => x.at.stage = "FAST_RANKING" /\ x.list = Choice
             /\ x.step = "final" => x.at.stage = "FINALIZE"
  <2>1. /\ jobs[x.job].status \notin Gone /\ Covered(chunks, chunks', x.job)
        /\ jobs[x.job].at.shortlist = Choice => jobs'[x.job].at.shortlist = Choice
    BY <1>3 DEF Tame
  <2> QED
    BY <1>3, <2>1, CoveredKeeps DEF RunOnCourse
<1> QED
  BY <1>1, <1>2, <1>3 DEF RunOnCourse

\* A step of one run, on course, that is tame for every job.
LEMMA RunsStayOnCourse ==
    ASSUME Typed, RunsOnCourse, CreateApart, \A j \in Job : Tame(j),
           NEW r \in Run, NEW y, run' = [run EXCEPT ![r] = y], RunOnCourse(jobs', chunks', y),
           y.step \in Creating => run[r].step \in Creating /\ run[r].job = y.job
    PROVE  RunsOnCourse' /\ CreateApart'
<1>1. \A q \in Run : run'[q] = IF q = r THEN y ELSE run[q]
  BY DEF Typed
<1>2. ASSUME NEW q \in Run
      PROVE  RunOnCourse(jobs', chunks', run'[q])
  <2>1. CASE q = r
    BY <1>1, <2>1
  <2>2. CASE q # r
    <3>1. run'[q] = run[q] /\ RunOnCourse(jobs, chunks, run[q]) /\ run[q].job \in Job
      BY <1>1, <2>2, RunFields DEF RunsOnCourse
    <3> QED
      BY <3>1, RunStaysOnCourse
  <2> QED
    BY <2>1, <2>2
<1>3. CreateApart'
  <2> SUFFICES ASSUME NEW q \in Run, NEW p \in Run, q # p, run'[q].step \in Creating, run'[p].step \in Creating
               PROVE  run'[q].job # run'[p].job
    BY DEF CreateApart
  <2>1. ASSUME NEW u \in Run, run'[u].step \in Creating
        PROVE  run[u].step \in Creating /\ run[u].job = run'[u].job
    BY <1>1, <2>1
  <2> QED
    BY <2>1 DEF CreateApart
<1> QED
  BY <1>2, <1>3 DEF RunsOnCourse

LEMMA EndOnCourse ==
    ASSUME Typed, RunsOnCourse, CreateApart, \A j \in Job : Tame(j), NEW r \in Run, End(r)
    PROVE  RunsOnCourse' /\ CreateApart'
<1> DEFINE y == Ended
<1>1. y.step = "idle"
  BY DEF Ended
<1>2. run' = [run EXCEPT ![r] = y]
  BY DEF End
<1> HIDE DEF y
<1>3. RunOnCourse(jobs', chunks', y) /\ y.step \notin Creating
  BY <1>1 DEF RunOnCourse, Creating, Holding
<1> QED
  BY <1>2, <1>3, RunsStayOnCourse

\* Nothing in the database is written.
LEMMA IdleTame ==
    ASSUME UNCHANGED <<jobs, chunks>>, RowsOnCourse, ChunksNumbered
    PROVE  RowsOnCourse' /\ ChunksNumbered' /\ \A j \in Job : Tame(j)
BY DEF Tame, Covered, RowsOnCourse, ChunksNumbered

\* A position on course written over the row of j.
LEMMA PatchOnCourse ==
    ASSUME Typed, RowsOnCourse, ChunksNumbered, NEW j \in Job, NEW status \in Active \cup Terminal, NEW at,
           Exists(j) => /\ OnCourse(at) /\ HasBehind(chunks, j, at)
                        /\ jobs[j].at.shortlist = Choice => at.shortlist = Choice,
           Patch(j, status, at) \/ PatchFails(j, status), UNCHANGED chunks
    PROVE  RowsOnCourse' /\ ChunksNumbered' /\ \A k \in Job : Tame(k)
<1>1. CASE UNCHANGED <<jobs, newer>>
  BY <1>1, IdleTame
<1>2. CASE Patch(j, status, at)
  <2> DEFINE row == [status |-> status, at |-> at]
  <2>1. jobs' = [jobs EXCEPT ![j] = row] /\ Exists(j)
    BY <1>2 DEF Patch
  <2>2. row.status = status /\ row.at = at /\ status \notin Gone /\ status # "UNUSED"
    BY DEF Active, Terminal, Completed, Gone
  <2> HIDE DEF row
  <2>3. \A k \in Job : jobs'[k] = IF k = j THEN row ELSE jobs[k]
    BY <2>1 DEF Typed, JobsTyped
  <2>4. ASSUME NEW k \in Job
        PROVE  RowOnCourse(chunks', k, jobs'[k]) /\ Tame(k)
    <3>1. Covered(chunks, chunks', k)
      BY DEF Covered
    <3>2. CASE k = j
      <4>1. jobs'[k].status = status /\ jobs'[k].at = at
        BY <2>2, <2>3, <3>2
      <4>2. jobs[k].status \notin Gone /\ jobs[k].status # "UNUSED"
        BY <2>1, <3>2 DEF Exists, Gone
      <4>3. Tame(k)
        BY <2>1, <2>2, <3>1, <3>2, <4>1, <4>2 DEF Tame
      <4> QED
        BY <2>1, <3>2, <4>1, <4>3 DEF RowOnCourse
    <3>3. CASE k # j
      <4>1. jobs'[k] = jobs[k]
        BY <2>3, <3>3
      <4> QED
        BY <3>1, <4>1 DEF Tame, RowsOnCourse
    <3> QED
      BY <3>2, <3>3
  <2> QED
    BY <2>4 DEF RowsOnCourse, ChunksNumbered
<1> QED
  BY <1>1, <1>2 DEF PatchFails

\* A numbered chunk replaces only one that holds the same tickers.
LEMMA RecordOnCourse ==
    ASSUME ScanJobAssumption, RowsOnCourse, ChunksNumbered, NEW d, Numbered(d), RecordChunk(d), UNCHANGED jobs
    PROVE  RowsOnCourse' /\ ChunksNumbered' /\ d \in chunks' /\ \A k \in Job : Tame(k)
<1>1. chunks' = {c \in chunks : <<c.job, c.stage, c.no>> # <<d.job, d.stage, d.no>>} \cup {d}
  BY DEF RecordChunk
<1>2. ASSUME NEW k
      PROVE  Covered(chunks, chunks', k)
  <2> SUFFICES ASSUME NEW c \in chunks, c.job = k, c.stage \in Work
               PROVE  \E e \in chunks' : e.job = k /\ e.stage = c.stage /\ e.tickers = c.tickers
    BY DEF Covered
  <2>1. CASE <<c.job, c.stage, c.no>> = <<d.job, d.stage, d.no>>
    <3>1. d.tickers = c.tickers
      BY <2>1, SameNumber DEF ChunksNumbered
    <3> QED
      BY <1>1, <2>1, <3>1
  <2>2. CASE <<c.job, c.stage, c.no>> # <<d.job, d.stage, d.no>>
    BY <1>1, <2>2
  <2> QED
    BY <2>1, <2>2
<1>3. \A k \in Job : Tame(k)
  BY <1>2 DEF Tame
<1>4. RowsOnCourse'
  BY <1>2, CoveredKeeps DEF RowsOnCourse, RowOnCourse
<1>5. ChunksNumbered'
  BY <1>1 DEF ChunksNumbered
<1> QED
  BY <1>1, <1>3, <1>4, <1>5

\* Deleted jobs take along their own chunks and no others.
LEMMA DeleteOnCourse ==
    ASSUME RowsOnCourse, ChunksNumbered, NEW old, DeleteJobs(old)
    PROVE  RowsOnCourse' /\ ChunksNumbered' /\ \A k \in Job : Tame(k)
<1> DEFINE gone == [status |-> "DELETED", at |-> Start]
<1>1. ASSUME NEW k \in Job
      PROVE  jobs'[k] = IF k \in old /\ Exists(k) THEN gone ELSE jobs[k]
  BY DEF DeleteJobs
<1>2. gone.status \in Gone /\ gone.status # "UNUSED"
  BY DEF Gone
<1> HIDE DEF gone
<1>3. ASSUME NEW k \in Job
      PROVE  Tame(k) /\ RowOnCourse(chunks', k, jobs'[k])
  <2>1. CASE k \in old /\ Exists(k)
    BY <1>1, <1>2, <2>1 DEF Tame, RowOnCourse, Exists, Gone
  <2>2. CASE ~(k \in old /\ Exists(k))
    <3>1. jobs'[k] = jobs[k]
      BY <1>1, <2>2
    <3>2. jobs[k].status \notin Gone => Covered(chunks, chunks', k)
      BY <2>2 DEF Covered, Exists, DeleteJobs
    <3> QED
      BY <3>1, <3>2, CoveredKeeps DEF Tame, RowsOnCourse, RowOnCourse
  <2> QED
    BY <2>1, <2>2
<1> QED
  BY <1>3 DEF RowsOnCourse, ChunksNumbered, DeleteJobs

-----------------------------------------------------------------------------
(* What each action leaves of it.                                          *)

\* What holds of a run that stands at a job that is there.
LEMMA AtCourse ==
    ASSUME CourseInvariant, NEW r \in Run, run[r].step \in Holding
    PROVE  LET j == run[r].job  at == run[r].at IN
           /\ j \in Job /\ Fits(at) /\ Fits(jobs[j].at) /\ jobs[j].status # "UNUSED"
           /\ Exists(j) =>
                /\ OnCourse(at) /\ HasBehind(chunks, j, at)
                /\ OnCourse(jobs[j].at) /\ HasBehind(chunks, j, jobs[j].at)
                /\ at.shortlist = Choice => jobs[j].at.shortlist = Choice
                /\ run[r].step = "chunk_ok" => HasChunk(chunks, j, at)
                /\ run[r].step = "ranked" => at.stage = "FAST_RANKING" /\ run[r].list = Choice
                /\ run[r].step = "final" => at.stage = "FINALIZE"
<1>1. run[r].job \in Job /\ Fits(run[r].at) /\ Fits(jobs[run[r].job].at)
  BY RunFields DEF CourseInvariant
<1>2. RunOnCourse(jobs, chunks, run[r]) /\ RowOnCourse(chunks, run[r].job, jobs[run[r].job])
  BY <1>1 DEF CourseInvariant, Course, RunsOnCourse, RowsOnCourse
<1> QED
  BY <1>1, <1>2 DEF RunOnCourse, RowOnCourse, Exists

\* A run that goes on without a word to the database.
LEMMA GoOnCourse ==
    ASSUME CourseInvariant, NEW r \in Run, NEW y, run' = [run EXCEPT ![r] = y],
           RunOnCourse(jobs, chunks, y), UNCHANGED <<jobs, chunks>>,
           y.step \in Creating => run[r].step \in Creating /\ run[r].job = y.job
    PROVE  Course'
<1>1. RowsOnCourse' /\ ChunksNumbered' /\ \A j \in Job : Tame(j)
  BY IdleTame DEF CourseInvariant, Course
<1>2. RunOnCourse(jobs', chunks', y)
  OBVIOUS
<1> QED
  BY <1>1, <1>2, RunsStayOnCourse DEF CourseInvariant, Course

LEMMA SeeJobCourse ==
    ASSUME ScanJobAssumption, CourseInvariant, NEW r \in Run, SeeJob(r) PROVE Course'
<1>1. PICK j \in Job :
         /\ jobs[j].status \in Active
         /\ run' = [run EXCEPT ![r] = [Ended EXCEPT !.step = "seen", !.job = j, !.at = jobs[j].at]]
  BY Zenon DEF SeeJob
<1> DEFINE y == [Ended EXCEPT !.step = "seen", !.job = j, !.at = jobs[j].at]
<1>2. y.step = "seen" /\ y.job = j /\ y.at = jobs[j].at
  BY DEF Ended
<1>3. jobs[j].status \notin Gone /\ jobs[j].status # "UNUSED"
  BY <1>1 DEF Active, Gone
<1>4. run' = [run EXCEPT ![r] = y]
  BY <1>1
<1> HIDE DEF y
<1>5. OnCourse(y.at) /\ HasBehind(chunks, j, y.at)
  BY <1>2, <1>3 DEF CourseInvariant, Course, RowsOnCourse, RowOnCourse
<1>6. RunOnCourse(jobs, chunks, y) /\ y.step \notin Creating
  BY <1>2, <1>3, <1>5 DEF RunOnCourse, Creating
<1> QED
  BY <1>4, <1>6, GoOnCourse DEF SeeJob

LEMMA ClickCourse ==
    ASSUME ScanJobAssumption, CourseInvariant, NEW r \in Run, Pause(r) \/ Cancel(r) \/ PauseForRetry(r)
    PROVE  Course'
<1>0. PICK j, at : j = run[r].job /\ at = jobs[j].at
  OBVIOUS
<1>1. PICK status \in {"PAUSED", "CANCELLED"} :
         (Patch(j, status, at) \/ PatchFails(j, status)) /\ End(r) /\ UNCHANGED chunks
  BY <1>0 DEF Pause, Cancel, PauseForRetry
<1>2. status \in Active \cup Terminal
  BY DEF Active, Terminal
<1>3. run[r].step \in Holding
  BY DEF Pause, Cancel, PauseForRetry, Holding
<1>4. j \in Job /\ (Exists(j) => OnCourse(at) /\ HasBehind(chunks, j, at))
  BY <1>0, <1>3, AtCourse
<1>5. RowsOnCourse' /\ ChunksNumbered' /\ \A k \in Job : Tame(k)
  BY <1>0, <1>1, <1>2, <1>4, PatchOnCourse DEF CourseInvariant, Course
<1> QED
  BY <1>1, <1>5, EndOnCourse DEF CourseInvariant, Course

LEMMA ResumeCourse ==
    ASSUME ScanJobAssumption, CourseInvariant, NEW r \in Run, Resume(r) PROVE Course'
<1>0. PICK j, at : j = run[r].job /\ at = jobs[j].at
  OBVIOUS
<1>1. run[r].step = "seen" /\ Patch(j, "RUNNING", at) /\ UNCHANGED chunks /\ Exists(j) /\ run[r] \in RunState
  BY <1>0, RunFields DEF Resume, Patch, CourseInvariant
<1>2. j \in Job /\ OnCourse(at) /\ HasBehind(chunks, j, at)
  BY <1>0, <1>1, AtCourse DEF Holding
<1>3. "RUNNING" \in Active \cup Terminal
  BY DEF Active
<1>4. RowsOnCourse' /\ ChunksNumbered' /\ \A k \in Job : Tame(k)
  BY <1>0, <1>1, <1>2, <1>3, PatchOnCourse DEF CourseInvariant, Course
<1> DEFINE x == run[r]
           y == [x EXCEPT !.at = at]
<1>5. y.step = "seen" /\ y.job = j /\ y.at = at
  <2>1. x \in RunState /\ x.step = "seen" /\ x.job = j
    BY <1>0, <1>1
  <2> HIDE DEF x
  <2> QED
    BY <2>1 DEF RunState
<1>6. run' = [run EXCEPT ![r] = y]
  BY <1>0 DEF Resume
<1>7. jobs'[j].at = at /\ jobs'[j].status = "RUNNING"
  <2> DEFINE row == [status |-> "RUNNING", at |-> at]
  <2>1. jobs' = [jobs EXCEPT ![j] = row] /\ row.at = at /\ row.status = "RUNNING"
    BY <1>1 DEF Patch
  <2> HIDE DEF row
  <2> QED
    BY <1>2, <2>1 DEF CourseInvariant, Typed, JobsTyped
<1> HIDE DEF y
<1>8. RunOnCourse(jobs', chunks', y) /\ y.step \notin Creating
  BY <1>1, <1>2, <1>5, <1>7 DEF RunOnCourse, Creating
<1> QED
  BY <1>4, <1>6, <1>8, RunsStayOnCourse DEF CourseInvariant, Course

LEMMA StartScanCourse ==
    ASSUME ScanJobAssumption, CourseInvariant, NEW r \in Run, StartScan(r) PROVE Course'
<1>1. PICK j \in Job :
         /\ jobs[j].status = "UNUSED"
         /\ \A q \in Run : run[q].step \in {"create_delete", "create_post"} => run[q].job # j
         /\ run' = [run EXCEPT ![r] = [Ended EXCEPT
                      !.step = "create_delete", !.job = j, !.old = Prunable({j})]]
  BY Zenon DEF StartScan
<1> DEFINE y == [Ended EXCEPT !.step = "create_delete", !.job = j, !.old = Prunable({j})]
<1>2. y.step = "create_delete" /\ y.job = j
  BY DEF Ended
<1>3. run' = [run EXCEPT ![r] = y]
  BY <1>1
<1> HIDE DEF y
<1>4. \A q \in Run : run'[q] = IF q = r THEN y ELSE run[q]
  BY <1>3 DEF CourseInvariant, Typed
<1>5. RowsOnCourse' /\ ChunksNumbered' /\ \A k \in Job : Tame(k)
  BY IdleTame DEF CourseInvariant, Course, StartScan
<1>6. RunOnCourse(jobs', chunks', y)
  BY <1>1, <1>2 DEF RunOnCourse, Holding, StartScan
<1>7. RunsOnCourse'
  <2> SUFFICES ASSUME NEW q \in Run PROVE RunOnCourse(jobs', chunks', run'[q])
    BY DEF RunsOnCourse
  <2>1. CASE q = r
    BY <1>4, <1>6, <2>1
  <2>2. CASE q # r
    BY <1>4, <2>2 DEF StartScan, CourseInvariant, Course, RunsOnCourse
  <2> QED
    BY <2>1, <2>2
<1>8. CreateApart'
  <2> SUFFICES ASSUME NEW q \in Run, NEW p \in Run, q # p, run'[q].step \in Creating, run'[p].step \in Creating
               PROVE  run'[q].job # run'[p].job
    BY DEF CreateApart
  <2>1. CASE q = r
    BY <1>1, <1>2, <1>4, <2>1 DEF Creating
  <2>2. CASE p = r
    BY <1>1, <1>2, <1>4, <2>2 DEF Creating
  <2>3. CASE q # r /\ p # r
    BY <1>4, <2>3 DEF CourseInvariant, Course, CreateApart
  <2> QED
    BY <2>1, <2>2, <2>3
<1> QED
  BY <1>5, <1>7, <1>8 DEF Course

LEMMA PruneBeforeCreateCourse ==
    ASSUME ScanJobAssumption, CourseInvariant, NEW r \in Run, PruneBeforeCreate(r) PROVE Course'
<1> DEFINE x == run[r]
           y == [x EXCEPT !.step = "create_post", !.old = {}]
<1>1. x \in RunState /\ x.step = "create_delete" /\ x.job \in Job /\ RunOnCourse(jobs, chunks, x)
  BY RunFields DEF PruneBeforeCreate, CourseInvariant, Course, RunsOnCourse
<1>2. RowsOnCourse' /\ ChunksNumbered' /\ \A k \in Job : Tame(k)
  BY DeleteOnCourse DEF PruneBeforeCreate, CourseInvariant, Course
<1>3. y.step = "create_post" /\ y.job = x.job
  <2> HIDE DEF x
  <2> QED
    BY <1>1 DEF RunState
<1>4. run' = [run EXCEPT ![r] = y]
  BY DEF PruneBeforeCreate
<1> HIDE DEF y
<1>5. jobs'[x.job].status = "UNUSED"
  BY <1>1, <1>2 DEF Tame, RunOnCourse, Creating
<1>6. RunOnCourse(jobs', chunks', y)
  BY <1>3, <1>5 DEF RunOnCourse, Holding
<1> QED
  BY <1>1, <1>2, <1>3, <1>4, <1>6, RunsStayOnCourse DEF CourseInvariant, Course, Creating

\* A new row: nobody else has anything to do with its id.
LEMMA CreateCourse ==
    ASSUME ScanJobAssumption, CourseInvariant, NEW r \in Run, Create(r) PROVE Course'
<1>0. PICK j : j = run[r].job
  OBVIOUS
<1>1. j \in Job /\ run[r].step = "create_post" /\ RunOnCourse(jobs, chunks, run[r])
  BY <1>0, RunFields DEF Create, CourseInvariant, Course, RunsOnCourse
<1>2. jobs[j].status = "UNUSED"
  BY <1>0, <1>1 DEF RunOnCourse, Creating
<1>3. End(r) /\ UNCHANGED chunks
  BY DEF Create
<1>4. CASE UNCHANGED <<jobs, newer>>
  <2>1. RowsOnCourse' /\ ChunksNumbered' /\ \A k \in Job : Tame(k)
    BY <1>3, <1>4, IdleTame DEF CourseInvariant, Course
  <2> QED
    BY <1>3, <2>1, EndOnCourse DEF CourseInvariant, Course
<1>5. CASE jobs' = [jobs EXCEPT ![j] = [status |-> "CREATED", at |-> Start]]
  <2> DEFINE row == [status |-> "CREATED", at |-> Start]
             y == Ended
  <2>1. row.status = "CREATED" /\ row.at = Start /\ y.step = "idle"
    BY DEF Ended
  <2>2. jobs' = [jobs EXCEPT ![j] = row] /\ run' = [run EXCEPT ![r] = y]
    BY <1>3, <1>5 DEF End
  <2> HIDE DEF row, y
  <2>3. /\ \A k \in Job : jobs'[k] = IF k = j THEN row ELSE jobs[k]
        /\ \A q \in Run : run'[q] = IF q = r THEN y ELSE run[q]
    BY <2>2 DEF CourseInvariant, Typed, JobsTyped
  <2>4. ASSUME NEW k \in Job, k # j
        PROVE  Tame(k)
    BY <1>3, <2>3, <2>4 DEF Tame, Covered
  <2>5. OnCourse(Start) /\ HasBehind(chunks, j, Start)
    <3>1. /\ Start.stage = "BENCHMARK" /\ Start.chunk = 0 /\ Start.offset = 0 /\ Start.shortlist = <<>>
      BY DEF Start
    <3>2. OnCourse(Start)
      BY <3>1, WorkTypes DEF OnCourse, AllDeepStages
    <3>3. ASSUME NEW s \in Work, NEW i \in DOMAIN ItemsOf(s)
          PROVE  ~Behind(Start, s, i)
      <4>1. s \in AllDeepStages \cup {"OHLCV"}
        BY WorkTypes DEF AllDeepStages
      <4>2. StageNo[s] \in 2..7 /\ StageNo["BENCHMARK"] = 1 /\ s # "BENCHMARK"
        BY <4>1, StageNumbers DEF AllDeepStages
      <4> QED
        BY <3>1, <4>2 DEF Behind
    <3> QED
      BY <3>2, <3>3 DEF HasBehind
  <2>6. RowsOnCourse'
    <3> SUFFICES ASSUME NEW k \in Job PROVE RowOnCourse(chunks', k, jobs'[k])
      BY DEF RowsOnCourse
    <3>1. CASE k = j
      BY <1>3, <2>1, <2>3, <2>5, <3>1 DEF RowOnCourse
    <3>2. CASE k # j
      BY <1>3, <2>3, <3>2 DEF CourseInvariant, Course, RowsOnCourse
    <3> QED
      BY <3>1, <3>2
  <2>7. RunsOnCourse'
    <3> SUFFICES ASSUME NEW q \in Run PROVE RunOnCourse(jobs', chunks', run'[q])
      BY DEF RunsOnCourse
    <3>1. CASE q = r
      BY <2>1, <2>3, <3>1 DEF RunOnCourse, Creating, Holding
    <3>2. CASE q # r
      <4>1. run'[q] = run[q] /\ RunOnCourse(jobs, chunks, run[q]) /\ run[q].job \in Job
        BY <2>3, <3>2, RunFields DEF CourseInvariant, Course, RunsOnCourse
      <4>2. CASE run[q].step \in Creating \cup Holding
        <5>1. run[q].job # j
          BY <1>0, <1>1, <1>2, <3>2, <4>1, <4>2 DEF RunOnCourse, CourseInvariant, Course, CreateApart, Creating
        <5> QED
          BY <2>4, <4>1, <5>1, RunStaysOnCourse
      <4>3. CASE run[q].step \notin Creating \cup Holding
        BY <4>1, <4>3 DEF RunOnCourse
      <4> QED
        BY <4>2, <4>3
    <3> QED
      BY <3>1, <3>2
  <2>8. CreateApart'
    BY <2>1, <2>3 DEF CreateApart, Creating, CourseInvariant, Course
  <2>9. ChunksNumbered'
    BY <1>3 DEF ChunksNumbered, CourseInvariant, Course
  <2> QED
    BY <2>6, <2>7, <2>8, <2>9 DEF Course
<1> QED
  BY <1>0, <1>4, <1>5 DEF Create

LEMMA ProcessChunkCourse ==
    ASSUME ScanJobAssumption, CourseInvariant, NEW r \in Run, NEW ok \in BOOLEAN, ProcessChunk(r, ok)
    PROVE  Course'
<1>0. PICK j, at : j = run[r].job /\ at = run[r].at
  OBVIOUS
<1> DEFINE tickers == IF at.stage = "BENCHMARK" THEN {}
                      ELSE NextChunk(Items(at.stage, at.shortlist), at.offset)
           d == ChunkOf(r, tickers, ok)
           step == IF ok THEN "chunk_ok" ELSE "chunk_failed"
           x == run[r]
           y == [x EXCEPT !.step = step]
<1>1. /\ x.step = "seen" /\ at.stage \in CacheStages /\ Exists(j) /\ UNCHANGED <<jobs, newer>>
      /\ RecordChunk(d) /\ run' = [run EXCEPT ![r] = y] /\ x \in RunState
  BY <1>0, RunFields DEF ProcessChunk, CourseInvariant
<1>2. /\ j \in Job /\ Fits(at) /\ OnCourse(at) /\ HasBehind(chunks, j, at) /\ jobs[j].status # "UNUSED"
      /\ at.shortlist = Choice => jobs[j].at.shortlist = Choice
  BY <1>0, <1>1, AtCourse DEF Holding
<1>3. /\ d.job = j /\ d.stage = at.stage /\ d.no = at.chunk + 1 /\ d.tickers = tickers
  BY <1>0 DEF ChunkOf
<1>4. at.stage \in Work => tickers = NextChunk(ItemsOf(at.stage), at.offset)
  <2>1. "BENCHMARK" \notin Work
    BY WorkTypes DEF AllDeepStages
  <2> QED
    BY <1>1, <1>2, <2>1, CourseFields
<1>5. y.step = step /\ y.job = j /\ y.at = at
  <2>1. x \in RunState /\ x.job = j /\ x.at = at
    BY <1>0, <1>1
  <2> HIDE DEF x, step
  <2> QED
    BY <2>1 DEF RunState
<1> HIDE DEF y, d, tickers
<1>6. Numbered(d)
  BY <1>2, <1>3, <1>4, NumberedOnCourse
<1>7. RowsOnCourse' /\ ChunksNumbered' /\ d \in chunks' /\ \A k \in Job : Tame(k)
  BY <1>1, <1>6, RecordOnCourse DEF CourseInvariant, Course
<1>8. HasChunk(chunks', j, at)
  BY <1>3, <1>4, <1>7 DEF HasChunk
<1>9. HasBehind(chunks', j, at)
  <2>1. Covered(chunks, chunks', j)
    BY <1>1, <1>2, <1>7 DEF Tame, Exists
  <2> QED
    BY <1>2, <2>1, CoveredKeeps
<1>10. RunOnCourse(jobs', chunks', y) /\ y.step \notin Creating
  <2>1. y.step \in {"chunk_ok", "chunk_failed"}
    BY <1>5
  <2> QED
    BY <1>1, <1>2, <1>5, <1>8, <1>9, <2>1 DEF RunOnCourse, Creating, Holding
<1> QED
  BY <1>1, <1>7, <1>10, RunsStayOnCourse DEF CourseInvariant, Course

\* However late the patch comes, the row goes to a place all of whose work is on record.
LEMMA CommitChunkCourse ==
    ASSUME ScanJobAssumption, CourseInvariant, NEW r \in Run, CommitChunk(r) PROVE Course'
<1>0. PICK j, at, list : j = run[r].job /\ at = run[r].at /\ list = jobs[run[r].job].at.shortlist
  OBVIOUS
<1> DEFINE old == AfterChunk(at)
           new == [old EXCEPT !.shortlist = list]
<1>1. /\ run[r].step = "chunk_ok" /\ End(r) /\ UNCHANGED chunks
      /\ Patch(j, "RUNNING", new) \/ PatchFails(j, "RUNNING")
  BY <1>0 DEF CommitChunk
<1>2. j \in Job /\ Fits(at) /\ at.stage \in CacheStages
  BY <1>0, <1>1, RunFields DEF CourseInvariant
<1>3. /\ new.stage = old.stage /\ new.offset = old.offset /\ new.chunk = old.chunk
      /\ new.shortlist = list
  <2>1. old \in Position
    BY <1>2, AfterChunkFields DEF Fits
  <2> HIDE DEF old
  <2> QED
    BY <2>1 DEF Position
<1> HIDE DEF new
<1>4. ASSUME Exists(j)
      PROVE  /\ OnCourse(new) /\ HasBehind(chunks, j, new)
             /\ jobs[j].at.shortlist = Choice => new.shortlist = Choice
  <2>1. /\ OnCourse(at) /\ HasBehind(chunks, j, at) /\ HasChunk(chunks, j, at)
        /\ OnCourse(jobs[j].at) /\ at.shortlist = Choice => list = Choice
    BY <1>0, <1>1, <1>4, AtCourse DEF Holding
  <2>2. list \in {<<>>, Choice} /\ (at.shortlist = Choice => list = Choice)
    BY <1>0, <1>1, <1>4, AtCourse DEF Holding, OnCourse
  <2>3. OnCourse(new)
    BY <1>2, <1>3, <2>1, <2>2, <1>0, <1>1, <1>4, AtCourse, CourseAfterChunk DEF Holding
  <2>4. HasBehind(chunks, j, new)
    BY <1>0, <1>1, <1>2, <1>3, <1>4, AtCourse, BehindAfterChunk DEF Holding
  <2> QED
    BY <1>0, <1>3, <2>3, <2>4
<1>5. "RUNNING" \in Active \cup Terminal
  BY DEF Active
<1>6. RowsOnCourse' /\ ChunksNumbered' /\ \A k \in Job : Tame(k)
  BY <1>1, <1>2, <1>4, <1>5, PatchOnCourse DEF CourseInvariant, Course
<1> QED
  BY <1>1, <1>6, EndOnCourse DEF CourseInvariant, Course

LEMMA RankCourse ==
    ASSUME ScanJobAssumption, OneList, CourseInvariant, NEW r \in Run, Rank(r) PROVE Course'
<1>0. PICK j, at : j = run[r].job /\ at = run[r].at
  OBVIOUS
<1>1. PICK list \in Shortlists : run' = [run EXCEPT ![r].step = "ranked", ![r].list = list]
  BY DEF Rank
<1> DEFINE d == ChunkOf(r, {Universe[i] : i \in DOMAIN Universe}, TRUE)
           x == run[r]
           y == [x EXCEPT !.step = "ranked", !.list = list]
<1>2. /\ x.step = "seen" /\ at.stage = "FAST_RANKING" /\ Exists(j) /\ UNCHANGED <<jobs, newer>>
      /\ RecordChunk(d) /\ run' = [run EXCEPT ![r] = y] /\ x \in RunState /\ list = Choice
  BY <1>0, <1>1, RunFields, TheChoice DEF Rank, CourseInvariant
<1>3. /\ j \in Job /\ OnCourse(at) /\ HasBehind(chunks, j, at) /\ jobs[j].status # "UNUSED"
      /\ at.shortlist = Choice => jobs[j].at.shortlist = Choice
  BY <1>0, <1>2, AtCourse DEF Holding
<1>4. d.stage = "FAST_RANKING"
  BY <1>0, <1>2 DEF ChunkOf
<1>5. y.step = "ranked" /\ y.job = j /\ y.at = at /\ y.list = Choice
  <2>1. x \in RunState /\ x.job = j /\ x.at = at
    BY <1>0, <1>2
  <2> HIDE DEF x
  <2> QED
    BY <1>2, <2>1 DEF RunState
<1> HIDE DEF y, d
<1>6. Numbered(d)
  BY <1>4, WorkTypes DEF Numbered, AllDeepStages
<1>7. RowsOnCourse' /\ ChunksNumbered' /\ \A k \in Job : Tame(k)
  BY <1>2, <1>6, RecordOnCourse DEF CourseInvariant, Course
<1>8. HasBehind(chunks', j, at)
  <2>1. Covered(chunks, chunks', j)
    BY <1>2, <1>3, <1>7 DEF Tame, Exists
  <2> QED
    BY <1>3, <2>1, CoveredKeeps
<1>9. RunOnCourse(jobs', chunks', y) /\ y.step \notin Creating
  BY <1>2, <1>3, <1>5, <1>8 DEF RunOnCourse, Creating
<1> QED
  BY <1>2, <1>7, <1>9, RunsStayOnCourse DEF CourseInvariant, Course

LEMMA CommitRankingCourse ==
    ASSUME ScanJobAssumption, CourseInvariant, NEW r \in Run, CommitRanking(r) PROVE Course'
<1>0. PICK j, at, n : j = run[r].job /\ at = run[r].at /\ n = jobs[run[r].job].at.processed
  OBVIOUS
<1>1. run[r].step = "ranked" /\ End(r) /\ UNCHANGED chunks
  BY DEF CommitRanking
<1>2. j \in Job /\ Fits(at) /\ run[r].list \in Choices
  BY <1>0, <1>1, RunFields DEF CourseInvariant
<1> DEFINE old == AfterRanking(at, run[r].list)
           new == [old EXCEPT !.processed = n]
<1>3. Patch(j, "RUNNING", new) \/ PatchFails(j, "RUNNING")
  BY <1>0 DEF CommitRanking
<1>4. /\ new.stage = NextDeepStage("FAST_RANKING", run[r].list) /\ new.offset = 0
      /\ new.chunk = at.chunk + 1 /\ new.shortlist = run[r].list
  <2>1. /\ old \in Position /\ old.stage = NextDeepStage("FAST_RANKING", run[r].list) /\ old.offset = 0
        /\ old.chunk = at.chunk + 1 /\ old.shortlist = run[r].list
    BY <1>2, AfterRankingFields DEF Fits
  <2> HIDE DEF old
  <2> QED
    BY <2>1 DEF Position
<1> HIDE DEF new
<1>5. ASSUME Exists(j)
      PROVE  /\ OnCourse(new) /\ HasBehind(chunks, j, new)
             /\ jobs[j].at.shortlist = Choice => new.shortlist = Choice
  <2>1. /\ OnCourse(at) /\ HasBehind(chunks, j, at)
        /\ at.stage = "FAST_RANKING" /\ run[r].list = Choice
    BY <1>0, <1>1, <1>5, AtCourse DEF Holding
  <2>2. OnCourse(new)
    BY <1>2, <1>4, <2>1, CourseAfterRanking
  <2>3. HasBehind(chunks, j, new)
    BY <1>4, <2>1, BehindAfterRanking
  <2> QED
    BY <1>4, <2>1, <2>2, <2>3
<1>6. "RUNNING" \in Active \cup Terminal
  BY DEF Active
<1>7. RowsOnCourse' /\ ChunksNumbered' /\ \A k \in Job : Tame(k)
  BY <1>1, <1>2, <1>3, <1>5, <1>6, PatchOnCourse DEF CourseInvariant, Course
<1> QED
  BY <1>1, <1>7, EndOnCourse DEF CourseInvariant, Course

LEMMA BeginFinalCourse ==
    ASSUME ScanJobAssumption, CourseInvariant, NEW r \in Run, BeginFinal(r) PROVE Course'
<1> DEFINE x == run[r]
           y == [x EXCEPT !.step = "final"]
<1>1. /\ x.step = "seen" /\ x.at.stage = "FINALIZE" /\ UNCHANGED <<jobs, newer, chunks>>
      /\ run' = [run EXCEPT ![r] = y] /\ x \in RunState /\ RunOnCourse(jobs, chunks, x)
  BY RunFields DEF BeginFinal, CourseInvariant, Course, RunsOnCourse
<1>2. y.step = "final" /\ y.job = x.job /\ y.at = x.at
  <2> HIDE DEF x
  <2> QED
    BY <1>1 DEF RunState
<1> HIDE DEF y, x
<1>3. RunOnCourse(jobs, chunks, y) /\ y.step \notin Creating
  BY <1>1, <1>2 DEF RunOnCourse, Creating, Holding
<1> QED
  BY <1>1, <1>3, GoOnCourse

\* A position at the end of the stages, for a row that a run has seen at FINALIZE.
LEMMA EndPosition ==
    ASSUME ScanJobAssumption, CourseInvariant, NEW r \in Run, run[r].step = "final", Exists(run[r].job),
           NEW new, new.stage \in {"FINALIZE", "COMPLETED"}, new.shortlist = jobs[run[r].job].at.shortlist
    PROVE  OnCourse(new) /\ HasBehind(chunks, run[r].job, new) /\ new.shortlist = Choice
<1>1. /\ OnCourse(run[r].at) /\ HasBehind(chunks, run[r].job, run[r].at) /\ run[r].at.stage = "FINALIZE"
      /\ run[r].at.shortlist = Choice => jobs[run[r].job].at.shortlist = Choice
  BY AtCourse DEF Holding
<1>2. new.shortlist = Choice
  BY <1>1 DEF OnCourse
<1>3. OnCourse(new)
  BY <1>2, WorkTypes DEF OnCourse, AllDeepStages
<1> QED
  BY <1>1, <1>2, <1>3, BehindAtEnd

\* Even a heartbeat that takes a row to FINALIZE from wherever it stands by now.
LEMMA HeartbeatCourse ==
    ASSUME ScanJobAssumption, CourseInvariant, NEW r \in Run, Heartbeat(r) PROVE Course'
<1>0. PICK j, old : j = run[r].job /\ old = jobs[run[r].job].at
  OBVIOUS
<1> DEFINE new == [old EXCEPT !.stage = "FINALIZE"]
           x == run[r]
           n == x.beat + 1
           y == [x EXCEPT !.beat = n]
<1>1. /\ x.step = "final" /\ UNCHANGED chunks /\ run' = [run EXCEPT ![r] = y]
      /\ Patch(j, "RUNNING", new) \/ UNCHANGED <<jobs, newer>>
  BY <1>0 DEF Heartbeat
<1>2. /\ j \in Job /\ old \in Position /\ x \in RunState /\ RunOnCourse(jobs, chunks, x) /\ x.job = j
  BY <1>0, RunFields DEF CourseInvariant, Course, RunsOnCourse, Fits
<1>3. new.stage = "FINALIZE" /\ new.shortlist = old.shortlist
  BY <1>2 DEF Position
<1>4. y.step = x.step /\ y.job = x.job /\ y.at = x.at
  <2> HIDE DEF x, n
  <2> QED
    BY <1>2 DEF RunState
<1> HIDE DEF new, y
<1>5. RowsOnCourse' /\ ChunksNumbered' /\ \A k \in Job : Tame(k)
  <2>1. CASE Patch(j, "RUNNING", new)
    <3>1. Exists(j) => OnCourse(new) /\ HasBehind(chunks, j, new) /\ new.shortlist = Choice
      BY <1>0, <1>1, <1>3, EndPosition
    <3>2. "RUNNING" \in Active \cup Terminal
      BY DEF Active
    <3> QED
      BY <1>1, <1>2, <2>1, <3>1, <3>2, PatchOnCourse DEF CourseInvariant, Course
  <2>2. CASE UNCHANGED <<jobs, newer>>
    BY <1>1, <2>2, IdleTame DEF CourseInvariant, Course
  <2> QED
    BY <1>1, <2>1, <2>2
<1>6. RunOnCourse(jobs', chunks', x)
  BY <1>2, <1>5, RunStaysOnCourse
<1>7. RunOnCourse(jobs', chunks', y) /\ y.step \notin Creating
  BY <1>1, <1>4, <1>6 DEF RunOnCourse, Creating
<1> QED
  BY <1>1, <1>5, <1>7, RunsStayOnCourse DEF CourseInvariant, Course

LEMMA CommitFinalCourse ==
    ASSUME ScanJobAssumption, CourseInvariant, NEW r \in Run, CommitFinal(r) PROVE Course'
<1>0. PICK j, old : j = run[r].job /\ old = jobs[run[r].job].at
  OBVIOUS
<1>1. PICK status \in Completed \cup {"FINALIZE_RETRY_REQUIRED"} :
         \/ /\ Patch(run[r].job, status,
                     [jobs[run[r].job].at EXCEPT
                         !.stage = IF status \in Completed THEN "COMPLETED" ELSE "FINALIZE",
                         !.offset = 0])
            /\ run' = [run EXCEPT ![r].step = "prune"]
         \/ /\ PatchFails(run[r].job, status)
            /\ IF Exists(run[r].job) THEN End(r) ELSE run' = [run EXCEPT ![r].step = "prune"]
  BY Zenon DEF CommitFinal
<1>2. PICK stage : stage = IF status \in Completed THEN "COMPLETED" ELSE "FINALIZE"
  OBVIOUS
<1> DEFINE new == [old EXCEPT !.stage = stage, !.offset = 0]
           x == run[r]
           y == [x EXCEPT !.step = "prune"]
<1>3. /\ x.step = "final" /\ UNCHANGED chunks /\ j \in Job /\ old \in Position /\ x \in RunState
      /\ Patch(j, status, new) \/ PatchFails(j, status)
      /\ End(r) \/ run' = [run EXCEPT ![r] = y]
  BY <1>0, <1>1, <1>2, RunFields DEF CommitFinal, CourseInvariant, Fits
<1>4. new.stage = stage /\ new.shortlist = old.shortlist /\ stage \in {"FINALIZE", "COMPLETED"}
  BY <1>2, <1>3 DEF Position
<1>5. y.step = "prune"
  <2> HIDE DEF x
  <2> QED
    BY <1>3 DEF RunState
<1> HIDE DEF new, y
<1>6. RowsOnCourse' /\ ChunksNumbered' /\ \A k \in Job : Tame(k)
  <2>1. Exists(j) => OnCourse(new) /\ HasBehind(chunks, j, new) /\ new.shortlist = Choice
    BY <1>0, <1>3, <1>4, EndPosition
  <2>2. status \in Active \cup Terminal
    BY Statuses
  <2> QED
    BY <1>3, <2>1, <2>2, PatchOnCourse DEF CourseInvariant, Course
<1>7. CASE End(r)
  BY <1>6, <1>7, EndOnCourse DEF CourseInvariant, Course
<1>8. CASE run' = [run EXCEPT ![r] = y]
  <2>1. RunOnCourse(jobs', chunks', y) /\ y.step \notin Creating
    BY <1>5 DEF RunOnCourse, Creating, Holding
  <2> QED
    BY <1>6, <1>8, <2>1, RunsStayOnCourse DEF CourseInvariant, Course
<1> QED
  BY <1>3, <1>7, <1>8

LEMMA PruneCourse ==
    ASSUME ScanJobAssumption, CourseInvariant, NEW r \in Run, Crash(r) \/ PruneList(r) \/ PruneDelete(r)
    PROVE  Course'
<1>1. CASE Crash(r)
  BY <1>1, IdleTame, EndOnCourse DEF Crash, CourseInvariant, Course
<1>2. CASE PruneList(r)
  <2> DEFINE x == run[r]
             y == [x EXCEPT !.step = "prune_delete", !.old = Prunable({x.job})]
  <2>1. x \in RunState /\ run' = [run EXCEPT ![r] = y] /\ UNCHANGED <<jobs, newer, chunks>>
    BY <1>2, RunFields DEF PruneList, CourseInvariant
  <2>2. y.step = "prune_delete"
    <3> HIDE DEF x
    <3> QED
      BY <2>1 DEF RunState
  <2> HIDE DEF y
  <2>3. RunOnCourse(jobs, chunks, y) /\ y.step \notin Creating
    BY <2>2 DEF RunOnCourse, Creating, Holding
  <2> QED
    BY <2>1, <2>3, GoOnCourse
<1>3. CASE PruneDelete(r)
  BY <1>3, DeleteOnCourse, EndOnCourse DEF PruneDelete, CourseInvariant, Course
<1> QED
  BY <1>1, <1>2, <1>3

-----------------------------------------------------------------------------
(* The specification, with overlapping runs.                               *)

LEMMA CourseStart == ScanJobAssumption /\ Init => CourseInvariant
<1> SUFFICES ASSUME ScanJobAssumption, Init PROVE CourseInvariant
  OBVIOUS
<1>1. \A j \in Job : jobs[j].status = "UNUSED"
  BY DEF Init
<1>2. \A r \in Run : run[r].step = "idle"
  BY DEF Init, Ended
<1> QED
  BY <1>1, <1>2, TypedStart DEF CourseInvariant, Course, RowsOnCourse, RowOnCourse, RunsOnCourse,
     RunOnCourse, ChunksNumbered, CreateApart, Init, Gone, Holding, Creating

LEMMA CourseStep ==
    ASSUME ScanJobAssumption, OneList, CourseInvariant, [Next]_vars PROVE CourseInvariant'
<1>1. CASE UNCHANGED vars
  <2>1. jobs' = jobs /\ chunks' = chunks /\ run' = run
    BY <1>1 DEF vars
  <2>2. Course'
    BY <2>1 DEF CourseInvariant, Course, RowsOnCourse, RunsOnCourse, ChunksNumbered, CreateApart
  <2> QED
    BY <2>2, TypedStep DEF CourseInvariant
<1>2. ASSUME NEW r \in Run,
             \/ SeeJob(r) \/ Pause(r) \/ Resume(r) \/ Cancel(r) \/ Crash(r)
             \/ StartScan(r) \/ PruneBeforeCreate(r) \/ Create(r)
      PROVE  Course'
  BY <1>2, SeeJobCourse, ClickCourse, ResumeCourse, PruneCourse, StartScanCourse,
     PruneBeforeCreateCourse, CreateCourse
<1>3. ASSUME NEW r \in Run,
             \/ \E ok \in BOOLEAN : ProcessChunk(r, ok)
             \/ CommitChunk(r) \/ PauseForRetry(r) \/ Rank(r) \/ CommitRanking(r)
      PROVE  Course'
  BY <1>3, ProcessChunkCourse, CommitChunkCourse, ClickCourse, RankCourse, CommitRankingCourse
<1>4. ASSUME NEW r \in Run,
             BeginFinal(r) \/ Heartbeat(r) \/ CommitFinal(r) \/ PruneList(r) \/ PruneDelete(r)
      PROVE  Course'
  BY <1>4, BeginFinalCourse, HeartbeatCourse, CommitFinalCourse, PruneCourse
<1> QED
  BY <1>1, <1>2, <1>3, <1>4, TypedStep DEF Next, CourseInvariant

\* The items a row's position speaks of are those of the one shortlist, or there are none yet.
LEMMA CourseSkipsNothing == ASSUME ScanJobAssumption, CourseInvariant PROVE NothingSkipped
<1> SUFFICES ASSUME NEW j \in Job, Exists(j), NEW s \in Work,
                    NEW i \in DOMAIN Items(s, jobs[j].at.shortlist), Behind(jobs[j].at, s, i)
             PROVE  \E c \in chunks : Worked(j, s, i, c)
  BY DEF NothingSkipped, Work
<1>1. OnCourse(jobs[j].at) /\ HasBehind(chunks, j, jobs[j].at)
  BY DEF CourseInvariant, Course, RowsOnCourse, RowOnCourse, Exists
<1>2. Items(s, jobs[j].at.shortlist) = ItemsOf(s)
  <2>1. CASE s = "OHLCV"
    BY <2>1 DEF ItemsOf, Items
  <2>2. CASE s # "OHLCV"
    <3>1. jobs[j].at.shortlist # <<>>
      <4> SUFFICES ASSUME jobs[j].at.shortlist = <<>> PROVE FALSE
        OBVIOUS
      <4>1. s \in Stages /\ <<>> \in Choices
        BY WorkTypes DEF Choices
      <4>2. Len(Items(s, <<>>)) = 0 /\ Items(s, <<>>) \in Seq(Ticker)
        BY <2>2, <4>1, ItemTypes
      <4> QED
        BY <4>2
    <3>2. jobs[j].at.shortlist = Choice
      BY <1>1, <3>1 DEF OnCourse
    <3> QED
      BY <3>2 DEF ItemsOf
  <2> QED
    BY <2>1, <2>2
<1>3. PICK c \in chunks : c.job = j /\ c.stage = s /\ ItemsOf(s)[i] \in c.tickers
  BY <1>1, <1>2 DEF HasBehind
<1> QED
  BY <1>2, <1>3 DEF Worked

\* The stored stage and offset are enough to resume from: however many runs overlap, crash
\* and patch the row late, every ticker before the stored checkpoint has been worked on. With
\* one run at a time this needs nothing else; overlapping runs must rank the same tickers.
THEOREM NothingIsSkipped == ASSUME OneRun \/ OneList PROVE Spec => []NothingSkipped
<1>1. CASE OneRun
  <2>1. NothingLost => NothingSkipped
    BY DEF NothingLost, NothingSkipped
  <2>2. Spec => []NothingLost
    BY <1>1, NothingIsLost
  <2> QED
    BY <2>1, <2>2, PTL
<1>2. CASE OneList
  <2>1. Init => CourseInvariant
    BY ScanJobAssumption, CourseStart
  <2>2. CourseInvariant /\ [Next]_vars => CourseInvariant'
    BY <1>2, ScanJobAssumption, CourseStep
  <2>3. CourseInvariant => NothingSkipped
    BY ScanJobAssumption, CourseSkipsNothing
  <2> QED
    BY <2>1, <2>2, <2>3, PTL DEF Spec
<1> QED
  BY <1>1, <1>2

=============================================================================
