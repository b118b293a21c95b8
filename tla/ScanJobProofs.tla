---------------------------- MODULE ScanJobProofs ----------------------------
(***************************************************************************)
(* The types of the resumable scan, for every universe, shortlist, chunk   *)
(* size, set of deep stages and number of jobs, and for any number of      *)
(* script runs: what its operators on stages, chunks and positions return, *)
(* and what each action writes.                                            *)
(***************************************************************************)
EXTENDS ScanJob, FiniteSetTheorems, SequenceTheorems, TLAPS

-----------------------------------------------------------------------------
(* The order of the stages.                                                *)

Rank4(s) == CHOOSE i \in DOMAIN DeepOrder : DeepOrder[i] = s

\* Each deep stage has one place in DeepOrder.
LEMMA DeepPlaces ==
    /\ DOMAIN DeepOrder = 1..4
    /\ \A i \in 1..4 : DeepOrder[i] \in AllDeepStages
    /\ \A s \in AllDeepStages : Rank4(s) \in 1..4 /\ DeepOrder[Rank4(s)] = s
    /\ \A i \in 1..4 : Rank4(DeepOrder[i]) = i
<1>1. /\ DOMAIN DeepOrder = 1..4
      /\ DeepOrder[1] = "KSEI_SHORTLIST" /\ DeepOrder[2] = "NEWS_SHORTLIST"
      /\ DeepOrder[3] = "FUNDAMENTAL_SHORTLIST" /\ DeepOrder[4] = "IDX_FUNDAMENTAL_SHORTLIST"
  BY DEF DeepOrder
<1>2. \A i \in 1..4 : DeepOrder[i] \in AllDeepStages
  BY <1>1 DEF AllDeepStages
<1>3. ASSUME NEW s \in AllDeepStages
      PROVE  \E i \in 1..4 : DeepOrder[i] = s
  BY <1>1, <1>3 DEF AllDeepStages
<1>4. \A s \in AllDeepStages : Rank4(s) \in 1..4 /\ DeepOrder[Rank4(s)] = s
  BY <1>1, <1>3 DEF Rank4
<1>5. \A i, k \in 1..4 : DeepOrder[i] = DeepOrder[k] => i = k
  BY <1>1
<1>6. \A i \in 1..4 : Rank4(DeepOrder[i]) = i
  BY <1>2, <1>4, <1>5
<1> QED
  BY <1>1, <1>2, <1>4, <1>6

\* The numbers by which the properties compare stages.
LEMMA StageNumbers ==
    /\ StageNo["BENCHMARK"] = 1 /\ StageNo["OHLCV"] = 2 /\ StageNo["FAST_RANKING"] = 3
    /\ StageNo["FINALIZE"] = 8 /\ StageNo["COMPLETED"] = 9
    /\ \A s \in AllDeepStages : StageNo[s] = 3 + Rank4(s) /\ StageNo[s] \in 4..7
    /\ \A s \in Stages : StageNo[s] \in 1..9
<1>1. /\ StageNo["BENCHMARK"] = 1 /\ StageNo["OHLCV"] = 2 /\ StageNo["FAST_RANKING"] = 3
      /\ StageNo["FINALIZE"] = 8 /\ StageNo["COMPLETED"] = 9
  BY DEF StageNo, Stages, CacheStages
<1>2. \A s \in AllDeepStages : StageNo[s] = 3 + Rank4(s)
  BY DEF StageNo, Stages, CacheStages, AllDeepStages, Rank4
<1>3. \A s \in AllDeepStages : StageNo[s] \in 4..7
  BY <1>2, DeepPlaces
<1> QED
  BY <1>1, <1>2, <1>3 DEF Stages, CacheStages

LEMMA LeastOfFour ==
    ASSUME NEW L, L \subseteq 1..4, L # {}
    PROVE  \E i \in L : \A k \in L : i <= k
<1>1. CASE 1 \in L
  BY <1>1
<1>2. CASE 1 \notin L /\ 2 \in L
  BY <1>2
<1>3. CASE 1 \notin L /\ 2 \notin L /\ 3 \in L
  BY <1>3
<1>4. CASE 1 \notin L /\ 2 \notin L /\ 3 \notin L
  <2>1. PICK i \in L : TRUE
    OBVIOUS
  <2>2. \A k \in L : k = 4
    BY <1>4
  <2>3. \A k \in L : i <= k
    BY <2>2, <2>1
  <2> QED
    BY <2>1, <2>3
<1> QED
  BY <1>1, <1>2, <1>3, <1>4

\* The first enabled deep stage after the given one.
LEMMA NextDeep ==
    ASSUME ScanJobAssumption, NEW after \in {"FAST_RANKING"} \cup AllDeepStages, NEW list
    PROVE  LET next == NextDeepStage(after, list) IN
           /\ next \in DeepStages \cup {"FINALIZE"}
           /\ StageNo[after] < StageNo[next]
           /\ next # "FINALIZE" => list # <<>>
           /\ list = <<>> \/ \A s \in DeepStages : StageNo[after] < StageNo[s] => StageNo[next] <= StageNo[s]
<1> DEFINE from == IF after = "FAST_RANKING" THEN 0 ELSE Rank4(after)
           later == {i \in DOMAIN DeepOrder : i > from /\ DeepOrder[i] \in DeepStages}
           next == NextDeepStage(after, list)
<1>1. next = IF list = <<>> \/ later = {} THEN "FINALIZE"
             ELSE DeepOrder[CHOOSE i \in later : \A k \in later : i <= k]
  BY DEF NextDeepStage, Rank4
<1>2. from \in 0..4 /\ StageNo[after] = 3 + from
  BY DeepPlaces, StageNumbers DEF AllDeepStages
<1>3. later \subseteq 1..4 /\ DeepStages \subseteq AllDeepStages
  BY DeepPlaces DEF ScanJobAssumption
<1>4. ASSUME NEW s \in DeepStages, StageNo[after] < StageNo[s]
      PROVE  Rank4(s) \in later
  BY <1>2, <1>3, <1>4, DeepPlaces, StageNumbers
<1>5. CASE list = <<>> \/ later = {}
  BY <1>1, <1>2, <1>4, <1>5, StageNumbers
<1>6. CASE list # <<>> /\ later # {}
  <2>1. \E i \in later : \A k \in later : i <= k
    <3> HIDE DEF later
    <3> QED
      BY <1>3, <1>6, LeastOfFour
  <2>2. PICK i \in later : next = DeepOrder[i] /\ \A k \in later : i <= k
    <3> HIDE DEF later, next
    <3> QED
      BY <1>1, <1>6, <2>1
  <2>3. next \in DeepStages /\ next \in AllDeepStages /\ StageNo[next] = 3 + i /\ i > from /\ i \in 1..4
    BY <1>3, <2>2, DeepPlaces, StageNumbers
  <2>4. ASSUME NEW s \in DeepStages, StageNo[after] < StageNo[s]
        PROVE  StageNo[next] <= StageNo[s]
    BY <1>3, <1>4, <2>2, <2>3, <2>4, StageNumbers, DeepPlaces
  <2> QED
    BY <1>2, <1>6, <2>3, <2>4 DEF AllDeepStages
<1> QED
  BY <1>5, <1>6

-----------------------------------------------------------------------------
(* Items and chunks.                                                       *)

\* What a shortlist may be: one that FAST_RANKING chose, or none yet.
Choices == Shortlists \cup {<<>>}

LEMMA ChoiceTypes ==
    ASSUME ScanJobAssumption, NEW list \in Choices
    PROVE  list \in Seq(Ticker) /\ Len(list) \in 0..Len(Universe)
<1>1. CASE list \in Shortlists
  BY <1>1 DEF ScanJobAssumption
<1>2. CASE list = <<>>
  BY <1>2 DEF ScanJobAssumption
<1> QED
  BY <1>1, <1>2 DEF Choices

LEMMA ItemTypes ==
    ASSUME ScanJobAssumption, NEW s \in Stages, NEW list \in Choices
    PROVE  /\ Items(s, list) \in Seq(Ticker)
           /\ Len(Items(s, list)) \in 0..Len(Universe)
           /\ s = "OHLCV" => Items(s, list) = Universe
           /\ s # "OHLCV" /\ list = <<>> => Len(Items(s, list)) = 0
           /\ s # "OHLCV" /\ list # <<>> => Len(Items(s, list)) > 0
<1>1. list \in Seq(Ticker) /\ Len(list) \in 0..Len(Universe) /\ Universe \in Seq(Ticker)
  BY ChoiceTypes DEF ScanJobAssumption
<1>2. CASE s = "OHLCV"
  BY <1>1, <1>2 DEF Items
<1>3. CASE s = "IDX_FUNDAMENTAL_SHORTLIST"
  <2>1. Items(s, list) = SubSeq(list, 1, Smaller(OfficialLimit, Len(list)))
    BY <1>3 DEF Items
  <2>2. /\ Smaller(OfficialLimit, Len(list)) \in 0..Len(list)
        /\ Len(list) > 0 => Smaller(OfficialLimit, Len(list)) > 0
    BY <1>1 DEF Smaller, ScanJobAssumption
  <2>3. /\ SubSeq(list, 1, Smaller(OfficialLimit, Len(list))) \in Seq(Ticker)
        /\ Len(SubSeq(list, 1, Smaller(OfficialLimit, Len(list)))) = Smaller(OfficialLimit, Len(list))
    <3>1. \A i \in 1..Smaller(OfficialLimit, Len(list)) : list[i] \in Ticker
      BY <1>1, <2>2
    <3> QED
      BY <2>2, <3>1, SubSeqProperties
  <2>4. (list = <<>>) <=> (Len(list) = 0)
    BY <1>1
  <2>5. Items(s, list) \in Seq(Ticker) /\ Len(Items(s, list)) = Smaller(OfficialLimit, Len(list))
    BY <2>1, <2>3
  <2>6. /\ Len(Items(s, list)) \in 0..Len(Universe)
        /\ list = <<>> => Len(Items(s, list)) = 0
        /\ list # <<>> => Len(Items(s, list)) > 0
    BY <1>1, <2>2, <2>4, <2>5
  <2> QED
    BY <1>3, <2>5, <2>6
<1>4. CASE s # "OHLCV" /\ s # "IDX_FUNDAMENTAL_SHORTLIST"
  <2>1. Items(s, list) = list
    BY <1>4 DEF Items
  <2> QED
    BY <1>1, <1>4, <2>1
<1> QED
  BY <1>2, <1>3, <1>4

\* A chunk is a finite set of tickers; if no ticker comes twice, it has as many as its places.
LEMMA ChunkTypes ==
    ASSUME ScanJobAssumption, NEW items \in Seq(Ticker), NEW offset \in Nat
    PROVE  /\ NextChunk(items, offset) \subseteq Ticker
           /\ Cardinality(NextChunk(items, offset)) \in Nat
           /\ (\A i, k \in DOMAIN items : items[i] = items[k] => i = k) /\ offset <= Len(items)
              => Cardinality(NextChunk(items, offset)) = NextOffset(items, offset) - offset
<1> DEFINE places == {k \in DOMAIN items : offset < k /\ k <= offset + ChunkSize}
           f == [k \in places |-> items[k]]
           T == NextChunk(items, offset)
<1>1. ChunkSize \in Nat \ {0} /\ DOMAIN items = 1..Len(items) /\ Len(items) \in Nat
  BY DEF ScanJobAssumption
<1>2. T = {items[i] : i \in places}
  BY DEF NextChunk
<1>3. T \subseteq Ticker
  BY <1>1, <1>2
<1>4. IsFiniteSet(places)
  <2>1. IsFiniteSet(1..Len(items))
    BY <1>1, FS_Interval
  <2>2. places \in SUBSET (1..Len(items))
    BY <1>1
  <2> QED
    BY <2>1, <2>2, FS_Subset
<1>5. f \in Surjection(places, T)
  <2>1. f \in [places -> T]
    BY <1>2
  <2>2. \A t \in T : \E k \in places : f[k] = t
    BY <1>2
  <2> HIDE DEF f, places, T
  <2> QED
    BY <2>1, <2>2 DEF Surjection
<1>6. IsFiniteSet(T) /\ (Cardinality(T) = Cardinality(places) <=> f \in Injection(places, T))
  <2> HIDE DEF f, places, T
  <2> QED
    BY <1>4, <1>5, FS_Surjection
<1>7. Cardinality(T) \in Nat
  BY <1>6, FS_CardinalityType
<1>8. ASSUME \A i, k \in DOMAIN items : items[i] = items[k] => i = k, offset <= Len(items)
      PROVE  Cardinality(T) = NextOffset(items, offset) - offset
  <2>1. f \in Injection(places, T)
    <3>1. f \in [places -> T]
      BY <1>2
    <3>2. \A i, k \in places : f[i] = f[k] => i = k
      BY <1>8
    <3> HIDE DEF f, places, T
    <3> QED
      BY <3>1, <3>2 DEF Injection, IsInjective
  <2>2. NextOffset(items, offset) \in offset..Len(items)
    BY <1>1, <1>8 DEF NextOffset, Smaller
  <2>3. places = (offset + 1)..NextOffset(items, offset)
    BY <1>1, <1>8 DEF NextOffset, Smaller
  <2>4. Cardinality((offset + 1)..NextOffset(items, offset)) = NextOffset(items, offset) - offset
    BY <2>2, <1>1, FS_Interval
  <2> QED
    BY <1>6, <2>1, <2>3, <2>4
<1> QED
  BY <1>3, <1>7, <1>8

-----------------------------------------------------------------------------
(* Where a committed checkpoint leaves the job.                            *)

LEMMA SmallerOf ==
    ASSUME NEW a \in Nat, NEW b \in Nat
    PROVE  Smaller(a, b) \in Nat /\ Smaller(a, b) <= a /\ Smaller(a, b) <= b /\ Smaller(a, b) \in {a, b}
BY DEF Smaller

LEMMA AfterChunkFields ==
    ASSUME ScanJobAssumption, NEW at \in Position, at.stage \in CacheStages, at.shortlist \in Choices
    PROVE  LET items == Items(at.stage, at.shortlist)
               done == at.offset + ChunkSize >= Len(items)
               new == AfterChunk(at)
           IN /\ new \in Position
              /\ new.shortlist = at.shortlist /\ new.chunk = at.chunk + 1
              /\ at.stage = "BENCHMARK" =>
                    new.stage = "OHLCV" /\ new.offset = 0 /\ new.processed = at.processed
              /\ at.stage = "OHLCV" =>
                    /\ new.stage = (IF done THEN "FAST_RANKING" ELSE "OHLCV")
                    /\ new.offset = (IF done THEN 0 ELSE NextOffset(items, at.offset))
                    /\ new.processed = Smaller(Len(Universe),
                                 at.processed + Cardinality(NextChunk(items, at.offset)))
              /\ at.stage \in AllDeepStages =>
                    /\ new.stage = (IF done THEN NextDeepStage(at.stage, at.shortlist) ELSE at.stage)
                    /\ new.offset = (IF done THEN 0 ELSE NextOffset(items, at.offset))
                    /\ new.processed = at.processed
<1> DEFINE items == Items(at.stage, at.shortlist)
           done == at.offset + ChunkSize >= Len(items)
           next == NextOffset(items, at.offset)
           count == Smaller(Len(Universe), at.processed + Cardinality(NextChunk(items, at.offset)))
           after == NextDeepStage(at.stage, at.shortlist)
<1>1. /\ at.stage \in Stages /\ at.offset \in 0..Len(Universe) /\ at.chunk \in Nat
      /\ at.shortlist \in Seq(Ticker) /\ at.processed \in 0..Len(Universe) /\ Len(Universe) \in Nat
      /\ at = [stage |-> at.stage, offset |-> at.offset, chunk |-> at.chunk,
               shortlist |-> at.shortlist, processed |-> at.processed]
  BY DEF Position, ScanJobAssumption
<1>2. items \in Seq(Ticker) /\ Len(items) \in 0..Len(Universe)
  BY <1>1, ItemTypes
<1>3. next \in 0..Len(Universe)
  <2>0. at.offset \in Nat /\ ChunkSize \in Nat
    BY <1>1 DEF ScanJobAssumption
  <2>1. at.offset + ChunkSize \in Nat /\ Len(items) \in Nat
    <3> HIDE DEF items
    <3> QED
      BY <2>0, <1>1, <1>2
  <2>2. next = Smaller(at.offset + ChunkSize, Len(items))
    BY DEF NextOffset
  <2> HIDE DEF items, next
  <2>3. next \in Nat /\ next <= Len(items)
    BY <2>1, <2>2, SmallerOf
  <2> QED
    BY <1>1, <1>2, <2>3
<1>4. Cardinality(NextChunk(items, at.offset)) \in Nat
  BY <1>1, <1>2, ChunkTypes
<1>5. count \in 0..Len(Universe)
  <2> DEFINE n == Cardinality(NextChunk(items, at.offset))
  <2>1. n \in Nat
    BY <1>4
  <2>2. count = Smaller(Len(Universe), at.processed + n)
    OBVIOUS
  <2> HIDE DEF n, items, done, next, count, after
  <2>3. at.processed + n \in Nat /\ Len(Universe) \in Nat
    BY <1>1, <2>1
  <2>4. count \in Nat /\ count <= Len(Universe)
    BY <2>2, <2>3, SmallerOf
  <2> QED
    BY <2>3, <2>4
<1>6. ASSUME at.stage \in AllDeepStages
      PROVE  after \in Stages
  BY <1>6, NextDeep DEF Stages, CacheStages, ScanJobAssumption
<1>7. CASE at.stage = "BENCHMARK"
  <2>1. AfterChunk(at) = [at EXCEPT !.stage = "OHLCV", !.offset = 0, !.chunk = @ + 1]
    BY <1>7 DEF AfterChunk
  <2> DEFINE stage == "OHLCV"
             offset == 0
             chunk == at.chunk + 1
             new == AfterChunk(at)
  <2>2. stage \in Stages /\ offset \in 0..Len(Universe) /\ chunk \in Nat
    BY <1>1 DEF Stages, CacheStages
  <2>3. new = [at EXCEPT !.stage = stage, !.offset = offset, !.chunk = chunk]
    BY <2>1
  <2>5. /\ new \in Position
        /\ new.stage = stage /\ new.offset = offset /\ new.chunk = chunk
        /\ new.shortlist = at.shortlist /\ new.processed = at.processed
    <3> HIDE DEF stage, offset, chunk, new
    <3> QED
      BY <2>2, <2>3 DEF Position
  <2>4. /\ AfterChunk(at) \in Position
        /\ AfterChunk(at).stage = "OHLCV" /\ AfterChunk(at).offset = 0 /\ AfterChunk(at).chunk = at.chunk + 1
        /\ AfterChunk(at).shortlist = at.shortlist /\ AfterChunk(at).processed = at.processed
    BY <2>5
  <2> QED
    BY <1>7, <2>4 DEF AllDeepStages
<1>8. CASE at.stage = "OHLCV"
  <2> DEFINE stage == IF done THEN "FAST_RANKING" ELSE at.stage
             offset == IF done THEN 0 ELSE next
             chunk == at.chunk + 1
             new == AfterChunk(at)
  <2>1. new = [at EXCEPT !.stage = stage, !.offset = offset, !.chunk = chunk, !.processed = count]
    BY <1>8 DEF AfterChunk
  <2>2. stage \in Stages /\ offset \in 0..Len(Universe) /\ chunk \in Nat
    BY <1>1, <1>3 DEF Stages
  <2>3. /\ new \in Position
        /\ new.stage = stage /\ new.offset = offset /\ new.chunk = chunk
        /\ new.shortlist = at.shortlist /\ new.processed = count
    <3> HIDE DEF stage, offset, chunk, new, count
    <3> QED
      BY <1>5, <2>1, <2>2 DEF Position
  <2> QED
    BY <1>8, <2>3 DEF AllDeepStages
<1>9. CASE at.stage \in AllDeepStages
  <2> DEFINE stage == IF done THEN after ELSE at.stage
             offset == IF done THEN 0 ELSE next
             chunk == at.chunk + 1
             new == AfterChunk(at)
  <2>1. at.stage # "BENCHMARK" /\ at.stage # "OHLCV"
    BY <1>9 DEF AllDeepStages
  <2>2. new = [at EXCEPT !.stage = stage, !.offset = offset, !.chunk = chunk]
    BY <2>1 DEF AfterChunk
  <2>3. stage \in Stages /\ offset \in 0..Len(Universe) /\ chunk \in Nat
    BY <1>1, <1>3, <1>6, <1>9
  <2>4. /\ new \in Position
        /\ new.stage = stage /\ new.offset = offset /\ new.chunk = chunk
        /\ new.shortlist = at.shortlist /\ new.processed = at.processed
    <3> HIDE DEF stage, offset, chunk, new
    <3> QED
      BY <2>2, <2>3 DEF Position
  <2> QED
    BY <2>1, <2>4
<1> QED
  BY <1>7, <1>8, <1>9 DEF CacheStages

LEMMA AfterRankingFields ==
    ASSUME ScanJobAssumption, NEW at \in Position, NEW list \in Choices
    PROVE  LET new == AfterRanking(at, list)
           IN /\ new \in Position
              /\ new.shortlist = list /\ new.chunk = at.chunk + 1 /\ new.offset = 0
              /\ new.stage = NextDeepStage("FAST_RANKING", list) /\ new.processed = at.processed
<1> DEFINE stage == NextDeepStage("FAST_RANKING", list)
           chunk == at.chunk + 1
           new == AfterRanking(at, list)
<1>1. stage \in Stages
  BY NextDeep DEF Stages, CacheStages, ScanJobAssumption
<1>2. list \in Seq(Ticker) /\ 0 \in 0..Len(Universe) /\ chunk \in Nat
  BY ChoiceTypes DEF Position, ScanJobAssumption
<1>3. new = [at EXCEPT !.stage = stage, !.offset = 0, !.chunk = chunk, !.shortlist = list]
  BY DEF AfterRanking
<1>4. /\ new \in Position
      /\ new.shortlist = list /\ new.chunk = chunk /\ new.offset = 0
      /\ new.stage = stage /\ new.processed = at.processed
  <2> HIDE DEF stage, chunk, new
  <2> QED
    BY <1>1, <1>2, <1>3 DEF Position
<1> QED
  BY <1>4

-----------------------------------------------------------------------------
(* Types, for any number of runs.  An edit of a position needs a shortlist *)
(* that can have been chosen, and a stage that has chunks.                 *)

Fits(at) == at \in Position /\ at.shortlist \in Choices

JobsTyped ==
    /\ jobs \in [Job -> Row]
    /\ \A j \in Job : jobs[j].at.shortlist \in Choices
    /\ newer \subseteq Job \X Job

RunTyped(x) ==
    /\ x \in RunState
    /\ x.at.shortlist \in Choices /\ x.list \in Choices
    /\ x.step = "chunk_ok" => x.at.stage \in CacheStages

Typed == JobsTyped /\ chunks \subseteq Chunk /\ run \in [Run -> RunState] /\ \A r \in Run : RunTyped(run[r])

LEMMA StartFits == ASSUME ScanJobAssumption PROVE Fits(Start)
<1>1. "BENCHMARK" \in Stages /\ 0 \in 0..Len(Universe) /\ 0 \in Nat /\ <<>> \in Seq(Ticker)
  BY DEF Stages, CacheStages, ScanJobAssumption
<1> QED
  BY <1>1 DEF Fits, Start, Position, Choices

LEMMA EndedTyped == ASSUME ScanJobAssumption PROVE RunTyped(Ended)
<1>1. (CHOOSE j \in Job : TRUE) \in Job
  BY DEF ScanJobAssumption
<1>2. <<>> \in Seq(Ticker) /\ 0 \in Nat /\ {} \in SUBSET Job /\ "idle" \in Steps
  BY DEF Steps
<1>3. Start \in Position /\ Start.shortlist \in Choices
  BY StartFits DEF Fits
<1>4. Ended \in RunState
  BY <1>1, <1>2, <1>3 DEF Ended, RunState
<1>5. Ended.at = Start /\ Ended.list = <<>> /\ Ended.step = "idle"
  BY DEF Ended
<1> QED
  BY <1>3, <1>4, <1>5 DEF RunTyped, Choices

LEMMA PatchTyped ==
    ASSUME ScanJobAssumption, JobsTyped, NEW j \in Job, NEW status \in Active \cup Terminal,
           NEW at, Fits(at), Patch(j, status, at)
    PROVE  JobsTyped'
<1>1. jobs' = [jobs EXCEPT ![j] = [status |-> status, at |-> at]] /\ newer' = Touched(j)
  BY DEF Patch
<1>2. [status |-> status, at |-> at] \in Row
  BY DEF Row, Fits
<1>3. jobs' \in [Job -> Row] /\ \A k \in Job : jobs'[k].at.shortlist \in Choices
  <2> DEFINE row == [status |-> status, at |-> at]
  <2>1. row \in Row /\ row.at.shortlist \in Choices /\ jobs' = [jobs EXCEPT ![j] = row]
    BY <1>1, <1>2 DEF Fits
  <2> HIDE DEF row
  <2> QED
    BY <2>1 DEF JobsTyped
<1>4. newer' \subseteq Job \X Job
  <2>1. \A p \in Touched(j) : p \in newer \/ \E k \in Job : p = <<j, k>>
    BY DEF Touched
  <2> QED
    BY <1>1, <2>1 DEF JobsTyped
<1> QED
  BY <1>3, <1>4 DEF JobsTyped

LEMMA PatchOrNotTyped ==
    ASSUME ScanJobAssumption, JobsTyped, NEW j \in Job, NEW status \in Active \cup Terminal,
           NEW at, Fits(at), Patch(j, status, at) \/ PatchFails(j, status)
    PROVE  JobsTyped'
<1>1. CASE Patch(j, status, at)
  BY <1>1, PatchTyped
<1>2. CASE PatchFails(j, status)
  BY <1>2 DEF PatchFails, JobsTyped
<1> QED
  BY <1>1, <1>2

LEMMA RunStep ==
    ASSUME Typed, NEW r \in Run, NEW new, RunTyped(new), run' = [run EXCEPT ![r] = new]
    PROVE  run' \in [Run -> RunState] /\ \A q \in Run : RunTyped(run'[q])
<1>1. new \in RunState
  BY DEF RunTyped
<1>2. run' \in [Run -> RunState]
  BY <1>1 DEF Typed
<1>3. ASSUME NEW q \in Run
      PROVE  RunTyped(run'[q])
  <2>1. CASE q = r
    BY <2>1 DEF Typed
  <2>2. CASE q # r
    BY <2>2 DEF Typed
  <2> QED
    BY <2>1, <2>2
<1> QED
  BY <1>2, <1>3

LEMMA EndTyped ==
    ASSUME ScanJobAssumption, Typed, NEW r \in Run, End(r)
    PROVE  run' \in [Run -> RunState] /\ \A q \in Run : RunTyped(run'[q])
BY EndedTyped, RunStep DEF End

LEMMA DeleteTyped ==
    ASSUME ScanJobAssumption, JobsTyped, chunks \subseteq Chunk, NEW old, DeleteJobs(old)
    PROVE  JobsTyped' /\ chunks' \subseteq Chunk
<1> DEFINE gone == [status |-> "DELETED", at |-> Start]
<1>1. gone \in Row /\ gone.at.shortlist \in Choices
  BY StartFits DEF Row, Fits, Gone
<1>2. jobs' = [j \in Job |-> IF j \in old /\ Exists(j) THEN gone ELSE jobs[j]]
  BY DEF DeleteJobs
<1> HIDE DEF gone
<1>3. jobs' \in [Job -> Row] /\ \A j \in Job : jobs'[j].at.shortlist \in Choices
  BY <1>1, <1>2 DEF JobsTyped
<1>4. newer' \subseteq newer /\ chunks' \subseteq chunks
  BY DEF DeleteJobs
<1> QED
  BY <1>3, <1>4 DEF JobsTyped

LEMMA ChunkTyped ==
    ASSUME ScanJobAssumption, Typed, NEW r \in Run, NEW tickers \in SUBSET Ticker, NEW ok \in BOOLEAN,
           RecordChunk(ChunkOf(r, tickers, ok))
    PROVE  chunks' \subseteq Chunk
<1>1. run[r].job \in Job /\ run[r].at.stage \in Stages /\ run[r].at.chunk \in Nat
  BY DEF Typed, RunState, Position
<1>2. ChunkOf(r, tickers, ok) \in Chunk
  BY <1>1 DEF ChunkOf, Chunk
<1> QED
  BY <1>2 DEF RecordChunk, Typed

LEMMA NextChunkTyped ==
    ASSUME ScanJobAssumption, NEW at, Fits(at)
    PROVE  NextChunk(Items(at.stage, at.shortlist), at.offset) \in SUBSET Ticker
<1> DEFINE items == Items(at.stage, at.shortlist)
<1>1. at.stage \in Stages /\ at.offset \in Nat /\ at.shortlist \in Choices
  BY DEF Fits, Position, ScanJobAssumption
<1>2. items \in Seq(Ticker)
  BY <1>1, ItemTypes
<1> HIDE DEF items
<1>3. NextChunk(items, at.offset) \subseteq Ticker
  BY <1>1, <1>2, ChunkTypes
<1> QED
  BY <1>3 DEF items

-----------------------------------------------------------------------------
(* What each action writes keeps the types.                                *)

LEMMA UniverseTyped == ASSUME ScanJobAssumption PROVE {Universe[i] : i \in DOMAIN Universe} \in SUBSET Ticker
BY DEF ScanJobAssumption

\* Where a run stands, field by field.
LEMMA RunFields ==
    ASSUME Typed, NEW r \in Run
    PROVE  /\ run[r] \in RunState /\ run[r].job \in Job /\ Fits(run[r].at)
           /\ run[r].list \in Choices /\ run[r].step \in Steps
           /\ run[r].step = "chunk_ok" => run[r].at.stage \in CacheStages
           /\ Fits(jobs[run[r].job].at) /\ RunTyped(run[r])
<1>1. run[r] \in RunState /\ RunTyped(run[r])
  BY DEF Typed
<1>2. run[r].job \in Job /\ run[r].at \in Position /\ run[r].step \in Steps
  BY <1>1 DEF RunState
<1>3. \A j \in Job : jobs[j] \in Row /\ jobs[j].at \in Position /\ jobs[j].at.shortlist \in Choices
  BY DEF Typed, JobsTyped, Row
<1> QED
  BY <1>1, <1>2, <1>3 DEF RunTyped, Fits

\* A run may always take a step that is neither an end nor a committed chunk.
LEMMA StepTyped ==
    ASSUME Typed, NEW r \in Run, NEW step \in Steps,
           step = "chunk_ok" => run[r].at.stage \in CacheStages,
           run' = [run EXCEPT ![r].step = step]
    PROVE  run' \in [Run -> RunState] /\ \A q \in Run : RunTyped(run'[q])
<1> DEFINE x == run[r]
           y == [x EXCEPT !.step = step]
<1>1. x \in RunState /\ RunTyped(x)
  BY DEF Typed
<1>2. /\ y \in RunState /\ y.step = step /\ y.at = x.at /\ y.list = x.list
  <2> HIDE DEF x
  <2> QED
    BY <1>1 DEF RunState
<1>3. RunTyped(y)
  BY <1>1, <1>2 DEF RunTyped
<1>4. run' = [run EXCEPT ![r] = y]
  OBVIOUS
<1> HIDE DEF x, y
<1> QED
  BY <1>3, <1>4, RunStep

LEMMA SeeJobTyped == ASSUME ScanJobAssumption, Typed, NEW r \in Run, SeeJob(r) PROVE Typed'
<1>1. PICK j \in Job : run' = [run EXCEPT ![r] = [Ended EXCEPT !.step = "seen", !.job = j, !.at = jobs[j].at]]
  BY Zenon DEF SeeJob
<1> DEFINE at == jobs[j].at
           x == Ended
           y == [x EXCEPT !.step = "seen", !.job = j, !.at = at]
<1>2. at \in Position /\ at.shortlist \in Choices /\ RunTyped(x) /\ x \in RunState /\ "seen" \in Steps
  BY EndedTyped DEF Typed, JobsTyped, Row, RunTyped, Steps
<1>3. y \in RunState /\ y.step = "seen" /\ y.at = at /\ y.list = x.list
  <2> HIDE DEF x, at
  <2> QED
    BY <1>2 DEF RunState
<1>4. RunTyped(y)
  BY <1>2, <1>3 DEF RunTyped
<1>5. run' = [run EXCEPT ![r] = y]
  BY <1>1
<1>6. run' \in [Run -> RunState] /\ \A q \in Run : RunTyped(run'[q])
  <2> HIDE DEF y
  <2> QED
    BY <1>4, <1>5, RunStep
<1> QED
  BY <1>6 DEF SeeJob, Typed, JobsTyped

\* Jeda, Batalkan and the retry of a chunk: a patch of the status alone, and the end.
LEMMA ClickTyped ==
    ASSUME ScanJobAssumption, Typed, NEW r \in Run, Pause(r) \/ Cancel(r) \/ PauseForRetry(r)
    PROVE  Typed'
<1> DEFINE j == run[r].job
<1>1. j \in Job /\ Fits(jobs[j].at) /\ JobsTyped
  BY RunFields DEF Typed
<1>2. PICK status \in {"PAUSED", "CANCELLED"} :
         (Patch(j, status, jobs[j].at) \/ PatchFails(j, status)) /\ End(r) /\ UNCHANGED chunks
  BY DEF Pause, Cancel, PauseForRetry
<1>3. status \in Active \cup Terminal
  BY DEF Active, Terminal
<1>4. JobsTyped'
  <2> HIDE DEF j
  <2> QED
    BY <1>1, <1>2, <1>3, PatchOrNotTyped
<1> QED
  BY <1>2, <1>4, EndTyped DEF Typed

LEMMA ResumeTyped == ASSUME ScanJobAssumption, Typed, NEW r \in Run, Resume(r) PROVE Typed'
<1> DEFINE j == run[r].job
           at == jobs[j].at
           x == run[r]
           y == [x EXCEPT !.at = at]
<1>1. j \in Job /\ Fits(at) /\ JobsTyped /\ x \in RunState /\ RunTyped(x) /\ x.step = "seen"
  BY RunFields DEF Typed, Resume
<1>2. JobsTyped'
  <2>1. Patch(j, "RUNNING", at) /\ "RUNNING" \in Active \cup Terminal
    BY DEF Resume, Active
  <2> HIDE DEF j, at
  <2> QED
    BY <1>1, <2>1, PatchTyped
<1>3. y \in RunState /\ y.step = "seen" /\ y.at = at /\ y.list = x.list
  <2> HIDE DEF x, at
  <2> QED
    BY <1>1 DEF RunState, Fits
<1>4. RunTyped(y)
  BY <1>1, <1>3 DEF RunTyped, Fits
<1>5. run' = [run EXCEPT ![r] = y]
  BY DEF Resume
<1>6. run' \in [Run -> RunState] /\ \A q \in Run : RunTyped(run'[q])
  <2> HIDE DEF y
  <2> QED
    BY <1>4, <1>5, RunStep
<1> QED
  BY <1>2, <1>6 DEF Resume, Typed

LEMMA StartScanTyped == ASSUME ScanJobAssumption, Typed, NEW r \in Run, StartScan(r) PROVE Typed'
<1>1. PICK j \in Job : run' = [run EXCEPT ![r] = [Ended EXCEPT !.step = "create_delete", !.job = j, !.old = Prunable({j})]]
  BY Zenon DEF StartScan
<1> DEFINE old == Prunable({j})
           x == Ended
           y == [x EXCEPT !.step = "create_delete", !.job = j, !.old = old]
<1>2. RunTyped(x) /\ x \in RunState /\ "create_delete" \in Steps /\ old \subseteq Job
  BY EndedTyped DEF RunTyped, Steps, Prunable
<1>3. y \in RunState /\ y.step = "create_delete" /\ y.at = x.at /\ y.list = x.list
  <2> HIDE DEF x, old
  <2> QED
    BY <1>2 DEF RunState
<1>4. RunTyped(y)
  BY <1>2, <1>3 DEF RunTyped
<1>5. run' = [run EXCEPT ![r] = y]
  BY <1>1
<1>6. run' \in [Run -> RunState] /\ \A q \in Run : RunTyped(run'[q])
  <2> HIDE DEF y
  <2> QED
    BY <1>4, <1>5, RunStep
<1> QED
  BY <1>6 DEF StartScan, Typed, JobsTyped

LEMMA PruneBeforeCreateTyped ==
    ASSUME ScanJobAssumption, Typed, NEW r \in Run, PruneBeforeCreate(r) PROVE Typed'
<1> DEFINE x == run[r]
           y == [x EXCEPT !.step = "create_post", !.old = {}]
<1>1. x \in RunState /\ RunTyped(x) /\ "create_post" \in Steps
  BY RunFields DEF Steps
<1>2. JobsTyped' /\ chunks' \subseteq Chunk
  BY DeleteTyped DEF PruneBeforeCreate, Typed
<1>3. y \in RunState /\ y.step = "create_post" /\ y.at = x.at /\ y.list = x.list
  <2> HIDE DEF x
  <2> QED
    BY <1>1 DEF RunState
<1>4. RunTyped(y)
  BY <1>1, <1>3 DEF RunTyped
<1>5. run' = [run EXCEPT ![r] = y]
  BY DEF PruneBeforeCreate
<1>6. run' \in [Run -> RunState] /\ \A q \in Run : RunTyped(run'[q])
  <2> HIDE DEF y
  <2> QED
    BY <1>4, <1>5, RunStep
<1> QED
  BY <1>2, <1>6 DEF Typed

LEMMA CreateTyped == ASSUME ScanJobAssumption, Typed, NEW r \in Run, Create(r) PROVE Typed'
<1> DEFINE j == run[r].job
           new == [status |-> "CREATED", at |-> Start]
<1>1. j \in Job /\ new \in Row /\ new.at.shortlist \in Choices
  BY RunFields, StartFits DEF Row, Fits, Active
<1>2. JobsTyped'
  <2>1. CASE UNCHANGED <<jobs, newer>>
    BY <2>1 DEF Typed, JobsTyped
  <2>2. CASE jobs' = [jobs EXCEPT ![j] = new] /\ newer' = Touched(j)
    <3>1. \A p \in Touched(j) : p \in newer \/ \E k \in Job : p = <<j, k>>
      BY DEF Touched
    <3>2. newer' \subseteq Job \X Job
      BY <1>1, <2>2, <3>1 DEF Typed, JobsTyped
    <3>3. jobs' \in [Job -> Row] /\ \A k \in Job : jobs'[k].at.shortlist \in Choices
      <4> HIDE DEF new, j
      <4> QED
        BY <1>1, <2>2 DEF Typed, JobsTyped
    <3> QED
      BY <3>2, <3>3 DEF JobsTyped
  <2> QED
    BY <2>1, <2>2 DEF Create
<1>3. End(r) /\ UNCHANGED chunks
  BY DEF Create
<1> QED
  BY <1>2, <1>3, EndTyped DEF Typed

LEMMA ProcessChunkTyped ==
    ASSUME ScanJobAssumption, Typed, NEW r \in Run, NEW ok \in BOOLEAN, ProcessChunk(r, ok) PROVE Typed'
<1> DEFINE at == run[r].at
           tickers == IF at.stage = "BENCHMARK" THEN {}
                      ELSE NextChunk(Items(at.stage, at.shortlist), at.offset)
           step == IF ok THEN "chunk_ok" ELSE "chunk_failed"
<1>1. Fits(at) /\ at.stage \in CacheStages
  BY RunFields DEF ProcessChunk
<1>2. tickers \in SUBSET Ticker
  BY <1>1, NextChunkTyped
<1>3. chunks' \subseteq Chunk
  <2>1. RecordChunk(ChunkOf(r, tickers, ok))
    BY DEF ProcessChunk
  <2> HIDE DEF tickers
  <2> QED
    BY <1>2, <2>1, ChunkTyped
<1>4. step \in Steps /\ run' = [run EXCEPT ![r].step = step]
  BY DEF ProcessChunk, Steps
<1>5. run' \in [Run -> RunState] /\ \A q \in Run : RunTyped(run'[q])
  <2> HIDE DEF step
  <2> QED
    BY <1>1, <1>4, StepTyped
<1> QED
  BY <1>3, <1>5 DEF ProcessChunk, Typed, JobsTyped

\* The position a checkpoint commits, over the shortlist the row has by then.
LEMMA CommitFits ==
    ASSUME ScanJobAssumption, NEW at, Fits(at), at.stage \in CacheStages, NEW list \in Choices
    PROVE  Fits([AfterChunk(at) EXCEPT !.shortlist = list])
<1> DEFINE x == AfterChunk(at)
           y == [x EXCEPT !.shortlist = list]
<1>1. x \in Position /\ list \in Seq(Ticker)
  BY AfterChunkFields, ChoiceTypes DEF Fits
<1>2. y \in Position /\ y.shortlist = list
  <2> HIDE DEF x
  <2> QED
    BY <1>1 DEF Position
<1> QED
  BY <1>2 DEF Fits

LEMMA CommitChunkTyped == ASSUME ScanJobAssumption, Typed, NEW r \in Run, CommitChunk(r) PROVE Typed'
<1> DEFINE j == run[r].job
           at == [AfterChunk(run[r].at) EXCEPT !.shortlist = jobs[j].at.shortlist]
<1>1. j \in Job /\ Fits(at) /\ JobsTyped
  BY RunFields, CommitFits DEF CommitChunk, Typed, JobsTyped, Fits
<1>2. (Patch(j, "RUNNING", at) \/ PatchFails(j, "RUNNING")) /\ End(r) /\ UNCHANGED chunks
  BY DEF CommitChunk
<1>3. "RUNNING" \in Active \cup Terminal
  BY DEF Active
<1>4. JobsTyped'
  <2> HIDE DEF j, at
  <2> QED
    BY <1>1, <1>2, <1>3, PatchOrNotTyped
<1> QED
  BY <1>2, <1>4, EndTyped DEF Typed

LEMMA RankTyped == ASSUME ScanJobAssumption, Typed, NEW r \in Run, Rank(r) PROVE Typed'
<1>1. chunks' \subseteq Chunk
  <2>1. RecordChunk(ChunkOf(r, {Universe[i] : i \in DOMAIN Universe}, TRUE))
    BY DEF Rank
  <2> QED
    BY <2>1, UniverseTyped, ChunkTyped
<1>2. PICK list \in Shortlists : run' = [run EXCEPT ![r].step = "ranked", ![r].list = list]
  BY DEF Rank
<1> DEFINE x == run[r]
           y == [x EXCEPT !.step = "ranked", !.list = list]
<1>3. x \in RunState /\ RunTyped(x) /\ "ranked" \in Steps /\ list \in Seq(Ticker) /\ list \in Choices
  BY RunFields, ChoiceTypes DEF Steps, Choices
<1>4. y \in RunState /\ y.step = "ranked" /\ y.at = x.at /\ y.list = list
  <2> HIDE DEF x
  <2> QED
    BY <1>3 DEF RunState
<1>5. RunTyped(y)
  BY <1>3, <1>4 DEF RunTyped
<1>6. run' = [run EXCEPT ![r] = y]
  BY <1>2
<1>7. run' \in [Run -> RunState] /\ \A q \in Run : RunTyped(run'[q])
  <2> HIDE DEF y
  <2> QED
    BY <1>5, <1>6, RunStep
<1> QED
  BY <1>1, <1>7 DEF Rank, Typed, JobsTyped

LEMMA RankFits ==
    ASSUME ScanJobAssumption, NEW at, Fits(at), NEW list \in Choices, NEW n \in 0..Len(Universe)
    PROVE  Fits([AfterRanking(at, list) EXCEPT !.processed = n])
<1> DEFINE x == AfterRanking(at, list)
           y == [x EXCEPT !.processed = n]
<1>1. x \in Position /\ x.shortlist = list
  BY AfterRankingFields DEF Fits
<1>2. y \in Position /\ y.shortlist = x.shortlist
  <2> HIDE DEF x
  <2> QED
    BY <1>1 DEF Position
<1> QED
  BY <1>1, <1>2 DEF Fits

LEMMA CommitRankingTyped == ASSUME ScanJobAssumption, Typed, NEW r \in Run, CommitRanking(r) PROVE Typed'
<1> DEFINE j == run[r].job
           n == jobs[j].at.processed
           at == [AfterRanking(run[r].at, run[r].list) EXCEPT !.processed = n]
<1>1. j \in Job /\ JobsTyped /\ n \in 0..Len(Universe) /\ Fits(run[r].at) /\ run[r].list \in Choices
  BY RunFields DEF Typed, Fits, Position
<1>2. Fits(at)
  <2> HIDE DEF n
  <2> QED
    BY <1>1, RankFits
<1>3. (Patch(j, "RUNNING", at) \/ PatchFails(j, "RUNNING")) /\ End(r) /\ UNCHANGED chunks
  BY DEF CommitRanking
<1>4. "RUNNING" \in Active \cup Terminal
  BY DEF Active
<1>5. JobsTyped'
  <2> HIDE DEF j, at, n
  <2> QED
    BY <1>1, <1>2, <1>3, <1>4, PatchOrNotTyped
<1> QED
  BY <1>3, <1>5, EndTyped DEF Typed

LEMMA HeartbeatTyped == ASSUME ScanJobAssumption, Typed, NEW r \in Run, Heartbeat(r) PROVE Typed'
<1> DEFINE j == run[r].job
           old == jobs[j].at
           at == [old EXCEPT !.stage = "FINALIZE"]
           x == run[r]
           n == x.beat + 1
           y == [x EXCEPT !.beat = n]
<1>1. j \in Job /\ JobsTyped /\ Fits(old) /\ x \in RunState /\ RunTyped(x)
  BY RunFields DEF Typed
<1>2. Fits(at)
  <2>1. "FINALIZE" \in Stages
    BY DEF Stages
  <2> HIDE DEF old
  <2>2. at \in Position /\ at.shortlist = old.shortlist
    BY <1>1, <2>1 DEF Fits, Position
  <2> QED
    BY <1>1, <2>2 DEF Fits
<1>3. JobsTyped'
  <2>1. Patch(j, "RUNNING", at) \/ UNCHANGED <<jobs, newer>>
    BY DEF Heartbeat
  <2>2. "RUNNING" \in Active \cup Terminal
    BY DEF Active
  <2>3. CASE UNCHANGED <<jobs, newer>>
    BY <1>1, <2>3 DEF JobsTyped
  <2>4. CASE Patch(j, "RUNNING", at)
    <3> HIDE DEF j, at
    <3> QED
      BY <1>1, <1>2, <2>2, <2>4, PatchTyped
  <2> QED
    BY <2>1, <2>3, <2>4
<1>4. y \in RunState /\ y.step = x.step /\ y.at = x.at /\ y.list = x.list
  <2>1. n \in Nat
    BY <1>1 DEF RunState
  <2> HIDE DEF x, n
  <2> QED
    BY <1>1, <2>1 DEF RunState
<1>5. RunTyped(y)
  BY <1>1, <1>4 DEF RunTyped
<1>6. run' = [run EXCEPT ![r] = y]
  BY DEF Heartbeat
<1>7. run' \in [Run -> RunState] /\ \A q \in Run : RunTyped(run'[q])
  <2> HIDE DEF y
  <2> QED
    BY <1>5, <1>6, RunStep
<1> QED
  BY <1>3, <1>7 DEF Heartbeat, Typed

LEMMA CommitFinalTyped == ASSUME ScanJobAssumption, Typed, NEW r \in Run, CommitFinal(r) PROVE Typed'
<1> DEFINE j == run[r].job
           old == jobs[j].at
<1>1. j \in Job /\ JobsTyped /\ Fits(old)
  BY RunFields DEF Typed
<1>2. PICK status \in Completed \cup {"FINALIZE_RETRY_REQUIRED"} :
         \/ /\ Patch(j, status, [old EXCEPT !.stage = IF status \in Completed THEN "COMPLETED" ELSE "FINALIZE",
                                            !.offset = 0])
            /\ run' = [run EXCEPT ![r].step = "prune"]
         \/ /\ PatchFails(j, status)
            /\ IF Exists(j) THEN End(r) ELSE run' = [run EXCEPT ![r].step = "prune"]
  BY Zenon DEF CommitFinal
<1> DEFINE stage == IF status \in Completed THEN "COMPLETED" ELSE "FINALIZE"
           at == [old EXCEPT !.stage = stage, !.offset = 0]
<1>3. status \in Active \cup Terminal
  BY DEF Active, Terminal, Completed
<1>4. Fits(at)
  <2>1. stage \in Stages /\ 0 \in 0..Len(Universe)
    BY DEF Stages, ScanJobAssumption
  <2> HIDE DEF old, stage
  <2>2. at \in Position /\ at.shortlist = old.shortlist
    BY <1>1, <2>1 DEF Fits, Position
  <2> QED
    BY <1>1, <2>2 DEF Fits
<1>5. JobsTyped'
  <2>1. Patch(j, status, at) \/ PatchFails(j, status)
    BY <1>2
  <2> HIDE DEF j, at
  <2> QED
    BY <1>1, <1>3, <1>4, <2>1, PatchOrNotTyped
<1>6. run' \in [Run -> RunState] /\ \A q \in Run : RunTyped(run'[q])
  <2>1. "prune" \in Steps
    BY DEF Steps
  <2>2. CASE End(r)
    BY <2>2, EndTyped
  <2>3. CASE run' = [run EXCEPT ![r].step = "prune"]
    BY <2>1, <2>3, StepTyped
  <2> QED
    BY <1>2, <2>2, <2>3
<1> QED
  BY <1>5, <1>6 DEF CommitFinal, Typed

LEMMA PruneListTyped == ASSUME ScanJobAssumption, Typed, NEW r \in Run, PruneList(r) PROVE Typed'
<1> DEFINE old == Prunable({run[r].job})
           x == run[r]
           y == [x EXCEPT !.step = "prune_delete", !.old = old]
<1>1. x \in RunState /\ RunTyped(x) /\ "prune_delete" \in Steps /\ old \subseteq Job
  BY RunFields DEF Steps, Prunable
<1>2. y \in RunState /\ y.step = "prune_delete" /\ y.at = x.at /\ y.list = x.list
  <2> HIDE DEF x, old
  <2> QED
    BY <1>1 DEF RunState
<1>3. RunTyped(y)
  BY <1>1, <1>2 DEF RunTyped
<1>4. run' = [run EXCEPT ![r] = y]
  BY DEF PruneList
<1>5. run' \in [Run -> RunState] /\ \A q \in Run : RunTyped(run'[q])
  <2> HIDE DEF y
  <2> QED
    BY <1>3, <1>4, RunStep
<1> QED
  BY <1>5 DEF PruneList, Typed, JobsTyped

LEMMA OtherTyped ==
    ASSUME ScanJobAssumption, Typed, NEW r \in Run, Crash(r) \/ BeginFinal(r) \/ PruneDelete(r) PROVE Typed'
<1>1. CASE Crash(r)
  BY <1>1, EndTyped DEF Crash, Typed, JobsTyped
<1>2. CASE BeginFinal(r)
  <2>1. "final" \in Steps /\ run' = [run EXCEPT ![r].step = "final"]
    BY <1>2 DEF BeginFinal, Steps
  <2>2. run' \in [Run -> RunState] /\ \A q \in Run : RunTyped(run'[q])
    BY <2>1, StepTyped
  <2> QED
    BY <1>2, <2>2 DEF BeginFinal, Typed, JobsTyped
<1>3. CASE PruneDelete(r)
  BY <1>3, DeleteTyped, EndTyped DEF PruneDelete, Typed
<1> QED
  BY <1>1, <1>2, <1>3

\* The strengthened types are inductive.
LEMMA TypedStart == ScanJobAssumption /\ Init => Typed
<1> SUFFICES ASSUME ScanJobAssumption, Init PROVE Typed
  OBVIOUS
<1>1. JobsTyped
  BY StartFits DEF Init, JobsTyped, Row, Fits, Gone
<1>2. \A r \in Run : run[r] = Ended
  BY DEF Init
<1>3. run \in [Run -> RunState] /\ \A r \in Run : RunTyped(run[r])
  BY <1>2, EndedTyped DEF Init, RunTyped
<1> QED
  BY <1>1, <1>3 DEF Init, Typed

LEMMA TypedStep == ScanJobAssumption /\ Typed /\ [Next]_vars => Typed'
<1> SUFFICES ASSUME ScanJobAssumption, Typed, [Next]_vars PROVE Typed'
  OBVIOUS
<1>1. CASE UNCHANGED vars
  BY <1>1 DEF vars, Typed, JobsTyped, RunTyped
<1>2. ASSUME NEW r \in Run,
             \/ SeeJob(r) \/ Pause(r) \/ Resume(r) \/ Cancel(r) \/ Crash(r)
             \/ StartScan(r) \/ PruneBeforeCreate(r) \/ Create(r)
      PROVE  Typed'
  BY <1>2, SeeJobTyped, ClickTyped, ResumeTyped, OtherTyped, StartScanTyped,
     PruneBeforeCreateTyped, CreateTyped
<1>3. ASSUME NEW r \in Run,
             \/ \E ok \in BOOLEAN : ProcessChunk(r, ok)
             \/ CommitChunk(r) \/ PauseForRetry(r) \/ Rank(r) \/ CommitRanking(r)
      PROVE  Typed'
  BY <1>3, ProcessChunkTyped, CommitChunkTyped, ClickTyped, RankTyped, CommitRankingTyped
<1>4. ASSUME NEW r \in Run,
             BeginFinal(r) \/ Heartbeat(r) \/ CommitFinal(r) \/ PruneList(r) \/ PruneDelete(r)
      PROVE  Typed'
  BY <1>4, OtherTyped, HeartbeatTyped, CommitFinalTyped, PruneListTyped
<1> QED
  BY <1>1, <1>2, <1>3, <1>4 DEF Next

\* The rows, the chunks and the script runs keep their types, however many runs overlap:
\* no position a run computed from what it read ever leaves the universe or the stages.
THEOREM TypeCorrect == Spec => []TypeOK
<1>1. Init => Typed
  BY ScanJobAssumption, TypedStart
<1>2. Typed /\ [Next]_vars => Typed'
  BY ScanJobAssumption, TypedStep
<1>3. Typed => TypeOK
  BY DEF Typed, JobsTyped, TypeOK
<1> QED
  BY <1>1, <1>2, <1>3, PTL DEF Spec

=============================================================================
