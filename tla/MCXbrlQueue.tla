---------------------------- MODULE MCXbrlQueue ----------------------------
EXTENDS XbrlQueue, TLC
CONSTANTS t1, t2, t3

\* The evidence of t2 is bad: it falls behind t3, which then enters the top.
Ranking == [e \in SUBSET Filing |->
    IF \E f \in e : f[1] = t2 THEN (t1 :> 1 @@ t3 :> 2 @@ t2 :> 3)
    ELSE (t1 :> 1 @@ t2 :> 2 @@ t3 :> 3)]
\* With room for one ticker only: the evidence of t1 puts t2 in its place.
RankingOfTwo == [e \in SUBSET Filing |->
    IF \E f \in e : f[1] = t1 THEN (t2 :> 1 @@ t1 :> 2) ELSE (t1 :> 1 @@ t2 :> 2)]
PoisonT1 == {<<t1, 1>>}
PoisonT2 == {<<t2, 1>>}
None == {}
=============================================================================
