--------------------------- MODULE DecisionsProofs ---------------------------
(***************************************************************************)
(* What holds of the decisions of every scan, whatever the universe, the   *)
(* catalogue of evidence and the number of releases.  Two invariants carry *)
(* it: DecInv says what the passes may leave of the profile an issuer was  *)
(* scored with, FinalInv that a finalized row is confirmed once, frozen    *)
(* and ranked.  Sums over a set are reasoned about through a least         *)
(* counterexample, the library's folds having no induction to offer.       *)
(***************************************************************************)
EXTENDS Decisions, FiniteSetTheorems, TLAPS

-----------------------------------------------------------------------------
(* Sums, least and greatest members.                                       *)

\* A set of natural numbers that has a member has a least one.
LEMMA LeastNumber ==
    ASSUME NEW T \in SUBSET Nat, T # {}
    PROVE  \E n \in T : \A m \in T : n <= m
<1>1. PICK n \in T : \A m \in T : ~(<<m, n>> \in OpToRel(<, Nat))
    BY WFMin, NatLessThanWellFounded
<1>2. \A m \in T : ~(m < n)
    BY <1>1 DEF OpToRel
<1>3. \A m \in T : n <= m
    BY <1>2
<1> QED BY <1>3

\* The folds of the library name, for a finite set, the function that takes one member of a
\* set after the other.
Small(S, n) == {t \in SUBSET S : Cardinality(t) <= n}
SumsUpTo(g, S, n, h) ==
    h = [s \in Small(S, n) |-> IF s = {} THEN 0 ELSE g[CHOOSE x \in s : TRUE] + h[s \ {CHOOSE x \in s : TRUE}]]
Sums(g, S, h) ==
    h = [s \in SUBSET S |-> IF s = {} THEN 0 ELSE g[CHOOSE x \in s : TRUE] + h[s \ {CHOOSE x \in s : TRUE}]]

\* Taking the chosen member out of a finite set leaves one member less.
LEMMA Smaller1 ==
    ASSUME NEW S, IsFiniteSet(S), NEW s \in SUBSET S, s # {}
    PROVE  LET x == CHOOSE x \in s : TRUE
           IN /\ x \in s /\ s \ {x} \in SUBSET S
              /\ Cardinality(s) \in Nat /\ Cardinality(s \ {x}) = Cardinality(s) - 1
<1> DEFINE x == CHOOSE y \in s : TRUE
<1>1. x \in s
    OBVIOUS
<1>2. IsFiniteSet(s)
    BY FS_Subset
<1> HIDE DEF x
<1>3. Cardinality(s) \in Nat /\ Cardinality(s \ {x}) = Cardinality(s) - 1
    BY <1>1, <1>2, FS_RemoveElement, FS_CardinalityType
<1> QED BY <1>1, <1>3 DEF x

\* The function that adds up the members of each subset exists: no subset is the least one
\* without it.
LEMMA SumsExist ==
    ASSUME NEW g, NEW S, IsFiniteSet(S)
    PROVE  \E h : Sums(g, S, h)
<1> DEFINE T == {n \in Nat : ~\E h : SumsUpTo(g, S, n, h)}
<1>1. T = {}
    <2> SUFFICES ASSUME T # {} PROVE FALSE
        OBVIOUS
    <2>1. PICK n \in T : \A m \in T : n <= m
        BY LeastNumber
    <2>2. CASE n = 0
        <3> DEFINE h == [s \in Small(S, 0) |-> 0]
        <3>1. \A s \in Small(S, 0) : s = {}
            BY FS_Subset, FS_EmptySet, FS_CardinalityType DEF Small
        <3>2. SumsUpTo(g, S, 0, h)
            BY <3>1 DEF SumsUpTo
        <3> QED BY <2>1, <2>2, <3>2
    <2>3. CASE n # 0
        <3>1. n - 1 \in Nat /\ n - 1 \notin T
            BY <2>1, <2>3
        <3>2. PICK h : SumsUpTo(g, S, n - 1, h)
            BY <3>1
        <3> DEFINE Step(k, s) == g[CHOOSE x \in s : TRUE] + k[s \ {CHOOSE x \in s : TRUE}]
                   k == [s \in Small(S, n) |-> IF s = {} THEN 0 ELSE Step(h, s)]
        <3>3. ASSUME NEW s \in Small(S, n), s # {}
              PROVE  k[s \ {CHOOSE x \in s : TRUE}] = h[s \ {CHOOSE x \in s : TRUE}]
            <4> DEFINE r == s \ {CHOOSE x \in s : TRUE}
            <4>1. r \in Small(S, n - 1) /\ r \in Small(S, n)
                <5>1. s \in SUBSET S /\ Cardinality(s) <= n
                    BY DEF Small
                <5>2. r \in SUBSET S /\ Cardinality(s) \in Nat /\ Cardinality(r) = Cardinality(s) - 1
                    BY <5>1, <3>3, Smaller1
                <5> QED BY <5>1, <5>2, <3>1 DEF Small
            <4>2. h[r] = IF r = {} THEN 0 ELSE Step(h, r)
                BY <3>2, <4>1 DEF SumsUpTo
            <4>3. k[r] = IF r = {} THEN 0 ELSE Step(h, r)
                BY <4>1
            <4> QED BY <4>2, <4>3
        <3>4. k = [s \in Small(S, n) |-> IF s = {} THEN 0 ELSE Step(k, s)]
            <4>1. k = [s \in Small(S, n) |-> k[s]]
                OBVIOUS
            <4>2. ASSUME NEW s \in Small(S, n) PROVE k[s] = IF s = {} THEN 0 ELSE Step(k, s)
                <5>1. k[s] = IF s = {} THEN 0 ELSE Step(h, s)
                    OBVIOUS
                <5> HIDE DEF k
                <5> QED BY <3>3, <5>1
            <4> HIDE DEF k
            <4>3. [s \in Small(S, n) |-> k[s]] = [s \in Small(S, n) |-> IF s = {} THEN 0 ELSE Step(k, s)]
                BY <4>2
            <4> QED BY <4>1, <4>3
        <3>5. SumsUpTo(g, S, n, k)
            BY <3>4 DEF SumsUpTo
        <3> QED BY <2>1, <3>5
    <2> QED BY <2>2, <2>3
<1>2. PICK h : SumsUpTo(g, S, Cardinality(S), h)
    BY <1>1, FS_CardinalityType
<1>3. Small(S, Cardinality(S)) = SUBSET S
    BY FS_Subset DEF Small
<1> QED BY <1>2, <1>3, ZenonT(60) DEF SumsUpTo, Sums

\* What is closed under addition holds the sum of its members.
LEMMA SumIn ==
    ASSUME NEW V, 0 \in V, \A a, b \in V : a + b \in V,
           NEW S, IsFiniteSet(S), NEW g, \A x \in S : g[x] \in V
    PROVE  SumFunctionOnSet(g, S) \in V
<1> DEFINE h == CHOOSE k : Sums(g, S, k)
<1>1. SumFunctionOnSet(g, S) = h[S]
    BY DEF SumFunctionOnSet, FoldFunctionOnSet, MapThenFoldSet, Sums
<1>2. Sums(g, S, h)
    BY SumsExist
<1> HIDE DEF h
<1> DEFINE T == {n \in Nat : \E s \in SUBSET S : Cardinality(s) = n /\ h[s] \notin V}
<1>3. T = {}
    <2> SUFFICES ASSUME T # {} PROVE FALSE
        OBVIOUS
    <2>1. PICK n \in T : \A m \in T : n <= m
        BY LeastNumber
    <2>2. PICK s \in SUBSET S : Cardinality(s) = n /\ h[s] \notin V
        OBVIOUS
    <2> DEFINE x == CHOOSE y \in s : TRUE
    <2>3. h[s] = IF s = {} THEN 0 ELSE g[x] + h[s \ {x}]
        BY <1>2 DEF Sums
    <2>4. s # {}
        BY <2>2, <2>3
    <2>5. x \in s /\ s \ {x} \in SUBSET S /\ Cardinality(s \ {x}) = n - 1 /\ n \in Nat
        BY <2>2, <2>4, Smaller1
    <2> HIDE DEF x
    <2>6. n - 1 \in Nat
        BY <2>4, <2>5, <2>2, FS_EmptySet, FS_Subset
    <2>7. h[s \ {x}] \in V
        BY <2>1, <2>5, <2>6
    <2>8. g[x] + h[s \ {x}] \in V
        BY <2>5, <2>7
    <2> QED BY <2>2, <2>3, <2>4, <2>8
<1>4. Cardinality(S) \in Nat
    BY FS_CardinalityType
<1> QED BY <1>1, <1>3, <1>4

\* A sum of whole numbers is one.
LEMMA SumInt ==
    ASSUME NEW f, IsFiniteSet(DOMAIN f), \A x \in DOMAIN f : f[x] \in Int
    PROVE  SumFunction(f) \in Int
<1>1. 0 \in Int /\ \A a, b \in Int : a + b \in Int
    OBVIOUS
<1> QED BY <1>1, SumIn DEF SumFunction

\* A sum of natural numbers is one.
LEMMA SumNat ==
    ASSUME NEW f, IsFiniteSet(DOMAIN f), \A x \in DOMAIN f : f[x] \in Nat
    PROVE  SumFunction(f) \in Nat
<1>1. 0 \in Nat /\ \A a, b \in Nat : a + b \in Nat
    OBVIOUS
<1> QED BY <1>1, SumIn DEF SumFunction

\* The least number of a set that has one.
LEMMA MinIs ==
    ASSUME NEW S, \E x \in S : \A y \in S : x <= y
    PROVE  Min(S) \in S /\ \A y \in S : Min(S) <= y
    BY DEF Min

\* The greatest likewise.
LEMMA MaxIs ==
    ASSUME NEW S, \E x \in S : \A y \in S : x >= y
    PROVE  Max(S) \in S /\ \A y \in S : Max(S) >= y
    BY DEF Max

\* A finite set of numbers has a greatest one.
LEMMA MaxIn ==
    ASSUME NEW S \in SUBSET Int, IsFiniteSet(S), S # {}
    PROVE  Max(S) \in S /\ \A y \in S : Max(S) >= y
<1> DEFINE Topped(T) == \E x \in T : \A y \in T : x >= y
           Odd == {n \in Nat : \E T \in SUBSET S : T # {} /\ Cardinality(T) = n /\ ~Topped(T)}
<1>1. Odd = {}
    <2> SUFFICES ASSUME Odd # {} PROVE FALSE
        OBVIOUS
    <2>1. PICK n \in Odd : \A m \in Odd : n <= m
        BY LeastNumber
    <2>2. PICK T \in SUBSET S : T # {} /\ Cardinality(T) = n /\ ~Topped(T)
        OBVIOUS
    <2>3. PICK x \in T : TRUE
        BY <2>2
    <2>4. IsFiniteSet(T)
        BY FS_Subset
    <2>5. Cardinality(T \ {x}) = n - 1 /\ Cardinality(T) \in Nat /\ n - 1 \in Nat
        <3>1. Cardinality(T) \in Nat /\ Cardinality(T) # 0
            BY <2>2, <2>4, FS_CardinalityType, FS_EmptySet
        <3>2. Cardinality(T \ {x}) = Cardinality(T) - 1
            BY <2>3, <2>4, FS_RemoveElement
        <3> QED BY <2>2, <3>1, <3>2
    <2>6. CASE T \ {x} = {}
        <3>1. T = {x} /\ x \in Int
            BY <2>3, <2>6
        <3> QED BY <2>2, <3>1
    <2>7. CASE T \ {x} # {}
        <3>1. Topped(T \ {x})
            <4>1. n - 1 \notin Odd
                BY <2>1, <2>5
            <4> QED BY <2>5, <2>7, <4>1
        <3>2. PICK y \in T \ {x} : \A z \in T \ {x} : y >= z
            BY <3>1
        <3>3. x \in Int /\ y \in Int /\ T \subseteq Int
            BY <2>3, <3>2
        <3>4. CASE x >= y
            <4>1. \A z \in T : x >= z
                BY <3>2, <3>3, <3>4
            <4> QED BY <2>2, <2>3, <4>1
        <3>5. CASE y >= x
            <4>1. y \in T /\ \A z \in T : y >= z
                BY <3>2, <3>3, <3>5
            <4>2. Topped(T)
                BY <4>1
            <4> QED BY <2>2, <4>2
        <3> QED BY <3>3, <3>4, <3>5
    <2> QED BY <2>6, <2>7
<1>2. Topped(S)
    BY <1>1, FS_CardinalityType
<1> QED BY <1>2 DEF Max

-----------------------------------------------------------------------------
(* Blocks on integrity rest on the record.                                 *)

\* What blocks an issuer in the row of the exchange is what condemns the row.
LEMMA ReasonsCondemn ==
    ASSUME NEW row, row.verified
    PROVE  BlockReasons(row) # {} <=> Condemned(row)
<1>1. \A f \in Critical : Flags(row)[f] = "TRUE" <=> row.flags[f] = "yes"
    BY DEF Flags, Flag
<1>2. {"hsc", "special", "fca", "suspended", "sanctions"} \subseteq Critical
    BY DEF Critical
<1>3. BlockReasons(row) # {} <=>
        \/ \E f \in {"hsc", "special", "fca", "suspended", "sanctions"} : Flags(row)[f] = "TRUE"
        \/ Below(row.float, ExtremeFloat)
        \/ ~Seen(row.age) \/ row.age > StaleAfter
    BY DEF BlockReasons
<1> QED BY <1>1, <1>2, <1>3 DEF Condemned, Below, ExtremeFloat, StaleAfter

\* The provenance of a merge, and when it holds an issuer back.
LEMMA DirectMerge ==
    ASSUME NEW base, NEW rows, rows # <<>>
    PROVE  LET merged == MergeIntegrity(base, rows)
           IN /\ merged.hard <=> ~Last(rows).verified \/ BlockReasons(Last(rows)) # {} \/ base.hard
              /\ merged.provenance # ""
              /\ base.provenance = "" => merged.provenance = IF Last(rows).verified THEN "DIRECT" ELSE "UNVERIFIED"
              /\ merged.provenance = "DIRECT" => Last(rows).verified
              /\ {"hard", "provenance"} \subseteq DOMAIN merged
    BY DEF MergeIntegrity, IntegrityOf, Provenance

\* What the alerts of the events add to the integrity evidence.
LEMMA OverlayOf ==
    ASSUME NEW base, NEW events, {"hard", "provenance"} \subseteq DOMAIN base
    PROVE  LET laid == Overlay(base, events)
           IN /\ laid.hard <=> \/ base.hard
                               \/ \E k \in DOMAIN events :
                                    Alerting(events[k]) /\ Regulator(events[k]) /\ events[k].alert \ {"uma"} # {}
              /\ laid.provenance \in {base.provenance, "AUTO_PUBLIC"}
              /\ laid.provenance = base.provenance \/ \E k \in DOMAIN events : events[k].alert # {}
              /\ {"hard", "provenance"} \subseteq DOMAIN laid
<1> DEFINE alerting == {k \in DOMAIN events : Alerting(events[k])}
           official == {k \in alerting : Regulator(events[k])}
           said == UNION {events[k].alert : k \in official}
<1>1. CASE alerting = {}
    BY <1>1 DEF Overlay
<1>2. CASE alerting # {}
    <2>1. said \ {"uma"} # {} <=> \E k \in official : events[k].alert \ {"uma"} # {}
        OBVIOUS
    <2>2. Overlay(base, events).hard = (base.hard \/ said \ {"uma"} # {})
        BY <1>2 DEF Overlay
    <2>3. Overlay(base, events).provenance = "AUTO_PUBLIC"
        BY <1>2 DEF Overlay
    <2>4. \E k \in DOMAIN events : events[k].alert # {}
        BY <1>2 DEF Alerting
    <2>5. {"hard", "provenance"} \subseteq DOMAIN Overlay(base, events)
        BY <1>2 DEF Overlay
    <2> QED BY <2>1, <2>2, <2>3, <2>4, <2>5
<1> QED BY <1>1, <1>2

\* The events that count at the decision are dated and were public.
LEMMA PointInTimeOf ==
    ASSUME NEW events
    PROVE  LET known == PointInTime(events)
           IN /\ DOMAIN known = {k \in DOMAIN events : ~events[k].future /\ Seen(events[k].age)}
              /\ \A k \in DOMAIN known : known[k] = events[k]
    BY DEF PointInTime, RestrictValues, Restrict

\* What a float that is known from direct evidence adds to it.
LEMMA BridgedOf ==
    ASSUME NEW owner, NEW integrity, {"hard", "provenance"} \subseteq DOMAIN integrity
    PROVE  LET bridged == Bridged(owner, integrity)
           IN /\ {"hard", "provenance"} \subseteq DOMAIN bridged
              /\ bridged.provenance = integrity.provenance
              /\ bridged.hard => integrity.hard \/ (owner.direct /\ owner.float < ExtremeFloat)
              /\ integrity.hard => bridged.hard
<1> DEFINE low == owner.float < ExtremeFloat
           float == Finite(integrity.float, owner.float)
           coverage == IF Seen(integrity.float) THEN integrity.coverage ELSE Min({100, integrity.coverage + 14})
           laid == [integrity EXCEPT !.float = float, !.coverage = coverage, !.hard = @ \/ low]
           away == ~owner.direct \/ ~Seen(owner.float) \/ owner.float > 1000
<1>1. Bridged(owner, integrity) = IF away THEN integrity ELSE laid
    BY DEF Bridged
<1>2. DOMAIN laid = DOMAIN integrity /\ laid.provenance = integrity.provenance
      /\ laid.hard = (integrity.hard \/ low)
    <2> HIDE DEF low, float, coverage
    <2> QED OBVIOUS
<1>3. Bridged(owner, integrity).hard = IF away THEN integrity.hard ELSE (integrity.hard \/ low)
    <2> HIDE DEF laid, low, away
    <2> QED BY <1>1, <1>2
<1>4. Bridged(owner, integrity).provenance = integrity.provenance
    <2> HIDE DEF laid, low, away
    <2> QED BY <1>1, <1>2
<1>5. DOMAIN Bridged(owner, integrity) = DOMAIN integrity
    <2> HIDE DEF laid, low, away
    <2> QED BY <1>1, <1>2
<1>6. ~away => owner.direct
    OBVIOUS
<1>7. Bridged(owner, integrity).hard => integrity.hard \/ (owner.direct /\ low)
    <2> HIDE DEF laid, low, away
    <2> QED BY <1>3, <1>6
<1>8. integrity.hard => Bridged(owner, integrity).hard
    <2> HIDE DEF laid, low, away
    <2> QED BY <1>3, <1>6
<1> QED BY <1>4, <1>5, <1>7, <1>8

\* What holds an issuer back on integrity, one source at a time.
LEMMA HardBecause ==
    ASSUME NEW ksei, NEW rows, NEW owner, NEW events
    PROVE  LET found == IntegrityEvidence(ksei, rows, owner, events)
           IN /\ found.hard =>
                     \/ rows # <<>> /\ (~Last(rows).verified \/ Condemned(Last(rows)))
                     \/ ksei # <<>> /\ Head(ksei).verified /\ Head(ksei).status \notin {"", "ACTIVE"}
                     \/ \E k \in DOMAIN events :
                           /\ Regulator(events[k]) /\ ~events[k].future /\ events[k].age \in 0..120
                           /\ events[k].alert \ {"uma"} # {}
                     \/ owner.direct /\ owner.float < 75
                     \/ rows = <<>> /\ ksei = <<>>
              /\ ksei # <<>> /\ Head(ksei).verified /\ Head(ksei).status \notin {"", "ACTIVE"} => found.hard
              /\ (\E k \in DOMAIN events :
                    /\ Regulator(events[k]) /\ ~events[k].future /\ events[k].age \in 0..120
                    /\ events[k].alert \ {"uma"} # {}) => found.hard
              /\ rows # <<>> => found.provenance # ""
              /\ rows # <<>> /\ Last(rows).verified /\ Condemned(Last(rows)) => found.hard
              /\ found.provenance = "DIRECT" => rows # <<>> /\ Last(rows).verified
<1> DEFINE profile == IF ksei = <<>> THEN NoProfile ELSE KseiIntegrity(Head(ksei))
           base == Overlay(profile, PointInTime(events))
           merged == MergeIntegrity(base, rows)
           bridged == Bridged(owner, merged)
           found == IntegrityEvidence(ksei, rows, owner, events)
           Stopped == ksei # <<>> /\ Head(ksei).verified /\ Head(ksei).status \notin {"", "ACTIVE"}
           Alert == \E k \in DOMAIN events :
                       /\ Regulator(events[k]) /\ ~events[k].future /\ events[k].age \in 0..120
                       /\ events[k].alert \ {"uma"} # {}
<1>1. /\ profile.hard <=> Stopped
      /\ profile.provenance = "" <=> ksei = <<>>
      /\ profile.provenance # "DIRECT"
      /\ {"hard", "provenance"} \subseteq DOMAIN profile
    BY DEF NoProfile, KseiIntegrity
<1>2. /\ base.hard <=> Stopped \/ Alert
      /\ base.provenance \in {profile.provenance, "AUTO_PUBLIC"}
      /\ {"hard", "provenance"} \subseteq DOMAIN base
    <2> DEFINE known == PointInTime(events)
    <2>1. /\ DOMAIN known = {k \in DOMAIN events : ~events[k].future /\ Seen(events[k].age)}
          /\ \A k \in DOMAIN known : known[k] = events[k]
        BY PointInTimeOf
    <2> HIDE DEF known, profile
    <2>2. /\ base.hard <=> \/ profile.hard
                           \/ \E k \in DOMAIN known :
                                Alerting(known[k]) /\ Regulator(known[k]) /\ known[k].alert \ {"uma"} # {}
          /\ base.provenance \in {profile.provenance, "AUTO_PUBLIC"}
          /\ base.provenance = profile.provenance \/ \E k \in DOMAIN known : known[k].alert # {}
          /\ {"hard", "provenance"} \subseteq DOMAIN base
        <3> SUFFICES {"hard", "provenance"} \subseteq DOMAIN profile
            BY OverlayOf DEF known
        <3> QED BY <1>1
    <2> HIDE DEF base
    <2>3. \A k \in DOMAIN known :
             Alerting(known[k]) => events[k].age \in 0..120 /\ ~events[k].future
        BY <2>1 DEF Alerting
    <2>4. base.hard => Stopped \/ Alert
        BY <1>1, <2>1, <2>2, <2>3
    <2>5. Stopped => base.hard
        BY <1>1, <2>2
    <2>6. ASSUME NEW k \in DOMAIN events, Regulator(events[k]), ~events[k].future, events[k].age \in 0..120,
                 events[k].alert \ {"uma"} # {}
          PROVE  base.hard
        <3>1. Seen(events[k].age)
            BY <2>6 DEF Seen, NaN
        <3>2. k \in DOMAIN known /\ known[k] = events[k]
            BY <2>1, <2>6, <3>1
        <3>3. Alerting(events[k])
            BY <2>6 DEF Alerting
        <3> QED BY <2>2, <2>6, <3>2, <3>3
    <2> QED BY <2>1, <2>2, <2>4, <2>5, <2>6
<1>3. (rows = <<>> => merged = base) /\ {"hard", "provenance"} \subseteq DOMAIN merged
    <2> HIDE DEF base
    <2> QED BY <1>2, DirectMerge DEF MergeIntegrity
<1>4. rows # <<>> =>
        /\ merged.hard <=> ~Last(rows).verified \/ Condemned(Last(rows)) \/ base.hard
        /\ merged.provenance # ""
        /\ base.provenance = "" => merged.provenance = IF Last(rows).verified THEN "DIRECT" ELSE "UNVERIFIED"
        /\ merged.provenance = "DIRECT" => Last(rows).verified
    BY DirectMerge, ReasonsCondemn
<1>5. /\ bridged.provenance = merged.provenance
      /\ bridged.hard => merged.hard \/ (owner.direct /\ owner.float < 75)
      /\ merged.hard => bridged.hard
      /\ {"hard", "provenance"} \subseteq DOMAIN bridged
    <2> HIDE DEF merged
    <2> QED BY <1>3, BridgedOf DEF ExtremeFloat
<1>6. found = IF bridged.provenance = "" THEN [bridged EXCEPT !.hard = TRUE] ELSE bridged
    BY DEF IntegrityEvidence
<1>7. /\ found.provenance = bridged.provenance
      /\ bridged.provenance # "" => found = bridged
    <2> HIDE DEF found, bridged
    <2> QED BY <1>5, <1>6
<1> HIDE DEF profile, base, merged, bridged, found
<1>8. bridged.provenance = "" => rows = <<>> /\ ksei = <<>>
    BY <1>1, <1>2, <1>3, <1>4, <1>5
<1>9. found.provenance = "DIRECT" => rows # <<>> /\ Last(rows).verified
    BY <1>1, <1>2, <1>3, <1>4, <1>5, <1>7
<1>10. found.hard => \/ rows # <<>> /\ (~Last(rows).verified \/ Condemned(Last(rows)))
                     \/ Stopped \/ Alert
                     \/ owner.direct /\ owner.float < 75
                     \/ rows = <<>> /\ ksei = <<>>
    BY <1>2, <1>3, <1>4, <1>5, <1>7, <1>8
<1>11. rows # <<>> => found.provenance # "" /\ (Last(rows).verified /\ Condemned(Last(rows)) => found.hard)
    BY <1>4, <1>5, <1>7
<1>12. Stopped \/ Alert => found.hard
    <2>1. merged.hard => bridged.hard
        BY <1>5
    <2>2. base.hard => merged.hard
        BY <1>3, <1>4
    <2>3. bridged.hard => found.hard
        BY <1>6, <1>7, <1>5
    <2> QED BY <1>2, <2>1, <2>2, <2>3
<1> QED BY <1>9, <1>10, <1>11, <1>12 DEF found

\* A verified row of the exchange that stands alone keeps its provenance.
LEMMA DirectBecause ==
    ASSUME NEW rows, rows # <<>>, Last(rows).verified, NEW owner,
           NEW events, \A k \in DOMAIN events : events[k].alert = {}
    PROVE  IntegrityEvidence(<<>>, rows, owner, events).provenance = "DIRECT"
<1> DEFINE base == Overlay(NoProfile, PointInTime(events))
           merged == MergeIntegrity(base, rows)
           bridged == Bridged(owner, merged)
<1>1. base = NoProfile
    <2>1. \A k \in DOMAIN PointInTime(events) : ~Alerting(PointInTime(events)[k])
        BY PointInTimeOf DEF Alerting
    <2> QED BY <2>1 DEF Overlay
<1> HIDE DEF base
<1>2. base.provenance = ""
    BY <1>1 DEF NoProfile
<1>3. merged.provenance = "DIRECT" /\ {"hard", "provenance"} \subseteq DOMAIN merged
    BY <1>2, DirectMerge
<1> HIDE DEF merged
<1>4. bridged.provenance = "DIRECT"
    BY <1>3, BridgedOf
<1> HIDE DEF bridged
<1>5. IntegrityEvidence(<<>>, rows, owner, events)
        = IF bridged.provenance = "" THEN [bridged EXCEPT !.hard = TRUE] ELSE bridged
    BY DEF IntegrityEvidence, bridged, merged, base
<1> QED BY <1>4, <1>5

\* An issuer is held back only by what was on record.
LEMMA Grounded == BlocksAreGrounded
<1> SUFFICES ASSUME NEW i \in Issuers, Integrity(i).hard
             PROVE  \/ Held(i, "integrityRows") # <<>> /\ (~Direct(i) \/ DirectBlock(i))
                    \/ KseiStopped(i) \/ OfficialAlert(i)
                    \/ Owner(i).direct /\ Owner(i).float < 75
                    \/ Held(i, "integrityRows") = <<>> /\ Held(i, "ksei") = <<>>
    BY DEF BlocksAreGrounded
<1> QED BY HardBecause DEF Integrity, Direct, DirectBlock, KseiStopped, OfficialAlert

\* BlocksAreGrounded: no issuer is held back on integrity by an undated, future or unofficial
\* event (_point_in_time_event_frame, finalize_job).
THEOREM BlocksGrounded == Spec => []BlocksAreGrounded
    BY Grounded, PTL

-----------------------------------------------------------------------------
(* Ticks, bands and paths: the stop is close to the band.                  *)

\* The five ticks of the exchange.
LEMMA TickIs ==
    ASSUME NEW u \in Int
    PROVE  /\ IdxTick(u) \in {1, 2, 5, 10, 25}
           /\ IdxTick(u) = IF u < 40000 THEN 1 ELSE IF u < 100000 THEN 2 ELSE IF u < 400000 THEN 5
                           ELSE IF u < 1000000 THEN 10 ELSE 25
<1>1. CASE u < 40000
    BY <1>1 DEF IdxTick, U
<1>2. CASE u >= 40000 /\ u < 100000
    BY <1>2 DEF IdxTick, U
<1>3. CASE u >= 100000 /\ u < 400000
    BY <1>3 DEF IdxTick, U
<1>4. CASE u >= 400000 /\ u < 1000000
    BY <1>4 DEF IdxTick, U
<1>5. CASE u >= 1000000
    BY <1>5 DEF IdxTick, U
<1> QED BY <1>1, <1>2, <1>3, <1>4, <1>5

\* The tick grid: rounding down loses less than a tick.
LEMMA RoundDownIs ==
    ASSUME NEW u \in Int
    PROVE  /\ RoundDown(u) \in Nat \cup {NaN}
           /\ Seen(RoundDown(u)) <=> u > 0
           /\ u > 0 => RoundDown(u) * 200 <= u /\ u < (RoundDown(u) + IdxTick(u)) * 200
<1>1. CASE u <= 0
    BY <1>1 DEF RoundDown, Seen, NaN
<1>2. ASSUME u > 0, NEW t \in {1, 2, 5, 10, 25}, IdxTick(u) = t
      PROVE  /\ RoundDown(u) \in Nat /\ RoundDown(u) * 200 <= u /\ u < (RoundDown(u) + t) * 200
    <2>1. RoundDown(u) = (u \div (t * 200)) * t
        BY <1>2 DEF RoundDown, Seen, NaN, U
    <2>2. CASE t = 1
        BY <1>2, <2>1, <2>2
    <2>3. CASE t = 2
        BY <1>2, <2>1, <2>3
    <2>4. CASE t = 5
        BY <1>2, <2>1, <2>4
    <2>5. CASE t = 10
        BY <1>2, <2>1, <2>5
    <2>6. CASE t = 25
        BY <1>2, <2>1, <2>6
    <2> QED BY <2>2, <2>3, <2>4, <2>5, <2>6
<1>3. CASE u > 0
    BY <1>2, <1>3, TickIs DEF Seen, NaN
<1> QED BY <1>1, <1>3

\* A positive price rounded up is positive.
LEMMA RoundUpIs ==
    ASSUME NEW u \in Int
    PROVE  /\ RoundUp(u) \in Nat \cup {NaN}
           /\ Seen(RoundUp(u)) <=> u > 0
           /\ u > 0 => RoundUp(u) > 0
<1>1. CASE u <= 0
    BY <1>1 DEF RoundUp, Seen, NaN
<1>2. ASSUME u > 0, NEW t \in {1, 2, 5, 10, 25}, IdxTick(u) = t
      PROVE  RoundUp(u) \in Nat /\ RoundUp(u) > 0
    <2>1. RoundUp(u) = -((-u) \div (t * 200)) * t
        BY <1>2 DEF RoundUp, Seen, NaN, U
    <2>2. CASE t = 1
        BY <1>2, <2>1, <2>2
    <2>3. CASE t = 2
        BY <1>2, <2>1, <2>3
    <2>4. CASE t = 5
        BY <1>2, <2>1, <2>4
    <2>5. CASE t = 10
        BY <1>2, <2>1, <2>5
    <2>6. CASE t = 25
        BY <1>2, <2>1, <2>6
    <2> QED BY <2>2, <2>3, <2>4, <2>5, <2>6
<1>3. CASE u > 0
    BY <1>2, <1>3, TickIs DEF Seen, NaN
<1> QED BY <1>1, <1>3

\* A price rounded down below another has no coarser tick than that one.
LEMMA TickBelow ==
    ASSUME NEW u \in Int, u > 0, NEW low \in Nat, RoundDown(u) < low
    PROVE  IdxTick(u) <= IdxTick(low * U)
<1>1. low * U = low * 200
    BY DEF U
<1>2. CASE u < 40000
    BY <1>1, <1>2, TickIs
<1>3. CASE u >= 40000 /\ u < 100000
    <2>1. RoundDown(u) = (u \div 400) * 2
        BY <1>3, TickIs DEF RoundDown, Seen, NaN, U
    <2>2. low > 200
        BY <1>3, <2>1
    <2> QED BY <1>1, <1>3, <2>2, TickIs
<1>4. CASE u >= 100000 /\ u < 400000
    <2>1. RoundDown(u) = (u \div 1000) * 5
        BY <1>4, TickIs DEF RoundDown, Seen, NaN, U
    <2>2. low > 500
        BY <1>4, <2>1
    <2> QED BY <1>1, <1>4, <2>2, TickIs
<1>5. CASE u >= 400000 /\ u < 1000000
    <2>1. RoundDown(u) = (u \div 2000) * 10
        BY <1>5, TickIs DEF RoundDown, Seen, NaN, U
    <2>2. low > 2000
        BY <1>5, <2>1
    <2> QED BY <1>1, <1>5, <2>2, TickIs
<1>6. CASE u >= 1000000
    <2>1. RoundDown(u) = (u \div 5000) * 25
        BY <1>6, TickIs DEF RoundDown, Seen, NaN, U
    <2>2. low > 5000
        BY <1>6, <2>1
    <2> QED BY <1>1, <1>6, <2>2, TickIs
<1> QED BY <1>2, <1>3, <1>4, <1>5, <1>6

\* A stop six percent below a price or closer, or a tick under it.
LEMMA CloseStop ==
    ASSUME NEW low \in Nat, NEW u \in Int, u >= 188 * low, NEW tight \in Nat \cup {NaN}, RoundDown(u) <= tight,
           NEW stop, stop = IF Seen(tight) /\ tight >= low THEN RoundDown((low - IdxTick(low * U)) * U) ELSE tight,
           Seen(stop), stop < low
    PROVE  stop \in Nat /\ 100 * (stop + 2 * IdxTick(low * U)) >= 94 * low
<1> DEFINE t == IdxTick(low * U)
<1>1. t \in {1, 2, 5, 10, 25} /\ low * U \in Int
    BY TickIs DEF U
<1>2. CASE ~(Seen(tight) /\ tight >= low)
    <2>1. stop = tight /\ stop \in Nat
        BY <1>2 DEF Seen
    <2>2. u > 0
        BY <2>1
    <2>3. IdxTick(u) \in Nat /\ RoundDown(u) \in Nat /\ u < (RoundDown(u) + IdxTick(u)) * 200
        BY <2>2, TickIs, RoundDownIs DEF Seen
    <2>4. IdxTick(u) <= t
        BY <2>1, <2>2, <2>3, TickBelow
    <2> HIDE DEF t
    <2>5. 100 * (stop + 2 * t) >= 94 * low
        BY <1>1, <2>1, <2>3, <2>4
    <2> QED BY <2>1, <2>5 DEF t
<1>3. CASE Seen(tight) /\ tight >= low
    <2> DEFINE v == (low - t) * U
    <2>1. stop = RoundDown(v) /\ v \in Int /\ v = (low - t) * 200
        BY <1>1, <1>3 DEF U
    <2> HIDE DEF v, t
    <2>2. v > 0 /\ stop \in Nat /\ v < (stop + IdxTick(v)) * 200
        BY <2>1, RoundDownIs DEF Seen
    <2>3. IdxTick(v) <= t /\ IdxTick(v) \in Nat
        BY <2>1, <2>2, TickBelow, TickIs DEF t
    <2>4. 100 * (stop + 2 * t) >= 94 * low
        BY <1>1, <2>1, <2>2, <2>3
    <2> QED BY <2>2, <2>4 DEF t
<1> QED BY <1>2, <1>3

IsPrices(p) == {p.close, p.atr, p.ema20, p.high20, p.low20} \subseteq Int
IsBand(band) ==
    /\ band.low \in Nat \cup {NaN}
    /\ Seen(band.low) => band.high \in Nat /\ band.low <= band.high

\* A band has a low end, at most its high end, or none.
LEMMA BandIs ==
    ASSUME NEW p, IsPrices(p), NEW lifecycle, NEW trigger \in Int
    PROVE  IsBand(Band(p, lifecycle, trigger))
<1> DEFINE low == IF lifecycle = "MOMENTUM_TRIGGERED"
                  THEN RoundDown(Larger(p.ema20 * U, trigger * U - 130 * p.atr))
                  ELSE RoundDown(Larger(p.low20 * U, p.ema20 * U - 90 * p.atr))
           high == IF lifecycle = "MOMENTUM_TRIGGERED"
                   THEN RoundUp(trigger * U + 40 * p.atr)
                   ELSE RoundUp(Smaller(trigger * U, Larger(p.close * U, p.ema20 * U + 40 * p.atr)))
<1>1. /\ Larger(p.ema20 * U, trigger * U - 130 * p.atr) \in Int
      /\ Larger(p.low20 * U, p.ema20 * U - 90 * p.atr) \in Int
      /\ trigger * U + 40 * p.atr \in Int
      /\ Smaller(trigger * U, Larger(p.close * U, p.ema20 * U + 40 * p.atr)) \in Int
    BY DEF IsPrices, Larger, Smaller, U
<1>2. low \in Nat \cup {NaN} /\ high \in Nat \cup {NaN}
    <2>1. RoundDown(Larger(p.ema20 * U, trigger * U - 130 * p.atr)) \in Nat \cup {NaN}
        BY <1>1, RoundDownIs
    <2>2. RoundDown(Larger(p.low20 * U, p.ema20 * U - 90 * p.atr)) \in Nat \cup {NaN}
        BY <1>1, RoundDownIs
    <2>3. RoundUp(trigger * U + 40 * p.atr) \in Nat \cup {NaN}
        BY <1>1, RoundUpIs
    <2>4. RoundUp(Smaller(trigger * U, Larger(p.close * U, p.ema20 * U + 40 * p.atr))) \in Nat \cup {NaN}
        BY <1>1, RoundUpIs
    <2> QED BY <2>1, <2>2, <2>3, <2>4
<1>3. Band(p, lifecycle, trigger) = [low |-> Smaller(low, high), high |-> Larger(low, high)]
    BY DEF Band
<1> HIDE DEF low, high
<1> QED BY <1>2, <1>3 DEF IsBand, Smaller, Larger, Seen, NaN

\* A path that a row may be traded on.
Path(c) ==
    /\ c.valid /\ c.stop \in Nat /\ c.low \in Nat /\ c.ref \in Nat
    /\ c.stop < c.low /\ c.low <= c.ref
    /\ 100 * (c.stop + 2 * IdxTick(c.low * U)) >= 94 * c.low

\* The first path: its stop lies below its band and close to it.
LEMMA PathA ==
    ASSUME NEW p, IsPrices(p), NEW band, IsBand(band), Seen(band.low), PlanA(p, band).valid
    PROVE  Path(PlanA(p, band))
<1> DEFINE stop == StopA(p, band)
           structure == RoundDown(Smaller(p.low20 * U, band.low * U - 220 * p.atr))
           u == 95 * (band.low + band.high)
           tight == IF Seen(structure) THEN Larger(structure, RoundDown(u)) ELSE NaN
<1>1. band.low \in Nat /\ band.high \in Nat /\ band.low <= band.high
    BY DEF IsBand, Seen
<1>2. u \in Int /\ u >= 188 * band.low
    BY <1>1
<1>3. structure \in Nat \cup {NaN} /\ RoundDown(u) \in Nat \cup {NaN}
    <2>1. Smaller(p.low20 * U, band.low * U - 220 * p.atr) \in Int
        BY <1>1 DEF IsPrices, Smaller, U
    <2> QED BY <1>2, <2>1, RoundDownIs
<1>4. stop = IF Seen(tight) /\ tight >= band.low THEN RoundDown((band.low - IdxTick(band.low * U)) * U) ELSE tight
    BY DEF StopA
<1>5. PlanA(p, band) = FromStopA(p, band, stop)
    BY DEF PlanA
<1> HIDE DEF structure, u, stop
<1>6. /\ Seen(stop) /\ stop < band.low
      /\ PlanA(p, band).low = band.low /\ PlanA(p, band).ref = band.high /\ PlanA(p, band).stop = stop
    <2> DEFINE off == ~Seen(stop) \/ 100 * (band.low + band.high) - stop * U <= 0
    <2>1. off => FromStopA(p, band, stop) = NoPlan
        BY DEF FromStopA
    <2>2. ~off
        BY <1>5, <2>1 DEF NoPlan
    <2>3. /\ FromStopA(p, band, stop).low = band.low /\ FromStopA(p, band, stop).ref = band.high
          /\ FromStopA(p, band, stop).stop = stop
        BY <2>2 DEF FromStopA
    <2>4. FromStopA(p, band, stop).valid => stop < band.low
        BY <2>2 DEF FromStopA
    <2> QED BY <1>5, <2>2, <2>3, <2>4
<1>7. tight \in Nat \cup {NaN}
    BY <1>3 DEF Larger
<1>8. Seen(tight)
    BY <1>4, <1>6, <1>7
<1>9. RoundDown(u) <= tight
    BY <1>3, <1>8 DEF Larger, Seen, NaN
<1> HIDE DEF tight
<1>10. stop \in Nat /\ 100 * (stop + 2 * IdxTick(band.low * U)) >= 94 * band.low
    BY <1>1, <1>2, <1>4, <1>6, <1>7, <1>9, CloseStop
<1> QED BY <1>1, <1>6, <1>10 DEF Path

\* The second path: likewise.
LEMMA PathB ==
    ASSUME NEW p, IsPrices(p), NEW band, IsBand(band), Seen(band.low),
           NEW trigger \in Nat, PlanB(p, band, trigger).valid
    PROVE  Path(PlanB(p, band, trigger))
<1> DEFINE stop == StopB(p, band, trigger)
           structure == Smaller((band.high - IdxTick(trigger * U)) * U,
                                trigger * U - Larger(250 * p.atr, 4 * trigger))
           u == Larger(structure, 188 * trigger)
           tight == RoundDown(u)
<1>1. band.high \in Nat /\ IdxTick(trigger * U) \in Int
    BY TickIs DEF IsBand, U
<1>2. structure \in Int
    BY <1>1 DEF IsPrices, Smaller, Larger, U
<1>3. u \in Int /\ u >= 188 * trigger
    <2> HIDE DEF structure
    <2> QED BY <1>2 DEF Larger
<1>4. stop = IF Seen(tight) /\ tight >= trigger THEN RoundDown((trigger - IdxTick(trigger * U)) * U) ELSE tight
    BY DEF StopB
<1>5. PlanB(p, band, trigger) = FromStopB(p, trigger, stop)
    BY DEF PlanB
<1> HIDE DEF u, stop
<1>6. /\ Seen(stop) /\ stop < trigger
      /\ PlanB(p, band, trigger).low = trigger /\ PlanB(p, band, trigger).ref = trigger
      /\ PlanB(p, band, trigger).stop = stop
    <2> DEFINE off == ~Seen(stop) \/ trigger - stop <= 0
    <2>1. off => FromStopB(p, trigger, stop) = NoPlan
        BY DEF FromStopB
    <2>2. ~off
        BY <1>5, <2>1 DEF NoPlan
    <2>3. /\ FromStopB(p, trigger, stop).low = trigger /\ FromStopB(p, trigger, stop).ref = trigger
          /\ FromStopB(p, trigger, stop).stop = stop
        BY <2>2 DEF FromStopB
    <2>4. FromStopB(p, trigger, stop).valid => stop < trigger
        BY <2>2 DEF FromStopB
    <2> QED BY <1>5, <2>2, <2>3, <2>4
<1>7. tight \in Nat \cup {NaN} /\ RoundDown(u) <= tight
    BY <1>3, RoundDownIs DEF NaN
<1> HIDE DEF tight
<1>8. stop \in Nat /\ 100 * (stop + 2 * IdxTick(trigger * U)) >= 94 * trigger
    BY <1>3, <1>4, <1>6, <1>7, CloseStop
<1> QED BY <1>6, <1>8 DEF Path

\* Any plan that has a path.
LEMMA PlanIs ==
    ASSUME NEW p, IsPrices(p), NEW lifecycle, NEW book, book.price \in Int,
           Plan(p, lifecycle, book).path # "NONE"
    PROVE  Path(Plan(p, lifecycle, book).chosen)
<1> DEFINE trigger == Trigger(p, lifecycle, book)
           band == Band(p, lifecycle, trigger)
           a == PlanA(p, band)
           b == PlanB(p, band, trigger)
<1>1. trigger \in Nat \cup {NaN}
    <2>1. /\ book.price * U \in Int
          /\ (IF lifecycle = "MOMENTUM_TRIGGERED" THEN Larger(p.close, p.high20) ELSE p.high20) * U \in Int
        BY DEF IsPrices, Larger, U
    <2> QED BY <2>1, RoundUpIs DEF Trigger
<1>2. IsBand(band)
    BY <1>1, BandIs DEF NaN
<1>3. Plan(p, lifecycle, book) = Choice(p, lifecycle, trigger, band, a, b)
    BY DEF Plan, AtTrigger, InBand
<1> HIDE DEF trigger, band, a, b
<1>4. Seen(trigger) /\ Seen(band.low) /\ a.valid
    BY <1>3 DEF Choice, Refused
<1>5. Plan(p, lifecycle, book).chosen = IF Selected(a, b, lifecycle) = "A" THEN a ELSE b
    BY <1>3, <1>4 DEF Choice, Refused
<1>6. Selected(a, b, lifecycle) # "A" => b.valid
    BY DEF Selected
<1>7. Path(a)
    BY <1>2, <1>4, PathA DEF a
<1>8. b.valid => Path(b)
    BY <1>1, <1>2, <1>4, PathB, SMTT(30) DEF b, Seen
<1> QED BY <1>5, <1>6, <1>7, <1>8

-----------------------------------------------------------------------------
(* The profile: gate, caps and size.                                       *)

\* The numbers of the evidence that the gates and the caps read.
IsEvidence(d) ==
    /\ IsFeatures(d.features) /\ IsFund(d.fund) /\ IsAccount(d.account) /\ d.book.price \in Int

\* The row of one issuer, as the scan scores it.
LEMMA ProfileIs ==
    ASSUME NEW d
    PROVE  LET r == Reading(d)
               p == Profile(d)
           IN /\ p.state = DecisionState(d, r) /\ p.blockers = Blockers(d, r)
              /\ p.candidate = (p.blockers = {})
              /\ p.entry = EntryCandidate(p.candidate, p.state)
              /\ p.ready = RealMoneyReady(d, r, p.entry)
              /\ p.gate = GateState(p.candidate, p.entry, p.ready)
              /\ p.plan = PlanOf(d)
              /\ p.risk = RiskBudget(d, p.entry, p.ready)
              /\ p.cap = PositionCap(d, r, p.entry, p.ready)
              /\ p.manualCap = ManualCap(d, p.entry)
              /\ p.conviction = Conviction(d)
    BY DEF Profile, Gates, Gated, Reading

\* The gate follows from what is known of the row.
GateShape(row) ==
    /\ {row.candidate, row.entry, row.ready} \subseteq BOOLEAN
    /\ row.candidate <=> row.blockers = {}
    /\ row.entry => row.candidate
    /\ row.ready => row.entry
    /\ row.gate \in DOMAIN Level
    /\ row.gate = "REAL_MONEY_BLOCKED" <=> ~row.candidate
    /\ row.entry => Level[row.gate] >= 2
    /\ row.gate = "REAL_MONEY_DIRECT_VERIFIED_READY" => row.ready

\* It does so in the profile of every issuer.
LEMMA ProfileGate == ASSUME NEW d PROVE GateShape(Profile(d))
<1> DEFINE p == Profile(d)
<1>1. /\ p.candidate = (p.blockers = {})
      /\ p.entry = EntryCandidate(p.candidate, p.state)
      /\ p.ready = RealMoneyReady(d, Reading(d), p.entry)
      /\ p.gate = GateState(p.candidate, p.entry, p.ready)
    BY ProfileIs
<1> HIDE DEF p
<1>2. {p.candidate, p.entry, p.ready} \subseteq BOOLEAN
    BY <1>1 DEF EntryCandidate, RealMoneyReady
<1>3. (p.entry => p.candidate) /\ (p.ready => p.entry)
    BY <1>1 DEF EntryCandidate, RealMoneyReady
<1>4. /\ p.gate \in DOMAIN Level
      /\ p.gate = "REAL_MONEY_BLOCKED" <=> ~p.candidate
      /\ p.entry => Level[p.gate] >= 2
      /\ p.gate = "REAL_MONEY_DIRECT_VERIFIED_READY" => p.ready
    BY <1>1, <1>2, <1>3 DEF GateState, Level
<1> QED BY <1>1, <1>2, <1>3, <1>4 DEF GateShape, p

\* A row that is ready had everything an authorization asks for.
LEMMA ReadyIsClean ==
    ASSUME NEW d, IsEvidence(d), Profile(d).ready
    PROVE  /\ d.deep /\ d.integrity.provenance = "DIRECT" /\ ~d.integrity.hard
           /\ d.book.provenance = "DIRECT" /\ VerifiedStory(d.story)
           /\ d.fund.official >= 50 /\ d.fund.freshness = "CURRENT" /\ d.fund.ocf >= 0
           /\ d.features.age <= 7
<1> DEFINE p == Profile(d)
           r == Reading(d)
<1>1. /\ p.blockers = {} /\ p.blockers = Blockers(d, r) /\ RealMoneyReady(d, r, p.entry)
    BY ProfileIs, ProfileGate DEF GateShape
<1>2. /\ DirectFundamental(d.fund) /\ VerifiedStory(d.story) /\ PreciseReady(d, r) /\ Unresolved(d) = {}
    BY <1>1 DEF RealMoneyReady
<1> HIDE DEF p, r
<1>3. /\ CoreThesis(d, r) /\ d.integrity.provenance = "DIRECT" /\ ~d.integrity.hard /\ d.book.provenance = "DIRECT"
    BY <1>2 DEF PreciseReady, IntegrityReady
<1>4. d.deep /\ ~DataBlock(d)
    BY <1>3 DEF CoreThesis, Thesis
<1>5. d.features.age <= 7
    <2>1. OhlcvState(d.features) # "STALE_DATA_BLOCK"
        BY <1>4 DEF DataBlock
    <2>2. d.features.age \in Int
        BY DEF IsEvidence, IsFeatures
    <2>3. d.features.age > 7 => OhlcvState(d.features) = "STALE_DATA_BLOCK"
        BY <2>2 DEF OhlcvState
    <2> QED BY <2>1, <2>2, <2>3
<1>6. d.fund.official >= 50 /\ ~CashflowMissing(d.fund) /\ ~CashflowBurns(d.fund)
    <2>1. d.fund.official \in Int
        BY DEF IsEvidence, IsFund
    <2>2. ~ProxyOnly(d.fund) /\ ~CashflowMissing(d.fund) /\ ~CashflowBurns(d.fund)
        BY <1>2 DEF DirectFundamental
    <2> QED BY <2>1, <2>2 DEF ProxyOnly
<1>7. Observed(d.fund) /\ d.fund.freshness # "AGING"
    BY <1>2 DEF Unresolved, Named
<1>8. d.fund.freshness \notin {"STALE", "LAGGING"}
    BY <1>1, <1>7 DEF Blockers, Named
<1>9. d.fund.freshness = "CURRENT"
    BY <1>6, <1>7, <1>8 DEF IsEvidence, IsFund
<1>10. d.fund.ocf >= 0
    <2>1. CASE d.fund.cashQuality # ""
        <3>1. CashflowQuality(d.fund) = d.fund.cashQuality
            BY <2>1 DEF CashflowQuality
        <3>2. d.fund.cashQuality \notin {"CASHFLOW_NOT_AVAILABLE", "OCF_NEGATIVE", "OCF_AND_FCF_NEGATIVE"}
            BY <3>1, <1>6 DEF CashflowMissing, CashflowBurns
        <3>3. d.fund.cashQuality \notin {"", "CASHFLOW_NOT_AVAILABLE", "OCF_NEGATIVE", "OCF_AND_FCF_NEGATIVE"}
            BY <2>1, <3>2
        <3>4. IsFund(d.fund)
            BY DEF IsEvidence
        <3>5. IsFund(d.fund) => (d.fund.cashQuality \notin {"", "CASHFLOW_NOT_AVAILABLE", "OCF_NEGATIVE", "OCF_AND_FCF_NEGATIVE"}
                                  => d.fund.ocf >= 0)
            BY Zenon DEF IsFund
        <3> QED BY <3>3, <3>4, <3>5
    <2>2. CASE d.fund.cashQuality = ""
        <3>1. Seen(d.fund.ocf)
            BY <2>2, <1>6 DEF CashflowMissing, CashflowQuality
        <3>2. ~(d.fund.ocf < 0)
            BY <2>2, <3>1, <1>6 DEF CashflowBurns, CashflowQuality
        <3>3. IsFund(d.fund)
            BY DEF IsEvidence
        <3>4. d.fund.ocf \in Int
            BY <3>3 DEF IsFund
        <3> QED BY <3>2, <3>4
    <2> QED BY <2>1, <2>2
<1> QED BY <1>2, <1>3, <1>4, <1>5, <1>6, <1>9, <1>10

\* The score of the turnover is a whole percent.
LEMMA LiquidityIs == ASSUME NEW adtv \in Int PROVE LiquidityScore(adtv) \in 0..100
<1>1. CASE adtv >= 100000
    BY <1>1 DEF LiquidityScore
<1>2. CASE 25000 <= adtv /\ adtv < 100000
    BY <1>2 DEF LiquidityScore
<1>3. CASE 7500 <= adtv /\ adtv < 25000
    BY <1>3 DEF LiquidityScore
<1>4. CASE 2000 <= adtv /\ adtv < 7500
    BY <1>4 DEF LiquidityScore
<1>5. CASE 500 <= adtv /\ adtv < 2000
    BY <1>5 DEF LiquidityScore
<1>6. CASE 0 < adtv /\ adtv < 500
    BY <1>6 DEF LiquidityScore
<1>7. CASE adtv <= 0
    BY <1>7 DEF LiquidityScore
<1> QED BY <1>1, <1>2, <1>3, <1>4, <1>5, <1>6, <1>7

\* The caps, and what a market that is risk-off leaves of them.
LEMMA RequestedCapIs ==
    ASSUME NEW d, IsEvidence(d)
    PROVE  RequestedCap(d) \in 0..300
<1> DEFINE cap == Max({0, Min({d.account.maxCap, 300})})
           most == IF d.market.regime = "RISK_OFF" THEN 50 ELSE 75
<1>1. Min({d.account.maxCap, 300}) \in Int /\ Min({d.account.maxCap, 300}) <= 300
    <2>1. d.account.maxCap \in Int
        BY DEF IsEvidence, IsAccount
    <2> QED BY <2>1, MinIs
<1>2. cap \in 0..300
    <2> DEFINE least == Min({d.account.maxCap, 300})
    <2>1. least \in Int /\ least <= 300
        BY <1>1
    <2> HIDE DEF least
    <2>2. Max({0, least}) \in {0, least} /\ Max({0, least}) >= 0
        BY <2>1, MaxIs
    <2> QED BY <2>1, <2>2 DEF least
<1>3. Min({cap, most}) \in {cap, most} /\ Min({cap, most}) <= cap
    <2> HIDE DEF cap
    <2> QED BY <1>2, MinIs
<1>4. RequestedCap(d) = IF d.account.mode = "GUARDED_REAL_MONEY" THEN Min({cap, most}) ELSE cap
    BY DEF RequestedCap
<1> HIDE DEF cap
<1> QED BY <1>2, <1>3, <1>4

\* The cap for manual entries is at most three quarters of a percent, half a percent in a
\* market that is risk-off.
LEMMA ManualCapIs ==
    ASSUME NEW d, IsEvidence(d), NEW entry \in BOOLEAN
    PROVE  /\ ManualCap(d, entry) \in 0..75
           /\ d.market.regime = "RISK_OFF" => ManualCap(d, entry) <= 50
           /\ entry /\ ManualCap(d, entry) = 0 => RequestedCap(d) = 0
<1> DEFINE most == IF d.market.regime = "RISK_OFF" THEN 50 ELSE 75
           base == IF ~entry THEN 0 ELSE Min({RequestedCap(d), most})
           x == IF ProxyOnly(d.fund) \/ CashflowMissing(d.fund) \/ ~VerifiedStory(d.story) THEN 30 ELSE base
           y == IF GrowthReview(d.fund) \/ CashflowReview(d.fund) THEN 20 ELSE base
<1>1. RequestedCap(d) \in 0..300
    BY RequestedCapIs
<1>2. /\ Min({RequestedCap(d), most}) \in {RequestedCap(d), most}
      /\ Min({RequestedCap(d), most}) <= most
    BY <1>1, MinIs
<1>3. base \in 0..75 /\ (d.market.regime = "RISK_OFF" => base <= 50) /\ (entry /\ base = 0 => RequestedCap(d) = 0)
    <2> HIDE DEF most
    <2>1. most \in {50, 75} /\ (d.market.regime = "RISK_OFF" => most = 50)
        BY DEF most
    <2> QED BY <1>1, <1>2, <2>1
<1>4. ManualCap(d, entry) = Min({base, x, y})
    BY DEF ManualCap
<1>5. x \in {30, base} /\ y \in {20, base}
    OBVIOUS
<1> HIDE DEF base, x, y, most
<1>6. /\ Min({base, x, y}) \in {base, x, y} /\ Min({base, x, y}) <= base
    BY <1>3, <1>5, MinIs
<1> QED BY <1>3, <1>4, <1>5, <1>6

\* The cap of the model is at most two percent, half a percent in a market that is risk-off.
LEMMA ModelCapIs ==
    ASSUME NEW d, IsEvidence(d), NEW r
    PROVE  /\ ModelCap(d, r) \in 0..200
           /\ d.market.regime = "RISK_OFF" => ModelCap(d, r) <= 50
           /\ RequestedCap(d) = 0 => ModelCap(d, r) = 0
<1> DEFINE base == IF PreciseReady(d, r) THEN StrongCap(d, r)
                   ELSE IF AtLeast(r.conviction, 75) /\ LiquidityScore(d.features.adtv) >= 70 THEN 80 ELSE 50
           liquid == IF d.account.capital > 0 THEN SafeValue(d) \div d.account.capital ELSE 0
           cap == Min({RequestedCap(d), base, liquid})
           idle == ~PreciseReady(d, r) /\ ~AutoEodReady(d, r)
<1>1. ModelCap(d, r) = IF idle THEN 0 ELSE IF LeaderException(d) THEN Min({cap, 50}) ELSE cap
    BY DEF ModelCap
<1>2. CASE idle
    BY <1>1, <1>2
<1>3. CASE ~idle
    <2>1. MarketAllows(d) /\ ~CapacityBlock(d, r)
        BY <1>3 DEF PreciseReady, AutoEodReady, CoreThesis, AutoThesis, Thesis
    <2>2. d.features.adtv \in Int /\ d.account.capital \in Nat
        BY DEF IsEvidence, IsFeatures, IsAccount
    <2>3. d.features.adtv > 0
        BY <2>1, <2>2 DEF CapacityBlock
    <2>4. liquid \in Nat
        <3>1. \E n \in {25, 15, 10, 5} : SafeValue(d) = d.features.adtv * n
            BY DEF SafeValue
        <3>2. SafeValue(d) \in Nat
            BY <2>2, <2>3, <3>1
        <3> HIDE DEF SafeValue
        <3> QED BY <2>2, <3>2
    <2>5. base \in 0..200
        BY DEF StrongCap
    <2>6. RequestedCap(d) \in 0..300
        BY RequestedCapIs
    <2> HIDE DEF base, liquid
    <2>11. \E x \in {RequestedCap(d), base, liquid} : \A y \in {RequestedCap(d), base, liquid} : x <= y
        BY <2>4, <2>5, <2>6
    <2>7. cap \in {RequestedCap(d), base, liquid} /\ cap <= RequestedCap(d) /\ cap <= base
        BY <2>11, MinIs
    <2>8. cap \in 0..200 /\ (RequestedCap(d) = 0 => cap = 0)
        BY <2>4, <2>5, <2>6, <2>7
    <2> HIDE DEF cap, idle
    <2>9. Min({cap, 50}) \in {cap, 50} /\ Min({cap, 50}) <= cap /\ Min({cap, 50}) <= 50
        BY <2>8, MinIs
    <2>10. d.market.regime = "RISK_OFF" => LeaderException(d)
        BY <2>1 DEF MarketAllows
    <2> QED BY <1>1, <1>3, <2>8, <2>9, <2>10
<1> QED BY <1>2, <1>3

\* The cap of a row is at most two percent, half a percent in a market that is risk-off.
LEMMA CapIs ==
    ASSUME NEW d, IsEvidence(d), NEW r, NEW entry \in BOOLEAN, NEW ready \in BOOLEAN, ready => entry
    PROVE  /\ PositionCap(d, r, entry, ready) \in 0..200
           /\ d.market.regime = "RISK_OFF" => PositionCap(d, r, entry, ready) <= 50
<1> DEFINE m == ModelCap(d, r)
           n == ManualCap(d, entry)
           x == IF m > 0 THEN m ELSE n
           y == IF n > 0 THEN n ELSE 100
<1>1. /\ m \in 0..200 /\ (d.market.regime = "RISK_OFF" => m <= 50)
      /\ RequestedCap(d) = 0 => m = 0
    BY ModelCapIs
<1>2. n \in 0..75 /\ (d.market.regime = "RISK_OFF" => n <= 50) /\ (entry /\ n = 0 => RequestedCap(d) = 0)
    BY ManualCapIs
<1>3. PositionCap(d, r, entry, ready) = IF ready THEN Min({x, 100, y}) ELSE IF Guarded(d) THEN 0 ELSE m
    BY DEF PositionCap
<1> HIDE DEF m, n
<1>4. x \in 0..200 /\ y \in 0..100 /\ (d.market.regime = "RISK_OFF" /\ entry => x <= 50)
    BY <1>1, <1>2
<1> HIDE DEF x, y
<1>5. Min({x, 100, y}) \in {x, 100, y} /\ Min({x, 100, y}) <= x
    <2>1. x \in Int /\ y \in Int
        BY <1>4
    <2>2. \E least \in {x, 100, y} : \A z \in {x, 100, y} : least <= z
        <3>1. CASE x <= 100 /\ x <= y
            BY <2>1, <3>1
        <3>2. CASE 100 <= x /\ 100 <= y
            BY <2>1, <3>2
        <3>3. CASE y <= x /\ y <= 100
            BY <2>1, <3>3
        <3> QED BY <2>1, <3>1, <3>2, <3>3
    <2> QED BY <2>2, MinIs
<1> QED BY <1>1, <1>3, <1>4, <1>5

\* The risk budget is a natural number.
LEMMA RiskIs ==
    ASSUME NEW d, IsEvidence(d), NEW entry \in BOOLEAN, NEW ready \in BOOLEAN
    PROVE  RiskBudget(d, entry, ready) \in Nat
<1> DEFINE asked == Max({0, d.account.risk})
           mode == IF Guarded(d) THEN Min({asked, 75}) ELSE asked
           proxy == IF Guarded(d) /\ (ProxyOnly(d.fund) \/ CashflowMissing(d.fund)) THEN Min({mode, 50}) ELSE mode
<1>1. asked \in Nat
    <2>1. d.account.risk \in Nat
        BY DEF IsEvidence, IsAccount
    <2> QED BY <2>1, MaxIs
<1> HIDE DEF asked
<1>2. mode \in Nat
    BY <1>1, MinIs
<1> HIDE DEF mode
<1>3. proxy \in Nat
    BY <1>2, MinIs
<1> HIDE DEF proxy
<1>4. Min({proxy, 50}) \in Nat /\ Min({proxy, 75}) \in Nat
    BY <1>3, MinIs
<1>5. RiskBudget(d, entry, ready) = IF entry /\ ~ready THEN Min({proxy, 50})
                                    ELSE IF ready THEN Min({proxy, 75}) ELSE proxy
    BY DEF RiskBudget, proxy, mode, asked
<1> QED BY <1>3, <1>4, <1>5

\* The size of a position is a natural number of lots.
LEMMA LotsAre ==
    ASSUME NEW d, IsEvidence(d), NEW plan, plan.path # "NONE" => Path(plan.chosen), NEW cap \in Int, NEW risk \in Int
    PROVE  Lots(d, plan, cap, risk) \in Nat
<1> DEFINE entry2 == plan.chosen.low + plan.chosen.ref
           perShare2 == entry2 - 2 * plan.chosen.stop
           budget == d.account.capital * 100 * risk
           value == d.account.capital * 1000 * cap
           a == (2 * budget) \div (100 * perShare2)
           b == (2 * value) \div (100 * entry2)
           none == plan.path = "NONE" \/ cap <= 0 \/ perShare2 <= 0 \/ entry2 <= 0
<1>1. Lots(d, plan, cap, risk) = IF none THEN 0 ELSE Max({0, Min({a, b})})
    BY DEF Lots
<1>2. CASE none
    BY <1>1, <1>2
<1>3. CASE ~none
    <2>1. entry2 \in Int /\ perShare2 \in Int
        BY <1>3 DEF Path
    <2>2. d.account.capital \in Nat
        BY DEF IsEvidence, IsAccount
    <2>3. 2 * budget \in Int /\ 2 * value \in Int
        BY <2>2
    <2> HIDE DEF entry2, perShare2, budget, value
    <2>4. 100 * perShare2 \in Nat /\ 100 * perShare2 > 0 /\ 100 * entry2 \in Nat /\ 100 * entry2 > 0
        BY <1>3, <2>1
    <2>5. a \in Int /\ b \in Int
        BY <2>3, <2>4
    <2> HIDE DEF a, b, none
    <2>6. Min({a, b}) \in Int
        BY <2>5, MinIs
    <2>7. Max({0, Min({a, b})}) \in Int /\ Max({0, Min({a, b})}) >= 0
        BY <2>6, MaxIs
    <2> QED BY <1>1, <1>3, <2>7
<1> QED BY <1>2, <1>3

-----------------------------------------------------------------------------
(* From the record to the profile.                                         *)

\* What a name of the case stands for is known.
LEMMA HeldIs ==
    ASSUME case \in Cases, NEW i \in Issuers, NEW b \in IssuerBlocks
    PROVE  Held(i, b) \in Known(b)
    BY DecisionsAssumption DEF Held, Known

\* The same holds of what the whole scan reads.
LEMMA CommonIs ==
    ASSUME case \in Cases, NEW b \in ScanBlocks
    PROVE  Common(b) \in Known(b)
    BY DecisionsAssumption DEF Common, Known

\* The price of the order book is a whole number.
LEMMA BookPriceIs ==
    ASSUME NEW f, IsFeatures(f), NEW rows, Rows(rows, IsBookRow)
    PROVE  /\ BookOf(f, rows).price \in Int
           /\ BookOf(f, rows).provenance = "DIRECT" => \E k \in DOMAIN rows : rows[k].verified
<1> DEFINE verified == {k \in DOMAIN rows : Verified(rows[k])}
<1>1. CASE rows = <<>>
    <2>1. BookOf(f, rows).price = f.prices.high20 /\ BookOf(f, rows).provenance = "PROXY"
        BY <1>1 DEF BookOf, BookProxy
    <2>2. f.prices.high20 \in Int
        BY DEF IsFeatures
    <2> QED BY <2>1, <2>2
<1>2. CASE rows # <<>> /\ verified = {}
    BY <1>2 DEF BookOf, ParseOrderbook, NaN
<1>3. CASE rows # <<>> /\ verified # {}
    <2>1. BookOf(f, rows).price = rows[Max(verified)].price
        BY <1>3 DEF BookOf, ParseOrderbook
    <2>2. verified \subseteq 1..Len(rows) /\ Len(rows) \in Nat
        BY DEF Rows
    <2>3. IsFiniteSet(verified) /\ verified \subseteq Int
        <3>1. IsFiniteSet(1..Len(rows)) /\ 1..Len(rows) \subseteq Int
            BY <2>2, FS_Interval
        <3> QED BY <2>2, <3>1, FS_Subset
    <2>4. Max(verified) \in verified
        BY <1>3, <2>3, MaxIn
    <2>5. rows[Max(verified)].price \in Int
        BY <2>4 DEF Rows, IsBookRow
    <2>6. \E k \in DOMAIN rows : rows[k].verified
        BY <1>3 DEF Verified
    <2> QED BY <2>1, <2>5, <2>6
<1> QED BY <1>1, <1>2, <1>3

\* The evidence of an issuer has the numbers the gates and the caps read.
LEMMA EvidenceIs ==
    ASSUME case \in Cases, NEW i \in Issuers
    PROVE  IsEvidence(Evidence(i))
<1>1. {"features", "fund", "bookRows"} \subseteq IssuerBlocks /\ "account" \in ScanBlocks
    BY DEF IssuerBlocks, ScanBlocks
<1>2. /\ IsFeatures(Held(i, "features")) /\ IsFund(Held(i, "fund")) /\ IsAccount(Common("account"))
      /\ Rows(Held(i, "bookRows"), IsBookRow)
    <2>1. IsFeatures(Held(i, "features"))
        BY <1>1, HeldIs, DecisionsAssumption
    <2>2. IsFund(Held(i, "fund"))
        BY <1>1, HeldIs, DecisionsAssumption
    <2>3. IsAccount(Common("account"))
        BY <1>1, CommonIs, DecisionsAssumption
    <2>4. Rows(Held(i, "bookRows"), IsBookRow)
        BY <1>1, HeldIs, DecisionsAssumption
    <2> QED BY <2>1, <2>2, <2>3, <2>4
<1>3. /\ Evidence(i).features = Held(i, "features") /\ Evidence(i).fund = Held(i, "fund")
      /\ Evidence(i).account = Common("account")
      /\ Evidence(i).book = BookOf(Held(i, "features"), Held(i, "bookRows"))
    BY DEF Evidence
<1>4. Evidence(i).book.price \in Int
    BY <1>2, <1>3, BookPriceIs
<1> QED BY <1>2, <1>3, <1>4 DEF IsEvidence

\* A narrative that counts verified events is told by one that was there.
LEMMA StoryIsTold ==
    ASSUME NEW events, VerifiedStory(Narrative(PointInTime(events)))
    PROVE  \E k \in DOMAIN events : EvidenceVerified(events[k])
<1> DEFINE known == PointInTime(events)
           scored == RestrictValues(known, Eligible)
           stories == Stories(scored)
<1>1. DOMAIN known \subseteq DOMAIN events /\ \A k \in DOMAIN known : known[k] = events[k]
    BY PointInTimeOf
<1> HIDE DEF known
<1>2. DOMAIN scored \subseteq DOMAIN known /\ \A k \in DOMAIN scored : scored[k] = known[k]
    BY DEF RestrictValues, Restrict
<1> HIDE DEF scored
<1>3. DOMAIN stories \subseteq DOMAIN scored /\ \A k \in DOMAIN stories : stories[k] = scored[k]
    BY DEF Stories, RestrictDomain, Restrict
<1> HIDE DEF stories
<1>4. Narrative(known) # NoStory
    BY DEF VerifiedStory, NoStory, known
<1>5. Narrative(known) = Told(scored, stories)
    BY <1>4 DEF Narrative, scored, stories
<1>6. Told(scored, stories).verified = Count(stories, EvidenceVerified)
      /\ Told(scored, stories).official = Count(stories, Official)
    BY DEF Told
<1>7. Count(stories, EvidenceVerified) >= 1 \/ Count(stories, Official) >= 1
    BY <1>5, <1>6 DEF VerifiedStory, known
<1>8. ASSUME Count(stories, EvidenceVerified) >= 1
      PROVE  \E k \in DOMAIN stories : EvidenceVerified(stories[k])
    <2>1. Count(stories, EvidenceVerified) = Cardinality({k \in DOMAIN stories : EvidenceVerified(stories[k])})
        BY DEF Count, Number, RestrictValues, Restrict
    <2> QED BY <1>8, <2>1, FS_EmptySet
<1>9. ASSUME Count(stories, Official) >= 1
      PROVE  \E k \in DOMAIN stories : EvidenceVerified(stories[k])
    <2>1. Count(stories, Official) = Cardinality({k \in DOMAIN stories : Official(stories[k])})
        BY DEF Count, Number, RestrictValues, Restrict
    <2>2. \E k \in DOMAIN stories : Official(stories[k])
        BY <1>9, <2>1, FS_EmptySet
    <2> QED BY <2>2 DEF Official, EvidenceVerified
<1>10. PICK k \in DOMAIN stories : EvidenceVerified(stories[k])
    BY <1>7, <1>8, <1>9
<1> QED BY <1>1, <1>2, <1>3, <1>10

\* What the record of an issuer makes of its standing.
LEMMA HardFrom ==
    ASSUME NEW i
    PROVE  /\ KseiStopped(i) \/ OfficialAlert(i) \/ DirectBlock(i) => Integrity(i).hard
           /\ Integrity(i).provenance = "DIRECT" => Direct(i)
           /\ DirectBlock(i) /\ Held(i, "ksei") = <<>> /\ NoAlert(i) => Integrity(i).provenance = "DIRECT"
<1> DEFINE ksei == Held(i, "ksei")
           rows == Held(i, "integrityRows")
           events == Held(i, "events")
           found == IntegrityEvidence(ksei, rows, Owner(i), events)
<1>1. Integrity(i) = found
    BY DEF Integrity
<1>2. /\ KseiStopped(i) <=> ksei # <<>> /\ Head(ksei).verified /\ Head(ksei).status \notin {"", "ACTIVE"}
      /\ OfficialAlert(i) <=> \E k \in DOMAIN events :
                                 /\ Regulator(events[k]) /\ ~events[k].future /\ events[k].age \in 0..120
                                 /\ events[k].alert \ {"uma"} # {}
      /\ Direct(i) <=> rows # <<>> /\ Last(rows).verified
      /\ DirectBlock(i) <=> Direct(i) /\ Condemned(Last(rows))
      /\ NoAlert(i) <=> \A k \in DOMAIN events : events[k].alert = {}
    BY DEF KseiStopped, OfficialAlert, Direct, DirectBlock, NoAlert
<1> HIDE DEF ksei, rows, events
<1>3. KseiStopped(i) => found.hard
    BY <1>2, HardBecause
<1>4. OfficialAlert(i) => found.hard
    BY <1>2, HardBecause
<1>5. DirectBlock(i) => found.hard
    BY <1>2, HardBecause
<1>6. found.provenance = "DIRECT" => Direct(i)
    BY <1>2, HardBecause
<1>7. DirectBlock(i) /\ ksei = <<>> /\ NoAlert(i) => found.provenance = "DIRECT"
    BY <1>2, DirectBecause
<1> QED BY <1>1, <1>3, <1>4, <1>5, <1>6, <1>7 DEF ksei

\* What is on record of an issuer that the scan calls ready.
CleanRecord(i) ==
    /\ Held(i, "deep") /\ Direct(i) /\ ~DirectBlock(i) /\ ~KseiStopped(i) /\ ~OfficialAlert(i)
    /\ \E k \in DOMAIN Held(i, "bookRows") : Held(i, "bookRows")[k].verified
    /\ \E k \in DOMAIN Held(i, "events") : EvidenceVerified(Held(i, "events")[k])
    /\ Held(i, "fund").official >= 50 /\ Held(i, "fund").freshness = "CURRENT"
    /\ Held(i, "features").age <= 7 /\ Held(i, "fund").ocf >= 0

\* Who is ready was found clean on the raw record.
LEMMA ReadyOnCleanRecord ==
    ASSUME case \in Cases, NEW i \in Issuers, Profile(Evidence(i)).ready
    PROVE  CleanRecord(i)
<1> DEFINE d == Evidence(i)
<1>1. /\ d.features = Held(i, "features") /\ d.fund = Held(i, "fund") /\ d.deep = Held(i, "deep")
      /\ d.book = BookOf(Held(i, "features"), Held(i, "bookRows"))
      /\ d.integrity = Integrity(i)
      /\ d.story = Narrative(IF Held(i, "deep") THEN PointInTime(Held(i, "events")) ELSE <<>>)
    BY DEF Evidence
<1> HIDE DEF d
<1>2. /\ d.deep /\ d.integrity.provenance = "DIRECT" /\ ~d.integrity.hard
      /\ d.book.provenance = "DIRECT" /\ VerifiedStory(d.story)
      /\ d.fund.official >= 50 /\ d.fund.freshness = "CURRENT" /\ d.fund.ocf >= 0 /\ d.features.age <= 7
    BY EvidenceIs, ReadyIsClean DEF d
<1>3. Direct(i) /\ ~DirectBlock(i) /\ ~KseiStopped(i) /\ ~OfficialAlert(i)
    BY <1>1, <1>2, HardFrom
<1>4. \E k \in DOMAIN Held(i, "bookRows") : Held(i, "bookRows")[k].verified
    <2>1. {"features", "bookRows"} \subseteq IssuerBlocks
        BY DEF IssuerBlocks
    <2>2. IsFeatures(Held(i, "features")) /\ Rows(Held(i, "bookRows"), IsBookRow)
        BY <2>1, HeldIs, DecisionsAssumption
    <2> QED BY <1>1, <1>2, <2>2, BookPriceIs
<1>5. \E k \in DOMAIN Held(i, "events") : EvidenceVerified(Held(i, "events")[k])
    BY <1>1, <1>2, StoryIsTold
<1> QED BY <1>1, <1>2, <1>3, <1>4, <1>5 DEF CleanRecord

-----------------------------------------------------------------------------
(* The passes after the scoring may only demote.                           *)

\* The columns of a row, and those that a decision is read from.
Decisive == {"issuer", "state", "gate", "candidate", "entry", "ready", "blockers", "manual", "plan", "cap",
             "manualCap", "lots", "risk"}
Columns ==
    {"state", "gate", "entryState", "candidate", "entry", "ready", "blockers", "manual", "gaps",
     "plan", "geometry", "pays", "conviction", "coverage", "risk", "cap", "manualCap", "issuer", "final", "lots",
     "smart", "smartCoverage", "structure", "liquidity", "flow", "foreign", "broker", "flowShown", "silentShown",
     "leader", "presentable", "money", "class", "tier", "rawRank", "guardedRank", "productionRank", "authorized",
     "release", "loaded"}
IsRow(row) == row = [c \in Columns |-> row[c]]
Same(old, new) == IsRow(new) /\ \A c \in Decisive : new[c] = old[c]

\* What the passes after the scoring make of a row.
Passed(old, new) ==
    /\ IsRow(new)
    /\ \A c \in {"issuer", "state", "plan", "cap", "lots", "risk"} : new[c] = old[c]
    /\ GateShape(new)
    /\ Weaker(old, new)
    /\ new.manualCap \in {old.manualCap, 0}

\* A scored issuer has every column of a row.
LEMMA RowMade == ASSUME NEW i, NEW d, NEW p PROVE IsRow(Sized(i, d, p))
    BY ZenonT(60) DEF IsRow, Columns, Sized

\* Gates have four levels.
LEMMA LevelIs == ASSUME NEW g \in DOMAIN Level PROVE Level[g] \in 0..3
    BY DEF Level

\* What leaves the decisive columns alone passes.
LEMMA SamePasses ==
    ASSUME NEW old, NEW new, Same(old, new), GateShape(old),
           old.manualCap \in Int, old.cap \in Int, old.lots \in Int
    PROVE  Passed(old, new)
<1>1. /\ IsRow(new) /\ new.issuer = old.issuer /\ new.state = old.state /\ new.plan = old.plan
      /\ new.cap = old.cap /\ new.lots = old.lots /\ new.risk = old.risk
    BY DEF Same, Decisive
<1>2. /\ new.gate = old.gate /\ new.candidate = old.candidate /\ new.entry = old.entry /\ new.ready = old.ready
      /\ new.blockers = old.blockers /\ new.manual = old.manual /\ new.manualCap = old.manualCap
    BY DEF Same, Decisive
<1>3. GateShape(new)
    BY <1>2 DEF GateShape
<1>4. Weaker(old, new)
    <2>1. Level[old.gate] \in Int
        BY LevelIs DEF GateShape
    <2> QED BY <1>1, <1>2, <2>1 DEF Weaker
<1> QED BY <1>1, <1>2, <1>3, <1>4 DEF Passed

\* Passes compose.
LEMMA PassedTwice ==
    ASSUME NEW a, NEW b, NEW c, GateShape(a), Passed(a, b), Passed(b, c),
           a.manualCap \in Nat, a.cap \in Int, a.lots \in Int
    PROVE  Passed(a, c)
<1>1. /\ IsRow(c) /\ GateShape(c) /\ c.issuer = a.issuer /\ c.state = a.state /\ c.plan = a.plan
      /\ c.cap = a.cap /\ c.lots = a.lots /\ c.risk = a.risk
    BY DEF Passed
<1>2. b.manualCap \in {a.manualCap, 0} /\ c.manualCap \in {b.manualCap, 0}
    BY DEF Passed
<1>3. c.manualCap \in {a.manualCap, 0} /\ c.manualCap <= a.manualCap
    BY <1>2
<1>4. Weaker(a, c)
    <2>1. Level[a.gate] \in Int /\ Level[b.gate] \in Int /\ Level[c.gate] \in Int
        BY LevelIs DEF GateShape, Passed
    <2>2. Weaker(a, b) /\ Weaker(b, c)
        BY DEF Passed
    <2>3. Level[c.gate] <= Level[a.gate]
        BY <2>1, <2>2 DEF Weaker
    <2>4. (c.ready => a.ready) /\ (c.entry => a.entry) /\ (c.candidate => a.candidate)
        BY <2>2 DEF Weaker
    <2>5. a.manual \subseteq c.manual /\ a.blockers \subseteq c.blockers
        BY <2>2 DEF Weaker
    <2> QED BY <1>1, <1>3, <2>3, <2>4, <2>5 DEF Weaker
<1> QED BY <1>1, <1>3, <1>4 DEF Passed

\* The flow of the providers.
LEMMA ForeignSame == ASSUME NEW row, IsRow(row), NEW f PROVE Same(row, EnrichForeign(row, f))
<1> DEFINE smart == Confirm(row.smart, row.smartCoverage, f.smart, f.coverage, 30)
           conviction == IF Seen(row.conviction)
                         THEN Clip(row.conviction + Delta(f.score, f.coverage, 25) \div 10) ELSE row.conviction
           lineage == [declared |-> "CANONICAL", marked |-> TRUE,
                       base |-> Remembered(<<row.smart, row.smartCoverage, row.conviction>>)]
           told == [row EXCEPT !.foreign.declared = LineageState(row.foreign)]
           anew == [row EXCEPT !.flow = f, !.smart = smart.score, !.smartCoverage = smart.coverage,
                               !.conviction = conviction, !.foreign = lineage]
<1>1. EnrichForeign(row, f) = IF LineageState(row.foreign) # "PRISTINE" THEN told ELSE anew
    BY DEF EnrichForeign
<1>2. Same(row, told)
    BY DEF Same, IsRow, Columns, Decisive
<1>3. Same(row, anew)
    <2> HIDE DEF smart, conviction, lineage
    <2>1. IsRow(anew)
        BY DEF IsRow
    <2>2. \A c \in Decisive : anew[c] = row[c]
        <3>1. DOMAIN row = Columns /\ Decisive \subseteq Columns
            BY DEF IsRow, Columns, Decisive
        <3>2. \A c \in DOMAIN row : c \notin {"flow", "smart", "smartCoverage", "conviction", "foreign"} => anew[c] = row[c]
            OBVIOUS
        <3> QED BY <3>1, <3>2 DEF Decisive
    <2> QED BY <2>1, <2>2 DEF Same
<1> QED BY <1>1, <1>2, <1>3

\* Nor does the broker cache write a decisive column.
LEMMA BrokerSame == ASSUME NEW row, IsRow(row), NEW b PROVE Same(row, EnrichBroker(row, b))
<1> DEFINE smart == Confirm(row.smart, 0, IF Seen(row.smart) THEN b.smart ELSE NaN, b.coverage, 20)
           conviction == IF Seen(row.conviction)
                         THEN Clip(row.conviction + Delta(Finite(b.smart, 50), b.coverage, 15) \div 10)
                         ELSE row.conviction
           lineage == [declared |-> "CANONICAL", marked |-> TRUE,
                       base |-> Remembered(<<row.smart, row.conviction, row.final>>)]
           told == [row EXCEPT !.broker.declared = LineageState(row.broker)]
           anew == [row EXCEPT !.smart = smart.score, !.conviction = conviction, !.broker = lineage]
<1>1. EnrichBroker(row, b) = IF LineageState(row.broker) # "PRISTINE" THEN told ELSE anew
    BY DEF EnrichBroker
<1>2. Same(row, told)
    BY DEF Same, IsRow, Columns, Decisive
<1>3. Same(row, anew)
    <2> HIDE DEF smart, conviction, lineage
    <2>1. IsRow(anew)
        BY DEF IsRow
    <2>2. \A c \in Decisive : anew[c] = row[c]
        <3>1. DOMAIN row = Columns /\ Decisive \subseteq Columns
            BY DEF IsRow, Columns, Decisive
        <3>2. \A c \in DOMAIN row : c \notin {"smart", "conviction", "broker"} => anew[c] = row[c]
            OBVIOUS
        <3> QED BY <3>1, <3>2 DEF Decisive
    <2> QED BY <2>1, <2>2 DEF Same
<1> QED BY <1>1, <1>2, <1>3

\* Nor does the class of the gate.
LEMMA AuditSame ==
    ASSUME NEW row, IsRow(row)
    PROVE  /\ Same(row, GateAudit(row))
           /\ GateAudit(row).flow = row.flow /\ GateAudit(row).presentable = row.presentable
<1> DEFINE class == CASE row.gate = "REAL_MONEY_DIRECT_VERIFIED_READY" -> "DIRECT_VERIFIED_READY"
          [] row.gate = "REAL_MONEY_MANUAL_CONFIRMATION_REQUIRED" -> "MANUAL_CONFIRMATION"
          [] row.gate = "REAL_MONEY_WAIT_TIMING" -> "WAIT_TIMING"
          [] row.gate = "REAL_MONEY_BLOCKED" /\ row.blockers # {} -> "HARD_BLOCK"
          [] row.gate = "REAL_MONEY_BLOCKED" /\ row.blockers = {} /\ row.gaps # {} -> "EVIDENCE_GAP_ONLY_OR_OTHER"
          [] OTHER -> "NOT_AUTHORIZED_OTHER"
<1>1. GateAudit(row) = [row EXCEPT !.class = class]
    BY DEF GateAudit
<1> HIDE DEF class
<1>2. Same(row, GateAudit(row))
    BY <1>1, ZenonT(60) DEF Same, IsRow, Columns, Decisive
<1>3. GateAudit(row).flow = row.flow /\ GateAudit(row).presentable = row.presentable
    BY <1>1 DEF IsRow, Columns
<1> QED BY <1>2, <1>3

\* A row whose gate says no is no candidate, so no gap turns it into a question.
LEMMA TierSame ==
    ASSUME NEW row, IsRow(row), GateShape(row)
    PROVE  Same(row, Tier(row)) /\ Tier(row).flow = row.flow /\ Tier(row).presentable = row.presentable
<1> DEFINE able == row.candidate /\ row.entry
           tier == CASE row.blockers # {} -> "HARD_BLOCKED"
                  [] row.blockers = {} /\ row.gate = "REAL_MONEY_DIRECT_VERIFIED_READY" -> "DIRECT_VERIFIED_READY"
                  [] row.blockers = {} /\ row.gate # "REAL_MONEY_DIRECT_VERIFIED_READY" /\ able /\ row.gaps # {}
                       -> "PROXY_EXECUTION_ELIGIBLE_MANUAL_CONFIRMATION"
                  [] row.blockers = {} /\ row.gate # "REAL_MONEY_DIRECT_VERIFIED_READY" /\ able
                     /\ row.gaps = {} /\ row.manual # {} -> "MANUAL_CONFIRMATION_REQUIRED"
                  [] OTHER -> IF row.candidate THEN "WAIT_TIMING" ELSE "RESEARCH_ONLY_OR_NOT_CANDIDATE"
<1>1. ~(tier = "PROXY_EXECUTION_ELIGIBLE_MANUAL_CONFIRMATION" /\ row.gate = "REAL_MONEY_BLOCKED")
    <2>1. row.gate = "REAL_MONEY_BLOCKED" => row.blockers # {}
        BY DEF GateShape
    <2>2. row.blockers # {} => tier = "HARD_BLOCKED"
        OBVIOUS
    <2> QED BY <2>1, <2>2
<1>2. Tier(row) = [row EXCEPT !.tier = tier]
    BY <1>1 DEF Tier
<1> HIDE DEF tier
<1>3. Same(row, Tier(row))
    BY <1>2, ZenonT(60) DEF Same, IsRow, Columns, Decisive
<1>4. Tier(row).flow = row.flow /\ Tier(row).presentable = row.presentable
    BY <1>2 DEF IsRow, Columns
<1> QED BY <1>3, <1>4

\* The block on banks and what the dashboard shows.
LEMMA BankPasses ==
    ASSUME NEW row, IsRow(row), GateShape(row), NEW d, row.manualCap \in Nat, row.cap \in Int, row.lots \in Int
    PROVE  Passed(row, BankBlock(row, d)) /\ BankBlock(row, d).flow = row.flow
<1> DEFINE blockers == row.blockers \cup {"BANK_SPECIFIC_RISK_METRICS_NOT_MODELED"}
           told == [row EXCEPT !.blockers = blockers, !.candidate = FALSE,
                     !.entry = FALSE, !.ready = FALSE, !.gate = "REAL_MONEY_BLOCKED",
                     !.entryState = "NO_ENTRY_AUTHORIZATION", !.manualCap = 0]
<1>1. BankBlock(row, d) = row \/ BankBlock(row, d) = told
    BY DEF BankBlock
<1>2. Same(row, row)
    BY DEF Same
<1>3. Passed(row, row)
    BY <1>2, SamePasses
<1>4. Passed(row, told) /\ told.flow = row.flow
    <2> HIDE DEF blockers
    <2>1. DOMAIN row = Columns
        BY DEF IsRow
    <2>2. /\ told.blockers = blockers /\ told.candidate = FALSE /\ told.entry = FALSE /\ told.ready = FALSE
          /\ told.gate = "REAL_MONEY_BLOCKED" /\ told.manualCap = 0
        BY <2>1 DEF Columns
    <2>3. /\ told.issuer = row.issuer /\ told.state = row.state /\ told.plan = row.plan /\ told.cap = row.cap
          /\ told.lots = row.lots /\ told.risk = row.risk /\ told.manual = row.manual /\ told.flow = row.flow
        BY <2>1 DEF Columns
    <2>4. IsRow(told)
        BY DEF IsRow
    <2> HIDE DEF told
    <2>5. blockers # {} /\ row.blockers \subseteq blockers
        BY DEF blockers
    <2>6. GateShape(told)
        BY <2>2, <2>5 DEF GateShape, Level
    <2>7. Weaker(row, told)
        <3>1. Level[row.gate] >= 0 /\ Level[told.gate] = 0
            BY <2>2, LevelIs DEF GateShape, Level
        <3> QED BY <2>2, <2>3, <2>5, <3>1 DEF Weaker
    <2> QED BY <2>2, <2>3, <2>4, <2>6, <2>7 DEF Passed
<1> QED BY <1>1, <1>3, <1>4

\* The scores of the dashboard after it.
LEMMA DashboardPasses ==
    ASSUME NEW row, IsRow(row), GateShape(row), NEW d, row.manualCap \in Nat, row.cap \in Int, row.lots \in Int
    PROVE  /\ Passed(row, Dashboard(row, d)) /\ Dashboard(row, d).flow = row.flow
           /\ Dashboard(row, d).presentable => d.integrity.provenance = "" \/ ~d.integrity.hard
<1> DEFINE b == BankBlock(row, d)
           final == [b EXCEPT !.final = OrElse(row.conviction, 0)]
           flowShown == Confirm(DashboardFlow(row, d), 100, row.flow.score, row.flow.coverage, 30).score
           silentShown == Confirm(DashboardSilent(d), 100, row.flow.acc, row.flow.coverage, 20).score
           shown == [final EXCEPT !.flowShown = flowShown, !.silentShown = silentShown,
                                  !.leader = LeaderScore(row, d), !.presentable = LeaderPresentable(row, d)]
<1>1. Passed(row, b) /\ b.flow = row.flow
    BY BankPasses
<1>2. Dashboard(row, d) = [shown EXCEPT !.money = RealMoneyScore(shown, d)]
    BY DEF Dashboard
<1>3. IsRow(b) /\ GateShape(b) /\ b.manualCap \in Nat /\ b.cap \in Int /\ b.lots \in Int
    BY <1>1 DEF Passed
<1> HIDE DEF b, flowShown, silentShown
<1>4. Same(b, final) /\ final.flow = b.flow
    BY <1>3, ZenonT(60) DEF Same, IsRow, Columns, Decisive
<1>5. IsRow(final)
    BY <1>4 DEF Same
<1> HIDE DEF final
<1>6. Same(final, shown) /\ shown.flow = final.flow /\ shown.presentable = LeaderPresentable(row, d)
    <2>1. IsRow(shown)
        BY <1>5 DEF IsRow
    <2>2. DOMAIN final = Columns /\ Decisive \subseteq Columns
        BY <1>5 DEF IsRow, Columns, Decisive
    <2>3. \A c \in DOMAIN final : c \notin {"flowShown", "silentShown", "leader", "presentable"} => shown[c] = final[c]
        OBVIOUS
    <2>4. \A c \in Decisive : shown[c] = final[c]
        BY <2>2, <2>3 DEF Decisive
    <2>5. shown.flow = final.flow /\ shown.presentable = LeaderPresentable(row, d)
        BY <2>2 DEF Columns
    <2> QED BY <2>1, <2>4, <2>5 DEF Same
<1>7. IsRow(shown)
    BY <1>6 DEF Same
<1> HIDE DEF shown
<1>8. Same(shown, Dashboard(row, d)) /\ Dashboard(row, d).flow = shown.flow
      /\ Dashboard(row, d).presentable = shown.presentable
    BY <1>2, <1>7, ZenonT(60) DEF Same, IsRow, Columns, Decisive
<1>9. Same(b, Dashboard(row, d))
    BY <1>4, <1>6, <1>8 DEF Same
<1>10. Passed(row, Dashboard(row, d))
    BY <1>1, <1>3, <1>9, SamePasses, PassedTwice
<1>11. LeaderPresentable(row, d) => d.integrity.provenance = "" \/ ~d.integrity.hard
    BY DEF LeaderPresentable, LeaderDataBlock
<1> QED BY <1>1, <1>4, <1>6, <1>8, <1>10, <1>11

\* The shock guard has been over the row.
Delayed(row) == Severe(row.flow) => ~row.ready /\ (Persistent(row.flow) => ~row.entry)

\* The guard on foreign selling demotes, and leaves the row delayed.
LEMMA GuardPasses ==
    ASSUME NEW row, IsRow(row), GateShape(row), row.manualCap \in Nat, row.cap \in Int, row.lots \in Int
    PROVE  LET out == ForeignGuard(row)
           IN Passed(row, out) /\ out.flow = row.flow /\ out.presentable = row.presentable /\ Delayed(out)
<1> DEFINE out == ForeignGuard(row)
           wait == row.manual \cup {"ZAPI_FOREIGN_DISTRIBUTION_WAIT_STABILIZATION"}
           ask == row.manual \cup {"ZAPI_FOREIGN_SHOCK_REQUIRE_ABSORPTION_RECLAIM"}
<1>1. DOMAIN row = Columns
    BY DEF IsRow
<1>2. {row.candidate, row.entry, row.ready} \subseteq BOOLEAN
    BY DEF GateShape
<1>3. CASE ~Severe(row.flow)
    <2>1. out = row
        BY <1>3 DEF ForeignGuard
    <2>2. Passed(row, row)
        BY SamePasses DEF Same
    <2> HIDE DEF out
    <2> QED BY <1>3, <2>1, <2>2 DEF Delayed, out
<1>4. CASE Severe(row.flow) /\ Persistent(row.flow) /\ row.candidate
    <2> DEFINE told == [row EXCEPT !.manual = wait, !.ready = FALSE]
               sent == [told EXCEPT !.entry = FALSE, !.gate = "REAL_MONEY_WAIT_TIMING",
                                    !.entryState = "WAIT_TIMING_NO_ENTRY", !.manualCap = 0]
    <2> HIDE DEF wait
    <2>1. out = sent
        BY <1>4 DEF ForeignGuard, wait
    <2>2. DOMAIN told = Columns
        BY <1>1
    <2>3. IsRow(sent)
        BY DEF IsRow
    <2>4. /\ sent.manual = wait /\ sent.ready = FALSE /\ sent.entry = FALSE
          /\ sent.gate = "REAL_MONEY_WAIT_TIMING" /\ sent.manualCap = 0
        BY <1>1, <2>2 DEF Columns
    <2>5. /\ sent.issuer = row.issuer /\ sent.state = row.state /\ sent.plan = row.plan /\ sent.cap = row.cap
          /\ sent.lots = row.lots /\ sent.risk = row.risk /\ sent.blockers = row.blockers
          /\ sent.candidate = row.candidate /\ sent.flow = row.flow /\ sent.presentable = row.presentable
        BY <1>1, <2>2 DEF Columns
    <2> HIDE DEF sent
    <2>6. GateShape(sent)
        BY <1>2, <1>4, <2>4, <2>5 DEF GateShape, Level
    <2>7. Weaker(row, sent)
        <3>1. Level[row.gate] >= 1 /\ Level[sent.gate] = 1
            BY <1>4, <2>4 DEF GateShape, Level
        <3> QED BY <2>4, <2>5, <3>1 DEF Weaker, wait
    <2>8. Passed(row, sent)
        BY <2>3, <2>4, <2>5, <2>6, <2>7 DEF Passed
    <2> QED BY <2>1, <2>4, <2>5, <2>8 DEF Delayed
<1>5. CASE Severe(row.flow) /\ Persistent(row.flow) /\ ~row.candidate
    <2> DEFINE told == [row EXCEPT !.manual = wait, !.ready = FALSE]
    <2> HIDE DEF wait
    <2>1. out = told
        BY <1>5 DEF ForeignGuard, wait
    <2>2. ~row.entry /\ ~row.ready
        BY <1>5 DEF GateShape
    <2>3. IsRow(told)
        BY DEF IsRow
    <2>4. /\ told.manual = wait /\ told.ready = FALSE /\ told.entry = row.entry /\ told.gate = row.gate
          /\ told.manualCap = row.manualCap
        BY <1>1 DEF Columns
    <2>5. /\ told.issuer = row.issuer /\ told.state = row.state /\ told.plan = row.plan /\ told.cap = row.cap
          /\ told.lots = row.lots /\ told.risk = row.risk /\ told.blockers = row.blockers
          /\ told.candidate = row.candidate /\ told.flow = row.flow /\ told.presentable = row.presentable
        BY <1>1 DEF Columns
    <2> HIDE DEF told
    <2>6. GateShape(told)
        BY <1>2, <2>2, <2>4, <2>5 DEF GateShape
    <2>7. Weaker(row, told)
        <3>1. Level[row.gate] \in Int
            BY LevelIs DEF GateShape
        <3> QED BY <2>2, <2>4, <2>5, <3>1 DEF Weaker, wait
    <2>8. Passed(row, told)
        BY <2>3, <2>4, <2>5, <2>6, <2>7 DEF Passed
    <2> QED BY <2>1, <2>2, <2>4, <2>5, <2>8 DEF Delayed
<1>6. CASE Severe(row.flow) /\ ~Persistent(row.flow) /\ row.entry
    <2> DEFINE told == [row EXCEPT !.manual = ask, !.ready = FALSE]
               sent == [told EXCEPT !.gate = "REAL_MONEY_MANUAL_CONFIRMATION_REQUIRED",
                                    !.entryState = "MANUAL_CONFIRMATION_REQUIRED"]
    <2> HIDE DEF ask
    <2>1. out = sent
        BY <1>6 DEF ForeignGuard, ask
    <2>2. DOMAIN told = Columns
        BY <1>1
    <2>3. IsRow(sent)
        BY DEF IsRow
    <2>4. /\ sent.manual = ask /\ sent.ready = FALSE /\ sent.entry = row.entry
          /\ sent.gate = "REAL_MONEY_MANUAL_CONFIRMATION_REQUIRED" /\ sent.manualCap = row.manualCap
        BY <1>1, <2>2 DEF Columns
    <2>5. /\ sent.issuer = row.issuer /\ sent.state = row.state /\ sent.plan = row.plan /\ sent.cap = row.cap
          /\ sent.lots = row.lots /\ sent.risk = row.risk /\ sent.blockers = row.blockers
          /\ sent.candidate = row.candidate /\ sent.flow = row.flow /\ sent.presentable = row.presentable
        BY <1>1, <2>2 DEF Columns
    <2> HIDE DEF sent
    <2>6. GateShape(sent)
        <3>1. row.candidate /\ row.blockers = {}
            BY <1>6 DEF GateShape
        <3>2. sent.gate \in DOMAIN Level /\ Level[sent.gate] = 2
            BY <2>4 DEF Level
        <3>3. /\ sent.gate # "REAL_MONEY_BLOCKED" /\ sent.gate # "REAL_MONEY_DIRECT_VERIFIED_READY"
              /\ sent.candidate /\ sent.blockers = {} /\ sent.entry /\ ~sent.ready
            BY <1>6, <2>4, <2>5, <3>1
        <3>4. {sent.candidate, sent.entry, sent.ready} \subseteq BOOLEAN
            BY <1>2, <2>4, <2>5
        <3> QED BY <3>2, <3>3, <3>4 DEF GateShape
    <2>7. Weaker(row, sent)
        <3>1. Level[row.gate] >= 2 /\ Level[sent.gate] = 2
            BY <1>6, <2>4 DEF GateShape, Level
        <3> QED BY <2>4, <2>5, <3>1 DEF Weaker, ask
    <2>8. Passed(row, sent)
        BY <2>3, <2>4, <2>5, <2>6, <2>7 DEF Passed
    <2> QED BY <1>6, <2>1, <2>4, <2>5, <2>8 DEF Delayed
<1>7. CASE Severe(row.flow) /\ ~Persistent(row.flow) /\ ~row.entry
    <2> DEFINE told == [row EXCEPT !.manual = ask, !.ready = FALSE]
    <2> HIDE DEF ask
    <2>1. out = told
        BY <1>7 DEF ForeignGuard, ask
    <2>2. ~row.ready
        BY <1>7 DEF GateShape
    <2>3. IsRow(told)
        BY DEF IsRow
    <2>4. /\ told.manual = ask /\ told.ready = FALSE /\ told.entry = row.entry /\ told.gate = row.gate
          /\ told.manualCap = row.manualCap
        BY <1>1 DEF Columns
    <2>5. /\ told.issuer = row.issuer /\ told.state = row.state /\ told.plan = row.plan /\ told.cap = row.cap
          /\ told.lots = row.lots /\ told.risk = row.risk /\ told.blockers = row.blockers
          /\ told.candidate = row.candidate /\ told.flow = row.flow /\ told.presentable = row.presentable
        BY <1>1 DEF Columns
    <2> HIDE DEF told
    <2>6. GateShape(told)
        BY <1>2, <2>2, <2>4, <2>5 DEF GateShape
    <2>7. Weaker(row, told)
        <3>1. Level[row.gate] \in Int
            BY LevelIs DEF GateShape
        <3> QED BY <2>2, <2>4, <2>5, <3>1 DEF Weaker, ask
    <2>8. Passed(row, told)
        BY <2>3, <2>4, <2>5, <2>6, <2>7 DEF Passed
    <2> QED BY <1>7, <2>1, <2>4, <2>5, <2>8 DEF Delayed
<1> QED BY <1>2, <1>3, <1>4, <1>5, <1>6, <1>7

\* What the final decision of release rel leaves of row k.
Settled(rows, done, k, rel) ==
    /\ DOMAIN done = DOMAIN rows
    /\ Passed(rows[k], done[k]) /\ Delayed(done[k])
    /\ done[k].release = rel

\* One row through all the passes of the final decision.
LEMMA FinalizedPasses ==
    ASSUME NEW rows, NEW evidence, NEW foreign, NEW broker, NEW rel, NEW k \in DOMAIN rows,
           IsRow(rows[k]), GateShape(rows[k]),
           rows[k].manualCap \in Nat, rows[k].cap \in Int, rows[k].lots \in Int,
           NEW done, done = Finalized(rows, evidence, foreign, broker, rel)
    PROVE  /\ Settled(rows, done, k, rel)
           /\ \/ ~done[k].presentable
              \/ evidence[rows[k].issuer].integrity.provenance = ""
              \/ ~evidence[rows[k].issuer].integrity.hard
<1> DEFINE row == rows[k]
           d == evidence[row.issuer]
           told == EnrichForeign(row, foreign[row.issuer])
           confirmed == EnrichBroker(told, broker[row.issuer])
           shown == Dashboard(confirmed, d)
           guarded == ForeignGuard(shown)
           audited == GateAudit(guarded)
           tiered == Tier(audited)
           out == [tiered EXCEPT !.release = rel]
           Row(r) == [Tier(GateAudit(ForeignGuard(Dashboard(
                         EnrichBroker(EnrichForeign(r, foreign[r.issuer]), broker[r.issuer]),
                         evidence[r.issuer])))) EXCEPT !.release = rel]
           table == [i \in DOMAIN rows |-> Row(rows[i])]
<1>1. IsRow(row) /\ GateShape(row) /\ row.manualCap \in Nat /\ row.cap \in Int /\ row.lots \in Int
    OBVIOUS
<1>2. done = ThreeRanks(table)
    BY DEF Finalized
<1>3. DOMAIN table = DOMAIN rows /\ table[k] = out
    OBVIOUS
<1> DEFINE raw == Ranks(table, "conviction", DOMAIN table)
           guarding == Ranks(table, "leader", Unblocked(table))
           production == Ranks(table, "money", Tradable(table))
           ranked == [out EXCEPT !.rawRank = raw[k], !.guardedRank = guarding[k],
                                 !.productionRank = production[k], !.authorized = Authorized(out)]
<1>4. DOMAIN done = DOMAIN table /\ done[k] = ranked
    <2> HIDE DEF table, out
    <2>1. done = [i \in DOMAIN table |-> [table[i] EXCEPT !.rawRank = raw[i], !.guardedRank = guarding[i],
                                            !.productionRank = production[i], !.authorized = Authorized(table[i])]]
        BY <1>2 DEF ThreeRanks
    <2> HIDE DEF raw, guarding, production
    <2> QED BY <2>1, <1>3
<1> HIDE DEF row, d, told, confirmed, shown, guarded, audited, tiered, out, table, raw, guarding, production, ranked
<1>5. Passed(row, told)
    BY <1>1, ForeignSame, SamePasses DEF told
<1>6. IsRow(told) /\ GateShape(told) /\ told.manualCap \in Nat /\ told.cap \in Int /\ told.lots \in Int
    BY <1>1, <1>5 DEF Passed
<1>7. Passed(told, confirmed)
    BY <1>6, BrokerSame, SamePasses DEF confirmed
<1>8. /\ IsRow(confirmed) /\ GateShape(confirmed) /\ confirmed.manualCap \in Nat /\ confirmed.cap \in Int
      /\ confirmed.lots \in Int
    BY <1>6, <1>7 DEF Passed
<1>9. Passed(confirmed, shown) /\ (shown.presentable => d.integrity.provenance = "" \/ ~d.integrity.hard)
    BY <1>8, DashboardPasses DEF shown
<1>10. IsRow(shown) /\ GateShape(shown) /\ shown.manualCap \in Nat /\ shown.cap \in Int /\ shown.lots \in Int
    <2>1. /\ IsRow(shown) /\ GateShape(shown) /\ shown.manualCap \in {confirmed.manualCap, 0}
          /\ shown.cap = confirmed.cap /\ shown.lots = confirmed.lots
        BY <1>9 DEF Passed
    <2> QED BY <1>8, <2>1
<1>11. Passed(shown, guarded) /\ guarded.presentable = shown.presentable /\ Delayed(guarded)
    BY <1>10, GuardPasses DEF guarded
<1>12. IsRow(guarded) /\ GateShape(guarded) /\ guarded.manualCap \in Nat /\ guarded.cap \in Int /\ guarded.lots \in Int
    BY <1>10, <1>11 DEF Passed
<1>13. Same(guarded, audited) /\ audited.flow = guarded.flow /\ audited.presentable = guarded.presentable
    BY <1>12, AuditSame DEF audited
<1>14. Passed(guarded, audited)
    BY <1>12, <1>13, SamePasses
<1>15. IsRow(audited) /\ GateShape(audited)
    BY <1>14 DEF Passed
<1>16. Same(audited, tiered) /\ tiered.flow = audited.flow /\ tiered.presentable = audited.presentable
    BY <1>15, TierSame DEF tiered
<1>17. IsRow(tiered)
    BY <1>16 DEF Same
<1>18. Same(tiered, out) /\ out.flow = tiered.flow /\ out.presentable = tiered.presentable /\ out.release = rel
    BY <1>17, ZenonT(60) DEF out, Same, IsRow, Columns, Decisive
<1>19. Same(out, done[k]) /\ done[k].flow = out.flow /\ done[k].presentable = out.presentable
       /\ done[k].release = out.release
    <2>2. IsRow(out) /\ DOMAIN out = Columns
        BY <1>18 DEF Same, IsRow
    <2>3. IsRow(done[k])
        BY <1>4, <2>2 DEF IsRow, ranked
    <2>4. \A c \in DOMAIN out : c \notin {"rawRank", "guardedRank", "productionRank", "authorized"} => done[k][c] = out[c]
        BY <1>4 DEF ranked
    <2>5. \A c \in Decisive \cup {"flow", "presentable", "release"} : done[k][c] = out[c]
        <3>1. Decisive \cup {"flow", "presentable", "release"} \subseteq Columns
            BY DEF Decisive, Columns
        <3> QED BY <2>2, <2>4, <3>1 DEF Decisive
    <2> QED BY <2>3, <2>5 DEF Same
<1>20. Same(guarded, done[k])
    BY <1>13, <1>16, <1>18, <1>19 DEF Same
<1>21. Passed(guarded, done[k])
    BY <1>12, <1>20, SamePasses
<1>22. Passed(shown, done[k])
    BY <1>10, <1>11, <1>21, PassedTwice
<1>23. Passed(confirmed, done[k])
    BY <1>8, <1>9, <1>22, PassedTwice
<1>24. Passed(told, done[k])
    BY <1>6, <1>7, <1>23, PassedTwice
<1>25. Passed(row, done[k])
    BY <1>1, <1>5, <1>24, PassedTwice
<1>26. Delayed(done[k])
    <2>1. done[k].flow = guarded.flow /\ done[k].ready = guarded.ready /\ done[k].entry = guarded.entry
        BY <1>13, <1>16, <1>18, <1>19, <1>20 DEF Same, Decisive
    <2> QED BY <1>11, <2>1 DEF Delayed
<1>27. done[k].presentable => d.integrity.provenance = "" \/ ~d.integrity.hard
    BY <1>9, <1>11, <1>13, <1>16, <1>18, <1>19
<1> QED BY <1>3, <1>4, <1>18, <1>19, <1>25, <1>26, <1>27 DEF row, d, Settled

-----------------------------------------------------------------------------
(* The inductive invariant, row by row.                                    *)

\* What a row is, in terms of the profile the scan made of the evidence d of its issuer.
RowInv(row, d) ==
    /\ IsRow(row) /\ GateShape(row)
    /\ row.state = Profile(d).state /\ row.plan = Profile(d).plan /\ row.cap = Profile(d).cap
    /\ row.manualCap \in {Profile(d).manualCap, 0} /\ row.lots \in Nat /\ row.risk \in Nat
    /\ row.ready => Profile(d).ready
    /\ row.presentable => d.integrity.provenance = "" \/ ~d.integrity.hard

\* The inductive invariant of the decisions.
DecInv ==
    /\ case \in Cases
    /\ radar # <<>> => 1 \in DOMAIN radar
    /\ \A k, n \in DOMAIN radar : radar[k].issuer = radar[n].issuer => k = n
    /\ \A k, n \in DOMAIN radar : radar[k].release = radar[n].release
    /\ \A k \in DOMAIN radar : radar[k].issuer \in Issuers /\ (radar[k].release > 0 => Delayed(radar[k]))
    /\ \A i \in Issuers, k \in DOMAIN radar : radar[k].issuer = i => RowInv(radar[k], Evidence(i))

\* Evidence does not change while a scan is decided.
LEMMA EvidenceStays == ASSUME case' = case, NEW i PROVE Evidence(i)' = Evidence(i)
<1>1. Integrity(i)' = Integrity(i)
    BY DEF Held, Common, Integrity, Owner
<1>2. \A j \in Issuers : Integrity(j)' = Integrity(j)
    BY DEF Held, Common, Integrity, Owner
<1>3. Market' = Market
    BY DEF Market, Common
<1> QED BY <1>1, <1>2, <1>3 DEF Evidence, Held, Common, Owner, Integrity

\* The plan of a profile has a path that is bounded, or none.
LEMMA ProfilePlan ==
    ASSUME NEW d, IsEvidence(d)
    PROVE  Profile(d).plan.path # "NONE" => Path(Profile(d).plan.chosen)
<1>1. Profile(d).plan = PlanOf(d)
    BY ProfileIs
<1> DEFINE book == [verified |-> d.book.provenance = "DIRECT", price |-> d.book.price]
<1>2. IsPrices(d.features.prices) /\ book.price \in Int
    <2>1. {d.features.prices.close, d.features.prices.atr, d.features.prices.ema20, d.features.prices.high20,
           d.features.prices.low20} \subseteq Int
        BY DEF IsEvidence, IsFeatures
    <2>2. d.book.price \in Int
        BY DEF IsEvidence
    <2> QED BY <2>1, <2>2 DEF IsPrices
<1>3. PlanOf(d) = Plan(d.features.prices, LifecycleOf(d), book)
    BY DEF PlanOf
<1> HIDE DEF book
<1> QED BY <1>1, <1>2, <1>3, PlanIs

\* The caps of a profile are bounded, by the half percent in a market that is risk-off.
LEMMA ProfileCaps ==
    ASSUME NEW d, IsEvidence(d)
    PROVE  /\ Profile(d).cap \in 0..200 /\ Profile(d).manualCap \in 0..75 /\ Profile(d).risk \in Nat
           /\ d.market.regime = "RISK_OFF" => Profile(d).cap <= 50 /\ Profile(d).manualCap <= 50
<1> DEFINE p == Profile(d)
           r == Reading(d)
<1>1. /\ p.risk = RiskBudget(d, p.entry, p.ready) /\ p.cap = PositionCap(d, r, p.entry, p.ready)
      /\ p.manualCap = ManualCap(d, p.entry)
    BY ProfileIs
<1>2. p.entry \in BOOLEAN /\ p.ready \in BOOLEAN /\ (p.ready => p.entry)
    BY ProfileGate DEF GateShape
<1> HIDE DEF p, r
<1>3. p.cap \in 0..200 /\ (d.market.regime = "RISK_OFF" => p.cap <= 50)
    BY <1>1, <1>2, CapIs
<1>4. p.manualCap \in 0..75 /\ (d.market.regime = "RISK_OFF" => p.manualCap <= 50)
    BY <1>1, <1>2, ManualCapIs
<1>5. p.risk \in Nat
    BY <1>1, <1>2, RiskIs
<1> QED BY <1>3, <1>4, <1>5 DEF p

\* The row of one issuer as the scan scores it satisfies the invariant.
LEMMA ScoredRow ==
    ASSUME case \in Cases, NEW i \in Issuers
    PROVE  LET row == RadarRow(i, Evidence(i))
           IN RowInv(row, Evidence(i)) /\ row.issuer = i /\ row.release = 0
<1> DEFINE d == Evidence(i)
           p == Profile(d)
           row == RadarRow(i, d)
           risk == IF p.risk = 0 THEN d.account.risk ELSE p.risk
<1>1. IsEvidence(d)
    BY EvidenceIs
<1>2. /\ p.cap \in 0..200 /\ p.manualCap \in 0..75 /\ p.risk \in Nat /\ GateShape(p)
      /\ p.plan.path # "NONE" => Path(p.plan.chosen)
    BY <1>1, ProfileCaps, ProfileGate, ProfilePlan
<1>3. risk \in Nat
    <2>1. d.account.risk \in Nat
        BY <1>1 DEF IsEvidence, IsAccount
    <2> QED BY <1>2, <2>1
<1> HIDE DEF d, p
<1>4. Lots(d, p.plan, p.cap, risk) \in Nat
    <2> HIDE DEF risk
    <2> QED BY <1>1, <1>2, <1>3, LotsAre
<1>5. /\ row.state = p.state /\ row.plan = p.plan /\ row.cap = p.cap /\ row.manualCap = p.manualCap
      /\ row.gate = p.gate /\ row.candidate = p.candidate /\ row.entry = p.entry /\ row.ready = p.ready
      /\ row.blockers = p.blockers /\ row.risk = p.risk /\ row.presentable = FALSE
      /\ row.issuer = i /\ row.release = 0
      /\ row.lots = Lots(d, p.plan, p.cap, risk)
    BY DEF RadarRow, Sized, p
<1>6. IsRow(row)
    BY RowMade DEF RadarRow
<1> HIDE DEF row
<1>7. GateShape(row)
    BY <1>2, <1>5 DEF GateShape
<1>8. RowInv(row, d)
    BY <1>2, <1>4, <1>5, <1>6, <1>7 DEF RowInv, p
<1> QED BY <1>5, <1>8 DEF row, d

\* What every row of the invariant has.
LEMMA RowIs ==
    ASSUME NEW d, IsEvidence(d), NEW row, RowInv(row, d)
    PROVE  /\ row.cap \in 0..200 /\ row.manualCap \in 0..75 /\ row.lots \in Nat /\ row.risk \in Nat
           /\ d.market.regime = "RISK_OFF" => row.cap <= 50 /\ row.manualCap <= 50
           /\ row.plan.path # "NONE" => Path(row.plan.chosen)
<1>1. /\ row.cap = Profile(d).cap /\ row.manualCap \in {Profile(d).manualCap, 0} /\ row.plan = Profile(d).plan
      /\ row.lots \in Nat /\ row.risk \in Nat
    BY DEF RowInv
<1> QED BY <1>1, ProfileCaps, ProfilePlan

\* A pass keeps the invariant of a row.
LEMMA PassedInv ==
    ASSUME NEW d, IsEvidence(d), NEW old, RowInv(old, d), NEW new, Passed(old, new),
           new.presentable => d.integrity.provenance = "" \/ ~d.integrity.hard
    PROVE  RowInv(new, d)
<1>1. /\ IsRow(new) /\ GateShape(new) /\ new.state = old.state /\ new.plan = old.plan /\ new.cap = old.cap
      /\ new.lots = old.lots /\ new.risk = old.risk /\ new.manualCap \in {old.manualCap, 0}
    BY DEF Passed
<1>2. new.ready => old.ready
    BY DEF Passed, Weaker
<1>3. /\ old.state = Profile(d).state /\ old.plan = Profile(d).plan /\ old.cap = Profile(d).cap
      /\ old.manualCap \in {Profile(d).manualCap, 0} /\ old.lots \in Nat /\ old.risk \in Nat
      /\ old.ready => Profile(d).ready
    BY DEF RowInv
<1> QED BY <1>1, <1>2, <1>3 DEF RowInv

\* A sorted radar has each row once.
LEMMA SortIs ==
    ASSUME NEW S, IsFiniteSet(S), NEW order \in RadarSort(S)
    PROVE  /\ DOMAIN order = 1..Cardinality(S) /\ Cardinality(S) \in Nat
           /\ \A k \in DOMAIN order : order[k] \in S
           /\ \A k, n \in DOMAIN order : order[k] = order[n] => k = n
           /\ \A s \in S : \E k \in DOMAIN order : order[k] = s
           /\ order # <<>> => 1 \in DOMAIN order
<1> DEFINE c == Cardinality(S)
<1>1. c \in Nat
    BY FS_CardinalityType
<1>2. order \in [1..c -> S] /\ \A k, n \in 1..c : k # n => order[k] # order[n]
    BY DEF RadarSort, SetToSeqs
<1>3. order \in Injection(1..c, S)
    BY <1>2 DEF Injection, IsInjective
<1>4. IsFiniteSet(1..c) /\ Cardinality(1..c) = c
    BY <1>1, FS_Interval
<1>5. order \in Surjection(1..c, S)
    BY <1>3, <1>4, FS_Injection
<1>6. \A s \in S : \E k \in 1..c : order[k] = s
    BY <1>5 DEF Surjection
<1>7. order # <<>> => 1 \in DOMAIN order
    <2>1. c = 0 => order = <<>>
        BY <1>2
    <2> QED BY <1>1, <1>2, <2>1
<1> QED BY <1>1, <1>2, <1>6, <1>7

\* The rows of a scan.
ScoredRows == {RadarRow(i, Evidence(i)) : i \in Issuers}

\* They are as many as the issuers, and each of them is sound.
LEMMA ScoredRowsAre ==
    ASSUME case \in Cases
    PROVE  /\ IsFiniteSet(ScoredRows) /\ Cardinality(ScoredRows) = Cardinality(Issuers)
           /\ \A s, t \in ScoredRows : s.issuer = t.issuer => s = t
           /\ \A s \in ScoredRows : s.issuer \in Issuers /\ s.release = 0 /\ RowInv(s, Evidence(s.issuer))
           /\ \A i \in Issuers : \E s \in ScoredRows : s.issuer = i
<1> DEFINE f == [i \in Issuers |-> RadarRow(i, Evidence(i))]
<1>1. \A i \in Issuers : f[i].issuer = i /\ f[i].release = 0 /\ RowInv(f[i], Evidence(i))
    BY ScoredRow
<1>2. ScoredRows = {f[i] : i \in Issuers}
    BY DEF ScoredRows
<1>3. DOMAIN f = Issuers /\ f \in [Issuers -> ScoredRows]
    BY DEF ScoredRows
<1> HIDE DEF f
<1>4. f \in Bijection(Issuers, ScoredRows)
    <2>1. f \in Injection(Issuers, ScoredRows)
        BY <1>1, <1>3 DEF Injection, IsInjective
    <2>2. f \in Surjection(Issuers, ScoredRows)
        BY <1>2, <1>3 DEF Surjection
    <2> QED BY <2>1, <2>2 DEF Bijection
<1>5. IsFiniteSet(ScoredRows) /\ Cardinality(ScoredRows) = Cardinality(Issuers)
    BY <1>4, FS_Bijection, DecisionsAssumption DEF ExistsBijection
<1> QED BY <1>1, <1>2, <1>5

\* The invariant holds initially.
LEMMA DecInvInit == Init => DecInv
<1> SUFFICES ASSUME Init PROVE DecInv
    OBVIOUS
<1>1. case \in Cases /\ radar = <<>> /\ DOMAIN radar = {}
    BY DEF Init
<1> QED BY <1>1 DEF DecInv

\* A step keeps the radar's rows in their places and passes each of them, unless it scores it.
Kept ==
    /\ radar # <<>> /\ DOMAIN radar' = DOMAIN radar
    /\ \A k \in DOMAIN radar : Passed(radar[k], radar'[k])

\* Scoring establishes it.
LEMMA ScoreKeeps == ASSUME DecInv, Score PROVE DecInv'
<1>1. case \in Cases /\ case' = case /\ radar' \in RadarSort(ScoredRows)
    BY DEF DecInv, Score, ScoredRows
<1>2. /\ DOMAIN radar' = 1..Cardinality(ScoredRows)
      /\ \A k \in DOMAIN radar' : radar'[k] \in ScoredRows
      /\ \A k, n \in DOMAIN radar' : radar'[k] = radar'[n] => k = n
      /\ radar' # <<>> => 1 \in DOMAIN radar'
    BY <1>1, SortIs, ScoredRowsAre
<1>3. /\ \A s, t \in ScoredRows : s.issuer = t.issuer => s = t
      /\ \A s \in ScoredRows : s.issuer \in Issuers /\ s.release = 0 /\ RowInv(s, Evidence(s.issuer))
    BY <1>1, ScoredRowsAre
<1>4. \A k, n \in DOMAIN radar' : radar'[k].issuer = radar'[n].issuer => k = n
    BY <1>2, <1>3
<1>5. \A k \in DOMAIN radar' : radar'[k].issuer \in Issuers /\ radar'[k].release = 0
    BY <1>2, <1>3
<1>6. ASSUME NEW i \in Issuers, NEW k \in DOMAIN radar', radar'[k].issuer = i
      PROVE  RowInv(radar'[k], Evidence(i)')
    <2>1. RowInv(radar'[k], Evidence(i))
        BY <1>2, <1>3, <1>6
    <2>2. Evidence(i)' = Evidence(i)
        BY <1>1, EvidenceStays
    <2> QED BY <2>1, <2>2
<1>7. case' \in Cases
    BY <1>1
<1> QED BY <1>2, <1>4, <1>5, <1>6, <1>7 DEF DecInv

\* What the invariant says of the row in place k.
LEMMA NumbersOf ==
    ASSUME DecInv, NEW k \in DOMAIN radar
    PROVE  LET row == radar[k]
               d == Evidence(row.issuer)
           IN /\ row.issuer \in Issuers /\ RowInv(row, d) /\ IsEvidence(d) /\ IsRow(row) /\ GateShape(row)
              /\ row.manualCap \in Nat /\ row.cap \in Int /\ row.lots \in Int
<1>1. radar[k].issuer \in Issuers /\ case \in Cases
    BY DEF DecInv
<1>2. RowInv(radar[k], Evidence(radar[k].issuer))
    BY <1>1 DEF DecInv
<1>3. IsEvidence(Evidence(radar[k].issuer))
    BY <1>1, EvidenceIs
<1>4. IsRow(radar[k]) /\ GateShape(radar[k])
    BY <1>2 DEF RowInv
<1>5. radar[k].manualCap \in 0..75 /\ radar[k].cap \in 0..200 /\ radar[k].lots \in Nat
    BY <1>2, <1>3, RowIs
<1>6. radar[k].manualCap \in Nat /\ radar[k].cap \in Int /\ radar[k].lots \in Int
    BY <1>5
<1> QED BY <1>1, <1>2, <1>3, <1>4, <1>6

\* What keeps the invariant, row by row.
LEMMA KeptInv ==
    ASSUME DecInv, case' = case, Kept,
           \A k \in DOMAIN radar : radar'[k].presentable =>
               \/ Evidence(radar[k].issuer).integrity.provenance = ""
               \/ ~Evidence(radar[k].issuer).integrity.hard,
           \A k, n \in DOMAIN radar : radar'[k].release = radar'[n].release,
           \A k \in DOMAIN radar : radar'[k].release > 0 => Delayed(radar'[k])
    PROVE  DecInv'
<1>1. \A k \in DOMAIN radar : radar'[k].issuer = radar[k].issuer /\ radar[k].issuer \in Issuers
    BY NumbersOf DEF Kept, Passed
<1>2. DOMAIN radar' = DOMAIN radar /\ 1 \in DOMAIN radar'
    BY DEF Kept, DecInv
<1>3. \A k, n \in DOMAIN radar' : radar'[k].issuer = radar'[n].issuer => k = n
    BY <1>1, <1>2 DEF DecInv
<1>4. ASSUME NEW i \in Issuers, NEW k \in DOMAIN radar', radar'[k].issuer = i
      PROVE  RowInv(radar'[k], Evidence(i)')
    <2>1. k \in DOMAIN radar /\ radar[k].issuer = i
        BY <1>1, <1>2, <1>4
    <2>2. RowInv(radar[k], Evidence(i)) /\ IsEvidence(Evidence(i))
        BY <2>1, NumbersOf
    <2>3. Passed(radar[k], radar'[k])
        BY <2>1 DEF Kept
    <2>4. radar'[k].presentable => Evidence(i).integrity.provenance = "" \/ ~Evidence(i).integrity.hard
        BY <2>1
    <2>5. RowInv(radar'[k], Evidence(i))
        BY <2>2, <2>3, <2>4, PassedInv
    <2>6. Evidence(i)' = Evidence(i)
        BY EvidenceStays
    <2> QED BY <2>5, <2>6
<1>5. case' \in Cases
    BY DEF DecInv
<1> QED BY <1>1, <1>2, <1>3, <1>4, <1>5 DEF DecInv

\* Rows of an older release that are read back.
LEMMA LoadKeeps == ASSUME DecInv, LoadOlder PROVE Kept /\ DecInv'
<1>1. PICK answer \in case.answers :
          LET f == Foreign(answer.foreign)
              Conviction2(row) == IF Seen(row.conviction)
                                  THEN Clip(row.conviction + Delta(f[row.issuer].score, f[row.issuer].coverage, 25) \div 10)
                                  ELSE row.conviction
          IN radar' = [k \in DOMAIN radar |->
                         [radar[k] EXCEPT !.flow = f[radar[k].issuer], !.conviction = Conviction2(radar[k]),
                                          !.foreign.marked = TRUE, !.broker.marked = TRUE, !.loaded = TRUE]]
    BY DEF LoadOlder
<1>2. radar # <<>> /\ case' = case /\ \A k \in DOMAIN radar : radar[k].release = 0
    BY DEF LoadOlder
<1>3. /\ DOMAIN radar' = DOMAIN radar
      /\ \A k \in DOMAIN radar : \E conviction, flow :
            radar'[k] = [radar[k] EXCEPT !.flow = flow, !.conviction = conviction,
                                         !.foreign.marked = TRUE, !.broker.marked = TRUE, !.loaded = TRUE]
    BY <1>1
<1>4. ASSUME NEW k \in DOMAIN radar
      PROVE  /\ Same(radar[k], radar'[k])
             /\ radar'[k].presentable = radar[k].presentable /\ radar'[k].release = radar[k].release
    <2> DEFINE row == radar[k]
               new == radar'[k]
    <2>1. PICK conviction, flow :
             new = [row EXCEPT !.flow = flow, !.conviction = conviction, !.foreign.marked = TRUE,
                                               !.broker.marked = TRUE, !.loaded = TRUE]
        BY <1>3
    <2>2. IsRow(row)
        BY NumbersOf
    <2> HIDE DEF row, new
    <2>3. DOMAIN row = Columns
        BY <2>2 DEF IsRow
    <2>4. IsRow(new)
        BY <2>1, <2>2 DEF IsRow
    <2>5. \A c \in DOMAIN row : c \notin {"flow", "conviction", "foreign", "broker", "loaded"} => new[c] = row[c]
        BY <2>1
    <2>6. \A c \in Decisive \cup {"presentable", "release"} : new[c] = row[c]
        <3>1. Decisive \cup {"presentable", "release"} \subseteq Columns
            BY DEF Decisive, Columns
        <3> QED BY <2>3, <2>5, <3>1 DEF Decisive
    <2> QED BY <2>4, <2>6 DEF Same, row, new
<1>5. \A k \in DOMAIN radar : Passed(radar[k], radar'[k])
    BY <1>4, NumbersOf, SamePasses
<1>6. Kept
    BY <1>2, <1>3, <1>5 DEF Kept
<1>7. \A k \in DOMAIN radar : radar'[k].presentable =>
               \/ Evidence(radar[k].issuer).integrity.provenance = ""
               \/ ~Evidence(radar[k].issuer).integrity.hard
    BY <1>4, NumbersOf DEF RowInv
<1>8. \A k, n \in DOMAIN radar : radar'[k].release = radar'[n].release
    BY <1>4 DEF DecInv
<1>9. \A k \in DOMAIN radar : ~(radar'[k].release > 0)
    BY <1>2, <1>4
<1> QED BY <1>2, <1>6, <1>7, <1>8, <1>9, KeptInv

\* A later release keeps the rows and the invariant.
LEMMA UpgradeKeeps == ASSUME DecInv, Upgrade PROVE Kept /\ DecInv'
<1>1. radar # <<>> /\ case' = case /\ radar' = [k \in DOMAIN radar |-> [radar[k] EXCEPT !.loaded = TRUE]]
    BY DEF Upgrade
<1>2. ASSUME NEW k \in DOMAIN radar
      PROVE  /\ Same(radar[k], radar'[k]) /\ radar'[k].flow = radar[k].flow
             /\ radar'[k].presentable = radar[k].presentable /\ radar'[k].release = radar[k].release
    <2> DEFINE row == radar[k]
    <2>1. radar'[k] = [row EXCEPT !.loaded = TRUE] /\ IsRow(row)
        BY <1>1, NumbersOf
    <2> HIDE DEF row
    <2>2. Same(row, radar'[k])
        BY <2>1, ZenonT(60) DEF Same, IsRow, Columns, Decisive
    <2>3. radar'[k].flow = row.flow /\ radar'[k].presentable = row.presentable /\ radar'[k].release = row.release
        BY <2>1 DEF IsRow, Columns
    <2> QED BY <2>2, <2>3 DEF row
<1>3. \A k \in DOMAIN radar : Passed(radar[k], radar'[k])
    BY <1>2, NumbersOf, SamePasses
<1>4. Kept
    BY <1>1, <1>3 DEF Kept
<1>5. \A k \in DOMAIN radar : radar'[k].presentable =>
               \/ Evidence(radar[k].issuer).integrity.provenance = ""
               \/ ~Evidence(radar[k].issuer).integrity.hard
    BY <1>2, NumbersOf DEF RowInv
<1>6. \A k, n \in DOMAIN radar : radar'[k].release = radar'[n].release
    BY <1>2 DEF DecInv
<1>7. ASSUME NEW k \in DOMAIN radar, radar'[k].release > 0 PROVE Delayed(radar'[k])
    <2>1. Delayed(radar[k])
        BY <1>2, <1>7 DEF DecInv
    <2>2. radar'[k].ready = radar[k].ready /\ radar'[k].entry = radar[k].entry /\ radar'[k].flow = radar[k].flow
        BY <1>2 DEF Same, Decisive
    <2> QED BY <2>1, <2>2 DEF Delayed
<1> QED BY <1>1, <1>4, <1>5, <1>6, <1>7, KeptInv

\* So does the final decision.
LEMMA FinalizeKeeps == ASSUME DecInv, Finalize PROVE Kept /\ DecInv'
<1> DEFINE evidence == [i \in Issuers |-> Evidence(i)]
<1>1. PICK answer \in case.answers :
          radar' = Finalized(radar, evidence, Foreign(answer.foreign), Broker(answer.broker), release)
    BY DEF Finalize
<1>2. radar # <<>> /\ case' = case
    BY DEF Finalize
<1>3. ASSUME NEW k \in DOMAIN radar
      PROVE  /\ DOMAIN radar' = DOMAIN radar
             /\ Passed(radar[k], radar'[k]) /\ Delayed(radar'[k]) /\ radar'[k].release = release
             /\ radar'[k].presentable => \/ Evidence(radar[k].issuer).integrity.provenance = ""
                                         \/ ~Evidence(radar[k].issuer).integrity.hard
    <2>1. /\ radar[k].issuer \in Issuers /\ IsRow(radar[k]) /\ GateShape(radar[k])
          /\ radar[k].manualCap \in Nat /\ radar[k].cap \in Int /\ radar[k].lots \in Int
        BY NumbersOf
    <2>2. evidence[radar[k].issuer] = Evidence(radar[k].issuer)
        BY <2>1
    <2> DEFINE f == Foreign(answer.foreign)
               b == Broker(answer.broker)
               done == Finalized(radar, evidence, f, b, release)
    <2> HIDE DEF evidence, f, b
    <2>4. radar' = done
        BY <1>1 DEF f, b
    <2>5. done = Finalized(radar, evidence, f, b, release)
        OBVIOUS
    <2> HIDE DEF done
    <2>6. Settled(radar, done, k, release)
        BY <2>1, <2>5, FinalizedPasses
    <2>7. \/ ~done[k].presentable
          \/ evidence[radar[k].issuer].integrity.provenance = ""
          \/ ~evidence[radar[k].issuer].integrity.hard
        BY <2>1, <2>5, FinalizedPasses
    <2> QED BY <2>2, <2>4, <2>6, <2>7 DEF Settled
<1>4. 1 \in DOMAIN radar
    BY <1>2 DEF DecInv
<1>5. Kept
    BY <1>2, <1>3, <1>4 DEF Kept
<1> QED BY <1>2, <1>3, <1>5, KeptInv

-----------------------------------------------------------------------------
(* The invariant is kept, and what follows from it.                        *)

\* A step that changes something keeps the invariant, and the radar's rows unless it scores them.
LEMMA StepKeeps == ASSUME DecInv, Next PROVE DecInv' /\ (radar = <<>> \/ Kept)
<1>1. CASE Score
    <2>1. radar = <<>>
        BY <1>1 DEF Score
    <2> QED BY <1>1, <2>1, ScoreKeeps
<1>2. CASE LoadOlder
    BY <1>2, LoadKeeps
<1>3. CASE Finalize
    BY <1>3, FinalizeKeeps
<1>4. CASE Upgrade
    BY <1>4, UpgradeKeeps
<1> QED BY <1>1, <1>2, <1>3, <1>4 DEF Next

\* A step that changes nothing keeps the invariant.
LEMMA StutterKeeps == ASSUME DecInv, UNCHANGED vars PROVE DecInv'
<1>1. case' = case /\ radar' = radar
    BY DEF vars
<1>2. \A i : Evidence(i)' = Evidence(i)
    BY <1>1, EvidenceStays
<1>3. case' \in Cases /\ (radar' # <<>> => 1 \in DOMAIN radar')
    BY <1>1 DEF DecInv
<1>4. \A k, n \in DOMAIN radar' : radar'[k].issuer = radar'[n].issuer => k = n
    BY <1>1 DEF DecInv
<1>5. \A k, n \in DOMAIN radar' : radar'[k].release = radar'[n].release
    BY <1>1 DEF DecInv
<1>6. \A k \in DOMAIN radar' : radar'[k].issuer \in Issuers /\ (radar'[k].release > 0 => Delayed(radar'[k]))
    BY <1>1 DEF DecInv
<1>7. ASSUME NEW i \in Issuers, NEW k \in DOMAIN radar', radar'[k].issuer = i
      PROVE  RowInv(radar'[k], Evidence(i)')
    <2>1. RowInv(radar[k], Evidence(i))
        BY <1>1, <1>7 DEF DecInv
    <2> QED BY <1>1, <1>2, <2>1
<1> QED BY <1>3, <1>4, <1>5, <1>6, <1>7 DEF DecInv

\* The invariant of the decisions holds of every reachable state: each row is what the passes
\* may leave of the profile its issuer was scored with (finalize_job,
\* finalize_decision_snapshot).
THEOREM DecisionsInvariant == Spec => []DecInv
<1>1. Init => DecInv
    BY DecInvInit
<1>2. DecInv /\ [Next]_vars => DecInv'
    BY StepKeeps, StutterKeeps
<1> QED BY <1>1, <1>2, PTL DEF Spec

-----------------------------------------------------------------------------

\* Who is in a lane has a row that was eligible for it.
LEMMA RankedRow ==
    ASSUME NEW rows, NEW field, NEW S, NEW i \in InRank(rows, field, S)
    PROVE  \E k \in S : rows[k].issuer = i
BY DEF InRank

\* Who is in the execution lane has an authorized row.
LEMMA ExecutedRow ==
    ASSUME NEW i \in ExecutionLane(radar)
    PROVE  \E k \in DOMAIN radar : radar[k].issuer = i /\ Authorized(radar[k])
<1>1. PICK k \in Tradable(radar) : radar[k].issuer = i
    BY RankedRow DEF ExecutionLane
<1> QED BY <1>1 DEF Tradable

\* AuthorizedOnCleanEvidence: who is shown as ready for real money was clean in every block of
\* the raw evidence (build_emir_profile, production_authorization_mask).
THEOREM AuthorizedIsClean == Spec => []AuthorizedOnCleanEvidence
<1>1. DecInv => AuthorizedOnCleanEvidence
    <2> SUFFICES ASSUME DecInv, NEW i \in ExecutionLane(radar) PROVE CleanRecord(i)
        BY DEF AuthorizedOnCleanEvidence, CleanRecord
    <2>1. PICK k \in DOMAIN radar : radar[k].issuer = i /\ Authorized(radar[k])
        BY ExecutedRow
    <2>2. i \in Issuers /\ RowInv(radar[k], Evidence(i)) /\ case \in Cases
        BY <2>1 DEF DecInv
    <2>3. Profile(Evidence(i)).ready
        BY <2>1, <2>2 DEF RowInv, Authorized
    <2> QED BY <2>2, <2>3, ReadyOnCleanRecord
<1> QED BY <1>1, DecisionsInvariant, PTL

\* Who is hard on direct evidence is in a state that is rejected.
LEMMA HardIsRejected ==
    ASSUME NEW d, d.integrity.provenance = "DIRECT", d.integrity.hard
    PROVE  Profile(d).state \in Rejected
<1>1. Profile(d).state = DecisionState(d, Reading(d))
    BY ProfileIs
<1>2. DecisionState(d, Reading(d)) \in Rejected
    BY DEF DecisionState, Rejected
<1> QED BY <1>1, <1>2

\* RejectedStaysOut: an issuer that the exchange's verified row rules out, with nothing else on
\* record, is in no lane that leads to money (production_hard_block_mask).
THEOREM RejectedIsOut == Spec => []RejectedStaysOut
<1>1. DecInv => RejectedStaysOut
    <2> SUFFICES ASSUME DecInv, NEW i \in Issuers, DirectBlock(i), Held(i, "ksei") = <<>>, NoAlert(i)
                 PROVE  i \notin GuardedLane(radar) \cup ExecutionLane(radar) \cup WatchLane(radar)
                                 \cup NextLeaders(radar)
        BY DEF RejectedStaysOut
    <2>1. Integrity(i).provenance = "DIRECT" /\ Integrity(i).hard
        BY HardFrom
    <2>2. Evidence(i).integrity = Integrity(i)
        BY DEF Evidence
    <2>3. ASSUME NEW k \in DOMAIN radar, radar[k].issuer = i
          PROVE  HardBlock(radar[k]) /\ ~radar[k].presentable
        <3>1. RowInv(radar[k], Evidence(i))
            BY <2>3 DEF DecInv
        <3>2. Profile(Evidence(i)).state \in Rejected
            BY <2>1, <2>2, HardIsRejected
        <3>3. radar[k].state \in Rejected
            BY <3>1, <3>2 DEF RowInv
        <3>4. ~radar[k].presentable
            BY <2>1, <2>2, <3>1 DEF RowInv
        <3> QED BY <3>3, <3>4 DEF HardBlock
    <2>4. i \notin GuardedLane(radar)
        <3> SUFFICES ASSUME i \in GuardedLane(radar) PROVE FALSE
            OBVIOUS
        <3>1. PICK k \in Unblocked(radar) : radar[k].issuer = i
            BY RankedRow DEF GuardedLane
        <3> QED BY <2>3, <3>1 DEF Unblocked
    <2>5. i \notin ExecutionLane(radar)
        <3> SUFFICES ASSUME i \in ExecutionLane(radar) PROVE FALSE
            OBVIOUS
        <3>1. PICK k \in DOMAIN radar : radar[k].issuer = i /\ Authorized(radar[k])
            BY ExecutedRow
        <3> QED BY <2>3, <3>1 DEF Authorized
    <2>6. i \notin WatchLane(radar)
        BY <2>3 DEF WatchLane
    <2>7. i \notin NextLeaders(radar)
        BY <2>3 DEF NextLeaders
    <2> QED BY <2>4, <2>5, <2>6, <2>7
<1> QED BY <1>1, DecisionsInvariant, PTL

\* ShockDelays: after a day of heavy foreign selling no row is authorized, and none is an entry
\* when the selling persists (_apply_foreign_shock_guard).
THEOREM ShockIsDelayed == Spec => []ShockDelays
<1>1. DecInv => ShockDelays
    <2> SUFFICES ASSUME DecInv, Final, NEW k \in DOMAIN radar,
                        radar[k].flow.coverage >= 60, Seen(radar[k].flow.one), radar[k].flow.one <= -80
                 PROVE  /\ radar[k].issuer \notin ExecutionLane(radar)
                        /\ Seen(radar[k].flow.twenty) /\ radar[k].flow.twenty <= -10 => ~radar[k].entry
        BY DEF ShockDelays
    <2>1. 1 \in DOMAIN radar /\ radar[1].release > 0
        BY DEF Final, DecInv
    <2>2. radar[k].release = radar[1].release
        BY <2>1 DEF DecInv
    <2>3. Delayed(radar[k])
        BY <2>1, <2>2 DEF DecInv
    <2>4. Severe(radar[k].flow)
        BY DEF Severe
    <2>5. ~radar[k].ready /\ (Persistent(radar[k].flow) => ~radar[k].entry)
        BY <2>3, <2>4 DEF Delayed
    <2>6. radar[k].issuer \notin ExecutionLane(radar)
        <3> SUFFICES ASSUME radar[k].issuer \in ExecutionLane(radar) PROVE FALSE
            OBVIOUS
        <3>1. PICK n \in DOMAIN radar : radar[n].issuer = radar[k].issuer /\ Authorized(radar[n])
            BY ExecutedRow
        <3>2. n = k
            BY <3>1 DEF DecInv
        <3> QED BY <2>5, <3>1, <3>2 DEF Authorized
    <2>7. Seen(radar[k].flow.twenty) /\ radar[k].flow.twenty <= -10 => ~radar[k].entry
        BY <2>5 DEF Persistent
    <2> QED BY <2>6, <2>7
<1> QED BY <1>1, DecisionsInvariant, PTL

\* CapFollowsRegime: in a market that is risk-off no row has a cap above half a percent
\* (the caps of build_emir_profile, which no later pass raises).
THEOREM CapIsBounded == Spec => []CapFollowsRegime
<1>1. DecInv => CapFollowsRegime
    <2> SUFFICES ASSUME DecInv, Market.regime = "RISK_OFF", NEW k \in DOMAIN radar
                 PROVE  radar[k].cap <= 50 /\ radar[k].manualCap <= 50
        BY DEF CapFollowsRegime
    <2> DEFINE d == Evidence(radar[k].issuer)
    <2>1. RowInv(radar[k], d) /\ IsEvidence(d)
        BY NumbersOf
    <2>2. d.market = Market
        BY DEF Evidence
    <2> HIDE DEF d
    <2> QED BY <2>1, <2>2, RowIs
<1> QED BY <1>1, DecisionsInvariant, PTL

\* StopBounded: the stop of a traded path is below its band and close to it
\* (build_execution_plan).
THEOREM StopIsBounded == Spec => []StopBounded
<1>1. DecInv => StopBounded
    <2> SUFFICES ASSUME DecInv, NEW k \in DOMAIN radar, radar[k].plan.path # "NONE"
                 PROVE  LET c == radar[k].plan.chosen
                        IN c.stop < c.low /\ 100 * (c.stop + 2 * IdxTick(c.low * U)) >= 94 * c.low
        BY DEF StopBounded
    <2> DEFINE d == Evidence(radar[k].issuer)
    <2>1. RowInv(radar[k], d) /\ IsEvidence(d)
        BY NumbersOf
    <2> HIDE DEF d
    <2>2. Path(radar[k].plan.chosen)
        BY <2>1, RowIs
    <2> QED BY <2>2 DEF Path
<1> QED BY <1>1, DecisionsInvariant, PTL

\* NothingPromotes: no step after the scoring raises the gate, a cap or the size of a row
\* (finalize_decision_snapshot, the guards and the tiers).
THEOREM NeverPromotes == Spec => NothingPromotes
<1> DEFINE Held2 == \A k \in DOMAIN radar, n \in DOMAIN radar' :
                      radar[k].issuer = radar'[n].issuer => Weaker(radar[k], radar'[n])
<1>1. DecInv /\ DecInv' /\ [Next]_vars => [Held2]_vars
    <2> SUFFICES ASSUME DecInv, Next, NEW k \in DOMAIN radar, NEW n \in DOMAIN radar',
                        radar[k].issuer = radar'[n].issuer
                 PROVE  Weaker(radar[k], radar'[n])
        OBVIOUS
    <2>1. Kept
        <3>1. radar # <<>>
            OBVIOUS
        <3> QED BY <3>1, StepKeeps
    <2>2. n \in DOMAIN radar /\ Passed(radar[n], radar'[n])
        BY <2>1 DEF Kept
    <2>3. n = k
        BY <2>2 DEF Passed, DecInv
    <2> QED BY <2>2, <2>3 DEF Passed
<1> QED BY <1>1, DecisionsInvariant, PTL DEF Spec, NothingPromotes

-----------------------------------------------------------------------------
(* Scores are numbers.                                                     *)

IsPart(p) == p.value \in Int /\ p.weight \in Nat /\ p.coverage \in Int
IsGroup(g) == g.score \in Int /\ g.coverage \in Nat

\* Clip gives a whole percent.
LEMMA ClipIs == ASSUME NEW x \in Int PROVE Clip(x) \in 0..100
    BY DEF Clip

\* A default keeps a number a number.
LEMMA FiniteIs == ASSUME NEW x \in Int, NEW y \in Int PROVE Finite(x, y) \in Int
    BY DEF Finite

\* A part made of numbers is one.
LEMMA PartIs ==
    ASSUME NEW v \in Int, NEW w \in Nat, NEW c \in Int PROVE IsPart(Part(v, w, c)) /\ Part(v, w, c).weight = w
    BY DEF IsPart, Part

\* So is one that covers itself.
LEMMA SelfIs == ASSUME NEW v \in Int, NEW w \in Nat PROVE IsPart(Self(v, w)) /\ Self(v, w).weight = w
    BY DEF IsPart, Part, Self

\* The numbers up to n are finitely many.
LEMMA UpTo == ASSUME NEW n \in Nat PROVE IsFiniteSet(1..n)
    BY FS_Interval

\* Division by a positive number.
LEMMA PositiveSum ==
    ASSUME NEW a \in Int, NEW b \in Nat, b # 0
    PROVE  a \div b \in Int /\ (a \in Nat => a \div b \in Nat)
    OBVIOUS

\* The mean and the coverage of a group are numbers.
LEMMA WeightedIs ==
    ASSUME NEW parts, IsFiniteSet(DOMAIN parts), \A i \in DOMAIN parts : IsPart(parts[i])
    PROVE  IsGroup(Weighted(parts))
<1> DEFINE w == [i \in DOMAIN parts |-> ScoredWeight(parts[i])]
           s == [i \in DOMAIN parts |-> Scored(parts[i])]
           a == [i \in DOMAIN parts |-> AllWeight(parts[i])]
           c == [i \in DOMAIN parts |-> Covered(parts[i])]
<1>1. \A i \in DOMAIN parts : w[i] \in Nat
    BY DEF IsPart, ScoredWeight
<1>2. \A i \in DOMAIN parts : s[i] \in Int
    BY ClipIs DEF IsPart, Scored
<1>3. \A i \in DOMAIN parts : a[i] \in Nat
    BY DEF IsPart, AllWeight
<1>4. \A i \in DOMAIN parts : c[i] \in Nat
    <2> TAKE i \in DOMAIN parts
    <2>1. parts[i].weight \in Nat /\ Clip(parts[i].coverage) \in Nat
        BY ClipIs DEF IsPart
    <2> HIDE DEF Clip
    <2> QED BY <2>1 DEF Covered
<1>5. DOMAIN w = DOMAIN parts /\ DOMAIN s = DOMAIN parts /\ DOMAIN a = DOMAIN parts /\ DOMAIN c = DOMAIN parts
    OBVIOUS
<1>6. Weighted(parts) = [score |-> IF SumFunction(w) = 0 THEN NaN ELSE SumFunction(s) \div SumFunction(w),
                         coverage |-> IF SumFunction(a) = 0 THEN 0 ELSE SumFunction(c) \div SumFunction(a)]
    BY DEF Weighted, Total
<1> HIDE DEF w, s, a, c
<1>7. SumFunction(w) \in Nat /\ SumFunction(s) \in Int /\ SumFunction(a) \in Nat /\ SumFunction(c) \in Nat
    BY <1>1, <1>2, <1>3, <1>4, <1>5, SumNat, SumInt
<1>8. SumFunction(w) # 0 => SumFunction(s) \div SumFunction(w) \in Int
    BY <1>7, PositiveSum
<1>9. SumFunction(a) # 0 => SumFunction(c) \div SumFunction(a) \in Nat
    BY <1>7, PositiveSum
<1> QED BY <1>6, <1>8, <1>9 DEF IsGroup, NaN

\* Groups of two parts.
LEMMA Weighted2 ==
    ASSUME NEW a, NEW b, IsPart(a), IsPart(b) PROVE IsGroup(Weighted(<<a, b>>))
<1>1. IsFiniteSet(1..2)
    BY UpTo
<1>2. DOMAIN <<a, b>> = 1..2
    OBVIOUS
<1> QED BY <1>1, <1>2, WeightedIs

\* Three parts.
LEMMA Weighted3 ==
    ASSUME NEW a, NEW b, NEW c, IsPart(a), IsPart(b), IsPart(c) PROVE IsGroup(Weighted(<<a, b, c>>))
<1>1. IsFiniteSet(1..3)
    BY UpTo
<1>2. DOMAIN <<a, b, c>> = 1..3
    OBVIOUS
<1> QED BY <1>1, <1>2, WeightedIs

\* Five parts.
LEMMA Weighted5 ==
    ASSUME NEW a, NEW b, NEW c, NEW d, NEW e, IsPart(a), IsPart(b), IsPart(c), IsPart(d), IsPart(e)
    PROVE  IsGroup(Weighted(<<a, b, c, d, e>>))
<1>1. IsFiniteSet(1..5)
    BY UpTo
<1>2. DOMAIN <<a, b, c, d, e>> = 1..5
    OBVIOUS
<1> QED BY <1>1, <1>2, WeightedIs

\* Six parts.
LEMMA Weighted6 ==
    ASSUME NEW a, NEW b, NEW c, NEW d, NEW e, NEW f,
           IsPart(a), IsPart(b), IsPart(c), IsPart(d), IsPart(e), IsPart(f)
    PROVE  IsGroup(Weighted(<<a, b, c, d, e, f>>))
<1>1. IsFiniteSet(1..6)
    BY UpTo
<1>2. DOMAIN <<a, b, c, d, e, f>> = 1..6
    OBVIOUS
<1> QED BY <1>1, <1>2, WeightedIs

\* Eleven parts.
LEMMA Weighted11 ==
    ASSUME NEW a, NEW b, NEW c, NEW d, NEW e, NEW f, NEW g, NEW h, NEW i, NEW j, NEW k,
           IsPart(a), IsPart(b), IsPart(c), IsPart(d), IsPart(e), IsPart(f), IsPart(g), IsPart(h),
           IsPart(i), IsPart(j), IsPart(k)
    PROVE  IsGroup(Weighted(<<a, b, c, d, e, f, g, h, i, j, k>>))
<1> DEFINE parts == <<a, b, c, d, e, f, g, h, i, j, k>>
<1>1. IsFiniteSet(1..11)
    BY UpTo
<1>2. DOMAIN parts = 1..11
    OBVIOUS
<1>3. \A n \in 1..11 : IsPart(parts[n])
    OBVIOUS
<1> HIDE DEF parts
<1>4. IsGroup(Weighted(parts))
    BY <1>1, <1>2, <1>3, WeightedIs
<1> QED BY <1>4 DEF parts

\* The same over rows: a number of each row, added up.
LEMMA RowsAdd ==
    ASSUME NEW rows, IsFiniteSet(DOMAIN rows), \A k \in DOMAIN rows : IsBrokerRow(rows[k])
    PROVE  /\ Total(Net, rows) \in Int /\ Total(Gross, rows) \in Nat /\ Total(RetailNet, rows) \in Int
           /\ Total(SmartNet, rows) \in Int /\ Total(FundNet, rows) \in Int /\ Total(Size, rows) \in Nat
<1>1. \A k \in DOMAIN rows : rows[k].buy \in Nat /\ rows[k].sell \in Nat
    BY DEF IsBrokerRow
<1>2. \A k \in DOMAIN rows : /\ Net(rows[k]) \in Int /\ Gross(rows[k]) \in Nat /\ RetailNet(rows[k]) \in Int
                             /\ SmartNet(rows[k]) \in Int /\ FundNet(rows[k]) \in Int /\ Size(rows[k]) \in Nat
    BY <1>1 DEF Net, Gross, RetailNet, SmartNet, FundNet, Size
<1>3. Total(Net, rows) \in Int
    BY <1>2, SumInt DEF Total
<1>4. Total(Gross, rows) \in Nat
    BY <1>2, SumNat DEF Total
<1>5. Total(RetailNet, rows) \in Int
    BY <1>2, SumInt DEF Total
<1>6. Total(SmartNet, rows) \in Int
    BY <1>2, SumInt DEF Total
<1>7. Total(FundNet, rows) \in Int
    BY <1>2, SumInt DEF Total
<1>8. Total(Size, rows) \in Nat
    BY <1>2, SumNat DEF Total
<1> QED BY <1>3, <1>4, <1>5, <1>6, <1>7, <1>8

\* The greater of two numbers.
LEMMA MaxOf2 == ASSUME NEW x \in Int, NEW y \in Int PROVE Max({x, y}) \in {x, y} /\ Max({x, y}) >= x /\ Max({x, y}) >= y
    BY MaxIs

\* It is a whole number.
LEMMA MaxInt == ASSUME NEW x \in Int, NEW y \in Int PROVE Max({x, y}) \in Int
    BY MaxOf2

\* It is a natural number when both are.
LEMMA MaxNat == ASSUME NEW x \in Nat, NEW y \in Nat PROVE Max({x, y}) \in Nat
    BY MaxOf2

\* The smaller of two numbers.
LEMMA MinOf2 == ASSUME NEW x \in Int, NEW y \in Int PROVE Min({x, y}) \in {x, y} /\ Min({x, y}) <= x /\ Min({x, y}) <= y
    BY MinIs

\* It is a natural number when both are.
LEMMA MinNat == ASSUME NEW x \in Nat, NEW y \in Nat PROVE Min({x, y}) \in Nat
    BY MinOf2

\* The values of an operator over a finite set are finitely many.
LEMMA ImageIs ==
    ASSUME NEW f, IsFiniteSet(DOMAIN f)
    PROVE  IsFiniteSet({f[x] : x \in DOMAIN f})
<1> DEFINE T == {f[x] : x \in DOMAIN f}
<1> DEFINE g == [x \in DOMAIN f |-> f[x]]
<1>1. g \in Surjection(DOMAIN f, T)
    BY DEF Surjection
<1> QED BY <1>1, FS_Surjection

\* A finite set of numbers has a least one.
LEMMA MinIn ==
    ASSUME NEW S \in SUBSET Int, IsFiniteSet(S), S # {}
    PROVE  Min(S) \in S /\ \A y \in S : Min(S) <= y
<1> DEFINE f == [x \in S |-> 0 - x]
           N == {f[x] : x \in DOMAIN f}
<1>1. N \in SUBSET Int /\ N # {}
    <2>1. DOMAIN f = S /\ \A x \in S : f[x] \in Int
        OBVIOUS
    <2> HIDE DEF f
    <2>2. PICK x \in S : TRUE
        OBVIOUS
    <2>3. f[x] \in N
        BY <2>1
    <2> QED BY <2>1, <2>3
<1>2. IsFiniteSet(N)
    <2>1. DOMAIN f = S
        OBVIOUS
    <2> HIDE DEF f
    <2> QED BY <2>1, ImageIs
<1>3. PICK m \in N : \A y \in N : m >= y
    BY <1>1, <1>2, MaxIn
<1>4. PICK x \in S : m = 0 - x
    BY <1>3
<1>5. \A y \in S : x <= y
    <2> TAKE y \in S
    <2>1. f[y] \in N /\ f[y] = 0 - y
        OBVIOUS
    <2> HIDE DEF N, f
    <2>2. m >= 0 - y
        BY <1>3, <2>1
    <2> QED BY <1>4, <2>2
<1> QED BY <1>5, MinIs

\* The proxy of broker evidence is a group.
LEMMA BrokerProxyIs == ASSUME NEW f, IsFeatures(f) PROVE IsGroup(BrokerProxy(f)) /\ BrokerProxy(f).cannibalisation = 0
<1>1. /\ f.tape.accumulation \in Int /\ f.tape.absorption \in Int /\ f.tape.distribution \in Int
      /\ f.tape.failed \in Int /\ f.tape.pressure \in Int /\ f.tape.dryness \in Int /\ f.cycle \in Int
      /\ f.tape.observed \in Nat
    BY DEF IsFeatures
<1>2. Persisted(f.tape) \in Int
    BY <1>1, ClipIs DEF Persisted
<1>3. Finite(f.cycle, 50) \in Int
    BY <1>1 DEF Finite
<1> DEFINE dryness == Clip((30 * Persisted(f.tape) + 70 * f.tape.dryness) \div 100)
<1>4. dryness \in Int
    BY <1>1, <1>2, ClipIs
<1> HIDE DEF dryness
<1>5. ProxyScore(f) = Clip((35 * f.tape.pressure + 25 * Persisted(f.tape) + 20 * dryness + 20 * Finite(f.cycle, 50)) \div 100)
    BY DEF ProxyScore, dryness
<1>6. ProxyScore(f) \in Int
    BY <1>1, <1>2, <1>3, <1>4, <1>5, ClipIs
<1> DEFINE seen == (72 * f.tape.observed) \div 9
<1>7. seen \in Nat
    BY <1>1
<1> HIDE DEF seen
<1>8. Min({72, seen}) \in Nat
    BY <1>7, MinIs
<1>9. BrokerProxy(f).score = ProxyScore(f) /\ BrokerProxy(f).coverage = Min({72, seen})
      /\ BrokerProxy(f).cannibalisation = 0
    BY DEF BrokerProxy, seen
<1> QED BY <1>6, <1>8, <1>9 DEF IsGroup

\* The proxy of an order book is a group.
LEMMA BookProxyIs == ASSUME NEW f, IsFeatures(f) PROVE IsGroup(BookProxy(f))
<1>1. f.tape.acceptance \in Int /\ f.friction \in Int /\ f.tape.observed \in Nat
    BY DEF IsFeatures
<1> DEFINE over == Max({0, f.friction - 45})
<1>2. over \in Int
    <2>1. f.friction - 45 \in Int
        BY <1>1
    <2> QED BY <2>1, MaxInt
<1> HIDE DEF over
<1>3. Clip(f.tape.acceptance - over \div 10) \in Int
    BY <1>1, <1>2, ClipIs
<1>4. (60 * f.tape.observed) \div 9 \in Nat
    BY <1>1
<1> QED BY <1>3, <1>4 DEF BookProxy, IsGroup, over

\* The order book, direct or by proxy, is a group.
LEMMA BookIs == ASSUME NEW f, IsFeatures(f), NEW rows, Rows(rows, IsBookRow) PROVE IsGroup(BookOf(f, rows))
<1> DEFINE verified == {k \in DOMAIN rows : Verified(rows[k])}
           latest == rows[Max(verified)]
<1>1. CASE rows = <<>>
    BY <1>1, BookProxyIs DEF BookOf
<1>2. CASE rows # <<>> /\ verified = {}
    BY <1>2 DEF BookOf, ParseOrderbook, IsGroup, NaN
<1>3. CASE rows # <<>> /\ verified # {}
    <2>1. verified \subseteq 1..Len(rows) /\ Len(rows) \in Nat
        BY DEF Rows
    <2>2. IsFiniteSet(verified) /\ verified \subseteq Int
        <3>1. IsFiniteSet(1..Len(rows))
            BY <2>1, UpTo
        <3> QED BY <2>1, <3>1, FS_Subset
    <2>3. Max(verified) \in verified
        BY <1>3, <2>2, MaxIn
    <2>4. IsBookRow(latest)
        BY <2>3 DEF Rows
    <2> HIDE DEF latest
    <2> DEFINE a == Self(latest.stack, 40)
               b == Self(latest.speed, 35)
               c == Self(latest.value, 25)
    <2>5. IsPart(a) /\ IsPart(b) /\ IsPart(c)
        BY <2>4, SelfIs DEF IsBookRow
    <2> HIDE DEF a, b, c
    <2>6. IsGroup(Weighted(<<a, b, c>>))
        BY <2>5, Weighted3
    <2>7. BookOf(f, rows).score = Weighted(<<a, b, c>>).score /\ BookOf(f, rows).coverage = Weighted(<<a, b, c>>).coverage
        BY <1>3 DEF BookOf, ParseOrderbook, a, b, c, latest
    <2> QED BY <2>6, <2>7 DEF IsGroup
<1> QED BY <1>1, <1>2, <1>3

\* What the rows of brokers say of the inventory is a group.
LEMMA InventoryIs ==
    ASSUME NEW rows, IsFiniteSet(DOMAIN rows), DOMAIN rows # {}, \A k \in DOMAIN rows : IsBrokerRow(rows[k])
    PROVE  IsGroup(Inventory(rows))
<1>1. Months(rows) \in SUBSET Int /\ IsFiniteSet(Months(rows)) /\ Months(rows) # {}
    <2>1. Months(rows) \in SUBSET Int /\ Months(rows) # {}
        BY DEF Months, IsBrokerRow
    <2>2. IsFiniteSet(Months(rows))
        <3> DEFINE month == [k \in DOMAIN rows |-> rows[k].month]
        <3>1. IsFiniteSet(DOMAIN month) /\ Months(rows) = {month[k] : k \in DOMAIN month}
            BY DEF Months
        <3> HIDE DEF month
        <3> QED BY <3>1, ImageIs
    <2> QED BY <2>1, <2>2
<1>2. Cardinality(Months(rows)) \in Nat /\ Cardinality(Months(rows)) # 0
    BY <1>1, FS_CardinalityType, FS_EmptySet
<1>3. Persistence(rows) \in Int
    <2> DEFINE up == {m \in Months(rows) : MonthNet(rows, m) > 0}
    <2>1. IsFiniteSet(up)
        BY <1>1, FS_Subset
    <2>2. Cardinality(up) \in Nat
        BY <2>1, FS_CardinalityType
    <2>3. Persistence(rows) = (100 * Cardinality(up)) \div Cardinality(Months(rows))
        BY DEF Persistence
    <2> HIDE DEF up
    <2> QED BY <1>2, <2>2, <2>3
<1>4. /\ Total(Net, rows) \in Int /\ Total(Gross, rows) \in Nat /\ Total(FundNet, rows) \in Int
      /\ Total(Size, rows) \in Nat
    BY RowsAdd
<1> DEFINE fund == \E i \in DOMAIN rows : rows[i].fund
           ratio == NetRatio(rows)
           score == IF Seen(ratio) THEN Clip(50 + (5 * ratio) \div 2) ELSE NaN
           years == (Max(Months(rows)) - Min(Months(rows))) \div 12
           size == Total(Size, rows)
           bought == IF \E i \in DOMAIN rows : rows[i].buyback THEN 85 ELSE 45
           dryness == Clip((55 * Persistence(rows) + 25 * Finite(score, 50) + 20 * bought) \div 100)
           exit == IF ~(\E i \in DOMAIN rows : rows[i].retail) THEN NaN
                   ELSE IF Total(RetailNet, rows) < 0 /\ Total(SmartNet, rows) > 0 THEN 85 ELSE 50
           share == IF ~fund THEN NaN
                    ELSE Clip(50 + IF size = 0 THEN 0 ELSE (250 * Total(FundNet, rows)) \div size)
<1>5. ratio \in Int
    <2> DEFINE g == Total(Gross, rows)
               n == 100 * Total(Net, rows)
    <2>1. NetRatio(rows) = IF g = 0 THEN NaN ELSE n \div g
        BY DEF NetRatio
    <2>2. n \in Int /\ g \in Nat
        BY <1>4
    <2> HIDE DEF g, n
    <2>3. g # 0 => n \div g \in Int
        BY <2>2, PositiveSum
    <2> QED BY <2>1, <2>3 DEF NaN
<1> HIDE DEF ratio
<1>6. score \in Int
    BY <1>5, ClipIs DEF NaN
<1> HIDE DEF score
<1>7. years \in Int
    <2>1. Max(Months(rows)) \in Int /\ Min(Months(rows)) \in Int
        BY <1>1, MaxIn, MinIn
    <2> QED BY <2>1
<1> HIDE DEF years
<1>8. Finite(score, 50) \in Int /\ bought \in Int
    BY <1>6, FiniteIs
<1>9. dryness \in Int
    <2> HIDE DEF bought
    <2> QED BY <1>3, <1>8, ClipIs
<1>10. exit \in Int
    BY DEF NaN
<1>11. share \in Int
    <2> DEFINE n == 250 * Total(FundNet, rows)
    <2>1. size \in Nat /\ n \in Int
        BY <1>4
    <2> HIDE DEF size, n
    <2>2. size # 0 => n \div size \in Int
        BY <2>1, PositiveSum
    <2>3. \A x \in Int : Clip(50 + x) \in Int
        BY ClipIs
    <2>4. (IF size = 0 THEN 0 ELSE n \div size) \in Int
        BY <2>2
    <2>5. share = IF ~fund THEN NaN ELSE Clip(50 + IF size = 0 THEN 0 ELSE n \div size)
        BY DEF n
    <2> HIDE DEF share, fund
    <2> QED BY <2>3, <2>4, <2>5 DEF NaN
<1> HIDE DEF dryness, exit, share
<1> DEFINE a == Part(score, 28, 100)
           b == Part(Persistence(rows), 24, 40 + 30 * years)
           c == Self(exit, 16)
           d == Self(share, 12)
           e == Self(NaN, 12)
           g == Part(dryness, 8, 100)
<1>12. IsPart(a)
    BY <1>6, PartIs
<1>13. IsPart(b)
    BY <1>3, <1>7, PartIs
<1>14. IsPart(c) /\ IsPart(d)
    BY <1>10, <1>11, SelfIs
<1>15. IsPart(e)
    BY SelfIs DEF NaN
<1>16. IsPart(g)
    BY <1>9, PartIs
<1>17. Inventory(rows) = Weighted(<<a, b, c, d, e, g>>)
    BY DEF Inventory, ratio, score, years, dryness, exit, share
<1> HIDE DEF a, b, c, d, e, g
<1> QED BY <1>12, <1>13, <1>14, <1>15, <1>16, <1>17, Weighted6

\* Broker evidence, direct or by proxy, is a group.
LEMMA BrokerIs ==
    ASSUME NEW f, IsFeatures(f), NEW rows, Rows(rows, IsBrokerRow)
    PROVE  IsGroup(BrokerOf(f, rows)) /\ BrokerOf(f, rows).cannibalisation \in Int
<1> DEFINE verified == RestrictValues(rows, Verified)
<1>1. /\ IsFiniteSet(DOMAIN verified) /\ \A k \in DOMAIN verified : IsBrokerRow(verified[k])
    <2>1. DOMAIN verified \subseteq DOMAIN rows /\ \A k \in DOMAIN verified : verified[k] = rows[k]
        BY DEF RestrictValues, Restrict
    <2>2. IsFiniteSet(1..Len(rows)) /\ DOMAIN rows = 1..Len(rows)
        BY UpTo DEF Rows
    <2>3. IsFiniteSet(DOMAIN verified)
        BY <2>1, <2>2, FS_Subset
    <2>4. \A k \in DOMAIN rows : IsBrokerRow(rows[k])
        BY DEF Rows
    <2> HIDE DEF verified
    <2> QED BY <2>1, <2>3, <2>4
<1>2. CASE rows = <<>>
    BY <1>2, BrokerProxyIs DEF BrokerOf
<1>3. CASE rows # <<>> /\ DOMAIN verified = {}
    BY <1>3 DEF BrokerOf, ParseBroker, NoBroker, IsGroup, NaN
<1>4. CASE rows # <<>> /\ DOMAIN verified # {}
    <2>1. IsGroup(Inventory(verified))
        BY <1>1, <1>4, InventoryIs
    <2>2. /\ BrokerOf(f, rows).score = Inventory(verified).score
          /\ BrokerOf(f, rows).coverage = Inventory(verified).coverage
          /\ BrokerOf(f, rows).cannibalisation \in {0, 80, 15}
        BY <1>4 DEF BrokerOf, ParseBroker
    <2> QED BY <2>1, <2>2 DEF IsGroup
<1> QED BY <1>2, <1>3, <1>4

\* The score of a float is a number.
LEMMA FloatScoreIs == ASSUME NEW x PROVE FloatScore(x) \in Int
    BY DEF FloatScore, NaN

\* What the rows of owners say is a group.
LEMMA OwnershipIs ==
    ASSUME NEW row, IsOwnerRow(row)
    PROVE  OwnershipOf(row).score \in Int /\ OwnershipOf(row).coverage \in Nat
<1> DEFINE float == IF ~Seen(row.float) THEN NaN
                    ELSE IF row.float < Finite(row.affiliated, 0) THEN 0
                    ELSE row.float - Finite(row.affiliated, 0)
           a == Self(row.alignment, 35)
           b == Self(row.relationship, 25)
           c == Self(row.concentration, 15)
           d == Self(FloatScore(float), 15)
           e == Self(IF row.over1 THEN 80 ELSE NaN, 5)
           f == Self(IF row.insider THEN 80 ELSE NaN, 5)
           network == Weighted(<<a, b, c, d, e, f>>)
<1>1. IsPart(a) /\ IsPart(b) /\ IsPart(c)
    BY SelfIs DEF IsOwnerRow
<1>2. IsPart(d)
    BY FloatScoreIs, SelfIs
<1>3. IsPart(e)
    BY SelfIs DEF NaN
<1>4. IsPart(f)
    BY SelfIs DEF NaN
<1>5. OwnershipOf(row) = IF row.verified # "no"
        THEN [score |-> network.score, coverage |-> network.coverage, float |-> float, provenance |-> "DIRECT"]
        ELSE [score |-> NaN, coverage |-> 0, float |-> NaN, provenance |-> "UNVERIFIED"]
    BY DEF OwnershipOf
<1> HIDE DEF float, a, b, c, d, e, f
<1>6. IsGroup(network)
    BY <1>1, <1>2, <1>3, <1>4, Weighted6
<1> HIDE DEF network
<1> QED BY <1>5, <1>6 DEF IsGroup, NaN

\* The last row of a table that has one is a row of it.
LEMMA LastIs ==
    ASSUME NEW rows, Rows(rows, IsOwnerRow), rows # <<>>
    PROVE  IsOwnerRow(Last(rows))
<1>1. Len(rows) \in Nat /\ DOMAIN rows = 1..Len(rows) /\ rows = [k \in DOMAIN rows |-> rows[k]]
    BY DEF Rows
<1>2. Len(rows) # 0
    <2> SUFFICES ASSUME Len(rows) = 0 PROVE FALSE
        OBVIOUS
    <2>1. DOMAIN rows = {}
        BY <1>1
    <2>2. rows = <<>>
        BY <1>1, <2>1
    <2> QED BY <2>2
<1>3. Len(rows) \in DOMAIN rows
    BY <1>1, <1>2
<1> QED BY <1>3 DEF Rows, Last

\* The evidence on owners, from KSEI and the rows, is a group.
LEMMA OwnerIs ==
    ASSUME NEW ksei, NEW rows, Rows(rows, IsOwnerRow)
    PROVE  IsGroup(OwnerEvidence(ksei, rows))
<1> DEFINE base == IF ksei = <<>> THEN [score |-> NaN, coverage |-> 0, float |-> NaN, provenance |-> ""]
                   ELSE KseiOwnership(Head(ksei))
           merged == MergeOwnership(base, rows)
<1>1. base.score \in Int /\ base.coverage \in Nat
    <2>1. CASE ksei = <<>>
        BY <2>1 DEF NaN
    <2>2. CASE ksei # <<>>
        <3> DEFINE k == Head(ksei)
                   seen == {x \in {"shares", "local", "foreign", "scripless"} : k[x]}
        <3>1. IsFiniteSet(seen)
            <4> DEFINE f == <<"shares", "local", "foreign", "scripless">>
            <4>1. DOMAIN f = 1..4 /\ seen \subseteq {f[n] : n \in DOMAIN f}
                OBVIOUS
            <4> HIDE DEF f
            <4>2. IsFiniteSet({f[n] : n \in DOMAIN f})
                BY <4>1, UpTo, ImageIs
            <4> QED BY <4>1, <4>2, FS_Subset
        <3>2. Cardinality(seen) \in Nat
            BY <3>1, FS_CardinalityType
        <3>3. /\ KseiOwnership(k).score \in {57, NaN}
              /\ KseiOwnership(k).coverage = IF k.verified THEN (45 * Cardinality(seen)) \div 4 ELSE 0
            BY DEF KseiOwnership
        <3> HIDE DEF seen, k
        <3>4. (45 * Cardinality(seen)) \div 4 \in Nat
            BY <3>2
        <3>5. base = KseiOwnership(k)
            BY <2>2 DEF k
        <3> HIDE DEF base
        <3> QED BY <3>3, <3>4, <3>5 DEF NaN
    <2> QED BY <2>1, <2>2
<1> HIDE DEF base
<1>2. CASE rows = <<>>
    BY <1>1, <1>2 DEF OwnerEvidence, MergeOwnership, IsGroup, base
<1>3. CASE rows # <<>>
    <2> DEFINE direct == OwnershipOf(Last(rows))
    <2>1. direct.score \in Int /\ direct.coverage \in Nat
        BY <1>3, LastIs, OwnershipIs
    <2>2. DOMAIN direct = {"score", "coverage", "float", "provenance"}
        BY DEF OwnershipOf
    <2>3. merged = [direct EXCEPT !.score = Finite(@, base.score), !.coverage = Min({100, @ + base.coverage}),
                                  !.provenance = Provenance(base.provenance, @)]
        BY <1>3 DEF MergeOwnership
    <2> HIDE DEF direct
    <2>4. merged.score = Finite(direct.score, base.score) /\ merged.coverage = Min({100, direct.coverage + base.coverage})
        <3> HIDE DEF merged
        <3> QED BY <2>2, <2>3
    <2> HIDE DEF merged
    <2>5. merged.score \in Int
        BY <1>1, <2>1, <2>4 DEF Finite
    <2>6. direct.coverage + base.coverage \in Nat
        BY <1>1, <2>1
    <2>7. Min({100, direct.coverage + base.coverage}) \in Nat
        BY <2>6, MinNat
    <2> QED BY <2>4, <2>5, <2>7 DEF OwnerEvidence, IsGroup, merged, base
<1> QED BY <1>2, <1>3

\* The score of a row of the exchange is a number.
LEMMA IntegrityScoreIs == ASSUME NEW row PROVE IntegrityScore(row) \in Int
<1> DEFINE flag == Flags(row)
           Off(n, holds) == IF holds THEN n ELSE 0
           base == 100 - Off(45, flag["hsc"] = "TRUE")
                       - Off(55, flag["special"] = "TRUE" \/ flag["fca"] = "TRUE")
                       - Off(90, flag["suspended"] = "TRUE") - Off(18, flag["uma"] = "TRUE")
                       - Off(40, flag["sanctions"] = "TRUE") - Off(12, Flag(row.action, row.verified) = "TRUE")
                       - Off(45, Below(row.float, ExtremeFloat))
                       - Off(22, AtLeast(row.float, ExtremeFloat) /\ row.float < LowFloat)
           fresh == IF row.age <= 35 THEN 100 ELSE IF row.age <= StaleAfter THEN 65 ELSE 20
<1>1. base \in Int
    OBVIOUS
<1>2. fresh \in Int
    OBVIOUS
<1>3. IntegrityScore(row) = Clip(IF Seen(row.age) THEN (85 * base + 15 * fresh) \div 100 ELSE base)
    BY DEF IntegrityScore
<1> HIDE DEF base, fresh
<1> QED BY <1>1, <1>2, <1>3, ClipIs

\* A row has a natural number of fields filled in.
LEMMA FieldsAre == ASSUME NEW row PROVE FieldsPresent(row) \in Nat
<1> DEFINE flag == Flags(row)
           present == <<row.board, Seen(row.float), flag["hsc"] # "UNKNOWN",
                        flag["special"] # "UNKNOWN" \/ flag["fca"] # "UNKNOWN",
                        flag["suspended"] # "UNKNOWN", Seen(row.age), row.url>>
           found == {i \in DOMAIN present : present[i]}
<1>1. FieldsPresent(row) = Cardinality(found)
    BY DEF FieldsPresent
<1>2. DOMAIN present = 1..7
    OBVIOUS
<1> HIDE DEF present
<1>3. IsFiniteSet(found)
    BY <1>2, UpTo, FS_Subset
<1> QED BY <1>1, <1>3, FS_CardinalityType

\* The integrity evidence is a group.
LEMMA IntegrityIs ==
    ASSUME NEW ksei, NEW rows, NEW owner, NEW events
    PROVE  IsGroup(IntegrityEvidence(ksei, rows, owner, events))
<1> DEFINE profile == IF ksei = <<>> THEN NoProfile ELSE KseiIntegrity(Head(ksei))
           base == Overlay(profile, PointInTime(events))
           merged == MergeIntegrity(base, rows)
           bridged == Bridged(owner, merged)
<1>1. profile.score \in Int /\ profile.coverage \in Nat
    BY DEF NoProfile, KseiIntegrity, NaN
<1> HIDE DEF profile
<1>2. base.score \in Int /\ base.coverage \in Nat
    <2> DEFINE alerting == {k \in DOMAIN PointInTime(events) : Alerting(PointInTime(events)[k])}
               floor(x) == IF x THEN 68 ELSE 60
    <2>1. Min({72, Finite(profile.score, 72)}) \in Int
        <3>1. Finite(profile.score, 72) \in Int
            BY <1>1 DEF Finite
        <3> QED BY <3>1, MinOf2
    <2>2. Max({profile.coverage, 68}) \in Nat /\ Max({profile.coverage, 60}) \in Nat
        BY <1>1, MaxNat
    <2>3. /\ base.score \in {profile.score, 5, Min({72, Finite(profile.score, 72)})}
          /\ base.coverage \in {profile.coverage, Max({profile.coverage, 68}), Max({profile.coverage, 60})}
        BY DEF Overlay
    <2> HIDE DEF base
    <2> QED BY <1>1, <2>1, <2>2, <2>3
<1> HIDE DEF base
<1>3. merged.score \in Int /\ merged.coverage \in Nat
    <2>1. CASE rows = <<>>
        BY <1>2, <2>1 DEF MergeIntegrity
    <2>2. CASE rows # <<>>
        <3> DEFINE direct == IntegrityOf(Last(rows))
        <3>1. direct.score \in Int /\ direct.coverage \in Nat
            <4>1. IntegrityScore(Last(rows)) \in Int /\ (100 * FieldsPresent(Last(rows))) \div 7 \in Nat
                BY IntegrityScoreIs, FieldsAre
            <4> HIDE DEF IntegrityScore, FieldsPresent
            <4>2. /\ direct.score \in {IntegrityScore(Last(rows)), NaN}
                  /\ direct.coverage \in {(100 * FieldsPresent(Last(rows))) \div 7, 0}
                BY DEF IntegrityOf
            <4> HIDE DEF direct
            <4> QED BY <4>1, <4>2 DEF NaN
        <3>2. DOMAIN direct = {"score", "coverage", "hard", "state", "provenance", "unknown", "cleared", "float"}
            BY DEF IntegrityOf
        <3>3. merged = [direct EXCEPT !.score = Finite(@, base.score), !.coverage = Max({@, base.coverage}),
                            !.hard = @ \/ base.hard, !.float = Finite(@, base.float),
                            !.provenance = Provenance(base.provenance, @)]
            BY <2>2 DEF MergeIntegrity
        <3> HIDE DEF direct, merged
        <3>4. merged.score = Finite(direct.score, base.score) /\ merged.coverage = Max({direct.coverage, base.coverage})
            BY <3>2, <3>3
        <3>5. merged.score \in Int
            BY <1>2, <3>1, <3>4 DEF Finite
        <3>6. Max({direct.coverage, base.coverage}) \in Nat
            BY <1>2, <3>1, MaxNat
        <3> QED BY <3>4, <3>5, <3>6
    <2> QED BY <2>1, <2>2
<1>4. "score" \in DOMAIN merged /\ "coverage" \in DOMAIN merged
    <2>1. {"score", "coverage"} \subseteq DOMAIN profile
        BY DEF profile, NoProfile, KseiIntegrity
    <2>2. {"score", "coverage"} \subseteq DOMAIN base
        BY <2>1 DEF base, Overlay
    <2>3. {"score", "coverage"} \subseteq DOMAIN merged
        BY <2>2 DEF MergeIntegrity, IntegrityOf
    <2> QED BY <2>3
<1> HIDE DEF merged
<1>5. bridged.score \in Int /\ bridged.coverage \in Nat /\ {"score", "coverage"} \subseteq DOMAIN bridged
    <2>1. CASE ~owner.direct \/ ~Seen(owner.float) \/ owner.float > 1000
        BY <1>3, <1>4, <2>1 DEF Bridged
    <2>2. CASE ~(~owner.direct \/ ~Seen(owner.float) \/ owner.float > 1000)
        <3> DEFINE coverage == IF Seen(merged.float) THEN merged.coverage ELSE Min({100, merged.coverage + 14})
        <3>1. bridged = [merged EXCEPT !.float = Finite(@, owner.float), !.coverage = coverage,
                                       !.hard = @ \/ owner.float < ExtremeFloat]
            BY <2>2 DEF Bridged
        <3>2. coverage \in Nat
            <4>1. merged.coverage + 14 \in Nat
                BY <1>3
            <4>2. Min({100, merged.coverage + 14}) \in Nat
                BY <4>1, MinNat
            <4> QED BY <1>3, <4>2
        <3> HIDE DEF coverage, bridged
        <3> QED BY <1>3, <1>4, <3>1, <3>2
    <2> QED BY <2>1, <2>2
<1>6. IntegrityEvidence(ksei, rows, owner, events) = IF bridged.provenance = "" THEN [bridged EXCEPT !.hard = TRUE] ELSE bridged
    BY DEF IntegrityEvidence, merged, base, profile
<1> HIDE DEF bridged
<1>7. [bridged EXCEPT !.hard = TRUE].score = bridged.score /\ [bridged EXCEPT !.hard = TRUE].coverage = bridged.coverage
    BY <1>5
<1> QED BY <1>5, <1>6, <1>7 DEF IsGroup

\* The context from the index is a group.
LEMMA BenchmarkIs == ASSUME NEW x, IsIndex(x) PROVE IsGroup(FromBenchmark(x))
<1> DEFINE rise == Clip(50 + 2 * x.momentum)
           score == Clip((55 * x.trend + 25 * (100 - x.distribution) + 20 * rise) \div 100)
<1>1. x.trend \in Int /\ x.distribution \in Int /\ x.momentum \in Int
    BY DEF IsIndex
<1>2. rise \in Int
    BY <1>1, ClipIs
<1> HIDE DEF rise
<1>3. score \in Int
    BY <1>1, <1>2, ClipIs
<1>4. /\ FromBenchmark(x).score \in {score, NaN} /\ FromBenchmark(x).coverage \in {0, 100}
    BY DEF FromBenchmark, Unavailable, rise
<1> HIDE DEF score
<1> QED BY <1>3, <1>4 DEF IsGroup, NaN

\* The context from the universe is a group.
LEMMA UniverseIs == ASSUME NEW u, IsUniverse(u) PROVE IsGroup(FromUniverse(u))
<1> DEFINE rise == Clip(50 + 2 * Finite(u.momentum, 0))
           score == Clip((30 * Finite(u.breadth, 50) + 25 * Finite(u.trend, 50)
                          + 20 * (100 - Finite(u.distribution, 50)) + 15 * Finite(u.flow, 50) + 10 * rise) \div 100)
           cover == 55 + (30 * u.valid) \div 100
<1>1. /\ u.momentum \in Int /\ u.breadth \in Int /\ u.trend \in Int /\ u.distribution \in Int /\ u.flow \in Int
      /\ u.valid \in Nat
    BY DEF IsUniverse
<1>2. /\ Finite(u.momentum, 0) \in Int /\ Finite(u.breadth, 50) \in Int /\ Finite(u.trend, 50) \in Int
      /\ Finite(u.distribution, 50) \in Int /\ Finite(u.flow, 50) \in Int
    BY <1>1 DEF Finite
<1>3. rise \in Int
    BY <1>2, ClipIs
<1> HIDE DEF rise
<1>4. score \in Int
    BY <1>2, <1>3, ClipIs
<1>5. cover \in Nat
    BY <1>1
<1>6. /\ FromUniverse(u).score \in {score, NaN} /\ FromUniverse(u).coverage \in {0, Min({85, cover})}
    BY DEF FromUniverse, Unavailable, rise
<1> HIDE DEF score, cover
<1>7. Min({85, cover}) \in Nat
    BY <1>5, MinNat
<1> QED BY <1>4, <1>6, <1>7 DEF IsGroup, NaN

\* The two of them together are a group.
LEMMA BlendIs == ASSUME NEW b, IsGroup(b), NEW u, IsGroup(u) PROVE IsGroup(Blend(b, u))
<1> DEFINE score == Clip((60 * b.score + 40 * u.score) \div 100)
           cover == (60 * b.coverage + 40 * u.coverage) \div 100
<1>1. score \in Int /\ cover \in Nat
    BY ClipIs DEF IsGroup
<1>2. \/ Blend(b, u) = u \/ Blend(b, u) = b
      \/ Blend(b, u).score = score /\ Blend(b, u).coverage = Min({100, cover})
    BY DEF Blend
<1> HIDE DEF score, cover
<1>3. Min({100, cover}) \in Nat
    BY <1>1, MinNat
<1> QED BY <1>1, <1>2, <1>3 DEF IsGroup

\* The market of a scan is a group.
LEMMA MarketIs == ASSUME case \in Cases PROVE IsGroup(Market)
<1>1. {"index", "universe"} \subseteq ScanBlocks
    BY DEF ScanBlocks
<1>2. IsIndex(Common("index"))
    BY <1>1, CommonIs, DecisionsAssumption
<1>3. IsUniverse(Common("universe"))
    BY <1>1, CommonIs, DecisionsAssumption
<1> QED BY <1>2, <1>3, BenchmarkIs, UniverseIs, BlendIs DEF Market

\* The context of a sector is a group.
LEMMA SectorIs ==
    ASSUME NEW sectors, NEW s \in DOMAIN sectors, IsSector(sectors[s])
    PROVE  IsGroup(SectorContext(sectors, s))
<1> DEFINE here == sectors[s]
           strong == Clip(50 + (3 * Finite(here.strength, 0)) \div 2)
           rise == Clip(50 + 2 * Finite(here.momentum, 0))
           score == Clip((30 * Finite(here.breadth, 50) + 25 * strong + 20 * rise + 25 * Finite(here.flow, 50)) \div 100)
           seen == {m \in {"breadth", "strength", "momentum", "flow"} : Seen(here[m])}
           cover == (Min({100, 25 * here.members}) * Cardinality(seen)) \div 4
<1>1. /\ here.breadth \in Int /\ here.strength \in Int /\ here.momentum \in Int /\ here.flow \in Int
      /\ here.members \in Nat
    BY DEF IsSector
<1> HIDE DEF here
<1>2. /\ Finite(here.strength, 0) \in Int /\ Finite(here.momentum, 0) \in Int
      /\ Finite(here.breadth, 50) \in Int /\ Finite(here.flow, 50) \in Int
    BY <1>1 DEF Finite
<1>3. strong \in Int /\ rise \in Int
    BY <1>2, ClipIs
<1> HIDE DEF strong, rise
<1>4. score \in Int
    BY <1>2, <1>3, ClipIs
<1>5. Cardinality(seen) \in Nat
    <2> DEFINE f == <<"breadth", "strength", "momentum", "flow">>
    <2>1. DOMAIN f = 1..4 /\ seen \subseteq {f[n] : n \in DOMAIN f}
        OBVIOUS
    <2> HIDE DEF f, seen
    <2>2. IsFiniteSet({f[n] : n \in DOMAIN f})
        BY <2>1, UpTo, ImageIs
    <2> QED BY <2>1, <2>2, FS_Subset, FS_CardinalityType
<1> HIDE DEF seen
<1>6. 25 * here.members \in Nat
    BY <1>1
<1>7. Min({100, 25 * here.members}) \in Nat
    BY <1>6, MinNat
<1>8. cover \in Int
    <2> DEFINE m == Min({100, 25 * here.members})
               c == Cardinality(seen)
    <2>1. m \in Nat /\ c \in Nat
        BY <1>5, <1>7
    <2> HIDE DEF m, c
    <2>2. m * c \in Nat
        BY <2>1
    <2>3. (m * c) \div 4 \in Int
        BY <2>2
    <2> QED BY <2>3 DEF m, c
<1>9. SectorContext(sectors, s).score = score /\ SectorContext(sectors, s).coverage = Clip(cover)
    BY DEF SectorContext, here, strong, rise, seen
<1> HIDE DEF score, cover
<1>10. Clip(cover) \in Nat
    BY <1>8, ClipIs
<1> QED BY <1>4, <1>9, <1>10 DEF IsGroup

\* The rank of one of the best five stories is at most their number.
LEMMA RankIs ==
    ASSUME NEW stories, IsFiniteSet(DOMAIN stories), DOMAIN stories \subseteq Nat,
           \A k \in DOMAIN stories : stories[k].score \in Int,
           NEW k \in DOMAIN stories, Rank(stories, k) <= 5
    PROVE  LET top == {n \in DOMAIN stories : Rank(stories, n) <= 5}
           IN Rank(stories, k) \in 1..Cardinality(top) /\ Cardinality(top) \in Nat
<1> DEFINE top == {n \in DOMAIN stories : Rank(stories, n) <= 5}
           over(n) == {m \in DOMAIN stories : Better(stories, m, n)}
<1>1. \A n \in DOMAIN stories : IsFiniteSet(over(n)) /\ Rank(stories, n) = 1 + Cardinality(over(n))
    BY FS_Subset DEF Rank
<1>2. \A n \in DOMAIN stories : Cardinality(over(n)) \in Nat
    BY <1>1, FS_CardinalityType
<1>3. k \notin over(k)
    BY DEF Better
<1>4. ASSUME NEW m \in over(k) PROVE m \in top
    <2>1. over(m) \subseteq over(k)
        BY <1>4 DEF Better
    <2>2. Cardinality(over(m)) <= Cardinality(over(k))
        BY <1>1, <2>1, FS_Subset
    <2> HIDE DEF over
    <2>3. m \in DOMAIN stories
        BY <1>4 DEF over
    <2> QED BY <1>1, <1>2, <2>2, <2>3
<1>5. IsFiniteSet(top) /\ k \in top
    BY FS_Subset
<1> HIDE DEF top, over
<1>6. over(k) \cup {k} \subseteq top
    BY <1>4, <1>5
<1>7. Cardinality(over(k) \cup {k}) = Cardinality(over(k)) + 1
    BY <1>1, <1>3, FS_AddElement
<1>8. Cardinality(over(k)) + 1 <= Cardinality(top)
    BY <1>5, <1>6, <1>7, FS_Subset
<1>9. Cardinality(top) \in Nat
    BY <1>5, FS_CardinalityType
<1>10. Rank(stories, k) \in 1..Cardinality(top)
    BY <1>1, <1>2, <1>8, <1>9
<1> QED BY <1>9, <1>10 DEF top

\* A table of events.
IsTable(events) ==
    IsFiniteSet(DOMAIN events) /\ DOMAIN events \subseteq Nat /\ \A k \in DOMAIN events : IsEvent(events[k])

\* A part of a table of events is one.
LEMMA PartOfTable ==
    ASSUME NEW all, IsTable(all), NEW some, DOMAIN some \subseteq DOMAIN all,
           \A k \in DOMAIN some : some[k] = all[k]
    PROVE  IsTable(some)
<1>1. IsFiniteSet(DOMAIN some)
    BY FS_Subset DEF IsTable
<1> QED BY <1>1 DEF IsTable

\* A part of a finite set has a natural number of members.
LEMMA CountIs == ASSUME NEW S, IsFiniteSet(S), NEW T, T \subseteq S PROVE Cardinality(T) \in Nat
    BY FS_Subset, FS_CardinalityType

\* The weight of a story among the best five is a natural number.
LEMMA RankWeightIs == ASSUME NEW n \in Nat, NEW i \in 1..n, i <= 5 PROVE RankWeight(i, n) \in Nat
<1>1. CASE n = 1
    BY <1>1 DEF RankWeight
<1>2. CASE n # 1
    <2>1. (45 * (i - 1)) \div (n - 1) <= 45 /\ (45 * (i - 1)) \div (n - 1) \in Int
        <3>1. n - 1 \in Nat /\ n - 1 >= 1 /\ 45 * (i - 1) \in Nat /\ 45 * (i - 1) <= 45 * (n - 1)
            BY <1>2
        <3> DEFINE a == 45 * (i - 1)
                   b == n - 1
        <3>2. a \in Nat /\ b \in Nat /\ b >= 1 /\ a <= 45 * b
            BY <3>1
        <3> HIDE DEF a, b
        <3>3. a \div b <= 45 /\ a \div b \in Int
            BY <3>2
        <3> QED BY <3>3 DEF a, b
    <2>2. RankWeight(i, n) = 100 - (45 * (i - 1)) \div (n - 1)
        BY <1>2 DEF RankWeight
    <2> DEFINE x == (45 * (i - 1)) \div (n - 1)
    <2> HIDE DEF x
    <2> QED BY <2>1, <2>2 DEF x
<1> QED BY <1>1, <1>2

\* What a narrative says in numbers.
IsStory(s) == s.score \in Int /\ s.bridge \in Int /\ s.reach \in Int /\ s.coverage \in Nat

\* A narrative of at least one story.
LEMMA ToldIs ==
    ASSUME NEW scored, NEW stories, IsTable(stories)
    PROVE  IsStory(Told(scored, stories))
<1> DEFINE top == RestrictDomain(stories, LAMBDA n : Rank(stories, n) <= 5)
           best == {n \in DOMAIN stories : Rank(stories, n) <= 5}
           means(field) == [n \in DOMAIN top |-> Part(top[n][field], 1, 0)]
           scores == [n \in DOMAIN top |-> Part(top[n].score, RankWeight(Rank(stories, n), Number(top)), 0)]
           publishers == Cardinality({stories[i].publisher : i \in DOMAIN stories})
           official == Count(stories, Official)
           verified == Count(stories, EvidenceVerified)
           cover == 10 * Min({5, Number(stories)}) + 8 * Min({3, publishers}) + 14 * Min({2, official})
                    + 8 * Min({2, verified})
<1>1. DOMAIN top = best /\ \A n \in best : top[n] = stories[n]
    BY DEF RestrictDomain, Restrict
<1> HIDE DEF top
<1>2. IsFiniteSet(best)
    BY FS_Subset DEF IsTable
<1>3. \A n \in DOMAIN stories : /\ stories[n].score \in Int /\ stories[n].bridge \in Int /\ stories[n].reach \in Int
    BY DEF IsTable, IsEvent
<1>4. \A n \in best : RankWeight(Rank(stories, n), Number(top)) \in Nat
    <2> TAKE n \in best
    <2>1. IsFiniteSet(DOMAIN stories) /\ DOMAIN stories \subseteq Nat /\ n \in DOMAIN stories /\ Rank(stories, n) <= 5
        BY DEF IsTable
    <2>2. Rank(stories, n) \in 1..Cardinality(best) /\ Cardinality(best) \in Nat
        BY <1>3, <2>1, RankIs
    <2>3. Number(top) = Cardinality(best)
        BY <1>1 DEF Number
    <2> HIDE DEF best
    <2> QED BY <2>1, <2>2, <2>3, RankWeightIs
<1>5. IsGroup(Weighted(means("bridge")))
    <2> DEFINE m == means("bridge")
    <2>1. DOMAIN m = best /\ \A n \in best : m[n] = Part(stories[n].bridge, 1, 0)
        BY <1>1
    <2>2. \A n \in best : IsPart(m[n])
        BY <1>3, <2>1, PartIs
    <2> HIDE DEF m
    <2> QED BY <1>2, <2>1, <2>2, WeightedIs DEF m
<1>6. IsGroup(Weighted(means("reach")))
    <2> DEFINE m == means("reach")
    <2>1. DOMAIN m = best /\ \A n \in best : m[n] = Part(stories[n].reach, 1, 0)
        BY <1>1
    <2>2. \A n \in best : IsPart(m[n])
        BY <1>3, <2>1, PartIs
    <2> HIDE DEF m
    <2> QED BY <1>2, <2>1, <2>2, WeightedIs DEF m
<1>7. IsGroup(Weighted(scores))
    <2>1. DOMAIN scores = best
          /\ \A n \in best : scores[n] = Part(stories[n].score, RankWeight(Rank(stories, n), Number(top)), 0)
        BY <1>1
    <2>2. \A n \in best : IsPart(scores[n])
        BY <1>3, <1>4, <2>1, PartIs
    <2> HIDE DEF scores
    <2> QED BY <1>2, <2>1, <2>2, WeightedIs
<1>8. cover \in Int
    <2>1. Number(stories) \in Nat
        BY FS_CardinalityType DEF Number, IsTable
    <2>2. publishers \in Nat
        <3> DEFINE f == [i \in DOMAIN stories |-> stories[i].publisher]
        <3>1. IsFiniteSet(DOMAIN f) /\ {stories[i].publisher : i \in DOMAIN stories} = {f[i] : i \in DOMAIN f}
            BY DEF IsTable
        <3> HIDE DEF f
        <3> QED BY <3>1, ImageIs, FS_CardinalityType
    <2>3. official \in Nat
        <3>1. official = Cardinality({k \in DOMAIN stories : Official(stories[k])})
            BY DEF Count, Number, RestrictValues, Restrict
        <3> QED BY <3>1, CountIs DEF IsTable
    <2>4. verified \in Nat
        <3>1. verified = Cardinality({k \in DOMAIN stories : EvidenceVerified(stories[k])})
            BY DEF Count, Number, RestrictValues, Restrict
        <3> QED BY <3>1, CountIs DEF IsTable
    <2> HIDE DEF publishers, official, verified
    <2>5. Min({5, Number(stories)}) \in Nat
        BY <2>1, MinNat
    <2>6. Min({3, publishers}) \in Nat
        BY <2>2, MinNat
    <2>7. Min({2, official}) \in Nat
        BY <2>3, MinNat
    <2>8. Min({2, verified}) \in Nat
        BY <2>4, MinNat
    <2> QED BY <2>5, <2>6, <2>7, <2>8
<1>9. /\ Told(scored, stories).score = Weighted(scores).score
      /\ Told(scored, stories).bridge = Weighted(means("bridge")).score
      /\ Told(scored, stories).reach = Weighted(means("reach")).score
      /\ Told(scored, stories).coverage = Clip(cover)
    BY DEF Told, top
<1> HIDE DEF means, scores, cover
<1>10. Clip(cover) \in Nat
    BY <1>8, ClipIs
<1> QED BY <1>5, <1>6, <1>7, <1>9, <1>10 DEF IsStory, IsGroup

\* Any narrative.
LEMMA NarrativeIs == ASSUME NEW events, IsTable(events) PROVE IsStory(Narrative(events))
<1> DEFINE scored == RestrictValues(events, Eligible)
           stories == Stories(scored)
<1>1. DOMAIN scored \subseteq DOMAIN events /\ \A k \in DOMAIN scored : scored[k] = events[k]
    BY DEF RestrictValues, Restrict
<1> HIDE DEF scored
<1>2. DOMAIN stories \subseteq DOMAIN scored /\ \A k \in DOMAIN stories : stories[k] = scored[k]
    BY DEF Stories, RestrictDomain, Restrict
<1> HIDE DEF stories
<1>3. IsTable(scored)
    BY <1>1, PartOfTable
<1>4. IsTable(stories)
    BY <1>2, <1>3, PartOfTable
<1>5. IsStory(Told(scored, stories)) /\ IsStory(NoStory)
    BY <1>4, ToldIs DEF IsStory, NoStory, NaN
<1>6. Narrative(events) = IF DOMAIN scored = {} THEN NoStory ELSE Told(scored, stories)
    BY DEF Narrative, scored, stories
<1> QED BY <1>5, <1>6

\* The narrative of an issuer, from what was public when it was decided.
LEMMA StoryIs ==
    ASSUME NEW deep, NEW events, Rows(events, IsEvent)
    PROVE  IsStory(Narrative(IF deep THEN PointInTime(events) ELSE <<>>))
<1>1. IsTable(events)
    <2>1. Len(events) \in Nat /\ DOMAIN events = 1..Len(events) /\ \A k \in DOMAIN events : IsEvent(events[k])
        BY DEF Rows
    <2>2. IsFiniteSet(1..Len(events))
        BY <2>1, UpTo
    <2> QED BY <2>1, <2>2 DEF IsTable
<1>2. IsTable(PointInTime(events))
    BY <1>1, PointInTimeOf, PartOfTable
<1>3. IsTable(<<>>)
    BY FS_EmptySet DEF IsTable
<1> QED BY <1>2, <1>3, NarrativeIs

\* The evidence of an issuer, in numbers.
IsFull(d) ==
    /\ IsFeatures(d.features) /\ IsFund(d.fund) /\ IsBusiness(d.business) /\ IsStory(d.story)
    /\ IsGroup(d.broker) /\ d.broker.cannibalisation \in Int
    /\ IsGroup(d.owner) /\ IsGroup(d.book) /\ IsGroup(d.integrity) /\ IsGroup(d.market) /\ IsGroup(d.sector)

\* The evidence of every issuer of the scan is numbers.
LEMMA FullEvidence == ASSUME case \in Cases, NEW i \in Issuers PROVE IsFull(Evidence(i))
<1> DEFINE d == Evidence(i)
           f == Held(i, "features")
<1>1. IsFeatures(f)
    <2>1. "features" \in IssuerBlocks
        BY DEF IssuerBlocks
    <2> QED BY <2>1, HeldIs, DecisionsAssumption
<1>2. IsFund(Held(i, "fund"))
    <2>1. "fund" \in IssuerBlocks
        BY DEF IssuerBlocks
    <2> QED BY <2>1, HeldIs, DecisionsAssumption
<1>3. IsBusiness(Held(i, "business"))
    <2>1. "business" \in IssuerBlocks
        BY DEF IssuerBlocks
    <2> QED BY <2>1, HeldIs, DecisionsAssumption
<1>4. Rows(Held(i, "events"), IsEvent)
    <2>1. "events" \in IssuerBlocks
        BY DEF IssuerBlocks
    <2> QED BY <2>1, HeldIs, DecisionsAssumption
<1>5. Rows(Held(i, "ownerRows"), IsOwnerRow)
    <2>1. "ownerRows" \in IssuerBlocks
        BY DEF IssuerBlocks
    <2> QED BY <2>1, HeldIs, DecisionsAssumption
<1>6. Rows(Held(i, "bookRows"), IsBookRow)
    <2>1. "bookRows" \in IssuerBlocks
        BY DEF IssuerBlocks
    <2> QED BY <2>1, HeldIs, DecisionsAssumption
<1>7. Rows(Held(i, "brokerRows"), IsBrokerRow)
    <2>1. "brokerRows" \in IssuerBlocks
        BY DEF IssuerBlocks
    <2> QED BY <2>1, HeldIs, DecisionsAssumption
<1>8. f.sector \in DOMAIN Common("sectors") /\ IsSector(Common("sectors")[f.sector])
    <2>1. f.sector \in DOMAIN Common("sectors")
        BY DecisionsAssumption DEF Held, Common
    <2>2. "sectors" \in ScanBlocks
        BY DEF ScanBlocks
    <2>3. Common("sectors") \in Known("sectors")
        BY <2>2, CommonIs
    <2> QED BY <2>1, <2>3, DecisionsAssumption
<1>9. /\ d.features = f /\ d.fund = Held(i, "fund") /\ d.business = Held(i, "business")
      /\ d.story = Narrative(IF Held(i, "deep") THEN PointInTime(Held(i, "events")) ELSE <<>>)
      /\ d.broker = BrokerOf(f, Held(i, "brokerRows")) /\ d.owner = Owner(i)
      /\ d.book = BookOf(f, Held(i, "bookRows")) /\ d.integrity = Integrity(i)
      /\ d.market = Market /\ d.sector = SectorContext(Common("sectors"), f.sector)
    BY DEF Evidence
<1> HIDE DEF d, f
<1>10. IsStory(d.story)
    BY <1>4, <1>9, StoryIs
<1>11. IsGroup(d.broker) /\ d.broker.cannibalisation \in Int
    BY <1>1, <1>7, <1>9, BrokerIs
<1>12. IsGroup(d.owner)
    BY <1>5, <1>9, OwnerIs DEF Owner
<1>13. IsGroup(d.book)
    BY <1>1, <1>6, <1>9, BookIs
<1>14. IsGroup(d.integrity)
    BY <1>9, IntegrityIs DEF Integrity
<1>15. IsGroup(d.market)
    BY <1>9, MarketIs
<1>16. IsGroup(d.sector)
    BY <1>8, <1>9, SectorIs
<1>17. IsFeatures(d.features) /\ IsFund(d.fund) /\ IsBusiness(d.business)
    BY <1>1, <1>2, <1>3, <1>9
<1> QED BY <1>10, <1>11, <1>12, <1>13, <1>14, <1>15, <1>16, <1>17 DEF IsFull, d

\* The flow behind a lifecycle is a group.
LEMMA FlowIs == ASSUME NEW d, IsFull(d) PROVE IsGroup(Flow(d))
<1>1. d.features.smart \in Int /\ d.features.smartCoverage \in Nat /\ d.broker.score \in Int /\ d.broker.coverage \in Nat
    BY DEF IsFull, IsFeatures, IsGroup, Percent, NaN
<1> DEFINE a == Part(d.features.smart, 60, d.features.smartCoverage)
           b == Part(d.broker.score, 40, d.broker.coverage)
<1>2. IsPart(a) /\ IsPart(b)
    <2>1. d.features.smartCoverage \in Int /\ d.broker.coverage \in Int
        BY <1>1
    <2> QED BY <1>1, <2>1 DEF IsPart, Part
<1> HIDE DEF a, b
<1>3. IsGroup(Weighted(<<a, b>>))
    BY <1>2, Weighted2
<1>4. (60 * d.features.smartCoverage) \div 100 \in Nat
    BY <1>1
<1>5. \/ Flow(d) = Weighted(<<a, b>>)
      \/ Flow(d).score = d.features.smart /\ Flow(d).coverage = (60 * d.features.smartCoverage) \div 100
    BY DEF Flow, a, b
<1> QED BY <1>1, <1>3, <1>4, <1>5 DEF IsGroup

\* The score of the turnover is a natural number, whatever the turnover.
LEMMA LiquidIs == ASSUME NEW x PROVE LiquidityScore(x) \in Nat
    BY DEF LiquidityScore

\* The mean of the eleven components of the conviction is a number.
LEMMA ComponentsAre == ASSUME NEW d, IsFull(d) PROVE Weighted(Components(d)).score \in Int
<1>1. /\ IsFeatures(d.features) /\ IsFund(d.fund) /\ IsStory(d.story) /\ IsGroup(d.broker) /\ IsGroup(d.owner)
      /\ IsGroup(d.book) /\ IsGroup(d.integrity) /\ IsGroup(d.market) /\ IsGroup(d.sector)
    BY DEF IsFull
<1> DEFINE story == Weighted(<<Part(d.story.score, 40, d.story.coverage), Part(d.story.reach, 60, d.story.coverage)>>)
           owner == Weighted(<<Part(d.story.reach, 55, d.story.coverage), Part(d.owner.score, 45, d.owner.coverage)>>)
           context == Weighted(<<Part(d.sector.score, 65, d.sector.coverage), Part(d.market.score, 35, d.market.coverage)>>)
           float == IF d.owner.float \in 100..350 THEN 80 ELSE IF d.owner.float \in 50..500 THEN 55 ELSE NaN
           liquid == Weighted(<<Self(LiquidityScore(d.features.adtv), 65),
                                Part(float, 35, IF Seen(float) THEN d.owner.coverage ELSE 0)>>)
<1>2. IsGroup(story)
    <2>1. d.story.score \in Int /\ d.story.reach \in Int /\ d.story.coverage \in Int
        BY <1>1 DEF IsStory
    <2>2. IsPart(Part(d.story.score, 40, d.story.coverage)) /\ IsPart(Part(d.story.reach, 60, d.story.coverage))
        BY <2>1 DEF IsPart, Part
    <2> QED BY <2>2, Weighted2
<1>3. IsGroup(owner)
    <2>1. d.owner.score \in Int /\ d.story.reach \in Int /\ d.story.coverage \in Int /\ d.owner.coverage \in Int
        BY <1>1 DEF IsStory, IsGroup
    <2>2. IsPart(Part(d.story.reach, 55, d.story.coverage)) /\ IsPart(Part(d.owner.score, 45, d.owner.coverage))
        BY <2>1 DEF IsPart, Part
    <2> QED BY <2>2, Weighted2
<1>4. IsGroup(context)
    <2>1. d.sector.score \in Int /\ d.sector.coverage \in Int /\ d.market.score \in Int /\ d.market.coverage \in Int
        BY <1>1 DEF IsGroup
    <2>2. IsPart(Part(d.sector.score, 65, d.sector.coverage)) /\ IsPart(Part(d.market.score, 35, d.market.coverage))
        BY <2>1 DEF IsPart, Part
    <2> QED BY <2>2, Weighted2
<1>5. IsGroup(liquid)
    <2>1. LiquidityScore(d.features.adtv) \in Int /\ float \in Int
        BY LiquidIs DEF NaN
    <2>2. (IF Seen(float) THEN d.owner.coverage ELSE 0) \in Int
        BY <1>1 DEF IsGroup
    <2> HIDE DEF float
    <2>3. IsPart(Self(LiquidityScore(d.features.adtv), 65))
        BY <2>1, SelfIs
    <2>4. IsPart(Part(float, 35, IF Seen(float) THEN d.owner.coverage ELSE 0))
        BY <2>1, <2>2 DEF IsPart, Part
    <2> QED BY <2>3, <2>4, Weighted2
<1> HIDE DEF story, owner, context, liquid
<1> DEFINE Group(g, weight) == Part(g.score, weight, g.coverage)
           p1 == Group(Flow(d), 18)
           p2 == Part(d.fund.conversion, 16, d.fund.coverage)
           p3 == Group(story, 14)
           p4 == Self(d.features.geometry, 13)
           p5 == Group(context, 10)
           p6 == Part(d.story.bridge, 8, IF Seen(d.story.bridge) THEN d.story.coverage ELSE 0)
           p7 == Group(owner, 7)
           p8 == Group(d.integrity, 5)
           p9 == Group(d.book, 4)
           p10 == Self(d.features.trend, 3)
           p11 == Group(liquid, 2)
<1>6. \A g, w : IsGroup(g) /\ w \in Nat => IsPart(Group(g, w))
    BY PartIs DEF IsGroup
<1>7. IsPart(p1)
    BY <1>6, FlowIs
<1>8. IsPart(p2)
    <2>1. d.fund.conversion \in Int
        BY <1>1 DEF IsFund
    <2>2. d.fund.coverage \in Nat
        BY <1>1 DEF IsFund
    <2>3. d.fund.coverage \in Int
        BY <2>2
    <2> QED BY <2>1, <2>3 DEF IsPart, Part
<1>9. IsPart(p3) /\ IsPart(p5) /\ IsPart(p7) /\ IsPart(p11)
    BY <1>2, <1>3, <1>4, <1>5, <1>6
<1>10. IsPart(p8) /\ IsPart(p9)
    BY <1>1, <1>6
<1>11. IsPart(p4) /\ IsPart(p10)
    BY <1>1, SelfIs DEF IsFeatures
<1>12. IsPart(p6)
    <2>1. d.story.bridge \in Int /\ (IF Seen(d.story.bridge) THEN d.story.coverage ELSE 0) \in Int
        BY <1>1 DEF IsStory
    <2> QED BY <2>1 DEF IsPart, Part
<1>13. Components(d) = <<p1, p2, p3, p4, p5, p6, p7, p8, p9, p10, p11>>
    BY DEF Components, story, owner, context, liquid
<1> HIDE DEF p1, p2, p3, p4, p5, p6, p7, p8, p9, p10, p11
<1>14. IsGroup(Weighted(<<p1, p2, p3, p4, p5, p6, p7, p8, p9, p10, p11>>))
    BY <1>7, <1>8, <1>9, <1>10, <1>11, <1>12, Weighted11
<1> QED BY <1>13, <1>14 DEF IsGroup

\* The conviction is a whole percent, or missing.
LEMMA ConvictionIs == ASSUME NEW d, IsFull(d) PROVE Conviction(d) \in Percent
<1>1. Weighted(Components(d)).score \in Int
    BY ComponentsAre
<1>2. /\ d.features.distribution \in Int /\ d.features.crowding \in Int /\ d.features.friction \in Int
      /\ d.broker.cannibalisation \in Int
    BY DEF IsFull, IsFeatures
<1>3. Penalty(d) \in Int
    <2> DEFINE sold == IF BrokerSells(d) THEN Distribution(d) ELSE 0
               crowded == Max({0, d.features.crowding - 55})
               rough == Max({0, d.features.friction - 45})
               bad == IF d.story.state = "CONTRADICTED_OR_NEGATIVE" THEN 1200 ELSE 0
               copied == d.broker.cannibalisation
    <2>1. Max({d.features.distribution, 70}) \in Int
        BY <1>2, MaxInt
    <2>2. sold \in Int
        BY <1>2, <2>1 DEF Distribution
    <2>3. d.features.crowding - 55 \in Int /\ d.features.friction - 45 \in Int
        BY <1>2
    <2>4. crowded \in Int /\ rough \in Int
        BY <2>3, MaxInt
    <2>5. bad \in Int /\ copied \in Int
        BY <1>2
    <2>6. Penalty(d) = (18 * sold + 13 * crowded + 8 * copied + 6 * rough + bad) \div 100
        BY DEF Penalty
    <2> HIDE DEF sold, crowded, rough, bad, copied
    <2> QED BY <2>2, <2>4, <2>5, <2>6
<1> DEFINE raw == Weighted(Components(d)).score
           penalty == Penalty(d)
<1>4. raw \in Int /\ penalty \in Int
    BY <1>1, <1>3
<1>5. Conviction(d) = IF Seen(raw) THEN Clip(raw - penalty) ELSE NaN
    BY DEF Conviction, Less
<1> HIDE DEF raw, penalty
<1>6. Clip(raw - penalty) \in 0..100
    BY <1>4, ClipIs
<1> QED BY <1>5, <1>6 DEF Percent

IsHistory(h) == 1..Expected \subseteq DOMAIN h /\ \A k \in 1..Expected : IsSession(h[k])

\* The last sessions of a history are sessions.
LEMMA SessionsAre ==
    ASSUME NEW h, IsHistory(h), NEW n \in {5, 20}
    PROVE  /\ IsFiniteSet(Reported(h, n)) /\ IsFiniteSet(NetIn(h, n))
           /\ NetIn(h, n) \subseteq Reported(h, n)
           /\ \A k \in Reported(h, n) : IsSession(h[k])
<1>1. Reported(h, n) \subseteq 1..n /\ NetIn(h, n) \subseteq Reported(h, n)
    BY DEF Reported, NetIn
<1>2. n \in Nat /\ 1..n \subseteq 1..20
    OBVIOUS
<1>3. IsFiniteSet(1..n)
    BY <1>2, UpTo
<1>4. IsFiniteSet(Reported(h, n))
    BY <1>1, <1>3, FS_Subset
<1>5. IsFiniteSet(NetIn(h, n))
    BY <1>1, <1>4, FS_Subset
<1>6. \A k \in 1..20 : IsSession(h[k])
    BY DEF IsHistory, Expected
<1> QED BY <1>1, <1>2, <1>4, <1>5, <1>6

\* The volume of the last n sessions.
LEMMA VolumeIs ==
    ASSUME NEW h, IsHistory(h), NEW n \in {5, 20}
    PROVE  SumFunction([i \in Reported(h, n) |-> h[i].volume]) \in Nat
<1> DEFINE f == [i \in Reported(h, n) |-> h[i].volume]
<1>1. IsFiniteSet(DOMAIN f) /\ \A i \in DOMAIN f : f[i] \in Nat
    BY SessionsAre DEF IsSession
<1> HIDE DEF f
<1>2. SumFunction(f) \in Nat
    BY <1>1, SumNat
<1> QED BY <1>2 DEF f

\* Their net foreign buying.
LEMMA NetIs ==
    ASSUME NEW h, IsHistory(h), NEW n \in {5, 20}
    PROVE  SumFunction([i \in NetIn(h, n) |-> h[i].net]) \in Int
<1> DEFINE f == [i \in NetIn(h, n) |-> h[i].net]
<1>1. IsFiniteSet(DOMAIN f) /\ \A i \in DOMAIN f : f[i] \in Int
    BY SessionsAre DEF IsSession
<1> HIDE DEF f
<1>2. SumFunction(f) \in Int
    BY <1>1, SumInt
<1> QED BY <1>2 DEF f

\* What foreigners bought in them.
LEMMA BoughtIs ==
    ASSUME NEW h, IsHistory(h), NEW n \in {5, 20}
    PROVE  SumFunction([i \in Reported(h, n) |-> h[i].buy]) \in Nat
<1> DEFINE f == [i \in Reported(h, n) |-> h[i].buy]
<1>1. IsFiniteSet(DOMAIN f) /\ \A i \in DOMAIN f : f[i] \in Nat
    BY SessionsAre DEF IsSession
<1> HIDE DEF f
<1>2. SumFunction(f) \in Nat
    BY <1>1, SumNat
<1> QED BY <1>2 DEF f

\* What foreigners sold in them.
LEMMA SoldIs ==
    ASSUME NEW h, IsHistory(h), NEW n \in {5, 20}
    PROVE  SumFunction([i \in Reported(h, n) |-> h[i].sell]) \in Nat
<1> DEFINE f == [i \in Reported(h, n) |-> h[i].sell]
<1>1. IsFiniteSet(DOMAIN f) /\ \A i \in DOMAIN f : f[i] \in Nat
    BY SessionsAre DEF IsSession
<1> HIDE DEF f
<1>2. SumFunction(f) \in Nat
    BY <1>1, SumNat
<1> QED BY <1>2 DEF f

\* The share of foreigners in a window.
LEMMA ParticipationIs == ASSUME NEW h, IsHistory(h), NEW n \in {5, 20} PROVE Participation(h, n) \in Int
<1> DEFINE volume == SumFunction([i \in Reported(h, n) |-> h[i].volume])
           net == SumFunction([i \in NetIn(h, n) |-> h[i].net])
<1>1. volume \in Nat /\ net \in Int
    BY VolumeIs, NetIs
<1>2. Participation(h, n) = IF volume = 0 \/ NetIn(h, n) = {} THEN NaN ELSE (1000 * net) \div volume
    BY DEF Participation, SumOver
<1> HIDE DEF volume, net
<1>3. 1000 * net \in Int
    BY <1>1
<1>4. volume # 0 => (1000 * net) \div volume \in Int
    BY <1>1, <1>3, PositiveSum
<1> QED BY <1>2, <1>4 DEF NaN

\* The share of days with net buying.
LEMMA PositiveDaysAre == ASSUME NEW h, IsHistory(h), NEW n \in {5, 20} PROVE PositiveDays(h, n) \in Int
<1> DEFINE up == {i \in NetIn(h, n) : h[i].net > 0}
           all == Reported(h, n)
<1>1. IsFiniteSet(all) /\ IsFiniteSet(NetIn(h, n)) /\ NetIn(h, n) \subseteq all
    BY SessionsAre
<1>2. Cardinality(up) \in Nat /\ Cardinality(all) \in Nat
    BY <1>1, CountIs
<1>3. NetIn(h, n) # {} => Cardinality(all) # 0
    BY <1>1, FS_EmptySet
<1>4. PositiveDays(h, n) = IF NetIn(h, n) = {} THEN NaN ELSE (100 * Cardinality(up)) \div Cardinality(all)
    BY DEF PositiveDays
<1> HIDE DEF up, all
<1>5. 100 * Cardinality(up) \in Int
    BY <1>2
<1>6. Cardinality(all) # 0 => (100 * Cardinality(up)) \div Cardinality(all) \in Int
    BY <1>2, <1>5, PositiveSum
<1> QED BY <1>3, <1>4, <1>6 DEF NaN

\* The share of buying in foreign trade.
LEMMA BuyRatioIs == ASSUME NEW h, IsHistory(h), NEW n \in {5, 20} PROVE BuyRatio(h, n) \in Int
<1> DEFINE buy == SumFunction([i \in Reported(h, n) |-> h[i].buy])
           sell == SumFunction([i \in Reported(h, n) |-> h[i].sell])
<1>1. buy \in Nat /\ sell \in Nat
    BY BoughtIs, SoldIs
<1>2. BuyRatio(h, n) = IF buy + sell = 0 THEN NaN ELSE (100 * buy) \div (buy + sell)
    BY DEF BuyRatio, SumOver
<1> HIDE DEF buy, sell
<1>3. 100 * buy \in Int /\ buy + sell \in Nat
    BY <1>1
<1>4. buy + sell # 0 => (100 * buy) \div (buy + sell) \in Int
    BY <1>3, PositiveSum
<1> QED BY <1>2, <1>4 DEF NaN

\* The standing of an issuer among the others.
LEMMA CrossSectionIs ==
    ASSUME NEW values, IsFiniteSet(DOMAIN values), NEW t
    PROVE  CrossSection(values, t) \in Int
<1> DEFINE seen == {u \in DOMAIN values : Seen(values[u])}
           below == Cardinality({u \in seen : values[u] < values[t]})
           ties == Cardinality({u \in seen : values[u] = values[t]})
<1>1. IsFiniteSet(seen)
    BY FS_Subset
<1>2. below \in Nat /\ ties \in Nat /\ Cardinality(seen) \in Nat
    BY <1>1, CountIs
<1>3. CrossSection(values, t) = IF t \notin seen THEN NaN
       ELSE IF Cardinality(seen) < 3 THEN 50
       ELSE (50 * (2 * below + ties + 1)) \div Cardinality(seen)
    BY DEF CrossSection
<1> HIDE DEF seen, below, ties
<1>4. 50 * (2 * below + ties + 1) \in Int
    BY <1>2
<1>5. Cardinality(seen) # 0 => (50 * (2 * below + ties + 1)) \div Cardinality(seen) \in Int
    BY <1>2, <1>4, PositiveSum
<1> QED BY <1>2, <1>3, <1>5 DEF NaN

\* The score of a window.
LEMMA WindowScoreIs ==
    ASSUME NEW histories, IsFiniteSet(DOMAIN histories), \A u \in DOMAIN histories : IsHistory(histories[u]),
           NEW n \in {5, 20}, NEW t \in DOMAIN histories
    PROVE  WindowScore(histories, n, t) \in Int
<1> DEFINE ratios == [u \in DOMAIN histories |-> Participation(histories[u], n)]
           cross == CrossSection(ratios, t)
<1>1. ratios[t] \in Int
    BY ParticipationIs
<1>2. cross \in Int
    <2>1. DOMAIN ratios = DOMAIN histories
        OBVIOUS
    <2> HIDE DEF ratios
    <2> QED BY <2>1, CrossSectionIs
<1>3. WindowScore(histories, n, t) =
        IF Seen(ratios[t]) THEN (55 * cross + 45 * AbsScore(ratios[t])) \div 100 ELSE NaN
    BY DEF WindowScore
<1> HIDE DEF ratios, cross
<1>4. AbsScore(ratios[t]) \in Int
    <2>1. 50 + (5 * ratios[t]) \div 2 \in Int
        BY <1>1
    <2>2. Clip(50 + (5 * ratios[t]) \div 2) \in Int
        BY <2>1, ClipIs
    <2> QED BY <2>2 DEF AbsScore, NaN
<1> HIDE DEF AbsScore
<1> QED BY <1>2, <1>3, <1>4 DEF NaN

\* What a flow says in numbers, as far as the conviction and the smart money read it.
IsFlow(f) == f.coverage \in Nat /\ f.score \in Int /\ f.smart \in Int

\* The foreign flow of one issuer.
LEMMA ForeignFlowIs ==
    ASSUME NEW histories, IsFiniteSet(DOMAIN histories), \A u \in DOMAIN histories : IsHistory(histories[u]),
           NEW t \in DOMAIN histories
    PROVE  IsFlow(ForeignFlow(histories, t))
<1> DEFINE h == histories[t]
           observed == Reported(h, Expected)
           lag == Min(observed) - 1
           a == Self(WindowScore(histories, 20, t), 30)
           b == Self(WindowScore(histories, 5, t), 30)
           c == Self(PositiveDays(h, 20), 18)
           d == Self(PositiveDays(h, 5), 12)
           e == Self(BuyRatio(h, 20), 10)
           score == Weighted(<<a, b, c, d, e>>).score
           fresh == Freshness(lag)
           days == Cardinality(observed)
           kept == Finite(PositiveDays(h, 20), 50)
           cover == (100 * days * fresh) \div (100 * Expected)
           smart == IF Seen(score) THEN Clip((75 * score + 25 * kept) \div 100) ELSE NaN
<1>1. IsHistory(h)
    OBVIOUS
<1>2. IsPart(a) /\ IsPart(b)
    BY WindowScoreIs, SelfIs
<1> HIDE DEF h
<1>3. PositiveDays(h, 20) \in Int /\ PositiveDays(h, 5) \in Int /\ BuyRatio(h, 20) \in Int
    BY <1>1, PositiveDaysAre, BuyRatioIs
<1>4. IsPart(c) /\ IsPart(d) /\ IsPart(e)
    BY <1>3, SelfIs
<1> HIDE DEF a, b, c, d, e
<1>5. score \in Int
    BY <1>2, <1>4, Weighted5 DEF IsGroup
<1>6. kept \in Int
    BY <1>3 DEF Finite
<1>7. days \in Nat
    BY <1>1, SessionsAre, CountIs DEF Expected
<1>8. fresh \in Nat
    BY DEF Freshness
<1> HIDE DEF score, kept, days, fresh
<1>9. cover \in Nat
    <2>1. 100 * days * fresh \in Nat
        BY <1>7, <1>8
    <2> QED BY <2>1 DEF Expected
<1>10. smart \in Int
    <2>1. Clip((75 * score + 25 * kept) \div 100) \in Int
        BY <1>5, <1>6, ClipIs
    <2> QED BY <2>1 DEF NaN
<1>11. \/ ForeignFlow(histories, t).coverage = 0 /\ ForeignFlow(histories, t).score = NaN
          /\ ForeignFlow(histories, t).smart = NaN
       \/ ForeignFlow(histories, t).coverage = cover /\ ForeignFlow(histories, t).score = score
          /\ ForeignFlow(histories, t).smart = smart
    BY DEF ForeignFlow, h, a, b, c, d, e, score, kept, days, fresh
<1> HIDE DEF cover, smart
<1> QED BY <1>5, <1>9, <1>10, <1>11 DEF IsFlow, NaN

\* The foreign flow of every issuer, for an answer of the providers.
LEMMA ForeignIs ==
    ASSUME case \in Cases, NEW a \in case.answers, NEW i \in Issuers
    PROVE  IsFlow(Foreign(a.foreign)[i])
<1> DEFINE histories == [j \in Issuers |-> Catalogue["foreign"][a.foreign[j]]]
<1>1. DOMAIN histories = Issuers /\ IsFiniteSet(Issuers)
    BY DecisionsAssumption
<1>2. \A j \in Issuers : IsHistory(histories[j])
    <2> TAKE j \in Issuers
    <2>1. a.foreign[j] \in DOMAIN Catalogue["foreign"]
        BY DecisionsAssumption
    <2>2. histories[j] \in Known("foreign")
        BY <2>1 DEF Known
    <2> HIDE DEF histories
    <2> QED BY <2>2, DecisionsAssumption DEF IsHistory
<1>3. Foreign(a.foreign)[i] = ForeignFlow(histories, i)
    BY DEF Foreign
<1> HIDE DEF histories
<1> QED BY <1>1, <1>2, <1>3, ForeignFlowIs

\* The net deals of a set of rows of the broker cache.
LEMMA NetOfIs ==
    ASSUME NEW rows, IsFiniteSet(rows), \A r \in rows : IsDeal(r)
    PROVE  NetOf(rows) \in Int
<1> DEFINE f == [r \in rows |-> r.net]
<1>1. IsFiniteSet(DOMAIN f) /\ \A r \in DOMAIN f : f[r] \in Int
    BY DEF IsDeal
<1> HIDE DEF f
<1>2. SumFunction(f) \in Int
    BY <1>1, SumInt
<1> QED BY <1>2 DEF NetOf, f

\* The days of the broker cache are finitely many.
LEMMA DaysAre ==
    ASSUME NEW rows, IsFiniteSet(rows)
    PROVE  IsFiniteSet(BrokerDays(rows)) /\ Cardinality(BrokerDays(rows)) \in Nat
           /\ (rows # {} => Cardinality(BrokerDays(rows)) # 0)
<1> DEFINE f == [r \in rows |-> r.day]
<1>1. IsFiniteSet(DOMAIN f) /\ BrokerDays(rows) = {f[r] : r \in DOMAIN f}
    BY DEF BrokerDays
<1> HIDE DEF f
<1>2. IsFiniteSet(BrokerDays(rows))
    BY <1>1, ImageIs
<1>3. rows # {} => BrokerDays(rows) # {}
    BY DEF BrokerDays
<1> QED BY <1>2, <1>3, FS_CardinalityType, FS_EmptySet

\* The brokers that persist, in percent.
LEMMA PersistingIs == ASSUME NEW rows, IsFiniteSet(rows) PROVE Persisting(rows) \in Int
<1> DEFINE top == {r \in Buyers(rows) :
                      Cardinality({q \in Buyers(rows) : q.day = r.day /\ q.rank < r.rank}) < 3}
           codes == {r.code : r \in top}
           times == {Cardinality({r \in top : r.code = c}) : c \in codes}
           days == Cardinality(BrokerDays(rows))
<1>1. top \subseteq rows /\ IsFiniteSet(top)
    <2>1. top \subseteq rows
        BY DEF Buyers
    <2> QED BY <2>1, FS_Subset
<1>2. top # {} => days \in Nat /\ days # 0
    BY <1>1, DaysAre
<1>3. Persisting(rows) = IF top = {} THEN NaN ELSE (100 * Max(times)) \div days
    BY DEF Persisting
<1> HIDE DEF top, days
<1>4. IsFiniteSet(codes)
    <2> DEFINE f == [r \in top |-> r.code]
    <2>1. IsFiniteSet(DOMAIN f) /\ codes = {f[r] : r \in DOMAIN f}
        BY <1>1
    <2> HIDE DEF f
    <2> QED BY <2>1, ImageIs
<1>5. IsFiniteSet(times)
    <2> DEFINE f == [c \in codes |-> Cardinality({r \in top : r.code = c})]
    <2>1. DOMAIN f = codes /\ times = {f[c] : c \in DOMAIN f}
        OBVIOUS
    <2> HIDE DEF f, times, codes
    <2> QED BY <1>4, <2>1, ImageIs
<1>6. times \in SUBSET Int
    <2>1. \A c : Cardinality({r \in top : r.code = c}) \in Int
        BY <1>1, CountIs
    <2>2. \A x \in times : \E c \in codes : x = Cardinality({r \in top : r.code = c})
        OBVIOUS
    <2> HIDE DEF codes
    <2>3. \A x \in times : x \in Int
        <3> TAKE x \in times
        <3>1. PICK c \in codes : x = Cardinality({r \in top : r.code = c})
            BY <2>2
        <3> QED BY ONLY <3>1, <2>1
    <2> HIDE DEF times
    <2> QED BY <2>3
<1>7. top # {} => times # {}
    <2> SUFFICES ASSUME top # {} PROVE times # {}
        OBVIOUS
    <2>1. codes # {}
        OBVIOUS
    <2> HIDE DEF codes
    <2>2. PICK c \in codes : TRUE
        BY <2>1
    <2>3. Cardinality({r \in top : r.code = c}) \in times
        OBVIOUS
    <2> HIDE DEF times
    <2> QED BY <2>3
<1> HIDE DEF times, codes
<1>8. top # {} => Max(times) \in Int
    BY <1>5, <1>6, <1>7, MaxIn
<1>9. top # {} => (100 * Max(times)) \div days \in Int
    <2> SUFFICES ASSUME top # {} PROVE (100 * Max(times)) \div days \in Int
        OBVIOUS
    <2>1. 100 * Max(times) \in Int
        BY <1>8
    <2> QED BY <1>2, <2>1, PositiveSum
<1> QED BY <1>3, <1>9 DEF NaN

\* The share of the dominant brokers.
LEMMA DominanceIs ==
    ASSUME NEW rows, IsFiniteSet(rows), \A r \in rows : IsDeal(r) PROVE Dominance(rows) \in Int
<1> DEFINE sellers == {r \in rows : ~r.buyer}
           bought == NetOf(Buyers(rows))
           sold == -NetOf(sellers)
<1>1. IsFiniteSet(sellers) /\ IsFiniteSet(Buyers(rows)) /\ Buyers(rows) \subseteq rows
    BY FS_Subset DEF Buyers
<1>2. bought \in Int
    BY <1>1, NetOfIs
<1>3. NetOf(sellers) \in Int
    BY <1>1, NetOfIs
<1>4. sold \in Int
    BY <1>3
<1>5. Dominance(rows) = IF bought <= 0 THEN 30
       ELSE IF sold <= 0 THEN 100 ELSE Clip(50 + (15 * bought) \div sold)
    BY DEF Dominance
<1> HIDE DEF bought, sold
<1>6. CASE sold <= 0
    BY <1>5, <1>6
<1>7. CASE ~(sold <= 0)
    <2>1. sold \in Nat /\ sold # 0 /\ 15 * bought \in Int
        BY <1>2, <1>4, <1>7
    <2>2. (15 * bought) \div sold \in Int
        BY <2>1, PositiveSum
    <2>3. 50 + (15 * bought) \div sold \in Int
        BY <2>2
    <2>4. Clip(50 + (15 * bought) \div sold) \in Int
        BY <2>3, ClipIs
    <2> QED BY <1>5, <1>7, <2>4
<1> QED BY <1>6, <1>7

\* What the broker cache says in numbers.
IsTape(b) == b.coverage \in Nat /\ b.smart \in Int

\* The broker flow of one issuer.
LEMMA BrokerFlowIs ==
    ASSUME NEW rows, IsFiniteSet(rows), \A r \in rows : IsDeal(r), NEW rank \in Int
    PROVE  IsTape(BrokerFlow(rows, rank))
<1> DEFINE codes == {r.code : r \in Buyers(rows)}
           nets == {NetOf({r \in Buyers(rows) : r.code = c}) : c \in codes}
           best == Max(nets)
           total == NetOf(Buyers(rows))
           concentration == IF codes = {} \/ total <= 0 \/ best <= 0 THEN 0 ELSE (100 * best) \div total
           place == Finite(rank, 50)
           last == Finite(Persisting(rows), 0)
           dominance == Dominance(rows)
           accumulation == Clip((35 * place + 25 * last + 20 * concentration + 20 * dominance) \div 100)
           smart == Clip((70 * accumulation + 30 * place) \div 100)
           days == Cardinality(BrokerDays(rows))
<1>1. Buyers(rows) \subseteq rows /\ IsFiniteSet(Buyers(rows))
    BY FS_Subset DEF Buyers
<1>2. total \in Int
    BY <1>1, NetOfIs
<1>3. codes # {} => best \in Int
    <2> SUFFICES ASSUME codes # {} PROVE best \in Int
        OBVIOUS
    <2>1. IsFiniteSet(codes)
        <3> DEFINE f == [r \in Buyers(rows) |-> r.code]
        <3>1. IsFiniteSet(DOMAIN f) /\ codes = {f[r] : r \in DOMAIN f}
            BY <1>1
        <3> HIDE DEF f
        <3> QED BY <3>1, ImageIs
    <2>2. \A c : NetOf({r \in Buyers(rows) : r.code = c}) \in Int
        <3> TAKE c
        <3> DEFINE his == {r \in Buyers(rows) : r.code = c}
        <3>1. IsFiniteSet(his) /\ his \subseteq rows
            BY <1>1, FS_Subset
        <3>2. \A r \in his : IsDeal(r)
            BY <3>1
        <3> HIDE DEF his
        <3>3. NetOf(his) \in Int
            BY <3>1, <3>2, NetOfIs
        <3> QED BY <3>3 DEF his
    <2>3. IsFiniteSet(nets)
        <3> DEFINE f == [c \in codes |-> NetOf({r \in Buyers(rows) : r.code = c})]
        <3>1. DOMAIN f = codes /\ nets = {f[c] : c \in DOMAIN f}
            OBVIOUS
        <3> HIDE DEF f, nets, codes
        <3> QED BY <2>1, <3>1, ImageIs
    <2>4. nets \in SUBSET Int /\ nets # {}
        BY <2>2
    <2> HIDE DEF nets
    <2> QED BY <2>3, <2>4, MaxIn
<1>4. /\ BrokerFlow(rows, rank).coverage = IF rows = {} THEN 0 ELSE Min({100, 5 * days})
      /\ BrokerFlow(rows, rank).smart = IF rows = {} THEN NaN ELSE smart
    BY DEF BrokerFlow
<1>5. place \in Int
    BY DEF Finite
<1>6. last \in Int
    BY PersistingIs DEF Finite
<1>7. dominance \in Int
    BY DominanceIs
<1>8. days \in Nat
    BY DaysAre
<1> HIDE DEF codes, best, total, place, last, dominance, days
<1>9. concentration \in Int
    <2>1. CASE codes = {} \/ total <= 0 \/ best <= 0
        BY <2>1
    <2>2. CASE ~(codes = {} \/ total <= 0 \/ best <= 0)
        <3>1. total \in Nat /\ total # 0 /\ 100 * best \in Int
            BY <1>2, <1>3, <2>2
        <3> QED BY <2>2, <3>1, PositiveSum
    <2> QED BY <2>1, <2>2
<1> HIDE DEF concentration
<1>10. accumulation \in Int
    BY <1>5, <1>6, <1>7, <1>9, ClipIs
<1> HIDE DEF accumulation
<1>11. smart \in Int
    BY <1>5, <1>10, ClipIs
<1>12. Min({100, 5 * days}) \in Nat
    <2>1. 5 * days \in Nat
        BY <1>8
    <2> QED BY <2>1, MinNat
<1> HIDE DEF smart
<1> QED BY <1>4, <1>11, <1>12 DEF IsTape, NaN

\* The broker flow of every issuer, for an answer of the providers.
LEMMA BrokerAnswerIs ==
    ASSUME case \in Cases, NEW a \in case.answers, NEW i \in Issuers
    PROVE  IsTape(Broker(a.broker)[i])
<1> DEFINE b == Catalogue["broker"][a.broker[i]]
<1>1. b \in Known("broker")
    BY DecisionsAssumption DEF Known
<1>2. Broker(a.broker)[i] = BrokerFlow(b.rows, b.rank)
    BY DEF Broker
<1> HIDE DEF b
<1>3. IsFiniteSet(b.rows) /\ b.rank \in Int /\ \A r \in b.rows : IsDeal(r)
    BY <1>1, DecisionsAssumption
<1> QED BY <1>2, <1>3, BrokerFlowIs

-----------------------------------------------------------------------------

\* A flow moves the conviction by at most its share, bound being in tenths of a point.
LEMMA DeltaIs ==
    ASSUME NEW score \in Int, NEW coverage \in Int, NEW bound \in {15, 25}
    PROVE  Delta(score, coverage, bound) \in (-bound)..bound
<1> DEFINE s == Clip(score) - 50
           c == Clip(coverage)
           d == (bound * s * c) \div 5000
<1>1. s \in -50..50 /\ c \in 0..100
    <2>1. Clip(score) \in 0..100 /\ Clip(coverage) \in 0..100
        BY ClipIs
    <2> HIDE DEF Clip
    <2> QED BY <2>1
<1>2. Delta(score, coverage, bound) = IF Seen(score) /\ coverage > 0 THEN d ELSE 0
    BY DEF Delta
<1> HIDE DEF s, c
<1>3. s * c \in Int /\ s * c <= 5000 /\ s * c >= -5000
    <2>1. s * c <= 50 * c /\ s * c >= -50 * c
        BY <1>1
    <2>2. s * c \in Int
        BY <1>1
    <2> DEFINE p == s * c
    <2> HIDE DEF p
    <2>3. p \in Int /\ p <= 50 * c /\ p >= -50 * c
        BY <2>1, <2>2 DEF p
    <2>4. p <= 5000 /\ p >= -5000
        BY <1>1, <2>3
    <2> QED BY <2>3, <2>4 DEF p
<1>4. bound * s * c = bound * (s * c)
    BY <1>1
<1> DEFINE p == s * c
<1>5. p \in Int /\ p <= 5000 /\ p >= -5000 /\ d = (bound * p) \div 5000
    BY <1>3, <1>4
<1> HIDE DEF p, d
<1>6. d \in (-bound)..bound
    <2>1. CASE bound = 15
        BY <1>5, <2>1
    <2>2. CASE bound = 25
        BY <1>5, <2>2
    <2> QED BY <2>1, <2>2
<1> QED BY <1>2, <1>6

\* The foreign flow moves a conviction by three points at most.
LEMMA MovedBy25 ==
    ASSUME NEW x \in 0..100, NEW score \in Int, NEW coverage \in Int
    PROVE  LET y == Clip(x + Delta(score, coverage, 25) \div 10)
           IN y \in 0..100 /\ y - x \in -3..2
<1> DEFINE d == Delta(score, coverage, 25)
<1>1. d \in (-25)..25
    BY DeltaIs
<1> HIDE DEF d
<1>2. d \div 10 \in -3..2
    BY <1>1
<1> DEFINE e == d \div 10
<1> HIDE DEF e
<1>3. Clip(x + e) \in 0..100 /\ Clip(x + e) - x \in -3..2
    BY <1>2 DEF Clip, e
<1> QED BY <1>3 DEF d, e

\* The broker cache moves it by two points at most.
LEMMA MovedBy15 ==
    ASSUME NEW x \in 0..100, NEW score \in Int, NEW coverage \in Int
    PROVE  LET y == Clip(x + Delta(score, coverage, 15) \div 10)
           IN y \in 0..100 /\ y - x \in -2..1
<1> DEFINE d == Delta(score, coverage, 15)
<1>1. d \in (-15)..15
    BY DeltaIs
<1> HIDE DEF d
<1>2. d \div 10 \in -2..1
    BY <1>1
<1> DEFINE e == d \div 10
<1> HIDE DEF e
<1>3. Clip(x + e) \in 0..100 /\ Clip(x + e) - x \in -2..1
    BY <1>2 DEF Clip, e
<1> QED BY <1>3 DEF d, e

\* A score confirmed by a flow stays a whole percent.
LEMMA ConfirmIs ==
    ASSUME NEW base \in Percent, NEW coverage \in Int, NEW other \in Int, NEW otherCoverage \in Int,
           NEW weight \in {20, 30}
    PROVE  LET c == Confirm(base, coverage, other, otherCoverage, weight)
           IN c.score \in Percent /\ c.coverage \in Nat
<1> DEFINE c == Confirm(base, coverage, other, otherCoverage, weight)
           w == (weight * Clip(otherCoverage)) \div 100
           told == ((100 - w) * base + w * other) \div 100
           cover == Clip(coverage) + ((100 - Clip(coverage)) * Clip(otherCoverage) * weight) \div 10000
<1>1. base \in Int /\ Clip(otherCoverage) \in 0..100 /\ Clip(coverage) \in 0..100
    BY ClipIs DEF Percent, NaN
<1>2. \/ c.score = base /\ c.coverage = Clip(coverage)
      \/ c.score = Clip(told) /\ c.coverage = Clip(cover)
      \/ c.score = Clip(other) /\ c.coverage = Min({55, w})
    BY DEF Confirm
<1> HIDE DEF c, Clip
<1>3. w \in Nat
    BY <1>1
<1> HIDE DEF w
<1>4. told \in Int
    BY <1>1, <1>3
<1>5. cover \in Int
    <2> DEFINE p == (100 - Clip(coverage)) * Clip(otherCoverage) * weight
    <2> DEFINE a == 100 - Clip(coverage)
               b == Clip(otherCoverage)
    <2>0. a \in Int /\ b \in Int /\ weight \in Int
        BY <1>1
    <2> HIDE DEF a, b
    <2>1. a * b \in Int
        BY <2>0
    <2> DEFINE ab == a * b
    <2> HIDE DEF ab
    <2>4. ab * weight \in Int
        BY <2>0, <2>1 DEF ab
    <2>5. p \in Int
        BY <2>4 DEF ab, a, b
    <2> HIDE DEF p
    <2>2. p \div 10000 \in Int
        BY <2>5
    <2>3. Clip(coverage) + p \div 10000 \in Int
        BY <1>1, <2>2
    <2> QED BY <2>3 DEF p
<1> HIDE DEF told, cover
<1>6. Clip(told) \in 0..100 /\ Clip(cover) \in 0..100 /\ Clip(other) \in 0..100
    BY <1>4, <1>5, ClipIs
<1>7. Min({55, w}) \in Nat
    BY <1>3, MinNat
<1> QED BY <1>1, <1>2, <1>6, <1>7 DEF Percent, c

Lineages ==
    [declared : {"", "PRISTINE", "CANONICAL", "AMBIGUOUS", "LEGACY"}, base : 0..BaseValues, marked : BOOLEAN]
Done(l) == l \in Lineages /\ LineageState(l) # "PRISTINE"

\* What a row has of the conviction c the scan gave it: as it was until a flow confirmed it,
\* and from then on not open to another.
Confirmed(row, c) ==
    /\ row.conviction \in Percent /\ row.smart \in Percent /\ row.smartCoverage \in Nat
    /\ \/ row.foreign = Fresh /\ row.broker = Fresh /\ row.conviction = c
       \/ Done(row.foreign) /\ Done(row.broker)
    /\ Seen(row.conviction) => row.conviction - c \in -5..5

\* A row that no provider confirmed is open to each of them.
LEMMA FreshIs == Fresh \in Lineages /\ LineageState(Fresh) = "PRISTINE" /\ ~Done(Fresh)
    BY DEF Fresh, Lineages, LineageState, BaseValues, Done

\* A lineage remembers so many of its base values.
LEMMA RememberedIs == ASSUME NEW a, NEW b, NEW c PROVE Remembered(<<a, b, c>>) \in 0..BaseValues
<1> DEFINE s == {i \in 1..3 : Seen(<<a, b, c>>[i])}
<1>1. Remembered(<<a, b, c>>) = Cardinality(s)
    BY DEF Remembered
<1>2. s \subseteq 1..3 /\ IsFiniteSet(1..3) /\ Cardinality(1..3) = 3
    <2>1. \A n \in Nat : Cardinality(1..n) = n
        BY FS_Interval
    <2> QED BY <2>1, UpTo
<1> HIDE DEF s
<1>3. IsFiniteSet(s) /\ Cardinality(s) <= Cardinality(1..3)
    BY <1>2, FS_Subset
<1>4. Cardinality(s) \in Nat
    BY <1>3, FS_CardinalityType
<1> QED BY <1>1, <1>2, <1>3, <1>4 DEF BaseValues

\* A lineage that was derived, or that an older release left, stays closed.
LEMMA DerivedIsDone ==
    ASSUME NEW n \in 0..BaseValues PROVE Done([declared |-> "CANONICAL", marked |-> TRUE, base |-> n])
    BY DEF Done, Lineages, LineageState, BaseValues

\* A lineage that names its state keeps it.
LEMMA DeclaredIsDone ==
    ASSUME NEW l, Done(l) PROVE Done([l EXCEPT !.declared = LineageState(l)])
<1> DEFINE s == LineageState(l)
           new == [l EXCEPT !.declared = s]
<1>1. l \in Lineages /\ s # "PRISTINE"
    BY DEF Done
<1>2. s \in {"CANONICAL", "AMBIGUOUS", "LEGACY"} /\ (s = "CANONICAL" => l.base = BaseValues)
    BY <1>1 DEF LineageState
<1> HIDE DEF s
<1>3. new \in Lineages /\ new.declared = s /\ new.base = l.base
    BY <1>1, <1>2 DEF Lineages
<1> HIDE DEF new
<1>4. LineageState(new) # "PRISTINE"
    BY <1>2, <1>3 DEF LineageState
<1> QED BY <1>3, <1>4 DEF Done, new, s

\* A lineage that is marked is closed.
LEMMA MarkedIsDone == ASSUME NEW l, l = Fresh \/ Done(l) PROVE Done([l EXCEPT !.marked = TRUE])
<1> DEFINE new == [l EXCEPT !.marked = TRUE]
<1>1. l \in Lineages
    BY FreshIs DEF Done
<1>2. new \in Lineages /\ new.declared = l.declared /\ new.base = l.base /\ new.marked = TRUE
    BY <1>1 DEF Lineages
<1> HIDE DEF new
<1>3. CASE l = Fresh
    <2>1. new.declared = "" /\ new.base = 0
        BY <1>2, <1>3 DEF Fresh
    <2>2. new.declared \notin {"LEGACY", "AMBIGUOUS", "CANONICAL", "PRISTINE"}
        BY <2>1
    <2>4. new.base # BaseValues /\ ~(new.base > 0)
        <3>1. new.base = 0
            BY <2>1
        <3> QED BY ONLY <3>1 DEF BaseValues
    <2>5. new.marked
        BY <1>2
    <2>3. LineageState(new) = "LEGACY"
        BY <2>2, <2>4, <2>5 DEF LineageState
    <2> QED BY <1>2, <2>3 DEF Done, new
<1>4. CASE Done(l)
    <2>1. LineageState(l) # "PRISTINE"
        BY <1>4 DEF Done
    <2>2. LineageState(new) # "PRISTINE"
        BY <1>1, <1>2, <2>1 DEF LineageState, Lineages, BaseValues
    <2> QED BY <1>2, <2>2 DEF Done, new
<1> QED BY <1>3, <1>4

-----------------------------------------------------------------------------

\* The foreign flow of a row that is open to it, and of one that is not.
LEMMA ForeignFirst ==
    ASSUME NEW row, IsRow(row), NEW f, LineageState(row.foreign) = "PRISTINE"
    PROVE  LET new == EnrichForeign(row, f)
               smart == Confirm(row.smart, row.smartCoverage, f.smart, f.coverage, 30)
           IN /\ IsRow(new) /\ new.broker = row.broker
              /\ new.smart = smart.score /\ new.smartCoverage = smart.coverage
              /\ new.conviction = IF Seen(row.conviction)
                                  THEN Clip(row.conviction + Delta(f.score, f.coverage, 25) \div 10)
                                  ELSE row.conviction
              /\ new.foreign = [declared |-> "CANONICAL", marked |-> TRUE,
                                base |-> Remembered(<<row.smart, row.smartCoverage, row.conviction>>)]
<1> DEFINE smart == Confirm(row.smart, row.smartCoverage, f.smart, f.coverage, 30)
           score == smart.score
           coverage == smart.coverage
           conviction == IF Seen(row.conviction)
                         THEN Clip(row.conviction + Delta(f.score, f.coverage, 25) \div 10) ELSE row.conviction
           lineage == [declared |-> "CANONICAL", marked |-> TRUE,
                       base |-> Remembered(<<row.smart, row.smartCoverage, row.conviction>>)]
           anew == [row EXCEPT !.flow = f, !.smart = score, !.smartCoverage = coverage,
                               !.conviction = conviction, !.foreign = lineage]
<1>1. EnrichForeign(row, f) = anew
    BY DEF EnrichForeign
<1>2. DOMAIN row = Columns
    BY DEF IsRow
<1> HIDE DEF smart, score, coverage, conviction, lineage
<1>3. IsRow(anew)
    BY DEF IsRow
<1>4. /\ anew.broker = row.broker /\ anew.smart = score
      /\ anew.smartCoverage = coverage /\ anew.conviction = conviction /\ anew.foreign = lineage
    BY <1>2 DEF Columns
<1> HIDE DEF anew
<1> QED BY <1>1, <1>3, <1>4 DEF conviction, lineage, score, coverage, smart

\* A foreign flow for a row that is closed to it changes no score.
LEMMA ForeignAgain ==
    ASSUME NEW row, IsRow(row), NEW f, LineageState(row.foreign) # "PRISTINE"
    PROVE  LET new == EnrichForeign(row, f)
           IN /\ IsRow(new) /\ new.broker = row.broker /\ new.flow = row.flow
              /\ new.smart = row.smart /\ new.smartCoverage = row.smartCoverage
              /\ new.conviction = row.conviction
              /\ Done(row.foreign) => Done(new.foreign)
<1> DEFINE old == [row.foreign EXCEPT !.declared = LineageState(row.foreign)]
           told == [row EXCEPT !.foreign = old]
<1>1. EnrichForeign(row, f) = told
    BY DEF EnrichForeign
<1>2. DOMAIN row = Columns
    BY DEF IsRow
<1>3. Done(row.foreign) => Done(old)
    BY DeclaredIsDone
<1> HIDE DEF old
<1>4. IsRow(told)
    BY DEF IsRow
<1>5. /\ told.broker = row.broker /\ told.smart = row.smart /\ told.flow = row.flow
      /\ told.smartCoverage = row.smartCoverage /\ told.conviction = row.conviction /\ told.foreign = old
    BY <1>2 DEF Columns
<1> HIDE DEF told
<1> QED BY <1>1, <1>3, <1>4, <1>5

\* The broker cache, after it.
LEMMA BrokerFirst ==
    ASSUME NEW row, IsRow(row), NEW b, LineageState(row.broker) = "PRISTINE"
    PROVE  LET new == EnrichBroker(row, b)
               smart == Confirm(row.smart, 0, IF Seen(row.smart) THEN b.smart ELSE NaN, b.coverage, 20)
           IN /\ IsRow(new) /\ new.foreign = row.foreign /\ new.smartCoverage = row.smartCoverage
              /\ new.smart = smart.score
              /\ new.conviction = IF Seen(row.conviction)
                                  THEN Clip(row.conviction + Delta(Finite(b.smart, 50), b.coverage, 15) \div 10)
                                  ELSE row.conviction
              /\ new.broker = [declared |-> "CANONICAL", marked |-> TRUE,
                               base |-> Remembered(<<row.smart, row.conviction, row.final>>)]
<1> DEFINE smart == Confirm(row.smart, 0, IF Seen(row.smart) THEN b.smart ELSE NaN, b.coverage, 20)
           score == smart.score
           conviction == IF Seen(row.conviction)
                         THEN Clip(row.conviction + Delta(Finite(b.smart, 50), b.coverage, 15) \div 10)
                         ELSE row.conviction
           lineage == [declared |-> "CANONICAL", marked |-> TRUE,
                       base |-> Remembered(<<row.smart, row.conviction, row.final>>)]
           anew == [row EXCEPT !.smart = score, !.conviction = conviction, !.broker = lineage]
<1>1. EnrichBroker(row, b) = anew
    BY DEF EnrichBroker
<1>2. DOMAIN row = Columns
    BY DEF IsRow
<1> HIDE DEF smart, score, conviction, lineage
<1>3. IsRow(anew)
    BY DEF IsRow
<1>4. /\ anew.foreign = row.foreign /\ anew.smart = score
      /\ anew.smartCoverage = row.smartCoverage /\ anew.conviction = conviction /\ anew.broker = lineage
    BY <1>2 DEF Columns
<1> HIDE DEF anew
<1> QED BY <1>1, <1>3, <1>4 DEF conviction, lineage, score, smart

\* A broker cache for a row that is closed to it changes no score.
LEMMA BrokerAgain ==
    ASSUME NEW row, IsRow(row), NEW b, LineageState(row.broker) # "PRISTINE"
    PROVE  LET new == EnrichBroker(row, b)
           IN /\ IsRow(new) /\ new.foreign = row.foreign /\ new.flow = row.flow
              /\ new.smart = row.smart /\ new.smartCoverage = row.smartCoverage
              /\ new.conviction = row.conviction
              /\ Done(row.broker) => Done(new.broker)
<1> DEFINE old == [row.broker EXCEPT !.declared = LineageState(row.broker)]
           told == [row EXCEPT !.broker = old]
<1>1. EnrichBroker(row, b) = told
    BY DEF EnrichBroker
<1>2. DOMAIN row = Columns
    BY DEF IsRow
<1>3. Done(row.broker) => Done(old)
    BY DeclaredIsDone
<1> HIDE DEF old
<1>4. IsRow(told)
    BY DEF IsRow
<1>5. /\ told.foreign = row.foreign /\ told.smart = row.smart /\ told.flow = row.flow
      /\ told.smartCoverage = row.smartCoverage /\ told.conviction = row.conviction /\ told.broker = old
    BY <1>2 DEF Columns
<1> HIDE DEF told
<1> QED BY <1>1, <1>3, <1>4, <1>5

\* Both flows of the day: a row that is open to them moves by at most five points and is
\* closed, one that is closed keeps what it has.
Closed(row, new) ==
    /\ Done(new.foreign) /\ Done(new.broker)
    /\ Done(row.foreign) => /\ new.flow = row.flow /\ new.smart = row.smart
                            /\ new.smartCoverage = row.smartCoverage /\ new.conviction = row.conviction

\* Both providers in turn.
LEMMA FlowsClose ==
    ASSUME NEW row, IsRow(row), NEW c, Confirmed(row, c), NEW f, IsFlow(f), NEW b, IsTape(b)
    PROVE  LET new == EnrichBroker(EnrichForeign(row, f), b)
           IN IsRow(new) /\ Confirmed(new, c) /\ Closed(row, new)
<1> DEFINE told == EnrichForeign(row, f)
           new == EnrichBroker(told, b)
           first == Confirm(row.smart, row.smartCoverage, f.smart, f.coverage, 30)
           heard == IF Seen(told.smart) THEN b.smart ELSE NaN
           second == Confirm(told.smart, 0, heard, b.coverage, 20)
           n == Remembered(<<row.smart, row.smartCoverage, row.conviction>>)
           m == Remembered(<<told.smart, told.conviction, told.final>>)
<1>1. /\ row.conviction \in Percent /\ row.smart \in Percent /\ row.smartCoverage \in Nat
      /\ f.coverage \in Nat /\ f.score \in Int /\ f.smart \in Int /\ b.coverage \in Nat /\ b.smart \in Int
    BY DEF Confirmed, IsFlow, IsTape
<1>2. /\ row.smartCoverage \in Int /\ f.coverage \in Int /\ b.coverage \in Int /\ heard \in Int
    BY <1>1 DEF NaN
<1>3. n \in 0..BaseValues /\ m \in 0..BaseValues
    BY RememberedIs
<1>6. CASE row.foreign = Fresh /\ row.broker = Fresh /\ row.conviction = c
    <2> DEFINE moved == Clip(row.conviction + Delta(f.score, f.coverage, 25) \div 10)
               again == Clip(told.conviction + Delta(Finite(b.smart, 50), b.coverage, 15) \div 10)
    <2>0. LineageState(row.foreign) = "PRISTINE" /\ LineageState(row.broker) = "PRISTINE"
        BY <1>6, FreshIs
    <2>1. /\ IsRow(told) /\ told.broker = row.broker
          /\ told.smart = first.score /\ told.smartCoverage = first.coverage
          /\ told.conviction = (IF Seen(row.conviction) THEN moved ELSE row.conviction)
          /\ told.foreign = [declared |-> "CANONICAL", marked |-> TRUE, base |-> n]
        BY <2>0, ForeignFirst
    <2>2. LineageState(told.broker) = "PRISTINE"
        BY <2>0, <2>1
    <2>3. /\ IsRow(new) /\ new.foreign = told.foreign /\ new.smartCoverage = told.smartCoverage
          /\ new.smart = second.score
          /\ new.conviction = (IF Seen(told.conviction) THEN again ELSE told.conviction)
          /\ new.broker = [declared |-> "CANONICAL", marked |-> TRUE, base |-> m]
        BY <2>1, <2>2, BrokerFirst
    <2>4. first.score \in Percent /\ first.coverage \in Nat
        BY <1>1, <1>2, ConfirmIs
    <2>5. second.score \in Percent
        BY <1>2, <2>1, <2>4, ConfirmIs
    <2>6. Done(new.foreign) /\ Done(new.broker)
        BY <1>3, <2>1, <2>3, DerivedIsDone, SMTT(30)
    <2>7. row.conviction \in 0..100 => moved \in 0..100 /\ moved - row.conviction \in -3..2
        BY <1>1, <1>2, MovedBy25
    <2>8. Finite(b.smart, 50) \in Int
        BY <1>1, SMTT(30) DEF Finite
    <2>9. told.conviction \in 0..100 => again \in 0..100 /\ again - told.conviction \in -2..1
        BY <1>2, <2>8, MovedBy15
    <2>14. ~Done(row.foreign)
        BY <1>6, FreshIs
    <2> HIDE DEF told, new, first, second, n, m, moved, again
    <2>10. row.conviction \in 0..100 \/ row.conviction = NaN
        BY <1>1 DEF Percent
    <2>11. ASSUME row.conviction \in 0..100
           PROVE  new.conviction \in Percent /\ (Seen(new.conviction) => new.conviction - c \in -5..5)
        <3>1. Seen(row.conviction)
            BY <2>11 DEF Seen, NaN
        <3>2. told.conviction \in 0..100 /\ told.conviction - row.conviction \in -3..2
            BY <2>1, <2>7, <2>11, <3>1
        <3>3. Seen(told.conviction)
            BY <3>2 DEF Seen, NaN
        <3>4. new.conviction \in 0..100 /\ new.conviction - told.conviction \in -2..1
            BY <2>3, <2>9, <3>2, <3>3
        <3> DEFINE x == row.conviction
                   y == told.conviction
                   z == new.conviction
        <3>5. x \in 0..100 /\ y \in 0..100 /\ z \in 0..100 /\ y - x \in -3..2 /\ z - y \in -2..1 /\ c = x
            BY <1>6, <2>11, <3>2, <3>4
        <3> HIDE DEF x, y, z
        <3>6. z - c \in -5..5
            BY <3>5
        <3> QED BY <3>4, <3>6 DEF Percent, z
    <2>12. ASSUME row.conviction = NaN
           PROVE  new.conviction \in Percent /\ (Seen(new.conviction) => new.conviction - c \in -5..5)
        <3>1. new.conviction = NaN
            BY <2>1, <2>3, <2>12 DEF Seen
        <3> QED BY <3>1 DEF Percent, Seen
    <2>13. Confirmed(new, c)
        BY <2>1, <2>3, <2>4, <2>5, <2>6, <2>10, <2>11, <2>12 DEF Confirmed
    <2> QED BY <2>3, <2>6, <2>13, <2>14 DEF Closed, new, told
<1>7. CASE Done(row.foreign) /\ Done(row.broker)
    <2>1. LineageState(row.foreign) # "PRISTINE" /\ LineageState(row.broker) # "PRISTINE"
        BY <1>7 DEF Done
    <2>2. /\ IsRow(told) /\ told.broker = row.broker /\ told.flow = row.flow
          /\ told.smart = row.smart /\ told.smartCoverage = row.smartCoverage /\ told.conviction = row.conviction
          /\ Done(told.foreign)
        BY <1>7, <2>1, ForeignAgain
    <2>4. LineageState(told.broker) # "PRISTINE" /\ Done(told.broker)
        BY <1>7, <2>1, <2>2
    <2>3. /\ IsRow(new) /\ new.foreign = told.foreign /\ new.smartCoverage = told.smartCoverage
          /\ new.flow = told.flow /\ new.smart = told.smart /\ new.conviction = told.conviction
          /\ Done(new.broker)
        BY <2>2, <2>4, BrokerAgain
    <2> HIDE DEF told, new
    <2>7. Seen(row.conviction) => row.conviction - c \in -5..5
        BY DEF Confirmed
    <2>5. Confirmed(new, c)
        BY <1>1, <2>2, <2>3, <2>7 DEF Confirmed
    <2>6. Closed(row, new)
        BY <2>2, <2>3 DEF Closed
    <2> QED BY <2>3, <2>5, <2>6 DEF new, told
<1> QED BY <1>6, <1>7 DEF Confirmed

-----------------------------------------------------------------------------
(* What each pass of the final decision writes, and what it leaves alone.  *)

Only(old, new, written) == IsRow(new) /\ \A c \in Columns : c \notin written => new[c] = old[c]

BankColumns == {"blockers", "candidate", "entry", "ready", "gate", "entryState", "manualCap"}
ShownColumns == {"final", "flowShown", "silentShown", "leader", "presentable", "money"}
GuardColumns == {"manual", "ready", "entry", "gate", "entryState", "manualCap"}

\* The block on banks has been over the row.
Banked(row, d) ==
    d.business.bank /\ d.business.bankMetrics < 60 =>
        /\ "BANK_SPECIFIC_RISK_METRICS_NOT_MODELED" \in row.blockers
        /\ row.candidate = FALSE /\ row.entry = FALSE /\ row.ready = FALSE
        /\ row.gate = "REAL_MONEY_BLOCKED" /\ row.entryState = "NO_ENTRY_AUTHORIZATION" /\ row.manualCap = 0

\* So have the scores of the dashboard.
ShownFlow(row, d) == Confirm(DashboardFlow(row, d), 100, row.flow.score, row.flow.coverage, 30).score
ShownSilent(row, d) == Confirm(DashboardSilent(d), 100, row.flow.acc, row.flow.coverage, 20).score
Shown(row, d) ==
    /\ row.final = OrElse(row.conviction, 0)
    /\ row.flowShown = ShownFlow(row, d) /\ row.silentShown = ShownSilent(row, d)
    /\ row.leader = LeaderScore(row, d) /\ row.money = RealMoneyScore(row, d)
    /\ d.integrity.provenance # "" => row.presentable = LeaderPresentable(row, d)

\* So has the guard on foreign selling.
Waited(row) ==
    Severe(row.flow) =>
        /\ row.ready = FALSE
        /\ Persistent(row.flow) =>
              /\ "ZAPI_FOREIGN_DISTRIBUTION_WAIT_STABILIZATION" \in row.manual
              /\ row.candidate => /\ row.entry = FALSE /\ row.gate = "REAL_MONEY_WAIT_TIMING"
                                  /\ row.entryState = "WAIT_TIMING_NO_ENTRY" /\ row.manualCap = 0
        /\ ~Persistent(row.flow) =>
              /\ "ZAPI_FOREIGN_SHOCK_REQUIRE_ABSORPTION_RECLAIM" \in row.manual
              /\ row.entry => /\ row.gate = "REAL_MONEY_MANUAL_CONFIRMATION_REQUIRED"
                              /\ row.entryState = "MANUAL_CONFIRMATION_REQUIRED"

\* The class and the tier of a row.
ClassOf(row) ==
    CASE row.gate = "REAL_MONEY_DIRECT_VERIFIED_READY" -> "DIRECT_VERIFIED_READY"
      [] row.gate = "REAL_MONEY_MANUAL_CONFIRMATION_REQUIRED" -> "MANUAL_CONFIRMATION"
      [] row.gate = "REAL_MONEY_WAIT_TIMING" -> "WAIT_TIMING"
      [] row.gate = "REAL_MONEY_BLOCKED" /\ row.blockers # {} -> "HARD_BLOCK"
      [] row.gate = "REAL_MONEY_BLOCKED" /\ row.blockers = {} /\ row.gaps # {} -> "EVIDENCE_GAP_ONLY_OR_OTHER"
      [] OTHER -> "NOT_AUTHORIZED_OTHER"
TierOf(row) ==
    LET able == row.candidate /\ row.entry
    IN CASE row.blockers # {} -> "HARD_BLOCKED"
         [] row.blockers = {} /\ row.gate = "REAL_MONEY_DIRECT_VERIFIED_READY" -> "DIRECT_VERIFIED_READY"
         [] row.blockers = {} /\ row.gate # "REAL_MONEY_DIRECT_VERIFIED_READY" /\ able /\ row.gaps # {}
              -> "PROXY_EXECUTION_ELIGIBLE_MANUAL_CONFIRMATION"
         [] row.blockers = {} /\ row.gate # "REAL_MONEY_DIRECT_VERIFIED_READY" /\ able
            /\ row.gaps = {} /\ row.manual # {} -> "MANUAL_CONFIRMATION_REQUIRED"
         [] OTHER -> IF row.candidate THEN "WAIT_TIMING" ELSE "RESEARCH_ONLY_OR_NOT_CANDIDATE"

\* What two passes write, one after the other.
LEMMA OnlyTwice ==
    ASSUME NEW a, NEW b, NEW c, NEW s, NEW t, Only(a, b, s), Only(b, c, t) PROVE Only(a, c, s \cup t)
    BY DEF Only

\* The class of the gate writes the class.
LEMMA AuditOnly ==
    ASSUME NEW row, IsRow(row)
    PROVE  Only(row, GateAudit(row), {"class"}) /\ GateAudit(row).class = ClassOf(row)
<1> DEFINE class == ClassOf(row)
<1>1. GateAudit(row) = [row EXCEPT !.class = class]
    BY DEF GateAudit, ClassOf
<1>2. DOMAIN row = Columns
    BY DEF IsRow
<1> HIDE DEF class
<1>3. IsRow(GateAudit(row))
    BY <1>1 DEF IsRow
<1>4. \A c \in Columns : c \notin {"class"} => GateAudit(row)[c] = row[c]
    BY <1>1, <1>2
<1>5. GateAudit(row).class = class
    BY <1>1, <1>2 DEF Columns
<1> QED BY <1>3, <1>4, <1>5 DEF Only, class

\* The tier writes no gate: a row whose gate says no is no candidate.
LEMMA TierOnly ==
    ASSUME NEW row, IsRow(row), GateShape(row)
    PROVE  Only(row, Tier(row), {"tier"}) /\ Tier(row).tier = TierOf(row)
<1> DEFINE tier == TierOf(row)
<1>1. ~(tier = "PROXY_EXECUTION_ELIGIBLE_MANUAL_CONFIRMATION" /\ row.gate = "REAL_MONEY_BLOCKED")
    <2>1. row.gate = "REAL_MONEY_BLOCKED" => row.blockers # {}
        BY DEF GateShape
    <2>2. row.blockers # {} => tier = "HARD_BLOCKED"
        BY DEF TierOf
    <2> QED BY <2>1, <2>2
<1>2. Tier(row) = [row EXCEPT !.tier = tier]
    BY <1>1 DEF Tier, TierOf
<1>3. DOMAIN row = Columns
    BY DEF IsRow
<1> HIDE DEF tier
<1>4. IsRow(Tier(row))
    BY <1>2 DEF IsRow
<1>5. \A c \in Columns : c \notin {"tier"} => Tier(row)[c] = row[c]
    BY <1>2, <1>3
<1>6. Tier(row).tier = tier
    BY <1>2, <1>3 DEF Columns
<1> QED BY <1>4, <1>5, <1>6 DEF Only, tier

\* The block on banks writes its columns, and leaves the row blocked.
LEMMA BankOnly ==
    ASSUME NEW row, IsRow(row), NEW d
    PROVE  Only(row, BankBlock(row, d), BankColumns) /\ Banked(BankBlock(row, d), d)
<1> DEFINE blockers == row.blockers \cup {"BANK_SPECIFIC_RISK_METRICS_NOT_MODELED"}
           told == [row EXCEPT !.blockers = blockers, !.candidate = FALSE,
                     !.entry = FALSE, !.ready = FALSE, !.gate = "REAL_MONEY_BLOCKED",
                     !.entryState = "NO_ENTRY_AUTHORIZATION", !.manualCap = 0]
           bank == d.business.bank /\ d.business.bankMetrics < 60
<1>1. BankBlock(row, d) = IF bank THEN told ELSE row
    BY DEF BankBlock
<1>2. DOMAIN row = Columns
    BY DEF IsRow
<1>3. CASE ~bank
    <2>1. BankBlock(row, d) = row
        BY <1>1, <1>3
    <2> QED BY <1>3, <2>1 DEF Only, Banked
<1>4. CASE bank
    <2>1. BankBlock(row, d) = told
        BY <1>1, <1>4
    <2>2. "BANK_SPECIFIC_RISK_METRICS_NOT_MODELED" \in blockers
        OBVIOUS
    <2> HIDE DEF blockers, bank
    <2>3. IsRow(told)
        BY DEF IsRow
    <2>4. \A c \in Columns : c \notin BankColumns => told[c] = row[c]
        BY <1>2 DEF BankColumns
    <2>5. /\ told.blockers = blockers /\ told.candidate = FALSE /\ told.entry = FALSE /\ told.ready = FALSE
          /\ told.gate = "REAL_MONEY_BLOCKED" /\ told.entryState = "NO_ENTRY_AUTHORIZATION" /\ told.manualCap = 0
        BY <1>2 DEF Columns
    <2> HIDE DEF told
    <2> QED BY <2>1, <2>2, <2>3, <2>4, <2>5 DEF Only, Banked
<1> QED BY <1>3, <1>4

\* The guard on foreign selling writes its columns, and leaves the row waiting.
LEMMA GuardOnly ==
    ASSUME NEW row, IsRow(row), {row.candidate, row.entry, row.ready} \subseteq BOOLEAN, row.entry => row.candidate
    PROVE  LET out == ForeignGuard(row)
           IN Only(row, out, GuardColumns) /\ Waited(out) /\ (\A d : Banked(row, d) => Banked(out, d))
<1> DEFINE out == ForeignGuard(row)
           wait == row.manual \cup {"ZAPI_FOREIGN_DISTRIBUTION_WAIT_STABILIZATION"}
           ask == row.manual \cup {"ZAPI_FOREIGN_SHOCK_REQUIRE_ABSORPTION_RECLAIM"}
           delayed == [row EXCEPT !.manual = wait, !.ready = FALSE]
           sent == [delayed EXCEPT !.entry = FALSE, !.gate = "REAL_MONEY_WAIT_TIMING",
                                   !.entryState = "WAIT_TIMING_NO_ENTRY", !.manualCap = 0]
           asked == [row EXCEPT !.manual = ask, !.ready = FALSE]
           put == [asked EXCEPT !.gate = "REAL_MONEY_MANUAL_CONFIRMATION_REQUIRED",
                                !.entryState = "MANUAL_CONFIRMATION_REQUIRED"]
<1>1. out = IF ~Severe(row.flow) THEN row
            ELSE IF Persistent(row.flow) THEN IF row.candidate THEN sent ELSE delayed
            ELSE IF row.entry THEN put ELSE asked
    BY DEF ForeignGuard
<1>2. DOMAIN row = Columns
    BY DEF IsRow
<1>w. "ZAPI_FOREIGN_DISTRIBUTION_WAIT_STABILIZATION" \in wait
    OBVIOUS
<1>a. "ZAPI_FOREIGN_SHOCK_REQUIRE_ABSORPTION_RECLAIM" \in ask
    OBVIOUS
<1> HIDE DEF wait, ask
<1>3. CASE ~Severe(row.flow)
    <2>1. out = row
        BY <1>1, <1>3
    <2> HIDE DEF out
    <2>2. Only(row, out, GuardColumns) /\ Waited(out)
        BY <1>3, <2>1 DEF Only, Waited
    <2> QED BY <2>1, <2>2 DEF out
<1>4. CASE Severe(row.flow) /\ Persistent(row.flow) /\ row.candidate
    <2>1. out = sent
        BY <1>1, <1>4
    <2>2. DOMAIN delayed = Columns /\ IsRow(sent)
        BY <1>2 DEF IsRow
    <2>3. \A c \in Columns : c \notin GuardColumns => sent[c] = row[c]
        BY <1>2, <2>2 DEF GuardColumns
    <2>4. /\ sent.manual = wait /\ sent.ready = FALSE /\ sent.entry = FALSE /\ sent.gate = "REAL_MONEY_WAIT_TIMING"
          /\ sent.entryState = "WAIT_TIMING_NO_ENTRY" /\ sent.manualCap = 0
        BY <1>2, <2>2 DEF Columns
    <2>5. sent.flow = row.flow /\ sent.candidate = row.candidate
        BY <2>3 DEF Columns, GuardColumns
    <2> HIDE DEF sent, out
    <2>6. Waited(sent)
        BY <1>4, <1>w, <2>4, <2>5 DEF Waited
    <2>7. \A d : ~(Banked(row, d) /\ d.business.bank /\ d.business.bankMetrics < 60)
        BY <1>4 DEF Banked
    <2>8. \A d : Banked(row, d) => Banked(sent, d)
        BY <2>7 DEF Banked
    <2> QED BY <2>1, <2>2, <2>3, <2>6, <2>8 DEF Only, out
<1>5. CASE Severe(row.flow) /\ Persistent(row.flow) /\ ~row.candidate
    <2>1. out = delayed
        BY <1>1, <1>5
    <2>2. IsRow(delayed)
        BY DEF IsRow
    <2>3. \A c \in Columns : c \notin {"manual", "ready"} => delayed[c] = row[c]
        BY <1>2
    <2>4. delayed.manual = wait /\ delayed.ready = FALSE
        BY <1>2 DEF Columns
    <2>5. /\ delayed.flow = row.flow /\ delayed.candidate = row.candidate /\ delayed.blockers = row.blockers
          /\ delayed.entry = row.entry /\ delayed.gate = row.gate /\ delayed.entryState = row.entryState
          /\ delayed.manualCap = row.manualCap
        BY <2>3 DEF Columns
    <2> HIDE DEF delayed, out
    <2>6. Waited(delayed)
        BY <1>5, <1>w, <2>4, <2>5 DEF Waited
    <2>7. \A d : Banked(row, d) => Banked(delayed, d)
        BY <2>4, <2>5 DEF Banked
    <2>8. Only(row, delayed, GuardColumns)
        BY <2>2, <2>3 DEF Only, GuardColumns
    <2> QED BY <2>1, <2>6, <2>7, <2>8 DEF out
<1>6. CASE Severe(row.flow) /\ ~Persistent(row.flow) /\ row.entry
    <2>1. out = put
        BY <1>1, <1>6
    <2>2. DOMAIN asked = Columns /\ IsRow(put)
        BY <1>2 DEF IsRow
    <2>3. \A c \in Columns : c \notin {"manual", "ready", "gate", "entryState"} => put[c] = row[c]
        BY <1>2, <2>2
    <2>4. /\ put.manual = ask /\ put.ready = FALSE /\ put.gate = "REAL_MONEY_MANUAL_CONFIRMATION_REQUIRED"
          /\ put.entryState = "MANUAL_CONFIRMATION_REQUIRED"
        BY <1>2, <2>2 DEF Columns
    <2>5. put.flow = row.flow /\ put.entry = row.entry
        BY <2>3 DEF Columns
    <2> HIDE DEF put, out
    <2>6. Waited(put)
        BY <1>6, <1>a, <2>4, <2>5 DEF Waited
    <2>7. \A d : ~(Banked(row, d) /\ d.business.bank /\ d.business.bankMetrics < 60)
        BY <1>6 DEF Banked
    <2>8. \A d : Banked(row, d) => Banked(put, d)
        BY <2>7 DEF Banked
    <2>9. Only(row, put, GuardColumns)
        BY <2>2, <2>3 DEF Only, GuardColumns
    <2> QED BY <2>1, <2>6, <2>8, <2>9 DEF out
<1>7. CASE Severe(row.flow) /\ ~Persistent(row.flow) /\ ~row.entry
    <2>1. out = asked
        BY <1>1, <1>7
    <2>2. IsRow(asked)
        BY DEF IsRow
    <2>3. \A c \in Columns : c \notin {"manual", "ready"} => asked[c] = row[c]
        BY <1>2
    <2>4. asked.manual = ask /\ asked.ready = FALSE
        BY <1>2 DEF Columns
    <2>5. /\ asked.flow = row.flow /\ asked.candidate = row.candidate /\ asked.blockers = row.blockers
          /\ asked.entry = row.entry /\ asked.gate = row.gate /\ asked.entryState = row.entryState
          /\ asked.manualCap = row.manualCap
        BY <2>3 DEF Columns
    <2> HIDE DEF asked, out
    <2>6. Waited(asked)
        BY <1>7, <1>a, <2>4, <2>5 DEF Waited
    <2>7. \A d : Banked(row, d) => Banked(asked, d)
        BY <2>4, <2>5 DEF Banked
    <2>8. Only(row, asked, GuardColumns)
        BY <2>2, <2>3 DEF Only, GuardColumns
    <2> QED BY <2>1, <2>6, <2>7, <2>8 DEF out
<1> QED BY <1>3, <1>4, <1>5, <1>6, <1>7

\* What the scores of the dashboard are read from.
LeaderReads == {"smart", "smartCoverage", "structure", "liquidity"}
Alike(a, b, read) == \A c \in read : a[c] = b[c]

\* The leader's score is read from what follows the evidence and four columns.
LEMMA LeaderReadsOnly ==
    ASSUME NEW a, NEW b, Alike(a, b, LeaderReads), NEW d
    PROVE  /\ LeaderScore(a, d) = LeaderScore(b, d)
           /\ d.integrity.provenance # "" => LeaderPresentable(a, d) = LeaderPresentable(b, d)
<1>1. a.smart = b.smart /\ a.smartCoverage = b.smartCoverage /\ a.structure = b.structure /\ a.liquidity = b.liquidity
    BY DEF Alike, LeaderReads
<1>2. Model(a, d) = Model(b, d)
    BY <1>1 DEF Model
<1>3. LeaderScore(a, d) = LeaderScore(b, d)
    BY <1>2 DEF LeaderScore
<1>4. LeaderEligible(a, d) = LeaderEligible(b, d)
    BY <1>2 DEF LeaderEligible
<1>5. d.integrity.provenance # "" => LeaderDataBlock(a, d) = LeaderDataBlock(b, d)
    BY DEF LeaderDataBlock
<1>6. d.integrity.provenance # "" => LeaderPresentable(a, d) = LeaderPresentable(b, d)
    BY <1>4, <1>5 DEF LeaderPresentable
<1> QED BY <1>3, <1>6

ShownReads == LeaderReads \cup {"conviction", "flow", "plan"}

\* The scores that are shown, likewise.
LEMMA ShownReadsOnly ==
    ASSUME NEW a, NEW b, Alike(a, b, ShownReads \cup ShownColumns), NEW d, Shown(a, d)
    PROVE  Shown(b, d)
<1>1. /\ a.smart = b.smart /\ a.structure = b.structure /\ a.liquidity = b.liquidity
      /\ a.conviction = b.conviction /\ a.flow = b.flow /\ a.plan = b.plan
    BY DEF Alike, LeaderReads, ShownReads
<1>2. /\ a.final = b.final /\ a.flowShown = b.flowShown /\ a.silentShown = b.silentShown /\ a.leader = b.leader
      /\ a.presentable = b.presentable /\ a.money = b.money
    BY DEF Alike, ShownColumns
<1>3. Alike(a, b, LeaderReads)
    BY DEF Alike, ShownReads
<1>4. /\ LeaderScore(a, d) = LeaderScore(b, d)
      /\ d.integrity.provenance # "" => LeaderPresentable(a, d) = LeaderPresentable(b, d)
    BY <1>3, LeaderReadsOnly
<1>5. ShownFlow(a, d) = ShownFlow(b, d) /\ ShownSilent(a, d) = ShownSilent(b, d)
    BY <1>1 DEF ShownFlow, ShownSilent, DashboardFlow
<1>6. RealMoneyScore(a, d) = RealMoneyScore(b, d)
    BY <1>1, <1>2, <1>4 DEF RealMoneyScore
<1> QED BY <1>1, <1>2, <1>4, <1>5, <1>6 DEF Shown

\* The score for real money, likewise.
LEMMA MoneyReadsOnly ==
    ASSUME NEW a, NEW b, Alike(a, b, LeaderReads \cup {"plan", "final", "silentShown", "flowShown"}), NEW d
    PROVE  RealMoneyScore(a, d) = RealMoneyScore(b, d)
<1>1. /\ a.smart = b.smart /\ a.structure = b.structure /\ a.liquidity = b.liquidity /\ a.plan = b.plan
      /\ a.final = b.final /\ a.flowShown = b.flowShown /\ a.silentShown = b.silentShown
    BY DEF Alike, LeaderReads
<1>2. Alike(a, b, LeaderReads)
    BY DEF Alike
<1>3. LeaderScore(a, d) = LeaderScore(b, d)
    BY <1>2, LeaderReadsOnly
<1> QED BY <1>1, <1>3 DEF RealMoneyScore

\* The dashboard writes the block on banks and the scores.
LEMMA DashboardOnly ==
    ASSUME NEW row, IsRow(row), NEW d
    PROVE  LET new == Dashboard(row, d)
           IN /\ Only(row, new, BankColumns \cup ShownColumns) /\ Banked(new, d) /\ Shown(new, d)
              /\ Alike(BankBlock(row, d), new, BankColumns)
<1> DEFINE b == BankBlock(row, d)
           final == OrElse(row.conviction, 0)
           flowShown == ShownFlow(row, d)
           silentShown == ShownSilent(row, d)
           leader == LeaderScore(row, d)
           presentable == LeaderPresentable(row, d)
           set == [b EXCEPT !.final = final]
           shown == [set EXCEPT !.flowShown = flowShown, !.silentShown = silentShown,
                                !.leader = leader, !.presentable = presentable]
           money == RealMoneyScore(shown, d)
           new == [shown EXCEPT !.money = money]
<1>1. Dashboard(row, d) = new
    BY DEF Dashboard, ShownFlow, ShownSilent
<1>2. Only(row, b, BankColumns) /\ Banked(b, d)
    BY BankOnly
<1> HIDE DEF final, flowShown, silentShown, leader, presentable, b
<1>3. DOMAIN b = Columns
    BY <1>2 DEF Only, IsRow
<1>4. DOMAIN set = Columns
    BY <1>3
<1>5. set.final = final /\ \A c \in Columns : c # "final" => set[c] = b[c]
    BY <1>3 DEF Columns
<1> HIDE DEF set
<1>6. DOMAIN shown = Columns
    BY <1>4
<1>7. /\ shown.flowShown = flowShown /\ shown.silentShown = silentShown /\ shown.leader = leader
      /\ shown.presentable = presentable
      /\ \A c \in Columns : c \notin {"flowShown", "silentShown", "leader", "presentable"} => shown[c] = set[c]
    BY <1>4 DEF Columns
<1>r. shown = [c \in Columns |-> shown[c]]
    BY <1>6
<1> HIDE DEF shown, money
<1>8. new.money = money /\ \A c \in Columns : c # "money" => new[c] = shown[c]
    BY <1>6 DEF Columns
<1>9. IsRow(new)
    BY <1>r DEF IsRow
<1> HIDE DEF new
<1>10. \A c \in Columns : c \notin ShownColumns => new[c] = b[c]
    BY <1>5, <1>7, <1>8 DEF ShownColumns
<1>11. Only(b, new, ShownColumns)
    BY <1>9, <1>10 DEF Only
<1>12. Only(row, new, BankColumns \cup ShownColumns)
    BY <1>2, <1>11, OnlyTwice
<1>13. /\ new.final = final /\ new.flowShown = flowShown /\ new.silentShown = silentShown
       /\ new.leader = leader /\ new.presentable = presentable
    BY <1>5, <1>7, <1>8 DEF Columns
<1>14. Alike(row, new, ShownReads)
    BY <1>12 DEF Only, Alike, ShownReads, LeaderReads, Columns, BankColumns, ShownColumns
<1>15. Alike(row, new, LeaderReads) /\ row.conviction = new.conviction /\ row.flow = new.flow /\ row.smart = new.smart
    BY <1>14 DEF Alike, ShownReads, LeaderReads
<1>16. /\ leader = LeaderScore(new, d)
       /\ d.integrity.provenance # "" => presentable = LeaderPresentable(new, d)
    BY <1>15, LeaderReadsOnly DEF leader, presentable
<1>17. flowShown = ShownFlow(new, d) /\ silentShown = ShownSilent(new, d)
    BY <1>15 DEF flowShown, silentShown, ShownFlow, ShownSilent, DashboardFlow
<1>18. money = RealMoneyScore(new, d)
    <2>1. Alike(shown, new, LeaderReads \cup {"plan", "final", "silentShown", "flowShown"})
        BY <1>8 DEF Alike, LeaderReads, Columns
    <2> QED BY <2>1, MoneyReadsOnly DEF money
<1>19. final = OrElse(new.conviction, 0)
    BY <1>15 DEF final
<1>20. Shown(new, d)
    BY <1>8, <1>13, <1>16, <1>17, <1>18, <1>19 DEF Shown
<1>21. Banked(new, d)
    <2>1. /\ new.blockers = b.blockers /\ new.candidate = b.candidate /\ new.entry = b.entry /\ new.ready = b.ready
          /\ new.gate = b.gate /\ new.entryState = b.entryState /\ new.manualCap = b.manualCap
        BY <1>10 DEF Columns, ShownColumns
    <2> QED BY <1>2, <2>1 DEF Banked
<1>22. Alike(b, new, BankColumns)
    BY <1>10 DEF Alike, BankColumns, ShownColumns, Columns
<1> QED BY <1>1, <1>12, <1>20, <1>21, <1>22 DEF b

\* A row as the passes leave it, and what of it they read from the scan and the flow.
Frozen(row, d) ==
    Banked(row, d) /\ Shown(row, d) /\ Waited(row) /\ row.class = ClassOf(row) /\ row.tier = TierOf(row)
Lasting == {"issuer", "state", "plan", "gaps", "geometry", "pays", "conviction", "smart", "smartCoverage",
            "structure", "liquidity", "flow", "foreign", "broker", "loaded"}
Stamps == {"release", "rawRank", "guardedRank", "productionRank", "authorized", "foreign", "broker", "loaded"}

Pass(row, d) == Tier(GateAudit(ForeignGuard(Dashboard(row, d))))

\* The class is read from the gate, the blockers and the gaps.
LEMMA ClassReads ==
    ASSUME NEW a, NEW b, Alike(a, b, {"gate", "blockers", "gaps"}) PROVE ClassOf(a) = ClassOf(b)
<1>1. a.gate = b.gate /\ a.blockers = b.blockers /\ a.gaps = b.gaps
    BY DEF Alike
<1> QED BY <1>1 DEF ClassOf

\* The tier is read from these and three more columns.
LEMMA TierReads ==
    ASSUME NEW a, NEW b, Alike(a, b, {"gate", "blockers", "gaps", "candidate", "entry", "manual"})
    PROVE  TierOf(a) = TierOf(b)
<1>1. /\ a.gate = b.gate /\ a.blockers = b.blockers /\ a.gaps = b.gaps /\ a.candidate = b.candidate
      /\ a.entry = b.entry /\ a.manual = b.manual
    BY DEF Alike
<1> QED BY <1>1 DEF TierOf

GateReads == {"candidate", "entry", "ready", "blockers", "gate"}

\* The shape of a gate is read from five columns.
LEMMA ShapeReads ==
    ASSUME NEW a, NEW b, Alike(a, b, GateReads), GateShape(a) PROVE GateShape(b)
<1>1. /\ a.gate = b.gate /\ a.blockers = b.blockers /\ a.candidate = b.candidate
      /\ a.entry = b.entry /\ a.ready = b.ready
    BY DEF Alike, GateReads
<1> QED BY <1>1 DEF GateShape

\* The block on banks shows in seven columns.
LEMMA BankedReads ==
    ASSUME NEW a, NEW b, Alike(a, b, BankColumns), NEW d, Banked(a, d) PROVE Banked(b, d)
<1>1. /\ a.gate = b.gate /\ a.blockers = b.blockers /\ a.candidate = b.candidate
      /\ a.entry = b.entry /\ a.ready = b.ready /\ a.entryState = b.entryState /\ a.manualCap = b.manualCap
    BY DEF Alike, BankColumns
<1> QED BY <1>1 DEF Banked

WaitReads == GuardColumns \cup {"candidate", "flow"}

\* The wait for foreign selling shows in the guard's columns.
LEMMA WaitedReads ==
    ASSUME NEW a, NEW b, Alike(a, b, WaitReads), Waited(a) PROVE Waited(b)
<1>1. /\ a.manual = b.manual /\ a.ready = b.ready /\ a.entry = b.entry /\ a.gate = b.gate
      /\ a.entryState = b.entryState /\ a.manualCap = b.manualCap /\ a.candidate = b.candidate /\ a.flow = b.flow
    BY DEF Alike, WaitReads, GuardColumns
<1> QED BY <1>1 DEF Waited

\* Whether a row is frozen does not depend on its ranks or its lineages.
LEMMA FrozenReads ==
    ASSUME NEW a, NEW b, Alike(a, b, Columns \ Stamps), NEW d, Frozen(a, d) PROVE Frozen(b, d)
<1>1. /\ Alike(a, b, BankColumns) /\ Alike(a, b, WaitReads) /\ Alike(a, b, ShownReads \cup ShownColumns)
      /\ Alike(a, b, {"gate", "blockers", "gaps"})
      /\ Alike(a, b, {"gate", "blockers", "gaps", "candidate", "entry", "manual"})
    BY DEF Alike, Columns, Stamps, BankColumns, WaitReads, GuardColumns, ShownReads, LeaderReads, ShownColumns
<1>2. a.class = b.class /\ a.tier = b.tier
    BY DEF Alike, Columns, Stamps
<1>3. Banked(b, d) /\ Shown(b, d) /\ Waited(b)
    BY <1>1, BankedReads, WaitedReads, ShownReadsOnly DEF Frozen
<1>4. ClassOf(a) = ClassOf(b) /\ TierOf(a) = TierOf(b)
    BY <1>1, ClassReads, TierReads
<1> QED BY <1>2, <1>3, <1>4 DEF Frozen

\* The passes freeze a row.
LEMMA PassFreezes ==
    ASSUME NEW row, IsRow(row), GateShape(row), row.manualCap \in Nat, row.cap \in Int, row.lots \in Int, NEW d
    PROVE  LET new == Pass(row, d)
           IN IsRow(new) /\ Alike(row, new, Lasting) /\ Frozen(new, d)
<1> DEFINE s == Dashboard(row, d)
           g == ForeignGuard(s)
           a == GateAudit(g)
           t == Tier(a)
<1>1. Passed(row, s)
    BY DashboardPasses
<1>2. Only(row, s, BankColumns \cup ShownColumns) /\ Banked(s, d) /\ Shown(s, d)
    BY DashboardOnly
<1>3. IsRow(s) /\ GateShape(s) /\ s.manualCap \in Nat /\ s.cap \in Int /\ s.lots \in Int
    <2>1. IsRow(s) /\ GateShape(s) /\ s.manualCap \in {row.manualCap, 0} /\ s.cap = row.cap /\ s.lots = row.lots
        BY <1>1 DEF Passed
    <2> QED BY <2>1
<1> HIDE DEF s
<1>4. Passed(s, g)
    BY <1>3, GuardPasses
<1>5. {s.candidate, s.entry, s.ready} \subseteq BOOLEAN /\ (s.entry => s.candidate)
    BY <1>3 DEF GateShape
<1>6. Only(s, g, GuardColumns) /\ Waited(g) /\ Banked(g, d)
    BY <1>2, <1>3, <1>5, GuardOnly
<1>7. IsRow(g) /\ GateShape(g)
    BY <1>4 DEF Passed
<1> HIDE DEF g
<1>8. Only(g, a, {"class"}) /\ a.class = ClassOf(g)
    BY <1>7, AuditOnly
<1>9. IsRow(a) /\ GateShape(a)
    <2>1. Alike(g, a, GateReads)
        BY <1>8 DEF Only, Alike, GateReads, Columns
    <2> QED BY <1>7, <1>8, <2>1, ShapeReads DEF Only
<1> HIDE DEF a
<1>10. Only(a, t, {"tier"}) /\ t.tier = TierOf(a)
    BY <1>9, TierOnly
<1> HIDE DEF t
<1>11. Only(g, t, {"class", "tier"})
    BY <1>8, <1>10 DEF Only
<1>12. Alike(g, t, BankColumns) /\ Alike(g, t, WaitReads)
    BY <1>11 DEF Only, Alike, BankColumns, WaitReads, GuardColumns, Columns
<1>13. Banked(t, d) /\ Waited(t)
    BY <1>6, <1>12, BankedReads, WaitedReads
<1>14. Alike(s, t, ShownReads \cup ShownColumns)
    BY <1>6, <1>11 DEF Only, Alike, ShownReads, LeaderReads, ShownColumns, GuardColumns, Columns
<1>15. Shown(t, d)
    BY <1>2, <1>14, ShownReadsOnly
<1>16. t.class = ClassOf(t)
    <2>1. Alike(g, t, {"gate", "blockers", "gaps"})
        BY <1>11 DEF Only, Alike, Columns
    <2>2. t.class = a.class
        BY <1>10 DEF Only, Columns
    <2> QED BY <1>8, <2>1, <2>2, ClassReads
<1>17. t.tier = TierOf(t)
    <2>1. Alike(a, t, {"gate", "blockers", "gaps", "candidate", "entry", "manual"})
        BY <1>10 DEF Only, Alike, Columns
    <2> QED BY <1>10, <2>1, TierReads
<1>18. Alike(row, t, Lasting)
    <2>1. Only(row, t, BankColumns \cup ShownColumns \cup GuardColumns \cup {"class", "tier"})
        BY <1>2, <1>6, <1>11 DEF Only
    <2> QED BY <2>1 DEF Only, Alike, Lasting, Columns, BankColumns, ShownColumns, GuardColumns
<1>19. IsRow(t)
    BY <1>10 DEF Only
<1> QED BY <1>13, <1>15, <1>16, <1>17, <1>18, <1>19 DEF Pass, Frozen, t, a, g, s

\* The block on banks leaves a row alone that it has been over.
LEMMA BankFixed ==
    ASSUME NEW row, IsRow(row), NEW d, Banked(row, d) PROVE Alike(row, BankBlock(row, d), BankColumns)
<1> DEFINE bank == d.business.bank /\ d.business.bankMetrics < 60
           blockers == row.blockers \cup {"BANK_SPECIFIC_RISK_METRICS_NOT_MODELED"}
           told == [row EXCEPT !.blockers = blockers, !.candidate = FALSE,
                     !.entry = FALSE, !.ready = FALSE, !.gate = "REAL_MONEY_BLOCKED",
                     !.entryState = "NO_ENTRY_AUTHORIZATION", !.manualCap = 0]
<1>1. BankBlock(row, d) = IF bank THEN told ELSE row
    BY DEF BankBlock
<1>2. CASE ~bank
    <2>1. BankBlock(row, d) = row
        BY <1>1, <1>2
    <2> QED BY <2>1 DEF Alike
<1>3. CASE bank
    <2>1. BankBlock(row, d) = told
        BY <1>1, <1>3
    <2>2. "BANK_SPECIFIC_RISK_METRICS_NOT_MODELED" \in row.blockers
        BY <1>3 DEF Banked
    <2>3. blockers = row.blockers
        BY <2>2
    <2>4. /\ row.candidate = FALSE /\ row.entry = FALSE /\ row.ready = FALSE
          /\ row.gate = "REAL_MONEY_BLOCKED" /\ row.entryState = "NO_ENTRY_AUTHORIZATION" /\ row.manualCap = 0
        BY <1>3 DEF Banked
    <2>5. DOMAIN row = Columns
        BY DEF IsRow
    <2> HIDE DEF blockers
    <2>6. /\ told.blockers = blockers /\ told.candidate = FALSE /\ told.entry = FALSE /\ told.ready = FALSE
          /\ told.gate = "REAL_MONEY_BLOCKED" /\ told.entryState = "NO_ENTRY_AUTHORIZATION" /\ told.manualCap = 0
        BY <2>5 DEF Columns
    <2> HIDE DEF told
    <2> QED BY <2>1, <2>3, <2>4, <2>6 DEF Alike, BankColumns
<1> QED BY <1>2, <1>3

\* So does the dashboard.
LEMMA ShownFixed ==
    ASSUME NEW a, NEW b, NEW d, Shown(a, d), Shown(b, d), Alike(a, b, ShownReads)
    PROVE  /\ Alike(a, b, ShownColumns \ {"presentable"})
           /\ d.integrity.provenance # "" => Alike(a, b, ShownColumns)
<1>1. /\ Alike(a, b, LeaderReads) /\ a.conviction = b.conviction /\ a.flow = b.flow /\ a.smart = b.smart
      /\ a.plan = b.plan
    BY DEF Alike, ShownReads, LeaderReads
<1>2. /\ LeaderScore(a, d) = LeaderScore(b, d)
      /\ d.integrity.provenance # "" => LeaderPresentable(a, d) = LeaderPresentable(b, d)
    BY <1>1, LeaderReadsOnly
<1>3. ShownFlow(a, d) = ShownFlow(b, d) /\ ShownSilent(a, d) = ShownSilent(b, d)
    BY <1>1 DEF ShownFlow, ShownSilent, DashboardFlow
<1>4. a.final = b.final /\ a.flowShown = b.flowShown /\ a.silentShown = b.silentShown /\ a.leader = b.leader
    BY <1>1, <1>2, <1>3 DEF Shown
<1>5. Alike(a, b, LeaderReads \cup {"plan", "final", "silentShown", "flowShown"})
    BY <1>1, <1>4 DEF Alike
<1>6. a.money = b.money
    BY <1>5, MoneyReadsOnly DEF Shown
<1>7. d.integrity.provenance # "" => a.presentable = b.presentable
    BY <1>2 DEF Shown
<1> QED BY <1>4, <1>6, <1>7 DEF Alike, ShownColumns

\* So does the guard on foreign selling.
LEMMA GuardFixed ==
    ASSUME NEW row, IsRow(row), Waited(row) PROVE Alike(row, ForeignGuard(row), Columns)
<1> DEFINE out == ForeignGuard(row)
           wait == row.manual \cup {"ZAPI_FOREIGN_DISTRIBUTION_WAIT_STABILIZATION"}
           ask == row.manual \cup {"ZAPI_FOREIGN_SHOCK_REQUIRE_ABSORPTION_RECLAIM"}
           delayed == [row EXCEPT !.manual = wait, !.ready = FALSE]
           sent == [delayed EXCEPT !.entry = FALSE, !.gate = "REAL_MONEY_WAIT_TIMING",
                                   !.entryState = "WAIT_TIMING_NO_ENTRY", !.manualCap = 0]
           asked == [row EXCEPT !.manual = ask, !.ready = FALSE]
           put == [asked EXCEPT !.gate = "REAL_MONEY_MANUAL_CONFIRMATION_REQUIRED",
                                !.entryState = "MANUAL_CONFIRMATION_REQUIRED"]
<1>1. out = IF ~Severe(row.flow) THEN row
            ELSE IF Persistent(row.flow) THEN IF row.candidate THEN sent ELSE delayed
            ELSE IF row.entry THEN put ELSE asked
    BY DEF ForeignGuard
<1>2. DOMAIN row = Columns
    BY DEF IsRow
<1>3. CASE ~Severe(row.flow)
    <2>1. out = row
        BY <1>1, <1>3
    <2> QED BY <2>1 DEF Alike
<1>4. CASE Severe(row.flow) /\ Persistent(row.flow)
    <2>1. row.ready = FALSE /\ "ZAPI_FOREIGN_DISTRIBUTION_WAIT_STABILIZATION" \in row.manual
        BY <1>4 DEF Waited
    <2>2. wait = row.manual
        BY <2>1
    <2> HIDE DEF wait
    <2>3. DOMAIN delayed = Columns /\ \A c \in Columns : delayed[c] = row[c]
        BY <1>2, <2>1, <2>2
    <2>4. row.candidate => \A c \in Columns : sent[c] = delayed[c]
        <3> SUFFICES ASSUME row.candidate PROVE \A c \in Columns : sent[c] = delayed[c]
            OBVIOUS
        <3>1. /\ row.entry = FALSE /\ row.gate = "REAL_MONEY_WAIT_TIMING"
              /\ row.entryState = "WAIT_TIMING_NO_ENTRY" /\ row.manualCap = 0
            BY <1>4 DEF Waited
        <3>2. /\ delayed.entry = FALSE /\ delayed.gate = "REAL_MONEY_WAIT_TIMING"
              /\ delayed.entryState = "WAIT_TIMING_NO_ENTRY" /\ delayed.manualCap = 0
            BY <2>3, <3>1 DEF Columns
        <3> HIDE DEF delayed
        <3> QED BY <2>3, <3>2
    <2> HIDE DEF sent, delayed
    <2> QED BY <1>1, <1>4, <2>3, <2>4 DEF Alike
<1>5. CASE Severe(row.flow) /\ ~Persistent(row.flow)
    <2>1. row.ready = FALSE /\ "ZAPI_FOREIGN_SHOCK_REQUIRE_ABSORPTION_RECLAIM" \in row.manual
        BY <1>5 DEF Waited
    <2>2. ask = row.manual
        BY <2>1
    <2> HIDE DEF ask
    <2>3. DOMAIN asked = Columns /\ \A c \in Columns : asked[c] = row[c]
        BY <1>2, <2>1, <2>2
    <2>4. row.entry => \A c \in Columns : put[c] = asked[c]
        <3> SUFFICES ASSUME row.entry PROVE \A c \in Columns : put[c] = asked[c]
            OBVIOUS
        <3>1. /\ row.gate = "REAL_MONEY_MANUAL_CONFIRMATION_REQUIRED"
              /\ row.entryState = "MANUAL_CONFIRMATION_REQUIRED"
            BY <1>5 DEF Waited
        <3>2. /\ asked.gate = "REAL_MONEY_MANUAL_CONFIRMATION_REQUIRED"
              /\ asked.entryState = "MANUAL_CONFIRMATION_REQUIRED"
            BY <2>3, <3>1 DEF Columns
        <3> HIDE DEF asked
        <3> QED BY <2>3, <3>2
    <2> HIDE DEF put, asked
    <2> QED BY <1>1, <1>5, <2>3, <2>4 DEF Alike
<1> QED BY <1>3, <1>4, <1>5

\* A row that is frozen passes unchanged.
LEMMA FrozenPasses ==
    ASSUME NEW row, IsRow(row), GateShape(row), NEW d, Frozen(row, d)
    PROVE  LET new == Pass(row, d)
           IN /\ IsRow(new) /\ Alike(row, new, Columns \ {"presentable"})
              /\ d.integrity.provenance # "" => Alike(row, new, Columns)
<1> DEFINE s == Dashboard(row, d)
           g == ForeignGuard(s)
           a == GateAudit(g)
           t == Tier(a)
           told == d.integrity.provenance # ""
<1>1. Banked(row, d) /\ Shown(row, d) /\ Waited(row) /\ row.class = ClassOf(row) /\ row.tier = TierOf(row)
    BY DEF Frozen
<1>2. /\ Only(row, s, BankColumns \cup ShownColumns) /\ Shown(s, d) /\ Alike(BankBlock(row, d), s, BankColumns)
    BY DashboardOnly
<1> HIDE DEF s
<1>3. Alike(row, s, BankColumns)
    <2>1. Alike(row, BankBlock(row, d), BankColumns)
        BY <1>1, BankFixed
    <2> QED BY <1>2, <2>1 DEF Alike
<1>4. Alike(row, s, ShownReads)
    BY <1>2 DEF Only, Alike, ShownReads, LeaderReads, Columns, BankColumns, ShownColumns
<1>5. Alike(row, s, ShownColumns \ {"presentable"}) /\ (told => Alike(row, s, ShownColumns))
    BY <1>1, <1>2, <1>4, ShownFixed
<1>6. Alike(row, s, Columns \ {"presentable"}) /\ (told => Alike(row, s, Columns))
    BY <1>2, <1>3, <1>5 DEF Only, Alike
<1>7. IsRow(s)
    BY <1>2 DEF Only
<1>8. Waited(s)
    <2>1. Alike(row, s, WaitReads)
        BY <1>6, ZenonT(60) DEF Alike, WaitReads, GuardColumns, Columns
    <2> QED BY <1>1, <2>1, WaitedReads
<1>9. Alike(s, g, Columns)
    BY <1>7, <1>8, GuardFixed
<1>10. GateShape(s)
    <2>1. Alike(row, s, GateReads)
        BY <1>6 DEF Alike, GateReads, Columns
    <2> QED BY <2>1, ShapeReads
<1>11. IsRow(g)
    <2>1. {s.candidate, s.entry, s.ready} \subseteq BOOLEAN /\ (s.entry => s.candidate)
        BY <1>10 DEF GateShape
    <2> QED BY <1>7, <2>1, GuardOnly DEF Only
<1> HIDE DEF g
<1>12. Only(g, a, {"class"}) /\ a.class = ClassOf(g)
    BY <1>11, AuditOnly
<1>13. Alike(row, g, Columns \ {"presentable"})
    BY <1>6, <1>9 DEF Alike
<1>14. a.class = row.class
    <2>1. Alike(row, g, {"gate", "blockers", "gaps"})
        BY <1>13 DEF Alike, Columns
    <2> QED BY <1>1, <1>12, <2>1, ClassReads
<1>15. Alike(g, a, Columns)
    <2>1. g.class = row.class
        BY <1>13 DEF Alike, Columns
    <2> QED BY <1>12, <1>14, <2>1 DEF Only, Alike
<1>16. Alike(row, a, Columns \ {"presentable"})
    BY <1>13, <1>15 DEF Alike
<1>17. IsRow(a) /\ GateShape(a)
    <2>1. Alike(row, a, GateReads)
        BY <1>16 DEF Alike, GateReads, Columns
    <2> QED BY <1>12, <2>1, ShapeReads DEF Only
<1> HIDE DEF a
<1>18. Only(a, t, {"tier"}) /\ t.tier = TierOf(a)
    BY <1>17, TierOnly
<1> HIDE DEF t
<1>19. t.tier = row.tier
    <2>1. Alike(row, a, {"gate", "blockers", "gaps", "candidate", "entry", "manual"})
        BY <1>16 DEF Alike, Columns
    <2> QED BY <1>1, <1>18, <2>1, TierReads
<1>20. Alike(a, t, Columns)
    <2>1. a.tier = row.tier
        BY <1>16 DEF Alike, Columns
    <2> QED BY <1>18, <1>19, <2>1 DEF Only, Alike
<1>21. Alike(row, t, Columns \ {"presentable"})
    BY <1>16, <1>20 DEF Alike
<1>22. told => Alike(row, t, Columns)
    BY <1>6, <1>9, <1>15, <1>20 DEF Alike
<1>23. IsRow(t)
    BY <1>18 DEF Only
<1> QED BY <1>21, <1>22, <1>23 DEF Pass, t, a, g, s

-----------------------------------------------------------------------------
(* The three ranks are read from the rows.                                 *)

RankColumns == {"rawRank", "guardedRank", "productionRank", "authorized"}
BlockReads == {"blockers", "tier", "class", "state"}
RankReads ==
    BlockReads \cup {"conviction", "leader", "money", "candidate", "entry", "ready", "gate", "entryState",
                     "geometry", "pays"}

Ranked(rows) ==
    /\ \A k \in DOMAIN rows : rows[k].rawRank = Ranks(rows, "conviction", DOMAIN rows)[k]
    /\ \A k \in DOMAIN rows : rows[k].guardedRank = Ranks(rows, "leader", Unblocked(rows))[k]
    /\ \A k \in DOMAIN rows : rows[k].productionRank = Ranks(rows, "money", Tradable(rows))[k]
    /\ \A k \in DOMAIN rows : rows[k].authorized = Authorized(rows[k])

\* The ranks of two radars that have the same scores.
LEMMA RankRead ==
    ASSUME NEW a, NEW b, DOMAIN a = DOMAIN b, NEW field, \A k \in DOMAIN a : a[k][field] = b[k][field],
           NEW S, S \subseteq DOMAIN a
    PROVE  Ranks(a, field, S) = Ranks(b, field, S)
<1> DEFINE T == {i \in S : Seen(a[i][field])}
           BeforeA(i) == {k \in T : a[k][field] > a[i][field] \/ (k < i /\ ~(a[i][field] > a[k][field]))}
           BeforeB(i) == {k \in T : b[k][field] > b[i][field] \/ (k < i /\ ~(b[i][field] > b[k][field]))}
<1>1. T = {i \in S : Seen(b[i][field])}
    OBVIOUS
<1>2. T \subseteq DOMAIN a
    OBVIOUS
<1>3. \A i \in DOMAIN a : BeforeA(i) = BeforeB(i)
    BY <1>2
<1>4. Ranks(a, field, S) = [i \in DOMAIN a |-> IF i \in T THEN 1 + Cardinality(BeforeA(i)) ELSE 0]
    BY DEF Ranks, Place
<1> HIDE DEF T
<1>5. Ranks(b, field, S) = [i \in DOMAIN b |-> IF i \in T THEN 1 + Cardinality(BeforeB(i)) ELSE 0]
    BY <1>1 DEF Ranks, Place
<1> HIDE DEF BeforeA, BeforeB
<1> QED BY <1>3, <1>4, <1>5

\* The block and the authorization are read from the columns named above.
LEMMA AuthorizedReads ==
    ASSUME NEW a, NEW b, Alike(a, b, RankReads)
    PROVE  HardBlock(a) = HardBlock(b) /\ Authorized(a) = Authorized(b)
<1>1. a.blockers = b.blockers /\ a.tier = b.tier /\ a.class = b.class /\ a.state = b.state
    BY DEF Alike, RankReads, BlockReads
<1>2. /\ a.candidate = b.candidate /\ a.entry = b.entry /\ a.ready = b.ready /\ a.gate = b.gate
      /\ a.entryState = b.entryState /\ a.geometry = b.geometry /\ a.pays = b.pays
    BY DEF Alike, RankReads
<1>3. HardBlock(a) = HardBlock(b)
    BY <1>1 DEF HardBlock
<1>4. Authorized(a) = Authorized(b)
    BY <1>1, <1>2, <1>3 DEF Authorized
<1> QED BY <1>3, <1>4

\* So are the three ranks.
LEMMA RanksRead ==
    ASSUME NEW a, NEW b, DOMAIN a = DOMAIN b, \A k \in DOMAIN a : Alike(a[k], b[k], RankReads)
    PROVE  /\ Ranks(a, "conviction", DOMAIN a) = Ranks(b, "conviction", DOMAIN b)
           /\ Ranks(a, "leader", Unblocked(a)) = Ranks(b, "leader", Unblocked(b))
           /\ Ranks(a, "money", Tradable(a)) = Ranks(b, "money", Tradable(b))
           /\ \A k \in DOMAIN a : Authorized(a[k]) = Authorized(b[k])
<1>1. \A k \in DOMAIN a : a[k].conviction = b[k].conviction /\ a[k].leader = b[k].leader /\ a[k].money = b[k].money
    BY DEF Alike, RankReads
<1>2. \A k \in DOMAIN a : HardBlock(a[k]) = HardBlock(b[k]) /\ Authorized(a[k]) = Authorized(b[k])
    BY AuthorizedReads
<1>3. Unblocked(a) = Unblocked(b) /\ Tradable(a) = Tradable(b)
    BY <1>2 DEF Unblocked, Tradable
<1>4. Unblocked(a) \subseteq DOMAIN a /\ Tradable(a) \subseteq DOMAIN a
    BY DEF Unblocked, Tradable
<1>5. Ranks(a, "conviction", DOMAIN a) = Ranks(b, "conviction", DOMAIN a)
    BY <1>1, RankRead
<1>6. Ranks(a, "leader", Unblocked(a)) = Ranks(b, "leader", Unblocked(a))
    BY <1>1, <1>4, RankRead
<1>7. Ranks(a, "money", Tradable(a)) = Ranks(b, "money", Tradable(a))
    BY <1>1, <1>4, RankRead
<1> QED BY <1>2, <1>3, <1>5, <1>6, <1>7

\* apply_three_rank_contract writes the ranks of the radar it is given.
LEMMA ThreeRanksIs ==
    ASSUME NEW rows, \A k \in DOMAIN rows : IsRow(rows[k])
    PROVE  LET new == ThreeRanks(rows)
           IN /\ DOMAIN new = DOMAIN rows
              /\ \A k \in DOMAIN rows : Only(rows[k], new[k], RankColumns)
              /\ Ranked(new)
<1> DEFINE raw == Ranks(rows, "conviction", DOMAIN rows)
           guarded == Ranks(rows, "leader", Unblocked(rows))
           production == Ranks(rows, "money", Tradable(rows))
           new == ThreeRanks(rows)
<1>1. new = [i \in DOMAIN rows |-> [rows[i] EXCEPT !.rawRank = raw[i], !.guardedRank = guarded[i],
                                        !.productionRank = production[i], !.authorized = Authorized(rows[i])]]
    BY DEF ThreeRanks
<1> HIDE DEF raw, guarded, production, new
<1>2. DOMAIN new = DOMAIN rows
    BY <1>1
<1>3. ASSUME NEW k \in DOMAIN rows
      PROVE  /\ Only(rows[k], new[k], RankColumns)
             /\ new[k].rawRank = raw[k] /\ new[k].guardedRank = guarded[k]
             /\ new[k].productionRank = production[k] /\ new[k].authorized = Authorized(rows[k])
    <2> DEFINE row == rows[k]
               a == Authorized(row)
               out == [row EXCEPT !.rawRank = raw[k], !.guardedRank = guarded[k],
                                  !.productionRank = production[k], !.authorized = a]
    <2>1. new[k] = out
        BY <1>1
    <2>2. DOMAIN row = Columns /\ IsRow(row)
        BY DEF IsRow
    <2> HIDE DEF row, a
    <2>3. IsRow(out)
        BY <2>2 DEF IsRow
    <2>4. \A c \in Columns : c \notin RankColumns => out[c] = row[c]
        BY <2>2 DEF RankColumns
    <2>5. out.rawRank = raw[k] /\ out.guardedRank = guarded[k] /\ out.productionRank = production[k] /\ out.authorized = a
        BY <2>2 DEF Columns
    <2> HIDE DEF out
    <2> QED BY <2>1, <2>3, <2>4, <2>5 DEF Only, row, a
<1>4. \A k \in DOMAIN rows : Alike(rows[k], new[k], RankReads)
    BY <1>3 DEF Only, Alike, RankReads, BlockReads, Columns, RankColumns
<1>5. /\ raw = Ranks(new, "conviction", DOMAIN new) /\ guarded = Ranks(new, "leader", Unblocked(new))
      /\ production = Ranks(new, "money", Tradable(new))
      /\ \A k \in DOMAIN rows : Authorized(rows[k]) = Authorized(new[k])
    BY <1>2, <1>4, RanksRead DEF raw, guarded, production
<1>6. Ranked(new)
    BY <1>2, <1>3, <1>5 DEF Ranked
<1> QED BY <1>2, <1>3, <1>6 DEF new

\* A radar with the same scores and ranks is ranked likewise.
LEMMA RankedReads ==
    ASSUME NEW a, NEW b, DOMAIN a = DOMAIN b, \A k \in DOMAIN a : Alike(a[k], b[k], RankReads \cup RankColumns),
           Ranked(a)
    PROVE  Ranked(b)
<1>1. \A k \in DOMAIN a : Alike(a[k], b[k], RankReads)
    BY DEF Alike
<1>2. \A k \in DOMAIN a : /\ a[k].rawRank = b[k].rawRank /\ a[k].guardedRank = b[k].guardedRank
                          /\ a[k].productionRank = b[k].productionRank /\ a[k].authorized = b[k].authorized
    BY DEF Alike, RankColumns
<1>3. /\ Ranks(a, "conviction", DOMAIN a) = Ranks(b, "conviction", DOMAIN b)
      /\ Ranks(a, "leader", Unblocked(a)) = Ranks(b, "leader", Unblocked(b))
      /\ Ranks(a, "money", Tradable(a)) = Ranks(b, "money", Tradable(b))
      /\ \A k \in DOMAIN a : Authorized(a[k]) = Authorized(b[k])
    BY <1>1, RanksRead
<1> QED BY <1>2, <1>3 DEF Ranked

-----------------------------------------------------------------------------
(* A radar through the final decision.                                     *)

EnrichColumns == {"flow", "smart", "smartCoverage", "conviction", "foreign", "broker"}

\* The foreign flow writes its columns.
LEMMA ForeignOnly == ASSUME NEW row, IsRow(row), NEW f PROVE Only(row, EnrichForeign(row, f), EnrichColumns)
<1> DEFINE smart == Confirm(row.smart, row.smartCoverage, f.smart, f.coverage, 30)
           score == smart.score
           coverage == smart.coverage
           conviction == IF Seen(row.conviction)
                         THEN Clip(row.conviction + Delta(f.score, f.coverage, 25) \div 10) ELSE row.conviction
           lineage == [declared |-> "CANONICAL", marked |-> TRUE,
                       base |-> Remembered(<<row.smart, row.smartCoverage, row.conviction>>)]
           old == [row.foreign EXCEPT !.declared = LineageState(row.foreign)]
           told == [row EXCEPT !.foreign = old]
           anew == [row EXCEPT !.flow = f, !.smart = score, !.smartCoverage = coverage,
                               !.conviction = conviction, !.foreign = lineage]
<1>1. EnrichForeign(row, f) = told \/ EnrichForeign(row, f) = anew
    BY DEF EnrichForeign
<1>2. DOMAIN row = Columns
    BY DEF IsRow
<1> HIDE DEF smart, score, coverage, conviction, lineage, old
<1>3. IsRow(told) /\ IsRow(anew)
    BY DEF IsRow
<1>4. \A c \in Columns : c \notin EnrichColumns => told[c] = row[c] /\ anew[c] = row[c]
    BY <1>2 DEF EnrichColumns
<1> HIDE DEF told, anew
<1> QED BY <1>1, <1>3, <1>4 DEF Only

\* The broker cache writes its columns.
LEMMA BrokerOnly == ASSUME NEW row, IsRow(row), NEW b PROVE Only(row, EnrichBroker(row, b), EnrichColumns)
<1> DEFINE smart == Confirm(row.smart, 0, IF Seen(row.smart) THEN b.smart ELSE NaN, b.coverage, 20)
           score == smart.score
           conviction == IF Seen(row.conviction)
                         THEN Clip(row.conviction + Delta(Finite(b.smart, 50), b.coverage, 15) \div 10)
                         ELSE row.conviction
           lineage == [declared |-> "CANONICAL", marked |-> TRUE,
                       base |-> Remembered(<<row.smart, row.conviction, row.final>>)]
           old == [row.broker EXCEPT !.declared = LineageState(row.broker)]
           told == [row EXCEPT !.broker = old]
           anew == [row EXCEPT !.smart = score, !.conviction = conviction, !.broker = lineage]
<1>1. EnrichBroker(row, b) = told \/ EnrichBroker(row, b) = anew
    BY DEF EnrichBroker
<1>2. DOMAIN row = Columns
    BY DEF IsRow
<1> HIDE DEF smart, score, conviction, lineage, old
<1>3. IsRow(told) /\ IsRow(anew)
    BY DEF IsRow
<1>4. \A c \in Columns : c \notin EnrichColumns => told[c] = row[c] /\ anew[c] = row[c]
    BY <1>2 DEF EnrichColumns
<1> HIDE DEF told, anew
<1> QED BY <1>1, <1>3, <1>4 DEF Only

\* A row before its ranks: confirmed by the flows, passed over, and stamped with the release.
Stamped(row, f, b, d, rel) == [Pass(EnrichBroker(EnrichForeign(row, f), b), d) EXCEPT !.release = rel]
Passing(rows, evidence, foreign, broker, rel) ==
    [k \in DOMAIN rows |->
        Stamped(rows[k], foreign[rows[k].issuer], broker[rows[k].issuer], evidence[rows[k].issuer], rel)]

\* The final decision stamps each row and ranks the radar.
LEMMA FinalizedIs ==
    ASSUME NEW rows, NEW evidence, NEW foreign, NEW broker, NEW rel
    PROVE  Finalized(rows, evidence, foreign, broker, rel) = ThreeRanks(Passing(rows, evidence, foreign, broker, rel))
    BY DEF Finalized, Passing, Stamped, Pass

\* A row that may be finalized.
Able(row) == IsRow(row) /\ GateShape(row) /\ row.manualCap \in Nat /\ row.cap \in Int /\ row.lots \in Int
Unranked == Columns \ {"release", "foreign", "broker", "presentable"}

\* The flows write their columns and leave the row able to be finalized.
LEMMA FlowsOnly ==
    ASSUME NEW row, Able(row), NEW f, NEW b
    PROVE  LET new == EnrichBroker(EnrichForeign(row, f), b)
           IN Only(row, new, EnrichColumns) /\ Able(new)
<1> DEFINE told == EnrichForeign(row, f)
           new == EnrichBroker(told, b)
<1>1. Only(row, told, EnrichColumns)
    BY ForeignOnly DEF Able
<1> HIDE DEF told
<1>2. Only(told, new, EnrichColumns)
    BY <1>1, BrokerOnly DEF Only
<1> HIDE DEF new
<1>3. Only(row, new, EnrichColumns)
    BY <1>1, <1>2 DEF Only
<1>4. Alike(row, new, GateReads)
    BY <1>3 DEF Only, Alike, GateReads, EnrichColumns, Columns
<1>5. GateShape(new)
    BY <1>4, ShapeReads DEF Able
<1>6. new.manualCap = row.manualCap /\ new.cap = row.cap /\ new.lots = row.lots
    BY <1>3 DEF Only, EnrichColumns, Columns
<1>7. Able(new)
    BY <1>3, <1>5, <1>6 DEF Able, Only
<1> QED BY <1>3, <1>7 DEF new, told

\* The stamp of the release is all that is written with it.
LEMMA StampOnly ==
    ASSUME NEW row, IsRow(row), NEW rel
    PROVE  LET new == [row EXCEPT !.release = rel]
           IN Only(row, new, {"release"}) /\ new.release = rel
<1> DEFINE new == [row EXCEPT !.release = rel]
<1>1. DOMAIN row = Columns
    BY DEF IsRow
<1>2. IsRow(new)
    BY DEF IsRow
<1>3. new.release = rel /\ \A c \in Columns : c \notin {"release"} => new[c] = row[c]
    BY <1>1 DEF Columns
<1> HIDE DEF new
<1> QED BY <1>2, <1>3 DEF Only, new

\* Once it was passed over, a row is confirmed, closed to other flow, and frozen.
LEMMA RowStamped ==
    ASSUME NEW row, Able(row), NEW c, Confirmed(row, c), NEW f, IsFlow(f), NEW b, IsTape(b), NEW d, NEW rel
    PROVE  LET new == Stamped(row, f, b, d, rel)
           IN /\ IsRow(new) /\ new.issuer = row.issuer /\ new.release = rel
              /\ new.structure = row.structure /\ new.liquidity = row.liquidity
              /\ Confirmed(new, c) /\ Done(new.foreign) /\ Frozen(new, d)
<1> DEFINE told == EnrichBroker(EnrichForeign(row, f), b)
           p == Pass(told, d)
           new == [p EXCEPT !.release = rel]
<1>1. Only(row, told, EnrichColumns) /\ Able(told)
    BY FlowsOnly
<1>2. Confirmed(told, c) /\ Closed(row, told)
    BY FlowsClose DEF Able
<1> HIDE DEF told
<1>3. IsRow(p) /\ Alike(told, p, Lasting) /\ Frozen(p, d)
    BY <1>1, PassFreezes DEF Able
<1> HIDE DEF p
<1>4. Only(p, new, {"release"}) /\ new.release = rel
    BY <1>3, StampOnly
<1> HIDE DEF new
<1>5. Alike(told, new, Lasting)
    BY <1>3, <1>4 DEF Only, Alike, Lasting, Columns
<1>6. /\ new.conviction = told.conviction /\ new.smart = told.smart /\ new.smartCoverage = told.smartCoverage
      /\ new.foreign = told.foreign /\ new.broker = told.broker /\ new.issuer = told.issuer
      /\ new.structure = told.structure /\ new.liquidity = told.liquidity
    BY <1>5 DEF Alike, Lasting
<1>7. told.issuer = row.issuer /\ told.structure = row.structure /\ told.liquidity = row.liquidity
    BY <1>1 DEF Only, EnrichColumns, Columns
<1>8. Confirmed(new, c)
    BY <1>2, <1>6 DEF Confirmed
<1>9. Done(new.foreign)
    BY <1>2, <1>6 DEF Closed
<1>10. Frozen(new, d)
    <2>1. Alike(p, new, Columns \ Stamps)
        BY <1>4 DEF Only, Alike, Stamps
    <2> QED BY <1>3, <2>1, FrozenReads
<1>11. IsRow(new)
    BY <1>4 DEF Only
<1> QED BY <1>4, <1>6, <1>7, <1>8, <1>9, <1>10, <1>11 DEF Stamped, new, p, told

\* Some source told of the integrity of an issuer.
Sourced(d) == d.integrity.provenance # ""

\* A row that is closed and frozen keeps all it has, but for its lineages and the stamp.
LEMMA RowStays ==
    ASSUME NEW row, Able(row), NEW c, Confirmed(row, c), NEW f, IsFlow(f), NEW b, IsTape(b), NEW d, NEW rel,
           Done(row.foreign), Frozen(row, d)
    PROVE  LET new == Stamped(row, f, b, d, rel)
           IN /\ Alike(row, new, Unranked)
              /\ Sourced(d) => new.presentable = row.presentable
<1> DEFINE told == EnrichBroker(EnrichForeign(row, f), b)
           p == Pass(told, d)
           new == [p EXCEPT !.release = rel]
<1>1. Only(row, told, EnrichColumns) /\ Able(told)
    BY FlowsOnly
<1>2. Closed(row, told)
    BY FlowsClose DEF Able
<1> HIDE DEF told
<1>3. Alike(row, told, Columns \ {"foreign", "broker"})
    BY <1>1, <1>2 DEF Only, Closed, Alike, EnrichColumns
<1>4. Frozen(told, d)
    <2>1. Alike(row, told, Columns \ Stamps)
        BY <1>3 DEF Alike, Stamps
    <2> QED BY <2>1, FrozenReads
<1>5. IsRow(p) /\ Alike(told, p, Columns \ {"presentable"}) /\ (Sourced(d) => Alike(told, p, Columns))
    BY <1>1, <1>4, FrozenPasses DEF Able, Sourced
<1> HIDE DEF p
<1>6. Only(p, new, {"release"})
    BY <1>5, StampOnly
<1> HIDE DEF new
<1>7. Alike(row, new, Unranked)
    BY <1>3, <1>5, <1>6 DEF Only, Alike, Unranked
<1>8. Sourced(d) => new.presentable = row.presentable
    <2>1. "presentable" \in Columns /\ "presentable" \notin {"release"} /\ "presentable" \notin {"foreign", "broker"}
        BY DEF Columns
    <2> QED BY <1>3, <1>5, <1>6, <2>1 DEF Only, Alike
<1> QED BY <1>7, <1>8 DEF Stamped, new, p, told

\* A radar through the final decision.
LEMMA FinalizedRows ==
    ASSUME NEW rows, NEW evidence, NEW foreign, NEW broker, NEW rel, NEW first,
           \A k \in DOMAIN rows : Able(rows[k]),
           \A k \in DOMAIN rows : Confirmed(rows[k], first[rows[k].issuer]),
           \A k \in DOMAIN rows : IsFlow(foreign[rows[k].issuer]),
           \A k \in DOMAIN rows : IsTape(broker[rows[k].issuer])
    PROVE  LET done == Finalized(rows, evidence, foreign, broker, rel)
           IN /\ DOMAIN done = DOMAIN rows /\ done = [k \in DOMAIN done |-> done[k]] /\ Ranked(done)
              /\ \A k \in DOMAIN rows :
                    /\ IsRow(done[k]) /\ done[k].issuer = rows[k].issuer /\ done[k].release = rel
                    /\ done[k].structure = rows[k].structure /\ done[k].liquidity = rows[k].liquidity
                    /\ Confirmed(done[k], first[rows[k].issuer]) /\ Done(done[k].foreign)
                    /\ Frozen(done[k], evidence[rows[k].issuer])
<1> DEFINE table == Passing(rows, evidence, foreign, broker, rel)
           done == Finalized(rows, evidence, foreign, broker, rel)
           e(k) == evidence[rows[k].issuer]
           c(k) == first[rows[k].issuer]
<1>1. done = ThreeRanks(table)
    BY FinalizedIs
<1>2. DOMAIN table = DOMAIN rows
    BY DEF Passing
<1>3. ASSUME NEW k \in DOMAIN rows
      PROVE  /\ IsRow(table[k]) /\ table[k].issuer = rows[k].issuer /\ table[k].release = rel
             /\ table[k].structure = rows[k].structure /\ table[k].liquidity = rows[k].liquidity
             /\ Confirmed(table[k], c(k)) /\ Done(table[k].foreign) /\ Frozen(table[k], e(k))
    <2> DEFINE row == rows[k]
               f == foreign[row.issuer]
               b == broker[row.issuer]
    <2>1. table[k] = Stamped(row, f, b, e(k), rel)
        BY DEF Passing
    <2>2. Able(row) /\ Confirmed(row, c(k)) /\ IsFlow(f) /\ IsTape(b)
        OBVIOUS
    <2> HIDE DEF f, b, c, e, table
    <2> QED BY <2>1, <2>2, RowStamped
<1>r. done = [k \in DOMAIN done |-> done[k]]
    BY <1>1 DEF ThreeRanks
<1> HIDE DEF table, done, c, e
<1>4. /\ DOMAIN done = DOMAIN rows /\ Ranked(done)
      /\ \A k \in DOMAIN rows : Only(table[k], done[k], RankColumns)
    BY <1>1, <1>2, <1>3, ThreeRanksIs
<1>5. ASSUME NEW k \in DOMAIN rows
      PROVE  /\ IsRow(done[k]) /\ done[k].issuer = rows[k].issuer /\ done[k].release = rel
             /\ done[k].structure = rows[k].structure /\ done[k].liquidity = rows[k].liquidity
             /\ Confirmed(done[k], c(k)) /\ Done(done[k].foreign) /\ Frozen(done[k], e(k))
    <2> DEFINE new == done[k]
               old == table[k]
    <2>1. Only(old, new, RankColumns)
        BY <1>4
    <2>2. /\ old.issuer = rows[k].issuer /\ old.release = rel
          /\ old.structure = rows[k].structure /\ old.liquidity = rows[k].liquidity
          /\ Confirmed(old, c(k)) /\ Done(old.foreign) /\ Frozen(old, e(k))
        BY <1>3
    <2> HIDE DEF new, old
    <2>3. /\ new.issuer = old.issuer /\ new.release = old.release /\ new.foreign = old.foreign
          /\ new.broker = old.broker /\ new.conviction = old.conviction /\ new.smart = old.smart
          /\ new.smartCoverage = old.smartCoverage /\ new.structure = old.structure /\ new.liquidity = old.liquidity
        BY <2>1 DEF Only, RankColumns, Columns
    <2>4. Confirmed(new, c(k))
        BY <2>2, <2>3 DEF Confirmed
    <2>5. Frozen(new, e(k))
        <3>1. Alike(old, new, Columns \ Stamps)
            BY <2>1 DEF Only, Alike, Stamps, RankColumns
        <3> QED BY <2>2, <3>1, FrozenReads
    <2>6. IsRow(new)
        BY <2>1 DEF Only
    <2> QED BY <2>2, <2>3, <2>4, <2>5, <2>6 DEF new
<1> QED BY <1>4, <1>5, <1>r DEF c, e, done

\* One that was finalized before.
LEMMA FinalizedStays ==
    ASSUME NEW rows, NEW evidence, NEW foreign, NEW broker, NEW rel, NEW first,
           \A k \in DOMAIN rows : Able(rows[k]),
           \A k \in DOMAIN rows : Confirmed(rows[k], first[rows[k].issuer]),
           \A k \in DOMAIN rows : IsFlow(foreign[rows[k].issuer]),
           \A k \in DOMAIN rows : IsTape(broker[rows[k].issuer]),
           \A k \in DOMAIN rows : Done(rows[k].foreign) /\ Frozen(rows[k], evidence[rows[k].issuer]),
           Ranked(rows)
    PROVE  LET done == Finalized(rows, evidence, foreign, broker, rel)
           IN \A k \in DOMAIN rows :
                 /\ Alike(rows[k], done[k], Unranked)
                 /\ Sourced(evidence[rows[k].issuer]) => done[k].presentable = rows[k].presentable
<1> DEFINE table == Passing(rows, evidence, foreign, broker, rel)
           done == Finalized(rows, evidence, foreign, broker, rel)
           e(k) == evidence[rows[k].issuer]
           c(k) == first[rows[k].issuer]
<1>1. done = ThreeRanks(table)
    BY FinalizedIs
<1>2. DOMAIN table = DOMAIN rows
    BY DEF Passing
<1>3. ASSUME NEW k \in DOMAIN rows
      PROVE  /\ IsRow(table[k]) /\ Alike(rows[k], table[k], Unranked)
             /\ Sourced(e(k)) => table[k].presentable = rows[k].presentable
    <2> DEFINE row == rows[k]
               f == foreign[row.issuer]
               b == broker[row.issuer]
    <2>1. table[k] = Stamped(row, f, b, e(k), rel)
        BY DEF Passing
    <2>2. Able(row) /\ Confirmed(row, c(k)) /\ IsFlow(f) /\ IsTape(b) /\ Done(row.foreign) /\ Frozen(row, e(k))
        OBVIOUS
    <2> HIDE DEF f, b, c, e, table
    <2>3. IsRow(table[k])
        BY <2>1, <2>2, RowStamped
    <2> DEFINE d == e(k)
               a == c(k)
               new == Stamped(row, f, b, d, rel)
    <2>4. Able(row) /\ Confirmed(row, a) /\ IsFlow(f) /\ IsTape(b) /\ Done(row.foreign) /\ Frozen(row, d)
        BY <2>2
    <2> HIDE DEF row, d, a
    <2>5. Alike(row, new, Unranked)
        BY <2>4, RowStays
    <2>6. Sourced(d) => new.presentable = row.presentable
        BY <2>4, RowStays
    <2> HIDE DEF new
    <2> QED BY <2>1, <2>3, <2>5, <2>6 DEF row, d, new
<1> HIDE DEF table, done, c, e
<1>4. /\ DOMAIN done = DOMAIN rows /\ Ranked(done)
      /\ \A k \in DOMAIN rows : Only(table[k], done[k], RankColumns)
    BY <1>1, <1>2, <1>3, ThreeRanksIs
<1>5. \A k \in DOMAIN rows : Alike(rows[k], done[k], Unranked \ RankColumns)
    BY <1>3, <1>4 DEF Only, Alike, Unranked
<1>6. \A k \in DOMAIN rows : Alike(rows[k], done[k], RankReads)
    <2>1. RankReads \subseteq Unranked \ RankColumns
        BY DEF RankReads, BlockReads, Unranked, RankColumns, Columns
    <2> QED BY <1>5, <2>1 DEF Alike
<1>7. /\ Ranks(rows, "conviction", DOMAIN rows) = Ranks(done, "conviction", DOMAIN done)
      /\ Ranks(rows, "leader", Unblocked(rows)) = Ranks(done, "leader", Unblocked(done))
      /\ Ranks(rows, "money", Tradable(rows)) = Ranks(done, "money", Tradable(done))
      /\ \A k \in DOMAIN rows : Authorized(rows[k]) = Authorized(done[k])
    BY <1>4, <1>6, RanksRead
<1>8. \A k \in DOMAIN rows : Alike(rows[k], done[k], RankColumns)
    <2> SUFFICES ASSUME NEW k \in DOMAIN rows PROVE Alike(rows[k], done[k], RankColumns)
        OBVIOUS
    <2>1. k \in DOMAIN done
        BY <1>4
    <2>2. rows[k].rawRank = done[k].rawRank
        BY <1>4, <1>7, <2>1 DEF Ranked
    <2>3. rows[k].guardedRank = done[k].guardedRank
        BY <1>4, <1>7, <2>1 DEF Ranked
    <2>4. rows[k].productionRank = done[k].productionRank
        BY <1>4, <1>7, <2>1 DEF Ranked
    <2>5. rows[k].authorized = done[k].authorized
        BY <1>4, <1>7, <2>1 DEF Ranked
    <2> QED BY <2>2, <2>3, <2>4, <2>5 DEF Alike, RankColumns
<1>9. \A k \in DOMAIN rows : Sourced(e(k)) => done[k].presentable = rows[k].presentable
    BY <1>3, <1>4 DEF Only, RankColumns, Columns
<1>10. \A k \in DOMAIN rows : Alike(rows[k], done[k], Unranked)
    BY <1>5, <1>8 DEF Alike
<1> QED BY <1>9, <1>10 DEF e, done

\* What becomes of a row: it is scored, then confirmed once, and frozen by the release that
\* finalizes it.
FinalRow(row, d, c) ==
    /\ Confirmed(row, c) /\ row.release \in 0..MaxRelease
    /\ row.structure = StructureScore(d.features) /\ row.liquidity = LiquidityScore(d.features.adtv)
    /\ row.release = 0 => /\ row.rawRank = 0 /\ row.guardedRank = 0 /\ row.productionRank = 0
                          /\ row.authorized = FALSE
    /\ row.release > 0 => Done(row.foreign) /\ Frozen(row, d)

FinalInv ==
    /\ release \in 1..MaxRelease
    /\ radar # <<>> =>
          /\ given = [i \in Issuers |-> Profile(Evidence(i)).conviction]
          /\ DOMAIN radar = 1..Cardinality(Issuers) /\ radar = [k \in DOMAIN radar |-> radar[k]]
          /\ \A i \in Issuers : \E k \in DOMAIN radar : radar[k].issuer = i
    /\ \A i \in Issuers, k \in DOMAIN radar : radar[k].issuer = i => FinalRow(radar[k], Evidence(i), given[i])
    /\ (\E k \in DOMAIN radar : radar[k].release > 0) => Ranked(radar)

\* The invariant holds initially.
LEMMA FinalInvInit == Init => FinalInv
<1> SUFFICES ASSUME Init PROVE FinalInv
    OBVIOUS
<1>1. radar = <<>> /\ DOMAIN radar = {} /\ release = 1
    BY DEF Init
<1>2. 1 \in 1..MaxRelease
    BY DecisionsAssumption
<1> QED BY <1>1, <1>2 DEF FinalInv

\* A scored row is open to the providers, and has no rank.
LEMMA ScoredFinal ==
    ASSUME case \in Cases, NEW i \in Issuers
    PROVE  FinalRow(RadarRow(i, Evidence(i)), Evidence(i), Profile(Evidence(i)).conviction)
<1> DEFINE d == Evidence(i)
           p == Profile(d)
           row == RadarRow(i, d)
<1>1. IsFull(d)
    BY FullEvidence
<1>2. p.conviction = Conviction(d)
    BY ProfileIs
<1>3. p.conviction \in Percent
    BY <1>1, <1>2, ConvictionIs
<1>4. d.features.smart \in Percent /\ d.features.smartCoverage \in Nat
    BY <1>1 DEF IsFull, IsFeatures
<1> HIDE DEF d, p
<1>5. /\ row.conviction = p.conviction /\ row.smart = d.features.smart
      /\ row.smartCoverage = d.features.smartCoverage
      /\ row.foreign = Fresh /\ row.broker = Fresh /\ row.release = 0
      /\ row.rawRank = 0 /\ row.guardedRank = 0 /\ row.productionRank = 0 /\ row.authorized = FALSE
      /\ row.structure = StructureScore(d.features) /\ row.liquidity = LiquidityScore(d.features.adtv)
    BY DEF RadarRow, Sized, p
<1> HIDE DEF row
<1>6. Seen(row.conviction) => row.conviction - p.conviction \in -5..5
    <2>1. row.conviction \in Int /\ row.conviction = p.conviction
        BY <1>3, <1>5 DEF Percent, NaN
    <2> QED BY <2>1
<1>7. Confirmed(row, p.conviction)
    BY <1>3, <1>4, <1>5, <1>6 DEF Confirmed
<1>8. 0 \in 0..MaxRelease /\ ~(0 > 0)
    BY DecisionsAssumption
<1> QED BY <1>5, <1>7, <1>8 DEF FinalRow, row, p, d

\* Scoring establishes it.
LEMMA ScoreFinal == ASSUME DecInv, FinalInv, Score PROVE FinalInv'
<1> DEFINE c == [i \in Issuers |-> Profile(Evidence(i)).conviction]
<1>1. /\ case \in Cases /\ case' = case /\ release' = release /\ radar' \in RadarSort(ScoredRows) /\ given' = c
    BY DEF DecInv, Score, ScoredRows
<1>2. /\ DOMAIN radar' = 1..Cardinality(Issuers)
      /\ \A k \in DOMAIN radar' : radar'[k] \in ScoredRows
      /\ \A s \in ScoredRows : \E k \in DOMAIN radar' : radar'[k] = s
    BY <1>1, SortIs, ScoredRowsAre
<1>3. radar' = [k \in DOMAIN radar' |-> radar'[k]]
    BY <1>1 DEF RadarSort, SetToSeqs
<1>4. \A i : Evidence(i)' = Evidence(i)
    BY <1>1, EvidenceStays
<1>5. given' = [i \in Issuers |-> Profile(Evidence(i)').conviction]
    BY <1>1, <1>4
<1>6. \A i \in Issuers : \E k \in DOMAIN radar' : radar'[k].issuer = i
    BY <1>1, <1>2, ScoredRowsAre
<1>7. ASSUME NEW k \in DOMAIN radar'
      PROVE  \E j \in Issuers : radar'[k].issuer = j /\ FinalRow(radar'[k], Evidence(j), c[j]) /\ radar'[k].release = 0
    <2>1. PICK j \in Issuers : radar'[k] = RadarRow(j, Evidence(j))
        BY <1>2 DEF ScoredRows
    <2>2. FinalRow(radar'[k], Evidence(j), c[j])
        BY <1>1, <2>1, ScoredFinal
    <2> QED BY <1>1, <2>1, <2>2, ScoredRow
<1>8. \A i \in Issuers, k \in DOMAIN radar' : radar'[k].issuer = i => FinalRow(radar'[k], Evidence(i)', given'[i])
    BY <1>1, <1>4, <1>7
<1>9. ~\E k \in DOMAIN radar' : radar'[k].release > 0
    BY <1>7
<1>10. release' \in 1..MaxRelease
    BY <1>1 DEF FinalInv
<1> QED BY <1>2, <1>3, <1>5, <1>6, <1>8, <1>9, <1>10 DEF FinalInv

\* What a later step has to keep of the rows.
LEMMA RowsFinal ==
    ASSUME DecInv, FinalInv, radar # <<>>, case' = case, given' = given, release' \in 1..MaxRelease,
           DOMAIN radar' = DOMAIN radar, radar' = [k \in DOMAIN radar' |-> radar'[k]],
           \A k \in DOMAIN radar : radar'[k].issuer = radar[k].issuer,
           \A i \in Issuers, k \in DOMAIN radar : radar[k].issuer = i => FinalRow(radar'[k], Evidence(i), given[i]),
           (\E k \in DOMAIN radar : radar'[k].release > 0) => Ranked(radar')
    PROVE  FinalInv'
<1>1. \A i : Evidence(i)' = Evidence(i)
    BY EvidenceStays
<1>2. /\ given = [i \in Issuers |-> Profile(Evidence(i)).conviction]
      /\ DOMAIN radar = 1..Cardinality(Issuers)
      /\ \A i \in Issuers : \E k \in DOMAIN radar : radar[k].issuer = i
    BY DEF FinalInv
<1>3. given' = [i \in Issuers |-> Profile(Evidence(i)').conviction]
    BY <1>1, <1>2
<1>4. \A i \in Issuers : \E k \in DOMAIN radar' : radar'[k].issuer = i
    BY <1>2
<1>5. \A i \in Issuers, k \in DOMAIN radar' : radar'[k].issuer = i => FinalRow(radar'[k], Evidence(i)', given'[i])
    BY <1>1
<1> QED BY <1>2, <1>3, <1>4, <1>5 DEF FinalInv

\* A row that an older release enriched in place is closed to other flow.
LEMMA LoadedRow ==
    ASSUME NEW row, IsRow(row), NEW d, NEW c, FinalRow(row, d, c), row.foreign = Fresh, NEW f, IsFlow(f),
           NEW conviction, conviction = IF Seen(row.conviction)
                                        THEN Clip(row.conviction + Delta(f.score, f.coverage, 25) \div 10)
                                        ELSE row.conviction,
           NEW new, Only(row, new, {"flow", "conviction", "foreign", "broker", "loaded"}), new.conviction = conviction,
           Done(new.foreign), Done(new.broker)
    PROVE  new.issuer = row.issuer /\ new.release = 0 /\ FinalRow(new, d, c)
<1>1. ~Done(row.foreign) /\ Confirmed(row, c)
    BY FreshIs DEF FinalRow
<1>2. /\ row.conviction \in Percent /\ row.smart \in Percent /\ row.smartCoverage \in Nat
      /\ row.broker = Fresh /\ row.conviction = c
    BY <1>1 DEF Confirmed
<1>3. row.release = 0
    BY <1>1 DEF FinalRow
<1>8. /\ new.issuer = row.issuer /\ new.release = row.release /\ new.smart = row.smart
      /\ new.smartCoverage = row.smartCoverage /\ new.structure = row.structure /\ new.liquidity = row.liquidity
      /\ new.rawRank = row.rawRank /\ new.guardedRank = row.guardedRank
      /\ new.productionRank = row.productionRank /\ new.authorized = row.authorized
    BY DEF Only, Columns
<1>9. conviction \in Percent /\ (Seen(conviction) => conviction - c \in -5..5)
    <2>1. f.score \in Int /\ f.coverage \in Int
        BY DEF IsFlow
    <2>2. row.conviction \in 0..100 \/ row.conviction = NaN
        BY <1>2 DEF Percent
    <2>3. CASE row.conviction \in 0..100
        <3>1. Seen(row.conviction)
            BY <2>3 DEF Seen, NaN
        <3>2. conviction = Clip(row.conviction + Delta(f.score, f.coverage, 25) \div 10)
            BY <3>1, SMTT(30)
        <3>3. conviction \in 0..100 /\ conviction - row.conviction \in -3..2
            BY <2>1, <2>3, <3>2, MovedBy25
        <3> QED BY <1>2, <3>3 DEF Percent
    <2>4. CASE row.conviction = NaN
        <3>1. conviction = NaN
            BY <2>4 DEF Seen
        <3> QED BY <3>1 DEF Percent, Seen
    <2> QED BY <2>2, <2>3, <2>4
<1>10. Confirmed(new, c)
    BY <1>2, <1>8, <1>9 DEF Confirmed
<1>11. ~(new.release > 0)
    BY <1>3, <1>8
<1> QED BY <1>3, <1>8, <1>10, <1>11 DEF FinalRow

\* What both invariants say of the row in place k.
LEMMA RowOf ==
    ASSUME DecInv, FinalInv, NEW k \in DOMAIN radar
    PROVE  LET row == radar[k]
               i == row.issuer
           IN /\ i \in Issuers /\ Able(row) /\ FinalRow(row, Evidence(i), given[i])
              /\ Confirmed(row, given[i]) /\ row.release \in 0..MaxRelease
<1>1. radar[k].issuer \in Issuers /\ Able(radar[k])
    BY NumbersOf DEF Able
<1>2. FinalRow(radar[k], Evidence(radar[k].issuer), given[radar[k].issuer])
    BY <1>1 DEF FinalInv
<1> QED BY <1>1, <1>2 DEF FinalRow

\* Rows read back keep it.
LEMMA LoadFinal == ASSUME DecInv, FinalInv, LoadOlder PROVE FinalInv'
<1>1. PICK answer \in case.answers :
          LET f == Foreign(answer.foreign)
              Conviction2(row) == IF Seen(row.conviction)
                                  THEN Clip(row.conviction + Delta(f[row.issuer].score, f[row.issuer].coverage, 25) \div 10)
                                  ELSE row.conviction
          IN radar' = [k \in DOMAIN radar |->
                         [radar[k] EXCEPT !.flow = f[radar[k].issuer], !.conviction = Conviction2(radar[k]),
                                          !.foreign.marked = TRUE, !.broker.marked = TRUE, !.loaded = TRUE]]
    BY DEF LoadOlder
<1>2. /\ radar # <<>> /\ case' = case /\ given' = given /\ release' = release
      /\ \A k \in DOMAIN radar : radar[k].foreign = Fresh
    BY DEF LoadOlder
<1> DEFINE f == Foreign(answer.foreign)
           Moved(row) == IF Seen(row.conviction)
                         THEN Clip(row.conviction + Delta(f[row.issuer].score, f[row.issuer].coverage, 25) \div 10)
                         ELSE row.conviction
<1>3. \A i \in Issuers : IsFlow(f[i])
    BY ForeignIs DEF DecInv
<1> HIDE DEF f
<1>4. /\ DOMAIN radar' = DOMAIN radar /\ radar' = [k \in DOMAIN radar' |-> radar'[k]]
      /\ \A k \in DOMAIN radar :
            radar'[k] = [radar[k] EXCEPT !.flow = f[radar[k].issuer], !.conviction = Moved(radar[k]),
                                         !.foreign.marked = TRUE, !.broker.marked = TRUE, !.loaded = TRUE]
    BY <1>1 DEF f
<1>5. ASSUME NEW k \in DOMAIN radar
      PROVE  /\ radar'[k].issuer = radar[k].issuer /\ radar'[k].release = 0
             /\ \A i \in Issuers : radar[k].issuer = i => FinalRow(radar'[k], Evidence(i), given[i])
    <2> DEFINE row == radar[k]
               i == row.issuer
               moved == Moved(row)
               g == f[i]
               new == radar'[k]
               d == Evidence(i)
               c == given[i]
               foreign == [row.foreign EXCEPT !.marked = TRUE]
               broker == [row.broker EXCEPT !.marked = TRUE]
    <2>1. /\ i \in Issuers /\ IsRow(row) /\ FinalRow(row, d, c) /\ row.foreign = Fresh /\ IsFlow(g)
        BY <1>2, <1>3, RowOf DEF Able
    <2>2. moved = IF Seen(row.conviction) THEN Clip(row.conviction + Delta(g.score, g.coverage, 25) \div 10)
                  ELSE row.conviction
        OBVIOUS
    <2>3. new = [row EXCEPT !.flow = g, !.conviction = moved, !.foreign.marked = TRUE, !.broker.marked = TRUE, !.loaded = TRUE]
        BY <1>4
    <2> HIDE DEF row, moved, g, new, d, c
    <2>4. new = [row EXCEPT !.flow = g, !.conviction = moved, !.foreign = foreign, !.broker = broker, !.loaded = TRUE]
        BY <2>3
    <2>5. Done(foreign) /\ Done(broker)
        <3>1. row.broker = Fresh \/ Done(row.broker)
            BY <2>1 DEF FinalRow, Confirmed
        <3> QED BY <2>1, <3>1, MarkedIsDone
    <2> HIDE DEF foreign, broker
    <2>7. DOMAIN row = Columns
        BY <2>1 DEF IsRow
    <2>8. IsRow(new)
        BY <2>1, <2>4 DEF IsRow
    <2>9. new.conviction = moved /\ new.foreign = foreign /\ new.broker = broker
        BY <2>4, <2>7 DEF Columns
    <2>10. \A n \in Columns : n \notin {"flow", "conviction", "foreign", "broker", "loaded"} => new[n] = row[n]
        BY <2>4, <2>7
    <2>11. Only(row, new, {"flow", "conviction", "foreign", "broker", "loaded"})
        BY <2>8, <2>10 DEF Only
    <2>6. new.issuer = row.issuer /\ new.release = 0 /\ FinalRow(new, d, c)
        BY <2>1, <2>2, <2>5, <2>9, <2>11, LoadedRow
    <2> QED BY <2>6 DEF row, new, d, c
<1>6. ~\E k \in DOMAIN radar : radar'[k].release > 0
    BY <1>5
<1>7. release' \in 1..MaxRelease
    BY <1>2 DEF FinalInv
<1> QED BY <1>2, <1>4, <1>5, <1>6, <1>7, RowsFinal

\* A later release marks a row as read back.
LEMMA UpgradedRow ==
    ASSUME NEW row, IsRow(row), NEW new, new = [row EXCEPT !.loaded = TRUE]
    PROVE  Only(row, new, {"loaded"})
<1>1. IsRow(new)
    BY DEF IsRow
<1>2. DOMAIN row = Columns
    BY DEF IsRow
<1>3. \A n \in Columns : n \notin {"loaded"} => new[n] = row[n]
    BY <1>2
<1> QED BY <1>1, <1>3 DEF Only

\* It keeps the invariant.
LEMMA UpgradeFinal == ASSUME DecInv, FinalInv, Upgrade PROVE FinalInv'
<1>1. /\ radar # <<>> /\ case' = case /\ given' = given /\ release' = release + 1 /\ release < MaxRelease
      /\ radar' = [k \in DOMAIN radar |-> [radar[k] EXCEPT !.loaded = TRUE]]
    BY DEF Upgrade
<1>2. DOMAIN radar' = DOMAIN radar /\ radar' = [k \in DOMAIN radar' |-> radar'[k]]
    BY <1>1
<1>3. \A k \in DOMAIN radar : Only(radar[k], radar'[k], {"loaded"})
    <2> SUFFICES ASSUME NEW k \in DOMAIN radar PROVE Only(radar[k], radar'[k], {"loaded"})
        OBVIOUS
    <2> DEFINE row == radar[k]
    <2>1. radar'[k] = [row EXCEPT !.loaded = TRUE] /\ IsRow(row)
        BY <1>1, RowOf DEF Able
    <2> HIDE DEF row
    <2> QED BY <2>1, UpgradedRow DEF row
<1>4. \A k \in DOMAIN radar : Alike(radar[k], radar'[k], Columns \ {"loaded"})
    BY <1>3 DEF Only, Alike
<1>5. \A k \in DOMAIN radar : radar'[k].issuer = radar[k].issuer /\ radar'[k].release = radar[k].release
    BY <1>4 DEF Alike, Columns
<1>6. ASSUME NEW i \in Issuers, NEW k \in DOMAIN radar, radar[k].issuer = i
      PROVE  FinalRow(radar'[k], Evidence(i), given[i])
    <2> DEFINE old == radar[k]
               new == radar'[k]
               d == Evidence(i)
               c == given[i]
    <2>1. Alike(old, new, Columns \ {"loaded"}) /\ FinalRow(old, d, c)
        BY <1>4, <1>6, RowOf
    <2> HIDE DEF old, new, d, c
    <2>2. /\ new.conviction = old.conviction /\ new.smart = old.smart /\ new.smartCoverage = old.smartCoverage
          /\ new.foreign = old.foreign /\ new.broker = old.broker /\ new.release = old.release
          /\ new.structure = old.structure /\ new.liquidity = old.liquidity
          /\ new.rawRank = old.rawRank /\ new.guardedRank = old.guardedRank
          /\ new.productionRank = old.productionRank /\ new.authorized = old.authorized
        BY <2>1 DEF Alike, Columns
    <2>3. Frozen(old, d) => Frozen(new, d)
        <3>1. Alike(old, new, Columns \ Stamps)
            BY <2>1 DEF Alike, Stamps
        <3> QED BY <3>1, FrozenReads
    <2>4. FinalRow(new, d, c)
        BY <2>1, <2>2, <2>3 DEF FinalRow, Confirmed
    <2> QED BY <2>4 DEF new, d, c
<1>7. (\E k \in DOMAIN radar : radar'[k].release > 0) => Ranked(radar')
    <2> SUFFICES ASSUME \E k \in DOMAIN radar : radar'[k].release > 0 PROVE Ranked(radar')
        OBVIOUS
    <2>1. Ranked(radar)
        BY <1>5 DEF FinalInv
    <2>2. \A k \in DOMAIN radar : Alike(radar[k], radar'[k], RankReads \cup RankColumns)
        <3>1. RankReads \cup RankColumns \subseteq Columns \ {"loaded"}
            BY DEF RankReads, BlockReads, RankColumns, Columns
        <3> QED BY <1>4, <3>1 DEF Alike
    <2> QED BY <1>2, <2>1, <2>2, RankedReads
<1>8. release' \in 1..MaxRelease
    BY <1>1, DecisionsAssumption DEF FinalInv
<1> QED BY <1>1, <1>2, <1>5, <1>6, <1>7, <1>8, RowsFinal

\* What finalizing starts from.
LEMMA FinalizeFrom ==
    ASSUME DecInv, FinalInv, NEW answer \in case.answers
    PROVE  LET f == Foreign(answer.foreign)
               b == Broker(answer.broker)
           IN \A k \in DOMAIN radar :
                 /\ Able(radar[k]) /\ Confirmed(radar[k], given[radar[k].issuer])
                 /\ IsFlow(f[radar[k].issuer]) /\ IsTape(b[radar[k].issuer])
<1>1. case \in Cases
    BY DEF DecInv
<1> DEFINE f == Foreign(answer.foreign)
           b == Broker(answer.broker)
<1>2. \A i \in Issuers : IsFlow(f[i]) /\ IsTape(b[i])
    BY <1>1, ForeignIs, BrokerAnswerIs
<1> HIDE DEF f, b
<1> QED BY <1>2, RowOf DEF f, b

\* The final decision keeps the invariant.
LEMMA FinalizeFinal == ASSUME DecInv, FinalInv, Finalize PROVE FinalInv'
<1> DEFINE evidence == [i \in Issuers |-> Evidence(i)]
<1>1. PICK answer \in case.answers :
          radar' = Finalized(radar, evidence, Foreign(answer.foreign), Broker(answer.broker), release)
    BY DEF Finalize
<1>2. radar # <<>> /\ case' = case /\ given' = given /\ release' = release
    BY DEF Finalize
<1> DEFINE f == Foreign(answer.foreign)
           b == Broker(answer.broker)
           done == Finalized(radar, evidence, f, b, release)
<1>3. \A k \in DOMAIN radar : /\ Able(radar[k]) /\ Confirmed(radar[k], given[radar[k].issuer])
                              /\ IsFlow(f[radar[k].issuer]) /\ IsTape(b[radar[k].issuer])
    BY FinalizeFrom
<1>4. radar' = done
    BY <1>1
<1>5. \A i \in Issuers : evidence[i] = Evidence(i)
    OBVIOUS
<1> HIDE DEF evidence, f, b
<1>6. /\ DOMAIN done = DOMAIN radar /\ done = [k \in DOMAIN done |-> done[k]] /\ Ranked(done)
      /\ \A k \in DOMAIN radar :
            /\ IsRow(done[k]) /\ done[k].issuer = radar[k].issuer /\ done[k].release = release
            /\ done[k].structure = radar[k].structure /\ done[k].liquidity = radar[k].liquidity
            /\ Confirmed(done[k], given[radar[k].issuer]) /\ Done(done[k].foreign)
            /\ Frozen(done[k], evidence[radar[k].issuer])
    BY <1>3, FinalizedRows
<1> HIDE DEF done
<1>7. release \in 1..MaxRelease
    BY DEF FinalInv
<1>8. ASSUME NEW i \in Issuers, NEW k \in DOMAIN radar, radar[k].issuer = i
      PROVE  FinalRow(radar'[k], Evidence(i), given[i])
    <2> DEFINE new == done[k]
               d == Evidence(i)
               c == given[i]
    <2>1. /\ new.release = release /\ Confirmed(new, c) /\ Done(new.foreign) /\ Frozen(new, d)
        BY <1>5, <1>6, <1>8
    <2>2. new.structure = StructureScore(d.features) /\ new.liquidity = LiquidityScore(d.features.adtv)
        BY <1>6, <1>8, RowOf DEF FinalRow
    <2> HIDE DEF new, d, c
    <2>3. new.release \in 0..MaxRelease /\ new.release # 0
        BY <1>7, <2>1, DecisionsAssumption
    <2>4. FinalRow(new, d, c)
        BY <2>1, <2>2, <2>3 DEF FinalRow
    <2> QED BY <1>4, <2>4 DEF new, d, c
<1> QED BY <1>2, <1>4, <1>6, <1>7, <1>8, RowsFinal

\* A step that changes nothing keeps the invariant.
LEMMA StutterFinal == ASSUME FinalInv, UNCHANGED vars PROVE FinalInv'
<1>1. case' = case /\ radar' = radar /\ given' = given /\ release' = release
    BY DEF vars
<1>2. \A i : Evidence(i)' = Evidence(i)
    BY <1>1, EvidenceStays
<1>3. radar' # <<>> =>
          /\ given' = [i \in Issuers |-> Profile(Evidence(i)').conviction]
          /\ DOMAIN radar' = 1..Cardinality(Issuers) /\ radar' = [k \in DOMAIN radar' |-> radar'[k]]
          /\ \A i \in Issuers : \E k \in DOMAIN radar' : radar'[k].issuer = i
    <2> SUFFICES ASSUME radar # <<>>
                 PROVE  /\ given = [i \in Issuers |-> Profile(Evidence(i)').conviction]
                        /\ DOMAIN radar = 1..Cardinality(Issuers) /\ radar = [k \in DOMAIN radar |-> radar[k]]
                        /\ \A i \in Issuers : \E k \in DOMAIN radar : radar[k].issuer = i
        BY <1>1
    <2>1. /\ given = [i \in Issuers |-> Profile(Evidence(i)).conviction]
          /\ DOMAIN radar = 1..Cardinality(Issuers) /\ radar = [k \in DOMAIN radar |-> radar[k]]
          /\ \A i \in Issuers : \E k \in DOMAIN radar : radar[k].issuer = i
        BY DEF FinalInv
    <2>2. given = [i \in Issuers |-> Profile(Evidence(i)').conviction]
        BY <1>2, <2>1
    <2> QED BY <2>1, <2>2
<1>4. \A i \in Issuers, k \in DOMAIN radar' : radar'[k].issuer = i => FinalRow(radar'[k], Evidence(i)', given'[i])
    BY <1>1, <1>2 DEF FinalInv
<1>5. release' \in 1..MaxRelease /\ ((\E k \in DOMAIN radar' : radar'[k].release > 0) => Ranked(radar'))
    BY <1>1 DEF FinalInv
<1> QED BY <1>3, <1>4, <1>5 DEF FinalInv

\* Every step keeps it.
LEMMA StepFinal == ASSUME DecInv, FinalInv, [Next]_vars PROVE FinalInv'
<1>1. CASE Next
    BY <1>1, ScoreFinal, LoadFinal, FinalizeFinal, UpgradeFinal DEF Next
<1>2. CASE UNCHANGED vars
    BY <1>2, StutterFinal
<1> QED BY <1>1, <1>2

\* The invariant of the final decision holds of every reachable state: a finalized row is
\* confirmed, closed to other flow and frozen, and its ranks are those of its scores.
THEOREM FinalInvariant == Spec => []FinalInv
<1>1. Init => FinalInv
    BY FinalInvInit
<1>2. DecInv /\ FinalInv /\ [Next]_vars => FinalInv'
    BY StepFinal
<1> QED BY <1>1, <1>2, DecisionsInvariant, PTL DEF Spec

\* EnrichedOnce: whatever is read back and however often the radar is finalized, a conviction
\* stays within five points of what the scan gave (classify_zapi_enrichment_state).
THEOREM ConfirmedOnce == Spec => []EnrichedOnce
<1>1. DecInv /\ FinalInv => EnrichedOnce
    <2> SUFFICES ASSUME DecInv, FinalInv, NEW k \in DOMAIN radar, Seen(radar[k].conviction)
                 PROVE  radar[k].conviction - given[radar[k].issuer] \in -5..5
        BY DEF EnrichedOnce
    <2>1. Confirmed(radar[k], given[radar[k].issuer])
        BY RowOf
    <2> QED BY <2>1 DEF Confirmed
<1> QED BY <1>1, DecisionsInvariant, FinalInvariant, PTL

-----------------------------------------------------------------------------

\* A row of which only what a release may write has changed.
Rewrite(old, new, presentable) ==
    [old EXCEPT !.release = new.release, !.foreign = new.foreign, !.broker = new.broker,
                !.loaded = new.loaded, !.presentable = presentable]

\* A row that keeps these columns is the old one with them rewritten.
LEMMA Rewritten ==
    ASSUME NEW old, IsRow(old), NEW new, IsRow(new),
           Alike(old, new, Columns \ {"release", "foreign", "broker", "loaded", "presentable"}),
           NEW presentable, new.presentable = presentable
    PROVE  new = Rewrite(old, new, presentable)
<1> DEFINE out == [old EXCEPT !.release = new.release, !.foreign = new.foreign, !.broker = new.broker,
                              !.loaded = new.loaded, !.presentable = presentable]
<1>1. DOMAIN old = Columns /\ DOMAIN new = Columns
    BY DEF IsRow
<1>2. out = [c \in Columns |-> out[c]]
    BY <1>1
<1>3. /\ out.release = new.release /\ out.foreign = new.foreign /\ out.broker = new.broker
      /\ out.loaded = new.loaded /\ out.presentable = presentable
    BY <1>1 DEF Columns
<1>4. \A c \in Columns : c \notin {"release", "foreign", "broker", "loaded", "presentable"} => out[c] = old[c]
    BY <1>1
<1> HIDE DEF out
<1>5. \A c \in Columns : out[c] = new[c]
    BY <1>3, <1>4 DEF Alike
<1>6. out = [c \in Columns |-> new[c]]
    BY <1>2, <1>5
<1> QED BY <1>6 DEF IsRow, Rewrite, out

\* What the invariant says of a finalized radar.
LEMMA FinalRadar ==
    ASSUME DecInv, FinalInv, Final
    PROVE  /\ Ranked(radar)
           /\ \A k \in DOMAIN radar : radar[k].release > 0 /\ Done(radar[k].foreign)
                                      /\ Frozen(radar[k], Evidence(radar[k].issuer))
<1>1. 1 \in DOMAIN radar /\ radar[1].release > 0
    BY DEF Final, DecInv
<1>2. Ranked(radar)
    BY <1>1 DEF FinalInv
<1>3. \A k \in DOMAIN radar : radar[k].release > 0
    BY <1>1 DEF DecInv
<1>4. \A k \in DOMAIN radar : FinalRow(radar[k], Evidence(radar[k].issuer), given[radar[k].issuer])
    BY RowOf
<1> QED BY <1>2, <1>3, <1>4 DEF FinalRow

\* Row k is what it was, but for what a release may write.
Rewrites(k) ==
    radar'[k] = [radar[k] EXCEPT !.release = radar'[k].release, !.foreign = radar'[k].foreign,
                                 !.broker = radar'[k].broker, !.loaded = radar'[k].loaded,
                    !.presentable = IF Integrity(radar[k].issuer).provenance = ""
                                    THEN radar'[k].presentable ELSE @]

\* A row alike in the rest is rewritten.
LEMMA RowRewritten ==
    ASSUME NEW k \in DOMAIN radar, IsRow(radar[k]), IsRow(radar'[k]),
           Alike(radar[k], radar'[k], Columns \ {"release", "foreign", "broker", "loaded", "presentable"}),
           Sourced(Evidence(radar[k].issuer)) => radar'[k].presentable = radar[k].presentable
    PROVE  Rewrites(k)
<1> DEFINE old == radar[k]
           new == radar'[k]
           presentable == IF Integrity(old.issuer).provenance = "" THEN new.presentable ELSE old.presentable
<1>1. Evidence(old.issuer).integrity = Integrity(old.issuer)
    BY DEF Evidence
<1>2. new.presentable = presentable
    BY <1>1 DEF Sourced
<1>3. /\ IsRow(old) /\ IsRow(new)
      /\ Alike(old, new, Columns \ {"release", "foreign", "broker", "loaded", "presentable"})
    OBVIOUS
<1> HIDE DEF old, new, presentable
<1>4. new = Rewrite(old, new, presentable)
    BY <1>2, <1>3, Rewritten
<1> QED BY <1>4 DEF Rewrites, Rewrite, presentable, old, new

\* A later release rewrites no more than that.
LEMMA UpgradeRewrites ==
    ASSUME DecInv, FinalInv, Upgrade, NEW k \in DOMAIN radar PROVE Rewrites(k)
<1> DEFINE row == radar[k]
<1>1. radar'[k] = [row EXCEPT !.loaded = TRUE] /\ IsRow(row)
    BY RowOf DEF Upgrade, Able
<1> HIDE DEF row
<1>2. Only(row, radar'[k], {"loaded"})
    BY <1>1, UpgradedRow
<1>3. IsRow(radar'[k]) /\ Alike(row, radar'[k], Columns \ {"release", "foreign", "broker", "loaded", "presentable"})
      /\ radar'[k].presentable = row.presentable
    BY <1>2 DEF Only, Alike, Columns
<1> QED BY <1>1, <1>3, RowRewritten DEF row

\* Nor does finalizing a finalized radar.
LEMMA FinalizeRewrites ==
    ASSUME DecInv, FinalInv, Final, Finalize, NEW k \in DOMAIN radar PROVE Rewrites(k)
<1> DEFINE evidence == [i \in Issuers |-> Evidence(i)]
<1>1. PICK answer \in case.answers :
          radar' = Finalized(radar, evidence, Foreign(answer.foreign), Broker(answer.broker), release)
    BY DEF Finalize
<1> DEFINE f == Foreign(answer.foreign)
           b == Broker(answer.broker)
           done == Finalized(radar, evidence, f, b, release)
<1>2. \A n \in DOMAIN radar : /\ Able(radar[n]) /\ Confirmed(radar[n], given[radar[n].issuer])
                              /\ IsFlow(f[radar[n].issuer]) /\ IsTape(b[radar[n].issuer])
    BY FinalizeFrom
<1>3. radar' = done
    BY <1>1
<1>4. \A n \in DOMAIN radar : evidence[radar[n].issuer] = Evidence(radar[n].issuer)
    BY RowOf
<1>5. Ranked(radar) /\ \A n \in DOMAIN radar : Done(radar[n].foreign) /\ Frozen(radar[n], Evidence(radar[n].issuer))
    BY FinalRadar
<1> HIDE DEF evidence, f, b
<1>6. \A n \in DOMAIN radar : Done(radar[n].foreign) /\ Frozen(radar[n], evidence[radar[n].issuer])
    BY <1>4, <1>5
<1>7. Alike(radar[k], done[k], Unranked)
      /\ (Sourced(evidence[radar[k].issuer]) => done[k].presentable = radar[k].presentable)
    BY <1>2, <1>5, <1>6, FinalizedStays
<1>8. IsRow(done[k])
    BY <1>2, FinalizedRows
<1> HIDE DEF done
<1>9. IsRow(radar[k])
    BY <1>2 DEF Able
<1>10. Alike(radar[k], done[k], Columns \ {"release", "foreign", "broker", "loaded", "presentable"})
    BY <1>7 DEF Alike, Unranked
<1>11. Sourced(Evidence(radar[k].issuer)) => done[k].presentable = radar[k].presentable
    BY <1>4, <1>7
<1> QED BY <1>3, <1>8, <1>9, <1>10, <1>11, RowRewritten

\* No step of a finalized radar does.
LEMMA NextRewrites == ASSUME DecInv, FinalInv, Final, Next, NEW k \in DOMAIN radar PROVE Rewrites(k)
<1>1. radar # <<>> /\ 1 \in DOMAIN radar
    BY DEF Final, DecInv
<1>2. ~Score
    BY <1>1 DEF Score
<1>3. ~LoadOlder
    <2>1. Done(radar[1].foreign)
        BY <1>1, FinalRadar
    <2>2. radar[1].foreign # Fresh
        BY <2>1, FreshIs
    <2> QED BY <1>1, <2>2 DEF LoadOlder
<1> QED BY <1>2, <1>3, UpgradeRewrites, FinalizeRewrites DEF Next

\* RefinalizeKeeps: a later release that asks the providers anew changes no decision, score or
\* rank of a finalized radar (finalize_decision_snapshot).
THEOREM RefinalizingKeeps == Spec => RefinalizeKeeps
<1>1. DecInv /\ FinalInv /\ [Next]_vars => [Final => \A k \in DOMAIN radar : Rewrites(k)]_vars
    BY NextRewrites
<1>2. (Final => \A k \in DOMAIN radar : Rewrites(k)) =>
      (Final => \A k \in DOMAIN radar :
          radar'[k] = [radar[k] EXCEPT !.release = radar'[k].release, !.foreign = radar'[k].foreign,
                                       !.broker = radar'[k].broker, !.loaded = radar'[k].loaded,
                          !.presentable = IF Integrity(radar[k].issuer).provenance = ""
                                          THEN radar'[k].presentable ELSE @])
    BY DEF Rewrites
<1> QED BY <1>1, <1>2, DecisionsInvariant, FinalInvariant, PTL DEF Spec, RefinalizeKeeps

-----------------------------------------------------------------------------
(* The leader's score is a number.                                         *)

\* A mean weighed with coverage is a number.
LEMMA ByCoverageIs ==
    ASSUME NEW parts, IsFiniteSet(DOMAIN parts),
           \A i \in DOMAIN parts : IsPart(parts[i]) /\ parts[i].coverage \in Nat
    PROVE  ByCoverage(parts).score \in Int
<1> DEFINE w == [i \in DOMAIN parts |-> Sure(parts[i])]
           s == [i \in DOMAIN parts |-> SureValue(parts[i])]
<1>1. \A i \in DOMAIN parts : w[i] \in Nat
    <2> TAKE i \in DOMAIN parts
    <2>1. parts[i].weight \in Nat /\ parts[i].coverage \in Nat
        BY DEF IsPart
    <2>2. parts[i].weight * parts[i].coverage \in Nat
        BY <2>1
    <2> QED BY <2>2 DEF Sure
<1>2. \A i \in DOMAIN parts : s[i] \in Int
    <2> TAKE i \in DOMAIN parts
    <2>1. Sure(parts[i]) \in Nat
        BY <1>1
    <2>2. Clip(parts[i].value) \in Int
        BY ClipIs DEF IsPart
    <2> HIDE DEF Clip
    <2>3. Sure(parts[i]) * Clip(parts[i].value) \in Int
        BY <2>1, <2>2
    <2> QED BY <2>3 DEF SureValue
<1>3. DOMAIN w = DOMAIN parts /\ DOMAIN s = DOMAIN parts
    OBVIOUS
<1>4. ByCoverage(parts).score = IF SumFunction(w) = 0 THEN 50 ELSE SumFunction(s) \div SumFunction(w)
    BY DEF ByCoverage, Total
<1> HIDE DEF w, s
<1>5. SumFunction(w) \in Nat /\ SumFunction(s) \in Int
    BY <1>1, <1>2, <1>3, SumNat, SumInt
<1>6. SumFunction(w) # 0 => SumFunction(s) \div SumFunction(w) \in Int
    BY <1>5, PositiveSum
<1> QED BY <1>4, <1>6

\* A line through points with whole coordinates, from left to right.
LEMMA InterpolateIs ==
    ASSUME NEW n \in Nat \ {0}, NEW points, DOMAIN points = 1..n, Len(points) = n,
           \A i \in 1..n : points[i][1] \in Int /\ points[i][2] \in Int,
           \A i \in 1..n - 1 : points[i][1] < points[i + 1][1],
           NEW x \in Int
    PROVE  Interpolate(x, points) \in Int
<1> DEFINE below == {i \in DOMAIN points : points[i][1] <= x}
           i == Max(below)
<1>1. CASE below = {}
    BY <1>1 DEF Interpolate
<1>2. CASE below # {}
    <2>1. below \in SUBSET Int /\ IsFiniteSet(below)
        <3>1. IsFiniteSet(1..n)
            BY UpTo
        <3>2. below \subseteq 1..n
            OBVIOUS
        <3> QED BY <3>1, <3>2, FS_Subset
    <2>2. i \in below
        BY <1>2, <2>1, MaxIn
    <2>3. i \in 1..n
        BY <2>2
    <2>4. Interpolate(x, points) =
             IF i = n THEN points[i][2]
             ELSE points[i][2] + ((points[i + 1][2] - points[i][2]) * (x - points[i][1]))
                                 \div (points[i + 1][1] - points[i][1])
        BY <1>2 DEF Interpolate
    <2> HIDE DEF i, below
    <2>5. CASE i = n
        BY <2>3, <2>4, <2>5
    <2>6. CASE i # n
        <3>1. i \in 1..n - 1 /\ i + 1 \in 1..n
            BY <2>3, <2>6
        <3> DEFINE a == points[i][1]
                   b == points[i + 1][1]
                   u == points[i][2]
                   v == points[i + 1][2]
                   p == (v - u) * (x - a)
                   q == b - a
        <3>2. a \in Int /\ b \in Int /\ u \in Int /\ v \in Int /\ a < b
            BY <2>3, <3>1
        <3>3. Interpolate(x, points) = u + p \div q
            BY <2>4, <2>6
        <3> HIDE DEF a, b, u, v
        <3>4. p \in Int
            BY <3>2
        <3>5. q \in Nat /\ q # 0
            BY <3>2
        <3> HIDE DEF p, q
        <3>6. p \div q \in Int
            BY <3>4, <3>5, PositiveSum
        <3> QED BY <3>2, <3>3, <3>6
    <2> QED BY <2>5, <2>6
<1> QED BY <1>1, <1>2

\* The score of a growth of revenue is a number.
LEMMA RevenueGrowthIs == ASSUME NEW v \in Int PROVE RevenueGrowth(v) \in Int
<1> DEFINE points == << <<-30, 5>>, <<-10, 20>>, <<0, 35>>, <<10, 55>>, <<20, 70>>, <<30, 85>>, <<50, 97>>, <<80, 100>> >>
           n == 8
<1>1. DOMAIN points = 1..n /\ Len(points) = n /\ n \in Nat \ {0}
    OBVIOUS
<1>2. \A i \in 1..n : points[i][1] \in Int /\ points[i][2] \in Int
    OBVIOUS
<1>3. \A i \in 1..n - 1 : points[i][1] < points[i + 1][1]
    OBVIOUS
<1>4. RevenueGrowth(v) = IF ~Seen(v) THEN 50 ELSE Interpolate(v, points)
    BY DEF RevenueGrowth
<1> HIDE DEF points, n
<1>5. Interpolate(v, points) \in Int
    BY <1>1, <1>2, <1>3, InterpolateIs
<1> QED BY <1>4, <1>5

\* So is the score of a growth of earnings.
LEMMA EarningsGrowthIs == ASSUME NEW v \in Int PROVE EarningsGrowth(v) \in Int
<1> DEFINE points == << <<-50, 5>>, <<-15, 20>>, <<0, 35>>, <<15, 55>>, <<30, 70>>, <<50, 85>>, <<80, 97>>, <<150, 100>> >>
           n == 8
<1>1. DOMAIN points = 1..n /\ Len(points) = n /\ n \in Nat \ {0}
    OBVIOUS
<1>2. \A i \in 1..n : points[i][1] \in Int /\ points[i][2] \in Int
    OBVIOUS
<1>3. \A i \in 1..n - 1 : points[i][1] < points[i + 1][1]
    OBVIOUS
<1>4. EarningsGrowth(v) = IF ~Seen(v) THEN 50 ELSE Interpolate(v, points)
    BY DEF EarningsGrowth
<1> HIDE DEF points, n
<1>5. Interpolate(v, points) \in Int
    BY <1>1, <1>2, <1>3, InterpolateIs
<1> QED BY <1>4, <1>5

\* The momentum of the business is a number, or missing.
LEMMA MomentumIs == ASSUME NEW b, IsBusiness(b), NEW growth PROVE Momentum(b, growth) \in Int
<1> DEFINE revenue == IF YearToDate(b) THEN b.revenueYtd ELSE b.revenueQuarter
           earnings == IF YearToDate(b) THEN b.earningsYtd ELSE b.earningsQuarter
           r == RevenueGrowth(revenue)
           e == EarningsGrowth(earnings)
           a == Adjustment(growth)
<1>1. revenue \in Int /\ earnings \in Int
    BY DEF IsBusiness
<1> HIDE DEF revenue, earnings
<1>2. r \in Int /\ e \in Int
    BY <1>1, RevenueGrowthIs, EarningsGrowthIs
<1>3. a \in Int
    BY DEF Adjustment
<1>4. Momentum(b, growth) = NaN \/ Momentum(b, growth) = Clip((60 * r + 40 * e) \div 100 + a)
    BY DEF Momentum, revenue, earnings
<1> HIDE DEF r, e, a
<1>5. (60 * r + 40 * e) \div 100 + a \in Int
    BY <1>2, <1>3
<1>6. Clip((60 * r + 40 * e) \div 100 + a) \in Int
    BY <1>5, ClipIs
<1> QED BY <1>4, <1>6 DEF NaN

\* A ceiling keeps a number a number.
LEMMA AtMostIs == ASSUME NEW x \in Int, NEW c \in Int, NEW applies PROVE AtMost(x, c, applies) \in Int
    BY DEF AtMost

\* So do all the ceilings on the momentum.
LEMMA CappedMomentumIs == ASSUME NEW b, IsBusiness(b), NEW growth PROVE CappedMomentum(b, growth) \in Int
<1> DEFINE m1 == AtMost(Momentum(b, growth), 60, LossMaking(b))
           m2 == AtMost(m1, 72, "EARNINGS_BASE_EFFECT_EXTREME" \in b.abnormal)
           m3 == AtMost(m2, 68, "EARNINGS_SMALL_BASE" \in b.abnormal)
           m4 == AtMost(m3, 85, "REVENUE_GROWTH_EXTREME_REVIEW" \in b.abnormal)
<1>0. CappedMomentum(b, growth) = AtMost(m4, 90, b.property)
    BY DEF CappedMomentum
<1>1. m1 \in Int
    BY MomentumIs, AtMostIs
<1> HIDE DEF m1
<1>2. m2 \in Int
    BY <1>1, AtMostIs
<1> HIDE DEF m2
<1>3. m3 \in Int
    BY <1>2, AtMostIs
<1> HIDE DEF m3
<1>4. m4 \in Int
    BY <1>3, AtMostIs
<1> HIDE DEF m4
<1> QED BY <1>0, <1>4, AtMostIs

\* A part whose coverage is a natural number.
LEMMA CoveredPart ==
    ASSUME NEW v \in Int, NEW w \in Nat, NEW c \in Nat
    PROVE  IsPart(Part(v, w, c)) /\ Part(v, w, c).coverage \in Nat
    BY DEF IsPart, Part

\* Twelve such parts.
LEMMA ByCoverage12 ==
    ASSUME NEW a, NEW b, NEW c, NEW d, NEW e, NEW f, NEW g, NEW h, NEW i, NEW j, NEW k, NEW l,
           \A p \in {a, b, c, d, e, f, g, h, i, j, k, l} : IsPart(p) /\ p.coverage \in Nat
    PROVE  ByCoverage(<<a, b, c, d, e, f, g, h, i, j, k, l>>).score \in Int
<1> DEFINE parts == <<a, b, c, d, e, f, g, h, i, j, k, l>>
<1>1. IsFiniteSet(1..12)
    BY UpTo
<1>2. DOMAIN parts = 1..12
    OBVIOUS
<1>3. \A n \in 1..12 : parts[n] \in {a, b, c, d, e, f, g, h, i, j, k, l}
    OBVIOUS
<1> HIDE DEF parts
<1>4. ByCoverage(parts).score \in Int
    BY <1>1, <1>2, <1>3, ByCoverageIs
<1> QED BY <1>4 DEF parts

\* The model behind the leader's score, for a row whose smart money is known.
LEMMA ModelIs ==
    ASSUME NEW d, IsFull(d), NEW row, row.smart \in Int, row.smartCoverage \in Nat,
           row.structure \in Int, row.liquidity \in Int
    PROVE  Model(row, d).score \in Int
<1>1. /\ IsFund(d.fund) /\ IsBusiness(d.business) /\ IsStory(d.story) /\ IsGroup(d.broker) /\ IsGroup(d.owner)
      /\ IsGroup(d.sector)
    BY DEF IsFull
<1>2. d.fund.conversion \in Int /\ d.fund.quality \in Int /\ d.fund.coverage \in Nat
    BY <1>1 DEF IsFund
<1> DEFINE f == d.fund
           forward == Forward(d.business)
           Whole(value, weight) == Part(value, weight, IF Seen(value) THEN 100 ELSE 0)
           v1 == IF Seen(f.conversion) THEN LeaderFundamental(d) ELSE NaN
           v2 == CappedMomentum(d.business, f.growth)
           v3 == LeaderQuality(d)
           p1 == Part(v1, 27, f.coverage)
           p2 == Part(v2, 18, f.coverage)
           p3 == Part(v3, 5, f.coverage)
           p4 == Part(forward.value, 15, forward.coverage)
           p5 == Part(d.story.reach, 8, d.story.coverage)
           p6 == Part(d.story.bridge, 12, d.story.coverage)
           p7 == Part(d.sector.score, 8, d.sector.coverage)
           p8 == Part(row.smart, 2, row.smartCoverage)
           p9 == Part(d.broker.score, 2, d.broker.coverage)
           p10 == Whole(row.structure, 1)
           p11 == Whole(row.liquidity, 1)
           p12 == Part(d.owner.score, 1, d.owner.coverage)
           Good(p) == IsPart(p) /\ p.coverage \in Nat
<1>3. v1 \in Int
    <2>1. Finite(d.fund.conversion, 0) \in Int
        BY <1>2 DEF Finite
    <2>2. OrElse(d.fund.conversion, 0) \in Int
        BY <2>1, ClipIs DEF OrElse
    <2>3. LeaderFundamental(d) \in Int
        BY <2>2, AtMostIs DEF LeaderFundamental
    <2> QED BY <2>3 DEF NaN
<1>4. v2 \in Int
    BY <1>1, CappedMomentumIs
<1>5. v3 \in Int
    BY <1>2, AtMostIs DEF LeaderQuality
<1> HIDE DEF v1, v2, v3
<1>6. Good(p1) /\ Good(p2) /\ Good(p3)
    BY <1>2, <1>3, <1>4, <1>5, CoveredPart
<1>7. Good(p4)
    <2>1. forward.value \in Int /\ forward.coverage \in Nat
        BY <1>1 DEF Forward, IsBusiness
    <2> HIDE DEF forward
    <2> QED BY <2>1, CoveredPart
<1>8. Good(p5) /\ Good(p6)
    BY <1>1, CoveredPart DEF IsStory
<1>9. Good(p7) /\ Good(p9) /\ Good(p12)
    BY <1>1, CoveredPart DEF IsGroup
<1>10. Good(p8)
    BY CoveredPart
<1>11. \A v \in Int : Good(Whole(v, 1))
    BY CoveredPart
<1>12. Good(p10) /\ Good(p11)
    BY <1>11
<1>13. Model(row, d) = ByCoverage(<<p1, p2, p3, p4, p5, p6, p7, p8, p9, p10, p11, p12>>)
    BY DEF Model, v1, v2, v3
<1> HIDE DEF p1, p2, p3, p4, p5, p6, p7, p8, p9, p10, p11, p12
<1>14. \A p \in {p1, p2, p3, p4, p5, p6, p7, p8, p9, p10, p11, p12} : Good(p)
    BY <1>6, <1>7, <1>8, <1>9, <1>10, <1>12
<1> HIDE DEF Good
<1>15. ByCoverage(<<p1, p2, p3, p4, p5, p6, p7, p8, p9, p10, p11, p12>>).score \in Int
    BY <1>14, ByCoverage12 DEF Good
<1> QED BY <1>13, <1>15

\* What adverse observations cost is a number.
LEMMA PenaltyIs == ASSUME NEW d PROVE LeaderPenalty(d) \in Int
    BY DEF LeaderPenalty, Points

\* The leader's score is a number.
LEMMA LeaderIs ==
    ASSUME NEW d, IsFull(d), NEW row, row.smart \in Int, row.smartCoverage \in Nat,
           row.structure \in Int, row.liquidity \in Int
    PROVE  LeaderScore(row, d) \in Int
<1> DEFINE m == Model(row, d).score
           p == Points(3, Broad(d))
           q == LeaderPenalty(d)
<1>1. m \in Int /\ q \in Int
    BY ModelIs, PenaltyIs
<1>2. p \in Int
    BY DEF Points
<1>3. LeaderScore(row, d) = Clip(m + p - q)
    BY DEF LeaderScore
<1> HIDE DEF m, p, q
<1>4. m + p - q \in Int
    BY <1>1, <1>2
<1> QED BY <1>3, <1>4, ClipIs

-----------------------------------------------------------------------------
(* Ranks are places in the radar.                                          *)

\* Who has a score has a place from 1 to the number of rows, and who has none has rank 0.
LEMMA RanksAre ==
    ASSUME NEW rows, NEW n \in Nat, DOMAIN rows = 1..n, NEW field,
           NEW S, S \subseteq 1..n, NEW i \in 1..n
    PROVE  LET rank == Ranks(rows, field, S)[i]
           IN /\ rank \in Nat /\ (rank > 0 <=> i \in S /\ Seen(rows[i][field]))
              /\ rows[i][field] \in Int => rank <= n
<1> DEFINE T == {k \in S : Seen(rows[k][field])}
           before == {k \in T : rows[k][field] > rows[i][field] \/ (k < i /\ ~(rows[i][field] > rows[k][field]))}
           rank == Ranks(rows, field, S)[i]
<1>1. rank = IF i \in T THEN 1 + Cardinality(before) ELSE 0
    BY DEF Ranks, Place
<1>2. i \in T <=> i \in S /\ Seen(rows[i][field])
    OBVIOUS
<1>3. before \subseteq 1..n
    OBVIOUS
<1>4. rows[i][field] \in Int => i \notin before
    OBVIOUS
<1> HIDE DEF T, before
<1>5. IsFiniteSet(1..n) /\ Cardinality(1..n) = n
    BY FS_Interval
<1>6. Cardinality(before) \in Nat
    BY <1>3, <1>5, CountIs
<1>7. rows[i][field] \in Int => Cardinality(before) <= n - 1
    <2> SUFFICES ASSUME rows[i][field] \in Int PROVE Cardinality(before) <= n - 1
        OBVIOUS
    <2>1. before \subseteq (1..n) \ {i}
        BY <1>3, <1>4
    <2>2. IsFiniteSet((1..n) \ {i}) /\ Cardinality((1..n) \ {i}) = n - 1
        BY <1>5, FS_RemoveElement
    <2> QED BY <2>1, <2>2, FS_Subset
<1> DEFINE c == Cardinality(before)
           whole == rows[i][field] \in Int
           ranked == i \in S /\ Seen(rows[i][field])
<1>8. rank = (IF i \in T THEN 1 + c ELSE 0) /\ (i \in T <=> ranked) /\ c \in Nat /\ (whole => c <= n - 1)
    BY <1>1, <1>2, <1>6, <1>7
<1> HIDE DEF rank, c, whole, ranked
<1>9. rank \in Nat /\ (rank > 0 <=> ranked)
    BY <1>8
<1>10. whole => rank <= n
    BY <1>8
<1> QED BY <1>9, <1>10 DEF rank, whole, ranked

\* The scores the ranks of a frozen row are read from.
LEMMA ScoresAre ==
    ASSUME NEW d, IsFull(d), NEW row, NEW c, FinalRow(row, d, c)
    PROVE  /\ row.conviction \in Percent /\ row.smart \in Percent
           /\ row.release > 0 => row.leader \in Int /\ Seen(row.money)
<1>1. row.conviction \in Percent /\ row.smart \in Percent /\ row.smartCoverage \in Nat
    BY DEF FinalRow, Confirmed
<1>2. row.smart \in Int
    BY <1>1 DEF Percent, NaN
<1>3. row.structure \in Int /\ row.liquidity \in Int
    <2>1. IsFeatures(d.features)
        BY DEF IsFull
    <2>2. d.features.reversal \in Int /\ d.features.continuation \in Int /\ d.features.sideways \in Int
        BY <2>1 DEF IsFeatures
    <2> DEFINE S == {d.features.reversal, d.features.continuation, d.features.sideways}
    <2>3. S \in SUBSET Int /\ S # {}
        BY <2>2
    <2>4. IsFiniteSet(S)
        <3>1. IsFiniteSet({d.features.reversal})
            BY FS_Singleton
        <3>2. IsFiniteSet({d.features.reversal} \cup {d.features.continuation})
            BY <3>1, FS_AddElement
        <3>3. IsFiniteSet(({d.features.reversal} \cup {d.features.continuation}) \cup {d.features.sideways})
            BY <3>2, FS_AddElement
        <3>4. S = ({d.features.reversal} \cup {d.features.continuation}) \cup {d.features.sideways}
            OBVIOUS
        <3> QED BY <3>3, <3>4
    <2>5. row.structure = Max(S)
        BY DEF FinalRow, StructureScore
    <2> HIDE DEF S
    <2>6. row.structure \in Int
        BY <2>3, <2>4, <2>5, MaxIn
    <2>7. row.liquidity \in Nat
        BY LiquidIs DEF FinalRow
    <2> QED BY <2>6, <2>7
<1>4. ASSUME row.release > 0 PROVE row.leader \in Int /\ Seen(row.money)
    <2>1. Shown(row, d)
        BY <1>4 DEF FinalRow, Frozen
    <2>2. row.leader = LeaderScore(row, d) /\ row.money = RealMoneyScore(row, d)
        BY <2>1 DEF Shown
    <2>3. LeaderScore(row, d) \in Int
        BY <1>1, <1>2, <1>3, LeaderIs
    <2>4. \A x : Clip(x) # NaN
        BY DEF Clip, NaN
    <2>5. RealMoneyScore(row, d) # NaN
        BY <2>4 DEF RealMoneyScore
    <2> QED BY <2>2, <2>3, <2>5 DEF Seen
<1> QED BY <1>1, <1>4

\* The ranks of a row are places of the radar.
LEMMA RowTyped ==
    ASSUME DecInv, FinalInv, NEW k \in DOMAIN radar
    PROVE  LET row == radar[k]
           IN /\ row.productionRank > 0 <=> row.authorized
              /\ row.rawRank \in 0..Cardinality(Issuers) /\ row.guardedRank \in 0..Cardinality(Issuers)
<1> DEFINE row == radar[k]
           i == row.issuer
           n == Cardinality(Issuers)
<1>1. n \in Nat
    BY DecisionsAssumption, FS_CardinalityType
<1>2. DOMAIN radar = 1..n
    BY DEF FinalInv
<1>3. i \in Issuers /\ FinalRow(row, Evidence(i), given[i]) /\ row.release \in 0..MaxRelease
    BY RowOf
<1>4. MaxRelease \in Nat
    BY DecisionsAssumption
<1>5. CASE row.release = 0
    <2>1. row.rawRank = 0 /\ row.guardedRank = 0 /\ row.productionRank = 0 /\ row.authorized = FALSE
        BY <1>3, <1>5 DEF FinalRow
    <2> HIDE DEF row, n
    <2> QED BY <1>1, <2>1 DEF row, n
<1>6. CASE row.release # 0
    <2>1. row.release > 0
        BY <1>3, <1>4, <1>6
    <2>2. Ranked(radar)
        BY <2>1 DEF FinalInv
    <2>3. IsFull(Evidence(i))
        BY <1>3, FullEvidence DEF DecInv
    <2>4. row.conviction \in Int /\ row.leader \in Int /\ Seen(row.money)
        <3>1. row.conviction \in Percent
            BY <1>3, <2>3, ScoresAre
        <3>2. row.leader \in Int /\ Seen(row.money)
            BY <1>3, <2>1, <2>3, ScoresAre
        <3> QED BY <3>1, <3>2 DEF Percent, NaN
    <2>5. Unblocked(radar) \subseteq 1..n /\ Tradable(radar) \subseteq 1..n
        BY <1>2 DEF Unblocked, Tradable
    <2>6. row.rawRank = Ranks(radar, "conviction", DOMAIN radar)[k]
        BY <2>2 DEF Ranked
    <2>7. row.guardedRank = Ranks(radar, "leader", Unblocked(radar))[k]
        BY <2>2 DEF Ranked
    <2>8. row.productionRank = Ranks(radar, "money", Tradable(radar))[k]
        BY <2>2 DEF Ranked
    <2>9. row.authorized = Authorized(row)
        BY <2>2 DEF Ranked
    <2>10. k \in Tradable(radar) <=> Authorized(row)
        BY DEF Tradable
    <2>11. DOMAIN radar \subseteq 1..n /\ k \in 1..n
        BY <1>2
    <2>12. radar[k]["conviction"] \in Int /\ radar[k]["leader"] \in Int /\ Seen(radar[k]["money"])
        BY <2>4
    <2> HIDE DEF n
    <2>13. Ranks(radar, "conviction", DOMAIN radar)[k] \in Nat /\ Ranks(radar, "conviction", DOMAIN radar)[k] <= n
        BY <1>1, <1>2, <2>11, <2>12, RanksAre
    <2>14. Ranks(radar, "leader", Unblocked(radar))[k] \in Nat /\ Ranks(radar, "leader", Unblocked(radar))[k] <= n
        BY <1>1, <1>2, <2>5, <2>11, <2>12, RanksAre
    <2>15. Ranks(radar, "money", Tradable(radar))[k] > 0 <=> k \in Tradable(radar)
        BY <1>1, <1>2, <2>5, <2>11, <2>12, RanksAre
    <2> HIDE DEF row
    <2>16. row.rawRank \in 0..n /\ row.guardedRank \in 0..n
        BY <1>1, <2>6, <2>7, <2>13, <2>14
    <2>17. row.productionRank > 0 <=> row.authorized
        BY <2>8, <2>9, <2>10, <2>15
    <2> QED BY <2>16, <2>17 DEF row, n
<1> QED BY <1>5, <1>6

\* The radar has each issuer once.
LEMMA RadarTyped ==
    ASSUME DecInv, FinalInv
    PROVE  /\ radar = <<>> \/ {radar[k].issuer : k \in DOMAIN radar} = Issuers
           /\ Len(radar) \in {0, Cardinality(Issuers)}
           /\ radar # <<>> => Len(radar) = Cardinality(Issuers)
<1>1. CASE radar = <<>>
    BY <1>1
<1>2. CASE radar # <<>>
    <2>1. /\ DOMAIN radar = 1..Cardinality(Issuers) /\ radar = [k \in DOMAIN radar |-> radar[k]]
          /\ \A i \in Issuers : \E k \in DOMAIN radar : radar[k].issuer = i
        BY <1>2 DEF FinalInv
    <2>2. \A k \in DOMAIN radar : radar[k].issuer \in Issuers
        BY RowOf
    <2>3. {radar[k].issuer : k \in DOMAIN radar} = Issuers
        BY <2>1, <2>2
    <2>4. Cardinality(Issuers) \in Nat
        BY DecisionsAssumption, FS_CardinalityType
    <2>5. Len(radar) = Cardinality(Issuers)
        BY <2>1, <2>4
    <2> QED BY <1>2, <2>3, <2>5
<1> QED BY <1>1, <1>2

\* TypeOK: every row's numbers stay in their ranges, a radar has each issuer once, and a
\* production rank belongs to the authorized rows and to no other (apply_three_rank_contract).
THEOREM Typed == Spec => []TypeOK
<1>1. ASSUME DecInv, FinalInv PROVE TypeOK
    <2>1. release \in 1..MaxRelease
        BY <1>1 DEF FinalInv
    <2>2. /\ radar = <<>> \/ {radar[k].issuer : k \in DOMAIN radar} = Issuers
          /\ Len(radar) \in {0, Cardinality(Issuers)}
        BY <1>1, RadarTyped
    <2>3. ASSUME NEW k \in DOMAIN radar
          PROVE  LET row == radar[k]
                 IN /\ row.conviction \in 0..100 \cup {NaN} /\ row.smart \in 0..100 \cup {NaN}
                    /\ row.cap \in 0..200 /\ row.manualCap \in 0..75 /\ row.risk \in Nat /\ row.lots \in Nat
                    /\ row.productionRank > 0 <=> row.authorized
                    /\ row.rawRank \in 0..Len(radar) /\ row.guardedRank \in 0..Len(radar)
        <3> DEFINE row == radar[k]
                   d == Evidence(row.issuer)
        <3>1. RowInv(row, d) /\ IsEvidence(d)
            BY <1>1, NumbersOf
        <3>2. row.issuer \in Issuers /\ FinalRow(row, d, given[row.issuer])
            BY <1>1, RowOf
        <3>3. IsFull(d)
            BY <1>1, <3>2, FullEvidence DEF DecInv
        <3>4. /\ row.productionRank > 0 <=> row.authorized
              /\ row.rawRank \in 0..Cardinality(Issuers) /\ row.guardedRank \in 0..Cardinality(Issuers)
            BY <1>1, RowTyped
        <3>5. Len(radar) = Cardinality(Issuers)
            BY <1>1, RadarTyped
        <3> HIDE DEF row, d
        <3>6. row.cap \in 0..200 /\ row.manualCap \in 0..75 /\ row.risk \in Nat /\ row.lots \in Nat
            BY <3>1, RowIs
        <3>7. row.conviction \in 0..100 \cup {NaN} /\ row.smart \in 0..100 \cup {NaN}
            BY <3>2, <3>3, ScoresAre DEF Percent
        <3> QED BY <3>4, <3>5, <3>6, <3>7 DEF row
    <2> QED BY <2>1, <2>2, <2>3 DEF TypeOK
<1> QED BY <1>1, DecisionsInvariant, FinalInvariant, PTL DEF Spec
=============================================================================
