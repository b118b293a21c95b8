-------------------------- MODULE EvidenceHubProofs --------------------------
(***************************************************************************)
(* Theorems about EvidenceHub, for any number of clients and every choice  *)
(* of families and callers.  HubInv follows the leases and the verdicts of  *)
(* emptiness, RowsInv the rows of the table on top of it.                  *)
(***************************************************************************)
EXTENDS EvidenceHub, FiniteSetTheorems, TLAPS

\* A client has rows in hand from the provider to the end of the call; one that ends a
\* call without rows asked for a month of which nothing was there.
GotShape ==
    \A c \in Client :
        /\ call[c].at \in {"persist", "readback"} => call[c].got # {}
        /\ call[c].at \in {"complete", "record"} /\ call[c].got = {} =>
              Policy.empty /\ onTime \cap Policy.asks[call[c].req] = {}

\* A client at work lost its lease exactly when the table names somebody else, and
\* nobody outside a refresh has lost one.
LeaseShape ==
    \A c \in Client :
        /\ call[c].at \in Working => (call[c].lost <=> lease[KeyOf(call[c].req)].owner # c)
        /\ call[c].lost => call[c].at \in Working \cup {"fail"}

\* The months on record as empty, for any request.
EmptyShape == \A r \in Request : KeyOf(r) \in empty => onTime \cap Policy.asks[r] = {}

HubInv == TypeOK /\ GotShape /\ LeaseShape /\ EmptyShape

-----------------------------------------------------------------------------
(* The families.                                                           *)

\* What every family hands the coordinator is typed.
Typed(policy) ==
    /\ policy.key \in [Request -> Key] /\ policy.tag \in [Request -> Tag]
    /\ policy.asks \in [Request -> SUBSET Item] /\ policy.empty \in BOOLEAN

LEMMA PolicyTyped ==
    ASSUME NEW f \in Family
    PROVE  Typed(Policies[f])
<1>1. Typed(StockPolicy)
    BY DEF Typed, StockPolicy, Each, Split, Key, Tag, Item, Request
<1>2. Typed(ParticipantPolicy)
    BY DEF Typed, ParticipantPolicy, Each, Split, Key, Tag, Item, Request
<1>3. Typed(AnnouncementPolicy)
    BY DEF Typed, AnnouncementPolicy, Each, Split, Key, Tag, Item, Request
<1>4. Typed(CapitalPolicy)
    BY DEF Typed, CapitalPolicy, Each, Split, Key, Tag, Item, Request
<1>5. Typed(RiskPolicy)
    BY DEF Typed, RiskPolicy, Each, Split, Key, Tag, Item, Request
<1>6. Typed(DirectoryPolicy)
    BY DEF Typed, DirectoryPolicy, Monthly, Each, Split, Key, Tag, Item, Request
<1>7. Typed(ProfilePolicy)
    BY DEF Typed, ProfilePolicy, Monthly, Each, Split, Key, Tag, Item, Request
<1>8. Typed(ReferencePolicy)
    BY DEF Typed, ReferencePolicy, Monthly, Each, Split, Key, Tag, Item, Request
<1>9. Typed(MemberPolicy)
    BY DEF Typed, MemberPolicy, Monthly, Each, Split, Key, Tag, Item, Request
<1>10. Typed(TurnoverPolicy)
    BY DEF Typed, TurnoverPolicy, Daily, Each, Split, Key, Tag, Item, Request
<1>11. Typed(OwnershipPolicy)
    BY DEF Typed, OwnershipPolicy, Daily, Each, Split, Key, Tag, Item, Request
<1>12. Typed(FinancialPolicy)
    BY DEF Typed, FinancialPolicy, Each, Split, Key, Tag, Item, Request
<1> QED
    BY <1>1, <1>2, <1>3, <1>4, <1>5, <1>6, <1>7, <1>8, <1>9, <1>10, <1>11, <1>12 DEF Family, Policies

\* Requests that share a verdict of emptiness ask for the same items.
LEMMA OneVerdict ==
    ASSUME NEW f \in Family, Policies[f].empty, NEW r \in Request, NEW q \in Request
    PROVE  Policies[f].asks[r] = Policies[f].asks[q]
<1>1. \A policy \in {StockPolicy, ParticipantPolicy, AnnouncementPolicy, RiskPolicy} : ~policy.empty
    BY DEF StockPolicy, ParticipantPolicy, AnnouncementPolicy, RiskPolicy
<1>2. \A policy \in {DirectoryPolicy, ProfilePolicy, ReferencePolicy, MemberPolicy} : ~policy.empty
    BY DEF DirectoryPolicy, ProfilePolicy, ReferencePolicy, MemberPolicy, Monthly
<1>3. \A policy \in {TurnoverPolicy, OwnershipPolicy, FinancialPolicy} : ~policy.empty
    BY DEF TurnoverPolicy, OwnershipPolicy, FinancialPolicy, Daily
<1>4. CapitalPolicy.asks = Each({1, 2})
    BY DEF CapitalPolicy
<1>5. Policies[f] = CapitalPolicy
    BY <1>1, <1>2, <1>3 DEF Family, Policies
<1> QED
    BY <1>4, <1>5 DEF Each

\* A family whose months may be empty reads all that its provider has.
LEMMA EmptyReadsAll ==
    ASSUME NEW f \in Family, Policies[f].empty
    PROVE  f \notin EndsEarly
<1>1. \A policy \in {StockPolicy, RiskPolicy, DirectoryPolicy, TurnoverPolicy, OwnershipPolicy} : ~policy.empty
    BY DEF StockPolicy, RiskPolicy, DirectoryPolicy, TurnoverPolicy, OwnershipPolicy, Monthly, Daily
<1> QED
    BY <1>1 DEF Family, Policies, EndsEarly

-----------------------------------------------------------------------------
(* What the invariant says of one client and one request.                  *)

\* The typed parts of a call, and what its request stands for.
LEMMA CallTyped ==
    ASSUME TypeOK, NEW c \in Client
    PROVE  /\ call[c] \in [at : Places, req : Request, got : SUBSET Item, lost : BOOLEAN]
           /\ KeyOf(call[c].req) \in Key /\ TagOf(call[c].req) \in Tag
           /\ Policy.asks[call[c].req] \subseteq Item /\ Policy.empty \in BOOLEAN
<1>1. family \in Family
    BY EvidenceHubAssumption DEF TypeOK
<1>2. call[c] \in [at : Places, req : Request, got : SUBSET Item, lost : BOOLEAN]
    BY DEF TypeOK
<1>3. call[c].req \in Request
    BY <1>2
<1> QED
    BY <1>1, <1>2, <1>3, PolicyTyped DEF Typed, Policy, KeyOf, TagOf

Calls == [at : Places, req : Request, got : SUBSET Item, lost : BOOLEAN]

\* A step of one client keeps the shape of all calls, if its own new call has it and the
\* leases of the others are as much their own as before.
LEMMA CallStep ==
    ASSUME HubInv, NEW c \in Client, NEW new \in Calls,
           call' = [call EXCEPT ![c] = new], UNCHANGED world,
           new.at \in {"persist", "readback"} => new.got # {},
           new.at \in {"complete", "record"} /\ new.got = {} =>
               Policy.empty /\ onTime \cap Policy.asks[new.req] = {},
           new.at \in Working => (new.lost <=> lease'[KeyOf(new.req)].owner # c),
           new.lost => new.at \in Working \cup {"fail"},
           \A d \in Client \ {c} : call[d].at \in Working =>
               (lease'[KeyOf(call[d].req)].owner = d <=> lease[KeyOf(call[d].req)].owner = d)
    PROVE  call' \in [Client -> Calls] /\ GotShape' /\ LeaseShape'
<1>1. \A d \in Client : call[d] \in Calls
    BY CallTyped DEF HubInv, Calls
<1>2. call' \in [Client -> Calls]
    BY <1>1 DEF HubInv, TypeOK, Calls
<1>3. call'[c] = new /\ \A d \in Client \ {c} : call'[d] = call[d]
    BY DEF HubInv, TypeOK
<1>4. Policy' = Policy /\ onTime' = onTime
    BY DEF Policy, world
<1>5. \A q : (KeyOf(q))' = Policy.key[q]
    BY <1>4 DEF KeyOf
<1>6. GotShape'
    <2> SUFFICES ASSUME NEW d \in Client
                 PROVE  /\ call'[d].at \in {"persist", "readback"} => call'[d].got # {}
                        /\ call'[d].at \in {"complete", "record"} /\ call'[d].got = {} =>
                              Policy.empty /\ onTime \cap Policy.asks[call'[d].req] = {}
        BY <1>4 DEF GotShape
    <2>1. CASE d = c
        BY <1>3, <2>1
    <2>2. CASE d # c
        BY <1>3, <2>2 DEF HubInv, GotShape
    <2> QED BY <2>1, <2>2
<1>7. LeaseShape'
    <2> SUFFICES ASSUME NEW d \in Client
                 PROVE  /\ call'[d].at \in Working =>
                              (call'[d].lost <=> lease'[Policy.key[call'[d].req]].owner # d)
                        /\ call'[d].lost => call'[d].at \in Working \cup {"fail"}
        BY <1>4 DEF LeaseShape, KeyOf
    <2>1. CASE d = c
        BY <1>3, <2>1 DEF KeyOf
    <2>2. CASE d # c
        BY <1>3, <2>2 DEF HubInv, LeaseShape, KeyOf
    <2> QED BY <2>1, <2>2
<1> QED
    BY <1>2, <1>6, <1>7

\* The parts of TypeOK and EmptyShape that no call is in.
LEMMA TypedTogether ==
    ASSUME HubInv, UNCHANGED world, call' \in [Client -> Calls], GotShape', LeaseShape',
           published' \in SUBSET Item, published \subseteq published',
           store' \in [Item -> [tag : Tag \cup {"none"}, fresh : BOOLEAN]],
           lease' \in [Key -> [owner : Client \cup {Gone, Free}, expired : BOOLEAN]],
           empty' \subseteq Key, empty' # {} => Policy.empty,
           \A r \in Request : KeyOf(r) \in empty' => onTime \cap Policy.asks[r] = {}
    PROVE  HubInv'
<1>1. Policy' = Policy /\ onTime' = onTime /\ \A r : (KeyOf(r))' = KeyOf(r)
    BY DEF Policy, KeyOf, world
<1>2. TypeOK'
    BY DEF HubInv, TypeOK, world, Calls, Policy
<1>3. EmptyShape'
    BY <1>1 DEF EmptyShape
<1> QED
    BY <1>2, <1>3 DEF HubInv

\* What TypeOK and EmptyShape say of the variables a step leaves alone.
LEMMA Parts ==
    ASSUME HubInv
    PROVE  /\ published \in SUBSET Item /\ onTime \subseteq published
           /\ store \in [Item -> [tag : Tag \cup {"none"}, fresh : BOOLEAN]]
           /\ lease \in [Key -> [owner : Client \cup {Gone, Free}, expired : BOOLEAN]]
           /\ empty \subseteq Key /\ (empty # {} => Policy.empty)
           /\ \A r \in Request : KeyOf(r) \in empty => onTime \cap Policy.asks[r] = {}
    BY DEF HubInv, TypeOK, EmptyShape, Policy

-----------------------------------------------------------------------------
(* Every step keeps the invariant.                                         *)

\* A call that ends, leaving the leases of the others alone.
LEMMA ReturnStep ==
    ASSUME HubInv, NEW c \in Client, Returns(c), UNCHANGED world,
           \A d \in Client \ {c} : call[d].at \in Working =>
               (lease'[KeyOf(call[d].req)].owner = d <=> lease[KeyOf(call[d].req)].owner = d)
    PROVE  call' \in [Client -> Calls] /\ GotShape' /\ LeaseShape'
<1>1. Idle \in Calls
    BY DEF Idle, Calls, Places, Request
<1>2. call' = [call EXCEPT ![c] = Idle]
    BY DEF Returns
<1> QED
    BY <1>1, <1>2, CallStep DEF Idle, Working

\* A call that goes on without a lease.
LEMMA QuietStep ==
    ASSUME HubInv, NEW c \in Client, NEW place \in {"read", "verdict", "acquire", "reread", "reverdict"},
           call[c].at \notin Working \cup {"fail"}, Go(c, place), UNCHANGED <<world, lease>>
    PROVE  call' \in [Client -> Calls] /\ GotShape' /\ LeaseShape'
<1> DEFINE new == [call[c] EXCEPT !.at = place]
<1>1. call[c] \in Calls /\ ~call[c].lost
    BY CallTyped DEF HubInv, LeaseShape, Calls
<1>2. new \in Calls /\ new.at = place /\ new.lost = FALSE
    BY <1>1 DEF Calls, Places
<1>3. call' = [call EXCEPT ![c] = new]
    BY DEF Go
<1> QED
    BY <1>2, <1>3, CallStep DEF Working

\* A call that goes on under its lease with the same rows, or fails.
LEMMA WorkStep ==
    ASSUME HubInv, NEW c \in Client, NEW place \in {"persist", "readback", "complete", "fail"},
           call[c].at \in Working, Go(c, place), UNCHANGED <<world, lease>>,
           place \in {"persist", "readback"} => call[c].got # {},
           place = "complete" /\ call[c].got = {} =>
               Policy.empty /\ onTime \cap Policy.asks[call[c].req] = {}
    PROVE  call' \in [Client -> Calls] /\ GotShape' /\ LeaseShape'
<1> DEFINE new == [call[c] EXCEPT !.at = place]
<1>1. call[c] \in Calls
    BY CallTyped DEF HubInv, Calls
<1>2. /\ new \in Calls /\ new.at = place /\ new.lost = call[c].lost
      /\ new.req = call[c].req /\ new.got = call[c].got
    BY <1>1 DEF Calls, Places
<1>3. call' = [call EXCEPT ![c] = new]
    BY DEF Go
<1>4. call[c].lost <=> lease[KeyOf(call[c].req)].owner # c
    BY DEF HubInv, LeaseShape
<1> QED
    BY <1>2, <1>3, <1>4, CallStep DEF Working

LEMMA AskStep ==
    ASSUME HubInv, NEW c \in Client, NEW r \in Callers[family], Ask(c, r)
    PROVE  HubInv'
<1> DEFINE new == [Idle EXCEPT !.at = "read", !.req = r]
<1>1. r \in Request
    BY EvidenceHubAssumption DEF HubInv, TypeOK
<1>2. new \in Calls /\ new.at = "read" /\ new.lost = FALSE
    BY <1>1 DEF Idle, Calls, Places
<1>3. call' = [call EXCEPT ![c] = new] /\ UNCHANGED <<world, published, store, empty, lease>>
    BY DEF Ask
<1>4. call' \in [Client -> Calls] /\ GotShape' /\ LeaseShape'
    BY <1>2, <1>3, CallStep DEF Working
<1> QED
    BY <1>3, <1>4, Parts, TypedTogether

LEMMA ReadStep ==
    ASSUME HubInv, NEW c \in Client, Read(c) \/ ReadVerdict(c) \/ Reread(c) \/ RereadVerdict(c)
    PROVE  HubInv'
<1>1. /\ \/ Returns(c)
         \/ Go(c, "acquire") \/ Go(c, "verdict") \/ Go(c, "reverdict")
      /\ call[c].at \in {"read", "verdict", "reread", "reverdict"}
      /\ UNCHANGED <<world, published, store, empty, lease>>
    BY DEF Read, ReadVerdict, Reread, RereadVerdict, Reading, ReadingVerdict, At
<1>2. call[c].at \notin Working \cup {"fail"}
    BY <1>1 DEF Working
<1>3. call' \in [Client -> Calls] /\ GotShape' /\ LeaseShape'
    BY <1>1, <1>2, ReturnStep, QuietStep
<1> QED
    BY <1>1, <1>3, Parts, TypedTogether

\* The provider's answer: rows are in hand unless the family's month was empty, of which
\* nothing can have been there before anyone asked.
LEMMA FetchStep ==
    ASSUME HubInv, NEW c \in Client, Fetch(c)
    PROVE  HubInv'
<1> DEFINE r == call[c].req
<1>1. call[c].at \in Working /\ UNCHANGED <<world, published, store, empty, lease>>
    BY DEF Fetch, At, Working
<1>2. PICK items \in Answers(family, published \cap Policy.asks[r]), truncated \in BOOLEAN :
        LET fetched == Fetched(family, items, kind, truncated)
            none == ReadsAsEmpty(family, items, fetched.rows)
            valid == Validated(family, r, fetched.rows, kind) IN
        \/ ~fetched.raised /\ none /\ Go(c, "complete")
        \/ /\ ~fetched.raised /\ ~none /\ valid
           /\ call' = [call EXCEPT ![c].at = "persist", ![c].got = fetched.rows]
        \/ (fetched.raised \/ (~none /\ ~valid)) /\ Go(c, "fail")
    BY DEF Fetch
<1> DEFINE rows == Fetched(family, items, kind, truncated).rows
<1>3. items \subseteq Policy.asks[r] /\ rows \subseteq Item
    BY CallTyped DEF HubInv, Answers, Fetched
<1>4. CASE ReadsAsEmpty(family, items, rows) /\ Go(c, "complete")
    <2>1. Policy.empty /\ items = {} /\ family \in Family
        BY <1>4, EvidenceHubAssumption DEF ReadsAsEmpty, Policy, HubInv, TypeOK
    <2>2. published \cap Policy.asks[r] = {}
        BY <2>1, EmptyReadsAll DEF Answers, Policy
    <2>3. onTime \cap Policy.asks[r] = {}
        BY <2>2, Parts
    <2> QED BY <1>1, <1>4, <2>1, <2>3, WorkStep, Parts, TypedTogether
<1>5. CASE rows # {} /\ call' = [call EXCEPT ![c].at = "persist", ![c].got = rows]
    <2> DEFINE new == [call[c] EXCEPT !.at = "persist", !.got = rows]
    <2>1. call[c] \in Calls
        BY CallTyped DEF HubInv, Calls
    <2>2. /\ new \in Calls /\ new.at = "persist" /\ new.got = rows
          /\ new.req = call[c].req /\ new.lost = call[c].lost
        BY <1>3, <2>1 DEF Calls, Places
    <2>3. call' = [call EXCEPT ![c] = new]
        BY <1>5
    <2>4. call[c].lost <=> lease[KeyOf(call[c].req)].owner # c
        BY <1>1 DEF HubInv, LeaseShape
    <2>5. /\ new.got # {} /\ new.at \in Working /\ new.at \notin {"complete", "record"}
          /\ new.lost <=> lease'[KeyOf(new.req)].owner # c
        BY <1>1, <1>5, <2>2, <2>4 DEF Working
    <2> HIDE DEF new
    <2>6. call' \in [Client -> Calls] /\ GotShape' /\ LeaseShape'
        BY <1>1, <2>2, <2>3, <2>5, CallStep
    <2> QED BY <1>1, <2>6, Parts, TypedTogether
<1>6. CASE Go(c, "fail")
    BY <1>1, <1>6, WorkStep, Parts, TypedTogether
<1>7. Validated(family, r, rows, kind) => rows # {}
    BY DEF Validated
<1> QED
    BY <1>2, <1>4, <1>5, <1>6, <1>7

LEMMA PersistStep ==
    ASSUME HubInv, NEW c \in Client, Persist(c)
    PROVE  HubInv'
<1>1. /\ call[c].at = "persist" /\ call[c].at \in Working
      /\ Go(c, "readback") \/ Go(c, "fail")
      /\ store' \in {store, Upserted(call[c].got, call[c].req)}
      /\ UNCHANGED <<world, published, empty, lease>>
    BY DEF Persist, At, Working
<1>2. call[c].got # {} /\ TagOf(call[c].req) \in Tag
    BY <1>1, CallTyped DEF HubInv, GotShape
<1>3. call' \in [Client -> Calls] /\ GotShape' /\ LeaseShape'
    BY <1>1, <1>2, WorkStep
<1>4. store' \in [Item -> [tag : Tag \cup {"none"}, fresh : BOOLEAN]]
    <2>1. store \in [Item -> [tag : Tag \cup {"none"}, fresh : BOOLEAN]]
        BY Parts
    <2>2. [tag |-> TagOf(call[c].req), fresh |-> TRUE] \in [tag : Tag \cup {"none"}, fresh : BOOLEAN]
        BY <1>2
    <2>3. Upserted(call[c].got, call[c].req) \in [Item -> [tag : Tag \cup {"none"}, fresh : BOOLEAN]]
        BY <2>1, <2>2 DEF Upserted
    <2> QED BY <1>1, <2>1, <2>3
<1> QED
    BY <1>1, <1>3, <1>4, Parts, TypedTogether

LEMMA ReadbackStep ==
    ASSUME HubInv, NEW c \in Client, Readback(c)
    PROVE  HubInv'
<1>1. /\ call[c].at = "readback" /\ call[c].at \in Working
      /\ Go(c, "complete") \/ Go(c, "fail")
      /\ UNCHANGED <<world, published, store, empty, lease>>
    BY DEF Readback, At, Working
<1>2. call[c].got # {}
    BY <1>1 DEF HubInv, GotShape
<1>3. call' \in [Client -> Calls] /\ GotShape' /\ LeaseShape'
    BY <1>1, <1>2, WorkStep
<1> QED
    BY <1>1, <1>3, Parts, TypedTogether

\* Taking a lease: it was free, the client's own or past its time, and whoever worked
\* under it has lost it from here on.
LEMMA AcquireStep ==
    ASSUME HubInv, NEW c \in Client, Acquire(c)
    PROVE  HubInv'
<1> DEFINE k == KeyOf(call[c].req)
<1>1. call[c].at = "acquire" /\ UNCHANGED <<world, published, store, empty>>
    BY DEF Acquire, At
<1>2. k \in Key /\ call[c] \in Calls /\ ~call[c].lost
    BY <1>1, CallTyped DEF HubInv, LeaseShape, Calls, Working
<1>3. CASE Go(c, "reread") /\ UNCHANGED lease
    <2>1. call' \in [Client -> Calls] /\ GotShape' /\ LeaseShape'
        BY <1>1, <1>3, QuietStep DEF Working
    <2> QED BY <1>1, <1>3, <2>1, Parts, TypedTogether
<1>4. CASE Returns(c) /\ UNCHANGED lease
    <2>1. call' \in [Client -> Calls] /\ GotShape' /\ LeaseShape'
        BY <1>1, <1>4, ReturnStep
    <2> QED BY <1>1, <1>4, <2>1, Parts, TypedTogether
<1>5. ASSUME NEW after \in {[call[c] EXCEPT !.at = "fetch"], Idle}, TakeLease(c, k, after)
      PROVE  HubInv'
    <2>1. /\ after \in Calls /\ ~after.lost
          /\ \/ after.at = "fetch" /\ after.req = call[c].req
             \/ after.at = "idle"
        <3>1. CASE after = Idle
            BY <3>1 DEF Idle, Calls, Places, Request
        <3>2. CASE after = [call[c] EXCEPT !.at = "fetch"]
            BY <1>2, <3>2 DEF Calls, Places
        <3> QED BY <3>1, <3>2
    <2>2. lease' = [lease EXCEPT ![k] = [owner |-> c, expired |-> FALSE]]
        BY <1>5 DEF TakeLease
    <2>3. lease' \in [Key -> [owner : Client \cup {Gone, Free}, expired : BOOLEAN]]
        BY <2>2, Parts
    <2>4. lease'[k].owner = c /\ \A j \in Key \ {k} : lease'[j] = lease[j]
        BY <1>2, <2>2, Parts
    <2>5. /\ call'[c] = after
          /\ \A d \in Client \ {c} :
                call'[d] = [call[d] EXCEPT !.lost = @ \/ (call[d].at \in Working /\ KeyOf(call[d].req) = k)]
        BY <1>5 DEF TakeLease
    <2>6. \A d \in Client \ {c} :
             /\ call'[d] \in Calls /\ call'[d].at = call[d].at
             /\ call'[d].req = call[d].req /\ call'[d].got = call[d].got
             /\ call'[d].lost <=> call[d].lost \/ (call[d].at \in Working /\ KeyOf(call[d].req) = k)
        <3> TAKE d \in Client \ {c}
        <3>1. call[d] \in Calls
            BY CallTyped DEF HubInv, Calls
        <3>2. call'[d] = [call[d] EXCEPT !.lost = call[d].lost \/ (call[d].at \in Working /\ KeyOf(call[d].req) = k)]
            BY <2>5
        <3>3. (call[d].lost \/ (call[d].at \in Working /\ KeyOf(call[d].req) = k)) \in BOOLEAN
            BY <3>1 DEF Calls
        <3> QED BY <3>1, <3>2, <3>3 DEF Calls
    <2>7. call' \in [Client -> Calls]
        <3>1. \A d \in Client : call'[d] \in Calls
            BY <2>1, <2>5, <2>6
        <3> QED BY <1>5, <3>1 DEF TakeLease
    <2>8. Policy' = Policy /\ onTime' = onTime /\ \A r : (KeyOf(r))' = KeyOf(r)
        BY <1>1 DEF Policy, KeyOf, world
    <2>9. GotShape'
        BY <2>1, <2>5, <2>6, <2>8 DEF HubInv, GotShape
    <2>10. LeaseShape'
        <3> SUFFICES ASSUME NEW d \in Client
                     PROVE  /\ call'[d].at \in Working =>
                                  (call'[d].lost <=> lease'[Policy.key[call'[d].req]].owner # d)
                            /\ call'[d].lost => call'[d].at \in Working \cup {"fail"}
            BY <2>8 DEF LeaseShape, KeyOf
        <3>1. CASE d = c
            BY <2>1, <2>4, <2>5, <3>1 DEF KeyOf, Working
        <3>2. CASE d # c
            <4>1. KeyOf(call[d].req) \in Key
                BY CallTyped DEF HubInv
            <4>2. /\ call[d].at \in Working => (call[d].lost <=> lease[KeyOf(call[d].req)].owner # d)
                  /\ call[d].lost => call[d].at \in Working \cup {"fail"}
                BY DEF HubInv, LeaseShape
            <4> QED BY <2>4, <2>6, <3>2, <4>1, <4>2 DEF KeyOf
        <3> QED BY <3>1, <3>2
    <2> QED BY <1>1, <2>3, <2>7, <2>9, <2>10, Parts, TypedTogether
<1> QED
    BY <1>3, <1>4, <1>5 DEF Acquire

\* A call after its lease: it is recorded only if the lease was still its own.
LEMMA AfterStep ==
    ASSUME HubInv, NEW c \in Client, NEW place \in {"record", "fail"},
           call[c].at \in {"complete", "record"}, Go(c, place), UNCHANGED world,
           place = "record" => ~call[c].lost,
           \A d \in Client \ {c} : call[d].at \in Working =>
               (lease'[KeyOf(call[d].req)].owner = d <=> lease[KeyOf(call[d].req)].owner = d)
    PROVE  call' \in [Client -> Calls] /\ GotShape' /\ LeaseShape'
<1> DEFINE new == [call[c] EXCEPT !.at = place]
<1>1. call[c] \in Calls
    BY CallTyped DEF HubInv, Calls
<1>2. /\ new \in Calls /\ new.at = place /\ new.lost = call[c].lost
      /\ new.req = call[c].req /\ new.got = call[c].got
    BY <1>1 DEF Calls, Places
<1>3. call' = [call EXCEPT ![c] = new]
    BY DEF Go
<1>4. call[c].got = {} => Policy.empty /\ onTime \cap Policy.asks[call[c].req] = {}
    BY DEF HubInv, GotShape
<1> HIDE DEF new
<1> QED
    BY <1>2, <1>3, <1>4, CallStep DEF Working

\* Ending a lease that is not one's own changes nothing.
LEMMA EndedShape ==
    ASSUME HubInv, NEW c \in Client, NEW k \in Key,
           lease' \in {lease, [lease EXCEPT ![k] = Ended(@, c)]}
    PROVE  /\ lease' \in [Key -> [owner : Client \cup {Gone, Free}, expired : BOOLEAN]]
           /\ \A d \in Client \ {c} : \A j \in Key : lease'[j].owner = d <=> lease[j].owner = d
<1>1. lease \in [Key -> [owner : Client \cup {Gone, Free}, expired : BOOLEAN]]
    BY Parts
<1>2. /\ Ended(lease[k], c) \in [owner : Client \cup {Gone, Free}, expired : BOOLEAN]
      /\ \A d \in Client \ {c} : Ended(lease[k], c).owner = d <=> lease[k].owner = d
    BY <1>1, EvidenceHubAssumption DEF Ended, NoLease
<1> QED
    BY <1>1, <1>2

LEMMA CompleteStep ==
    ASSUME HubInv, NEW c \in Client, Complete(c)
    PROVE  HubInv'
<1> DEFINE k == KeyOf(call[c].req)
<1>1. call[c].at = "complete" /\ UNCHANGED <<world, published, store, empty>>
    BY DEF Complete, At
<1>2. k \in Key
    BY CallTyped DEF HubInv
<1>3. PICK place \in {"record", "fail"} :
          /\ Go(c, place) /\ (place = "record" => lease[k].owner = c)
          /\ lease' \in {lease, [lease EXCEPT ![k] = Ended(@, c)]}
    BY DEF Complete
<1>4. /\ lease' \in [Key -> [owner : Client \cup {Gone, Free}, expired : BOOLEAN]]
      /\ \A d \in Client \ {c} : \A j \in Key : lease'[j].owner = d <=> lease[j].owner = d
    BY <1>2, <1>3, EndedShape
<1>5. place = "record" => ~call[c].lost
    BY <1>1, <1>3 DEF HubInv, LeaseShape, Working
<1>6. \A d \in Client : KeyOf(call[d].req) \in Key
    BY CallTyped DEF HubInv
<1>7. call' \in [Client -> Calls] /\ GotShape' /\ LeaseShape'
    BY <1>1, <1>3, <1>4, <1>5, <1>6, AfterStep
<1> QED
    BY <1>1, <1>4, <1>7, Parts, TypedTogether

\* What is recorded of a refresh: the verdict of an empty month is that of every request
\* that asks for it.
LEMMA RecordedShape ==
    ASSUME HubInv, NEW r \in Request, NEW isEmpty \in BOOLEAN,
           isEmpty => Policy.empty /\ onTime \cap Policy.asks[r] = {},
           empty' \in {empty, Recorded(KeyOf(r), isEmpty)}
    PROVE  /\ empty' \subseteq Key /\ (empty' # {} => Policy.empty)
           /\ \A q \in Request : KeyOf(q) \in empty' => onTime \cap Policy.asks[q] = {}
<1>1. family \in Family
    BY EvidenceHubAssumption DEF HubInv, TypeOK
<1>2. KeyOf(r) \in Key
    BY <1>1, PolicyTyped DEF Typed, KeyOf, Policy
<1>3. Policy.empty => \A q \in Request : Policy.asks[q] = Policy.asks[r]
    BY <1>1, OneVerdict DEF Policy
<1>4. /\ empty \subseteq Key /\ (empty # {} => Policy.empty)
      /\ \A q \in Request : KeyOf(q) \in empty => onTime \cap Policy.asks[q] = {}
    BY Parts
<1> QED
    BY <1>2, <1>3, <1>4 DEF Recorded

LEMMA RecordStep ==
    ASSUME HubInv, NEW c \in Client, Record(c)
    PROVE  HubInv'
<1>1. /\ call[c].at = "record" /\ UNCHANGED <<world, published, store, lease>>
      /\ Returns(c) \/ Go(c, "fail")
      /\ empty' \in {empty, Recorded(KeyOf(call[c].req), call[c].got = {})}
    BY DEF Record, At
<1>2. call[c] \in Calls
    BY CallTyped DEF HubInv, Calls
<1>3. call[c].got = {} => Policy.empty /\ onTime \cap Policy.asks[call[c].req] = {}
    BY <1>1 DEF HubInv, GotShape
<1>4. /\ empty' \subseteq Key /\ (empty' # {} => Policy.empty)
      /\ \A q \in Request : KeyOf(q) \in empty' => onTime \cap Policy.asks[q] = {}
    <2>1. call[c].req \in Request /\ (call[c].got = {}) \in BOOLEAN
        BY <1>2 DEF Calls
    <2> QED BY <1>1, <1>3, <2>1, RecordedShape
<1>5. call' \in [Client -> Calls] /\ GotShape' /\ LeaseShape'
    BY <1>1, ReturnStep, AfterStep
<1> QED
    BY <1>1, <1>4, <1>5, Parts, TypedTogether

LEMMA FailStep ==
    ASSUME HubInv, NEW c \in Client, Fail(c)
    PROVE  HubInv'
<1> DEFINE k == KeyOf(call[c].req)
<1>1. /\ Returns(c) /\ UNCHANGED <<world, published, store>>
      /\ lease' \in {lease, [lease EXCEPT ![k] = Ended(@, c)]}
      /\ empty' \in {empty, Recorded(k, FALSE)}
    BY DEF Fail
<1>2. call[c].req \in Request /\ \A d \in Client : KeyOf(call[d].req) \in Key
    BY CallTyped DEF HubInv
<1>3. /\ lease' \in [Key -> [owner : Client \cup {Gone, Free}, expired : BOOLEAN]]
      /\ \A d \in Client \ {c} : \A j \in Key : lease'[j].owner = d <=> lease[j].owner = d
    BY <1>1, <1>2, EndedShape
<1>4. /\ empty' \subseteq Key /\ (empty' # {} => Policy.empty)
      /\ \A q \in Request : KeyOf(q) \in empty' => onTime \cap Policy.asks[q] = {}
    BY <1>1, <1>2, RecordedShape
<1>5. call' \in [Client -> Calls] /\ GotShape' /\ LeaseShape'
    BY <1>1, <1>2, <1>3, ReturnStep
<1> QED
    BY <1>1, <1>3, <1>4, <1>5, Parts, TypedTogether

\* The leases of a client that died are nobody's any more.
LEMMA CrashStep ==
    ASSUME HubInv, NEW c \in Client, Crash(c)
    PROVE  HubInv'
<1>1. /\ Returns(c) /\ UNCHANGED <<world, published, store, empty>>
      /\ lease' = [k \in Key |-> IF lease[k].owner = c THEN [lease[k] EXCEPT !.owner = Gone] ELSE lease[k]]
    BY DEF Crash
<1>2. lease \in [Key -> [owner : Client \cup {Gone, Free}, expired : BOOLEAN]]
    BY Parts
<1>3. \A k \in Key :
         /\ lease'[k] \in [owner : Client \cup {Gone, Free}, expired : BOOLEAN]
         /\ \A d \in Client \ {c} : lease'[k].owner = d <=> lease[k].owner = d
    BY <1>1, <1>2, EvidenceHubAssumption
<1>4. lease' \in [Key -> [owner : Client \cup {Gone, Free}, expired : BOOLEAN]]
    BY <1>1, <1>3
<1>5. \A d \in Client : KeyOf(call[d].req) \in Key
    BY CallTyped DEF HubInv
<1>6. call' \in [Client -> Calls] /\ GotShape' /\ LeaseShape'
    BY <1>1, <1>3, <1>5, ReturnStep
<1> QED
    BY <1>1, <1>4, <1>6, Parts, TypedTogether

\* What happens outside the calls takes no lease from anybody.
LEMMA WorldStep ==
    ASSUME HubInv, UNCHANGED <<world, call, empty>>, published \subseteq published', published' \in SUBSET Item,
           store' \in [Item -> [tag : Tag \cup {"none"}, fresh : BOOLEAN]],
           lease' \in [Key -> [owner : Client \cup {Gone, Free}, expired : BOOLEAN]],
           \A k \in Key : lease'[k].owner = lease[k].owner
    PROVE  HubInv'
<1>1. Policy' = Policy /\ onTime' = onTime /\ \A r : (KeyOf(r))' = KeyOf(r)
    BY DEF Policy, KeyOf, world
<1>2. \A d \in Client : KeyOf(call[d].req) \in Key
    BY CallTyped DEF HubInv
<1>3. call' \in [Client -> Calls]
    BY DEF HubInv, TypeOK, Calls
<1>4. GotShape' /\ LeaseShape'
    BY <1>1, <1>2 DEF HubInv, GotShape, LeaseShape
<1> QED
    BY <1>3, <1>4, Parts, TypedTogether

LEMMA InvInit == Init => HubInv
<1> SUFFICES ASSUME Init PROVE HubInv
    OBVIOUS
<1>1. family \in Family /\ Idle \in Calls
    BY EvidenceHubAssumption DEF Init, Idle, Calls, Places, Request
<1>2. onTime \subseteq Item
    <2>1. Asked \subseteq Item
        <3>1. \A r \in Callers[family] : r \in Request
            BY <1>1, EvidenceHubAssumption
        <3> QED BY <1>1, <3>1, PolicyTyped DEF Asked, Policy, Typed
    <2> QED BY <2>1 DEF Init
<1>3. kind \in [Item -> Kind]
    BY DEF Init, Kind
<1>4. TypeOK
    BY <1>1, <1>2, <1>3 DEF Init, TypeOK, NoRow, NoLease, Calls
<1>5. GotShape /\ LeaseShape /\ EmptyShape
    BY DEF Init, GotShape, LeaseShape, EmptyShape, Idle, Working
<1> QED
    BY <1>4, <1>5 DEF HubInv

LEMMA InvNext ==
    ASSUME HubInv, [Next]_vars
    PROVE  HubInv'
<1>1. ASSUME NEW c \in Client, NEW r \in Callers[family], Ask(c, r)
      PROVE  HubInv'
    BY <1>1, AskStep
<1>2. ASSUME NEW c \in Client, Step(c)
      PROVE  HubInv'
    BY <1>2, ReadStep, AcquireStep, FetchStep, PersistStep, ReadbackStep, CompleteStep, RecordStep,
       FailStep DEF Step
<1>3. ASSUME NEW c \in Client, Crash(c)
      PROVE  HubInv'
    BY <1>3, CrashStep
<1>4. ASSUME NEW k \in Key, Expire(k)
      PROVE  HubInv'
    BY <1>4, Parts, WorldStep DEF Expire
<1>5. ASSUME NEW i \in Item, Publish(i)
      PROVE  HubInv'
    BY <1>5, Parts, WorldStep DEF Publish
<1>6. CASE GrowOld
    BY <1>6, Parts, WorldStep DEF GrowOld
<1>7. CASE UNCHANGED vars
    BY <1>7, Parts, WorldStep DEF vars, world
<1> QED
    BY <1>1, <1>2, <1>3, <1>4, <1>5, <1>6, <1>7 DEF Next

\* The invariant of every behaviour of the hub.
THEOREM HubInvariant == Spec => []HubInv
    BY InvInit, InvNext, PTL DEF Spec

-----------------------------------------------------------------------------
(* The theorems.                                                           *)

\* The table of leases, the rows and the calls stay typed, and only a family whose months
\* may be empty has verdicts of emptiness (get_or_refresh and the lease functions).
THEOREM TypeCorrect == Spec => []TypeOK
    BY HubInvariant, PTL DEF HubInv

\* A refresh that reports success held its lease from the call of the provider to the end
\* (get_or_refresh, evidence_complete_refresh_lease).
THEOREM SuccessFenced == Spec => []SuccessIsFenced
<1>1. HubInv => SuccessIsFenced
    BY DEF HubInv, LeaseShape, SuccessIsFenced, At, Working
<1> QED
    BY <1>1, HubInvariant, PTL

\* No corporate action was there before anyone asked for a month that is on record as
\* empty (shared_capital_action_evidence.py, fetch; record_provider_state).
THEOREM EmptyMonths == Spec => []EmptyIsEmpty
<1>1. HubInv => EmptyIsEmpty
    BY EvidenceHubAssumption DEF HubInv, TypeOK, EmptyShape, EmptyIsEmpty
<1> QED
    BY <1>1, HubInvariant, PTL

\* Only a lease that was claimable lets a client call the provider.
LEMMA OnlyAcquireFetches ==
    ASSUME HubInv, Next, NEW c \in Client, call[c].at # "fetch", call'[c].at = "fetch"
    PROVE  Claimable(lease[KeyOf(call[c].req)], c)
<1>1. \A d \in Client : call[d] \in Calls
    BY CallTyped DEF HubInv, Calls
<1>2. ASSUME NEW e \in Client, NEW new \in Calls, new.at # "fetch", call' = [call EXCEPT ![e] = new]
      PROVE  FALSE
    BY <1>2 DEF HubInv, TypeOK
<1>3. ASSUME NEW e \in Client, Returns(e)
      PROVE  FALSE
    BY <1>2, <1>3 DEF Returns, Idle, Calls, Places, Request
<1>4. ASSUME NEW e \in Client, NEW place \in Places \ {"fetch"}, Go(e, place)
      PROVE  FALSE
    <2> DEFINE new == [call[e] EXCEPT !.at = place]
    <2>1. new \in Calls /\ new.at # "fetch" /\ call' = [call EXCEPT ![e] = new]
        BY <1>1, <1>4 DEF Go, Calls
    <2> QED BY <1>2, <2>1
<1>5. ASSUME NEW e \in Client, NEW r \in Callers[family], Ask(e, r)
      PROVE  FALSE
    <2>1. call'[c].at \in {call[c].at, "read"}
        BY <1>1, <1>5 DEF Ask, Idle, HubInv, TypeOK
    <2> QED BY <2>1
<1>6. ASSUME NEW e \in Client, Read(e) \/ ReadVerdict(e) \/ Reread(e) \/ RereadVerdict(e)
      PROVE  FALSE
    <2>1. Returns(e) \/ Go(e, "acquire") \/ Go(e, "verdict") \/ Go(e, "reverdict")
        BY <1>6 DEF Read, ReadVerdict, Reread, RereadVerdict, Reading, ReadingVerdict
    <2> QED BY <1>3, <1>4, <2>1 DEF Places
<1>7. ASSUME NEW e \in Client, Acquire(e)
      PROVE  Claimable(lease[KeyOf(call[c].req)], c)
    <2>1. CASE Returns(e) \/ Go(e, "reread")
        BY <1>3, <1>4, <2>1 DEF Places
    <2>2. CASE \E after : Claimable(lease[KeyOf(call[e].req)], e) /\ TakeLease(e, KeyOf(call[e].req), after)
        <3>1. e # c => call'[c].at = call[c].at
            BY <1>1, <2>2 DEF TakeLease, Calls
        <3> QED BY <2>2, <3>1
    <2> QED BY <1>7, <2>1, <2>2 DEF Acquire
<1>8. ASSUME NEW e \in Client, Fetch(e)
      PROVE  FALSE
    <2>1. \/ Go(e, "complete") \/ Go(e, "fail")
          \/ \E rows : call' = [call EXCEPT ![e].at = "persist", ![e].got = rows]
        BY <1>8 DEF Fetch
    <2>2. ASSUME NEW rows, call' = [call EXCEPT ![e].at = "persist", ![e].got = rows]
          PROVE  FALSE
        <3>1. call'[c].at \in {call[c].at, "persist"}
            BY <1>1, <2>2 DEF Calls, HubInv, TypeOK
        <3> QED BY <3>1
    <2> QED BY <1>4, <2>1, <2>2 DEF Places
<1>9. ASSUME NEW e \in Client, Persist(e) \/ Readback(e) \/ Complete(e) \/ Record(e) \/ Fail(e) \/ Crash(e)
      PROVE  FALSE
    <2>1. Returns(e) \/ Go(e, "readback") \/ Go(e, "complete") \/ Go(e, "record") \/ Go(e, "fail")
        BY <1>9 DEF Persist, Readback, Complete, Record, Fail, Crash
    <2> QED BY <1>3, <1>4, <2>1 DEF Places
<1>10. CASE UNCHANGED call
    BY <1>10
<1>11. (\E k \in Key : Expire(k)) \/ (\E i \in Item : Publish(i)) \/ GrowOld => UNCHANGED call
    BY DEF Expire, Publish, GrowOld
<1> QED
    BY <1>5, <1>6, <1>7, <1>8, <1>9, <1>10, <1>11 DEF Next, Step

\* A client starts to call the provider for a key while another one is at work on it only
\* when the other one's time ran out (evidence_acquire_refresh_lease).
THEOREM OneHolder == Spec => OneHolderFetches
<1> DEFINE Taken ==
       \A c, d \in Client :
          /\ c # d /\ ~At(c, "fetch") /\ call[d].at \in Working /\ ~call[d].lost
          /\ call'[c].at = "fetch" /\ KeyOf(call[c].req) = KeyOf(call[d].req)
          => lease[KeyOf(call[d].req)].expired
<1>1. HubInv /\ [Next]_vars => [Taken]_vars
    <2> SUFFICES ASSUME HubInv, Next, NEW c \in Client, NEW d \in Client,
                        c # d, ~At(c, "fetch"), call[d].at \in Working, ~call[d].lost,
                        call'[c].at = "fetch", KeyOf(call[c].req) = KeyOf(call[d].req)
                 PROVE  lease[KeyOf(call[d].req)].expired
        OBVIOUS
    <2>1. Claimable(lease[KeyOf(call[c].req)], c)
        BY OnlyAcquireFetches DEF At
    <2>2. lease[KeyOf(call[d].req)].owner = d
        BY DEF HubInv, LeaseShape
    <2> QED BY <2>1, <2>2, EvidenceHubAssumption DEF Claimable
<1> QED
    BY <1>1, HubInvariant, PTL DEF Spec, OneHolderFetches

-----------------------------------------------------------------------------
(* The rows of the table.                                                  *)

\* What an answer to a request must have.
Due(r) == {i \in onTime \cap Policy.asks[r] : kind[i] = "good"}

\* Rows that are about to be written are of the request, and lack nothing of it unless a
\* part of a feed is taken for all of it.
GotWhole ==
    \A c \in Client : call[c].at = "persist" =>
        /\ call[c].got \subseteq Policy.asks[call[c].req]
        /\ family \notin EndsEarly => Due(call[c].req) \subseteq call[c].got

\* A row with the tag of a request was asked for by one with that tag.
RowsAsked ==
    \A i \in Item, r \in Request : store[i].tag = TagOf(r) =>
        \E q \in Request : TagOf(q) = TagOf(r) /\ i \in Policy.asks[q]

\* Rows of a request that are there are all of them.
RowsWhole ==
    family \notin Moving \cup EndsEarly =>
        \A r \in Request : Rows(r) # {} => Due(r) \subseteq Rows(r)

RowsInv == HubInv /\ GotWhole /\ RowsAsked /\ RowsWhole

\* Requests of a family share their rows and ask for the same, or share nothing.
LEMMA TagsApart ==
    ASSUME NEW f \in Family, f \notin Moving, NEW r \in Request, NEW q \in Request
    PROVE  /\ Policies[f].tag[r] # Policies[f].tag[q] => Policies[f].asks[r] \cap Policies[f].asks[q] = {}
           /\ f # "STOCK" /\ Policies[f].tag[r] = Policies[f].tag[q] => Policies[f].asks[r] = Policies[f].asks[q]
<1> DEFINE Apart(policy) == policy.tag[r] # policy.tag[q] => policy.asks[r] \cap policy.asks[q] = {}
           Alike(policy) == policy.tag[r] = policy.tag[q] => policy.asks[r] = policy.asks[q]
<1>1. Apart(StockPolicy)
    BY DEF StockPolicy, Each, Request
<1>2. Apart(ParticipantPolicy) /\ Alike(ParticipantPolicy)
    BY DEF ParticipantPolicy, Each, Split, Request
<1>3. Apart(AnnouncementPolicy) /\ Alike(AnnouncementPolicy)
    BY DEF AnnouncementPolicy, Each, Split, Request
<1>4. \A asks, fates, refuses :
         Apart(Monthly(asks, fates, refuses)) /\ Alike(Monthly(asks, fates, refuses))
    BY DEF Monthly, Each, Split, Request
<1>5. \A fates, refuses : Apart(Daily(fates, refuses)) /\ Alike(Daily(fates, refuses))
    BY DEF Daily, Each, Split, Request
<1>6. Apart(FinancialPolicy) /\ Alike(FinancialPolicy)
    BY DEF FinancialPolicy, Each, Request
<1>7. /\ Apart(DirectoryPolicy) /\ Alike(DirectoryPolicy) /\ Apart(ProfilePolicy) /\ Alike(ProfilePolicy)
      /\ Apart(ReferencePolicy) /\ Alike(ReferencePolicy) /\ Apart(MemberPolicy) /\ Alike(MemberPolicy)
    BY <1>4 DEF DirectoryPolicy, ProfilePolicy, ReferencePolicy, MemberPolicy
<1>8. /\ Apart(TurnoverPolicy) /\ Alike(TurnoverPolicy) /\ Apart(OwnershipPolicy) /\ Alike(OwnershipPolicy)
    BY <1>5 DEF TurnoverPolicy, OwnershipPolicy
<1> HIDE DEF Apart, Alike
<1>9. Apart(Policies[f]) /\ (f # "STOCK" => Alike(Policies[f]))
    BY <1>1, <1>2, <1>3, <1>6, <1>7, <1>8 DEF Family, Policies, Moving
<1> QED BY <1>9 DEF Apart, Alike

\* A good item of whatever family becomes a row, and a floor is a number.
LEMMA GoodIsRow ==
    ASSUME NEW f \in Family
    PROVE  Policies[f].fates["good"] = "row" /\ Policies[f].min \in [Request -> Nat]
<1> DEFINE Sound(policy) == policy.fates["good"] = "row" /\ policy.min \in [Request -> Nat]
<1>1. \A unnamed, misdated, malformed : Fates(unnamed, misdated, malformed)["good"] = "row"
    BY DEF Fates, Kind
<1>2. \A n \in Nat : Each(n) \in [Request -> Nat]
    BY DEF Each
<1>3. Breadth(2) \in Nat
    BY DEF Breadth
<1>4. Sound(StockPolicy)
    BY <1>1, <1>2, <1>3 DEF StockPolicy, StockFates
<1>5. Sound(ParticipantPolicy)
    BY <1>1 DEF ParticipantPolicy, ParticipantFates, Split
<1>6. Sound(AnnouncementPolicy) /\ Sound(CapitalPolicy) /\ Sound(RiskPolicy) /\ Sound(FinancialPolicy)
    BY <1>1, <1>2 DEF AnnouncementPolicy, AnnouncementFates, CapitalPolicy, CapitalFates, RiskPolicy, RiskFates,
                      FinancialPolicy, FinancialFates
<1>7. Sound(DirectoryPolicy) /\ Sound(ProfilePolicy) /\ Sound(ReferencePolicy) /\ Sound(MemberPolicy)
    BY <1>1, <1>2 DEF DirectoryPolicy, DirectoryFates, ProfilePolicy, ProfileFates, ReferencePolicy,
                      ReferenceFates, MemberPolicy, MemberFates, Monthly
<1>8. Sound(TurnoverPolicy) /\ Sound(OwnershipPolicy)
    BY <1>1, <1>2 DEF TurnoverPolicy, TurnoverFates, OwnershipPolicy, OwnershipFates, Daily
<1> HIDE DEF Sound
<1>9. Sound(Policies[f])
    BY <1>4, <1>5, <1>6, <1>7, <1>8 DEF Family, Policies
<1> QED BY <1>9 DEF Sound

\* Only the provider's answer gives a client rows to write.
LEMMA PersistIsFetched ==
    ASSUME HubInv, Next, NEW c \in Client, call'[c].at = "persist"
    PROVE  \/ call[c].at = "persist" /\ call'[c].got = call[c].got /\ call'[c].req = call[c].req
           \/ Fetch(c)
<1> DEFINE Same == call[c].at = "persist" /\ call'[c].got = call[c].got /\ call'[c].req = call[c].req
<1>1. \A d \in Client : call[d] \in Calls
    BY CallTyped DEF HubInv, Calls
<1>2. ASSUME NEW e \in Client, NEW new \in Calls, new.at # "persist", call' = [call EXCEPT ![e] = new]
      PROVE  Same
    <2>1. call'[c] = IF c = e THEN new ELSE call[c]
        BY <1>2 DEF HubInv, TypeOK
    <2> QED BY <1>2, <2>1
<1>3. ASSUME NEW e \in Client, Returns(e)
      PROVE  Same
    BY <1>2, <1>3 DEF Returns, Idle, Calls, Places, Request
<1>4. ASSUME NEW e \in Client, NEW place \in Places \ {"persist"}, Go(e, place)
      PROVE  Same
    <2> DEFINE new == [call[e] EXCEPT !.at = place]
    <2>1. new \in Calls /\ new.at # "persist" /\ call' = [call EXCEPT ![e] = new]
        BY <1>1, <1>4 DEF Go, Calls
    <2> HIDE DEF new
    <2> QED BY <1>2, <2>1
<1>5. ASSUME NEW e \in Client, NEW r \in Callers[family], Ask(e, r)
      PROVE  Same
    <2> DEFINE new == [Idle EXCEPT !.at = "read", !.req = r]
    <2>1. r \in Request
        BY EvidenceHubAssumption DEF HubInv, TypeOK
    <2>2. new \in Calls /\ new.at # "persist" /\ call' = [call EXCEPT ![e] = new]
        BY <1>5, <2>1 DEF Ask, Idle, Calls, Places
    <2> HIDE DEF new
    <2> QED BY <1>2, <2>2
<1>6. ASSUME NEW e \in Client, Read(e) \/ ReadVerdict(e) \/ Reread(e) \/ RereadVerdict(e)
      PROVE  Same
    <2>1. Returns(e) \/ Go(e, "acquire") \/ Go(e, "verdict") \/ Go(e, "reverdict")
        BY <1>6 DEF Read, ReadVerdict, Reread, RereadVerdict, Reading, ReadingVerdict
    <2> QED BY <1>3, <1>4, <2>1 DEF Places
<1>7. ASSUME NEW e \in Client, Acquire(e)
      PROVE  Same
    <2>1. CASE Returns(e) \/ Go(e, "reread")
        BY <1>3, <1>4, <2>1 DEF Places
    <2>2. ASSUME NEW after \in {[call[e] EXCEPT !.at = "fetch"], Idle}, TakeLease(e, KeyOf(call[e].req), after)
          PROVE  Same
        <3>1. after.at # "persist"
            <4>1. [call[e] EXCEPT !.at = "fetch"].at = "fetch" /\ Idle.at = "idle"
                BY <1>1 DEF Calls, Idle
            <4> QED BY <2>2, <4>1
        <3>2. e # c
            BY <2>2, <3>1 DEF TakeLease
        <3>3. call'[c] = [call[c] EXCEPT !.lost = @ \/ (call[c].at \in Working /\ KeyOf(call[c].req) = KeyOf(call[e].req))]
            BY <2>2, <3>2 DEF TakeLease
        <3>4. /\ call'[c].at = call[c].at /\ call'[c].got = call[c].got /\ call'[c].req = call[c].req
            BY <1>1, <3>3 DEF Calls
        <3> QED BY <3>4
    <2> QED BY <1>7, <2>1, <2>2 DEF Acquire
<1>8. ASSUME NEW e \in Client, Fetch(e)
      PROVE  Same \/ Fetch(c)
    <2>1. \/ Go(e, "complete") \/ Go(e, "fail")
          \/ \E rows : call' = [call EXCEPT ![e].at = "persist", ![e].got = rows]
        BY <1>8 DEF Fetch
    <2>2. ASSUME NEW rows, call' = [call EXCEPT ![e].at = "persist", ![e].got = rows], e # c
          PROVE  Same
        <3>1. call'[c] = call[c]
            BY <2>2 DEF HubInv, TypeOK
        <3> QED BY <3>1
    <2> QED BY <1>4, <1>8, <2>1, <2>2 DEF Places
<1>9. ASSUME NEW e \in Client, Persist(e) \/ Readback(e) \/ Complete(e) \/ Record(e) \/ Fail(e) \/ Crash(e)
      PROVE  Same
    <2>1. Returns(e) \/ Go(e, "readback") \/ Go(e, "complete") \/ Go(e, "record") \/ Go(e, "fail")
        BY <1>9 DEF Persist, Readback, Complete, Record, Fail, Crash
    <2> QED BY <1>3, <1>4, <2>1 DEF Places
<1>10. CASE UNCHANGED call
    BY <1>10
<1>11. (\E k \in Key : Expire(k)) \/ (\E i \in Item : Publish(i)) \/ GrowOld => UNCHANGED call
    BY DEF Expire, Publish, GrowOld
<1> QED
    BY <1>5, <1>6, <1>7, <1>8, <1>9, <1>10, <1>11 DEF Next, Step

\* What a client that fetched writes is of its request and whole.
LEMMA FetchedIsWhole ==
    ASSUME HubInv, NEW c \in Client, Fetch(c), call'[c].at = "persist"
    PROVE  /\ call'[c].got \subseteq Policy.asks[call'[c].req]
           /\ family \notin EndsEarly => Due(call'[c].req) \subseteq call'[c].got
<1> DEFINE r == call[c].req
<1>1. call[c] \in Calls /\ family \in Family /\ onTime \subseteq published /\ call \in [Client -> Calls]
    BY CallTyped, EvidenceHubAssumption DEF HubInv, TypeOK, Calls
<1>2. PICK items \in Answers(family, published \cap Policy.asks[r]), truncated \in BOOLEAN :
        \/ Go(c, "complete") \/ Go(c, "fail")
        \/ call' = [call EXCEPT ![c].at = "persist", ![c].got = Fetched(family, items, kind, truncated).rows]
    BY DEF Fetch
<1> DEFINE rows == Fetched(family, items, kind, truncated).rows
<1>3. call' = [call EXCEPT ![c].at = "persist", ![c].got = rows]
    <2>1. ASSUME NEW place \in {"complete", "fail"}, Go(c, place) PROVE FALSE
        BY <1>1, <2>1 DEF Go, Calls
    <2> QED BY <1>2, <2>1
<1>4. call'[c].got = rows /\ call'[c].req = r
    <2> HIDE DEF rows
    <2> QED BY <1>1, <1>3 DEF Calls
<1>5. items \subseteq Policy.asks[r] /\ (family \notin EndsEarly => onTime \cap Policy.asks[r] \subseteq items)
    BY <1>1 DEF Answers
<1>6. rows \subseteq Policy.asks[r] /\ (family \notin EndsEarly => Due(r) \subseteq rows)
    BY <1>1, <1>5, GoodIsRow DEF Fetched, Due
<1> HIDE DEF rows, r
<1> QED BY <1>4, <1>6

\* A step of the table: rows stay, age, or are those a client writes.
LEMMA StoreSteps ==
    ASSUME HubInv, [Next]_vars
    PROVE  \/ store' = store
           \/ \A i \in Item : store'[i].tag = store[i].tag
           \/ \E c \in Client : call[c].at = "persist" /\ store' = Upserted(call[c].got, call[c].req)
<1>1. CASE GrowOld
    BY <1>1 DEF GrowOld, HubInv, TypeOK
<1>2. ASSUME NEW c \in Client, Persist(c)
      PROVE  store' = store \/ (call[c].at = "persist" /\ store' = Upserted(call[c].got, call[c].req))
    BY <1>2, Zenon DEF Persist, At
<1>3. ASSUME NEW c \in Client, \/ \E r \in Callers[family] : Ask(c, r)
                               \/ Read(c) \/ ReadVerdict(c) \/ Acquire(c) \/ Reread(c) \/ RereadVerdict(c)
                               \/ Fetch(c) \/ Readback(c) \/ Complete(c) \/ Record(c) \/ Fail(c) \/ Crash(c)
      PROVE  store' = store
    <2>1. (\E r \in Callers[family] : Ask(c, r)) \/ Acquire(c) \/ Fetch(c) => store' = store
        BY Zenon DEF Ask, Acquire, Fetch
    <2>2. Read(c) \/ ReadVerdict(c) \/ Reread(c) \/ RereadVerdict(c) => store' = store
        BY DEF Read, ReadVerdict, Reread, RereadVerdict, Reading, ReadingVerdict
    <2>3. Readback(c) \/ Complete(c) \/ Record(c) \/ Fail(c) \/ Crash(c) => store' = store
        BY DEF Readback, Complete, Record, Fail, Crash
    <2> QED BY <1>3, <2>1, <2>2, <2>3
<1>4. (\E k \in Key : Expire(k)) \/ (\E i \in Item : Publish(i)) \/ UNCHANGED vars => store' = store
    BY DEF Expire, Publish, vars
<1> QED
    BY <1>1, <1>2, <1>3, <1>4 DEF Next, Step

LEMMA WorldStays == ASSUME [Next]_vars PROVE UNCHANGED world
<1>1. ASSUME NEW c \in Client, (\E r \in Callers[family] : Ask(c, r)) \/ Step(c) \/ Crash(c)
      PROVE  UNCHANGED world
    <2>1. (\E r \in Callers[family] : Ask(c, r)) \/ Acquire(c) \/ Fetch(c) => UNCHANGED world
        BY Zenon DEF Ask, Acquire, Fetch
    <2>2. Read(c) \/ ReadVerdict(c) \/ Reread(c) \/ RereadVerdict(c) => UNCHANGED world
        BY DEF Read, ReadVerdict, Reread, RereadVerdict, Reading, ReadingVerdict
    <2>3. Persist(c) \/ Readback(c) \/ Complete(c) \/ Record(c) \/ Fail(c) \/ Crash(c) => UNCHANGED world
        BY DEF Persist, Readback, Complete, Record, Fail, Crash
    <2> QED BY <1>1, <2>1, <2>2, <2>3 DEF Step
<1>2. (\E k \in Key : Expire(k)) \/ (\E i \in Item : Publish(i)) \/ GrowOld \/ UNCHANGED vars => UNCHANGED world
    BY DEF Expire, Publish, GrowOld, vars, world
<1> QED BY <1>1, <1>2 DEF Next

\* An upsert adds to the rows of every request with its tag and takes none from the others.
LEMMA UpsertKeeps ==
    ASSUME RowsInv, family \notin Moving, NEW c \in Client, call[c].at = "persist",
           store' = Upserted(call[c].got, call[c].req), NEW r \in Request
    PROVE  {i \in Item : store'[i].tag = TagOf(r)}
             = Rows(r) \cup (IF TagOf(r) = TagOf(call[c].req) THEN call[c].got ELSE {})
<1> DEFINE got == call[c].got
           q == call[c].req
<1>1. got \subseteq Item /\ q \in Request /\ family \in Family /\ got \subseteq Policy.asks[q]
    BY CallTyped, EvidenceHubAssumption DEF RowsInv, HubInv, TypeOK, GotWhole
<1>2. \A i \in Item : store'[i].tag = IF i \in got THEN TagOf(q) ELSE store[i].tag
    BY DEF Upserted
<1>3. CASE TagOf(r) = TagOf(q)
    <2> HIDE DEF got, q
    <2>1. {i \in Item : store'[i].tag = TagOf(r)} = Rows(r) \cup got
        BY <1>1, <1>2, <1>3 DEF Rows
    <2> QED BY <1>3, <2>1 DEF got, q
<1>4. CASE TagOf(r) # TagOf(q)
    <2>1. \A i \in Rows(r) : i \notin got
        <3> SUFFICES ASSUME NEW i \in Rows(r), i \in got PROVE FALSE
            OBVIOUS
        <3>1. PICK p \in Request : TagOf(p) = TagOf(r) /\ i \in Policy.asks[p]
            BY DEF RowsInv, RowsAsked, Rows
        <3> HIDE DEF got, q
        <3>2. Policy.asks[p] \cap Policy.asks[q] = {}
            BY <1>1, <1>4, <3>1, TagsApart DEF TagOf, Policy
        <3> QED BY <1>1, <3>1, <3>2
    <2> HIDE DEF got, q
    <2>2. {i \in Item : store'[i].tag = TagOf(r)} = Rows(r)
        BY <1>1, <1>2, <1>4, <2>1 DEF Rows
    <2> QED BY <1>4, <2>2 DEF got, q
<1> QED BY <1>3, <1>4

LEMMA RowsStep ==
    ASSUME RowsInv, [Next]_vars
    PROVE  RowsInv'
<1>1. HubInv /\ HubInv'
    BY InvNext DEF RowsInv
<1>2. UNCHANGED world /\ Policy' = Policy /\ onTime' = onTime /\ kind' = kind /\ family' = family
    BY WorldStays DEF world, Policy
<1>3. GotWhole'
    <2> SUFFICES ASSUME NEW c \in Client, call'[c].at = "persist"
                 PROVE  /\ call'[c].got \subseteq Policy.asks[call'[c].req]
                        /\ family \notin EndsEarly =>
                              {i \in onTime \cap Policy.asks[call'[c].req] : kind[i] = "good"} \subseteq call'[c].got
        BY <1>2 DEF GotWhole, Due
    <2>1. CASE call[c].at = "persist" /\ call'[c].got = call[c].got /\ call'[c].req = call[c].req
        BY <2>1 DEF RowsInv, GotWhole, Due
    <2>2. CASE Fetch(c)
        BY <1>1, <2>2, FetchedIsWhole DEF Due
    <2>3. CASE UNCHANGED vars
        BY <2>1, <2>3 DEF vars
    <2> QED BY <1>1, <2>1, <2>2, <2>3, PersistIsFetched
<1>4. CASE store' = store \/ \A i \in Item : store'[i].tag = store[i].tag
    <2>1. \A i \in Item : store'[i].tag = store[i].tag
        BY <1>4
    <2>2. RowsAsked'
        BY <1>2, <2>1 DEF RowsInv, RowsAsked, TagOf
    <2>3. \A r \in Request : {i \in Item : store'[i].tag = Policy.tag[r]} = Rows(r)
        BY <2>1 DEF Rows, TagOf
    <2>4. RowsWhole'
        BY <1>2, <2>3 DEF RowsInv, RowsWhole, Rows, TagOf, Due
    <2> QED BY <1>1, <1>3, <2>2, <2>4 DEF RowsInv
<1>5. ASSUME NEW c \in Client, call[c].at = "persist", store' = Upserted(call[c].got, call[c].req)
      PROVE  RowsInv'
    <2> DEFINE got == call[c].got
               q == call[c].req
    <2>1. /\ got \subseteq Policy.asks[q] /\ q \in Request /\ family \in Family
          /\ family \notin EndsEarly => Due(q) \subseteq got
        BY <1>1, <1>5, CallTyped, EvidenceHubAssumption DEF RowsInv, GotWhole, HubInv, TypeOK
    <2>2. \A i \in Item : store'[i].tag = IF i \in got THEN TagOf(q) ELSE store[i].tag
        BY <1>5 DEF Upserted
    <2>3. RowsAsked'
        <3> SUFFICES ASSUME NEW i \in Item, NEW r \in Request, store'[i].tag = TagOf(r)
                     PROVE  \E p \in Request : TagOf(p) = TagOf(r) /\ i \in Policy.asks[p]
            BY <1>2 DEF RowsAsked, TagOf
        <3> HIDE DEF got, q
        <3> QED BY <2>1, <2>2 DEF RowsInv, RowsAsked
    <2>4. RowsWhole'
        <3> SUFFICES ASSUME family \notin Moving \cup EndsEarly, NEW r \in Request,
                            {i \in Item : store'[i].tag = TagOf(r)} # {}
                     PROVE  Due(r) \subseteq {i \in Item : store'[i].tag = TagOf(r)}
            BY <1>2 DEF RowsWhole, Rows, TagOf, Due
        <3>1. {i \in Item : store'[i].tag = TagOf(r)}
                 = Rows(r) \cup (IF TagOf(r) = TagOf(q) THEN got ELSE {})
            BY <1>5, UpsertKeeps
        <3> HIDE DEF got, q
        <3>2. CASE TagOf(r) = TagOf(q)
            <4>1. Due(r) = Due(q)
                BY <2>1, <3>2, TagsApart DEF Due, TagOf, Policy, EndsEarly
            <4> QED BY <2>1, <3>1, <3>2, <4>1
        <3>3. CASE TagOf(r) # TagOf(q)
            BY <3>1, <3>3 DEF RowsInv, RowsWhole
        <3> QED BY <3>2, <3>3
    <2> QED BY <1>1, <1>3, <2>3, <2>4 DEF RowsInv
<1> QED BY <1>1, <1>4, <1>5, StoreSteps

\* The invariant of the rows, of every behaviour of the hub.
THEOREM RowsInvariant == Spec => []RowsInv
<1>1. Init => RowsInv
    <2> SUFFICES ASSUME Init PROVE RowsInv
        OBVIOUS
    <2>1. HubInv
        BY InvInit
    <2>2. family \in Family
        BY EvidenceHubAssumption DEF Init
    <2>3. \A r \in Request : TagOf(r) \in Tag
        BY <2>2, PolicyTyped DEF Typed, TagOf, Policy
    <2>4. \A r \in Request : \A i \in Item : store[i].tag # TagOf(r)
        BY <2>3 DEF Init, NoRow, Tag
    <2>5. RowsAsked /\ RowsWhole
        BY <2>4 DEF RowsAsked, RowsWhole, Rows
    <2>6. GotWhole
        BY DEF Init, GotWhole, Idle
    <2> QED BY <2>1, <2>5, <2>6 DEF RowsInv
<1>2. RowsInv /\ [Next]_vars => RowsInv'
    BY RowsStep
<1> QED BY <1>1, <1>2, PTL DEF Spec

\* Valid rows are all of what the provider had on time, for every family whose rows do not
\* move between requests and which takes no part of a feed for all of it (ServedIsWhole).
THEOREM ServedWhole == Spec => []ServedIsWhole
<1>1. RowsInv => ServedIsWhole
    <2> SUFFICES ASSUME RowsInv, NEW r \in Callers[family], family \notin Moving \cup EndsEarly,
                        Classify(r) = "VALID"
                 PROVE  Due(r) \subseteq Rows(r)
        BY DEF ServedIsWhole, Due
    <2>1. r \in Request
        BY EvidenceHubAssumption DEF RowsInv, HubInv, TypeOK
    <2>2. Rows(r) # {}
        BY DEF Classify
    <2> QED BY <2>1, <2>2 DEF RowsInv, RowsWhole
<1> QED BY <1>1, RowsInvariant, PTL

\* Rows that are there answer a request, stale or not, when they are as many as it needs.
LEMMA CachedIs ==
    ASSUME NEW r
    PROVE  Classify(r) \in {"VALID", "STALE"} <=> Rows(r) # {} /\ ~(Cardinality(Rows(r)) < Policy.min[r])
    BY DEF Classify

LEMMA ThreeRows == IsFiniteSet(1..3)
<1>1. ASSUME NEW a \in Int, NEW b \in Int PROVE IsFiniteSet(a..b)
    BY FS_Interval
<1>2. 1 \in Int /\ 3 \in Int
    OBVIOUS
<1> QED BY <1>1, <1>2

\* No refresh of another request takes away what answers a request, on time or late
\* (CachedStaysCached): the upserts move no row from one request to another.
THEOREM CachedStays == Spec => CachedStaysCached
<1> DEFINE Kept ==
       \A r \in Callers[family] :
          family \notin Moving /\ Classify(r) \in {"VALID", "STALE"}
          => Classify(r)' \in {"VALID", "STALE"}
<1>1. RowsInv /\ [Next]_vars => [Kept]_vars
    <2> SUFFICES ASSUME RowsInv, [Next]_vars, NEW r \in Callers[family],
                        family \notin Moving, Classify(r) \in {"VALID", "STALE"}
                 PROVE  Classify(r)' \in {"VALID", "STALE"}
        OBVIOUS
    <2>1. family \in Family /\ r \in Request /\ Policy' = Policy
        BY WorldStays, EvidenceHubAssumption DEF RowsInv, HubInv, TypeOK, world, Policy
    <2>2. Rows(r) \subseteq Rows(r)'
        <3>1. CASE store' = store \/ \A i \in Item : store'[i].tag = store[i].tag
            BY <2>1, <3>1 DEF Rows, TagOf
        <3>2. ASSUME NEW c \in Client, call[c].at = "persist", store' = Upserted(call[c].got, call[c].req)
              PROVE  Rows(r) \subseteq {i \in Item : store'[i].tag = TagOf(r)}
            BY <2>1, <3>2, UpsertKeeps
        <3>3. Rows(r)' = {i \in Item : store'[i].tag = TagOf(r)}
            BY <2>1 DEF Rows, TagOf
        <3> QED BY <3>1, <3>2, <3>3, StoreSteps DEF RowsInv
    <2>3. Rows(r) # {} /\ ~(Cardinality(Rows(r)) < Policy.min[r])
        BY CachedIs
    <2>4. Rows(r)' # {} /\ ~(Cardinality(Rows(r)') < Policy'.min[r])
        <3>1. IsFiniteSet(Rows(r)')
            <4>1. Rows(r)' \subseteq 1..3
                BY DEF Rows, Item
            <4> QED BY <4>1, ThreeRows, FS_Subset
        <3>2. /\ Cardinality(Rows(r)) \in Nat /\ Cardinality(Rows(r)') \in Nat
              /\ Cardinality(Rows(r)) <= Cardinality(Rows(r)')
            BY <2>2, <3>1, FS_Subset, FS_CardinalityType
        <3>3. Policy.min[r] \in Nat
            BY <2>1, GoodIsRow DEF Policy
        <3> QED BY <2>1, <2>2, <2>3, <3>2, <3>3
    <2> QED BY <2>4 DEF Classify
<1> QED BY <1>1, RowsInvariant, PTL DEF Spec, CachedStaysCached
=============================================================================
