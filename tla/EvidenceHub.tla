----------------------------- MODULE EvidenceHub -----------------------------
(***************************************************************************)
(* Two scanners, EMIR and PASTICUAN, share the provider's facts through one *)
(* database.  A client that finds no usable rows for a request takes a      *)
(* refresh lease, calls the provider, upserts the rows, reads them back,    *)
(* completes the lease and records the provider state.  Every call to the   *)
(* database may be refused or lose its answer, a client may die anywhere,   *)
(* and a lease may run out while its holder is still at work.               *)
(***************************************************************************)
EXTENDS HubFamilies

CONSTANTS
    Client,    \* coordinators, each with a worker id of its own
    Gone,      \* the worker id of a client that died
    Free,      \* no client: the lease is not HELD
    Families,  \* the families of this instance
    Callers    \* the requests each of them is asked

ASSUME EvidenceHubAssumption == /\ {Gone, Free} \cap Client = {} /\ Gone # Free
                                /\ Families \subseteq Family
                                /\ Callers \in [Family -> SUBSET Request]

VARIABLES
    family,     \* the family of this behaviour
    kind,       \* what is odd about an item
    onTime,     \* items the provider has before anyone asks
    published,  \* items the provider has by now
    store,      \* the rows of the family's table, and whether they are within the maximum age
    empty,      \* keys with response_state VALID_EMPTY in evidence_provider_state
    lease,      \* evidence_refresh_leases: the owner while HELD
    call        \* the call of get_or_refresh a client is in

vars == <<family, kind, onTime, published, store, empty, lease, call>>
world == <<family, kind, onTime>>

NoRow == [tag |-> "none", fresh |-> FALSE]
NoLease == [owner |-> Free, expired |-> FALSE]
Idle == [at |-> "idle", req |-> "p", got |-> {}, lost |-> FALSE]

Places == {"idle", "read", "verdict", "acquire", "reread", "reverdict", "fetch",
           "persist", "readback", "complete", "record", "fail"}

\* A client at one of these places acquired a lease and has not ended it.
Working == {"fetch", "persist", "readback", "complete"}

TypeOK ==
    /\ family \in Families
    /\ kind \in [Item -> Kind]
    /\ onTime \subseteq Item /\ onTime \subseteq published /\ published \subseteq Item
    /\ store \in [Item -> [tag : Tag \cup {"none"}, fresh : BOOLEAN]]
    /\ empty \subseteq Key /\ (empty # {} => Policies[family].empty)
    /\ lease \in [Key -> [owner : Client \cup {Gone, Free}, expired : BOOLEAN]]
    /\ call \in [Client -> [at : Places, req : Request, got : SUBSET Item, lost : BOOLEAN]]

Policy == Policies[family]
KeyOf(r) == Policy.key[r]
TagOfLease(r) == Policy.key[r]  \* a variant that reads the rows of its own lease
TagOf(r) == Policy.tag[r]
Asked == UNION {Policy.asks[r] : r \in Callers[family]}

\* At most one item of the feed is odd; a family whose items carry no date has none misdated.
Possible(f, k) == k = "good" \/ Policies[f].fates[k] # "row" \/ k \in Policies[f].refuses

Init ==
    /\ family \in Families
    /\ onTime \in SUBSET Asked
    /\ \E k \in Kind : /\ k = "good" \/ (1 \in onTime /\ Possible(family, k))
                       /\ kind = [i \in Item |-> IF i = 1 THEN k ELSE "good"]
    /\ published = onTime
    /\ store = [i \in Item |-> NoRow]
    /\ empty = {}
    /\ lease = [k \in Key |-> NoLease]
    /\ call = [c \in Client |-> Idle]

-----------------------------------------------------------------------------
(* The database.                                                           *)

\* What read_current returns for a request.
Rows(r) == {i \in Item : store[i].tag = TagOf(r)}

\* SharedEvidenceCoordinator.classify: the youngest row decides about the age of all.
Classify(r) ==
    CASE Rows(r) = {} -> "MISSING"
      [] Rows(r) # {} /\ Cardinality(Rows(r)) < Policy.min[r] -> "INSUFFICIENT"
      [] OTHER -> IF Policy.ttl /\ \A i \in Rows(r) : ~store[i].fresh THEN "STALE" ELSE "VALID"

\* The upsert moves a row it finds to the request at hand.
Upserted(items, r) ==
    [i \in Item |-> IF i \in items THEN [tag |-> TagOf(r), fresh |-> TRUE] ELSE store[i]]

\* evidence_acquire_refresh_lease grants a lease that is not HELD, ran out, or is the caller's.
Claimable(l, c) == l.owner \in {Free, c} \/ l.expired

\* evidence_complete_refresh_lease and evidence_fail_refresh_lease change the owner's lease only.
EndedByAnyone(l, c) == NoLease  \* a variant that does not look at the owner
Ended(l, c) == IF l.owner = c THEN NoLease ELSE l

\* A request is applied and answered, refused, or applied with its answer lost.
Outcome == {"ok", "refused", "lost"}
Applied(outcome) == outcome # "refused"

-----------------------------------------------------------------------------
(* get_or_refresh.                                                         *)

At(c, place) == call[c].at = place
Go(c, place) == call' = [call EXCEPT ![c].at = place]

\* The call returns, or raises to its caller.
Returns(c) == call' = [call EXCEPT ![c] = Idle]

Ask(c, r) ==
    /\ At(c, "idle")
    /\ call' = [call EXCEPT ![c] = [Idle EXCEPT !.at = "read", !.req = r]]
    /\ UNCHANGED <<world, published, store, empty, lease>>

\* Valid rows are the answer; whatever is not valid is not, and a read may fail.
Reading(c, place, verdict, otherwise) ==
    LET r == call[c].req IN
    /\ At(c, place)
    /\ \/ Returns(c)
       \/ /\ Classify(r) # "VALID"
          /\ IF Rows(r) = {} /\ Policy.empty THEN Go(c, verdict) ELSE otherwise
    /\ UNCHANGED <<world, published, store, empty, lease>>

\* read_empty_current looks at the month's verdict, whatever date it was observed on.
ReadingVerdict(c, place, otherwise) ==
    /\ At(c, place)
    /\ \/ Returns(c)
       \/ KeyOf(call[c].req) \notin empty /\ otherwise
    /\ UNCHANGED <<world, published, store, empty, lease>>

Read(c) == Reading(c, "read", "verdict", Go(c, "acquire"))
ReadVerdict(c) == ReadingVerdict(c, "verdict", Go(c, "acquire"))
Reread(c) == Reading(c, "reread", "reverdict", Returns(c))
RereadVerdict(c) == ReadingVerdict(c, "reverdict", Returns(c))

\* c takes the lease of a key; whoever is still at work under it has lost it.
TakeLease(c, k, after) ==
    /\ lease' = [lease EXCEPT ![k] = [owner |-> c, expired |-> FALSE]]
    /\ call' = [d \in Client |->
                  IF d = c THEN after
                  ELSE [call[d] EXCEPT !.lost = @ \/ (call[d].at \in Working /\ KeyOf(call[d].req) = k)]]

\* Nothing is read again after the lease is acquired.
Acquire(c) ==
    LET k == KeyOf(call[c].req) IN
    /\ At(c, "acquire")
    /\ \E outcome \in Outcome :
        \/ /\ Applied(outcome) /\ Claimable(lease[k], c)
           /\ TakeLease(c, k, IF outcome = "ok" THEN [call[c] EXCEPT !.at = "fetch"] ELSE Idle)
        \/ /\ outcome = "ok" /\ ~Claimable(lease[k], c)
           /\ Go(c, "reread") /\ UNCHANGED lease
        \/ /\ outcome = "refused"
           /\ Returns(c) /\ UNCHANGED lease
    /\ UNCHANGED <<world, published, store, empty>>

\* The provider answers or fails; what was read of its answer is normalised and validated.
Fetch(c) ==
    LET r == call[c].req IN
    /\ At(c, "fetch")
    /\ \E items \in Answers(family, published \cap Policy.asks[r]), truncated \in BOOLEAN :
        LET fetched == Fetched(family, items, kind, truncated)
            none == ReadsAsEmpty(family, items, fetched.rows)
            valid == Validated(family, r, fetched.rows, kind) IN
        \/ /\ ~fetched.raised /\ none
           /\ Go(c, "complete")
        \/ /\ ~fetched.raised /\ ~none /\ valid
           /\ call' = [call EXCEPT ![c].at = "persist", ![c].got = fetched.rows]
        \/ /\ fetched.raised \/ (~none /\ ~valid)
           /\ Go(c, "fail")
    /\ UNCHANGED <<world, published, store, empty, lease>>

\* One bulk upsert, applied as a whole; the lease is not looked at.
Persist(c) ==
    /\ At(c, "persist")
    /\ \E outcome \in Outcome :
        /\ store' = IF Applied(outcome) THEN Upserted(call[c].got, call[c].req) ELSE store
        /\ Go(c, IF outcome = "ok" THEN "readback" ELSE "fail")
    /\ UNCHANGED <<world, published, empty, lease>>

Readback(c) ==
    /\ At(c, "readback")
    /\ \/ /\ Classify(call[c].req) = "VALID"
          /\ Go(c, "complete")
       \/ Go(c, "fail")
    /\ UNCHANGED <<world, published, store, empty, lease>>

\* A variant that takes the end of the call for the end of its lease.
CompleteUnfenced(c) ==
    LET k == KeyOf(call[c].req) IN
    /\ At(c, "complete")
    /\ \E outcome \in Outcome :
        /\ lease' = IF Applied(outcome) THEN [lease EXCEPT ![k] = Ended(@, c)] ELSE lease
        /\ Go(c, IF outcome = "ok" THEN "record" ELSE "fail")
    /\ UNCHANGED <<world, published, store, empty>>

\* Only the owner of a held lease completes it; whether it ran out is not asked.
Complete(c) ==
    LET k == KeyOf(call[c].req) IN
    /\ At(c, "complete")
    /\ \E outcome \in Outcome :
        /\ lease' = IF Applied(outcome) THEN [lease EXCEPT ![k] = Ended(@, c)] ELSE lease
        /\ Go(c, IF outcome = "ok" /\ lease[k].owner = c THEN "record" ELSE "fail")
    /\ UNCHANGED <<world, published, store, empty>>

\* The verdict of the refresh is written after its lease is over.
Recorded(k, isEmpty) == IF isEmpty THEN empty \cup {k} ELSE empty \ {k}

Record(c) ==
    /\ At(c, "record")
    /\ \E outcome \in Outcome :
        /\ empty' = IF Applied(outcome) THEN Recorded(KeyOf(call[c].req), call[c].got = {}) ELSE empty
        /\ IF outcome = "ok" THEN Returns(c) ELSE Go(c, "fail")
    /\ UNCHANGED <<world, published, store, lease>>

\* fail_lease may itself raise; recording the failure is best effort.
Fail(c) ==
    LET k == KeyOf(call[c].req) IN
    /\ At(c, "fail")
    /\ \E outcome, recorded \in Outcome :
        /\ lease' = IF Applied(outcome) THEN [lease EXCEPT ![k] = Ended(@, c)] ELSE lease
        /\ empty' = IF outcome = "ok" /\ Applied(recorded) THEN Recorded(k, FALSE) ELSE empty
    /\ Returns(c)
    /\ UNCHANGED <<world, published, store>>

-----------------------------------------------------------------------------
(* Everything else that happens.                                           *)

\* A client dies; the process that follows has a new worker id.
Crash(c) ==
    /\ ~At(c, "idle")
    /\ Returns(c)
    /\ lease' = [k \in Key |-> IF lease[k].owner = c THEN [lease[k] EXCEPT !.owner = Gone] ELSE lease[k]]
    /\ UNCHANGED <<world, published, store, empty>>

Expire(k) ==
    /\ lease[k].owner # Free /\ ~lease[k].expired
    /\ lease' = [lease EXCEPT ![k].expired = TRUE]
    /\ UNCHANGED <<world, published, store, empty, call>>

GrowOld ==
    /\ Policy.ttl /\ \E i \in Item : store[i].fresh
    /\ store' = [i \in Item |-> [store[i] EXCEPT !.fresh = FALSE]]
    /\ UNCHANGED <<world, published, empty, lease, call>>

\* A period that is still open goes on while it is asked about.
Publish(i) ==
    /\ Policy.open /\ i \in Asked \ published
    /\ published' = published \cup {i}
    /\ UNCHANGED <<world, store, empty, lease, call>>

Step(c) ==
    \/ Read(c) \/ ReadVerdict(c) \/ Acquire(c) \/ Reread(c) \/ RereadVerdict(c)
    \/ Fetch(c) \/ Persist(c) \/ Readback(c) \/ Complete(c) \/ Record(c) \/ Fail(c)

Next ==
    \/ \E c \in Client : (\E r \in Callers[family] : Ask(c, r)) \/ Step(c) \/ Crash(c)
    \/ \E k \in Key : Expire(k)
    \/ \E i \in Item : Publish(i)
    \/ GrowOld

Spec == Init /\ [][Next]_vars

-----------------------------------------------------------------------------
(* Properties.                                                             *)

\* A client starts to call the provider for a key while another one is at work on
\* that key only when the other one's time ran out (evidence_acquire_refresh_lease
\* with evidence_complete_ and evidence_fail_refresh_lease: a client that ends late
\* must not end the lease of the one that took over).
OneHolderFetches ==
    [][\A c, d \in Client :
          /\ c # d /\ ~At(c, "fetch") /\ call[d].at \in Working /\ ~call[d].lost
          /\ call'[c].at = "fetch" /\ KeyOf(call[c].req) = KeyOf(call[d].req)
          => lease[KeyOf(call[d].req)].expired]_vars

\* A refresh that reports success held its lease from the call of the provider to
\* the end: whoever lost it on the way reports REFRESH_LEASE_EXPIRED, even when the
\* other client is done with it again (get_or_refresh, complete_lease).
SuccessIsFenced == \A c \in Client : At(c, "record") => ~call[c].lost

\* Risk notices of overlapping windows and capital actions observed on two dates are one
\* row each, which goes to the last request that read it.
Moving == {"RISK", "CAPITAL"}

\* What could be answered from the cache can still be: no refresh of another request,
\* on time or late, takes rows away (the upserts and their conflict keys), except where
\* rows move between requests.
CachedStaysCached ==
    [][\A r \in Callers[family] :
          family \notin Moving /\ Classify(r) \in {"VALID", "STALE"}
          => Classify(r)' \in {"VALID", "STALE"}]_vars

\* Rows that answer a request are all of what the provider had before anyone asked:
\* neither a feed cut off by its page budget, nor a refresh that failed half way, nor
\* one that came late leaves an answer with a hole (fetch and persist of trade details,
\* announcements, company profiles, reference lists, exchange members and XBRL facts).
\* Rows that move between requests are exempt, and so are the families that take a part
\* of a feed for all of it: their answers do have holes.
ServedIsWhole ==
    \A r \in Callers[family] :
        family \notin Moving \cup EndsEarly /\ Classify(r) = "VALID" =>
            {i \in onTime \cap Policy.asks[r] : kind[i] = "good"} \subseteq Rows(r)

\* A month is on record as empty only when no action of it was there before anyone
\* asked: neither rows that all were skipped nor a failed refresh stand for "no
\* corporate action" (shared_capital_action_evidence.py, fetch).
EmptyIsEmpty == \A r \in Callers[family] : KeyOf(r) \in empty => onTime \cap Policy.asks[r] = {}
=============================================================================
