----------------------------- MODULE ResultCommit -----------------------------
(***************************************************************************)
(* What the persistence of scan results promises, whatever requests fail:  *)
(* the result of a scan is published in one step with a verdict; a full    *)
(* verdict means that every table of the scan holds exactly the published  *)
(* rows, any verdict means that the radar does; afterwards these rows      *)
(* change only by being dropped together; and the outcomes, which no scan  *)
(* has for itself, are never forgotten.                                    *)
(***************************************************************************)
CONSTANTS
    Scan,     \* scan ids
    Tables,   \* the tables whose rows belong to one scan
    Outcome,  \* the rows all scans share
    Radar     \* the one a page cannot do without

VARIABLES
    verdict,   \* what the page says about a scan
    held,      \* the tables that hold exactly what was published
    memory     \* the outcomes that are remembered

Verdicts == {"unpublished", "full", "partial"}

TypeOK ==
    /\ verdict \in [Scan -> Verdicts]
    /\ held \in [Scan -> SUBSET Tables]
    /\ memory \subseteq Outcome

Init ==
    /\ verdict = [s \in Scan |-> "unpublished"]
    /\ held = [s \in Scan |-> {}]
    /\ memory = {}

\* The rows may already be gone when the verdict comes; otherwise it is true.
Publish(s, full, tables) ==
    /\ verdict[s] = "unpublished"
    /\ tables # {} => Radar \in tables
    /\ full /\ tables # {} => tables = Tables
    /\ verdict' = [verdict EXCEPT ![s] = IF full THEN "full" ELSE "partial"]
    /\ held' = [held EXCEPT ![s] = tables]
    /\ UNCHANGED memory

Drop(dropped) ==
    /\ held' = [s \in Scan |-> IF s \in dropped THEN {} ELSE held[s]]
    /\ UNCHANGED <<verdict, memory>>

\* A scan that is finalised, published or not, may leave outcomes.
Remember(outcomes) ==
    /\ memory' = memory \cup outcomes
    /\ UNCHANGED <<verdict, held>>

Next ==
    \/ \E s \in Scan, full \in BOOLEAN, tables \in SUBSET Tables : Publish(s, full, tables)
    \/ \E dropped \in SUBSET Scan : Drop(dropped)
    \/ \E outcomes \in SUBSET Outcome : Remember(outcomes)

Spec == Init /\ [][Next]_<<verdict, held, memory>>
=============================================================================
