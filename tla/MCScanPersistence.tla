-------------------------- MODULE MCScanPersistence --------------------------
EXTENDS ScanPersistence, TLC
CONSTANTS r1, r2, k1, k2, o1, o2

TwoTables == <<"radar", "audit">>
\* The second result has no audit rows, the first has two.
TwoResults == r1 :> ("radar" :> <<k1>> @@ "audit" :> <<k1, k2>>)
           @@ r2 :> ("radar" :> <<k1>> @@ "audit" :> <<>>)
\* Two results of the same size.
SameSize == r1 :> ("radar" :> <<k1>> @@ "audit" :> <<k1>>)
         @@ r2 :> ("radar" :> <<k1>> @@ "audit" :> <<k1>>)
\* Scans of one day seed the same outcome; a user may upload another one with any job.
SameDay == [s \in Scan |-> {o1}]
AnyJob == [s \in Scan |-> {o2}]
Nothing == [s \in Scan |-> {}]

Symmetric == Permutations(Scan) \cup Permutations(Finalizer)

\* The outcome memory meets the tables of a scan only in the verdict, so each is explored while
\* the other rests: either no outcome comes up, or every result is the one without an audit,
\* the research memory is stored, and no fault hits the posts and reads of the other tables,
\* unless their run was pruned.
VARIABLE about
NoOutcomes == owner' = owner /\ \A f \in Finalizer : fin'[f].outcomes = {}
AtTables(f) == \/ fin[f].step = "post_run"
               \/ fin[f].step \in {"post", "read"} /\ Held(fin[f].scan)
TablesStored == \A f \in Finalizer :
    /\ fin'[f].result \in {r2, NoRow} /\ fin'[f].memory
    /\ AtTables(f) /\ fin'[f] # fin[f] => faults' = faults

BothInit == Init /\ about \in {"tables", "outcomes"}
BothNext ==
    /\ Next /\ UNCHANGED about
    /\ about = "tables" => NoOutcomes
    /\ about = "outcomes" => TablesStored
BothSpec == BothInit /\ [][BothNext]_<<vars, about>>
=============================================================================
