---- MODULE MCEvidenceHub ----
EXTENDS EvidenceHub, SharedMetrics, TLC
CONSTANTS emir, pasticuan
AllFamilies == Family

\* The families whose two requests meet: in a lease, in the rows or in both.  Risk
\* notices of two windows meet in rows alone, which the properties of rows except.
Meeting == {"STOCK", "PARTICIPANT", "CAPITAL", "DIRECTORY"}
MeetingCallers == [f \in Family |-> IF f \in Meeting THEN Request ELSE {"p"}]
Symmetric == Permutations(Client)

\* All figures of a metric, or the revenue alone.
SomeParts == {Metric, {"revenue"}}

\* The table of figures shares no variable with the leased families, so each is explored
\* while the other rests, at one start of the families: every state of either is reached.
Resting == Init /\ family = "STOCK" /\ onTime = {} /\ \A i \in Item : kind[i] = "good"
HubInit == Init /\ MetricsInit
HubNext ==
    \/ MetricsInit /\ Next /\ UNCHANGED metricVars
    \/ Resting /\ MetricsNext /\ UNCHANGED vars
HubSpec == HubInit /\ [][HubNext]_<<vars, metricVars>>
====
