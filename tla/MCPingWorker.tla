--------------------------- MODULE MCPingWorker ---------------------------
(***************************************************************************)
(* Instances of PingWorker for TLC.                                        *)
(***************************************************************************)
EXTENDS PingWorker, TLC

CONSTANTS e1, j1, j2, a1, a2

\* Alerting at the second failure.
ThresholdTwo == [e \in Endpoints |-> 2]

Overlapping(faults) == [overlap |-> TRUE, faults |-> faults]
OneByOne(faults) == [overlap |-> FALSE, faults |-> faults]

\* For each safety property, everything it can stand at once: a behaviour with
\* fewer faults is a behaviour of one of these modes.
SafetyModes ==
    {Overlapping(FaultKinds),
     Overlapping(FaultKinds \ {"lockExpiry"}),
     Overlapping(FaultKinds \ {"crash"}),
     Overlapping(FaultKinds \ {"crash", "error"}),
     OneByOne(FaultKinds),
     OneByOne(FaultKinds \ {"crash"}),
     OneByOne({"lockExpiry"})}

LiveModes == {OneByOne({"lockExpiry"})}

\* Nothing fails and two pings of one endpoint meet, or pings come one at a
\* time and the counter expires during an outage.
MissedModes == {Overlapping({}), OneByOne({"countExpiry"})}

Symmetry == Permutations(Jobs) \cup Permutations(Alerts)
=============================================================================
