------------------------ MODULE MCEndpointSchedule ------------------------
(***************************************************************************)
(* Instances of EndpointSchedule for TLC.                                  *)
(***************************************************************************)
EXTENDS EndpointSchedule, TLC

CONSTANTS p1, p2, p3

Mode(overlap, early, ops, faults) ==
    [overlap |-> overlap, early |-> early, ops |-> ops, faults |-> faults]

\* For each property, everything it can stand at once.
SafetyModes ==
    {Mode(FALSE, FALSE, Operations, {}),
     Mode(FALSE, FALSE, Operations, FaultKinds),
     Mode(FALSE, TRUE, Operations, {"crash"}),
     Mode(TRUE, TRUE, {"create", "update"}, {"crash"})}

\* Overlapping updates, or requests one by one from the moment the API listens.
CrossedUpdates == Mode(TRUE, FALSE, {"update"}, {})
EarlyRequests == Mode(FALSE, TRUE, {"create", "update"}, {})
LaneModes == {CrossedUpdates, EarlyRequests}

\* The API runs and the endpoint has been created.
Created(job) ==
    /\ row = [state |-> "live", active |-> TRUE, job |-> job]
    /\ repeats = {job}
    /\ proc = [p \in Procs |-> Idle]
    /\ api = "up"
    /\ mode = CrossedUpdates

LaneSpec ==
    /\ (Init /\ mode = EarlyRequests) \/ \E job \in Jobs : Created(job)
    /\ [][Next]_vars

Symmetry == Permutations(Requests)
=============================================================================
