CONSTANTS
    r1 = r1
    r2 = r2
    r3 = r3
    e1 = e1
    e2 = e2
    t1 = t1
    t2 = t2
    Rows = {r1, r2}
    Endpoints = {e1, e2}
    EndpointOf <- FirstRowApart
    Cap = 2
    Timers = {t1}
    MaxAttempts = 2
    MaxErrors = 0
    FaultSets <- OnlyDeletes
SPECIFICATION FairSpec
PROPERTIES
    EveryRowIsStored
\* Every row may have been queued and stored: nothing is left to do.
CHECK_DEADLOCK FALSE
