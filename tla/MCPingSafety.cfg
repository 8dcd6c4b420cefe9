CONSTANTS
    e1 = e1
    j1 = j1
    j2 = j2
    a1 = a1
    a2 = a2
    NoEndpoint = NoEndpoint
    NoAlert = NoAlert
    Endpoints = {e1}
    Jobs = {j1, j2}
    Alerts = {a1, a2}
    Threshold <- ThresholdTwo
    CountCap = 2
    MaxAttempts = 2
    Modes <- SafetyModes
SPECIFICATION Spec
SYMMETRY Symmetry
INVARIANTS
    TypeOK
    AtMostOneOpenAlert
    LockExclusive
    CounterExpires
    NoLostRecovery
    RecoveryAtMostOnce
    OpenAlertIsCounted
PROPERTIES
    LedgerSpec
    UpPingClosesAlert
    AlertNeedsStreak
