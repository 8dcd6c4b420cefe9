CONSTANTS
    e1 = e1
    j1 = j1
    j2 = j2
    a1 = a1
    a2 = a2
    NoEndpoint = NoEndpoint
    NoAlert = NoAlert
    Endpoints = {e1}
    Jobs = {j1, j2}
    Alerts = {a1}
    Threshold <- ThresholdTwo
    CountCap = 2
    MaxAttempts = 2
    Modes <- MissedModes
SPECIFICATION Spec
PROPERTIES
    RecoveryAlwaysResolved
