CONSTANTS
    e1 = e1
    e2 = e2
    u1 = u1
    u2 = u2
    a1 = a1
    a2 = a2
    r1 = r1
    r2 = r2
    Endpoints = {e1, e2}
    Users = {u1, u2}
    Alerts = {a1, a2}
    Runs = {r1, r2}
    MaxAttempts = 3
    FailedKept = 1
    MaxFaults = 2
    Modes <- MailModes
SPECIFICATION FairSpec
INVARIANTS
    TypeOK
    SentWasMailed
    DigestAtMostOnce
    NoRecoveryUnaccounted
PROPERTIES
    AlertIsMailed
    RecoveryIsMailed
\* Every alert may have been mailed and recovered: nothing is left to do.
CHECK_DEADLOCK FALSE
