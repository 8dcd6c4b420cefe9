\* Stale configs, and the breaker they open: two pings and a client, one ping and two.
SPECIFICATION FairSpec
CONSTANTS
    Probers = {p1, p2}
    Others = {w1, w2}
    MaxVersion = 2
    Threshold = 3
    Modes <- ProbeModes
INVARIANTS
    TypeOK
    CacheIsCurrent
PROPERTIES
    CacheConverges
    BreakerRecovers
    ProbesEnd
