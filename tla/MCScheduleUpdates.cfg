CONSTANTS
    p1 = p1
    p2 = p2
    p3 = p3
    Requests = {p1, p2}
    LaneCount = 2
    Intervals = {60, 120}
    Unset = Unset
    NoJob = NoJob
    Modes <- LaneModes
SPECIFICATION LaneSpec
SYMMETRY Symmetry
INVARIANTS
    OneLaneOwns
