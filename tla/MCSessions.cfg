CONSTANTS
    b1 = b1
    b2 = b2
    s1 = s1
    s2 = s2
    NoBrowser = NoBrowser
    Browsers = {b1, b2}
    Slots = {s1, s2}
    MaxTokens = 3
    MaxLinks = 2
    Modes <- SessionModes
SPECIFICATION Spec
SYMMETRY Symmetry
INVARIANTS
    TypeOK
    OneLivePerFamily
    EndedFamilyIsDead
    CookieWorks
    LinkReachesOwner
