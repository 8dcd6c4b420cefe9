\* A GET leaves a config without its credentials for the pings.
SPECIFICATION Spec
CONSTANTS
    Probers = {p1, p2}
    Others = {w1, w2}
    MaxVersion = 2
    Threshold = 3
    Modes <- ViewModes
INVARIANTS
    AuthSupport
