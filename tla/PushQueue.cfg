SPECIFICATION Spec
CONSTANTS
    MaxQueueSize = 2
    TrustAfter = 1
    PushThreads = {p1, p2}
    None = none
    MaxFrames = 6
    MaxLost = 1
    MaxConnects = 2
SYMMETRY Symmetry
INVARIANTS
    TypeOK
    NoMissingReference
