SPECIFICATION Spec
CONSTANTS
    Keys = {1, 2}
    Values = {0, 1}
    Default = 0
    Parts = {{1}}
    PartialKeys = {2}
    Workers = {w1, w2}
    Reappliers = {r1}
    Starting = {"up"}
    Outlives = TRUE
    MaxMessages = 2
    MaxResets = 1
    MaxConnects = 2
    MaxStarts = 1
    MaxTimeouts = 1
CHECK_DEADLOCK FALSE
INVARIANTS
    RecordedIsApplied
