SPECIFICATION FairSpec
CONSTANTS
    Keys = {1, 2}
    Values = {0, 1}
    Default = 0
    Parts = {{1, 2}}
    PartialKeys = {1}
    Workers = {w1}
    Reappliers = {r1, r2}
    Starting = {"down", "booting", "up"}
    Outlives = FALSE
    MaxMessages = 2
    MaxResets = 0
    MaxConnects = 2
    MaxStarts = 1
    MaxTimeouts = 0
CHECK_DEADLOCK FALSE
PROPERTIES
    KnownRestored
    FirstObjectRecorded
