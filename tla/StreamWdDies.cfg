SPECIFICATION Spec
CONSTANTS
    Channels = {1}
    Targets = {t1}
    None = none
    Kinds = {"full"}
    Capabilities = {TRUE}
    SeedOutcomes = {TRUE}
    SlowBoot = FALSE
    MaxBridges = 2
    MaxChanges = 2
    MaxReconnects = 0
    MaxClientDeaths = 0
    MaxWdDeaths = 1
    MaxRestarts = 0
CHECK_DEADLOCK FALSE
INVARIANTS
    DedupSound
