SPECIFICATION Spec
CONSTANTS
    Channels = {1}
    Targets = {t1, t2}
    None = none
    Kinds = {"full", "types"}
    Capabilities = {TRUE}
    SeedOutcomes = {TRUE}
    SlowBoot = FALSE
    MaxBridges = 2
    MaxChanges = 2
    MaxReconnects = 0
    MaxClientDeaths = 0
    MaxWdDeaths = 0
    MaxRestarts = 0
CHECK_DEADLOCK FALSE
INVARIANTS
    FeedMatches
