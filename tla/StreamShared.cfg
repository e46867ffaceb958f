SPECIFICATION Spec
CONSTANTS
    Channels = {2, 3}
    Targets = {t1}
    None = none
    Kinds = {"full"}
    Capabilities = {TRUE}
    SeedOutcomes = {TRUE}
    SlowBoot = FALSE
    MaxBridges = 2
    MaxChanges = 2
    MaxReconnects = 0
    MaxClientDeaths = 0
    MaxWdDeaths = 0
    MaxRestarts = 0
CHECK_DEADLOCK FALSE
INVARIANTS
    FeedMatches
