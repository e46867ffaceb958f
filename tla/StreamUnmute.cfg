SPECIFICATION Spec
CONSTANTS
    Channels = {1}
    Targets = {t1}
    None = none
    Kinds = {"full", "plain"}
    Capabilities = {TRUE}
    SeedOutcomes = {TRUE}
    SlowBoot = FALSE
    MaxBridges = 2
    MaxChanges = 2
    MaxReconnects = 0
    MaxClientDeaths = 1
    MaxWdDeaths = 0
    MaxRestarts = 0
CHECK_DEADLOCK FALSE
PROPERTIES
    UnmutedOnlyOnRequest
