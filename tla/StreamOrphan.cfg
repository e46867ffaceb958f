SPECIFICATION FairSpec
CONSTANTS
    Channels = {1}
    Targets = {t1}
    None = none
    Kinds = {"full"}
    Capabilities = {TRUE}
    SeedOutcomes = {TRUE}
    SlowBoot = TRUE
    MaxBridges = 1
    MaxChanges = 1
    MaxReconnects = 0
    MaxClientDeaths = 0
    MaxWdDeaths = 0
    MaxRestarts = 0
CHECK_DEADLOCK FALSE
PROPERTIES
    Delivered
