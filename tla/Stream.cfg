SPECIFICATION Spec
CONSTANTS
    Channels = {1}
    Targets = {t1}
    None = none
    Kinds = {"full", "plain", "audio"}
    Capabilities = {TRUE, FALSE}
    SeedOutcomes = {TRUE}
    SlowBoot = FALSE
    MaxBridges = 2
    MaxChanges = 2
    MaxReconnects = 1
    MaxClientDeaths = 1
    MaxWdDeaths = 0
    MaxRestarts = 1
CHECK_DEADLOCK FALSE
INVARIANTS
    DedupSound
    FeedMatches
