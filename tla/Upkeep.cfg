SPECIFICATION FairUpkeepSpec
CONSTANTS
    Procs = {p1, p2}
    None = none
    MaxTakes = 2
    MaxKills = 1
    MaxFull = 1
    Shells = {s1, s2, s3}
    MaxHand = 2
    MaxTrouble = 2
    Strikes = 2
    Tries = 2
    ClearAfter = 3
    MaxRelaunches = 1
    MaxRevivals = 1
    Consoles = {c1, c2}
    Hosts = {h1}
    Own = own
    Default = dflt
    Empty = empty
    MaxEvents = 3
    MaxCrashes = 1
    MaxFaults = 1
    MaxOverlaps = 0
    Creds = {k1, k2}
    MaxUpdates = 3
    MaxDeaths = 2
    MaxOutages = 2
CHECK_DEADLOCK FALSE
INVARIANTS
    UpkeepTypeOK
    MutualExclusion
    OneSupervisor
    IdentityConsistent
    CredentialWhole
PROPERTIES
    TakerServed
    Supervised
    LadderEnds
