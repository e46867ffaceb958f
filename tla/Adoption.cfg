SPECIFICATION FairSpec
CONSTANTS
    Hosts = {console1, console2}
    OffSubnet = {}
    FirstHost = console1
    Handlers = {w1}
    MaxPushes = 2
    MaxResets = 2
    MaxRestarts = 1
    MaxStuck = 1
INVARIANTS
    GateHolds
PROPERTIES
    PushLeadsToDial
