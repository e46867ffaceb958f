SPECIFICATION Spec
CONSTANTS
    Channels = {high}
    Hosts = {h1, h2}
    Streams = {s1, s2}
    Fds = {f1, f2}
    RetryThreads = {r1, r2}
    PushThreads = {p1, p2}
    Ctl = ctl
    None = none
    MaxCommands = 3
    MaxFails = 2
    MaxDrops = 1
SYMMETRY Symmetry
INVARIANTS
    RetriesRequestedTarget
