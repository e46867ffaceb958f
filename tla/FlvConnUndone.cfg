SPECIFICATION Spec
CONSTANTS
    Channels = {high}
    Hosts = {h1}
    Streams = {s1}
    Fds = {f1, f2}
    RetryThreads = {r1, r2}
    PushThreads = {p1, p2}
    Ctl = ctl
    None = none
    MaxCommands = 3
    MaxFails = 1
    MaxDrops = 1
SYMMETRY Symmetry
PROPERTIES
    DisconnectNotUndone
