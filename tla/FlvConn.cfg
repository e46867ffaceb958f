SPECIFICATION Spec
CONSTANTS
    Channels = {high, low}
    Hosts = {h1}
    Streams = {s1}
    Fds = {f1, f2, f3}
    RetryThreads = {r1, r2}
    PushThreads = {p1, p2, p3}
    Ctl = ctl
    None = none
    MaxCommands = 3
    MaxFails = 1
    MaxDrops = 1
SYMMETRY Symmetry
INVARIANTS
    TypeOK
    NoFdLeak
    OneWriterPerConnection
    CurrentThreadHoldsActiveFd
    NeverAbandoned
PROPERTIES
    Implements
