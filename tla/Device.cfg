SPECIFICATION FairDeviceSpec
CONSTANTS
    Channels = {high, low}
    Limit = 2
    MaxTime = 5
    MaxConns = 2
    MaxMessages = 3
    MaxMotionFails = 1
    ExternalIr = {TRUE, FALSE}
    MaxSettings = 4
    Moves = {m1, m2}
    Slots = {0, 1}
    Names = {a, b}
    Indexed = FALSE
    None = none
    MaxCommands = 5
    Requests = {q1, q2}
    Nobody = nobody
    Resolutions = {h}
    MinTimeout = 1
    MaxTimeout = 2
    Granted = 3
    CacheTTL = 3
    MaxClock = 6
    Delays = {0, 1, 4, 8, 20}
    MaxError = 12
    MaxSamples = 6
    MaxDrifts = 1
    MaxClockFails = 1
    MaxObjects = 3
    MaxConnects = 1
    MaxRestarts = 1
    MaxPins = 1
    Size = 7
    Batch = 3
    Lengths = {1, 2}
    MaxFrames = 4
    MaxResyncs = 1
    Mishaps = {}
    Window = 2
    Interval = 3
    AudioSize = 2
    OpusSize = 4
    VideoSize = 2
    Late = 5
    Dropout = 2
    MaxStampTime = 11
    MaxBlocks = 1
    MaxStampConns = 1
    Geometries = {g1, g2}
    MaxPictures = 4
    MaxQueue = 1
    MaxEncoders = 1
    MaxCodecs = 2
    MaxMuxers = 2
CHECK_DEADLOCK FALSE
INVARIANTS
    DeviceTypeOK
    StarvedChannelExits
    EventPaired
    LuxApplied
    AsBooked
    AnsweredInTurn
    AccurateStays
    PictureFollows
    FramesWholeInOrder
    LeadBounded
    HeaderInForce
PROPERTIES
    EventStopped
    StampsOrdered
