SPECIFICATION Spec
CONSTANTS
    Routes <- OneRoute
    FrameUnits = 2
    RingFrames = 1
    EventQueue = 1
    Mutes = {}
    MaxStarts = 2
    MaxCount = 1
    Backends <- AllBackends
    Focuses = {"capture", "routes"}
    Rates = {1}
    MaxClients = 1
    Pending = 1
    Platforms = {1, 2}
    MaxChunk = 1
PROPERTIES
    NothingHangs
CHECK_DEADLOCK FALSE
