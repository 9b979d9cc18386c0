SPECIFICATION Spec
CONSTANTS
    Routes <- MCRoutes
    FrameUnits = 2
    RingFrames = 1
    EventQueue = 1
    Mutes = {TRUE, FALSE}
    MaxStarts = 1
    MaxCount = 1
    Backends = {"windows"}
    Focuses = {"routes"}
    Rates = {1}
    MaxClients = 2
    Pending = 1
    Platforms = {1}
    MaxChunk = 1
PROPERTIES
    RenderFollowsSwitch
CHECK_DEADLOCK FALSE
