SPECIFICATION SafetySpec
CONSTANTS
    Routes <- MCRoutes
    FrameUnits = 2
    RingFrames = 1
    EventQueue = 1
    Mutes = {TRUE, FALSE}
    MaxStarts = 2
    MaxCount = 1
    Backends <- AllBackends
    Focuses <- AllFocuses
    Rates = {0, 1, 2}
    MaxClients = 2
    Pending = 2
    Platforms = {1, 2}
    MaxChunk = 1
INVARIANTS
    TypeOK
    GuardHeldOnlyForASession
    MutedIsSilent
    LossIsCounted
    ThreadLivesWithTheRun
    NewsIsTrue
    ListenerFindsSession
    PlatformFollowsTheRun
PROPERTIES
    StartsAfresh
    KeepsTheABI
CHECK_DEADLOCK FALSE
