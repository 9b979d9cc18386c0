SPECIFICATION Spec
CONSTANTS
    i1 = i1
    i2 = i2
    a1 = a1
    b1 = b1
    b2 = b2
    A = A
    B = B
    Ids = {i1, i2}
    Addresses = {a1, b1, b2}
    Nodes = {A, B}
    NodeOf <- Answering
    KnownOthers <- Others
    CandidateLists <- Lists
    DepositHolders = 2
    DepositsAtMost = 1
    MaxSendings <- Sendings
INVARIANTS
    TypeOK
    PlacedIsTwoCopies
    ThreeAtATime
PROPERTIES
    NobodyAskedInVain
    NotPlacedIsExhausted
    RunEnds
CHECK_DEADLOCK FALSE
