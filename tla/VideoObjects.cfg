SPECIFICATION Spec
CONSTANTS
    Requests <- MCRequests
    Cameras <- MCCameras
    Sizes = {1, 3}
    Buffers = {2, 4}
    KeyFactor = 2
    MinFrame = 1
    MinRate = 1
    Second = 2
    MaxFrames = 2
    MaxRuns = 2
    RingFrames = 1
    MaxObjects = 6
    Backends = {"windows"}
    Focuses = {"frames"}
INVARIANT OwnsItsObjects
CHECK_DEADLOCK FALSE
