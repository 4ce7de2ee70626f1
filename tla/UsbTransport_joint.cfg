SPECIFICATION JointFairSpec
CONSTANTS
    c1 = c1
    Control <- MCControl
    Data = {}
    Unaligned = {}
    ControlDepth = 1
    DataDepth = 1
    Submitters = 1
    MaxXfer = 2
    SemMax = 2
    NoFrame = NoFrame
    Ring = 7
    Chunk = 3
    HostWaits = TRUE
INVARIANTS
    NoOverrun
    WorkHasWakeup
PROPERTIES
    ReceiveHalfIsUsbRx
    OutServiced
