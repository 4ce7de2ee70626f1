SPECIFICATION JointSpec
CONSTANTS
    c1 = c1
    Control <- MCControl
    Data = {}
    Unaligned = {}
    ControlDepth = 1
    DataDepth = 1
    Submitters = 1
    MaxXfer = 2
    SemMax = 2
    NoFrame = NoFrame
    Ring = 2
    Chunk = 1
    HostWaits = FALSE
INVARIANT ConfiguredRearms
