SPECIFICATION FairSpec
CONSTANTS
    c1 = c1
    d1 = d1
    d2 = d2
    Control <- MCControl
    Data <- MCData
    Unaligned = {d2}
    ControlDepth = 1
    DataDepth = 1
    Submitters = 1
    SemMax = 2
    MaxXfer = 2
    FastHost = FALSE
    NoFrame = NoFrame
INVARIANTS
    ExactlyOnce
    NoLostWakeup
    SentWasDelivered
    DmaBufferHeld
    DeadSessionNotWritten
    ControlFirst
PROPERTIES
    FramesComplete
    SessionTornDown
