SPECIFICATION PathSpec
CONSTANTS
    Byte <- PathByte
    Size = 6
    Chunk = 5
    Torn = FALSE
    Sizes = {5, 6, 7}
    HeaderSize = 3
    MaxFrameSize = 6
    DrainSize = 5
    Cuts = TRUE
    MaxFrames = 2
INVARIANTS
    FeedTypeOK
    DeliveredInOrder
    LossIsLocal
    FeedGetsStream
PROPERTIES
    IsByteFifo
    OnlyLongFramesOverflow
    SurvivorsArrive
