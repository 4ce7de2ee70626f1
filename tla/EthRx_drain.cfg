SPECIFICATION FairSpec
CONSTANTS
    RxDescNum = 2
    MaxCredit = 1
    SemMax = 2
INVARIANTS
    FrameHasWakeup
    RetainedHasWakeup
    PauseOwned
PROPERTIES
    CreditRetries
    FullRingDrainsUnlessMissed
