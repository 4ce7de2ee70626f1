SPECIFICATION FairSpec
CONSTANTS
    TxDescNum = 2
    Sessions = {1, 2}
    SemMax = 2
INVARIANTS
    RingOrder
    CompletionOwed
    SentHasWakeup
PROPERTIES
    LiveArmsFreeDescriptor
    TxCompletes
