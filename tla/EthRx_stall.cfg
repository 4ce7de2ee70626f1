SPECIFICATION FairSpec
CONSTANTS
    RxDescNum = 2
    MaxCredit = 1
    SemMax = 2
PROPERTY FullRingDrains
