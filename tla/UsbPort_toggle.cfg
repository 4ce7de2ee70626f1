SPECIFICATION FairSpec
CONSTANTS
    MaxXfer = 3
INVARIANTS
    PacketsExactlyOnce
PROPERTY OutProgress
