SPECIFICATION EthFairSpec
CONSTANTS
    StopFails = TRUE
    StartFails = TRUE
    MaxResets = 2
    Modes = {"half", "full"}
    MaxChanges = 2
INVARIANTS
    NoUseAfterStopInTurn
    AtRestConsistent
    NothingLostByGating
PROPERTIES
    RestartCompletes
    HostLearns
