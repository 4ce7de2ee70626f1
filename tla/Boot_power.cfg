SPECIFICATION FairSpec
CONSTANT MaxFaults = 3
INVARIANTS
    AppHasItsRam
    SettingsKept
    OneRewrite
PROPERTY AppStarts
CHECK_DEADLOCK FALSE
