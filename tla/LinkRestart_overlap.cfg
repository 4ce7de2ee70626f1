SPECIFICATION Spec
CONSTANTS
    StopFails = FALSE
    StartFails = TRUE
    MaxResets = 3
INVARIANT NoUseAfterStop
CHECK_DEADLOCK FALSE
