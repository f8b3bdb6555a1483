SPECIFICATION FairSpec
CONSTANTS
    MaxRuns = 1
    MaxInterrupts = 1
    Stoppers <- Nobody
    StartMayFail = FALSE
    Tunnelled = FALSE
PROPERTY EarlyInterruptEndsWait
CHECK_DEADLOCK FALSE
