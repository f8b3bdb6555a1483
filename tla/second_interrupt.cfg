SPECIFICATION FairSpec
CONSTANTS
    MaxRuns = 1
    MaxInterrupts = 2
    Stoppers <- Nobody
    StartMayFail = FALSE
    Tunnelled = FALSE
PROPERTY InterruptedModeReturns
CHECK_DEADLOCK FALSE
