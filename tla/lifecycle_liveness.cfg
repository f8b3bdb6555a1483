SPECIFICATION FairSpec
CONSTANTS
    MaxRuns = 2
    MaxInterrupts = 1
    Stoppers <- OneCaller
    StartMayFail = TRUE
    Tunnelled = FALSE
PROPERTIES HandshakeCompletes KeepsClientRunning 
CHECK_DEADLOCK FALSE
