SPECIFICATION Spec
CONSTANTS
    MaxRuns = 2
    MaxInterrupts = 2
    Stoppers <- OneCaller
    StartMayFail = TRUE
    Tunnelled = TRUE
INVARIANTS ExitOnlyOnInterrupt NoLeakedWatcher NoUnsupervisedClient NoStaleJnlpFile
PROPERTY ImplementsSupervision
CHECK_DEADLOCK FALSE
