SPECIFICATION RestarterFairSpec
CONSTANTS
    MaxOffline = 2
    MaxInt = 7
    OnlyWhenIdle = {"oom"}
    RemoveMayFail = FALSE
INVARIANTS ForcedOnlyAfterMaxOffline ReconnectIsNotOverdue OneRestartPerError
PROPERTIES OfflineNodeIsReconnected BusyNodeIsNotIdle OomStopsClient
