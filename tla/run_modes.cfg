SPECIFICATION FairSpec
CONSTANTS
    MaxTime = 4
    MaxVersions = 2
    Zone = 0
    Names <- FewNames
    Words <- FewWords
    MaxArguments = 4
INVARIANTS ClientHasJar PublishedIsStarted LeadsThroughTunnel LinesStayWhole
PROPERTIES LauncherGetsTheConsole TokenStopsClient StopFreesPort CrumbIsUsed
CHECK_DEADLOCK FALSE
