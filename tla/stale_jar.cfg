SPECIFICATION FairSpec
CONSTANTS
    MaxTime = 3
    MaxVersions = 2
    Zone = 1
    Names <- FewNames
    Words <- FewWords
    MaxArguments = 4
INVARIANT PublishedIsStarted
CHECK_DEADLOCK FALSE
