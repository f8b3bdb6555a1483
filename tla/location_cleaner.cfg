SPECIFICATION FairSpec
CONSTANTS
    Files <- SmallFiles
    Dirs <- SmallDirs
    Parent <- SmallParent
    Locations <- TwoLocations
    Excluded <- OneExcluded
    OnlyWhenIdle = TRUE
    None = None
INVARIANT TypeOK
PROPERTIES ExcludedStay RemovesOnlyExpired CleansWholeLocation AbandonedIsCleaned
