SPECIFICATION FairSpec
CONSTANTS
    Names <- FewNames
    Hostname <- Short
    CommandLines <- FewCommands
    InitialFiles <- FewFiles
    InitialDocs <- FewDocs
    NodeSets <- FewNodeSets
INVARIANTS RunsWithCompleteFile SavedIsUsed UsedWhenPrepared NameIsThisMachines
PROPERTIES KeptUnlessAsked PreparersEnd
