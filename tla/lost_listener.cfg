SPECIFICATION Spec
CONSTANTS
    Names <- FewNames
    Hostname <- Short
    CommandLines <- FewCommands
    InitialFiles <- FewFiles
    InitialDocs <- FewDocs
    NodeSets <- FewNodeSets
INVARIANT DownloadsBeforeStart
