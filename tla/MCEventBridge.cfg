SPECIFICATION FairBridgeSpec
CONSTANTS
    d1 = d1
    home = home
    other = other
    Docs = {d1}
    FolderSets <- MCFolderSets
    Home = home
    NoWorkspace = NoWorkspace
    MaxEvents = 3
    MaxQueue = 2
    MaxLinks = 2
INVARIANTS
    NoChangeForgotten
    ProjectionNotNewer
PROPERTIES
    ReadyReached
CHECK_DEADLOCK FALSE
