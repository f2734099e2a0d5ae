SPECIFICATION FairSpec
CONSTANTS
    Names = {1, 2, 3, 4}
    ValidNames = {1, 2, 3}
    Default = 2
    Texts = {Empty, Good, Bad}
    BadTexts = {Bad}
    Empty = Empty
    Good = Good
    Bad = Bad
    MaxGroups = 2
    Capacity = 1
    Writers = {a1, a2}
    InitialDisks <- AnyDisk
    MaxOps = 2
    MaxEffort = 2
    MaxEdits = 2
    MaxFaults = 1
    MaxCrashes = 1
    NoFile = NoFile
    NoManifest = NoManifest
    BadManifest = BadManifest
    LoadError = LoadError
    NoOp = NoOp
    Nobody = Nobody
    Watcher = Watcher
INVARIANTS
    UpdatesAtomic
    SnapshotsSettle
PROPERTIES
    WatcherLive
