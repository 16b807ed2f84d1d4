SPECIFICATION FairSpec
CONSTANTS
    Installer = {a, b}
    MaxCrashes = 1
    None = None
INVARIANTS
    ExclusiveUntilTakeover
    ServerWhole
    ResolvedExists
    NothingLeft
PROPERTIES
    OneDownload
    ServerStays
    WaitEnds
CHECK_DEADLOCK FALSE
