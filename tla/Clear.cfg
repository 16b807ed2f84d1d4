SPECIFICATION FairSpec
CONSTANTS
    MaxInstances = 2
    Request = {r1, r2}
    MaxBusy = 6
INVARIANTS
    PromisedCrash
PROPERTIES
    FreshRestart
    ReleasedBeforeDelete
    DeletedOnDemand
    ClearEnds
CHECK_DEADLOCK FALSE
