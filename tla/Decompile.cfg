SPECIFICATION FairSpec
CONSTANTS
    Worker = {w1, w2}
    Request = {r1, r2, r3}
    Uri = {u1, u2, bad}
    PanicUri = {bad}
    Links <- Answers
    MaxRestarts = 1
    None = None
    r1 = r1
    r2 = r2
    r3 = r3
    u1 = u1
    u2 = u2
    bad = bad
INVARIANTS
    LinksExact
    PartialHasCause
PROPERTIES
    WorkersSafety
    SurvivorDelivers
CHECK_DEADLOCK FALSE
