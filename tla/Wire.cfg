SPECIFICATION FairSpec
CONSTANTS
    ClientFrame = {initialize, picked}
    CallFrame = {discover}
    ServerFrame = {initialized, log, nav, reply, choose, broken}
    Kind <- Kinds
    Asked <- Asks
    Message = {log}
    Failed = {log}
    CallAfter <- Calls
    Reply <- Replies
    Worker = {w1}
    Capacity = 1
    None = None
    Torn = Torn
    initialize = initialize
    picked = picked
    initialized = initialized
    log = log
    nav = nav
    reply = reply
    choose = choose
    broken = broken
    discover = discover
INVARIANTS
    RelayInOrder
PROPERTIES
    WholeFrames
    NoStandstill
CHECK_DEADLOCK FALSE
