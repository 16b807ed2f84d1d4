SPECIFICATION FairSpec
CONSTANTS
    InitId = init
    NavId = {n1, n2}
    PlainId = {c1}
    SaveId = {b1}
    BuildSave = {b1}
    Manual = {}
    Session = {}
    Title = {"run", "fix"}
    Menu <- Menus
    Uri = {u1, u2, u3}
    PanicUri = {u3}
    AnswersTo <- LiveAnswers
    Worker = {w1, w2}
    MaxProxyId = 2
    None = None
    u1 = u1
    u2 = u2
    u3 = u3
    s1 = s1
    s2 = s2
CONSTRAINT LiveScenario
PROPERTIES
    RelayLiveness
    RpcLiveness
    SaveReloads
    DiscoveryRuns
CHECK_DEADLOCK FALSE
