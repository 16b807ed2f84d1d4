SPECIFICATION Spec
CONSTANTS
    InitId = init
    NavId = {n1, n2}
    PlainId = {c1}
    SaveId = {b1}
    BuildSave = {b1}
    Manual = {m1}
    Session = {s1, s2}
    Title = {"run", "fix"}
    Menu <- Menus
    Uri = {u1, u2, u3}
    PanicUri = {u3}
    AnswersTo <- Answers
    Worker = {w1, w2}
    MaxProxyId = 4
    None = None
    u1 = u1
    u2 = u2
    u3 = u3
    s1 = s1
    s2 = s2
SYMMETRY Symmetry
CONSTRAINT InScenario
INVARIANTS
    AnswerHeldOnce
    LinksResolved
    NavRecognised
    ProxyTrafficSwallowed
    CallerReachable
    ReloadCarriesOptions
    ChoiceMatchesPick
PROPERTIES
    RelaySafety
    RpcSafety
CHECK_DEADLOCK FALSE
