SPECIFICATION Spec
CONSTANTS
    Window = {a, b}
    Config <- Configs
    SystemPath <- Paths
    EulaIn = {"own", "shared"}
    None = None
    a = a
    b = b
INVARIANTS
    ProxyWhole
    SameServer
    SessionDirsAgree
    OutcomeHasCause
