SPECIFICATION Spec
CONSTANTS
    Installer = {a, b}
    MaxCrashes = 1
    None = None
PROPERTIES
    OnlyStaleRemoved
CHECK_DEADLOCK FALSE
