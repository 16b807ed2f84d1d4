SPECIFICATION Spec
CONSTANTS
    MaxInstances = 2
    Request = {r1, r2}
    MaxBusy = 5
PROPERTIES
    FreshThoughBusy
CHECK_DEADLOCK FALSE
