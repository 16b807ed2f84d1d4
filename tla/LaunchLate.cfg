SPECIFICATION Spec
CONSTANTS
    MaxInstances = 1
    MaxLaunches = 1
    UserFields = {{}, {"cwd"}}
    Results = {{}, {"port", "uri", "classPaths", "modulePaths", "moduleName", "cwd", "javaExec"}}
INVARIANTS
    LaunchResolved
CHECK_DEADLOCK FALSE
