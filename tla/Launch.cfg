SPECIFICATION FairSpec
CONSTANTS
    MaxInstances = 1
    MaxLaunches = 2
    UserFields = {{}, {"cwd"}}
    Results = {{"port", "uri", "classPaths", "modulePaths", "moduleName", "cwd", "javaExec"}, {"classPaths"}}
INVARIANTS
    OwnAnswers
    ResolvedUntilLate
PROPERTIES
    LaunchGoesOut
    ClientEndsAdapter
CHECK_DEADLOCK FALSE
