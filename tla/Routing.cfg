CONSTANTS
    Threads = {t1}
    Endpoints = {"maps"}
    ApiEndpoints = {"players", "inMaps"}
    Covers <- MCCovers
    ApiRoutes <- MCApiRoutes
    BuiltIns <- MCBuiltIns
    Keys = {"key"}
    NoKey = "none"
    Requests <- MCRequests
    MaxRoutes = 2
    MaxApiRoutes = 2
    MaxStarts = 2
    MaxSettings = 1
SPECIFICATION Spec
INVARIANT DoneWasGranted
INVARIANT RefusalsExplained
CHECK_DEADLOCK FALSE
