CONSTANTS
    Threads = {t1}
    Endpoints = {"maps"}
    ApiEndpoints = {}
    Covers <- MCNoCovers
    ApiRoutes = {}
    BuiltIns <- MCBuiltIns
    Keys = {}
    NoKey = "none"
    Requests <- MCUploads
    MaxRoutes = 2
    MaxApiRoutes = 0
    MaxStarts = 1
    MaxSettings = 0
SPECIFICATION Spec
INVARIANT GrantedIsServed
CHECK_DEADLOCK FALSE
