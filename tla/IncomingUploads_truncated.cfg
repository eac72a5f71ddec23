SPECIFICATION Spec
CONSTANTS
    u1 = u1
    u2 = u2
    Uploads = {u1, u2}
    Configs <- MCConfigs
    Requests <- MCRequests
    PayloadMax = 2
    MaxVariants = 2
    MaxNatives = 0
INVARIANT CompletedIsWhole
CHECK_DEADLOCK FALSE
