SPECIFICATION FairSpec
CONSTANTS
    u1 = u1
    u2 = u2
    Uploads = {u1, u2}
    Configs <- MCConfigs
    Requests <- MCRequests
    PayloadMax = 2
    MaxVariants = 2
    MaxNatives = 1
INVARIANT OneOutcome
INVARIANT AnswerMatchesOutcome
INVARIANT NoTempLeft
INVARIANT StoredIsAccepted
PROPERTY KeepsFinishedFiles
PROPERTY UploadsReported
CHECK_DEADLOCK FALSE
