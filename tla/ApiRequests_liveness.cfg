SPECIFICATION FairSpec
CONSTANTS
    Workers = {w1}
    NoWorker = NoWorker
    MaxRequests = 2
    MaxBacklog = 1
    MaxStarts = 2
PROPERTY CallbackRuns
PROPERTY HandlersAndStopReturn
CHECK_DEADLOCK FALSE
