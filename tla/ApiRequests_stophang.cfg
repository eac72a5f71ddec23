SPECIFICATION FairSpec
CONSTANTS
    Workers = {w1}
    NoWorker = NoWorker
    MaxRequests = 1
    MaxBacklog = 1
    MaxStarts = 1
PROPERTY StopAlwaysReturns
CHECK_DEADLOCK FALSE
