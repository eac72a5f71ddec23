SPECIFICATION Spec
CONSTANTS
    Workers = {w1, w2}
    NoWorker = NoWorker
    MaxRequests = 2
    MaxBacklog = 1
    MaxStarts = 1
SYMMETRY WorkerSymmetry
INVARIANT TypeOK
INVARIANT ActiveMatchesHandlers
INVARIANT AnsweredOnce
INVARIANT EventOnce
INVARIANT StopQuiesces
INVARIANT CleanReplies
CHECK_DEADLOCK FALSE
