SPECIFICATION FairSpec
CONSTANTS
    MaxRequests = 2
    MaxResets = 1
INVARIANT StatusMatchesCallback
INVARIANT NodeCustody
PROPERTY SettledStays
PROPERTY ImplementsJobLifecycle
PROPERTY RequestsReport
CHECK_DEADLOCK FALSE
