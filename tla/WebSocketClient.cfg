SPECIFICATION FairSpec
CONSTANTS
    MaxSockets = 1
    MaxMessages = 2
    MaxResets = 1
INVARIANT DisconnectIsLast
INVARIANT FailuresToldAsSuch
INVARIANT ReadersOwned
INVARIANT NodeCustody
PROPERTY EndIsHeard
PROPERTY CallsReturn
CHECK_DEADLOCK FALSE
