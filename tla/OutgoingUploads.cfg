SPECIFICATION FairSpec
CONSTANTS
    MaxUploads = 2
    MaxResets = 1
INVARIANT StoryInOrder
INVARIANT StatusMatchesCallback
PROPERTY ImplementsJobLifecycle
PROPERTY QueuedUploadsReport
CHECK_DEADLOCK FALSE
