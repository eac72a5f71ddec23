CONSTANTS
    Scripts = {"gamemode", "filterscript"}
    Queues <- MCQueues
    ApiQueue = "api"
    Hears <- MCHears
    Threads = {t1}
    MaxEvents = 3
    MaxRoutes = 1
    MaxLoads = 3
SPECIFICATION Spec
PROPERTY EventsAreTaken
INVARIANT HeardOnceInOrder
CHECK_DEADLOCK FALSE
