CONSTANTS
    Worker = Worker
    Service = Service
    NoThread = NoThread
    Testers = {t1, t2}
    Threads = {Worker, Service, t1, t2}
    MaxHelper = 3
    MaxStuck = 2
    MaxStart = 3
    Sids = {1}
    Names = {"a", "b"}
    NoName = "none"
    MaxRow = 2
    Limit = 1
    MaxAttempts = 2
    MaxFault = 1
    MaxAdmin = 1
SPECIFICATION HubSpec
INVARIANTS
    OneHelper
    StopMeansQuiet
    OutboxSafe
PROPERTIES
    Winddown
    OutboxSettles
CHECK_DEADLOCK FALSE
