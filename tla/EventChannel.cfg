CONSTANTS
    MaxId = 2
    QueueMax = 2
    BodyMax = 1
    Malformed = {2}
    MaxBoot = 2
    MaxStream = 2
    MaxRollback = 1
    MaxReg = 2
    MaxUpheaval = 3
    MaxFault = 1
    MaxLate = 1
SPECIFICATION FairSpec
CHECK_DEADLOCK FALSE
INVARIANT ChannelSafe
PROPERTIES EnqueuedOnce HandoffSpec EventuallySettled
