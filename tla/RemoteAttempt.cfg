CONSTANTS
    MaxAttempt = 1
    MaxFault = 2
SPECIFICATION Spec
CHECK_DEADLOCK FALSE
INVARIANT ResolvedMeansStopped
