CONSTANTS
    GpuJobs = {1}
    CpuJobs = {}
    StepJobs = {2}
    MaxRetries = 1
    MaxTry = 2
    MaxBoot = 2
    MaxFault = 2
SPECIFICATION FairSpec
CHECK_DEADLOCK FALSE
INVARIANT Contained
PROPERTIES PauseHonoured JobsRecover
