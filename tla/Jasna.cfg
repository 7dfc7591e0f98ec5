CONSTANTS
    Films = {1, 2}
    DisableAfter = 1
    AsrTries = 2
    Restored0 = {2}
    Transcribed0 = {1}
    AbortAfter = 1
    Unet = TRUE
    MaxRun = 2
    MaxTrouble = 1
SPECIFICATION FairSpec
CHECK_DEADLOCK FALSE
INVARIANT GpuHonest
PROPERTIES DoneAndKept RunEnds
