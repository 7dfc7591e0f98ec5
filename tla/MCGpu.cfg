CONSTANTS
    Runs = {1, 2, 3}
    NoRun = 0
    Poll <- MCPoll
    ReserveMin = 2
    StaleMin = 2
    StaleFactor = 3
    Films = {1, 2}
    DisableAfter = 1
    AsrTries = 2
    Transcribed0 = {1}
    MaxRun = 1
    MaxTrouble = 1
SPECIFICATION BothSpec
INVARIANTS
    GpuExclusive
    GpuForTheChild
PROPERTIES
    Turns
    FilmsServed
CHECK_DEADLOCK FALSE
