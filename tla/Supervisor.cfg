CONSTANTS
    Ops = {1, 2}
    MaxRuntime = 2
    MaxTrouble = 1
SPECIFICATION FairSpec
INVARIANT RuntimesApart
PROPERTY Served
CHECK_DEADLOCK FALSE
