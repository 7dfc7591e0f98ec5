CONSTANTS
    Films = {1, 2}
    CuesOf <- MCCuesOf
    Providers = {"a", "b"}
    Chains <- MCChains
    Chain0 <- MCChain0
    Failover = TRUE
    Refuses <- MCRefuses
    Fits <- MCFits
    Cool <- MCCool
    PauseAfter = 3
    BatchSize = 2
    MinBatch = 1
    GrowAfter = 2
    Retries = 1
    MaxFault = 2
SPECIFICATION FairSpec
CHECK_DEADLOCK FALSE
INVARIANT BooksTrue
PROPERTIES LinesKept FilmsEnd
