CONSTANTS
    Codes = {1, 2}
    Configs = {"a", "b"}
    MaxJoin = 2
    MaxTrouble = 1
    MaxAttempt = 2
    MaxFault = 2
SPECIFICATION BothSpec
CHECK_DEADLOCK FALSE
INVARIANT KeyKept NothingRunsUnseen EndsTrue
PROPERTY ClaimsApproved JoinSettles AttemptsEnd
