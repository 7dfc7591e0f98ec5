CONSTANTS
    Procs = {p1, p2}
    NoProc = NoProc
    MAX_EVENT_ID = 2
    MaxLineage = 2
    MaxDamage = 1
    Reqs = {r1, r2}
    Fields = {"a", "b"}
    Manual = FALSE
    MaxAsk = 3
    MaxTrouble = 1
SPECIFICATION AgentSpec
CHECK_DEADLOCK FALSE
INVARIANTS NeverReissued RetryAdmitted AdminTrue
PROPERTIES CloseReleases AdminMoves
