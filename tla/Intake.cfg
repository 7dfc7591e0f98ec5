CONSTANTS
    Packages = {p1}
    MaxChange = 1
    MaxConfig = 1
    MaxTrouble = 1
SPECIFICATION FairSpec
CHECK_DEADLOCK FALSE
INVARIANT IntakeTrue
PROPERTIES PublishedAsAdmitted IntakeMoves
