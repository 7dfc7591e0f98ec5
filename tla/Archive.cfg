CONSTANTS
  f1 = f1
  f2 = f2
  own = own
  shared = shared
  Films = {f1, f2}
  Sources = {own, shared}
  Inputs <- MCInputs
  Paired = {f2}
  NewActor = {f2}
  MaxConfirm <- MCConfirm
  MaxRev = 2
  MaxTrouble = 1
SPECIFICATION FairSpec
CHECK_DEADLOCK FALSE
INVARIANT LibrarySafe
PROPERTY ArchiveEnds
