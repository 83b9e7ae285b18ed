CONSTANTS
  Controllers = {c1}
  MaxWorkers = 4
  HasHook = TRUE
SPECIFICATION FairSpec
INVARIANTS
  OneInstance
  JoinsCurrent

  
