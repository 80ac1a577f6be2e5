SPECIFICATION Spec
CONSTANTS
  Standbys = 1
  Starter = {x1}
  Targets = {0, 1}
  Prints = {f1}
  MaxCrashes = 0
  Nobody = Nobody
INVARIANT SessionsAreSpared
CHECK_DEADLOCK FALSE
