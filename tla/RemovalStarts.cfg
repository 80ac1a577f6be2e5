SPECIFICATION Spec
CONSTANTS
  p1 = p1  w1 = w1  s1 = s1
  Project = {p1}
  Worktree = {w1}
  ProjectOf <- MCProjectOf
  Session = {s1}
  Places <- MCPlaces
  Start = {x1}
  Attempt = {a1}
  Steps = 1
  MaxEra = 1
  None = None
INVARIANTS NothingStartsUnderDeletion
CHECK_DEADLOCK FALSE
