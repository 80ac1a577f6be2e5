CONSTANTS
  Asks = {a1, a2}
  Kinds = {"saved", "pending"}
  Persisted = {TRUE, FALSE}
  Stamped = {TRUE}
  MaxBoots = 2
  UnsavedKept = 1
SYMMETRY Symmetry
SPECIFICATION Spec
INVARIANT SavedOverHeard
CHECK_DEADLOCK FALSE
