SPECIFICATION Spec
CONSTANTS
  a = a  b = b  ka0 = ka0  ka1 = ka1  kb1 = kb1  d0 = d0  d1 = d1  
  Worktree = {a, b}
  Key = {ka1, kb1}
  OwnerOf <- MCOwner
  EpochOf <- MCEpoch
  Digest = {d1}
  DigestOf <- MCSame
  Register = {r1}
  Pass = {p1}
  Started = {a}
  Retired = {ka1}
  MaxEpoch = 1
  MaxN = 1
  None = None
INVARIANTS NamedIsThere
CHECK_DEADLOCK FALSE
