SPECIFICATION PartSpec
CONSTANTS
  a = a  b = b  ka0 = ka0  ka1 = ka1  kb1 = kb1  d0 = d0  d1 = d1
  Worktree = {a, b}
  Key = {ka0, ka1, kb1}
  OwnerOf <- MCOwner
  EpochOf <- MCEpoch
  Digest = {d0, d1}
  DigestOf <- MCSame
  Register = {r1}
  Pass = {p1, p2}
  Started = {a, b}
  Retired = {}
  MaxEpoch = 2
  MaxN = 2
  None = None
  j1 = j1
  Session = {s1}
  Prep = prep
  Retry = retry
  Asker = {ask}
  Job = {j1, j2}
  MaxDiff = 2
  Text <- MCText
  RetryLimit = 1
  MaxTries = 1
  MaxMark = 3
  Nothing = Nothing
SYMMETRY RegisterSymmetry
CONSTRAINT Bounded
INVARIANTS TypeOK CondemnedIsUnnamed NamedIsThere RecordedIsCovered OneLiveJob EverySettleIsPrepared
CHECK_DEADLOCK FALSE
