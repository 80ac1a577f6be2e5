SPECIFICATION PartSpec
CONSTANTS
  f1 = f1
  f2 = f2
  r1 = r1
  r2 = r2
  r3 = r3
  m1 = m1
  FollowUp = {f1, f2}
  Call = {r1, r2, r3}
  KeyOf <- KeyOfRequest
  Comment = {m1}
  Of <- Shared
  Kinds = {"pty", "protocol"}
  MaxCrashes = 1
  Nobody = Nobody
  Standbys = 2
  Starter = {x1}
  Targets = {0, 1}
  Prints = {p1, p2}
  idx = idx
  obj = obj
  b1 = b1
  b2 = b2
  s1 = s1
  s2 = s2
  s3 = s3
  q1 = q1
  Key = {idx, obj}
  Index = {idx}
  Epoch = {1, 2}
  Bytes = {b1, b2}
  Capture = {s1, s2, s3}
  UrlCall = {k1}
  Ask = {q1, q2}
  ScopeOf <- ScopeOfKey
  Right <- RightOfKey
  EpochOf <- EpochOfCapture
  Nth <- NthOfCapture
  Names <- NamesOfCapture
  Ttl = 1
  Margin = 2
  Lag = 1
  MaxTime = 5
SYMMETRY PartSymmetry
INVARIANTS OneDelivering GivenOnce DeliveredWasGiven Remembered PoolWithinTarget NamedAreFixed IndexesAreFixed UrlsAreOnRecord
PROPERTY ClaimHolds
CHECK_DEADLOCK FALSE
