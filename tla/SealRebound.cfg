SPECIFICATION Spec
CONSTANTS
  a = a
  x = x
  y = y
  c1 = c1
  Bytes = {x, y}
  Key = {a}
  Index = {a}
  Epoch = {1}
  Capture = {c1}
  ScopeOf <- ScopeA
  Right <- RightAny
  EpochOf <- EpochOne
  Nth <- NthOne
  Names <- NamesIndex
  UrlCall = {k1, k2}
  Ask = {r1}
  Ttl = 1
  Margin = 0
  Lag = 0
  MaxTime = 1
INVARIANTS IndexesAreFixed
CHECK_DEADLOCK FALSE
