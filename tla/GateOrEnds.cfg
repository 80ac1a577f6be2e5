SPECIFICATION PartSpec
CONSTANTS
  p1 = p1
  p2 = p2
  watcher = watcher
  quiet = quiet
  switch = switch
  handOver = handOver
  s1 = s1
  s2 = s2
  Process = {p1, p2}
  First = {p1}
  Observer = {watcher, quiet}
  Of <- OfBoth
  Patient = {watcher}
  Continuation = {switch, handOver}
  Switch = {switch}
  Stop = {s1, s2}
  Casts <- Parties
  Launches = {l1, l2}
  Recoveries = {r1}
  Betweens = {b1}
  Stops = {s1, s2}
  Modes = {TRUE, FALSE}
  None = None
  Nobody = Nobody
INVARIANTS TypeOK RecordedOnce OneAtATime StopReachesLaunch SparesLater
PROPERTY EverythingEnds
CHECK_DEADLOCK FALSE
