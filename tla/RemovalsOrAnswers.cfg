SPECIFICATION PartSpec
CONSTANTS
  p1 = p1  w1 = w1  s1 = s1
  Project = {p1}
  Worktree = {w1}
  ProjectOf <- MCProjectOf
  Session = {s1}
  Places <- MCPlaces
  Start = {x1, x2}
  Attempt = {a1, a2, a3}
  Steps = 2
  MaxEra = 2
  None = None
  q1 = q1  x1 = x1  a1 = a1  a2 = a2
  Asks = {q1, q2}
  Kinds <- AllKinds
  Persisted = {TRUE, FALSE}
  Stamped = {TRUE, FALSE}
  MaxBoots = 2
  UnsavedKept = 1
  Plain = {f1}
  Identity = {i1}
  Write = {t1, t2}
  Request = {r1, r2, r3}
  Channel = {exec, socket}
  Fits <- FitsTable
  MaxPending = 1
  exec = exec
  socket = socket
  r3 = r3
  Nobody = Nobody
CONSTRAINT Bounded
INVARIANTS TypeOK SettledUnderDeletion MarksApart RuinedStaysMarked OneDeletes PurgesTheConfirmed KeptStandsForHeard SavedOverWeighed AnsweredOnce EndedIsGone TokenEndsWithWrite
CHECK_DEADLOCK FALSE
