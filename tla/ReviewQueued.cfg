SPECIFICATION Steady
CONSTANTS
  Session = {s1}
  Prep = prep
  Retry = retry
  Asker = {ask}
  Job = {j1}
  MaxDiff = 1
  Text <- MCText
  RetryLimit = 3
  MaxTries = 1
  MaxMark = 1
  Nothing = Nothing
INVARIANTS QueuedPassHasJob
CHECK_DEADLOCK FALSE
