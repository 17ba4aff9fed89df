SPECIFICATION Spec
CONSTANTS
  Timeout = 2
  Retry = 3
  MaxUnmatched = 3
  MaxNow = 60
INVARIANTS AttemptTimes
CHECK_DEADLOCK FALSE
