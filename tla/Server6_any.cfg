SPECIFICATION FairSpec
CONSTANTS
  s1 = s1
  s2 = s2
  s3 = s3
  k1 = k1
  k2 = k2
  None = None
  Serves = {s1, s2, s3}
  Closes = {k1, k2}
INVARIANT NoLeakedSocket
PROPERTIES CloseReturns ServingInterrupted
CHECK_DEADLOCK FALSE
