SPECIFICATION FairSpec
CONSTANTS
  a = a
  b = b
  xa = xa
  xb = xb
  xz = xz
  NoXid = NoXid
  None = None
  Sends = {a, b}
  Xids = {xa, xb, xz}
  XidOf <- TwoXids
  BufferSize = 1
  Strays <- Unwanted
  MaxStrays = 2
INVARIANTS Tracked  SettledAsSent
PROPERTIES CloseStopsOrStuck FutureSettles
CHECK_DEADLOCK FALSE
