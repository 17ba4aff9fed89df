CONSTANTS
  a = a
  b = b
  x = x
  y = y
  offer = offer
  ack = ack
  ours = ours
  theirs = theirs
  None = None
  Callers = {a, b}
  Closers = {k}
  Xids = {x, y}
  XidsOf <- OwnXids
  Types = {offer}
  Matchers <- Nothing
  HWAddrs = {ours}
  IfaceHWAddr = ours
  BufferCap = 0
  Retry = 1
SPECIFICATION FairSpec
PROPERTIES CloseReturns Unblocks CallReturns
