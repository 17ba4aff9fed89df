SPECIFICATION Spec
CONSTANTS
  a = a
  b = b
  x = x
  y = y
  offer = offer
  ack = ack
  ours = ours
  theirs = theirs
  None = None
  Callers = {a, b}
  Closers = {}
  Xids = {x, y}
  XidsOf <- PartlyShared
  Types = {offer, ack}
  Matchers <- NilOrNothing
  HWAddrs = {ours, theirs}
  IfaceHWAddr = ours
  BufferCap = 1
  Retry = 1
INVARIANTS PendingLive NoChannelPanic AloneUndisturbed ResponseMatches FirstResponse
CHECK_DEADLOCK FALSE
