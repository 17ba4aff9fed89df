SPECIFICATION Spec
CONSTANTS
  a = a
  b = b
  x = x
  y = y
  offer = offer
  ack = ack
  ours = ours
  theirs = theirs
  None = None
  Callers = {a, b}
  Closers = {k}
  Xids = {x}
  XidsOf <- SharedXid
  Types = {offer}
  Matchers <- NilOrNothing
  HWAddrs = {ours, theirs}
  IfaceHWAddr = ours
  BufferCap = 1
  Retry = 2
INVARIANT NoNilResponse

