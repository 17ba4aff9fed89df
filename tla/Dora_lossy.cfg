SPECIFICATION DoraSpec
CONSTANTS
  a = a
  x = x
  ours = ours
  offer = offer
  ack = ack
  nak = nak
  None = None
  Callers = {a}
  Closers = {k}
  Xids = {x}
  XidsOf <- OneCaller
  Types = {offer, ack, nak}
  Matchers <- OfferOrAny
  HWAddrs = {ours}
  IfaceHWAddr = ours
  BufferCap = 1
  Retry = 2
  Naks = TRUE
  MaxDup = 1
INVARIANT TwoAnswers
CHECK_DEADLOCK FALSE
