CONSTANTS
  SnameLen = 4
  FileLen = 5
  ClientPort = 68
  AppleVendorID <- MCAppleVendorID
  VendorClassID <- MCVendorClassID
  Plans <- MCPlans
  RelayIP <- MCRelayIP
  Xid = 1
  NewXid = 2
SPECIFICATION Spec
INVARIANTS
  ReplyForRequest
  OfferedIsRequested
  TypedOption
  RelayTransparent
  BootSelected
\* The exchange ends.
CHECK_DEADLOCK FALSE
