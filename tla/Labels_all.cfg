SPECIFICATION FairSpec
CONSTANTS
  Base = 8
  PtrMin = 6
  Dot = 5
  Bufs <- MCBufs
  Edits <- MCEdits
INVARIANT RoundTrip
PROPERTY Terminates
CHECK_DEADLOCK FALSE
