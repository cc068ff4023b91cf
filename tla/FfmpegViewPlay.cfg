SPECIFICATION FairSpec
CONSTANTS
  Paths = {a, b}
  None = None
  FrameCount = 3
  Calls <- AllCalls
  MaxCalls = 3
  Faults <- AllFaults
INVARIANTS TypeOK MisusedOnlyIfReused
PROPERTIES ShowsNextFrame PlaysToEnd
\* A view whose file has ended does nothing more.
CHECK_DEADLOCK FALSE
