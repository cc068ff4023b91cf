SPECIFICATION Spec
CONSTANTS
  Paths = {a, b}
  None = None
  FrameCount = 3
  Calls <- PlayCalls
  MaxCalls = 1
  Faults <- NoFaults
PROPERTIES PlayIsSafe
\* A view whose file has ended does nothing more.
CHECK_DEADLOCK FALSE
