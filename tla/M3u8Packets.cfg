SPECIFICATION Spec
CONSTANTS
  MaxPackets = 5
  Delay = 0
  Sizes <- OneSize
  Images = {}
  MaxBuffers = 6
  NULL = NULL
  Garbage = Garbage
  Faults <- NoFaults
INVARIANTS PacketsUnreferenced
\* The assertion and the nil pointers end the process.
CHECK_DEADLOCK FALSE
