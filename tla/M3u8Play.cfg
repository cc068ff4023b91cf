SPECIFICATION Spec
CONSTANTS
  MaxPackets = 4
  Delay = 1
  Sizes <- AllSizes
  Images = {i1, i2}
  MaxBuffers = 2
  NULL = NULL
  Garbage = Garbage
  Faults <- AllFaults
INVARIANTS TypeOK DrawsWhatIsDecoded SafeUntilEnd
\* The assertion and the nil pointers end the process.
CHECK_DEADLOCK FALSE
