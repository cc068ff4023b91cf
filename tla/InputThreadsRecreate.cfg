SPECIFICATION Spec
CONSTANTS
  NbFiles = 2
  Queues <- TwoFiles
  Capacity = 1
  NbPackets = 2
  NonBlocking = {}
  RateEmu = {}
  Loops = 1
  Delay = 0
  MayStop = FALSE
  Faults = {"recreate"}
INVARIANTS CallAgainIsSafe
