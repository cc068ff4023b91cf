SPECIFICATION FairSpec
CONSTANTS
  NbFiles = 2
  Queues <- TwoFiles
  Capacity = 2
  NbPackets = 3
  NonBlocking = {1}
  RateEmu = {2}
  Loops = 1
  Delay = 2
  MayStop = TRUE
  Faults <- AllFaults
INVARIANTS TypeOK PacketsInOrder EndAfterLastPacket SeekAlone JoinAfterThread EndsDrained
PROPERTIES Ends
