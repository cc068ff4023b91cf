SPECIFICATION FairSpec
CONSTANTS
  Files = {"a", "b"}
  NbStreams = 4
  FileOf <- FourStreams
  Copied = {2}
  Video = {3}
  Delay = 1
  InitialSize = 1
  MaxSize = 2
  MaxFrames <- Limits
  NbPackets = 5
  Inputs <- TwoFiles
  MayStop = TRUE
  Faults <- AllFaults
INVARIANTS TypeOK PacketsInOrder CountedOnce OverflowsOnlyIfApart EndsComplete
PROPERTIES ImplementsMuxer Ends
