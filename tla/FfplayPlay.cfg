SPECIFICATION Spec
CONSTANTS
  Length = 3
  Files <- OneFile
  Delay = 1
  MinFrames = 1
  PictQueue = 2
  Loops = 2
  MaxKeys = 1
  None = None
  Faults <- AllFaults
INVARIANTS TypeOK ExitsAfterLast
PROPERTIES ShowsInOrder Ends
\* The program ends.
CHECK_DEADLOCK FALSE
