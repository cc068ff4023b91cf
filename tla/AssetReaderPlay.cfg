SPECIFICATION FairSpec
CONSTANTS
  Loads = {l1, l2}
  None = None
  FrameCount = 3
  Faults <- AllFaults
INVARIANTS TypeOK CopiesOnlyStarted
PROPERTIES ReleasedIfDrawable DrawReturns Loops ImplementsPlayback
\* An exception ends the process.
CHECK_DEADLOCK FALSE
