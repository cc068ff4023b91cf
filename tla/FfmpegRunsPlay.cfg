SPECIFICATION Spec
CONSTANTS
  MaxFiles = 2
  MaxPackets = 2
  MaxRuns = 3
INVARIANTS
  TypeOK
  FaultsOnlyAfterError
  QuietProcessConverts
  ResultTellsWriteErrors

  
\* The process may have exited.
CHECK_DEADLOCK FALSE
