SPECIFICATION Spec
CONSTANTS
  Runs = {1, 2}
  Calls = {0, 1}
  MaxTurns = 2
  Parallel = FALSE
  Defers = TRUE
  Compacts = FALSE
  Lapses = {"crash"}
  MaxLapses = 1
  Aborts = {"run"}
  ResumedFails = {"abort"}
INVARIANT RestoreAccepted
CHECK_DEADLOCK FALSE
