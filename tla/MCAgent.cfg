SPECIFICATION Spec
CONSTANTS
  stream = stream
  r1 = r1
  r2 = r2
  input = input
  player = player
  close = close
  image = image
  c1 = c1
  c2 = c2
  adapter1 = adapter1
  adapter2 = adapter2
  NONE = NONE
  Jobs = {image}
  Callers = {c1, c2}
  Outputs = {0}
  MaxAttemptsPerJob = 2
  MaxBundleBytes = 1
  MaxConcurrentCalls = 1
  MaxQueuedCalls = 0
  Aborting = {}
  MaxIds = 2
  MaxStops = 0
SYMMETRY CallersAlike
INVARIANTS RestoreAccepted ToolOutcomesTruthful SubmittedOnce
PROPERTIES RegistersInAgreement AttemptsFinal ImplementsStores
CHECK_DEADLOCK FALSE
