SPECIFICATION Spec
CONSTANTS
  c1 = c1
  c2 = c2
  w1 = w1
  w2 = w2
  g1 = g1
  g2 = g2
  p1 = p1
  p2 = p2
  r1 = r1
  act = act
  move = move
  wave = wave
  npc = npc
  quest = quest
  door = door
  NULL = NULL
  NoOwner = NoOwner
  AnyRun = AnyRun
  GoalIds = {g1}
  Partitions = {p1}
  RetirementIds = {r1}
  MaxSteps = 1
  MaxTick = 0
  MaxOpenGoals = 1
  MaxGoalKey = 1
  MaxRevision = 3
  StepEvidence = {act, "model"}
  Workers = {w1, w2}
  Actions = {act}
  Operations = {act}
  MaxAuthority = 2
  Duration = 1
  MaxTime = 1
  Calls = {c1, c2}
  OperationOf <- OneAction
  LastRevision = 5
  Hidden = {2}
  Oversized = {5}
  PageLimit = 2
  Backlog = 1
  MaxAttempts = 2
  PurgeAnywhere = FALSE
  MaxTokens = 2
  Retries = 1
  Policies = {"recoverable", "safe"}
  MaxRestarts = 1
  Questions = {"trade", "attack"}
  PageSize = 1
  Turns = 0
  Deliveries = 0
  Failing = FALSE
  Sessions = {"tool", "goals", "goalTable", "journal", "pump", "delivery", "run",
              "approvals", "failures"}
SYMMETRY Symmetry
INVARIANTS
  ApprovalSpentOnce
  NoDecisionOverlooked
  ActionAdvancesOnce
  ChangesRecorded
  NothingSkipped
  DecidedStaysDecided
PROPERTIES
  ImplementsStores
CHECK_DEADLOCK FALSE
