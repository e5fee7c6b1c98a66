SPECIFICATION Spec
CONSTANTS
  c1 = c1
  c2 = c2
  w1 = w1
  w2 = w2
  g1 = g1
  g2 = g2
  p1 = p1
  p2 = p2
  r1 = r1
  act = act
  move = move
  wave = wave
  npc = npc
  quest = quest
  door = door
  NULL = NULL
  NoOwner = NoOwner
  AnyRun = AnyRun
  GoalIds = {g1}
  Partitions = {p1}
  RetirementIds = {r1}
  MaxSteps = 1
  MaxTick = 0
  MaxOpenGoals = 1
  MaxGoalKey = 1
  MaxRevision = 3
  StepEvidence = {act, "model"}
  Workers = {w1, w2}
  Actions = {act}
  Operations = {act}
  MaxAuthority = 1
  Duration = 1
  MaxTime = 0
  Calls = {c1, c2}
  OperationOf <- OneAction
  LastRevision = 1
  Hidden = {}
  Oversized = {}
  PageLimit = 1
  Backlog = 1
  MaxAttempts = 2
  MaxTokens = 1
  Retries = 0
  Policies = {"recoverable"}
  MaxRestarts = 0
  PurgeAnywhere = FALSE
  Questions = {"trade", "attack"}
  PageSize = 2
  Turns = 0
  Deliveries = 0
  Failing = FALSE
  Sessions = {"approvals"}
INVARIANTS
  PendingAnnounced
CHECK_DEADLOCK FALSE
