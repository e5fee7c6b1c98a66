SPECIFICATION Spec
CONSTANTS
  l1 = l1
  NoLane = NoLane
  s1 = s1
  s2 = s2
  a1 = a1
  a2 = a2
  a3 = a3
  r1 = r1
  t1 = t1
  t2 = t2
  c1 = c1
  c2 = c2
  w1 = w1
  w2 = w2
  Free = Free
  NULL = NULL
  d1 = d1
  d2 = d2
  d3 = d3
  d4 = d4
  worker = worker
  Here = Here
  There = There
  run1 = run1
  run2 = run2
  run3 = run3
  run4 = run4
  res = res
  code = code
  None = None
  NoCall = NoCall
  n1 = n1
  n2 = n2
  n3 = n3
  n4 = n4
  Ids = {d1}
  Owners = {Here, There}
  ChildRuns = {run3}
  Results = {res}
  Codes = {"target_configuration_changed", "child_aborted", "child_failed", "result_unavailable", "executor_failed"}
  MaxTime = 2
  MaxKey = 3
  MaxCounter = 6
  MaxPending = 3
  MaxBatch = 1
  Calls = {c1, c2}
  MaxActiveRuns = 2
  TargetOf <- ActorOf
  ChildRun <- RunOf
  Changed = {d1}
  Lanes = {l1}
  ScheduleIds = {s1}
  AdvanceIds = {a1, a2}
  RetirementIds = {r1}
  Plans <- AllPlans
  Tokens = {t1, t2}
  MaxTick = 3
  MaxScheduleTime = 2
  RecordTimes = {0, 2}
  MaxScheduleKey = 1
  MaxOccurrenceKey = 2
  MaxScheduleCounter = 4
  MaxActive = 2
  MaxPendingOccurrences = 2
  MaxGenerated = 2
  MaxClaim = 2
  NestActors = {a1, a2, a3}
  NestRuns = {run1, n1, n2, n3, n4}
  Roots = {run1}
  NoOne = NoOne
  Authorized <- Downwards
  Modes = {"foreground"}
  MaxDepth = 2
  MaxNestedRuns = 3
  MaxCapacity = 4
SYMMETRY Symmetry
INVARIANTS ScheduledOnce LastHolderSettles RunsSettle NestingDrains
PROPERTIES ImplementsStores SignalBeforeCompletion
CHECK_DEADLOCK FALSE
