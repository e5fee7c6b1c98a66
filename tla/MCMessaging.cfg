SPECIFICATION Spec
CONSTANTS
  r1 = r1
  r2 = r2
  i1 = i1
  i2 = i2
  o1 = o1
  t1 = t1
  t2 = t2
  t3 = t3
  x1 = x1
  c1 = c1
  c2 = c2
  l1 = l1
  NoLane = NoLane
  s1 = s1
  s2 = s2
  w1 = w1
  w2 = w2
  k1 = k1
  NULL = NULL
  Lanes = {l1}
  SignalIds = {s1, s2}
  WaitIds = {w1, w2}
  Kinds = {k1}
  Selectors <- MCSelectors
  Recipients = {r1, r2}
  Ids = {i1, i2}
  Owners = {o1}
  Tokens = {t1, t2, t3}
  RetirementIds = {x1}
  MaxInstant = 2
  MaxKey = 2
  MaxCounter = 4
  MaxClaim = 2
  MaxPerRecipient = 2
  MaxPerGeneration = 2
  MaxTick = 2
  MaxTime = 1
  MaxSignalKey = 2
  MaxWaitKey = 2
  MaxMatches = 1
  MaxBatch = 2
SYMMETRY Symmetry
INVARIANTS FifoSettlement NoSignalOverlooked
PROPERTIES SettlementFinal ImplementsInMemory
CHECK_DEADLOCK FALSE
