SPECIFICATION SessionsSpec
CONSTANTS
  Operations = {"give", "heal"}
  Streams = {"npc1", "npc2"}
  Runs = {"r1", "r2"}
  Keys = {"chest"}
  StreamOf <- MCStreamOf
  RunOf <- MCRunOf
  PolicyOf <- MCPolicyOf
  ConflictKeysOf <- MCConflictKeysOf
  GoalBound = {"heal"}
  MaxPendingGoals = 1
  CandidateLimit = 1
  MaxTokens = 2
  MaxAdmissions = 2
  NoOwner = NoOwner
  AnyRun = AnyRun
INVARIANTS
  TypeOK
  ConflictOwnership
  AtMostOneEffect
  OutcomeTruthful
PROPERTIES
  SettledIsFinal
  ClaimsResolve
  Settles
CHECK_DEADLOCK FALSE
