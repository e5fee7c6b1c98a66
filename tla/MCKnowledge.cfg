SPECIFICATION Spec
CONSTANTS
  c1 = c1
  c2 = c2
  m1 = m1
  m2 = m2
  b1 = b1
  b2 = b2
  garden = garden
  palace = palace
  ann = ann
  bob = bob
  Unset = Unset
  None = None
  ProposalIds = {b1, b2}
  RegistryKeys <- ActorKeys
  Contents = {1}
  MaxProposals = 2
  MaxRevision = 3
  MaxTime = 1
  Callers = {c1, c2}
  MaxOpen = 1
  MaxVersions = 2
  Digests = {1, 2}
  Publishers = {1, 2}
  Images = FALSE
  Batches = {{1}, {2}}
  MaxCrashes = 1
  MaxModified = 2
SYMMETRY Symmetry
INVARIANTS RecallComplete BehaviorReviewed KeptReadable
PROPERTIES ImplementsStores
CHECK_DEADLOCK FALSE
