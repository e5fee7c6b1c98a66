SPECIFICATION Spec
CONSTANTS
  Actors = {"guard", "merchant"}
  Runs = {"g1", "g2", "g3", "m1"}
  ActorOf <- MCActorOf
  MaxQueuedRuns = 2
  MaxActiveActors = 1
  Hosts <- SafetyHosts
  NoRun = NoRun
  NoActor = NoActor
INVARIANTS
  LanesExact
  WorkConserving
  StartedAtMostOnce
  PausedBehindDeferral
CHECK_DEADLOCK FALSE
