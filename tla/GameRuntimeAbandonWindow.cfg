SPECIFICATION Spec
CONSTANTS
  Actors = {"guard", "merchant"}
  Runs = {"g1", "g2", "m1"}
  ActorOf <- MCActorOf
  MaxQueuedRuns = 2
  MaxActiveActors = 1
  Hosts <- AbandonHosts
  NoRun = NoRun
  NoActor = NoActor
INVARIANTS
  DispatchAccepted
CHECK_DEADLOCK FALSE
