SPECIFICATION FairSpec
CONSTANTS
  Actors = {"guard", "merchant"}
  Runs = {"g1", "g2", "m1"}
  ActorOf <- MCActorOf
  MaxQueuedRuns = 2
  MaxActiveActors = 1
  Hosts <- ProgressHosts
  NoRun = NoRun
  NoActor = NoActor
PROPERTIES
  AbortAllDrains
  AdmittedRunsSettle
CHECK_DEADLOCK FALSE
