SPECIFICATION FairWatch
CONSTANTS
  w = w
  o = o
  Watcher = w
  Items = {1, 2}
  Planned = {2}
  Actors = {w, o}
  Humans = {"merge"}
  MaxRuns = 5
  MaxFaults = 2
  MaxCrashes = 1
  Modes = {"watch", "watch-once", "watch-idle"}
  Threshold = 2
  Causes = {"product"}
  Diligent = TRUE
  Depends <- MCChain
  Jobs <- MCJobs
INVARIANTS
  AttemptsBounded
PROPERTIES
  EveryItemSettles
  CommitsReachBase
  ImplementsWorkItem
CHECK_DEADLOCK FALSE
