SPECIFICATION Spec
CONSTANTS
  watcher = watcher
  operator = operator
  Items = {1, 2}
  Depends <- MCNeeds
  Planned = {1}
  Actors = {watcher, operator}
  Humans = {"merge", "close"}
  MaxRuns = 2
  MaxCrashes = 1
  Jobs <- MCJobs
  MaxFaults = 1
INVARIANTS
  TypeOK
  WorkAccounted
  CommitsAreCompletions
  ImplementerAlone
  DependenciesFirst
CHECK_DEADLOCK FALSE
