SPECIFICATION FairSpec
CONSTANTS
  Messages = {"answer"}
  Outcomes <- MCQuietOutcomes
  DoctorResults = {"active", "soft", "hard"}
  OperatorWait = TRUE
  MaxFailures = 2
  MaxRestarts = 1
  MaxCommands = 2
  MaxStarts = 2
INVARIANTS
  StopHonoured
PROPERTIES
  StopEndsLoop
CHECK_DEADLOCK FALSE
