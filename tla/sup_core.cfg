SPECIFICATION Spec
CONSTANTS
  Messages <- MCAllMessages
  Outcomes <- MCAllOutcomes
  DoctorResults = {"active", "soft", "hard"}
  OperatorWait = TRUE
  MaxFailures = 2
  MaxRestarts = 1
  MaxCommands = 2
  MaxStarts = 2
INVARIANTS
  TypeOK
  LoopOrDoctor
  NoLoopOverEndedClaim
  FailureIsRepaired
CHECK_DEADLOCK FALSE
