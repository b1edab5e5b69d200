SPECIFICATION FairSpec
CONSTANTS
  a = a
  b = b
  Free = Free
  Dead = Dead
  Blank = Blank
  NoClaim = NoClaim
  Doctors = {a}
  Budget = 3
  Mode = "codex"
  AutoMerge = TRUE
  Skipped = {}
  Classes = {"patchable", "transient", "hard-manual"}
  Strategies = {"s1", "s2"}
  Reviews = {"pass", "soft", "hard", "missing"}
  MaxClaims = 1
  MaxCrashes = 1
  MaxCommands = 0
  MaxLapses = 0
INVARIANTS
  TypeOK
  CommitsReviewed
  HardStopHolds
  ReleasedIsPublished
PROPERTIES
  DoctorEnds
