SPECIFICATION Spec
CONSTANTS
  a = a
  b = b
  Free = Free
  Dead = Dead
  Blank = Blank
  NoClaim = NoClaim
  Doctors = {a, b}
  Budget = 1
  Mode = "diagnose"
  AutoMerge = FALSE
  Skipped = {}
  Classes = {"transient"}
  Strategies = {}
  Reviews = {}
  MaxClaims = 1
  MaxCrashes = 1
  MaxCommands = 1
  MaxLapses = 2
SYMMETRY MCSymmetry
INVARIANTS
  OneDoctorInside
  ClaimHeld
