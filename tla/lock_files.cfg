SPECIFICATION FairSpec
CONSTANTS
  a = a
  b = b
  c = c
  NoFile = NoFile
  Gone = Gone
  Procs = {a, b, c}
  MaxDead = 2
INVARIANTS
  TypeOK
  ExclusionUnlessRaced
PROPERTIES
  StaleIsRemoved
