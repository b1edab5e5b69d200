SPECIFICATION FairSpec
CONSTANTS
  a = a
  m = m
  Items = {a, m}
  Manual = {m}
  Closeout = Closeout
  NoSubject = NoSubject
  MinVisibility = 1
  CheckedOut = TRUE
  MaxCycles = 6
  MaxOutside = 1
  MaxTrouble = 1
  MaxVetoes = 1
  PeopleOps = {"push", "pull", "merge", "commit"}
INVARIANTS
  LandsOnce
PROPERTIES
  VetoKept
  EveryItemLands
  ProposalSettles
CHECK_DEADLOCK FALSE
