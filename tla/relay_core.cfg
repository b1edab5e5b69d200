SPECIFICATION Spec
CONSTANTS
  d1 = d1
  d2 = d2
  d3 = d3
  d4 = d4
  p1 = p1
  p2 = p2
  Deliveries = {d1, d2, d3}
  Drainers = {p1, p2}
  NoDrainer = NoDrainer
  Keys <- MCKeys
  KeyOf <- MCKeyOf
  UpdateKeys <- MCUpdateKeys
  Matches <- MCSame
  Forged = {}
  Poison = {}
  MaxQueue = 2
  MaxDead = 2
  Limit = 2
  SlowDrain = FALSE
  MaxFaults = 2
  MaxCrashes = 1
SYMMETRY MCSymmetry
INVARIANTS
  TypeOK
  AcceptedAccounted
  LedgerOncePerUpdate
  DrainExclusive
  FifoUntilFailure
