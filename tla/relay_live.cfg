SPECIFICATION FairSpec
CONSTANTS
  d1 = d1
  d2 = d2
  d3 = d3
  d4 = d4
  p1 = p1
  p2 = p2
  Deliveries = {d1, d3, d4}
  Drainers = {p1, p2}
  NoDrainer = NoDrainer
  Keys <- MCKeys
  KeyOf <- MCKeyOf
  UpdateKeys <- MCUpdateKeys
  Matches <- MCSame
  Forged = {d4}
  Poison = {d3}
  MaxQueue = 2
  MaxDead = 2
  Limit = 2
  SlowDrain = FALSE
  MaxFaults = 0
  MaxCrashes = 1
PROPERTIES
  AcceptedSettles
