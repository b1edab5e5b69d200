SPECIFICATION FairSpec
CONSTANTS
  p = p
  q = q
  NoGoal = NoGoal
  Goals = {p, q}
  Production = {q}
  MaxPackets = 5
  MaxTrouble = 1
  Roadmap <- MCRoadmap
INVARIANTS
  TypeOK
  CompletedGoalDelivered
PROPERTIES
  CompletionIsEarned
  PrototypeEnds
CHECK_DEADLOCK FALSE
