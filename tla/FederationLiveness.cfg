SPECIFICATION FairSpec
PROPERTIES UnclaimedWorkMoves BegunUnitEnds WaitEnds
CONSTANTS
  None = None
  Coordinator = coordinator
  Boundary = boundary
  w1 = w1
  w2 = w2
  s1 = s1
  s2 = s2
  Workers = {w1}
  Reliable = {w1}
  Units = {1, 2}
  Snapshots = {s1}
  FaultKinds = {"coordinator", "worker", "connection", "store"}
  MaxFaults = 2
  MaxRebuilds = 0

