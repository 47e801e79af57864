SPECIFICATION Spec
INVARIANT RunsOnTheSealedSnapshot
CONSTANTS
  None = None
  Coordinator = coordinator
  Boundary = boundary
  w1 = w1
  w2 = w2
  s1 = s1
  s2 = s2
  Workers = {w1}
  Reliable = {w1}
  Units = {1}
  Snapshots = {s1, s2}
  FaultKinds = {}
  MaxFaults = 0
  MaxRebuilds = 1

