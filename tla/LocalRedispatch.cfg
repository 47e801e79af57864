SPECIFICATION FairSpec
INVARIANT SingleExecution
PROPERTY DispatchEnds
CHECK_DEADLOCK FALSE
CONSTANTS
  None = None
  a = a
  b = b
  c1 = c1
  c2 = c2
  p1 = p1
  p2 = p2
  Units = {a, b}
  Coordinators = {c1}
  Slots = {p1, p2}
  Batches <- Lists
  FaultKinds = {"coordinator", "worker", "store", "result"}
  MaxFaults = 2
  MaxDispatches = 2
