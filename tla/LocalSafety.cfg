SPECIFICATION Spec
INVARIANTS TypeOK SingleExecution ReportIsTrue NothingLeftRunning
CHECK_DEADLOCK FALSE
CONSTANTS
  None = None
  a = a
  b = b
  c1 = c1
  c2 = c2
  p1 = p1
  p2 = p2
  Units = {a, b}
  Coordinators = {c1, c2}
  Slots = {p1, p2}
  Batches <- Two
  FaultKinds = {"coordinator", "worker", "store", "result"}
  MaxFaults = 1
  MaxDispatches = 1
SYMMETRY Symmetric
