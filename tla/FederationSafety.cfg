SPECIFICATION Spec
INVARIANTS TypeOK SingleExecution OutcomeOfTheClaimant AdmittedIsKept OneSnapshot
PROPERTIES EvidenceIsFinal ImplementsLedger
CONSTANTS
  None = None
  Coordinator = coordinator
  Boundary = boundary
  w1 = w1
  w2 = w2
  s1 = s1
  s2 = s2
  Workers = {w1, w2}
  Reliable = {w1, w2}
  Units = {1}
  Snapshots = {s1, s2}
  FaultKinds = {"coordinator", "worker", "connection", "store"}
  MaxFaults = 2
  MaxRebuilds = 2
SYMMETRY Symmetric
