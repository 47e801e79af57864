SPECIFICATION FairSpec
INVARIANTS TypeOK PathIsSealed StepsAreSealed AnnouncementsAreSealed NothingAfterRefusal FailureIsRecordedOnce EffectsAreRecorded ReportAgrees
PROPERTY RunEnds
CHECK_DEADLOCK FALSE
CONSTANTS
  None = None
  Absent = Absent
  W = W
  V = V
  gate = gate
  first = first
  second = second
  inner = inner
  done = done
  rejected = rejected
  G = G
  C = C
  D = D
  e1 = e1
  e2 = e2
  ledger = ledger
  Stores <- Entities
  Packages <- Sealed
  Workflows <- Every
  Nodes <- Places
  Exits <- Ends
  Contracts <- Addresses
  Outcomes <- Statuses
  Moments = {e1, e2}
  MaxHops = 4
  MaxDepth = 2
  MaxCalls = 1
