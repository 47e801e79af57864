SPECIFICATION Spec
INVARIANTS TypeOK AccountedFor NothingOfARefusal
CHECK_DEADLOCK FALSE
CONSTANTS
  None = None
  outer = outer
  inner = inner
  first = first
  second = second
  only = only
  c = c
  d = d
  read = read
  judge = judge
  act = act
  Packages <- All
  Workflows = {outer, inner}
  Nodes = {first, second, only}
  Contracts = {c, d}
  Steps = {read, judge, act}
  Names <- Fields
  Internal <- KeptInside
  Payload <- Supplied
  Outcomes = {"SUCCESS", "VIOLATION"}
  MaxHops = 4
