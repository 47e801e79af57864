SPECIFICATION Spec
INVARIANTS TypeOK BootedOnce NeverOutdated WholeUnlessDisturbed ReadBesideTheBoot
PROPERTY AuthenticUnderAnchor
CONSTANTS
  None = None
  t1 = t1
  t2 = t2
  old = old
  new = new
  y = y
  Threads = {t1, t2}
  Roots = {root}
  Versions = {old, new}
  Domains = {y}
  Seal <- Sealing
  Signed = {new}
  Federated = {new}
  Limit = 2
  MaxRebuilds = 1
SYMMETRY Symmetric
