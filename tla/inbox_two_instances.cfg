SPECIFICATION Spec
CONSTANTS
  ann = ann
  bob = bob
  None = None
  Users <- MCUsers
  Instances = {k1, k2}
  Sockets = {s1}
  Calls = {c1}
  Take = 2
  Audiences <- MCJustAnn
  Toggled = {}
  MaxFailed = 0
  Askers <- MCUsers
  MaxMarks = 1
SYMMETRY Symmetry
INVARIANTS
  NothingMissed
