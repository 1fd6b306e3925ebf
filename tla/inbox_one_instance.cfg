SPECIFICATION Spec
CONSTANTS
  ann = ann
  bob = bob
  None = None
  Users <- MCUsers
  Instances = {k1}
  Sockets = {s1, s2}
  Calls = {c1, c2}
  Take = 1
  Audiences <- MCAudiences
  Toggled <- MCToggled
  MaxFailed = 1
  Askers <- MCToggled
  MaxMarks = 2
SYMMETRY Symmetry
INVARIANTS
  NothingMissed
PROPERTIES
  ReadByOwner
