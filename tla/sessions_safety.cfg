SPECIFICATION MCSpec
CONSTANTS
  Users = {x1, x2}
  Tokens = {t1, t2, t3}
  Calls = {c1, c2, c3, c4}
  None = None
  Toggled = {x1}
  MaxInFlight = 3
  MaxFailed = 1
  Settings <- MCSettings
SYMMETRY Symmetry
INVARIANTS
  TypeOK
  PredecessorRevoked
  ExchangedOnceSerially
PROPERTIES
  RevokedYieldsNoMore
  SwitchedOffGainsNothing
CHECK_DEADLOCK FALSE
