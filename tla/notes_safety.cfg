SPECIFICATION MCSpec
CONSTANTS
  adm = adm
  dev = dev
  pm = pm
  n1 = n1
  n2 = n2
  None = None
  Calls = {c1, c2, c3, c4}
  Refs <- MCNotes
  Users <- MCUsers
  RoleOf <- MCRoleOf
  PermsOf <- MCPermsOf
  Bodies <- MCBodies
  Offered <- Op
  Toggled <- MCToggled
  EmailEnabled = FALSE
  MaxInFlight = 3
  MaxFailed = 1
  Settings <- MCSettings
SYMMETRY Symmetry
INVARIANTS
  TypeOK
  NoticesOnRecord
  VisibilityAgrees
  RejectionHasReason
  ClientsAgree
PROPERTIES
  CitationsStandSerially
  DeletedIsFrozen
  LifecycleFollowed
CHECK_DEADLOCK FALSE
