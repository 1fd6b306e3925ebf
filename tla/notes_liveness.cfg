SPECIFICATION MCFairSpec
CONSTANTS
  adm = adm
  dev = dev
  pm = pm
  n1 = n1
  n2 = n2
  None = None
  Calls = {c1, c2, c3}
  Refs <- MCNotes
  Users <- MCUsers
  RoleOf <- MCRoleOf
  PermsOf <- MCPermsOf
  Bodies <- MCBodies
  Offered <- Op
  Toggled <- MCToggled
  EmailEnabled = FALSE
  MaxInFlight = 2
  MaxFailed = 1
  Settings <- MCFair
PROPERTIES
  ReadersLearn
CHECK_DEADLOCK FALSE
