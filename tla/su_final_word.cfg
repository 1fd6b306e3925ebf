SPECIFICATION MCSpec
CONSTANTS
  adm = adm
  dev = dev
  pm = pm
  m1 = m1
  None = None
  Calls = {c1, c2, c3}
  Refs = {u1}
  Modules <- MCModules
  Users <- MCUsers
  RoleOf <- MCRoleOf
  PermsOf <- MCPermsOf
  Offered <- MCReviewRoutes
  Toggled = {}
  EmailEnabled = FALSE
  MaxInFlight = 2
  MaxFailed = 0
  Settings <- MCRace
PROPERTIES
  AdminHasFinalWord
CHECK_DEADLOCK FALSE
