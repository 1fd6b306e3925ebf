SPECIFICATION MCFairSpec
CONSTANTS
  adm = adm
  dev = dev
  pm = pm
  m1 = m1
  None = None
  Calls = {c1, c2, c3}
  Refs = {u1}
  Modules <- MCModules
  Users <- MCPair
  RoleOf <- MCRoleOf
  PermsOf <- MCPermsOf
  Offered <- MCReviewRoutes
  Toggled = {}
  EmailEnabled = TRUE
  MaxInFlight = 2
  MaxFailed = 1
  Settings <- MCFair
INVARIANTS
  DeliveryFollowsStorage
PROPERTIES
  Answered
  RequesterLearns
CHECK_DEADLOCK FALSE
