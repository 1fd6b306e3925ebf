SPECIFICATION MCSpec
CONSTANTS
  adm = adm
  dev = dev
  pm = pm
  m1 = m1
  None = None
  Calls = {c1, c2, c3, c4}
  Refs = {u1}
  Modules <- MCModules
  Users <- MCUsers
  RoleOf <- MCRoleOf
  PermsOf <- MCPermsOf
  Offered <- Op
  Toggled <- MCToggled
  EmailEnabled = FALSE
  MaxInFlight = 3
  MaxFailed = 1
  Settings <- MCSettings
SYMMETRY Symmetry
INVARIANTS
  TypeOK
  NoticesOnRecord
  CompletionRecord
  RejectionHasReason
  InboxIsActionable
  FinalNoticesStandSerially
PROPERTIES
  DeletedIsFrozen
  LedgerKept
  LifecycleFollowed
CHECK_DEADLOCK FALSE
