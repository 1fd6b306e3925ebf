SPECIFICATION SeedSpec
CONSTANTS
  r1 = r1
  r2 = r2
  r3 = r3
  u1 = u1
  u2 = u2
  nAdministrator = nAdministrator
  nDeveloper = nDeveloper
  nQA = nQA
  dText = dText
  mAdm = mAdm
  mEve = mEve
  None = None
  Omitted = Omitted
  SeedRuns = {s1, s2, s3}
  Calls = {c1, c2}
  Descriptions = {dText}
  Emails = {mAdm, mEve}
  AdminEmail = mAdm
  LegacySlugs = {"jobs"}
  ModuleSlugs = {"global-notes"}
  RemovedSlugs = {"user-manual"}
  DocSlugs = {"notes"}
  RoleIds <- MCRoleIds
  UserIds <- MCUserIds
  Names <- MCNames
  Codes <- MCCodes
  CodeOf <- MCCodeOf
  Permissions <- MCPermissions
  SeedRoles <- MCSeedRoles
  SeedGrants <- MCSeedGrants
  SeedUsers <- MCSeedUsers
  RoleList <- MCRoleList
  PermissionList <- MCPermissionList
  GrantList <- MCGrantList
  Requests <- MCRequests
  MaxInFlight = 1
  MaxFailed = 0
  MaxEdits = 1
SYMMETRY Symmetry
INVARIANTS
  SeededWhenUndisturbed
PROPERTIES
  RerunRenewsDatesOnly
  OthersUntouched
CHECK_DEADLOCK FALSE
