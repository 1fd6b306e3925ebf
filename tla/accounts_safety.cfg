SPECIFICATION MCSpec
CONSTANTS
  rAdm = rAdm
  rDev = rDev
  rNew = rNew
  adm = adm
  dev = dev
  eve = eve
  nAdministrator = nAdministrator
  nDeveloper = nDeveloper
  nQa = nQa
  nQA = nQA
  nSigns = nSigns
  dText = dText
  mAdm = mAdm
  mDev = mDev
  mEve = mEve
  None = None
  SeedRuns = {seed}
  Omitted = Omitted
  Calls = {c1, c2, c3, c4}
  RoleIds <- MCRoleIds
  UserIds <- MCUserIds
  Names <- MCNames
  Codes <- MCCodes
  CodeOf <- MCCodeOf
  Permissions <- MCPermissions
  SeedRoles <- MCSeedRoles
  SeedGrants <- MCSeedGrants
  SeedUsers <- MCSeedUsers
  Requests <- AllRequests
  Descriptions = {dText}
  Emails = {mAdm, mDev, mEve}
  MaxInFlight = 3
  MaxFailed = 1
  Settings <- MCSettings
  MaxLen = 4
  SlugLen = 3
SYMMETRY Symmetry
INVARIANTS
  CodesStand
  NoUserOnDeletedRoleSerially
  CodeIsStable
  CodeIgnoresSpelling
  SlugIsAddress
PROPERTIES
  UserPatchIsPartial
CHECK_DEADLOCK FALSE
