SPECIFICATION MCSpec
CONSTANTS
  rAdm = rAdm
  rDev = rDev
  rNew = rNew
  adm = adm
  dev = dev
  eve = eve
  nAdministrator = nAdministrator
  nDeveloper = nDeveloper
  nQa = nQa
  nQA = nQA
  nSigns = nSigns
  dText = dText
  mAdm = mAdm
  mDev = mDev
  mEve = mEve
  None = None
  SeedRuns = {seed}
  Omitted = Omitted
  Calls = {c1, c2}
  RoleIds <- MCRoleIds
  UserIds <- MCUserIds
  Names <- MCNames
  Codes <- MCCodes
  CodeOf <- MCCodeOf
  Permissions <- MCPermissions
  SeedRoles <- MCSeedRoles
  SeedGrants <- MCSeedGrants
  SeedUsers <- MCSeedUsers
  Requests <- ReplaceRequests
  Descriptions = {dText}
  Emails = {mAdm, mDev, mEve}
  MaxInFlight = 2
  MaxFailed = 0
  Settings <- MCRace
  MaxLen = 1
  SlugLen = 3
SYMMETRY Symmetry
INVARIANTS
  OneListPerRole
CHECK_DEADLOCK FALSE
