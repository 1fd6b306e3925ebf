SPECIFICATION Spec
CONSTANTS
  adm = adm
  dev = dev
  m1 = m1
  m2 = m2
  d1 = d1
  d2 = d2
  sGlobal = sGlobal
  sOther = sOther
  tNotes = tNotes
  tNOTES = tNOTES
  tInbox = tInbox
  uNotes = uNotes
  uInbox = uInbox
  x1 = x1
  x2 = x2
  tDots = tDots
  uEmpty = uEmpty
  w1 = w1
  w2 = w2
  qNotes = qNotes
  qInbox = qInbox
  qFirst = qFirst
  EmptySlug = uEmpty
  Texts = {w1, w2}
  Terms = {qNotes, qInbox, qFirst}
  Holding <- MCHolding
  None = None
  Omitted = Omitted
  Calls = {c1, c2, c3, c4}
  Contents = {x1, x2}
  Editors <- MCEditors
  PermsOf <- MCPermsOf
  ModuleIds <- MCModuleIds
  DocIds <- MCDocIds
  Slugs <- MCSlugs
  Titles <- MCTitles
  DocSlugs <- MCDocSlugs
  SlugOf <- MCSlugOf
  SeedModules <- MCSeedModules
  Requests <- MCRequests
  MaxInFlight = 2
  MaxFailed = 1
SYMMETRY Symmetry
INVARIANTS
  PathsAreUnique
PROPERTIES
  SearchFollowsEdits
  PublishersDecide
CHECK_DEADLOCK FALSE
