-------------------------------- MODULE Seed ---------------------------------
(***************************************************************************)
(* prisma/seed.ts, run against a database that is empty or in use.  It is  *)
(* a straight line of statements, each committed by itself, without a      *)
(* transaction around any two of them: it may stop after any of them, the  *)
(* service may write between any two, and somebody runs it again.          *)
(*                                                                         *)
(* Roles, grants and users are those of Accounts, with its calls.  Of the  *)
(* manual only the rows the seed addresses are kept, and what the routes   *)
(* of the Manual module may make of them.                                  *)
(***************************************************************************)
EXTENDS Accounts, Sequences

CONSTANTS
  RoleList,                 \* ROLES, in the order of the file
  PermissionList,           \* PERMISSIONS
  GrantList,                \* ROLE_PERMISSIONS: a role's code and the codes it gets
  LegacySlugs, ModuleSlugs, \* LEGACY_MODULE_SLUGS, the slugs of MODULES
  RemovedSlugs, DocSlugs,   \* REMOVED_MANUAL_DOC_SLUGS, those of GLOBAL_NOTES_MANUAL_DOCS
  AdminEmail,               \* SEED_ADMIN_EMAIL
  MaxEdits                  \* bound: changes through the manual and module routes

VARIABLES
  at,        \* the next statement of the run; 0 when none is running
  runs,      \* the runs so far, the current one last
  target,    \* the id of the role the current statements are about
  known,     \* the Permission table: codes
  modules,   \* Module: slug to whether it is there and active
  docs,      \* FeatureDocument of the seeded module: slug to status and content
  dated,     \* its column publishedAt: which run, or a route, last set it
  edits,     \* how many changes through the manual's routes there were
  quiet,     \* nobody else has written since the run began
  result     \* what the last complete run left, if nobody has written since

seedVars == <<at, runs, target, known, modules, docs, dated, edits, quiet, result>>
allVars == <<vars, seedVars>>

----------------------------------------------------------------------------
Slots == LegacySlugs \cup ModuleSlugs

DocRows == [ status : { "DRAFT", "PUBLISHED" }, content : { "seeded", "edited" } ]

NoDoc == [ status |-> "NONE", content |-> "none" ]

Dates == SeedRuns \cup { "never", "route" }

OwnCodes == { RoleList[i].code : i \in DOMAIN RoleList }

\* The statements of runSeed, in order.
Script ==
  [ i \in DOMAIN RoleList |-> [ do |-> "UpsertRole", of |-> RoleList[i] ] ]
  \o [ i \in DOMAIN PermissionList |-> [ do |-> "UpsertPermission", of |-> PermissionList[i] ] ]
  \o [ i \in 1 .. 2 * Len(GrantList) |->
         [ do |-> IF i % 2 = 1 THEN "DeleteGrants" ELSE "CreateGrants",
           of |-> GrantList[(i + 1) \div 2] ] ]
  \o << [ do |-> "SwitchOffLegacy" ], [ do |-> "UpsertModules" ], [ do |-> "FindAdminRole" ],
        [ do |-> "UpsertAdmin" ], [ do |-> "RemoveDocs" ], [ do |-> "UpsertDocs" ] >>

Ended == Len(Script) + 1

Distinct(list) == \A i, j \in DOMAIN list : list[i].code = list[j].code => i = j

\* What the file lists: the codes of custom roles are those of their names, no
\* code is listed twice, and what ROLE_PERMISSIONS names is in the other lists.
\* The database is empty or has been seeded before: where there are users there
\* is an ADMIN role, and it is the system role; and `email' is unique.
ASSUME SeedAssumption ==
  /\ RoleList \in Seq([ code : Codes, name : Names, description : Descriptions ])
  /\ \A i \in DOMAIN RoleList : \/ RoleList[i].code = "ADMIN"
                                 \/ RoleList[i].code = CodeOf[RoleList[i].name]
  /\ PermissionList \in Seq(Permissions)
  /\ GrantList \in Seq([ code : OwnCodes,
                         perms : SUBSET { PermissionList[i] : i \in DOMAIN PermissionList } ])
  /\ Distinct(RoleList) /\ Distinct(GrantList)
  /\ "ADMIN" \in OwnCodes
  /\ \A r \in RoleIds :
       SeedRoles[r] # NoRole => (SeedRoles[r].system <=> SeedRoles[r].code = "ADMIN")
  /\ \A x, y \in UserIds : /\ SeedUsers[x] # NoUser
                           /\ SeedUsers[x].email = SeedUsers[y].email
                           => x = y
  /\ (\E x \in UserIds : SeedUsers[x] # NoUser) =>
       \E r \in RoleIds : SeedRoles[r] # NoRole /\ SeedRoles[r].code = "ADMIN"
  /\ LegacySlugs \cap ModuleSlugs = {}
  /\ RemovedSlugs \cap DocSlugs = {}
  /\ AdminEmail \in Emails
  /\ MaxEdits \in Nat

----------------------------------------------------------------------------
SeedInit ==
  /\ Init
  /\ at = 0
  /\ runs = << >>
  /\ target = None
  /\ known = {}
  /\ modules = [s \in Slots |-> "none"]
  /\ docs = [d \in RemovedSlugs \cup DocSlugs |-> NoDoc]
  /\ dated = [d \in RemovedSlugs \cup DocSlugs |-> "never"]
  /\ edits = 0
  /\ quiet = TRUE
  /\ result = << >>

Pairs == { <<g.role, g.perm>> : g \in grants }

\* What two runs must agree about: which rows there are and all that is in them,
\* but who inserted them, `publishedAt' of the documents (see dated) and the
\* `updatedAt' of what is upserted, which is left out.
Snapshot == <<role, Pairs, user, known, modules, docs>>

\* Somebody starts the seed, alone.
StartSeed(s) ==
  /\ at \in {0, Ended}
  /\ s \in SeedRuns
  /\ \A i \in DOMAIN runs : runs[i] # s
  /\ at' = 1
  /\ runs' = Append(runs, s)
  /\ quiet' = TRUE
  /\ target' = None
  /\ UNCHANGED <<vars, known, modules, docs, dated, edits, result>>

Doing(what) == at \in 1 .. Len(Script) /\ Script[at].do = what

\* The statement is through.  (Last in every action: a complete run is recorded.)
Then(next) ==
  /\ at' = next
  /\ result' = IF next # Ended THEN result ELSE IF quiet THEN Snapshot' ELSE << >>
  /\ UNCHANGED <<runs, edits, quiet, pc, args, seen>>

\* A statement fails or the process is killed.
CrashSeed ==
  /\ at \in 1 .. Len(Script)
  /\ at' = 0
  /\ UNCHANGED <<vars, runs, target, known, modules, docs, dated, edits, quiet, result>>

----------------------------------------------------------------------------
Coded(code) == { r \in RoleIds : RoleExists(r) /\ role[r].code = code }

\* An unused id, which one makes no difference; bound: there must be one.
FreshRole == CHOOSE r \in RoleIds : ~RoleExists(r)
FreshUser == CHOOSE x \in UserIds : ~UserExists(x)

RoleIdLeft == \E r \in RoleIds : ~RoleExists(r)
UserIdLeft == \E x \in UserIds : ~UserExists(x)

\* Mutant: `create' forgets the description, `update' sets it.
RoleUpsertedBare(now, d) ==
  [ code |-> d.code, name |-> d.name,
    description |-> IF now = NoRole THEN None ELSE d.description,
    system |-> d.code = "ADMIN", deleted |-> now.deleted ]

\* Of a row that is there, deletedAt is not touched.
RoleUpserted(now, d) ==
  [ code |-> d.code, name |-> d.name, description |-> d.description,
    system |-> d.code = "ADMIN", deleted |-> now.deleted ]

UpsertRole == LET d == Script[at].of IN
  /\ Doing("UpsertRole")
  /\ Coded(d.code) # {} \/ RoleIdLeft
  /\ LET r == IF Coded(d.code) = {} THEN FreshRole ELSE CHOOSE q \in Coded(d.code) : TRUE IN
       role' = [role EXCEPT ![r] = RoleUpserted(role[r], d)]
  /\ UNCHANGED <<grants, user, target, known, modules, docs, dated>>
  /\ Then(at + 1)

UpsertPermission ==
  /\ Doing("UpsertPermission")
  /\ known' = known \cup {Script[at].of}
  /\ UNCHANGED <<role, grants, user, target, modules, docs, dated>>
  /\ Then(at + 1)

\* Mutant: roles the file does not know lose their permissions as well.
UnknownGrantsDropped(r) == { g \in grants : g.role # r /\ role[g.role].code \in OwnCodes }

\* Mutant: the rows are only added to.
GrantsKept(r) == grants

GrantsDropped(r) == { g \in grants : g.role # r }

\* The role is looked up; without one the loop continues with the next.
DeleteGrants == LET found == Coded(Script[at].of.code) IN
  /\ Doing("DeleteGrants")
  /\ IF found = {}
       THEN Then(at + 2) /\ UNCHANGED <<grants, target>>
       ELSE \E r \in found :
              /\ target' = r
              /\ grants' = GrantsDropped(r)
              /\ Then(at + 1)
  /\ UNCHANGED <<role, user, known, modules, docs, dated>>

\* createMany with skipDuplicates, of the permissions that exist.
GrantsCreated(r, list) ==
  [ role : {r}, perm : (list \cap known) \ PermsOf(r), by : {runs[Len(runs)]} ]

CreateGrants ==
  /\ Doing("CreateGrants")
  /\ grants' = grants \cup GrantsCreated(target, Script[at].of.perms)
  /\ UNCHANGED <<role, user, target, known, modules, docs, dated>>
  /\ Then(at + 1)

SwitchOffLegacy ==
  /\ Doing("SwitchOffLegacy")
  /\ modules' = [s \in Slots |->
       IF s \in LegacySlugs /\ modules[s] # "none" THEN "off" ELSE modules[s]]
  /\ UNCHANGED <<role, grants, user, target, known, docs, dated>>
  /\ Then(at + 1)

\* One module in the file.
UpsertModules ==
  /\ Doing("UpsertModules")
  /\ modules' = [s \in Slots |-> IF s \in ModuleSlugs THEN "on" ELSE modules[s]]
  /\ UNCHANGED <<role, grants, user, target, known, docs, dated>>
  /\ Then(at + 1)

\* Without the role the run ends in an error, which CrashSeed stands for.
FindAdminRole ==
  /\ Doing("FindAdminRole")
  /\ \E r \in Coded("ADMIN") : target' = r
  /\ UNCHANGED <<role, grants, user, known, modules, docs, dated>>
  /\ Then(at + 1)

\* A deleted or switched-off administrator comes back, as an administrator.
AdminUpserted(now) ==
  [ email |-> AdminEmail, role |-> target, active |-> TRUE, deleted |-> FALSE ]

UpsertAdmin == LET found == { x \in UserIds : UserExists(x) /\ user[x].email = AdminEmail } IN
  /\ Doing("UpsertAdmin")
  /\ found # {} \/ UserIdLeft
  /\ LET x == IF found = {} THEN FreshUser ELSE CHOOSE y \in found : TRUE IN
       user' = [user EXCEPT ![x] = AdminUpserted(user[x])]
  /\ UNCHANGED <<role, grants, target, known, modules, docs, dated>>
  /\ Then(at + 1)

RemoveDocs ==
  /\ Doing("RemoveDocs")
  /\ docs' = [d \in DOMAIN docs |-> IF d \in RemovedSlugs THEN NoDoc ELSE docs[d]]
  /\ dated' = [d \in DOMAIN docs |-> IF d \in RemovedSlugs THEN "never" ELSE dated[d]]
  /\ UNCHANGED <<role, grants, user, target, known, modules>>
  /\ Then(at + 1)

\* One upsert per document; nothing but the manual's routes looks at them, so
\* they are one step.  `update' sets publishedAt as `create' does, to a date the
\* run has taken before the loop.
UpsertDocs ==
  /\ Doing("UpsertDocs")
  /\ docs' = [d \in DOMAIN docs |->
       IF d \in DocSlugs THEN [ status |-> "PUBLISHED", content |-> "seeded" ] ELSE docs[d]]
  /\ dated' = [d \in DOMAIN docs |-> IF d \in DocSlugs THEN runs[Len(runs)] ELSE dated[d]]
  /\ UNCHANGED <<role, grants, user, target, known, modules>>
  /\ Then(at + 1)

----------------------------------------------------------------------------
\* A call of the users' or roles' routes takes a step.
ServiceStep ==
  /\ Next
  /\ IF UNCHANGED tables
       THEN UNCHANGED <<quiet, result>>
       ELSE quiet' = FALSE /\ result' = << >>
  /\ UNCHANGED <<at, runs, target, known, modules, docs, dated, edits>>

\* A call of the manual's or the modules' routes writes.  That a module gets
\* another slug, and takes its documents along, is left out: like every write it
\* ends the run's being alone, and the properties are about runs that are.
EditManual ==
  /\ edits < MaxEdits
  /\ \E x \in UserIds : ActiveUser(x)
  /\ \/ \E d \in DOMAIN docs :
          /\ docs[d] = NoDoc                               \* createDoc
          /\ docs' = [docs EXCEPT ![d] = [ status |-> "DRAFT", content |-> "edited" ]]
          /\ UNCHANGED <<modules, dated>>
     \/ \E d \in DOMAIN docs :
          /\ docs[d] # NoDoc
          /\ \/ docs' = [docs EXCEPT ![d].content = "edited"] /\ UNCHANGED dated
             \/ /\ docs' = [docs EXCEPT ![d].status = "PUBLISHED"]
                /\ dated' = [dated EXCEPT ![d] = "route"]
             \/ docs' = [docs EXCEPT ![d].status = "DRAFT"] /\ UNCHANGED dated
          /\ UNCHANGED modules
     \/ \E s \in Slots, to \in { "on", "off" } :         \* create, update, remove
          /\ modules[s] = "none" => to = "on"
          /\ modules' = [modules EXCEPT ![s] = to]
          /\ UNCHANGED <<docs, dated>>
  /\ edits' = edits + 1
  /\ quiet' = FALSE
  /\ result' = << >>
  /\ UNCHANGED <<vars, at, runs, target, known>>

SeedStep ==
  \/ UpsertRole
  \/ UpsertPermission
  \/ DeleteGrants
  \/ CreateGrants
  \/ SwitchOffLegacy
  \/ UpsertModules
  \/ FindAdminRole
  \/ UpsertAdmin
  \/ RemoveDocs
  \/ UpsertDocs

SeedNext ==
  \/ \E s \in SeedRuns : StartSeed(s)
  \/ SeedStep
  \/ CrashSeed
  \/ ServiceStep
  \/ EditManual

SeedSpec == SeedInit /\ [][SeedNext]_allVars

----------------------------------------------------------------------------
(* Properties.                                                             *)

\* A run that comes to its end while nobody else writes leaves what the file
\* says, whatever the database held and wherever earlier runs stopped: the
\* roles with exactly their lists of permissions, an administrator who can log
\* in and do everything, the modules and the published documents.  (A seeded
\* role somebody deleted stays deleted.)
SeededWhenUndisturbed ==
  at = Ended /\ quiet =>
    /\ \A i \in DOMAIN RoleList : \E r \in Coded(RoleList[i].code) :
         /\ role[r].name = RoleList[i].name
         /\ role[r].system <=> RoleList[i].code = "ADMIN"
    /\ \A i \in DOMAIN GrantList : \A r \in Coded(GrantList[i].code) :
         PermsOf(r) = GrantList[i].perms
    /\ \E x \in UserIds : /\ ActiveUser(x) /\ user[x].email = AdminEmail
                          /\ LiveRole(user[x].role) /\ role[user[x].role].code = "ADMIN"
    /\ \A s \in Slots : modules[s] \in IF s \in ModuleSlugs THEN {"on"} ELSE {"none", "off"}
    /\ \A d \in DOMAIN docs :
         IF d \in DocSlugs THEN docs[d].status = "PUBLISHED" ELSE docs[d] = NoDoc

\* "rerun seed (idempotent)" (README), as far as it goes: if nobody writes between
\* two complete runs, the second leaves the roles, grants, users, permissions,
\* modules and documents the first left, column by column, whether or not runs
\* that crashed came in between; what it renews is the date of publication,
\* which every document of the file then has from the second run.
RerunRenewsDatesOnly ==
  [][/\ at \in 1 .. Len(Script) /\ at' = Ended
      /\ quiet /\ result # << >>
      => /\ Snapshot' = result
         /\ \A d \in DocSlugs : dated'[d] = runs[Len(runs)]]_allVars

\* What the file does not name is not the seed's: while nobody else writes it
\* leaves other roles, their permissions and other users alone.  (A role that
\* is renamed while the seed works on it is not safe: see CreateGrants.)
OthersUntouched ==
  [][at' # at /\ at \in 1 .. Len(Script) /\ quiet =>
       /\ \A r \in RoleIds : RoleExists(r) /\ role[r].code \notin OwnCodes =>
            /\ role'[r] = role[r]
            /\ { g \in grants' : g.role = r } = { g \in grants : g.role = r }
       /\ \A x \in UserIds : UserExists(x) /\ user[x].email # AdminEmail =>
            user'[x] = user[x]]_allVars
=============================================================================
