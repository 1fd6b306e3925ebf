---------------------------- MODULE AccountTables ----------------------------
(***************************************************************************)
(* The tables of roles, their permissions and users, and the frame of a    *)
(* call that works on them: the guard that lets it in, and its failure.    *)
(* Roles and UserAccounts add the handlers, Accounts composes them.        *)
(*                                                                         *)
(* Rows of RolePermission carry the call that inserted them, so that a row *)
(* deleted and inserted again is another row, as it is to the database.    *)
(***************************************************************************)
EXTENDS Naturals, FiniteSets

CONSTANTS
  RoleIds, UserIds, Calls,
  Names,         \* display names of roles
  Codes,         \* what roles are addressed by
  CodeOf,        \* normalizeRoleCode; None for a name it throws on
  Descriptions,
  Emails,
  Permissions,   \* the Permission table, which only the seed writes
  None, Omitted, \* a null column, a field missing from a request
  SeedRuns,      \* runs of the seed, which insert rows as calls do
  SeedRoles,     \* the roles, grants and users at the start
  SeedGrants,
  SeedUsers,
  Requests,      \* bound: what the clients of a run send
  MaxInFlight,   \* bound: calls being handled at the same time
  MaxFailed      \* bound: calls that fail for a reason outside the code

VARIABLES
  role,          \* the Role table
  grants,        \* the RolePermission table
  user,          \* the User table
  pc,            \* how far each call has come
  args,          \* what each call was asked, by whom
  seen           \* what each call has read and still uses

tables == <<role, grants, user>>
vars == <<role, grants, user, pc, args, seen>>

----------------------------------------------------------------------------
RoleRow == [ code : Codes, name : Names, description : Descriptions \cup {None},
             system : BOOLEAN, deleted : BOOLEAN ]

NoRole == [ code |-> None, name |-> None, description |-> None,
            system |-> FALSE, deleted |-> FALSE ]

Grant == [ role : RoleIds, perm : Permissions, by : Calls \cup SeedRuns ]

UserRow == [ email : Emails, role : RoleIds, active : BOOLEAN, deleted : BOOLEAN ]

NoUser == [ email |-> None, role |-> None, active |-> FALSE, deleted |-> FALSE ]

\* What a handler keeps of its reads: a role row, a role's id, or the rows of
\* RolePermission its deletion has found.
NothingSeen == [ row |-> NoRole, id |-> None, rows |-> {} ]

\* The bodies and parameters of the seven routes that write; a description may
\* be null (None), and a permission list may name codes that do not exist.
Request ==
  [ op : {"createRole"}, by : UserIds, name : Names, description : Descriptions \cup {None},
    perms : SUBSET (Permissions \cup {None}) ]
  \cup [ op : {"updateRole"}, by : UserIds, role : RoleIds, name : Names \cup {Omitted},
         description : Descriptions \cup {None, Omitted} ]
  \cup [ op : {"deleteRole"}, by : UserIds, role : RoleIds ]
  \cup [ op : {"setPermissions"}, by : UserIds, role : RoleIds,
         perms : SUBSET (Permissions \cup {None}) ]
  \cup [ op : {"createUser"}, by : UserIds, email : Emails, roleCode : Codes ]
  \cup [ op : {"updateUser"}, by : UserIds, user : UserIds, roleCode : Codes \cup {Omitted},
         active : BOOLEAN \cup {Omitted} ]
  \cup [ op : {"deleteUser"}, by : UserIds, user : UserIds ]

NoRequest == [ op |-> "none" ]

\* The @Permissions of the routes.
Required ==
  [ createRole     |-> "ROLE_MANAGE",
    updateRole     |-> "ROLE_MANAGE",
    deleteRole     |-> "ROLE_MANAGE",
    setPermissions |-> "ROLE_MANAGE",
    createUser     |-> "USER_CREATE",
    updateUser     |-> "USER_UPDATE",
    deleteUser     |-> "USER_DELETE" ]

\* Roles at the start have codes of their own, custom ones that of their name,
\* and nobody starts on a deleted one.
ASSUME AccountsAssumption ==
  /\ CodeOf \in [Names -> Codes \cup {None}]
  /\ None \notin Codes \cup Names \cup Descriptions \cup Emails \cup Permissions \cup Calls
  /\ Omitted \notin Codes \cup Names \cup Descriptions \cup {None}
  /\ Requests \subseteq Request
  /\ SeedRoles \in [RoleIds -> RoleRow \cup {NoRole}]
  /\ \A r, q \in RoleIds :
       SeedRoles[r] # NoRole /\ SeedRoles[r].code = SeedRoles[q].code => r = q
  /\ \A r \in RoleIds :
       SeedRoles[r] # NoRole => IF SeedRoles[r].system
                                  THEN ~SeedRoles[r].deleted
                                  ELSE SeedRoles[r].code = CodeOf[SeedRoles[r].name]
  /\ SeedGrants \subseteq Grant
  /\ SeedUsers \in [UserIds -> UserRow \cup {NoUser}]
  /\ \A x \in UserIds :
       SeedUsers[x] # NoUser /\ ~SeedUsers[x].deleted => ~SeedRoles[SeedUsers[x].role].deleted
  /\ IsFiniteSet(Calls)
  /\ MaxInFlight \in Nat \ {0}
  /\ MaxFailed \in Nat

----------------------------------------------------------------------------
RoleExists(r) == role[r] # NoRole

\* findActiveRole: NOT_DELETED is the only condition.
LiveRole(r) == RoleExists(r) /\ ~role[r].deleted

UserExists(x) == user[x] # NoUser

\* Who the guard lets in; a deleted role still counts.
ActiveUser(x) == UserExists(x) /\ user[x].active /\ ~user[x].deleted

PermsOf(r) == { g.perm : g \in { h \in grants : h.role = r } }

CodeTaken(code) == \E r \in RoleIds : RoleExists(r) /\ role[r].code = code

EmailTaken(email) == \E x \in UserIds : UserExists(x) /\ user[x].email = email

\* The role a code addresses: `code' is unique, so there is at most one.
LiveRolesCoded(code) == { r \in RoleIds : LiveRole(r) /\ role[r].code = code }

----------------------------------------------------------------------------
TablesInit ==
  /\ role = SeedRoles
  /\ grants = SeedGrants
  /\ user = SeedUsers

CallsInit ==
  /\ pc = [c \in Calls |-> "idle"]
  /\ args = [c \in Calls |-> NoRequest]
  /\ seen = [c \in Calls |-> NothingSeen]

Running == { "started", "read", "checked" }

InFlight == { c \in Calls : pc[c] \in Running }

At(c, where, op) == pc[c] = where /\ args[c].op = op

Goto(c, to) == pc' = [pc EXCEPT ![c] = to]

\* A step that reads: the tables stay as they are.
Reading(c, to) == Goto(c, to) /\ UNCHANGED <<role, grants, user, args>>

\* A handler ends: nothing it read matters any more.
Answer(c, how) ==
  /\ Goto(c, how)
  /\ seen' = [seen EXCEPT ![c] = NothingSeen]

Refuse(c) == Answer(c, "refused") /\ UNCHANGED <<role, grants, user, args>>

\* JwtStrategy.validate reads the caller with his role and its permissions,
\* PermissionsGuard compares them with the route's.
Start(c, a) ==
  /\ pc[c] = "idle"
  /\ Cardinality(InFlight) < MaxInFlight
  /\ ActiveUser(a.by)
  /\ Required[a.op] \in PermsOf(user[a.by].role)
  /\ Goto(c, "started")
  /\ args' = [args EXCEPT ![c] = a]
  /\ UNCHANGED <<role, grants, user, seen>>

\* A query raises, or the instance dies.  An open transaction is rolled back.
Fail(c) ==
  /\ pc[c] \in Running
  /\ Cardinality({ k \in Calls : pc[k] = "failed" }) < MaxFailed
  /\ Answer(c, "failed")
  /\ UNCHANGED <<role, grants, user, args>>
=============================================================================
