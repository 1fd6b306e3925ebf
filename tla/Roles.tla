-------------------------------- MODULE Roles --------------------------------
(***************************************************************************)
(* RolesService: creation, update, soft deletion and the permission matrix *)
(* of roles.  Every handler checks with one query and writes with a later  *)
(* one; only the unique index on Role.code looks at the table again.       *)
(***************************************************************************)
EXTENDS AccountTables

\* findActiveRole of the three routes that address a role; the rest of each
\* handler up to its next query follows in ReadRole.
RoleOps == { "updateRole", "deleteRole", "setPermissions" }

----------------------------------------------------------------------------
(* Creation.                                                               *)

\* normalizeRoleCode, the conflict query and the count of the permissions found.
CheckNewRole(c) == LET a == args[c] IN
  /\ At(c, "started", "createRole")
  /\ IF /\ CodeOf[a.name] # None
        /\ ~CodeTaken(CodeOf[a.name])
        /\ a.perms \subseteq Permissions
       THEN Reading(c, "checked") /\ UNCHANGED seen
       ELSE Refuse(c)

Named(a) == [ code |-> CodeOf[a.name], name |-> a.name, description |-> a.description,
              system |-> FALSE, deleted |-> FALSE ]

\* The insert, with its permissions; the unique index may still refuse it.
InsertRole(c) == LET a == args[c] IN
  /\ At(c, "checked", "createRole")
  /\ IF CodeTaken(CodeOf[a.name])
       THEN Refuse(c)
       ELSE \E r \in RoleIds :
              /\ ~RoleExists(r)                      \* a fresh cuid
              /\ role' = [role EXCEPT ![r] = Named(a)]
              /\ grants' = grants \cup [ role : {r}, perm : a.perms, by : {c} ]
              /\ Answer(c, "done")
              /\ UNCHANGED <<user, args>>

----------------------------------------------------------------------------
(* Update.                                                                 *)

\* The code a role is to have.  A system role keeps its own.
NewCode(row, a) ==
  IF a.name = Omitted \/ row.system THEN row.code ELSE CodeOf[a.name]

\* Mutant: only what the request gives is written, but the code always is.
UpdatedAsGiven(now, row, a) ==
  [now EXCEPT !.name = IF a.name = Omitted THEN now.name ELSE a.name,
              !.code = NewCode(row, a),
              !.description = IF a.description = Omitted THEN now.description ELSE a.description]

\* name, code and description are all written, from the row read earlier where
\* the request gives none; the other columns (`now') are left alone.
Updated(now, row, a) ==
  [now EXCEPT !.name = IF a.name = Omitted THEN row.name ELSE a.name,
              !.code = NewCode(row, a),
              !.description = IF a.description = Omitted THEN row.description ELSE a.description]

\* Nothing given: answered with the row read.  A name without a code: refused.
\* The same code as before needs no second look.
AfterRead(row, a) ==
  IF a.op # "updateRole"                              THEN "read"
  ELSE IF a.name = Omitted /\ a.description = Omitted  THEN "done"
  ELSE IF NewCode(row, a) = None                       THEN "refused"
  ELSE IF NewCode(row, a) = row.code                   THEN "checked"
  ELSE "read"

\* findActiveRole and the checks up to the next query.
ReadRole(c) == LET a == args[c] IN
  /\ pc[c] = "started"
  /\ a.op \in RoleOps
  /\ IF LiveRole(a.role) /\ ~(a.op = "deleteRole" /\ role[a.role].system)
       THEN LET next == AfterRead(role[a.role], a) IN
            IF next \in {"read", "checked"}
              THEN /\ Reading(c, next)
                   /\ seen' = [seen EXCEPT ![c].row = role[a.role]]
              ELSE Answer(c, next) /\ UNCHANGED <<role, grants, user, args>>
       ELSE Refuse(c)

CheckCode(c) == LET code == NewCode(seen[c].row, args[c]) IN
  /\ At(c, "read", "updateRole")
  /\ IF \E r \in RoleIds \ {args[c].role} : RoleExists(r) /\ role[r].code = code
       THEN Refuse(c)
       ELSE Reading(c, "checked") /\ UNCHANGED seen

\* The update by id; the unique index may still refuse it.
WriteRole(c) ==
  LET a == args[c]
      row == Updated(role[a.role], seen[c].row, a)
  IN
  /\ At(c, "checked", "updateRole")
  /\ IF \E r \in RoleIds \ {a.role} : RoleExists(r) /\ role[r].code = row.code
       THEN Refuse(c)
       ELSE /\ role' = [role EXCEPT ![a.role] = row]
            /\ Answer(c, "done")
            /\ UNCHANGED <<grants, user, args>>

----------------------------------------------------------------------------
(* Soft deletion.                                                          *)

\* Mutant: switched-off users are not counted.
StillAssignedActive(r) == { x \in UserIds : ActiveUser(x) /\ user[x].role = r }

\* user.count: users that are switched off count, deleted ones do not.
StillAssigned(r) ==
  { x \in UserIds : UserExists(x) /\ ~user[x].deleted /\ user[x].role = r }

CountUsers(c) ==
  /\ At(c, "read", "deleteRole")
  /\ IF StillAssigned(args[c].role) # {}
       THEN Refuse(c)
       ELSE Reading(c, "checked") /\ UNCHANGED seen

DeleteRole(c) ==
  /\ At(c, "checked", "deleteRole")
  /\ role' = [role EXCEPT ![args[c].role].deleted = TRUE]
  /\ Answer(c, "done")
  /\ UNCHANGED <<grants, user, args>>

----------------------------------------------------------------------------
(* The permission matrix.                                                  *)

\* The deletion's snapshot, at READ COMMITTED: the rows committed by now.
BeginReplace(c) ==
  /\ At(c, "read", "setPermissions")
  /\ Reading(c, "checked")
  /\ seen' = [seen EXCEPT ![c].rows = { g \in grants : g.role = args[c].role }]

\* The commit: the rows found are gone (another transaction may have deleted
\* some of them first), the listed ones are there (skipDuplicates leaves a row
\* another transaction inserted).
Replaced(c, r, perms) ==
  LET kept == grants \ seen[c].rows
      there == { g.perm : g \in { h \in kept : h.role = r } }
  IN kept \cup [ role : {r}, perm : perms \ there, by : {c} ]

\* Codes that do not exist are dropped.  The handler then reads the role again
\* to answer; a role deleted meanwhile gives an error but undoes nothing.
ReplacePermissions(c) == LET a == args[c] IN
  /\ At(c, "checked", "setPermissions")
  /\ grants' = Replaced(c, a.role, a.perms \cap Permissions)
  /\ Answer(c, IF LiveRole(a.role) THEN "done" ELSE "refused")
  /\ UNCHANGED <<role, user, args>>

RolesStep(c) ==
  \/ CheckNewRole(c)
  \/ InsertRole(c)
  \/ ReadRole(c)
  \/ CheckCode(c)
  \/ WriteRole(c)
  \/ CountUsers(c)
  \/ DeleteRole(c)
  \/ BeginReplace(c)
  \/ ReplacePermissions(c)
=============================================================================
