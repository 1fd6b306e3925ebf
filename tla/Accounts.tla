------------------------------ MODULE Accounts -------------------------------
(***************************************************************************)
(* Roles and users together, behind RolesController and UsersController:   *)
(* the deletion of a role races the assignment of users to it, its rename  *)
(* races the lookup by code, and the permissions a call was let in with    *)
(* may be changed while it runs.                                           *)
(***************************************************************************)
EXTENDS Roles, UserAccounts

Init == TablesInit /\ CallsInit

Step(c) == RolesStep(c) \/ UsersStep(c)

Next ==
  \/ \E c \in Calls, a \in Requests : Start(c, a)
  \/ \E c \in Calls : Step(c) \/ Fail(c)

Spec == Init /\ [][Next]_vars

----------------------------------------------------------------------------
(* Properties.                                                             *)

Row == [ row : RoleRow \cup {NoRole}, id : RoleIds \cup {None}, rows : SUBSET Grant ]

TypeOK ==
  /\ role \in [RoleIds -> RoleRow \cup {NoRole}]
  /\ grants \subseteq Grant
  /\ user \in [UserIds -> UserRow \cup {NoUser}]
  /\ pc \in [Calls -> Running \cup {"idle", "done", "refused", "failed"}]
  /\ args \in [Calls -> Requests \cup {NoRequest}]
  /\ seen \in [Calls -> Row]

\* However creations and partial updates overlap: no two roles share a code,
\* deleted ones included, so a code addresses one role; the code of a custom
\* role is the one its name normalises to, although some updates write only
\* the description and write the code back as they read it; and the system
\* role that notifyRoles and the seed address by "ADMIN" keeps its code.
CodesStand ==
  /\ \A r, q \in RoleIds :
       RoleExists(r) /\ RoleExists(q) /\ role[r].code = role[q].code => r = q
  /\ \A r \in RoleIds : RoleExists(r) =>
       IF role[r].system THEN role[r].code = SeedRoles[r].code /\ ~role[r].deleted
                         ELSE role[r].code = CodeOf[role[r].name]

\* An update or a deletion of x by a call that is answered in this step.
Changes(c, x, ops) ==
  /\ pc[c] = "checked" /\ pc'[c] = "done"
  /\ args[c].op \in ops /\ args[c].user = x

\* PATCH /users/:id changes what it was asked to change and nothing else, even
\* when two of them, or one and a deletion, overlap: the role of a user changes
\* only by a call that gives a role, the switch only by one that gives it.
UserPatchIsPartial ==
  [][\A x \in UserIds : UserExists(x) =>
       /\ user'[x].role # user[x].role =>
            \E c \in Calls : Changes(c, x, {"updateUser"}) /\ args[c].roleCode # Omitted
       /\ user'[x].active # user[x].active =>
            \E c \in Calls : \/ Changes(c, x, {"deleteUser"})
                             \/ Changes(c, x, {"updateUser"}) /\ args[c].active # Omitted
       /\ user'[x].email = user[x].email]_vars

\* A role with users is not deleted, and a deleted role gets none: softDelete's
\* "Cannot delete role: N active user(s) still assigned".  Holds when calls do
\* not overlap; a user may be given the role between the count and the deletion.
NoUserOnDeletedRole ==
  \A x \in UserIds :
    UserExists(x) /\ ~user[x].deleted => ~role[user[x].role].deleted

\* "Replace the permission set assigned to a role": what a role may do is one
\* list somebody sent.  Holds when calls do not overlap; two replacements that
\* do each delete what they see and leave the union of their lists.
OneListPerRole ==
  \A g, h \in grants : g.role = h.role => g.by = h.by
=============================================================================
