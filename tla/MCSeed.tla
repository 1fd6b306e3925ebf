------------------------------- MODULE MCSeed --------------------------------
(* Seed for TLC: an empty database, two of the three seeded roles, one more *)
(* id for a role and a user of the clients' making.                        *)
EXTENDS Seed, TLC

CONSTANTS r1, r2, r3, u1, u2, nAdministrator, nDeveloper, nQA, dText, mAdm, mEve

MCRoleIds == {r1, r2, r3}
MCUserIds == {u1, u2}
MCNames == {nAdministrator, nDeveloper, nQA}
MCCodes == {"ADMIN", "ADMINISTRATOR", "DEVELOPER", "QA"}
MCCodeOf == (nAdministrator :> "ADMINISTRATOR") @@ (nDeveloper :> "DEVELOPER") @@ (nQA :> "QA")
MCPermissions == { "ROLE_MANAGE", "USER_CREATE", "USER_UPDATE", "USER_DELETE", "NOTE_CREATE" }

\* An empty database.
MCSeedRoles == [r \in MCRoleIds |-> NoRole]
MCSeedGrants == {}
MCSeedUsers == [x \in MCUserIds |-> NoUser]

MCRoleList ==
  << [ code |-> "ADMIN", name |-> nAdministrator, description |-> dText ],
     [ code |-> "DEVELOPER", name |-> nDeveloper, description |-> dText ] >>
MCPermissionList == << "ROLE_MANAGE", "USER_CREATE", "USER_UPDATE", "USER_DELETE", "NOTE_CREATE" >>
MCGrantList ==
  << [ code |-> "ADMIN", perms |-> MCPermissions ], [ code |-> "DEVELOPER", perms |-> {"NOTE_CREATE"} ] >>

Rename(r, name) ==
  [ op |-> "updateRole", by |-> u1, role |-> r, name |-> name, description |-> Omitted ]

\* The first role id becomes ADMIN, the first user the administrator.
MCRequests ==
  { [ op |-> "createRole", by |-> u1, name |-> nQA, description |-> None, perms |-> {"USER_DELETE"} ],
    Rename(r2, nQA), Rename(r3, nDeveloper),
    [ op |-> "deleteRole", by |-> u1, role |-> r2 ],
    [ op |-> "setPermissions", by |-> u1, role |-> r1, perms |-> {"ROLE_MANAGE", "USER_CREATE"} ],
    [ op |-> "setPermissions", by |-> u1, role |-> r2, perms |-> {"ROLE_MANAGE"} ],
    [ op |-> "createUser", by |-> u1, email |-> mEve, roleCode |-> "ADMIN" ],
    [ op |-> "createUser", by |-> u1, email |-> mEve, roleCode |-> "QA" ],
    [ op |-> "updateUser", by |-> u1, user |-> u1, roleCode |-> "DEVELOPER", active |-> Omitted ],
    [ op |-> "updateUser", by |-> u1, user |-> u1, roleCode |-> Omitted, active |-> FALSE ],
    [ op |-> "deleteUser", by |-> u2, user |-> u1 ] }

Symmetry == Permutations(Calls) \cup Permutations(SeedRuns)
=============================================================================
