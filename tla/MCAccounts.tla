----------------------------- MODULE MCAccounts ------------------------------
(* Accounts for TLC: the seeded administrator and a developer, one free row *)
(* in each table, names of which two normalise to one code.                *)
EXTENDS BoundedAccounts, TLC

CONSTANTS rAdm, rDev, rNew, adm, dev, eve,
  nAdministrator, nDeveloper, nQa, nQA, nSigns, dText, mAdm, mDev, mEve

MCRoleIds == {rAdm, rDev, rNew}
MCUserIds == {adm, dev, eve}
MCNames == {nAdministrator, nDeveloper, nQa, nQA, nSigns}
MCCodes == {"ADMIN", "ADMINISTRATOR", "DEVELOPER", "QA"}

\* "qa" and "QA" give one code, "---" none.
MCCodeOf ==
  (nAdministrator :> "ADMINISTRATOR") @@ (nDeveloper :> "DEVELOPER") @@
  (nQa :> "QA") @@ (nQA :> "QA") @@ (nSigns :> None)

MCPermissions == { "ROLE_MANAGE", "USER_CREATE", "USER_UPDATE", "USER_DELETE", "NOTE_CREATE" }

Role(code, name, sys) ==
  [ code |-> code, name |-> name, description |-> dText, system |-> sys, deleted |-> FALSE ]

MCSeedRoles ==
  (rAdm :> Role("ADMIN", nAdministrator, TRUE)) @@
  (rDev :> Role("DEVELOPER", nDeveloper, FALSE)) @@
  (rNew :> NoRole)

MCSeedGrants ==
  [ role : {rAdm}, perm : MCPermissions, by : SeedRuns ]
    \cup [ role : {rDev}, perm : {"NOTE_CREATE"}, by : SeedRuns ]

MCSeedUsers ==
  (adm :> [ email |-> mAdm, role |-> rAdm, active |-> TRUE, deleted |-> FALSE ]) @@
  (dev :> [ email |-> mDev, role |-> rDev, active |-> TRUE, deleted |-> FALSE ]) @@
  (eve :> NoUser)

Create(name, perms) ==
  [ op |-> "createRole", by |-> adm, name |-> name, description |-> None, perms |-> perms ]
Rename(r, name) ==
  [ op |-> "updateRole", by |-> adm, role |-> r, name |-> name, description |-> Omitted ]
Describe(r, name, text) ==
  [ op |-> "updateRole", by |-> adm, role |-> r, name |-> name, description |-> text ]
Drop(r) == [ op |-> "deleteRole", by |-> adm, role |-> r ]
Replace(x, r, perms) == [ op |-> "setPermissions", by |-> x, role |-> r, perms |-> perms ]
Invite(code) == [ op |-> "createUser", by |-> adm, email |-> mEve, roleCode |-> code ]
Patch(x, code, on) ==
  [ op |-> "updateUser", by |-> adm, user |-> x, roleCode |-> code, active |-> on ]
Remove(x, y) == [ op |-> "deleteUser", by |-> x, user |-> y ]

RoleRequests ==
  { Create(nQA, {"ROLE_MANAGE", "NOTE_CREATE"}), Create(nDeveloper, {}), Create(nQa, {None}),
    Create(nSigns, {}),
    Rename(rAdm, nQa), Rename(rDev, nQa), Rename(rDev, nSigns), Rename(rDev, Omitted),
    Rename(rNew, nDeveloper), Rename(rNew, nQa),
    Describe(rDev, Omitted, None), Describe(rDev, nDeveloper, dText), Describe(rNew, Omitted, dText),
    Drop(rAdm), Drop(rDev), Drop(rNew),
    Replace(adm, rDev, {"ROLE_MANAGE", None}), Replace(adm, rDev, {"NOTE_CREATE"}),
    Replace(dev, rNew, {"NOTE_CREATE"}) }

UserRequests ==
  { Invite("DEVELOPER"), Invite("QA"),
    Patch(dev, "ADMIN", Omitted), Patch(dev, "QA", TRUE), Patch(dev, Omitted, FALSE),
    Patch(dev, "DEVELOPER", Omitted), Patch(eve, Omitted, TRUE),
    Remove(adm, dev), Remove(adm, adm), Remove(adm, eve), Remove(dev, adm) }

AllRequests == RoleRequests \cup UserRequests

\* What two replacements of one list race with.
ReplaceRequests ==
  { Replace(adm, rDev, {"ROLE_MANAGE", "NOTE_CREATE"}), Replace(adm, rDev, {"USER_UPDATE"}), Rename(rDev, nQa) }

Symmetry == Permutations(Calls)

\* Three at once, and four in a row; and every name, without any calls.
MCSettings ==
  { Setting(3, 3, << >>), Setting(4, 1, << >>) } \cup { Setting(0, 1, text) : text \in Texts }

MCRace == { Setting(2, 2, << >>) }

=============================================================================
