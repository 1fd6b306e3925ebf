---------------------------- MODULE UserAccounts -----------------------------
(***************************************************************************)
(* UsersService: creation, update and soft deletion of users.  The columns *)
(* nothing depends on (name, avatar, password) are left out; hashing the   *)
(* password only lengthens the time between the last read and the write.   *)
(***************************************************************************)
EXTENDS AccountTables

\* create: the address is looked up, deleted users included.
CheckEmail(c) ==
  /\ At(c, "started", "createUser")
  /\ IF EmailTaken(args[c].email)
       THEN Refuse(c)
       ELSE Reading(c, "read") /\ UNCHANGED seen

\* The user is there; nobody deletes himself.
MayAddress(a) ==
  /\ UserExists(a.user) /\ ~user[a.user].deleted
  /\ a.op = "deleteUser" => a.user # a.by

\* update, softDelete: a role code given is looked up before the write.
ReadUser(c) == LET a == args[c] IN
  /\ pc[c] = "started"
  /\ a.op \in {"updateUser", "deleteUser"}
  /\ IF MayAddress(a)
       THEN /\ Reading(c, IF a.op = "updateUser" /\ a.roleCode # Omitted
                            THEN "read" ELSE "checked")
            /\ seen' = [seen EXCEPT ![c].id = user[a.user].role]
       ELSE Refuse(c)

\* create, update: the role a code addresses, if it is not deleted.
FindRoleByCode(c) == LET found == LiveRolesCoded(args[c].roleCode) IN
  /\ pc[c] = "read"
  /\ args[c].op \in {"createUser", "updateUser"}
  /\ IF found = {}
       THEN Refuse(c)
       ELSE /\ Reading(c, "checked")
            /\ seen' = [seen EXCEPT ![c].id = CHOOSE r \in found : TRUE]

\* The insert; the unique index on the address may still refuse it.
InsertUser(c) == LET a == args[c] IN
  /\ At(c, "checked", "createUser")
  /\ IF EmailTaken(a.email)
       THEN Refuse(c)
       ELSE \E x \in UserIds :
              /\ ~UserExists(x)                      \* a fresh cuid
              /\ user' = [user EXCEPT ![x] = [ email |-> a.email, role |-> seen[c].id,
                                               active |-> TRUE, deleted |-> FALSE ]]
              /\ Answer(c, "done")
              /\ UNCHANGED <<role, grants, args>>

\* Mutant: the role is written back as it was read.
PatchedFully(c, row, a) ==
  [row EXCEPT !.role = seen[c].id,
              !.active = IF a.active = Omitted THEN row.active ELSE a.active]

\* Only the given columns are written; `row' is the row at the time.
Patched(c, row, a) ==
  [row EXCEPT !.role = IF a.roleCode = Omitted THEN row.role ELSE seen[c].id,
              !.active = IF a.active = Omitted THEN row.active ELSE a.active]

WriteUser(c) == LET a == args[c] IN
  /\ At(c, "checked", "updateUser")
  /\ user' = [user EXCEPT ![a.user] = Patched(c, user[a.user], a)]
  /\ Answer(c, "done")
  /\ UNCHANGED <<role, grants, args>>

DeleteUser(c) ==
  /\ At(c, "checked", "deleteUser")
  /\ user' = [user EXCEPT ![args[c].user].deleted = TRUE, ![args[c].user].active = FALSE]
  /\ Answer(c, "done")
  /\ UNCHANGED <<role, grants, args>>

UsersStep(c) ==
  \/ CheckEmail(c)
  \/ ReadUser(c)
  \/ FindRoleByCode(c)
  \/ InsertUser(c)
  \/ WriteUser(c)
  \/ DeleteUser(c)
=============================================================================
