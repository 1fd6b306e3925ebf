---------------------------- MODULE AccountsProofs ----------------------------
(***************************************************************************)
(* The codes of roles and the partial updates of users, for any tables and *)
(* any overlapping calls; and what the two conversions make of any text.   *)
(***************************************************************************)
EXTENDS BoundedAccounts, TLAPS, FiniteSetTheorems, SequenceTheorems

Seen == Row

\* What an update of a role has read: the row, which may be another by now, but
\* for what no update changes; and the code it is going to write.
UpdateKnows(c) == LET row == seen[c].row IN
  /\ RoleExists(args[c].role) /\ row \in RoleRow
  /\ row.system = role[args[c].role].system
  /\ IF row.system THEN row.code = role[args[c].role].code ELSE row.code = CodeOf[row.name]
  /\ NewCode(row, args[c]) \in Codes

\* What a call that is being handled may rely on.
Knows(c) ==
  /\ pc[c] \in Running => args[c] \in Requests
  /\ pc[c] = "checked" /\ args[c].op = "createRole" =>
       CodeOf[args[c].name] \in Codes /\ args[c].perms \subseteq Permissions
  /\ pc[c] \in {"read", "checked"} =>
       /\ args[c].op = "updateRole" => UpdateKnows(c)
       /\ args[c].op = "deleteRole" => /\ RoleExists(args[c].role)
                                       /\ ~role[args[c].role].system
       /\ args[c].op \in {"updateUser", "deleteUser"} => UserExists(args[c].user)
  /\ pc[c] = "checked" =>
       /\ args[c].op = "createUser" => seen[c].id \in RoleIds
       /\ args[c].op = "updateUser" /\ args[c].roleCode # Omitted => seen[c].id \in RoleIds

CallsKnow == \A c \in Calls : Knows(c)

\* What the tables keep whatever they held at the start.
CodesMatch ==
  /\ \A r, q \in RoleIds :
       RoleExists(r) /\ RoleExists(q) /\ role[r].code = role[q].code => r = q
  /\ \A r \in RoleIds : RoleExists(r) =>
       IF role[r].system THEN ~role[r].deleted ELSE role[r].code = CodeOf[role[r].name]

IInv == TypeOK /\ CodesMatch /\ CallsKnow

\* No row is removed; whether a role is a system role, and the code of one that
\* is, never change.
RowsStay ==
  /\ \A r \in RoleIds : RoleExists(r) =>
       /\ RoleExists(r)'
       /\ role'[r].system = role[r].system
       /\ role[r].system => role'[r].code = role[r].code
  /\ \A x \in UserIds : UserExists(x) => UserExists(x)'

\* No route makes a system role.
NewRolesCustom ==
  \A r \in RoleIds : ~RoleExists(r) /\ RoleExists(r)' => ~role'[r].system

----------------------------------------------------------------------------
(* Requests, rows and calls.                                               *)

\* The fields a request of each route has.
LEMMA RequestFields ==
  ASSUME NEW a \in Requests
  PROVE  /\ a.by \in UserIds
         /\ a.op = "createRole" => a.name \in Names /\ a.description \in Descriptions \cup {None}
         /\ a.op \in {"updateRole", "deleteRole", "setPermissions"} => a.role \in RoleIds
         /\ a.op = "updateRole" => /\ a.name \in Names \cup {Omitted}
                                   /\ a.description \in Descriptions \cup {None, Omitted}
         /\ a.op = "createUser" => a.email \in Emails
         /\ a.op \in {"updateUser", "deleteUser"} => a.user \in UserIds
         /\ a.op = "updateUser" => a.active \in BOOLEAN \cup {Omitted}
BY AccountsAssumption DEF Request

\* A row that is there is one of the table's, and an absent one is not.
LEMMA RowsTyped ==
  ASSUME TypeOK
  PROVE  /\ \A r \in RoleIds : RoleExists(r) <=> role[r] \in RoleRow
         /\ \A x \in UserIds : UserExists(x) <=> user[x] \in UserRow
BY AccountsAssumption DEF TypeOK, RoleExists, UserExists, RoleRow, NoRole, UserRow, NoUser

\* Rows staying, a call that does not move knows what it knew.
LEMMA KnowledgeKept ==
  ASSUME TypeOK, RowsStay, NEW k \in Calls, Knows(k),
         pc'[k] = pc[k], args'[k] = args[k], seen'[k] = seen[k]
  PROVE  Knows(k)'
<1>1. pc'[k] \in {"read", "checked"} /\ args'[k].op = "updateRole" => UpdateKnows(k)'
  BY RequestFields DEF Knows, UpdateKnows, RowsStay, Running, NewCode
<1>2. pc'[k] \in {"read", "checked"} /\ args'[k].op = "deleteRole" =>
        RoleExists(args[k].role)' /\ ~role'[args[k].role].system
  BY RequestFields DEF Knows, RowsStay, Running
<1>3. pc'[k] \in {"read", "checked"} /\ args'[k].op \in {"updateUser", "deleteUser"} =>
        UserExists(args[k].user)'
  BY RequestFields DEF Knows, RowsStay, Running
<1> QED BY <1>1, <1>2, <1>3 DEF Knows

\* A handler that ends: nothing is known of it any more.
LEMMA CallEnded ==
  ASSUME TypeOK, NEW c \in Calls, NEW how \in {"done", "refused", "failed"},
         Answer(c, how), args' = args
  PROVE  /\ pc' \in [Calls -> Running \cup {"idle", "done", "refused", "failed"}]
         /\ args' \in [Calls -> Requests \cup {NoRequest}]
         /\ seen' \in [Calls -> Seen]
         /\ \A k \in Calls \ {c} : pc'[k] = pc[k] /\ args'[k] = args[k] /\ seen'[k] = seen[k]
         /\ Knows(c)'
<1>1. NothingSeen \in Seen
  BY DEF NothingSeen, Seen, Row
<1> QED BY <1>1 DEF TypeOK, Answer, Goto, Knows, Running, Seen

\* A step of call c that leaves the tables alone.
LEMMA ReadingStep ==
  ASSUME IInv, NEW c \in Calls, UNCHANGED <<role, grants, user>>,
         pc' \in [Calls -> Running \cup {"idle", "done", "refused", "failed"}],
         args' \in [Calls -> Requests \cup {NoRequest}],
         seen' \in [Calls -> Seen],
         \A k \in Calls \ {c} : pc'[k] = pc[k] /\ args'[k] = args[k] /\ seen'[k] = seen[k],
         Knows(c)'
  PROVE  IInv'
<1>1. TypeOK'
  BY DEF IInv, TypeOK, Seen, Row
<1>2. CodesMatch' /\ RowsStay
  BY DEF IInv, CodesMatch, RowsStay, RoleExists, UserExists
<1>3. CallsKnow'
  BY <1>2, KnowledgeKept DEF IInv, CallsKnow
<1> QED BY <1>1, <1>2, <1>3 DEF IInv

\* A step that ends call c with a write: what is left to show is the tables.
LEMMA WritingStep ==
  ASSUME IInv, NEW c \in Calls, NEW how \in {"done", "refused"}, Answer(c, how), args' = args,
         role' \in [RoleIds -> RoleRow \cup {NoRole}], grants' \subseteq Grant,
         user' \in [UserIds -> UserRow \cup {NoUser}],
         RowsStay, CodesMatch'
  PROVE  IInv'
<1>1. TypeOK
  BY DEF IInv
<1>2. TypeOK' /\ Knows(c)'
  BY <1>1, CallEnded DEF TypeOK, Seen, Row
<1>3. \A k \in Calls \ {c} : Knows(k)'
  BY <1>1, CallEnded, KnowledgeKept DEF IInv, CallsKnow
<1> QED BY <1>2, <1>3 DEF IInv, CallsKnow

\* A step that writes users or grants leaves the codes alone.
LEMMA RolesUntouched ==
  ASSUME CodesMatch, role' = role, \A x \in UserIds : UserExists(x) => UserExists(x)'
  PROVE  RowsStay /\ CodesMatch'
BY DEF RowsStay, CodesMatch, RoleExists

\* A refusal or a failure writes nothing.
LEMMA RefusalKeeps ==
  ASSUME IInv, NEW c \in Calls, NEW how \in {"done", "refused", "failed"},
         Answer(c, how), UNCHANGED <<role, grants, user, args>>
  PROVE  IInv'
BY CallEnded, ReadingStep DEF IInv

\* A lookup that lets the call go on.
LEMMA LookupStep ==
  ASSUME IInv, NEW c \in Calls, NEW to \in {"read", "checked"}, Reading(c, to),
         seen' \in [Calls -> Seen], \A k \in Calls \ {c} : seen'[k] = seen[k],
         pc'[c] = to /\ args'[c] = args[c] /\ UNCHANGED <<role, user>> => Knows(c)'
  PROVE  IInv'
<1>1. /\ pc' = [pc EXCEPT ![c] = to] /\ UNCHANGED <<role, grants, user, args>>
  BY DEF Reading, Goto
<1>2. /\ pc' \in [Calls -> Running \cup {"idle", "done", "refused", "failed"}]
      /\ \A k \in Calls \ {c} : pc'[k] = pc[k]
      /\ pc'[c] = to
  BY <1>1 DEF IInv, TypeOK, Running
<1> QED BY <1>1, <1>2, ReadingStep DEF IInv, TypeOK

----------------------------------------------------------------------------
(* The steps that read.                                                    *)

LEMMA StartKeeps ==
  ASSUME IInv, NEW c \in Calls, NEW a \in Requests, Start(c, a)
  PROVE  IInv'
<1>1. /\ pc' \in [Calls -> Running \cup {"idle", "done", "refused", "failed"}]
      /\ args' \in [Calls -> Requests \cup {NoRequest}]
      /\ \A k \in Calls \ {c} : pc'[k] = pc[k] /\ args'[k] = args[k]
      /\ pc'[c] = "started" /\ args'[c] = a
  BY DEF IInv, TypeOK, Start, Goto, Running
<1>2. Knows(c)'
  BY <1>1 DEF Knows
<1>3. UNCHANGED <<role, grants, user, seen>>
  BY DEF Start
<1> QED BY <1>1, <1>2, <1>3, ReadingStep DEF IInv, TypeOK, Seen

LEMMA CheckNewRoleKeeps ==
  ASSUME IInv, NEW c \in Calls, CheckNewRole(c)
  PROVE  IInv'
<1>1. CASE Refuse(c)
  BY <1>1, RefusalKeeps DEF Refuse
<1>2. CASE ~Refuse(c)
  <2>1. /\ Reading(c, "checked") /\ UNCHANGED seen
        /\ args[c].op = "createRole" /\ args[c] \in Requests
        /\ CodeOf[args[c].name] # None /\ args[c].perms \subseteq Permissions
    BY <1>2 DEF CheckNewRole, At, IInv, CallsKnow, Knows, Running
  <2>2. CodeOf[args[c].name] \in Codes
    BY <2>1, RequestFields, AccountsAssumption
  <2>3. pc'[c] = "checked" /\ args'[c] = args[c] /\ UNCHANGED <<role, user>> => Knows(c)'
    BY <2>1, <2>2 DEF Knows
  <2> QED BY <2>1, <2>3, LookupStep DEF IInv, TypeOK, Seen
<1> QED BY <1>1, <1>2

\* updateRole takes the row along; deleteRole has seen that it is no system role.
LEMMA ReadRoleKeeps ==
  ASSUME IInv, NEW c \in Calls, ReadRole(c)
  PROVE  IInv'
<1> DEFINE a == args[c]
           row == role[a.role]
<1>1. CASE Refuse(c)
  BY <1>1, RefusalKeeps DEF Refuse
<1>2. CASE \E how \in {"done", "refused"} : Answer(c, how) /\ UNCHANGED <<role, grants, user, args>>
  BY <1>2, RefusalKeeps
<1>3. ASSUME NEW to \in {"read", "checked"}, AfterRead(row, a) = to, LiveRole(a.role),
             ~(a.op = "deleteRole" /\ row.system),
             Reading(c, to), seen' = [seen EXCEPT ![c].row = row]
      PROVE  IInv'
  <2>1. /\ a \in Requests /\ a.op \in {"updateRole", "deleteRole", "setPermissions"}
        /\ TypeOK /\ CodesMatch
    BY DEF ReadRole, RoleOps, IInv, CallsKnow, Knows, Running
  <2>2. a.role \in RoleIds /\ RoleExists(a.role) /\ row \in RoleRow
    BY <1>3, <2>1, RequestFields, RowsTyped DEF LiveRole
  <2>3. /\ seen' \in [Calls -> Seen] /\ \A k \in Calls \ {c} : seen'[k] = seen[k]
        /\ seen'[c].row = row
    BY <1>3, <2>1, <2>2 DEF TypeOK, Seen, Row
  <2>4. to = "read" => a.op # "updateRole" \/ NewCode(row, a) # None
    BY <1>3 DEF AfterRead
  <2>5. a.op = "updateRole" => NewCode(row, a) \in Codes
    <3>1. CASE a.op = "updateRole" /\ (a.name = Omitted \/ row.system)
      BY <2>2, <3>1 DEF NewCode, RoleRow
    <3>2. CASE a.op = "updateRole" /\ a.name # Omitted /\ ~row.system
      <4>1. NewCode(row, a) = CodeOf[a.name] /\ CodeOf[a.name] \in Codes \cup {None}
        BY <2>1, <3>2, RequestFields, AccountsAssumption DEF NewCode
      <4>2. to = "checked" => NewCode(row, a) # None
        BY <1>3, <2>2, <3>2, AccountsAssumption DEF AfterRead, RoleRow
      <4> QED BY <2>4, <3>2, <4>1, <4>2
    <3> QED BY <3>1, <3>2
  <2>6. IF row.system THEN row.code = role[a.role].code ELSE row.code = CodeOf[row.name]
    BY <2>1, <2>2 DEF CodesMatch
  <2>7. pc'[c] = to /\ args'[c] = args[c] /\ UNCHANGED <<role, user>> => Knows(c)'
    <3> SUFFICES ASSUME pc'[c] = to, args'[c] = args[c], UNCHANGED <<role, user>>
                 PROVE  Knows(c)'
      OBVIOUS
    <3>1. a.op = "updateRole" => UpdateKnows(c)'
      BY <2>2, <2>3, <2>5, <2>6 DEF UpdateKnows, RoleExists, NewCode
    <3>2. a.op = "deleteRole" => RoleExists(args[c].role)' /\ ~role'[args[c].role].system
      BY <1>3, <2>2 DEF RoleExists
    <3> QED BY <2>1, <3>1, <3>2 DEF Knows, RoleExists
  <2> QED BY <1>3, <2>3, <2>7, LookupStep
<1>4. AfterRead(row, a) \in {"read", "checked", "done", "refused"}
  BY DEF AfterRead
<1> QED BY <1>1, <1>2, <1>3, <1>4 DEF ReadRole

\* The lookups of updateRole and deleteRole learn nothing that lasts.
LEMMA SecondLookupKeeps ==
  ASSUME IInv, NEW c \in Calls, CheckCode(c) \/ CountUsers(c)
  PROVE  IInv'
<1>1. CASE Refuse(c)
  BY <1>1, RefusalKeeps DEF Refuse
<1>2. CASE ~Refuse(c)
  <2>1. /\ Reading(c, "checked") /\ UNCHANGED seen /\ pc[c] = "read"
        /\ args[c].op \in {"updateRole", "deleteRole"} /\ Knows(c)
    BY <1>2 DEF CheckCode, CountUsers, At, IInv, CallsKnow
  <2>2. pc'[c] = "checked" /\ args'[c] = args[c] /\ UNCHANGED <<role, user>> => Knows(c)'
    BY <2>1 DEF Knows, UpdateKnows, RoleExists, UserExists, NewCode, Running
  <2> QED BY <2>1, <2>2, LookupStep DEF IInv, TypeOK, Seen
<1> QED BY <1>1, <1>2

LEMMA BeginReplaceKeeps ==
  ASSUME IInv, NEW c \in Calls, BeginReplace(c)
  PROVE  IInv'
<1>1. /\ Reading(c, "checked") /\ pc[c] = "read" /\ args[c].op = "setPermissions"
      /\ seen' = [seen EXCEPT ![c].rows = { g \in grants : g.role = args[c].role }]
      /\ args[c] \in Requests
  BY DEF BeginReplace, At, IInv, CallsKnow, Knows, Running
<1>2. { g \in grants : g.role = args[c].role } \in SUBSET Grant
  BY DEF IInv, TypeOK
<1>3. seen' \in [Calls -> Seen] /\ \A k \in Calls \ {c} : seen'[k] = seen[k]
  BY <1>1, <1>2 DEF IInv, TypeOK, Seen, Row
<1>4. pc'[c] = "checked" /\ args'[c] = args[c] /\ UNCHANGED <<role, user>> => Knows(c)'
  BY <1>1 DEF Knows
<1> QED BY <1>1, <1>3, <1>4, LookupStep

LEMMA CheckEmailKeeps ==
  ASSUME IInv, NEW c \in Calls, CheckEmail(c)
  PROVE  IInv'
<1>1. CASE Refuse(c)
  BY <1>1, RefusalKeeps DEF Refuse
<1>2. CASE ~Refuse(c)
  <2>1. /\ Reading(c, "read") /\ UNCHANGED seen
        /\ args[c].op = "createUser" /\ args[c] \in Requests
    BY <1>2 DEF CheckEmail, At, IInv, CallsKnow, Knows, Running
  <2>2. pc'[c] = "read" /\ args'[c] = args[c] /\ UNCHANGED <<role, user>> => Knows(c)'
    BY <2>1 DEF Knows
  <2> QED BY <2>1, <2>2, LookupStep DEF IInv, TypeOK, Seen
<1> QED BY <1>1, <1>2

LEMMA ReadUserKeeps ==
  ASSUME IInv, NEW c \in Calls, ReadUser(c)
  PROVE  IInv'
<1>1. CASE Refuse(c)
  BY <1>1, RefusalKeeps DEF Refuse
<1>2. CASE ~Refuse(c)
  <2>1. /\ args[c].op \in {"updateUser", "deleteUser"} /\ args[c] \in Requests
        /\ UserExists(args[c].user)
        /\ seen' = [seen EXCEPT ![c].id = user[args[c].user].role]
    BY <1>2 DEF ReadUser, MayAddress, IInv, CallsKnow, Knows, Running
  <2>2. PICK to \in {"read", "checked"} :
          Reading(c, to) /\ (args[c].op = "updateUser" /\ to = "checked" => args[c].roleCode = Omitted)
    BY <1>2 DEF ReadUser
  <2>3. user[args[c].user].role \in RoleIds
    BY <2>1, RequestFields, RowsTyped DEF IInv, UserRow
  <2>4. seen' \in [Calls -> Seen] /\ \A k \in Calls \ {c} : seen'[k] = seen[k]
    BY <2>1, <2>3 DEF IInv, TypeOK, Seen, Row
  <2>5. pc'[c] = to /\ args'[c] = args[c] /\ UNCHANGED <<role, user>> => Knows(c)'
    BY <2>1, <2>2 DEF Knows, UserExists
  <2> QED BY <2>2, <2>4, <2>5, LookupStep
<1> QED BY <1>1, <1>2

\* The role found exists; it may be deleted by the time it is written.
LEMMA FindRoleByCodeKeeps ==
  ASSUME IInv, NEW c \in Calls, FindRoleByCode(c)
  PROVE  IInv'
<1> DEFINE found == LiveRolesCoded(args[c].roleCode)
<1>1. CASE Refuse(c)
  BY <1>1, RefusalKeeps DEF Refuse
<1>2. CASE ~Refuse(c)
  <2>1. /\ Reading(c, "checked") /\ found # {} /\ pc[c] = "read"
        /\ args[c].op \in {"createUser", "updateUser"} /\ Knows(c)
        /\ seen' = [seen EXCEPT ![c].id = CHOOSE r \in found : TRUE]
    BY <1>2 DEF FindRoleByCode, IInv, CallsKnow
  <2>2. (CHOOSE r \in found : TRUE) \in RoleIds
    BY <2>1 DEF LiveRolesCoded
  <2>3. /\ seen' \in [Calls -> Seen] /\ \A k \in Calls \ {c} : seen'[k] = seen[k]
        /\ seen'[c].id \in RoleIds
    BY <2>1, <2>2 DEF IInv, TypeOK, Seen, Row
  <2>4. pc'[c] = "checked" /\ args'[c] = args[c] /\ UNCHANGED <<role, user>> => Knows(c)'
    BY <2>1, <2>3 DEF Knows, UserExists, Running
  <2> QED BY <2>1, <2>3, <2>4, LookupStep
<1> QED BY <1>1, <1>2

----------------------------------------------------------------------------
(* The steps that write.                                                   *)

\* The unique index refuses what the lookup came too early for.
LEMMA InsertRoleKeeps ==
  ASSUME IInv, NEW c \in Calls, InsertRole(c)
  PROVE  IInv'
<1> DEFINE row == Named(args[c])
<1>1. /\ TypeOK /\ CodesMatch
      /\ args[c] \in Requests /\ args[c].op = "createRole"
      /\ CodeOf[args[c].name] \in Codes /\ args[c].perms \subseteq Permissions
  BY DEF IInv, CallsKnow, Knows, Running, InsertRole, At
<1>2. CASE Refuse(c)
  BY <1>2, RefusalKeeps DEF Refuse
<1>3. CASE ~Refuse(c)
  <2>1. PICK r \in RoleIds :
          /\ ~RoleExists(r)
          /\ role' = [role EXCEPT ![r] = row]
          /\ grants' = grants \cup [ role : {r}, perm : args[c].perms, by : {c} ]
    BY <1>3 DEF InsertRole
  <2>2. /\ Answer(c, "done") /\ UNCHANGED <<user, args>>
        /\ ~CodeTaken(CodeOf[args[c].name])
    BY <1>3 DEF InsertRole
  <2>3. /\ row \in RoleRow /\ ~row.system /\ row.code = CodeOf[args[c].name]
        /\ row.code = CodeOf[row.name]
    BY <1>1, RequestFields DEF Named, RoleRow
  <2>4. \A q \in RoleIds : RoleExists(q) => role[q].code # row.code
    BY <2>2, <2>3 DEF CodeTaken
  <2> HIDE DEF row
  <2>5. role' \in [RoleIds -> RoleRow \cup {NoRole}] /\ RowsStay
    BY <1>1, <2>1, <2>2, <2>3 DEF TypeOK, RowsStay, RoleExists, UserExists
  <2>6. grants' \subseteq Grant
    BY <1>1, <2>1 DEF TypeOK, Grant
  <2>7. CodesMatch'
    BY <1>1, <2>1, <2>3, <2>4 DEF TypeOK, CodesMatch, RoleExists
  <2> QED BY <1>1, <2>2, <2>5, <2>6, <2>7, WritingStep DEF TypeOK
<1> QED BY <1>2, <1>3

\* An update or a deletion of a role: the code is nobody else's, and the one
\* the row must have.
LEMMA RoleChanged ==
  ASSUME IInv, NEW c \in Calls, Answer(c, "done"), UNCHANGED <<grants, user, args>>,
         NEW r \in RoleIds, RoleExists(r), NEW row \in RoleRow,
         role' = [role EXCEPT ![r] = row],
         row.system = role[r].system,
         IF row.system THEN row.code = role[r].code /\ ~row.deleted
                       ELSE row.code = CodeOf[row.name],
         \A q \in RoleIds \ {r} : RoleExists(q) => role[q].code # row.code
  PROVE  IInv'
<1>1. TypeOK /\ CodesMatch
  BY DEF IInv
<1>2. row # NoRole
  BY AccountsAssumption DEF RoleRow, NoRole
<1>3. role' \in [RoleIds -> RoleRow \cup {NoRole}] /\ RowsStay
  BY <1>1, <1>2 DEF TypeOK, RowsStay, RoleExists, UserExists
<1>4. CodesMatch'
  BY <1>1, <1>2 DEF TypeOK, CodesMatch, RoleExists
<1> QED BY <1>1, <1>3, <1>4, WritingStep DEF TypeOK

LEMMA WriteRoleKeeps ==
  ASSUME IInv, NEW c \in Calls, WriteRole(c)
  PROVE  IInv'
<1> DEFINE a == args[c]
           now == role[a.role]
           was == seen[c].row
           row == Updated(now, was, a)
<1>1. /\ a \in Requests /\ a.op = "updateRole" /\ UpdateKnows(c) /\ CodesMatch
      /\ a.role \in RoleIds /\ RoleExists(a.role) /\ now \in RoleRow
  BY RequestFields, RowsTyped
     DEF IInv, CallsKnow, Knows, UpdateKnows, Running, WriteRole, At
<1>2. CASE Refuse(c)
  BY <1>2, RefusalKeeps DEF Refuse
<1>3. CASE ~Refuse(c)
  <2>1. /\ Answer(c, "done") /\ UNCHANGED <<grants, user, args>>
        /\ role' = [role EXCEPT ![a.role] = row]
        /\ \A q \in RoleIds \ {a.role} : RoleExists(q) => role[q].code # row.code
    BY <1>3 DEF WriteRole
  <2>2. /\ was \in RoleRow /\ was.system = now.system /\ NewCode(was, a) \in Codes
        /\ IF was.system THEN was.code = now.code ELSE was.code = CodeOf[was.name]
    BY <1>1 DEF UpdateKnows
  <2>3. /\ a.name \in Names \cup {Omitted}
        /\ a.description \in Descriptions \cup {None, Omitted}
    BY <1>1, RequestFields
  <2>4. /\ row \in RoleRow
        /\ row.code = NewCode(was, a) /\ row.system = now.system /\ row.deleted = now.deleted
        /\ row.name = IF a.name = Omitted THEN was.name ELSE a.name
    BY <1>1, <2>2, <2>3 DEF Updated, RoleRow
  <2>5. row.system => row.code = now.code /\ ~row.deleted
    BY <1>1, <2>2, <2>4 DEF NewCode, CodesMatch
  <2>6. ~row.system => row.code = CodeOf[row.name]
    BY <2>2, <2>4 DEF NewCode
  <2> HIDE DEF row
  <2> QED BY <1>1, <2>1, <2>4, <2>5, <2>6, RoleChanged
<1> QED BY <1>2, <1>3

LEMMA DeleteRoleKeeps ==
  ASSUME IInv, NEW c \in Calls, DeleteRole(c)
  PROVE  IInv'
<1> DEFINE r == args[c].role
           row == [role[r] EXCEPT !.deleted = TRUE]
<1>1. /\ args[c] \in Requests /\ args[c].op = "deleteRole" /\ CodesMatch
      /\ RoleExists(r) /\ ~role[r].system
  BY DEF IInv, CallsKnow, Knows, Running, DeleteRole, At
<1>2. r \in RoleIds /\ role[r] \in RoleRow
  BY <1>1, RequestFields, RowsTyped DEF IInv
<1>3. /\ row \in RoleRow /\ row.system = role[r].system
      /\ row.code = role[r].code /\ row.name = role[r].name
  BY <1>2 DEF RoleRow
<1>4. role' = [role EXCEPT ![r] = row] /\ Answer(c, "done") /\ UNCHANGED <<grants, user, args>>
  BY DEF DeleteRole
<1>5. row.code = CodeOf[row.name] /\ \A q \in RoleIds \ {r} : RoleExists(q) => role[q].code # row.code
  BY <1>1, <1>2, <1>3 DEF CodesMatch
<1> HIDE DEF row
<1> QED BY <1>1, <1>2, <1>3, <1>4, <1>5, RoleChanged

LEMMA ReplacePermissionsKeeps ==
  ASSUME IInv, NEW c \in Calls, ReplacePermissions(c)
  PROVE  IInv'
<1>1. TypeOK /\ args[c] \in Requests /\ args[c].op = "setPermissions"
  BY DEF IInv, CallsKnow, Knows, Running, ReplacePermissions, At
<1>2. args[c].role \in RoleIds
  BY <1>1, RequestFields
<1>3. grants' \subseteq Grant
  BY <1>1, <1>2 DEF ReplacePermissions, Replaced, TypeOK, Grant
<1>4. UNCHANGED <<role, user, args>> /\ \E how \in {"done", "refused"} : Answer(c, how)
  BY DEF ReplacePermissions
<1>5. RowsStay /\ CodesMatch'
  BY <1>4, RolesUntouched DEF IInv, UserExists
<1> QED BY <1>1, <1>3, <1>4, <1>5, WritingStep DEF TypeOK

LEMMA InsertUserKeeps ==
  ASSUME IInv, NEW c \in Calls, InsertUser(c)
  PROVE  IInv'
<1> DEFINE row == [ email |-> args[c].email, role |-> seen[c].id,
                    active |-> TRUE, deleted |-> FALSE ]
<1>1. /\ TypeOK /\ CodesMatch
      /\ args[c] \in Requests /\ args[c].op = "createUser" /\ seen[c].id \in RoleIds
  BY DEF IInv, CallsKnow, Knows, Running, InsertUser, At
<1>2. CASE Refuse(c)
  BY <1>2, RefusalKeeps DEF Refuse
<1>3. CASE ~Refuse(c)
  <2>1. PICK x \in UserIds : ~UserExists(x) /\ user' = [user EXCEPT ![x] = row]
    BY <1>3 DEF InsertUser
  <2>2. Answer(c, "done") /\ UNCHANGED <<role, grants, args>>
    BY <1>3 DEF InsertUser
  <2>3. row \in UserRow
    BY <1>1, RequestFields DEF UserRow
  <2> HIDE DEF row
  <2>4. /\ user' \in [UserIds -> UserRow \cup {NoUser}]
        /\ \A y \in UserIds : UserExists(y) => UserExists(y)'
    BY <1>1, <2>1, <2>3 DEF TypeOK, UserExists
  <2>5. RowsStay /\ CodesMatch'
    BY <1>1, <2>2, <2>4, RolesUntouched
  <2> QED BY <1>1, <2>2, <2>4, <2>5, WritingStep DEF TypeOK
<1> QED BY <1>2, <1>3

\* update and softDelete of a user.
LEMMA UserChanged ==
  ASSUME IInv, NEW c \in Calls, Answer(c, "done"), UNCHANGED <<role, grants, args>>,
         NEW x \in UserIds, NEW row \in UserRow, user' = [user EXCEPT ![x] = row]
  PROVE  IInv'
<1>1. TypeOK /\ CodesMatch
  BY DEF IInv
<1>2. row # NoUser
  BY AccountsAssumption DEF UserRow, NoUser
<1>3. /\ user' \in [UserIds -> UserRow \cup {NoUser}]
      /\ \A y \in UserIds : UserExists(y) => UserExists(y)'
  BY <1>1, <1>2 DEF TypeOK, UserExists
<1>4. RowsStay /\ CodesMatch'
  BY <1>1, <1>3, RolesUntouched
<1> QED BY <1>1, <1>3, <1>4, WritingStep DEF TypeOK

LEMMA WriteUserKeeps ==
  ASSUME IInv, NEW c \in Calls, WriteUser(c)
  PROVE  IInv'
<1> DEFINE a == args[c]
           row == Patched(c, user[a.user], a)
<1>1. /\ a \in Requests /\ a.op = "updateUser" /\ UserExists(a.user)
      /\ a.roleCode # Omitted => seen[c].id \in RoleIds
  BY DEF IInv, CallsKnow, Knows, Running, WriteUser, At
<1>2. /\ a.user \in UserIds /\ user[a.user] \in UserRow
      /\ a.active \in BOOLEAN \cup {Omitted}
  BY <1>1, RequestFields, RowsTyped DEF IInv
<1>3. row \in UserRow
  BY <1>1, <1>2 DEF Patched, UserRow
<1>4. user' = [user EXCEPT ![a.user] = row] /\ Answer(c, "done") /\ UNCHANGED <<role, grants, args>>
  BY DEF WriteUser
<1> HIDE DEF row
<1> QED BY <1>2, <1>3, <1>4, UserChanged

LEMMA DeleteUserKeeps ==
  ASSUME IInv, NEW c \in Calls, DeleteUser(c)
  PROVE  IInv'
<1> DEFINE x == args[c].user
           row == [user[x] EXCEPT !.deleted = TRUE, !.active = FALSE]
<1>1. args[c] \in Requests /\ args[c].op = "deleteUser" /\ UserExists(x)
  BY DEF IInv, CallsKnow, Knows, Running, DeleteUser, At
<1>2. x \in UserIds /\ user[x] \in UserRow
  BY <1>1, RequestFields, RowsTyped DEF IInv
<1>3. row \in UserRow
  BY <1>2 DEF UserRow
<1>4. user' = [user EXCEPT ![x] = row] /\ Answer(c, "done") /\ UNCHANGED <<role, grants, args>>
  BY <1>2 DEF DeleteUser, IInv, TypeOK
<1> HIDE DEF row
<1> QED BY <1>2, <1>3, <1>4, UserChanged

----------------------------------------------------------------------------
(* Theorems.                                                               *)

\* Initially the seeded tables and no calls.
THEOREM InitEstablishes == Init => IInv
<1> SUFFICES ASSUME Init PROVE IInv
  OBVIOUS
<1>1. TypeOK
  BY AccountsAssumption DEF Init, TablesInit, CallsInit, TypeOK, NothingSeen, Row
<1>2. CodesMatch
  <2>1. \A r \in RoleIds : role[r] # NoRole => role[r] \in RoleRow
    BY <1>1, RowsTyped DEF RoleExists
  <2> QED BY <2>1, AccountsAssumption DEF Init, TablesInit, CodesMatch, RoleExists
<1>3. CallsKnow
  BY DEF Init, CallsInit, CallsKnow, Knows, Running
<1> QED BY <1>1, <1>2, <1>3 DEF IInv

\* Every step of every call keeps the invariant.
THEOREM StepKeeps == IInv /\ [Next]_vars => IInv'
<1> SUFFICES ASSUME IInv, [Next]_vars PROVE IInv'
  OBVIOUS
<1>1. ASSUME NEW c \in Calls, RolesStep(c) PROVE IInv'
  BY <1>1, CheckNewRoleKeeps, InsertRoleKeeps, ReadRoleKeeps, SecondLookupKeeps, WriteRoleKeeps,
     DeleteRoleKeeps, BeginReplaceKeeps, ReplacePermissionsKeeps DEF RolesStep
<1>2. ASSUME NEW c \in Calls, UsersStep(c) PROVE IInv'
  BY <1>2, CheckEmailKeeps, ReadUserKeeps, FindRoleByCodeKeeps, InsertUserKeeps,
     WriteUserKeeps, DeleteUserKeeps DEF UsersStep
<1>3. ASSUME NEW c \in Calls, Fail(c) PROVE IInv'
  BY <1>3, RefusalKeeps DEF Fail
<1>4. CASE UNCHANGED vars
  <2>1. TypeOK' /\ CodesMatch' /\ RowsStay
    BY <1>4 DEF vars, IInv, TypeOK, CodesMatch, RowsStay, RoleExists, UserExists
  <2>2. CallsKnow'
    BY <1>4, <2>1, KnowledgeKept DEF vars, IInv, CallsKnow
  <2> QED BY <2>1, <2>2 DEF IInv
<1> QED BY <1>1, <1>2, <1>3, <1>4, StartKeeps DEF Next, Step

\* The inductive invariant of roles and users: typing, the codes, and what a
\* call that updates a role may rely on although the row it read is stale.
THEOREM InvariantHolds == Spec => []IInv
<1> QED BY InitEstablishes, StepKeeps, PTL DEF Spec

\* What a step of a call never does to the tables.
LEMMA StepKeepsRows ==
  ASSUME IInv, [Next]_vars
  PROVE  RowsStay /\ NewRolesCustom
<1>0. TypeOK
  BY DEF IInv
<1>1. ASSUME NEW c \in Calls, InsertRole(c), ~Refuse(c) PROVE RowsStay /\ NewRolesCustom
  <2>1. PICK r \in RoleIds : /\ ~RoleExists(r)
                             /\ role' = [role EXCEPT ![r] = Named(args[c])]
    BY <1>1 DEF InsertRole
  <2>2. user' = user /\ ~Named(args[c]).system /\ Named(args[c]) # NoRole
    <3>1. CodeOf[args[c].name] \in Codes /\ UNCHANGED user
      BY <1>1 DEF InsertRole, At, IInv, CallsKnow, Knows
    <3> QED BY <3>1, AccountsAssumption DEF Named, NoRole
  <2> QED BY <1>0, <2>1, <2>2 DEF RowsStay, NewRolesCustom, RoleExists, UserExists, TypeOK
<1>2. ASSUME NEW c \in Calls, WriteRole(c), ~Refuse(c) PROVE RowsStay /\ NewRolesCustom
  <2> DEFINE now == role[args[c].role]
             row == Updated(now, seen[c].row, args[c])
  <2>1. /\ args[c].role \in RoleIds /\ now \in RoleRow /\ UpdateKnows(c)
        /\ RoleExists(args[c].role)
    BY <1>0, <1>2, RequestFields, RowsTyped
       DEF IInv, CallsKnow, Knows, UpdateKnows, Running, WriteRole, At
  <2>2. role' = [role EXCEPT ![args[c].role] = row] /\ user' = user
    BY <1>2 DEF WriteRole
  <2>3. /\ row.system = now.system /\ row.code \in Codes
        /\ now.system => row.code = now.code
    BY <2>1 DEF Updated, RoleRow, UpdateKnows, NewCode
  <2>4. row # NoRole
    BY <2>3, AccountsAssumption DEF NoRole
  <2> HIDE DEF row
  <2> QED BY <1>0, <2>1, <2>2, <2>3, <2>4 DEF RowsStay, NewRolesCustom, RoleExists, UserExists, TypeOK
<1>3. ASSUME NEW c \in Calls, DeleteRole(c) PROVE RowsStay /\ NewRolesCustom
  <2> DEFINE now == role[args[c].role]
             row == [now EXCEPT !.deleted = TRUE]
  <2>1. args[c].role \in RoleIds /\ now \in RoleRow /\ RoleExists(args[c].role)
    BY <1>0, <1>3, RequestFields, RowsTyped DEF IInv, CallsKnow, Knows, Running, DeleteRole, At
  <2>2. role' = [role EXCEPT ![args[c].role] = row] /\ user' = user
    BY <1>3 DEF DeleteRole
  <2>3. row.system = now.system /\ row.code = now.code /\ row # NoRole
    BY <2>1, AccountsAssumption DEF RoleRow, NoRole
  <2> HIDE DEF row
  <2> QED BY <1>0, <2>1, <2>2, <2>3 DEF RowsStay, NewRolesCustom, RoleExists, UserExists, TypeOK
<1>4. ASSUME NEW c \in Calls, InsertUser(c) \/ WriteUser(c) \/ DeleteUser(c)
      PROVE  RowsStay /\ NewRolesCustom
  <2>1. role' = role
    BY <1>4 DEF InsertUser, WriteUser, DeleteUser, Refuse
  <2>2. \A x \in UserIds : UserExists(x) => UserExists(x)'
    <3>1. CASE InsertUser(c)
      BY <1>0, <3>1 DEF InsertUser, Refuse, UserExists, TypeOK
    <3> DEFINE x == args[c].user
    <3>2. /\ WriteUser(c) \/ DeleteUser(c) => x \in UserIds /\ user[x] \in UserRow
      BY <1>0, RequestFields, RowsTyped
         DEF IInv, CallsKnow, Knows, Running, WriteUser, DeleteUser, At
    <3>3. ASSUME NEW row, row.email = user[x].email, user' = [user EXCEPT ![x] = row],
                 x \in UserIds, user[x] \in UserRow
          PROVE  \A y \in UserIds : UserExists(y) => UserExists(y)'
      <4>1. row # NoUser
        BY <3>3, AccountsAssumption DEF UserRow, NoUser
      <4> QED BY <1>0, <3>3, <4>1 DEF UserExists, TypeOK
    <3>4. CASE WriteUser(c)
      <4> DEFINE row == Patched(c, user[x], args[c])
      <4>1. row.email = user[x].email /\ user' = [user EXCEPT ![x] = row]
        BY <3>2, <3>4 DEF Patched, UserRow, WriteUser
      <4> HIDE DEF row
      <4> QED BY <3>2, <3>3, <3>4, <4>1
    <3>5. CASE DeleteUser(c)
      <4> DEFINE row == [user[x] EXCEPT !.deleted = TRUE, !.active = FALSE]
      <4>1. row.email = user[x].email /\ user' = [user EXCEPT ![x] = row]
        BY <1>0, <3>2, <3>5 DEF UserRow, DeleteUser, TypeOK
      <4> HIDE DEF row
      <4> QED BY <3>2, <3>3, <3>5, <4>1
    <3> QED BY <1>4, <3>1, <3>4, <3>5
  <2> QED BY <2>1, <2>2 DEF RowsStay, NewRolesCustom, RoleExists
<1>5. CASE UNCHANGED tables
  BY <1>5 DEF tables, RowsStay, NewRolesCustom, RoleExists, UserExists
<1>6. ASSUME NEW c \in Calls, Refuse(c) \/ Fail(c) PROVE UNCHANGED tables
  BY <1>6 DEF Refuse, Fail, tables
<1>7. ASSUME NEW c \in Calls, ReplacePermissions(c) PROVE RowsStay /\ NewRolesCustom
  BY <1>7 DEF ReplacePermissions, RowsStay, NewRolesCustom, RoleExists, UserExists
<1>8. ASSUME NEW c \in Calls, Step(c), ~InsertRole(c), ~WriteRole(c), ~DeleteRole(c),
             ~ReplacePermissions(c), ~InsertUser(c), ~WriteUser(c), ~DeleteUser(c)
      PROVE  UNCHANGED tables
  BY <1>8 DEF Step, RolesStep, UsersStep, CheckNewRole, ReadRole, CheckCode, CountUsers,
     BeginReplace, CheckEmail, ReadUser, FindRoleByCode, Reading, Refuse, tables
<1>9. ASSUME NEW c \in Calls, NEW a \in Requests, Start(c, a) PROVE UNCHANGED tables
  BY <1>9 DEF Start, tables
<1>10. CASE UNCHANGED vars
  BY <1>10 DEF vars, RowsStay, NewRolesCustom, RoleExists, UserExists
<1> QED BY <1>1, <1>2, <1>3, <1>4, <1>5, <1>6, <1>7, <1>8, <1>9, <1>10 DEF Next

\* A code addresses one role, a custom role is addressed by its own name, and a
\* system role keeps its code, however updates overlap (create, updateRole).
THEOREM CodesAlwaysStand == Spec => []CodesStand
<1> DEFINE CodesKept == \A r \in RoleIds : RoleExists(r) /\ role[r].system => role[r].code = SeedRoles[r].code
<1>1. Init => CodesKept
  BY DEF Init, TablesInit, RoleExists
<1>2. IInv /\ CodesKept /\ [Next]_vars => CodesKept'
  <2> SUFFICES ASSUME IInv, CodesKept, [Next]_vars, NEW r \in RoleIds,
                      RoleExists(r)', role'[r].system
               PROVE  role'[r].code = SeedRoles[r].code
    BY DEF RoleExists
  <2>1. RowsStay /\ RoleExists(r)
    BY StepKeepsRows DEF NewRolesCustom
  <2> QED BY <2>1 DEF RowsStay
<1>3. IInv /\ CodesKept => CodesStand
  BY DEF IInv, CodesMatch, CodesStand
<1> HIDE DEF CodesKept
<1> QED BY <1>1, <1>2, <1>3, InvariantHolds, PTL DEF Spec

\* PATCH /users/:id writes the columns it was given and no other, whatever it
\* overlaps with (UsersService.update, softDelete).
THEOREM UserPatchesArePartial == Spec => UserPatchIsPartial
<1> DEFINE Partial(x) ==
      /\ user'[x].role # user[x].role =>
           \E c \in Calls : Changes(c, x, {"updateUser"}) /\ args[c].roleCode # Omitted
      /\ user'[x].active # user[x].active =>
           \E c \in Calls : \/ Changes(c, x, {"deleteUser"})
                            \/ Changes(c, x, {"updateUser"}) /\ args[c].active # Omitted
      /\ user'[x].email = user[x].email
<1>1. IInv /\ [Next]_vars => [\A x \in UserIds : UserExists(x) => Partial(x)]_vars
  <2> SUFFICES ASSUME IInv, Next, NEW x \in UserIds, UserExists(x) PROVE Partial(x)
    OBVIOUS
  <2>1. /\ TypeOK /\ user[x] \in UserRow
    BY RowsTyped DEF IInv
  <2>2. CASE UNCHANGED user
    BY <2>2
  <2>3. ASSUME NEW c \in Calls, InsertUser(c) PROVE UNCHANGED user \/ user'[x] = user[x]
    BY <2>1, <2>3 DEF InsertUser, Refuse, TypeOK
  <2>4. ASSUME NEW c \in Calls, WriteUser(c) PROVE Partial(x)
    <3>1. args[c].op = "updateUser" /\ pc[c] = "checked" /\ pc'[c] = "done"
      BY <2>1, <2>4 DEF WriteUser, At, Answer, Goto, TypeOK
    <3>2. CASE args[c].user # x
      BY <2>1, <2>4, <3>2 DEF WriteUser, TypeOK
    <3>3. CASE args[c].user = x
      <4>1. user'[x] = Patched(c, user[x], args[c])
        BY <2>1, <2>4, <3>3 DEF WriteUser, TypeOK
      <4>2. /\ user'[x].email = user[x].email
            /\ args[c].roleCode = Omitted => user'[x].role = user[x].role
            /\ args[c].active = Omitted => user'[x].active = user[x].active
        BY <2>1, <4>1 DEF Patched, UserRow
      <4> QED BY <3>1, <3>3, <4>2 DEF Changes
    <3> QED BY <3>2, <3>3
  <2>5. ASSUME NEW c \in Calls, DeleteUser(c) PROVE Partial(x)
    <3>1. args[c].op = "deleteUser" /\ pc[c] = "checked" /\ pc'[c] = "done"
      BY <2>1, <2>5 DEF DeleteUser, At, Answer, Goto, TypeOK
    <3>2. user'[x] = IF args[c].user = x
                       THEN [user[x] EXCEPT !.deleted = TRUE, !.active = FALSE]
                       ELSE user[x]
      BY <2>1, <2>5 DEF DeleteUser, TypeOK
    <3>3. user'[x].role = user[x].role /\ user'[x].email = user[x].email
          /\ (args[c].user # x => user'[x].active = user[x].active)
      BY <2>1, <3>2 DEF UserRow
    <3> QED BY <3>1, <3>3 DEF Changes
  <2>6. ASSUME NEW c \in Calls, Step(c), ~InsertUser(c), ~WriteUser(c), ~DeleteUser(c)
        PROVE  UNCHANGED user
    BY <2>6 DEF Step, RolesStep, UsersStep, CheckNewRole, InsertRole, ReadRole, CheckCode,
       WriteRole, CountUsers, DeleteRole, BeginReplace, ReplacePermissions, CheckEmail,
       ReadUser, FindRoleByCode, Reading, Refuse
  <2>7. ASSUME NEW c \in Calls, Fail(c) PROVE UNCHANGED user
    BY <2>7 DEF Fail
  <2>8. ASSUME NEW c \in Calls, NEW a \in Requests, Start(c, a) PROVE UNCHANGED user
    BY <2>8 DEF Start
  <2> QED BY <2>2, <2>3, <2>4, <2>5, <2>6, <2>7, <2>8 DEF Next
<1> QED BY <1>1, InvariantHolds, PTL DEF Spec, UserPatchIsPartial

----------------------------------------------------------------------------
(* Calls one after the other.                                              *)

OneAtATime == \A c, d \in InFlight : c = d

\* A role code given has been looked up.
GivesRole(a) == a.op = "createUser" \/ (a.op = "updateUser" /\ a.roleCode # Omitted)

\* What a call has checked still stands when it is about to write: nobody has
\* the role it deletes, and the role it gives is not deleted.
ChecksStand ==
  \A c \in Calls : pc[c] = "checked" =>
    /\ args[c].op = "deleteRole" => StillAssigned(args[c].role) = {}
    /\ GivesRole(args[c]) => ~role[seen[c].id].deleted

SerialInv == OneAtATime /\ ChecksStand /\ NoUserOnDeletedRole

\* A step of a handler, or its failure: the call was in flight, and is the only
\* one that moves.
LEMMA OneMoves ==
  ASSUME IInv, NEW c \in Calls, Step(c) \/ Fail(c)
  PROVE  pc[c] \in Running /\ \A k \in Calls \ {c} : pc'[k] = pc[k]
<1>1. CASE Fail(c)
  BY <1>1 DEF Fail, Answer, Goto, IInv, TypeOK
<1>2. CASE RolesStep(c)
  BY <1>2 DEF RolesStep, CheckNewRole, InsertRole, ReadRole, CheckCode, WriteRole, CountUsers,
     DeleteRole, BeginReplace, ReplacePermissions, At, Reading, Refuse, Answer, Goto, Running,
     IInv, TypeOK
<1>3. CASE UsersStep(c)
  BY <1>3 DEF UsersStep, CheckEmail, ReadUser, FindRoleByCode, InsertUser, WriteUser, DeleteUser,
     At, Reading, Refuse, Answer, Goto, Running, IInv, TypeOK
<1> QED BY <1>1, <1>2, <1>3 DEF Step

\* A call that starts where one call may be in flight starts alone.
LEMMA StartsAlone ==
  ASSUME IInv, Serial, WithinBounds
  PROVE  InFlight = {}
<1>1. IsFiniteSet(InFlight) /\ Cardinality(InFlight) < 1
  BY AccountsAssumption, FS_Subset DEF InFlight, WithinBounds, Serial
<1>2. Cardinality(InFlight) \in Nat
  BY <1>1, FS_CardinalityType
<1>3. Cardinality(InFlight) = 0
  BY <1>1, <1>2
<1> QED BY <1>1, <1>3, FS_EmptySet

\* The tables and the one call they matter to: a step that reads.
LEMMA ReadsAlone ==
  ASSUME IInv, SerialInv, NEW c \in Calls, pc[c] \in Running, Step(c) \/ Fail(c),
         UNCHANGED <<role, user>>, pc'[c] = "checked"
  PROVE  /\ args'[c] = args[c]
         /\ args[c].op = "deleteRole" => StillAssigned(args[c].role) = {}
         /\ GivesRole(args[c]) => ~role'[seen'[c].id].deleted
<1>1. CASE FindRoleByCode(c)
  <2> DEFINE found == LiveRolesCoded(args[c].roleCode)
  <2>1. found # {} /\ seen' = [seen EXCEPT ![c].id = CHOOSE r \in found : TRUE] /\ args' = args
        /\ args[c].op \in {"createUser", "updateUser"}
    BY <1>1 DEF FindRoleByCode, Refuse, Answer, Goto, Reading, IInv, TypeOK
  <2>2. (CHOOSE r \in found : TRUE) \in found
    BY <2>1
  <2>3. seen'[c].id = CHOOSE r \in found : TRUE
    BY <2>1 DEF IInv, TypeOK, Row
  <2>4. ~role'[seen'[c].id].deleted
    BY <2>2, <2>3 DEF LiveRolesCoded, LiveRole
  <2> QED BY <2>1, <2>4
<1>2. CASE CountUsers(c)
  BY <1>2 DEF GivesRole, CountUsers, At, Refuse, Answer, Goto, Reading, IInv, TypeOK
<1>3. CASE ReadUser(c)
  BY <1>3 DEF GivesRole, ReadUser, Refuse, Answer, Goto, Reading, IInv, TypeOK
<1>4. CASE ReadRole(c)
  <2>1. args[c].op \in RoleOps /\ args' = args
    BY <1>4 DEF ReadRole, Refuse, Reading
  <2>2. AfterRead(role[args[c].role], args[c]) = "checked"
    <3>1. \/ pc' = [pc EXCEPT ![c] = "refused"]
          \/ pc' = [pc EXCEPT ![c] = AfterRead(role[args[c].role], args[c])]
      BY <1>4 DEF ReadRole, Refuse, Answer, Goto, Reading
    <3> QED BY <3>1 DEF IInv, TypeOK
  <2>3. args[c].op = "updateRole"
    BY <2>2 DEF AfterRead
  <2> QED BY <2>1, <2>3 DEF GivesRole
<1>5. CASE \/ CheckNewRole(c) \/ CheckCode(c) \/ BeginReplace(c)
  BY <1>5 DEF GivesRole, CheckNewRole, CheckCode, BeginReplace, At, Refuse, Reading
<1>6. pc[c] \in Running /\ ~(\E how \in {"done", "refused", "failed"} : Answer(c, how))
  BY DEF Answer, Goto, IInv, TypeOK
<1>7. ~InsertRole(c) /\ ~WriteRole(c) /\ ~DeleteRole(c) /\ ~ReplacePermissions(c)
  BY <1>6 DEF InsertRole, WriteRole, DeleteRole, ReplacePermissions, Refuse
<1>8. ~CheckEmail(c) /\ ~InsertUser(c) /\ ~WriteUser(c) /\ ~DeleteUser(c) /\ ~Fail(c)
  BY <1>6 DEF CheckEmail, InsertUser, WriteUser, DeleteUser, Refuse, Fail, Reading, Goto, IInv, TypeOK
<1> QED BY <1>1, <1>2, <1>3, <1>4, <1>5, <1>7, <1>8 DEF Step, RolesStep, UsersStep

\* A step that writes users or roles ends its call, on what it has checked.
LEMMA WritesAlone ==
  ASSUME IInv, SerialInv, NEW c \in Calls, Step(c) \/ Fail(c)
  PROVE  /\ NoUserOnDeletedRole'
         /\ UNCHANGED <<role, user>> \/ pc'[c] \in {"done", "refused", "failed"}
<1>1. /\ TypeOK /\ Knows(c)
      /\ \A r \in RoleIds : RoleExists(r) <=> role[r] \in RoleRow
      /\ \A x \in UserIds : UserExists(x) <=> user[x] \in UserRow
  BY RowsTyped DEF IInv, CallsKnow
<1>2. ASSUME UNCHANGED <<role, user>> PROVE NoUserOnDeletedRole'
  BY <1>2 DEF SerialInv, NoUserOnDeletedRole, UserExists
<1>3. CASE Refuse(c) \/ Fail(c)
  BY <1>2, <1>3 DEF Refuse, Fail
<1>4. CASE InsertRole(c) /\ ~Refuse(c)
  <2>1. PICK r \in RoleIds : /\ ~RoleExists(r)
                             /\ role' = [role EXCEPT ![r] = Named(args[c])]
    BY <1>4 DEF InsertRole
  <2>2. Answer(c, "done") /\ user' = user
    BY <1>4 DEF InsertRole
  <2>3. \A q \in RoleIds : role'[q].deleted => role[q].deleted
    BY <1>1, <2>1 DEF TypeOK, Named
  <2>4. NoUserOnDeletedRole'
    BY <1>1, <2>2, <2>3 DEF SerialInv, NoUserOnDeletedRole, UserExists, UserRow
  <2> QED BY <1>1, <2>2, <2>4 DEF Answer, Goto, TypeOK
<1>5. CASE WriteRole(c) /\ ~Refuse(c)
  <2> DEFINE a == args[c]
             row == Updated(role[a.role], seen[c].row, a)
  <2>1. role' = [role EXCEPT ![a.role] = row] /\ Answer(c, "done") /\ user' = user
    BY <1>5 DEF WriteRole
  <2>2. a \in Requests /\ a.op = "updateRole" /\ UpdateKnows(c)
    BY <1>1, <1>5 DEF Knows, Running, WriteRole, At
  <2>3. a.role \in RoleIds /\ role[a.role] \in RoleRow
    BY <1>1, <2>2, RequestFields DEF UpdateKnows
  <2>4. row.deleted = role[a.role].deleted
    BY <2>3 DEF Updated, RoleRow
  <2> HIDE DEF row
  <2>5. \A q \in RoleIds : role'[q].deleted = role[q].deleted
    BY <1>1, <2>1, <2>3, <2>4 DEF TypeOK
  <2>6. NoUserOnDeletedRole'
    BY <1>1, <2>1, <2>5 DEF SerialInv, NoUserOnDeletedRole, UserExists, UserRow
  <2> QED BY <1>1, <2>1, <2>6 DEF Answer, Goto, TypeOK
<1>6. CASE DeleteRole(c)
  <2> DEFINE r == args[c].role
  <2>1. StillAssigned(r) = {}
    BY <1>6 DEF DeleteRole, At, SerialInv, ChecksStand, GivesRole
  <2>2. \A q \in RoleIds \ {r} : role'[q] = role[q]
    BY <1>1, <1>6 DEF DeleteRole, TypeOK
  <2>3. Answer(c, "done") /\ user' = user
    BY <1>6 DEF DeleteRole
  <2>4. NoUserOnDeletedRole'
    BY <1>1, <2>1, <2>2, <2>3
       DEF SerialInv, NoUserOnDeletedRole, StillAssigned, UserExists, UserRow
  <2> QED BY <1>1, <2>3, <2>4 DEF Answer, Goto, TypeOK
<1>7. CASE InsertUser(c) /\ ~Refuse(c)
  <2>1. PICK x \in UserIds :
          /\ ~UserExists(x)
          /\ user' = [user EXCEPT ![x] = [ email |-> args[c].email, role |-> seen[c].id,
                                           active |-> TRUE, deleted |-> FALSE ]]
    BY <1>7 DEF InsertUser
  <2>2. Answer(c, "done") /\ role' = role /\ ~role[seen[c].id].deleted
    BY <1>7 DEF InsertUser, At, SerialInv, ChecksStand, GivesRole
  <2>3. NoUserOnDeletedRole'
    BY <1>1, <2>1, <2>2 DEF TypeOK, SerialInv, NoUserOnDeletedRole, UserExists
  <2> QED BY <1>1, <2>2, <2>3 DEF Answer, Goto, TypeOK
<1>8. CASE WriteUser(c)
  <2> DEFINE a == args[c]
             row == Patched(c, user[a.user], a)
  <2>1. /\ user' = [user EXCEPT ![a.user] = row] /\ Answer(c, "done") /\ role' = role
        /\ a \in Requests /\ a.op = "updateUser" /\ UserExists(a.user)
        /\ a.roleCode # Omitted => ~role[seen[c].id].deleted
    BY <1>1, <1>8 DEF WriteUser, At, Knows, Running, SerialInv, ChecksStand, GivesRole
  <2>2. a.user \in UserIds /\ user[a.user] \in UserRow
    BY <1>1, <2>1, RequestFields
  <2>3. /\ row.deleted = user[a.user].deleted
        /\ row.role = IF a.roleCode = Omitted THEN user[a.user].role ELSE seen[c].id
    BY <2>2 DEF Patched, UserRow
  <2> HIDE DEF row
  <2>4. NoUserOnDeletedRole'
    BY <1>1, <2>1, <2>2, <2>3 DEF TypeOK, SerialInv, NoUserOnDeletedRole, UserExists
  <2> QED BY <1>1, <2>1, <2>4 DEF Answer, Goto, TypeOK
<1>9. CASE DeleteUser(c)
  <2>1. \A x \in UserIds : user'[x].deleted \/ user'[x] = user[x]
    <3>1. args[c].user \in UserIds /\ user[args[c].user] \in UserRow
      BY <1>1, <1>9, RequestFields DEF DeleteUser, At, Knows, Running
    <3> QED BY <1>1, <1>9, <3>1 DEF DeleteUser, TypeOK, UserRow
  <2>2. NoUserOnDeletedRole'
    BY <1>9, <2>1 DEF DeleteUser, SerialInv, NoUserOnDeletedRole, UserExists
  <2> QED BY <1>1, <1>9, <2>2 DEF DeleteUser, Answer, Goto, TypeOK
<1>10. CASE \/ CheckNewRole(c) \/ ReadRole(c) \/ CheckCode(c) \/ CountUsers(c)
            \/ BeginReplace(c) \/ ReplacePermissions(c)
            \/ CheckEmail(c) \/ ReadUser(c) \/ FindRoleByCode(c)
  BY <1>2, <1>3, <1>10
     DEF CheckNewRole, ReadRole, CheckCode, CountUsers, BeginReplace, ReplacePermissions,
         CheckEmail, ReadUser, FindRoleByCode, Reading
<1> QED BY <1>3, <1>4, <1>5, <1>6, <1>7, <1>8, <1>9, <1>10 DEF Step, RolesStep, UsersStep

\* With one call at a time, what it has checked it may rely on.
LEMMA SerialStepKeeps ==
  ASSUME IInv, Serial, SerialInv, NEW c \in Calls,
         \/ Step(c) \/ Fail(c)
         \/ \E a \in Requests : Start(c, a) /\ WithinBounds
  PROVE  SerialInv'
<1>1. \A k \in Calls \ {c} : pc'[k] = pc[k] /\ pc[k] \notin Running
  <2>1. CASE Step(c) \/ Fail(c)
    BY <2>1, OneMoves DEF SerialInv, OneAtATime, InFlight
  <2>2. CASE \E a \in Requests : Start(c, a) /\ WithinBounds
    BY <2>2, StartsAlone DEF InFlight, Start, Goto, IInv, TypeOK
  <2> QED BY <2>1, <2>2
<1>2. OneAtATime'
  BY <1>1 DEF OneAtATime, InFlight
<1>3. \A k \in Calls \ {c} : pc'[k] # "checked"
  BY <1>1 DEF Running
<1>4. CASE \E a \in Requests : Start(c, a)
  <2>1. pc'[c] # "checked" /\ UNCHANGED <<role, user>>
    BY <1>4 DEF Start, Goto, IInv, TypeOK
  <2> QED BY <1>2, <1>3, <2>1 DEF SerialInv, ChecksStand, NoUserOnDeletedRole, UserExists
<1>5. CASE Step(c) \/ Fail(c)
  <2>1. NoUserOnDeletedRole'
    BY <1>5, WritesAlone
  <2>2. ASSUME pc'[c] = "checked"
        PROVE  /\ UNCHANGED <<role, user>> /\ args'[c] = args[c]
               /\ args[c].op = "deleteRole" => StillAssigned(args[c].role) = {}
               /\ GivesRole(args[c]) => ~role'[seen'[c].id].deleted
    BY <1>5, <2>2, OneMoves, WritesAlone, ReadsAlone
  <2>3. ChecksStand'
    BY <1>3, <2>2 DEF ChecksStand, StillAssigned, UserExists
  <2> QED BY <1>2, <2>1, <2>3 DEF SerialInv
<1> QED BY <1>4, <1>5

\* softDelete of a role and every assignment of one, for any tables: as long as
\* one call is handled at a time no user who is not deleted has a deleted role.
THEOREM NobodyOnDeletedRoleAlone == MCSpec => []NoUserOnDeletedRoleSerially
<1> DEFINE Inv == IInv /\ (Serial => SerialInv)
<1>1. MCInit => Inv
  <2>1. Init => SerialInv
    BY AccountsAssumption
       DEF Init, TablesInit, CallsInit, SerialInv, OneAtATime, InFlight, Running, ChecksStand,
           NoUserOnDeletedRole, UserExists
  <2> QED BY <2>1, InitEstablishes DEF MCInit
<1>2. [MCNext]_mcVars => [Next]_vars /\ bounds' = bounds
  BY DEF MCNext, mcVars, vars, Next, Step, RolesStep, UsersStep
<1>3. Inv /\ [MCNext]_mcVars => Inv'
  <2> SUFFICES ASSUME Inv, [MCNext]_mcVars PROVE Inv'
    OBVIOUS
  <2>1. IInv'
    BY <1>2, StepKeeps
  <2>2. Serial' => Serial
    BY <1>2 DEF Serial
  <2>3. CASE UNCHANGED vars
    BY <2>1, <2>2, <2>3
       DEF vars, SerialInv, OneAtATime, InFlight, ChecksStand, StillAssigned, NoUserOnDeletedRole,
           UserExists
  <2>4. CASE \E c \in Calls : \/ Step(c) \/ Fail(c)
                             \/ \E a \in Requests : Start(c, a) /\ WithinBounds
    BY <2>1, <2>2, <2>4, SerialStepKeeps
  <2> QED BY <2>3, <2>4 DEF MCNext, mcVars, Step, RolesStep, UsersStep
<1>4. Inv => NoUserOnDeletedRoleSerially
  BY DEF NoUserOnDeletedRoleSerially, SerialInv
<1> QED BY <1>1, <1>3, <1>4, PTL DEF MCSpec

----------------------------------------------------------------------------
(* The conversions of texts.  What they say of a text of any length needs   *)
(* no induction: a text without its separators is known by the positions   *)
(* that stand, listed in order, and two such lists of one set are one.     *)

\* f lists the members of S, a set of numbers, in order.
InOrder(f, n, S) ==
  /\ f \in [1 .. n -> S]
  /\ \A j, k \in 1 .. n : j < k => f[j] < f[k]
  /\ \A i \in S : \E k \in 1 .. n : f[k] = i

LEMMA OrderIsRank ==
  ASSUME NEW S \in SUBSET Nat, NEW n \in Nat, NEW f, InOrder(f, n, S)
  PROVE  /\ Cardinality(S) = n
         /\ \A k \in 1 .. n : \A i \in S : Rank(S, i) = k <=> i = f[k]
<1>1. /\ f \in [1 .. n -> S]
      /\ \A j, k \in 1 .. n : j < k => f[j] < f[k]
      /\ \A i \in S : \E k \in 1 .. n : f[k] = i
  BY DEF InOrder
<1>a. \A k \in 1 .. n : f[k] \in S /\ f[k] \in Nat
  BY <1>1
<1>2. ASSUME NEW k \in 0 .. n, NEW T, T = { i \in S : \E m \in 1 .. k : f[m] = i }
      PROVE  Cardinality(T) = k
  <2> DEFINE g == [m \in 1 .. k |-> f[m]]
  <2>1. g \in [1 .. k -> T]
    BY <1>1, <1>2
  <2>2. \A x, y \in 1 .. k : g[x] = g[y] => x = y
    <3> SUFFICES ASSUME NEW x \in 1 .. k, NEW y \in 1 .. k, f[x] = f[y] PROVE x = y
      OBVIOUS
    <3>1. x \in 1 .. n /\ y \in 1 .. n /\ f[x] \in Nat
      BY <1>a
    <3> QED BY <1>1, <3>1
  <2>3. \A i \in T : \E m \in 1 .. k : g[m] = i
    BY <1>2
  <2>4. g \in Bijection(1 .. k, T)
    BY <2>1, <2>2, <2>3 DEF Bijection, Injection, Surjection, IsInjective
  <2> QED BY <2>4, FS_CountingElements DEF ExistsBijection
<1>3. Cardinality(S) = n
  <2>1. S = { i \in S : \E m \in 1 .. n : f[m] = i }
    BY <1>1
  <2> QED BY <1>2, <2>1
<1>4. ASSUME NEW k \in 1 .. n
      PROVE  Rank(S, f[k]) = k
  <2>1. { j \in S : j <= f[k] } = { i \in S : \E m \in 1 .. k : f[m] = i }
    <3>1. ASSUME NEW j \in S, j <= f[k]
          PROVE  \E m \in 1 .. k : f[m] = j
      <4> PICK m \in 1 .. n : f[m] = j
        BY <1>1
      <4> f[m] \in Nat /\ f[k] \in Nat
        BY <1>a
      <4> ~(k < m)
        BY <1>1, <3>1
      <4> QED OBVIOUS
    <3>2. ASSUME NEW m \in 1 .. k
          PROVE  f[m] \in S /\ f[m] <= f[k]
      <4> m \in 1 .. n /\ (m = k \/ m < k)
        OBVIOUS
      <4> f[m] \in S /\ f[m] \in Nat /\ f[k] \in Nat
        BY <1>a
      <4> QED BY <1>1
    <3> QED BY <3>1, <3>2
  <2> QED BY <1>2, <2>1 DEF Rank
<1>5. ASSUME NEW k \in 1 .. n, NEW i \in S
      PROVE  Rank(S, i) = k <=> i = f[k]
  <2> PICK m \in 1 .. n : f[m] = i
    BY <1>1
  <2> QED BY <1>4
<1> QED BY <1>3, <1>5

LEMMA RankIsOrder ==
  ASSUME NEW S \in SUBSET Nat, IsFiniteSet(S)
  PROVE  Cardinality(S) \in Nat /\ \E f : InOrder(f, Cardinality(S), S)
<1> DEFINE n == Cardinality(S)
           UpTo(i) == { j \in S : j <= i }
           r == [i \in S |-> Rank(S, i)]
<1>0. n \in Nat
  BY FS_CardinalityType
<1>1. ASSUME NEW i \in S
      PROVE  IsFiniteSet(UpTo(i)) /\ Rank(S, i) \in 1 .. n
  <2>1. UpTo(i) \in SUBSET S /\ i \in UpTo(i)
    OBVIOUS
  <2>2. IsFiniteSet(UpTo(i)) /\ Cardinality(UpTo(i)) <= n
    BY <2>1, FS_Subset
  <2>3. Cardinality(UpTo(i)) \in Nat /\ Cardinality(UpTo(i)) # 0
    BY <2>1, <2>2, FS_CardinalityType, FS_EmptySet
  <2> HIDE DEF n
  <2> QED BY <1>0, <2>2, <2>3 DEF Rank
<1>2. ASSUME NEW i \in S, NEW j \in S, i < j
      PROVE  Rank(S, i) < Rank(S, j)
  <2> i \in Nat /\ j \in Nat /\ (\A m \in S : m \in Nat)
    OBVIOUS
  <2>a. \A m \in UpTo(i) : m \in S /\ m <= j
    BY <1>2
  <2>b. j \in UpTo(j) /\ j \notin UpTo(i)
    BY <1>2
  <2>1. UpTo(i) \in SUBSET UpTo(j) /\ j \in UpTo(j) /\ j \notin UpTo(i)
    BY <2>a, <2>b
  <2>0. IsFiniteSet(UpTo(i)) /\ IsFiniteSet(UpTo(j))
    BY <1>1
  <2> HIDE DEF UpTo
  <2>2. /\ Cardinality(UpTo(i)) <= Cardinality(UpTo(j))
        /\ Cardinality(UpTo(i)) # Cardinality(UpTo(j))
    BY <2>0, <2>1, FS_Subset
  <2>3. Cardinality(UpTo(i)) \in Nat /\ Cardinality(UpTo(j)) \in Nat
    BY <2>0, FS_CardinalityType
  <2>4. Cardinality(UpTo(i)) < Cardinality(UpTo(j))
    BY <2>2, <2>3
  <2> QED BY <2>4 DEF Rank, UpTo
<1>3. r \in Injection(S, 1 .. n)
  <2>1. r \in [S -> 1 .. n]
    BY <1>1
  <2>2. ASSUME NEW i \in S, NEW j \in S, r[i] = r[j]
        PROVE  i = j
    <3> Rank(S, i) = Rank(S, j) /\ i \in Nat /\ j \in Nat
      BY <2>2
    <3> HIDE DEF n
    <3> Rank(S, i) \in 1 .. n /\ Rank(S, j) \in 1 .. n
      BY <1>1
    <3>1. ~(i < j) /\ ~(j < i)
      BY <1>2
    <3> QED BY <3>1
  <2> QED BY <2>1, <2>2 DEF Injection, IsInjective
<1>4. r \in Surjection(S, 1 .. n)
  <2>1. IsFiniteSet(1 .. n) /\ Cardinality(1 .. n) = n
    <3> HIDE DEF n
    <3> QED BY <1>0, FS_Interval
  <2> QED BY <1>3, <2>1, FS_Injection
<1> DEFINE f == [k \in 1 .. n |-> CHOOSE i \in S : r[i] = k]
<1>5. ASSUME NEW k \in 1 .. n
      PROVE  f[k] \in S /\ Rank(S, f[k]) = k
  <2> \E i \in S : r[i] = k
    BY <1>4 DEF Surjection
  <2> QED OBVIOUS
<1>6. ASSUME NEW i \in S
      PROVE  f[Rank(S, i)] = i
  <2>1. Rank(S, i) \in 1 .. n
    BY <1>1
  <2>2. f[Rank(S, i)] \in S /\ r[f[Rank(S, i)]] = r[i]
    BY <1>5, <2>1
  <2> QED BY <1>3, <2>2 DEF Injection, IsInjective
<1>7. ASSUME NEW j \in 1 .. n, NEW k \in 1 .. n, j < k
      PROVE  f[j] < f[k]
  <2> HIDE DEF f, n
  <2> /\ f[j] \in S /\ f[j] \in Nat
      /\ f[k] \in S /\ f[k] \in Nat
    BY <1>5
  <2> Rank(S, f[j]) = j /\ Rank(S, f[k]) = k
    BY <1>5
  <2> j \in Int /\ k \in Int /\ f[j] # f[k]
    BY <1>0, <1>7
  <2>1. ~(f[k] < f[j])
    BY <1>2, <1>7
  <2> QED BY <2>1
<1>8. InOrder(f, n, S)
  <2> f \in [1 .. n -> S]
    BY <1>5
  <2> HIDE DEF f
  <2> QED BY <1>1, <1>6, <1>7 DEF InOrder
<1> QED BY <1>0, <1>8

\* A set of numbers that ends has a first and a last.
LEMMA Ends ==
  ASSUME NEW S \in SUBSET Nat, IsFiniteSet(S), S # {}
  PROVE  \E a, b \in S : \A i \in S : a <= i /\ i <= b
<1> DEFINE n == Cardinality(S)
<1>1. n \in Nat /\ n # 0
  BY FS_CardinalityType, FS_EmptySet
<1>2. PICK f : InOrder(f, n, S)
  BY RankIsOrder
<1> HIDE DEF n
<1>3. 1 \in 1 .. n /\ n \in 1 .. n
  BY <1>1
<1>a. /\ f[1] \in S /\ f[1] \in Nat
      /\ f[n] \in S /\ f[n] \in Nat
  BY <1>2, <1>3 DEF InOrder
<1>4. ASSUME NEW i \in S
      PROVE  f[1] <= i /\ i <= f[n]
  <2> PICK k \in 1 .. n : f[k] = i
    BY <1>2 DEF InOrder
  <2>1. (k = 1 \/ 1 < k) /\ (k = n \/ k < n)
    BY <1>1
  <2> QED BY <1>2, <1>3, <1>a, <2>1 DEF InOrder
<1> QED BY <1>a, <1>4

\* What the character at a position that stands becomes.
Mark(keep, sep, ch) == IF ch \in keep THEN ch ELSE sep

\* The characters of `keep' in s, and what stands between two of them.
Kept(keep, s) == { i \in DOMAIN s : s[i] \in keep }

Between(keep, s) ==
  { i \in Standing(keep, s) : \E a, b \in Kept(keep, s) : a <= i /\ i <= b }

LEMMA Positions ==
  ASSUME NEW keep, NEW s \in Seq(Chars)
  PROVE  /\ DOMAIN s = 1 .. Len(s) /\ Len(s) \in Nat
         /\ Kept(keep, s) \in SUBSET Nat /\ IsFiniteSet(Kept(keep, s))
         /\ Standing(keep, s) \in SUBSET Nat /\ IsFiniteSet(Standing(keep, s))
         /\ Between(keep, s) \in SUBSET Nat /\ IsFiniteSet(Between(keep, s))
         /\ Kept(keep, s) \subseteq Between(keep, s)
<1>1. DOMAIN s = 1 .. Len(s) /\ Len(s) \in Nat
  OBVIOUS
<1>2. IsFiniteSet(1 .. Len(s))
  BY <1>1, FS_Interval
<1>3. /\ Kept(keep, s) \in SUBSET (1 .. Len(s))
      /\ Standing(keep, s) \in SUBSET (1 .. Len(s))
      /\ Between(keep, s) \in SUBSET (1 .. Len(s))
  BY <1>1 DEF Kept, Standing, Between
<1>4. Kept(keep, s) \subseteq Between(keep, s)
  <2> SUFFICES ASSUME NEW i \in Kept(keep, s)
               PROVE  i \in Standing(keep, s) /\ i <= i
    BY DEF Between
  <2> QED BY <1>3 DEF Kept, Standing
<1> QED BY <1>1, <1>2, <1>3, <1>4, FS_Subset

LEMMA SeparatedInOrder ==
  ASSUME NEW keep, NEW sep, NEW s \in Seq(Chars),
         NEW n \in Nat, NEW f, InOrder(f, n, Standing(keep, s))
  PROVE  Separated(keep, sep, s) = [k \in 1 .. n |-> Mark(keep, sep, s[f[k]])]
<1> DEFINE standing == Standing(keep, s)
           at == [k \in 1 .. n |-> CHOOSE j \in standing : Rank(standing, j) = k]
<1>1. standing \in SUBSET Nat /\ InOrder(f, n, standing)
  BY Positions
<1> HIDE DEF standing
<1>2. /\ Cardinality(standing) = n
      /\ \A k \in 1 .. n : \A i \in standing : Rank(standing, i) = k <=> i = f[k]
  BY <1>1, OrderIsRank
<1>3. ASSUME NEW k \in 1 .. n
      PROVE  at[k] = f[k]
  <2> f[k] \in standing
    BY <1>1 DEF InOrder
  <2> \A j \in standing : Rank(standing, j) = k <=> j = f[k]
    BY <1>2
  <2> QED OBVIOUS
<1>4. Separated(keep, sep, s) = [k \in 1 .. n |-> Mark(keep, sep, s[at[k]])]
  BY <1>2 DEF Separated, Mark, standing
<1> HIDE DEF at
<1> QED BY <1>3, <1>4

LEMMA StripBetween ==
  ASSUME NEW out, NEW T, NEW s \in Seq(T), NEW a \in DOMAIN s, NEW b \in DOMAIN s,
         s[a] \notin out, s[b] \notin out,
         \A i \in DOMAIN s : s[i] \notin out => a <= i /\ i <= b
  PROVE  Strip(out, s) = SubSeq(s, a, b)
<1> DEFINE inner == { i \in DOMAIN s : s[i] \notin out }
<1>1. a \in inner /\ b \in inner /\ inner # {} /\ (\A i \in inner : i \in Nat)
  OBVIOUS
<1>2. (CHOOSE i \in inner : \A j \in inner : i <= j) = a
  <2> \A i \in inner : (\A j \in inner : i <= j) <=> i = a
    BY <1>1
  <2> HIDE DEF inner
  <2> QED BY <1>1
<1>3. (CHOOSE i \in inner : \A j \in inner : i >= j) = b
  <2> \A i \in inner : (\A j \in inner : i >= j) <=> i = b
    BY <1>1
  <2> HIDE DEF inner
  <2> QED BY <1>1
<1> QED BY <1>1, <1>2, <1>3 DEF Strip

LEMMA OneOrder ==
  ASSUME NEW S \in SUBSET Nat, NEW n \in Nat, NEW m \in Nat, NEW f, NEW g,
         InOrder(f, n, S), InOrder(g, m, S)
  PROVE  n = m /\ f = g
<1>1. n = m
  BY OrderIsRank
<1>2. /\ \A k \in 1 .. n : \A i \in S : Rank(S, i) = k <=> i = f[k]
      /\ \A k \in 1 .. n : \A i \in S : Rank(S, i) = k <=> i = g[k]
  BY <1>1, OrderIsRank
<1>3. ASSUME NEW k \in 1 .. n
      PROVE  f[k] = g[k]
  BY <1>1, <1>2 DEF InOrder
<1> QED BY <1>1, <1>3 DEF InOrder

\* The text spelt with the characters of `keep' and one separator for what is
\* between them.
Spelt(keep, sep, s) == Strip({sep}, Separated(keep, sep, s))

LEMMA SpeltInOrder ==
  ASSUME NEW keep, NEW sep, sep \notin keep, NEW s \in Seq(Chars),
         NEW n \in Nat, NEW f, InOrder(f, n, Between(keep, s))
  PROVE  Spelt(keep, sep, s) = [k \in 1 .. n |-> Mark(keep, sep, s[f[k]])]
<1> DEFINE kept == Kept(keep, s)
           standing == Standing(keep, s)
           between == Between(keep, s)
           out == Separated(keep, sep, s)
<1>1. /\ DOMAIN s = 1 .. Len(s) /\ Len(s) \in Nat
      /\ kept \in SUBSET Nat /\ IsFiniteSet(kept)
      /\ standing \in SUBSET Nat /\ IsFiniteSet(standing)
      /\ between \in SUBSET Nat /\ IsFiniteSet(between)
  BY Positions
<1>2. /\ kept \subseteq standing
      /\ \A i \in standing : i \in kept <=> s[i] \in keep
      /\ \A i \in between : i \in standing /\ \E a, b \in kept : a <= i /\ i <= b
      /\ \A i \in standing : \A a, b \in kept : a <= i /\ i <= b => i \in between
  BY DEF Kept, Standing, Between
<1> PICK m \in Nat : \E g : InOrder(g, m, standing)
  BY <1>1, RankIsOrder
<1> PICK g : InOrder(g, m, standing)
  OBVIOUS
<1>3. /\ \A k \in 1 .. m : g[k] \in standing /\ g[k] \in Nat
      /\ \A j, k \in 1 .. m : j < k => g[j] < g[k]
      /\ \A i \in standing : \E k \in 1 .. m : g[k] = i
  BY <1>1 DEF InOrder
<1>4. out = [k \in 1 .. m |-> Mark(keep, sep, s[g[k]])]
  BY SeparatedInOrder
<1>5. /\ out \in Seq(Chars \cup {sep}) /\ Len(out) = m /\ DOMAIN out = 1 .. m
      /\ \A k \in 1 .. m : out[k] # sep <=> g[k] \in kept
  <2> HIDE DEF standing, kept
  <2>1. ASSUME NEW k \in 1 .. m
        PROVE  /\ out[k] \in Chars \cup {sep}
               /\ out[k] # sep <=> g[k] \in kept
    <3> g[k] \in DOMAIN s
      BY <1>3 DEF standing, Standing
    <3> s[g[k]] \in Chars
      OBVIOUS
    <3> QED BY <1>2, <1>3, <1>4 DEF Mark
  <2> HIDE DEF out
  <2>2. out \in [1 .. m -> Chars \cup {sep}]
    BY <1>4, <2>1
  <2> QED BY <2>1, <2>2
<1> HIDE DEF kept, standing, between, out
<1>6. CASE kept = {}
  <2>1. n = 0
    <3> between = {}
      BY <1>2, <1>6
    <3> 1 \notin 1 .. n
      BY DEF InOrder, between
    <3> QED OBVIOUS
  <2>2. { i \in DOMAIN out : out[i] \notin {sep} } = {}
    BY <1>5, <1>6
  <2>3. Spelt(keep, sep, s) = << >>
    BY <2>2 DEF Spelt, Strip, out
  <2> QED BY <2>1, <2>3
<1>7. CASE kept # {}
  <2> PICK a \in kept, b \in kept : \A i \in kept : a <= i /\ i <= b
    BY <1>1, <1>7, Ends
  <2> a \in Nat /\ b \in Nat /\ a <= b
    BY <1>1
  <2> PICK p \in 1 .. m : g[p] = a
    BY <1>2, <1>3
  <2> PICK q \in 1 .. m : g[q] = b
    BY <1>2, <1>3
  <2>1. p <= q
    BY <1>3
  <2>2. Spelt(keep, sep, s) = SubSeq(out, p, q)
    <3>1. ASSUME NEW k \in DOMAIN out, out[k] \notin {sep}
          PROVE  p <= k /\ k <= q
      <4> k \in 1 .. m /\ a <= g[k] /\ g[k] <= b /\ g[k] \in Nat
        BY <1>3, <1>5, <3>1
      <4> ~(k < p) /\ ~(q < k)
        BY <1>3
      <4> QED OBVIOUS
    <3>2. /\ p \in DOMAIN out /\ out[p] \notin {sep}
          /\ q \in DOMAIN out /\ out[q] \notin {sep}
      BY <1>5
    <3> QED BY <1>5, <3>1, <3>2, StripBetween DEF Spelt, out
  <2> DEFINE h == [k \in 1 .. q - p + 1 |-> g[k + p - 1]]
  <2>3. \A k \in 1 .. q - p + 1 : k + p - 1 \in 1 .. m /\ p <= k + p - 1 /\ k + p - 1 <= q
    BY <2>1
  <2>4. InOrder(h, q - p + 1, between)
    <3>1. ASSUME NEW k \in 1 .. q - p + 1
          PROVE  h[k] \in between
      <4> DEFINE l == k + p - 1
      <4>1. l \in 1 .. m /\ (p = l \/ p < l) /\ (l = q \/ l < q)
        BY <2>3
      <4> HIDE DEF l
      <4>2. a <= g[l] /\ g[l] <= b /\ g[l] \in standing
        BY <1>3, <4>1
      <4>3. g[l] \in between
        BY <1>2, <4>2
      <4> QED BY <4>3 DEF l
    <3>2. ASSUME NEW j \in 1 .. q - p + 1, NEW k \in 1 .. q - p + 1, j < k
          PROVE  h[j] < h[k]
      <4> j + p - 1 < k + p - 1
        BY <3>2
      <4> QED BY <1>3, <2>3
    <3>3. ASSUME NEW i \in between
          PROVE  \E k \in 1 .. q - p + 1 : h[k] = i
      <4> PICK l \in 1 .. m : g[l] = i
        BY <1>2, <1>3
      <4> PICK x \in kept, y \in kept : x <= i /\ i <= y
        BY <1>2
      <4> x \in Nat /\ y \in Nat /\ i \in Nat /\ a <= x /\ y <= b
        BY <1>1
      <4> a <= i /\ i <= b
        OBVIOUS
      <4> ~(l < p) /\ ~(q < l)
        BY <1>3
      <4> l - p + 1 \in 1 .. q - p + 1 /\ h[l - p + 1] = i
        OBVIOUS
      <4> QED OBVIOUS
    <3> HIDE DEF h
    <3> DOMAIN h = 1 .. q - p + 1 /\ h \in [1 .. q - p + 1 -> between]
      BY <3>1 DEF h
    <3> QED BY <3>2, <3>3 DEF InOrder
  <2>5. n = q - p + 1 /\ f = h
    <3> q - p + 1 \in Nat /\ InOrder(f, n, between)
      BY <2>1 DEF between
    <3> HIDE DEF h
    <3> QED BY <1>1, <2>4, OneOrder
  <2>6. SubSeq(out, p, q) = [k \in 1 .. q - p + 1 |-> out[k + p - 1]]
    BY <1>5, <2>1
  <2> QED BY <1>4, <2>2, <2>3, <2>5, <2>6
<1> QED BY <1>6, <1>7

LEMMA BetweenKept ==
  ASSUME NEW keep, NEW s \in Seq(Chars), NEW i \in Int
  PROVE  i \in Between(keep, s) <=>
           \/ i \in Kept(keep, s)
           \/ /\ i - 1 \in Kept(keep, s) /\ i \notin Kept(keep, s)
              /\ \E b \in Kept(keep, s) : i <= b
<1>1. DOMAIN s = 1 .. Len(s) /\ Len(s) \in Nat
  BY Positions
<1>2. ASSUME i \in Between(keep, s), i \notin Kept(keep, s)
      PROVE  /\ i - 1 \in Kept(keep, s)
             /\ \E b \in Kept(keep, s) : i <= b
  <2> PICK a \in Kept(keep, s), b \in Kept(keep, s) : a <= i /\ i <= b
    BY <1>2 DEF Between
  <2> a \in 1 .. Len(s) /\ a # i
    BY <1>1, <1>2 DEF Kept
  <2> i \in DOMAIN s /\ s[i] \notin keep /\ (i = 1 \/ s[i - 1] \in keep)
    BY <1>2 DEF Between, Standing, Kept
  <2> i # 1 /\ i - 1 \in DOMAIN s
    BY <1>1
  <2> QED BY DEF Kept
<1>3. ASSUME i - 1 \in Kept(keep, s), NEW b \in Kept(keep, s), i <= b
      PROVE  i \in Between(keep, s)
  <2>1. i - 1 \in 1 .. Len(s) /\ b \in 1 .. Len(s) /\ s[i - 1] \in keep
    BY <1>1, <1>3 DEF Kept
  <2>2. i \in DOMAIN s /\ i - 1 <= i
    BY <1>1, <1>3, <2>1
  <2>3. i \in Standing(keep, s)
    BY <2>1, <2>2 DEF Standing
  <2> QED BY <1>3, <2>2, <2>3 DEF Between
<1>4. i \in Kept(keep, s) => i \in Between(keep, s)
  BY Positions
<1> QED BY <1>2, <1>3, <1>4

\* Only the characters of `keep' count, and whether something stands between
\* them: not where they are, and not what it is.
LEMMA SameSpelling ==
  ASSUME NEW keep, NEW sep, sep \notin keep,
         NEW s \in Seq(Chars), NEW t \in Seq(Chars), NEW d \in Int,
         \A i \in Kept(keep, s) : i + d \in Kept(keep, t) /\ t[i + d] = s[i],
         \A j \in Kept(keep, t) : j - d \in Kept(keep, s)
  PROVE  Spelt(keep, sep, s) = Spelt(keep, sep, t)
<1> DEFINE n == Cardinality(Between(keep, s))
<1>1. /\ Between(keep, s) \in SUBSET Nat /\ IsFiniteSet(Between(keep, s))
      /\ Between(keep, t) \in SUBSET Nat
      /\ \A i \in Kept(keep, s) : i \in Nat
      /\ \A i \in Kept(keep, t) : i \in Nat
  BY Positions
<1> n \in Nat
  BY <1>1, RankIsOrder
<1> PICK f : InOrder(f, n, Between(keep, s))
  BY <1>1, RankIsOrder
<1> HIDE DEF n
<1>2. /\ \A k \in 1 .. n : f[k] \in Between(keep, s) /\ f[k] \in Nat
      /\ \A j, k \in 1 .. n : j < k => f[j] < f[k]
      /\ \A i \in Between(keep, s) : \E k \in 1 .. n : f[k] = i
  BY <1>1 DEF InOrder
<1>3. ASSUME NEW i \in Int
      PROVE  i \in Kept(keep, s) <=> i + d \in Kept(keep, t)
  <2> i + d \in Kept(keep, t) => (i + d) - d \in Kept(keep, s)
    OBVIOUS
  <2> (i + d) - d = i
    OBVIOUS
  <2> QED OBVIOUS
<1>4. ASSUME NEW i \in Int
      PROVE  i \in Between(keep, s) <=> i + d \in Between(keep, t)
  <2>1. i - 1 \in Kept(keep, s) <=> (i + d) - 1 \in Kept(keep, t)
    <3> (i - 1) + d = (i + d) - 1 /\ i - 1 \in Int
      OBVIOUS
    <3> QED BY <1>3
  <2>2. (\E b \in Kept(keep, s) : i <= b) <=> (\E b \in Kept(keep, t) : i + d <= b)
    <3>1. ASSUME NEW b \in Kept(keep, s), i <= b
          PROVE  b + d \in Kept(keep, t) /\ i + d <= b + d
      BY <1>1, <3>1
    <3>2. ASSUME NEW b \in Kept(keep, t), i + d <= b
          PROVE  b - d \in Kept(keep, s) /\ i <= b - d
      BY <1>1, <3>2
    <3> QED BY <3>1, <3>2
  <2>3. i \in Between(keep, s) <=>
          \/ i \in Kept(keep, s)
          \/ /\ i - 1 \in Kept(keep, s) /\ i \notin Kept(keep, s)
             /\ \E b \in Kept(keep, s) : i <= b
    BY BetweenKept
  <2>4. i + d \in Between(keep, t) <=>
          \/ i + d \in Kept(keep, t)
          \/ /\ (i + d) - 1 \in Kept(keep, t) /\ i + d \notin Kept(keep, t)
             /\ \E b \in Kept(keep, t) : i + d <= b
    <3> i + d \in Int
      OBVIOUS
    <3> QED BY BetweenKept
  <2> QED BY <1>3, <2>1, <2>2, <2>3, <2>4
<1> DEFINE g == [k \in 1 .. n |-> f[k] + d]
<1>5. InOrder(g, n, Between(keep, t))
  <2>1. ASSUME NEW k \in 1 .. n
        PROVE  g[k] \in Between(keep, t)
    <3> f[k] \in Between(keep, s) /\ f[k] \in Int
      BY <1>2
    <3> QED BY <1>4
  <2>2. ASSUME NEW j \in 1 .. n, NEW k \in 1 .. n, j < k
        PROVE  g[j] < g[k]
    BY <1>2, <2>2
  <2>3. ASSUME NEW i \in Between(keep, t)
        PROVE  \E k \in 1 .. n : g[k] = i
    <3> i \in Int /\ i - d \in Int /\ (i - d) + d = i
      BY <1>1
    <3> i - d \in Between(keep, s)
      BY <1>4
    <3> QED BY <1>2
  <2> g \in [1 .. n -> Between(keep, t)]
    BY <2>1
  <2> HIDE DEF g
  <2> QED BY <2>1, <2>2, <2>3 DEF InOrder
<1>6. ASSUME NEW k \in 1 .. n
      PROVE  Mark(keep, sep, s[f[k]]) = Mark(keep, sep, t[g[k]])
  <2>1. /\ f[k] \in DOMAIN s /\ g[k] \in DOMAIN t
        /\ f[k] \in Int /\ g[k] = f[k] + d
    <3>1. f[k] \in Between(keep, s) /\ g[k] \in Between(keep, t) /\ f[k] \in Nat
      BY <1>2, <1>5 DEF InOrder
    <3> QED BY <3>1 DEF Between, Standing
  <2>2. /\ f[k] \in Kept(keep, s) <=> s[f[k]] \in keep
        /\ g[k] \in Kept(keep, t) <=> t[g[k]] \in keep
    BY <2>1 DEF Kept
  <2>3. f[k] \in Kept(keep, s) <=> g[k] \in Kept(keep, t)
    BY <1>3, <2>1
  <2>4. f[k] \in Kept(keep, s) => t[g[k]] = s[f[k]]
    BY <2>1
  <2> QED BY <2>2, <2>3, <2>4 DEF Mark
<1> HIDE DEF g
<1>7. Spelt(keep, sep, s) = [k \in 1 .. n |-> Mark(keep, sep, s[f[k]])]
  BY SpeltInOrder
<1>8. Spelt(keep, sep, t) = [k \in 1 .. n |-> Mark(keep, sep, t[g[k]])]
  BY <1>5, SpeltInOrder
<1> QED BY <1>6, <1>7, <1>8

\* Characters of `keep' at both ends, and one separator at a time between.
InForm(keep, sep, code) ==
  /\ code \in Seq(keep \cup {sep})
  /\ code # << >> => code[1] \in keep /\ code[Len(code)] \in keep
  /\ \A i \in 1 .. Len(code) - 1 : code[i] = sep => code[i + 1] # sep

LEMMA FormIsText ==
  ASSUME NEW keep, NEW sep, keep \cup {sep} \subseteq Chars,
         NEW code, InForm(keep, sep, code)
  PROVE  /\ code \in Seq(keep \cup {sep}) /\ code \in Seq(Chars)
         /\ DOMAIN code = 1 .. Len(code) /\ Len(code) \in Nat
         /\ \A i \in 1 .. Len(code) : code[i] \in keep \cup {sep}
         /\ code = [i \in 1 .. Len(code) |-> code[i]]
<1>1. code \in Seq(keep \cup {sep})
  BY DEF InForm
<1>2. /\ code \in [1 .. Len(code) -> keep \cup {sep}] /\ Len(code) \in Nat
      /\ DOMAIN code = 1 .. Len(code)
  BY <1>1, LenProperties
<1> QED BY <1>1, <1>2, SeqMonotonic

LEMMA SpeltIsInForm ==
  ASSUME NEW keep, NEW sep, sep \notin keep, NEW s \in Seq(Chars)
  PROVE  /\ InForm(keep, sep, Spelt(keep, sep, s))
         /\ Spelt(keep, sep, s) = << >> <=> Kept(keep, s) = {}
<1> DEFINE n == Cardinality(Between(keep, s))
           code == Spelt(keep, sep, s)
<1>1. /\ Between(keep, s) \in SUBSET Nat /\ IsFiniteSet(Between(keep, s))
      /\ Kept(keep, s) \in SUBSET Nat /\ IsFiniteSet(Kept(keep, s))
      /\ Kept(keep, s) \subseteq Between(keep, s)
  BY Positions
<1> n \in Nat
  BY <1>1, RankIsOrder
<1> PICK f : InOrder(f, n, Between(keep, s))
  BY <1>1, RankIsOrder
<1> HIDE DEF n
<1>2. /\ \A k \in 1 .. n : f[k] \in Between(keep, s) /\ f[k] \in Nat
      /\ \A j, k \in 1 .. n : j < k => f[j] < f[k]
      /\ \A i \in Between(keep, s) : \E k \in 1 .. n : f[k] = i
  BY <1>1 DEF InOrder
<1>3. code = [k \in 1 .. n |-> Mark(keep, sep, s[f[k]])]
  BY SpeltInOrder
<1> HIDE DEF code
<1>4. /\ code \in Seq(keep \cup {sep}) /\ Len(code) = n
      /\ \A k \in 1 .. n : /\ code[k] = sep => f[k] \notin Kept(keep, s)
                           /\ code[k] # sep => f[k] \in Kept(keep, s)
                           /\ f[k] \in Kept(keep, s) => code[k] \in keep
  <2>1. ASSUME NEW k \in 1 .. n
        PROVE  /\ code[k] \in keep \cup {sep}
               /\ code[k] = sep => f[k] \notin Kept(keep, s)
               /\ code[k] # sep => f[k] \in Kept(keep, s)
               /\ f[k] \in Kept(keep, s) => code[k] \in keep
    <3> f[k] \in DOMAIN s
      BY <1>2 DEF Between, Standing
    <3> QED BY <1>3 DEF Mark, Kept
  <2>2. code \in [1 .. n -> keep \cup {sep}]
    BY <1>3, <2>1
  <2> QED BY <2>1, <2>2
<1>5. ASSUME NEW k \in 1 .. n
      PROVE  \E a, b \in Kept(keep, s) : a <= f[k] /\ f[k] <= b
  BY <1>2 DEF Between
<1>6. code # << >> => code[1] \in keep /\ code[n] \in keep
  <2> SUFFICES ASSUME n # 0
               PROVE  f[1] \in Kept(keep, s) /\ f[n] \in Kept(keep, s)
    BY <1>4
  <2> 1 \in 1 .. n /\ n \in 1 .. n
    OBVIOUS
  <2>1. PICK a \in Kept(keep, s) : a <= f[1]
    BY <1>5
  <2>2. PICK b \in Kept(keep, s) : f[n] <= b
    BY <1>5
  <2>3. PICK j \in 1 .. n : f[j] = a
    BY <1>1, <1>2
  <2>4. PICK k \in 1 .. n : f[k] = b
    BY <1>1, <1>2
  <2>5. ~(1 < j) /\ ~(k < n)
    BY <1>2, <2>1, <2>2, <2>3, <2>4
  <2>6. j = 1 /\ k = n
    BY <2>5
  <2> QED BY <2>3, <2>4, <2>6
<1>7. ASSUME NEW k \in 1 .. n - 1, code[k] = sep
      PROVE  code[k + 1] # sep
  <2> k \in 1 .. n /\ k + 1 \in 1 .. n /\ k < k + 1
    OBVIOUS
  <2> SUFFICES ASSUME f[k + 1] \notin Kept(keep, s) PROVE FALSE
    BY <1>4
  <2>1. /\ f[k] \in Nat /\ f[k + 1] \in Nat /\ f[k] < f[k + 1]
        /\ f[k + 1] \in Between(keep, s) /\ f[k] \notin Kept(keep, s)
    BY <1>2, <1>4, <1>7
  <2>2. f[k + 1] - 1 \in Kept(keep, s)
    BY <2>1, BetweenKept
  <2>3. PICK l \in 1 .. n : f[l] = f[k + 1] - 1
    BY <1>1, <1>2, <2>2
  <2>4. f[l] # f[k] /\ f[k] < f[l] /\ f[l] < f[k + 1]
    BY <2>1, <2>2, <2>3
  <2>5. ~(l < k) /\ ~(l = k) /\ ~(l = k + 1) /\ ~(k + 1 < l)
    BY <1>2, <2>1, <2>4
  <2> QED BY <2>5
<1>8. code = << >> <=> Kept(keep, s) = {}
  <2>1. n = 0 => Kept(keep, s) = {}
    BY <1>1, <1>2
  <2>2. n # 0 => Kept(keep, s) # {}
    <3> n # 0 => 1 \in 1 .. n
      OBVIOUS
    <3> QED BY <1>5
  <2> QED BY <1>4, <2>1, <2>2
<1> QED BY <1>4, <1>6, <1>7, <1>8 DEF InForm, code

\* A text in that form is spelt as it is.
LEMMA FormIsSpelt ==
  ASSUME NEW keep, NEW sep, sep \notin keep, keep \cup {sep} \subseteq Chars,
         NEW code, InForm(keep, sep, code)
  PROVE  Spelt(keep, sep, code) = code
<1> DEFINE n == Len(code)
           f == [k \in 1 .. n |-> k]
<1>1. /\ code \in Seq(Chars) /\ code \in Seq(keep \cup {sep}) /\ n \in Nat
      /\ DOMAIN code = 1 .. n
      /\ \A i \in 1 .. n : code[i] \in keep \/ code[i] = sep
  BY DEF InForm
<1>2. Between(keep, code) = 1 .. n
  <2>1. ASSUME NEW i \in 1 .. n
        PROVE  i \in Between(keep, code)
    <3>1. 1 \in 1 .. n /\ n \in 1 .. n /\ code # << >>
      OBVIOUS
    <3>2. 1 \in Kept(keep, code) /\ n \in Kept(keep, code)
      BY <1>1, <3>1 DEF InForm, Kept
    <3>3. i = 1 \/ code[i] \in keep \/ code[i - 1] \in keep
      <4> SUFFICES ASSUME i # 1, code[i] = sep
                   PROVE  code[i - 1] # sep
        BY <1>1
      <4> i - 1 \in 1 .. n - 1 /\ (i - 1) + 1 = i
        OBVIOUS
      <4> QED BY DEF InForm
    <3> QED BY <1>1, <3>2, <3>3 DEF Between, Standing
  <2>2. Between(keep, code) \subseteq 1 .. n
    BY <1>1 DEF Between, Standing
  <2> QED BY <2>1, <2>2
<1>3. InOrder(f, n, Between(keep, code))
  BY <1>1, <1>2 DEF InOrder
<1>4. Spelt(keep, sep, code) = [k \in 1 .. n |-> Mark(keep, sep, code[f[k]])]
  <2> HIDE DEF f, n
  <2> QED BY <1>1, <1>3, SpeltInOrder
<1>5. \A k \in 1 .. n : Mark(keep, sep, code[f[k]]) = code[k]
  BY <1>1 DEF Mark
<1>6. code = [k \in 1 .. n |-> code[k]]
  BY <1>1
<1> QED BY <1>4, <1>5, <1>6

LEMMA StrippedSpelling ==
  ASSUME NEW keep, NEW sep, sep \notin keep, NEW out, out \cap keep = {},
         NEW s \in Seq(Chars)
  PROVE  Spelt(keep, sep, Strip(out, s)) = Spelt(keep, sep, s)
         /\ Strip(out, s) \in Seq(Chars)
<1> DEFINE inner == { i \in DOMAIN s : s[i] \notin out }
<1>1. DOMAIN s = 1 .. Len(s) /\ Len(s) \in Nat
  BY Positions
<1>2. inner \in SUBSET Nat /\ IsFiniteSet(inner) /\ Kept(keep, s) \subseteq inner
  <2> inner \in SUBSET (1 .. Len(s)) /\ Kept(keep, s) \subseteq inner
    BY <1>1 DEF Kept
  <2> HIDE DEF inner
  <2>1. IsFiniteSet(1 .. Len(s))
    BY <1>1, FS_Interval
  <2>2. IsFiniteSet(inner)
    BY <2>1, FS_Subset
  <2> QED BY <2>2
<1>3. CASE inner = {}
  <2> Strip(out, s) = << >> /\ << >> \in Seq(Chars)
    BY <1>3 DEF Strip
  <2>1. Kept(keep, s) = {} /\ Kept(keep, << >>) = {}
    BY <1>2, <1>3 DEF Kept
  <2> PICK d \in Int : d = 0
    OBVIOUS
  <2>2. /\ \A i \in Kept(keep, s) : i + d \in Kept(keep, << >>) /\ << >>[i + d] = s[i]
        /\ \A j \in Kept(keep, << >>) : j - d \in Kept(keep, s)
    BY <2>1
  <2>3. Spelt(keep, sep, s) = Spelt(keep, sep, << >>)
    BY <2>2, SameSpelling
  <2> QED BY <2>3
<1>4. CASE inner # {}
  <2> HIDE DEF inner
  <2> PICK a \in inner, b \in inner : \A i \in inner : a <= i /\ i <= b
    BY <1>2, <1>4, Ends
  <2> DEFINE t == SubSeq(s, a, b)
  <2>1. /\ a \in 1 .. Len(s) /\ b \in 1 .. Len(s) /\ a <= b
        /\ s[a] \notin out /\ s[b] \notin out
    BY <1>1 DEF inner
  <2>2. Strip(out, s) = t
    <3>1. \A i \in DOMAIN s : s[i] \notin out => a <= i /\ i <= b
      BY DEF inner
    <3>2. a \in DOMAIN s /\ b \in DOMAIN s
      BY <1>1, <2>1
    <3> QED BY <2>1, <3>1, <3>2, StripBetween
  <2>3. /\ t \in Seq(Chars) /\ DOMAIN t = 1 .. b - a + 1
        /\ \A k \in 1 .. b - a + 1 : t[k] = s[k + a - 1]
    BY <1>1, <2>1
  <2> HIDE DEF t
  <2>4. ASSUME NEW i \in Kept(keep, s)
        PROVE  i + (1 - a) \in Kept(keep, t) /\ t[i + (1 - a)] = s[i]
    <3> i \in Nat /\ a <= i /\ i <= b /\ s[i] \in keep
      BY <1>2 DEF Kept
    <3> DEFINE k == i + (1 - a)
    <3> k \in 1 .. b - a + 1 /\ k + a - 1 = i
      BY <2>1
    <3> HIDE DEF k
    <3> k \in Kept(keep, t) /\ t[k] = s[i]
      BY <2>3 DEF Kept
    <3> QED BY DEF k
  <2>5. ASSUME NEW j \in Kept(keep, t)
        PROVE  j - (1 - a) \in Kept(keep, s)
    <3> j \in 1 .. b - a + 1 /\ s[j + a - 1] \in keep
      BY <2>3 DEF Kept
    <3> j - (1 - a) = j + a - 1 /\ j + a - 1 \in 1 .. Len(s)
      BY <2>1
    <3> QED BY <1>1 DEF Kept
  <2>6. Spelt(keep, sep, s) = Spelt(keep, sep, t)
    <3> 1 - a \in Int
      BY <2>1
    <3> QED BY <2>3, <2>4, <2>5, SameSpelling
  <2> QED BY <2>2, <2>3, <2>6
<1> QED BY <1>3, <1>4

LEMMA Surrounded ==
  ASSUME NEW T, NEW s \in Seq(T), NEW x \in T, NEW y \in T
  PROVE  /\ <<x>> \o s \o <<y>> \in Seq(T)
         /\ Len(<<x>> \o s \o <<y>>) = Len(s) + 2
         /\ (<<x>> \o s \o <<y>>)[1] = x
         /\ (<<x>> \o s \o <<y>>)[Len(s) + 2] = y
         /\ \A i \in 1 .. Len(s) : (<<x>> \o s \o <<y>>)[i + 1] = s[i]
<1> DEFINE first == <<x>>
           last == <<y>>
           before == first \o s
           all == before \o last
<1>1. /\ first \in Seq(T) /\ Len(first) = 1 /\ first[1] = x
      /\ last \in Seq(T) /\ Len(last) = 1 /\ last[1] = y
  OBVIOUS
<1> HIDE DEF first, last
<1>2. /\ before \in Seq(T) /\ Len(before) = 1 + Len(s)
      /\ \A i \in 1 .. 1 + Len(s) : before[i] = IF i <= 1 THEN first[i] ELSE s[i - 1]
  <2>1. /\ before \in Seq(T) /\ Len(before) = Len(first) + Len(s)
        /\ \A i \in 1 .. Len(first) + Len(s) :
             before[i] = IF i <= Len(first) THEN first[i] ELSE s[i - Len(first)]
    BY <1>1, ConcatProperties
  <2> HIDE DEF before
  <2> QED BY <1>1, <2>1
<1> HIDE DEF before
<1>3. /\ all \in Seq(T) /\ Len(all) = 2 + Len(s)
      /\ \A i \in 1 .. 2 + Len(s) :
           all[i] = IF i <= 1 + Len(s) THEN before[i] ELSE last[i - (1 + Len(s))]
  <2>1. /\ all \in Seq(T) /\ Len(all) = Len(before) + Len(last)
        /\ \A i \in 1 .. Len(before) + Len(last) :
             all[i] = IF i <= Len(before) THEN before[i] ELSE last[i - Len(before)]
    BY <1>1, <1>2, ConcatProperties
  <2> HIDE DEF all
  <2>2. Len(before) + Len(last) = 2 + Len(s)
    BY <1>1, <1>2, LenProperties
  <2> QED BY <1>2, <2>1, <2>2
<1> HIDE DEF all
<1>4. Len(s) \in Nat
  BY LenProperties
<1>5. all[1] = x
  <2> 1 \in 1 .. 2 + Len(s) /\ 1 \in 1 .. 1 + Len(s) /\ 1 <= 1 + Len(s)
    BY <1>4
  <2> QED BY <1>1, <1>2, <1>3
<1>6. all[Len(s) + 2] = y
  <2> DEFINE l == Len(s) + 2
  <2>1. l \in 1 .. 2 + Len(s) /\ ~(l <= 1 + Len(s)) /\ l - (1 + Len(s)) = 1
    BY <1>4
  <2> HIDE DEF l
  <2>2. all[l] = y
    BY <1>1, <1>3, <2>1
  <2> QED BY <2>2 DEF l
<1>7. ASSUME NEW i \in 1 .. Len(s)
      PROVE  all[i + 1] = s[i]
  <2> DEFINE l == i + 1
  <2>1. l \in 1 .. 2 + Len(s) /\ l <= 1 + Len(s) /\ l \in 1 .. 1 + Len(s) /\ ~(l <= 1) /\ l - 1 = i
    BY <1>4
  <2> HIDE DEF l
  <2>2. all[l] = s[i]
    BY <1>2, <1>3, <2>1
  <2> QED BY <2>2 DEF l
<1>8. Len(all) = Len(s) + 2
  BY <1>3, <1>4
<1> QED BY <1>3, <1>5, <1>6, <1>7, <1>8 DEF all, before, first, last

Uppered(s) == [i \in DOMAIN s |-> Upper(s[i])]

LEMMA UpperedText ==
  ASSUME NEW s \in Seq(Chars)
  PROVE  /\ Uppered(s) \in Seq(Chars) /\ Len(Uppered(s)) = Len(s)
         /\ DOMAIN Uppered(s) = 1 .. Len(s)
         /\ \A i \in 1 .. Len(s) : Uppered(s)[i] = Upper(s[i])
<1> DOMAIN s = 1 .. Len(s) /\ Len(s) \in Nat /\ \A i \in 1 .. Len(s) : s[i] \in Chars
  OBVIOUS
<1> \A ch \in Chars : Upper(ch) \in Chars
  BY DEF Upper, Chars
<1> Uppered(s) \in [1 .. Len(s) -> Chars]
  BY DEF Uppered
<1> QED BY DEF Uppered

LEMMA CodeAlphabet ==
  /\ "_" \notin CodeChars /\ CodeChars \cup {"_"} \subseteq Chars
  /\ {" "} \cap CodeChars = {}
  /\ "-" \notin SlugChars /\ SlugChars \cup {"-"} \subseteq Chars
BY DEF CodeChars, SlugChars, Chars

\* normalizeRoleCode spells the capitals and digits of a text.
LEMMA RoleCodeSpells ==
  ASSUME NEW s \in Seq(Chars)
  PROVE  LET code == Spelt(CodeChars, "_", Uppered(s))
         IN  RoleCode(s) = IF code = << >> \/ Head(code) # "A" THEN NoCode ELSE code
<1> DEFINE code == Strip({"_"}, Separated(CodeChars, "_", Strip({" "}, Uppered(s))))
<1>1. code = Spelt(CodeChars, "_", Uppered(s))
  <2> Spelt(CodeChars, "_", Strip({" "}, Uppered(s))) = Spelt(CodeChars, "_", Uppered(s))
    <3> Uppered(s) \in Seq(Chars)
      BY UpperedText
    <3> "_" \notin CodeChars /\ {" "} \cap CodeChars = {}
      BY CodeAlphabet
    <3> QED BY StrippedSpelling
  <2> QED BY DEF Spelt
<1>2. RoleCode(s) = IF code = << >> \/ Head(code) # "A" THEN NoCode ELSE code
  BY DEF RoleCode, Uppered
<1> QED BY <1>1, <1>2

\* normalizeRoleCode of any text, however long: a code is the code of itself and
\* in one form.
THEOREM RoleCodesAreStable ==
  ASSUME NEW text \in Seq(Chars)
  PROVE  RoleCodeStable(text)
<1> DEFINE code == Spelt(CodeChars, "_", Uppered(text))
<1> SUFFICES ASSUME RoleCode(text) # NoCode
             PROVE  /\ RoleCode(RoleCode(text)) = RoleCode(text)
                    /\ RoleCode(text)[Len(RoleCode(text))] # "_"
                    /\ \A i \in DOMAIN RoleCode(text) : RoleCode(text)[i] \in CodeChars \cup {"_"}
                    /\ \A i \in 1 .. Len(RoleCode(text)) - 1 :
                         RoleCode(text)[i] = "_" => RoleCode(text)[i + 1] # "_"
  BY DEF RoleCodeStable
<1>1. RoleCode(text) = code /\ code # << >> /\ Head(code) = "A"
  BY RoleCodeSpells
<1>2. InForm(CodeChars, "_", code)
  BY CodeAlphabet, UpperedText, SpeltIsInForm
<1> HIDE DEF code
<1>3. /\ code \in Seq(CodeChars \cup {"_"}) /\ code \in Seq(Chars)
      /\ DOMAIN code = 1 .. Len(code)
      /\ \A i \in 1 .. Len(code) : code[i] \in CodeChars \cup {"_"}
      /\ code = [i \in 1 .. Len(code) |-> code[i]]
  BY <1>2, CodeAlphabet, FormIsText
<1>4. Uppered(code) = code
  <2>1. \A i \in 1 .. Len(code) : Upper(code[i]) = code[i]
    BY <1>3 DEF Upper, CodeChars
  <2>2. Uppered(code) = [i \in 1 .. Len(code) |-> code[i]]
    BY <1>3, <2>1 DEF Uppered
  <2> QED BY <1>3, <2>2
<1>5. RoleCode(code) = code
  <2> Spelt(CodeChars, "_", code) = code
    BY <1>2, CodeAlphabet, FormIsSpelt
  <2> QED BY <1>1, <1>3, <1>4, RoleCodeSpells
<1>6. code[Len(code)] # "_"
  BY <1>1, <1>2, CodeAlphabet DEF InForm
<1> QED BY <1>1, <1>2, <1>3, <1>5, <1>6 DEF InForm

\* normalizeRoleCode of any text: case, surroundings and the kind of separator
\* make no other role.
THEOREM SpellingsAreIgnored ==
  ASSUME NEW text \in Seq(Chars)
  PROVE  RoleCodeIgnoresSpelling(text)
<1> DEFINE shouted == [i \in DOMAIN text |-> Upper(text[i])]
           blanks == [i \in DOMAIN text |-> IF text[i] \in {"-", "_"} THEN " " ELSE text[i]]
           around == <<" ">> \o text \o <<"-">>
<1>1. /\ DOMAIN text = 1 .. Len(text) /\ Len(text) \in Nat
      /\ \A i \in 1 .. Len(text) : text[i] \in Chars
  OBVIOUS
<1>2. ASSUME NEW t \in Seq(Chars), NEW d \in Int,
             \A i \in Kept(CodeChars, Uppered(text)) :
               /\ i + d \in Kept(CodeChars, Uppered(t))
               /\ Uppered(t)[i + d] = Uppered(text)[i],
             \A j \in Kept(CodeChars, Uppered(t)) : j - d \in Kept(CodeChars, Uppered(text))
      PROVE  RoleCode(t) = RoleCode(text)
  <2> Spelt(CodeChars, "_", Uppered(text)) = Spelt(CodeChars, "_", Uppered(t))
    BY <1>2, CodeAlphabet, UpperedText, SameSpelling
  <2> QED BY <1>2, RoleCodeSpells
<1>3. RoleCode(shouted) = RoleCode(text)
  <2>1. shouted \in Seq(Chars)
    BY UpperedText DEF Uppered
  <2>2. Uppered(shouted) = Uppered(text)
    BY DEF Uppered, Upper
  <2> QED BY <2>1, <2>2, RoleCodeSpells
<1>4. RoleCode(blanks) = RoleCode(text)
  <2>1. /\ blanks \in Seq(Chars) /\ Len(blanks) = Len(text)
        /\ \A i \in 1 .. Len(text) :
             blanks[i] = IF text[i] \in {"-", "_"} THEN " " ELSE text[i]
    <3> \A i \in 1 .. Len(text) : blanks[i] \in Chars
      BY <1>1 DEF Chars
    <3>1. blanks \in [1 .. Len(text) -> Chars]
      BY <1>1
    <3>2. \A i \in 1 .. Len(text) :
            blanks[i] = IF text[i] \in {"-", "_"} THEN " " ELSE text[i]
      BY <1>1
    <3> HIDE DEF blanks
    <3>3. blanks \in Seq(Chars)
      BY <1>1, <3>1, SeqDef
    <3>4. Len(blanks) = Len(text)
      BY <1>1, <3>1, <3>3, LenProperties
    <3> QED BY <3>2, <3>3, <3>4
  <2> HIDE DEF blanks
  <2>2. \A i \in 1 .. Len(text) :
          /\ Uppered(text)[i] \in CodeChars <=> Uppered(blanks)[i] \in CodeChars
          /\ Uppered(text)[i] \in CodeChars => Uppered(blanks)[i] = Uppered(text)[i]
    BY <1>1, <2>1, UpperedText DEF Upper, CodeChars
  <2> PICK d \in Int : d = 0
    OBVIOUS
  <2>3. /\ \A i \in Kept(CodeChars, Uppered(text)) :
             /\ i + d \in Kept(CodeChars, Uppered(blanks))
             /\ Uppered(blanks)[i + d] = Uppered(text)[i]
        /\ \A j \in Kept(CodeChars, Uppered(blanks)) :
             j - d \in Kept(CodeChars, Uppered(text))
    <3> /\ DOMAIN Uppered(text) = 1 .. Len(text)
        /\ DOMAIN Uppered(blanks) = 1 .. Len(text)
      BY <2>1, UpperedText
    <3> \A i \in 1 .. Len(text) : i + d = i /\ i - d = i
      BY <1>1
    <3> QED BY <2>2 DEF Kept
  <2> QED BY <1>2, <2>1, <2>3
<1>5. RoleCode(around) = RoleCode(text)
  <2>1. /\ around \in Seq(Chars) /\ Len(around) = Len(text) + 2
        /\ around[1] = " " /\ around[Len(text) + 2] = "-"
        /\ \A i \in 1 .. Len(text) : around[i + 1] = text[i]
    <3> DEFINE x == " "
               y == "-"
    <3>1. x \in Chars /\ y \in Chars
      BY DEF Chars
    <3> HIDE DEF x, y
    <3>2. /\ <<x>> \o text \o <<y>> \in Seq(Chars)
          /\ Len(<<x>> \o text \o <<y>>) = Len(text) + 2
          /\ (<<x>> \o text \o <<y>>)[1] = x
          /\ (<<x>> \o text \o <<y>>)[Len(text) + 2] = y
          /\ \A i \in 1 .. Len(text) : (<<x>> \o text \o <<y>>)[i + 1] = text[i]
      BY <3>1, Surrounded
    <3> QED BY <3>2 DEF x, y
  <2> HIDE DEF around
  <2>2. /\ DOMAIN Uppered(text) = 1 .. Len(text)
        /\ DOMAIN Uppered(around) = 1 .. Len(text) + 2
        /\ \A i \in 1 .. Len(text) : Uppered(around)[i + 1] = Uppered(text)[i]
        /\ Uppered(around)[1] \notin CodeChars
        /\ Uppered(around)[Len(text) + 2] \notin CodeChars
    <3>1. /\ DOMAIN Uppered(text) = 1 .. Len(text)
          /\ \A i \in 1 .. Len(text) : Uppered(text)[i] = Upper(text[i])
      BY UpperedText
    <3>2. /\ DOMAIN Uppered(around) = 1 .. Len(text) + 2
          /\ \A i \in 1 .. Len(text) + 2 : Uppered(around)[i] = Upper(around[i])
      BY <2>1, UpperedText
    <3>3. /\ 1 \in 1 .. Len(text) + 2 /\ Len(text) + 2 \in 1 .. Len(text) + 2
          /\ \A i \in 1 .. Len(text) : i + 1 \in 1 .. Len(text) + 2
      BY <1>1
    <3>4. Upper(" ") \notin CodeChars /\ Upper("-") \notin CodeChars
      BY DEF Upper, CodeChars
    <3> QED BY <2>1, <3>1, <3>2, <3>3, <3>4
  <2> PICK d \in Int : d = 1
    OBVIOUS
  <2>3. ASSUME NEW i \in Kept(CodeChars, Uppered(text))
        PROVE  /\ i + d \in Kept(CodeChars, Uppered(around))
               /\ Uppered(around)[i + d] = Uppered(text)[i]
    BY <1>1, <2>2 DEF Kept
  <2>4. ASSUME NEW j \in Kept(CodeChars, Uppered(around))
        PROVE  j - d \in Kept(CodeChars, Uppered(text))
    <3> j \in 1 .. Len(text) + 2 /\ j # 1 /\ j # Len(text) + 2
      BY <2>2 DEF Kept
    <3> j - 1 \in 1 .. Len(text) /\ (j - 1) + 1 = j
      BY <1>1
    <3> QED BY <2>2 DEF Kept
  <2> QED BY <1>2, <2>1, <2>3, <2>4
<1> QED BY <1>3, <1>4, <1>5 DEF RoleCodeIgnoresSpelling

\* slugify of any title with a digit or a letter that comes down to one of a-z,
\* whatever the limit: it is one a client might have given.
THEOREM SlugsOfWordsAreAccepted ==
  ASSUME NEW text \in Seq(Chars)
  PROVE  SlugOfWordsAccepted(text)
<1> DEFINE plain == [i \in DOMAIN text |-> Plain(text[i])]
           whole == Spelt(SlugChars, "-", plain)
           slug == Slug(text)
<1> SUFFICES ASSUME NEW i \in DOMAIN text, text[i] \in { "a", "A", "a-acute", "1" }
             PROVE  /\ SlugAccepted(slug)
                    /\ Head(slug) # "-"
                    /\ slug[Len(slug)] = "-" => Len(slug) = SlugLen
                    /\ Len(slug) <= SlugLen
  BY DEF SlugOfWordsAccepted
<1>1. /\ plain \in Seq(Chars) /\ DOMAIN plain = DOMAIN text
      /\ i \in Kept(SlugChars, plain)
  <2> DOMAIN text = 1 .. Len(text) /\ Len(text) \in Nat /\ \A j \in 1 .. Len(text) : text[j] \in Chars
    OBVIOUS
  <2> \A ch \in Chars : Plain(ch) \in Chars
    BY DEF Plain, Chars
  <2> plain \in [1 .. Len(text) -> Chars]
    OBVIOUS
  <2> plain[i] \in SlugChars
    BY DEF Plain, SlugChars
  <2> QED BY DEF Kept
<1> HIDE DEF plain
<1>2. InForm(SlugChars, "-", whole) /\ whole # << >>
  BY <1>1, CodeAlphabet, SpeltIsInForm
<1>3. slug = SubSeq(whole, 1, IF Len(whole) < SlugLen THEN Len(whole) ELSE SlugLen)
  BY DEF Slug, Spelt, plain
<1> HIDE DEF whole, slug
<1>4. /\ whole \in Seq(SlugChars \cup {"-"}) /\ Len(whole) \in Nat /\ Len(whole) # 0
      /\ whole[1] \in SlugChars /\ whole[Len(whole)] \in SlugChars
      /\ \A j \in 1 .. Len(whole) : whole[j] \in SlugChars \cup {"-"}
  BY <1>2 DEF InForm
<1>5. SlugLen \in Nat \ {0}
  BY TextAssumption
<1> DEFINE n == IF Len(whole) < SlugLen THEN Len(whole) ELSE SlugLen
<1>6. /\ slug \in Seq(SlugChars \cup {"-"}) /\ Len(slug) = n /\ n \in 1 .. Len(whole)
      /\ \A j \in 1 .. n : slug[j] = whole[j]
  BY <1>3, <1>4, <1>5
<1>7. SlugAccepted(slug)
  BY <1>4, <1>6 DEF SlugAccepted
<1>8. Head(slug) # "-"
  <2> Head(slug) = whole[1]
    BY <1>6
  <2> QED BY <1>4, CodeAlphabet
<1>9. slug[Len(slug)] = "-" => Len(slug) = SlugLen
  BY <1>4, <1>5, <1>6, CodeAlphabet
<1> QED BY <1>5, <1>6, <1>7, <1>8, <1>9

\* The name or title of a behaviour is the one it has drawn.
Drawn == bounds \in Settings

LEMMA SettingKept == MCSpec => []Drawn
<1>1. MCInit => Drawn
  BY DEF MCInit, Drawn
<1>2. Drawn /\ [MCNext]_mcVars => Drawn'
  BY DEF MCNext, mcVars, Drawn
<1> QED BY <1>1, <1>2, PTL DEF MCSpec

\* The code of a role's name, whatever the name: normalizeRoleCode of a code is
\* that code, which has no separator at its ends and no two in a row.
THEOREM CodesAreStable == MCSpec => []CodeIsStable
<1>1. Drawn => CodeIsStable
  BY SettingsAssumption, RoleCodesAreStable DEF CodeIsStable, Drawn
<1> QED BY <1>1, SettingKept, PTL

\* normalizeRoleCode of a name, whatever the name, is that of every other
\* spelling of it.
THEOREM SpellingMakesNoRole == MCSpec => []CodeIgnoresSpelling
<1>1. Drawn => CodeIgnoresSpelling
  BY SettingsAssumption, SpellingsAreIgnored DEF CodeIgnoresSpelling, Drawn
<1> QED BY <1>1, SettingKept, PTL

\* slugify of a title, whatever the title: of words it makes an address.
THEOREM SlugsAreAddresses == MCSpec => []SlugIsAddress
<1>1. Drawn => SlugIsAddress
  BY SettingsAssumption, SlugsOfWordsAreAccepted DEF SlugIsAddress, Drawn
<1> QED BY <1>1, SettingKept, PTL
=============================================================================
