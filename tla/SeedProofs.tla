------------------------------ MODULE SeedProofs ------------------------------
(***************************************************************************)
(* What the seed leaves behind, for any lists in the file, any database    *)
(* that is empty or was seeded before, and whatever the service does.      *)
(***************************************************************************)
EXTENDS Seed, AccountsProofs, SequenceTheorems

\* The last statement of each loop.
RoleWork == Len(RoleList)
PermissionWork == RoleWork + Len(PermissionList)
GrantWork == PermissionWork + 2 * Len(GrantList)

\* What the tables of roles and users keep, run or no run: the ADMIN role is the
\* system role, without it there are neither users nor calls, and an address is
\* one user's.
AdminThere == Coded("ADMIN") # {}

AdminStands ==
  /\ \A r \in RoleIds : RoleExists(r) => (role[r].system <=> role[r].code = "ADMIN")
  /\ (\E x \in UserIds : UserExists(x)) \/ (\E c \in Calls : pc[c] \in Running) => AdminThere

AddressesDiffer ==
  \A x, y \in UserIds :
    UserExists(x) /\ UserExists(y) /\ user[x].email = user[y].email => x = y

\* Where the run is, and what its next statement may rely on.
SeedTypeOK ==
  /\ at \in 0 .. Ended
  /\ runs \in Seq(SeedRuns)
  /\ at > 0 => runs # << >>
  /\ known \subseteq { PermissionList[i] : i \in DOMAIN PermissionList }
  /\ modules \in [Slots -> { "none", "on", "off" }]
  /\ docs \in [RemovedSlugs \cup DocSlugs -> DocRows \cup {NoDoc}]
  /\ \A i \in 1 .. Len(GrantList) : at = PermissionWork + 2 * i => target \in RoleIds
  /\ at = GrantWork + 4 => target \in Coded("ADMIN")
  /\ quiet \in BOOLEAN

Sound == IInv /\ AdminStands /\ AddressesDiffer /\ SeedTypeOK

\* What each statement is there for.
RoleStands(i) ==
  \E r \in Coded(RoleList[i].code) : role[r] = RoleUpserted(role[r], RoleList[i])

GrantsStand(i) == \A r \in Coded(GrantList[i].code) : PermsOf(r) = GrantList[i].perms

LegacyOff == \A s \in LegacySlugs : modules[s] # "on"

ModulesOn == \A s \in ModuleSlugs : modules[s] = "on"

AdminSeeded ==
  \E x \in UserIds, r \in Coded("ADMIN") :
    user[x] = [ email |-> AdminEmail, role |-> r, active |-> TRUE, deleted |-> FALSE ]

DocsGone == \A d \in RemovedSlugs : docs[d] = NoDoc

DocsPublished == \A d \in DocSlugs : docs[d] = [ status |-> "PUBLISHED", content |-> "seeded" ]

\* Of a run that has been alone so far: what its statements wrote still stands.
RolesReached == \A i \in 1 .. Len(RoleList) : at > i => RoleStands(i)

PermissionsReached ==
  \A i \in 1 .. Len(PermissionList) : at > RoleWork + i => PermissionList[i] \in known

GrantsReached ==
  \A i \in 1 .. Len(GrantList) :
    /\ at > PermissionWork + 2 * i => GrantsStand(i)
    /\ at = PermissionWork + 2 * i => target \in Coded(GrantList[i].code) /\ PermsOf(target) = {}

RestReached ==
  /\ at > GrantWork + 1 => LegacyOff
  /\ at > GrantWork + 2 => ModulesOn
  /\ at > GrantWork + 4 => AdminSeeded
  /\ at > GrantWork + 5 => DocsGone
  /\ at > GrantWork + 6 => DocsPublished

Reached == RolesReached /\ PermissionsReached /\ GrantsReached /\ RestReached

----------------------------------------------------------------------------
(* The script.                                                             *)

LEMMA ListsTyped ==
  /\ RoleList \in Seq([ code : Codes, name : Names, description : Descriptions ])
  /\ PermissionList \in Seq(Permissions)
  /\ Len(RoleList) \in Nat /\ Len(PermissionList) \in Nat /\ Len(GrantList) \in Nat
  /\ DOMAIN RoleList = 1 .. Len(RoleList)
  /\ DOMAIN PermissionList = 1 .. Len(PermissionList)
  /\ DOMAIN GrantList = 1 .. Len(GrantList)
  /\ RoleWork \in Nat /\ PermissionWork \in Nat /\ GrantWork \in Nat
  /\ RoleWork <= PermissionWork /\ PermissionWork <= GrantWork
BY SeedAssumption DEF RoleWork, PermissionWork, GrantWork

LEMMA Joined ==
  ASSUME NEW S, NEW s \in Seq(S), NEW t \in Seq(S)
  PROVE  /\ s \o t \in Seq(S) /\ Len(s \o t) = Len(s) + Len(t)
         /\ \A i \in 1 .. Len(s) : (s \o t)[i] = s[i]
         /\ \A i \in 1 .. Len(t) : (s \o t)[Len(s) + i] = t[i]
<1>1. Len(s) \in Nat /\ Len(t) \in Nat
  OBVIOUS
<1> QED BY <1>1, ConcatProperties

LEMMA Listed ==
  ASSUME NEW S, NEW n \in Nat, NEW s \in [1 .. n -> S]
  PROVE  s \in Seq(S) /\ Len(s) = n
BY IsASeq, LenProperties

\* Four parts in a row, and where each begins.
LEMMA FourJoined ==
  ASSUME NEW S, NEW a \in Seq(S), NEW b \in Seq(S), NEW c \in Seq(S), NEW d \in Seq(S),
         NEW all, all = a \o b \o c \o d
  PROVE  /\ Len(all) = Len(a) + Len(b) + Len(c) + Len(d)
         /\ \A i \in 1 .. Len(a) : all[i] = a[i]
         /\ \A i \in 1 .. Len(b) : all[Len(a) + i] = b[i]
         /\ \A i \in 1 .. Len(c) : all[Len(a) + Len(b) + i] = c[i]
         /\ \A i \in 1 .. Len(d) : all[Len(a) + Len(b) + Len(c) + i] = d[i]
<1>1. Len(a) \in Nat /\ Len(b) \in Nat /\ Len(c) \in Nat /\ Len(d) \in Nat
  OBVIOUS
<1>2. PICK ab : ab = a \o b
  OBVIOUS
<1>3. /\ ab \in Seq(S) /\ Len(ab) = Len(a) + Len(b)
      /\ \A i \in 1 .. Len(a) : ab[i] = a[i]
      /\ \A i \in 1 .. Len(b) : ab[Len(a) + i] = b[i]
  BY <1>2, Joined
<1>31. ab \in Seq(S)
  BY <1>3
<1>4. PICK abc : abc = ab \o c
  OBVIOUS
<1>5. /\ abc \in Seq(S) /\ Len(abc) = Len(ab) + Len(c)
      /\ \A i \in 1 .. Len(ab) : abc[i] = ab[i]
      /\ \A i \in 1 .. Len(c) : abc[Len(ab) + i] = c[i]
  BY <1>31, <1>4, Joined
<1>51. abc \in Seq(S)
  BY <1>5
<1>6. all = abc \o d
  BY <1>2, <1>4
<1>7. /\ Len(all) = Len(abc) + Len(d)
      /\ \A i \in 1 .. Len(abc) : all[i] = abc[i]
      /\ \A i \in 1 .. Len(d) : all[Len(abc) + i] = d[i]
  BY <1>51, <1>6, Joined
<1>8. \A i \in 1 .. Len(a) : i \in 1 .. Len(ab) /\ i \in 1 .. Len(abc)
  BY <1>1, <1>3, <1>5
<1>9. \A i \in 1 .. Len(b) : Len(a) + i \in 1 .. Len(ab) /\ Len(a) + i \in 1 .. Len(abc)
  BY <1>1, <1>3, <1>5
<1>10. \A i \in 1 .. Len(c) : Len(ab) + i \in 1 .. Len(abc)
  BY <1>1, <1>3, <1>5
<1> QED BY <1>1, <1>3, <1>5, <1>7, <1>8, <1>9, <1>10

\* Where each statement stands.
LEMMA ScriptLaidOut ==
  /\ Len(Script) = GrantWork + 6
  /\ \A i \in 1 .. Len(RoleList) : Script[i] = [ do |-> "UpsertRole", of |-> RoleList[i] ]
  /\ \A i \in 1 .. Len(PermissionList) :
       Script[RoleWork + i] = [ do |-> "UpsertPermission", of |-> PermissionList[i] ]
  /\ \A i \in 1 .. Len(GrantList) :
       /\ Script[PermissionWork + 2 * i - 1] = [ do |-> "DeleteGrants", of |-> GrantList[i] ]
       /\ Script[PermissionWork + 2 * i] = [ do |-> "CreateGrants", of |-> GrantList[i] ]
  /\ Script[GrantWork + 1] = [ do |-> "SwitchOffLegacy" ]
  /\ Script[GrantWork + 2] = [ do |-> "UpsertModules" ]
  /\ Script[GrantWork + 3] = [ do |-> "FindAdminRole" ]
  /\ Script[GrantWork + 4] = [ do |-> "UpsertAdmin" ]
  /\ Script[GrantWork + 5] = [ do |-> "RemoveDocs" ]
  /\ Script[GrantWork + 6] = [ do |-> "UpsertDocs" ]
<1> DEFINE s1 == [ i \in DOMAIN RoleList |-> [ do |-> "UpsertRole", of |-> RoleList[i] ] ]
           s2 == [ i \in DOMAIN PermissionList |->
                     [ do |-> "UpsertPermission", of |-> PermissionList[i] ] ]
           s3 == [ i \in 1 .. 2 * Len(GrantList) |->
                     [ do |-> IF i % 2 = 1 THEN "DeleteGrants" ELSE "CreateGrants",
                       of |-> GrantList[(i + 1) \div 2] ] ]
           s4 == << [ do |-> "SwitchOffLegacy" ], [ do |-> "UpsertModules" ],
                    [ do |-> "FindAdminRole" ], [ do |-> "UpsertAdmin" ],
                    [ do |-> "RemoveDocs" ], [ do |-> "UpsertDocs" ] >>
           any == { s1[i] : i \in DOMAIN s1 } \cup { s2[i] : i \in DOMAIN s2 }
                  \cup { s3[i] : i \in DOMAIN s3 } \cup { s4[i] : i \in DOMAIN s4 }
<1>1. s1 \in Seq(any) /\ Len(s1) = Len(RoleList)
  BY ListsTyped
<1>2. s2 \in Seq(any) /\ Len(s2) = Len(PermissionList)
  BY ListsTyped
<1>3. s3 \in Seq(any) /\ Len(s3) = 2 * Len(GrantList)
  <2>1. 2 * Len(GrantList) \in Nat
    BY ListsTyped
  <2>2. s3 \in [1 .. 2 * Len(GrantList) -> { s3[i] : i \in DOMAIN s3 }]
    OBVIOUS
  <2>3. { s3[i] : i \in DOMAIN s3 } \subseteq any
    OBVIOUS
  <2> HIDE DEF s3, any
  <2>4. s3 \in [1 .. 2 * Len(GrantList) -> any]
    BY <2>2, <2>3
  <2> QED BY <2>1, <2>4, Listed
<1>4. s4 \in Seq(any) /\ Len(s4) = 6
  OBVIOUS
<1>5. Script = s1 \o s2 \o s3 \o s4
  BY Zenon DEF Script
<1>6. \A i \in 1 .. Len(RoleList) : s1[i] = [ do |-> "UpsertRole", of |-> RoleList[i] ]
  BY ListsTyped
<1>7. \A i \in 1 .. Len(PermissionList) :
        s2[i] = [ do |-> "UpsertPermission", of |-> PermissionList[i] ]
  BY ListsTyped
<1>8. \A i \in 1 .. Len(GrantList) :
        /\ s3[2 * i - 1] = [ do |-> "DeleteGrants", of |-> GrantList[i] ]
        /\ s3[2 * i] = [ do |-> "CreateGrants", of |-> GrantList[i] ]
  <2> TAKE i \in 1 .. Len(GrantList)
  <2>1. i \in Nat /\ 2 * i - 1 \in 1 .. 2 * Len(GrantList) /\ 2 * i \in 1 .. 2 * Len(GrantList)
    BY ListsTyped
  <2>2. (2 * i - 1) % 2 = 1 /\ (2 * i) % 2 = 0 /\ (2 * i - 1 + 1) \div 2 = i /\ (2 * i + 1) \div 2 = i
    BY <2>1
  <2> QED BY <2>1, <2>2
<1>9. /\ s4[1] = [ do |-> "SwitchOffLegacy" ] /\ s4[2] = [ do |-> "UpsertModules" ]
      /\ s4[3] = [ do |-> "FindAdminRole" ] /\ s4[4] = [ do |-> "UpsertAdmin" ]
      /\ s4[5] = [ do |-> "RemoveDocs" ] /\ s4[6] = [ do |-> "UpsertDocs" ]
  OBVIOUS
<1> HIDE DEF s1, s2, s3, s4, any
<1>10. /\ Len(Script) = GrantWork + 6
       /\ \A i \in 1 .. Len(RoleList) : Script[i] = s1[i]
       /\ \A i \in 1 .. Len(PermissionList) : Script[RoleWork + i] = s2[i]
       /\ \A i \in 1 .. 2 * Len(GrantList) : Script[PermissionWork + i] = s3[i]
       /\ \A i \in 1 .. 6 : Script[GrantWork + i] = s4[i]
  <2>1. /\ Len(Script) = Len(s1) + Len(s2) + Len(s3) + Len(s4)
        /\ \A i \in 1 .. Len(s1) : Script[i] = s1[i]
        /\ \A i \in 1 .. Len(s2) : Script[Len(s1) + i] = s2[i]
        /\ \A i \in 1 .. Len(s3) : Script[Len(s1) + Len(s2) + i] = s3[i]
        /\ \A i \in 1 .. Len(s4) : Script[Len(s1) + Len(s2) + Len(s3) + i] = s4[i]
    <3>1. s1 \in Seq(any) /\ s2 \in Seq(any) /\ s3 \in Seq(any) /\ s4 \in Seq(any)
      BY <1>1, <1>2, <1>3, <1>4
    <3>2. PICK a \in Seq(any), b \in Seq(any), c \in Seq(any), d \in Seq(any) :
            a = s1 /\ b = s2 /\ c = s3 /\ d = s4
      BY <3>1
    <3>3. PICK all : all = Script /\ all = a \o b \o c \o d
      BY <1>5, <3>2
    <3>4. /\ Len(all) = Len(a) + Len(b) + Len(c) + Len(d)
          /\ \A i \in 1 .. Len(a) : all[i] = a[i]
          /\ \A i \in 1 .. Len(b) : all[Len(a) + i] = b[i]
          /\ \A i \in 1 .. Len(c) : all[Len(a) + Len(b) + i] = c[i]
          /\ \A i \in 1 .. Len(d) : all[Len(a) + Len(b) + Len(c) + i] = d[i]
      BY <3>3, FourJoined
    <3> QED BY <3>2, <3>3, <3>4
  <2>2. /\ Len(s1) = RoleWork /\ Len(s1) + Len(s2) = PermissionWork
        /\ Len(s1) + Len(s2) + Len(s3) = GrantWork
    BY <1>1, <1>2, <1>3 DEF RoleWork, PermissionWork, GrantWork
  <2> QED BY <1>1, <1>2, <1>3, <1>4, <2>1, <2>2
<1>11. \A i \in 1 .. Len(GrantList) :
         /\ 2 * i - 1 \in 1 .. 2 * Len(GrantList) /\ 2 * i \in 1 .. 2 * Len(GrantList)
         /\ PermissionWork + (2 * i - 1) = PermissionWork + 2 * i - 1
  BY ListsTyped
<1>12. \A i \in 1 .. Len(GrantList) :
         /\ Script[PermissionWork + 2 * i - 1] = [ do |-> "DeleteGrants", of |-> GrantList[i] ]
         /\ Script[PermissionWork + 2 * i] = [ do |-> "CreateGrants", of |-> GrantList[i] ]
  BY <1>8, <1>10, <1>11
<1>13. /\ Script[GrantWork + 1] = s4[1] /\ Script[GrantWork + 2] = s4[2]
       /\ Script[GrantWork + 3] = s4[3] /\ Script[GrantWork + 4] = s4[4]
       /\ Script[GrantWork + 5] = s4[5] /\ Script[GrantWork + 6] = s4[6]
  BY <1>10
<1>14. /\ \A i \in 1 .. Len(RoleList) : Script[i] = [ do |-> "UpsertRole", of |-> RoleList[i] ]
       /\ \A i \in 1 .. Len(PermissionList) :
            Script[RoleWork + i] = [ do |-> "UpsertPermission", of |-> PermissionList[i] ]
  BY <1>6, <1>7, <1>10
<1> QED BY <1>9, <1>10, <1>12, <1>13, <1>14

\* Before the grants nothing rests on the role found.
LEMMA EarlyPlaces ==
  ASSUME NEW n \in 1 .. PermissionWork + 1
  PROVE  /\ Ended = GrantWork + 7
         /\ n \in 0 .. Ended /\ n # GrantWork + 4
         /\ \A j \in 1 .. Len(GrantList) : n # PermissionWork + 2 * j
<1>1. Ended = GrantWork + 7
  BY ScriptLaidOut, ListsTyped DEF Ended
<1> QED BY <1>1, ListsTyped

\* Which statements there are.
LEMMA EveryStatement ==
  ASSUME NEW p \in 1 .. Len(Script)
  PROVE  \/ \E i \in 1 .. Len(RoleList) : p = i
         \/ \E i \in 1 .. Len(PermissionList) : p = RoleWork + i
         \/ \E i \in 1 .. Len(GrantList) : p = PermissionWork + 2 * i - 1
         \/ \E i \in 1 .. Len(GrantList) : p = PermissionWork + 2 * i
         \/ \E i \in 1 .. 6 : p = GrantWork + i
<1>1. p \in Nat /\ 1 <= p /\ p <= GrantWork + 6
  BY ScriptLaidOut, ListsTyped
<1>2. CASE p <= RoleWork
  BY <1>1, <1>2 DEF RoleWork
<1>3. CASE RoleWork < p /\ p <= PermissionWork
  <2>1. p - RoleWork \in 1 .. Len(PermissionList) /\ p = RoleWork + (p - RoleWork)
    BY <1>1, <1>3, ListsTyped DEF PermissionWork
  <2> QED BY <2>1
<1>4. CASE PermissionWork < p /\ p <= GrantWork
  <2>1. PICK n \in Nat : n = p - PermissionWork
    BY <1>1, <1>4, ListsTyped
  <2>2. n \in 1 .. 2 * Len(GrantList) /\ p = PermissionWork + n
    BY <1>1, <1>4, <2>1, ListsTyped DEF GrantWork
  <2>3. PICK i \in Nat : n = 2 * i \/ n = 2 * i - 1
    <3>1. n \div 2 \in Nat /\ (n + 1) \div 2 \in Nat
      OBVIOUS
    <3>2. n = 2 * (n \div 2) \/ n = 2 * ((n + 1) \div 2) - 1
      OBVIOUS
    <3> QED BY <3>1, <3>2
  <2>4. i \in 1 .. Len(GrantList)
    BY <2>2, <2>3, ListsTyped
  <2> QED BY <2>2, <2>3, <2>4, ListsTyped
<1>5. CASE GrantWork < p
  <2>1. p - GrantWork \in 1 .. 6 /\ p = GrantWork + (p - GrantWork)
    BY <1>1, <1>5, ListsTyped
  <2> QED BY <2>1
<1> QED BY <1>1, <1>2, <1>3, <1>4, <1>5, ListsTyped

\* Where a run is that is doing something.
LEMMA Whereabouts ==
  /\ Doing("UpsertRole") => \E i \in 1 .. Len(RoleList) : at = i /\ Script[at].of = RoleList[i]
  /\ Doing("UpsertPermission") => \E i \in 1 .. Len(PermissionList) :
       at = RoleWork + i /\ Script[at].of = PermissionList[i]
  /\ Doing("DeleteGrants") => \E i \in 1 .. Len(GrantList) :
       at = PermissionWork + 2 * i - 1 /\ Script[at].of = GrantList[i]
  /\ Doing("CreateGrants") => \E i \in 1 .. Len(GrantList) :
       at = PermissionWork + 2 * i /\ Script[at].of = GrantList[i]
  /\ Doing("SwitchOffLegacy") => at = GrantWork + 1
  /\ Doing("UpsertModules") => at = GrantWork + 2
  /\ Doing("FindAdminRole") => at = GrantWork + 3
  /\ Doing("UpsertAdmin") => at = GrantWork + 4
  /\ Doing("RemoveDocs") => at = GrantWork + 5
  /\ Doing("UpsertDocs") => at = GrantWork + 6
<1> SUFFICES ASSUME at \in 1 .. Len(Script)
             PROVE  /\ Script[at].do = "UpsertRole" =>
                         \E i \in 1 .. Len(RoleList) : at = i /\ Script[at].of = RoleList[i]
                    /\ Script[at].do = "UpsertPermission" =>
                         \E i \in 1 .. Len(PermissionList) :
                           at = RoleWork + i /\ Script[at].of = PermissionList[i]
                    /\ Script[at].do = "DeleteGrants" =>
                         \E i \in 1 .. Len(GrantList) :
                           at = PermissionWork + 2 * i - 1 /\ Script[at].of = GrantList[i]
                    /\ Script[at].do = "CreateGrants" =>
                         \E i \in 1 .. Len(GrantList) :
                           at = PermissionWork + 2 * i /\ Script[at].of = GrantList[i]
                    /\ Script[at].do = "SwitchOffLegacy" => at = GrantWork + 1
                    /\ Script[at].do = "UpsertModules" => at = GrantWork + 2
                    /\ Script[at].do = "FindAdminRole" => at = GrantWork + 3
                    /\ Script[at].do = "UpsertAdmin" => at = GrantWork + 4
                    /\ Script[at].do = "RemoveDocs" => at = GrantWork + 5
                    /\ Script[at].do = "UpsertDocs" => at = GrantWork + 6
  BY DEF Doing
<1>1. CASE \E i \in 1 .. Len(RoleList) : at = i
  <2>1. PICK i \in 1 .. Len(RoleList) : at = i
    BY <1>1
  <2>2. Script[at] = [ do |-> "UpsertRole", of |-> RoleList[i] ]
    BY <2>1, ScriptLaidOut
  <2>3. Script[at].do = "UpsertRole" /\ Script[at].of = RoleList[i]
    BY <2>2
  <2> QED BY <2>1, <2>3
<1>2. CASE \E i \in 1 .. Len(PermissionList) : at = RoleWork + i
  <2>1. PICK i \in 1 .. Len(PermissionList) : at = RoleWork + i
    BY <1>2
  <2>2. Script[at] = [ do |-> "UpsertPermission", of |-> PermissionList[i] ]
    BY <2>1, ScriptLaidOut
  <2>3. Script[at].do = "UpsertPermission" /\ Script[at].of = PermissionList[i]
    BY <2>2
  <2> QED BY <2>1, <2>3
<1>3. CASE \E i \in 1 .. Len(GrantList) : at = PermissionWork + 2 * i - 1
  <2>1. PICK i \in 1 .. Len(GrantList) : at = PermissionWork + 2 * i - 1
    BY <1>3
  <2>2. Script[at] = [ do |-> "DeleteGrants", of |-> GrantList[i] ]
    BY <2>1, ScriptLaidOut
  <2>3. Script[at].do = "DeleteGrants" /\ Script[at].of = GrantList[i]
    BY <2>2
  <2> QED BY <2>1, <2>3
<1>4. CASE \E i \in 1 .. Len(GrantList) : at = PermissionWork + 2 * i
  <2>1. PICK i \in 1 .. Len(GrantList) : at = PermissionWork + 2 * i
    BY <1>4
  <2>2. Script[at] = [ do |-> "CreateGrants", of |-> GrantList[i] ]
    BY <2>1, ScriptLaidOut
  <2>3. Script[at].do = "CreateGrants" /\ Script[at].of = GrantList[i]
    BY <2>2
  <2> QED BY <2>1, <2>3
<1>5. ASSUME NEW i \in 1 .. 6, at = GrantWork + i
      PROVE  \/ i = 1 /\ Script[at].do = "SwitchOffLegacy"
             \/ i = 2 /\ Script[at].do = "UpsertModules"
             \/ i = 3 /\ Script[at].do = "FindAdminRole"
             \/ i = 4 /\ Script[at].do = "UpsertAdmin"
             \/ i = 5 /\ Script[at].do = "RemoveDocs"
             \/ i = 6 /\ Script[at].do = "UpsertDocs"
  BY <1>5, ScriptLaidOut
<1>6. CASE \E i \in 1 .. 6 : at = GrantWork + i
  BY <1>5, <1>6
<1> QED BY <1>1, <1>2, <1>3, <1>4, <1>6, EveryStatement

----------------------------------------------------------------------------
(* The tables, whoever writes.                                             *)

LEMMA SoundAtStart ==
  ASSUME SeedInit
  PROVE  Sound
<1>1. Init /\ IInv
  BY InitEstablishes DEF SeedInit
<1>2. AdminStands
  BY <1>1, SeedAssumption
     DEF AdminStands, AdminThere, Coded, Init, TablesInit, CallsInit, Running, RoleExists, UserExists
<1>3. AddressesDiffer
  BY <1>1, SeedAssumption DEF AddressesDiffer, Init, TablesInit, UserExists
<1>4. SeedTypeOK
  BY ScriptLaidOut, ListsTyped DEF SeedInit, SeedTypeOK, Ended
<1> QED BY <1>1, <1>2, <1>3, <1>4 DEF Sound

\* A step that moves no call: the calls know what they knew.
LEMMA CallsFrozen ==
  ASSUME IInv, UNCHANGED <<pc, args, seen>>, RowsStay, CodesMatch',
         role' \in [RoleIds -> RoleRow \cup {NoRole}], grants' \subseteq Grant,
         user' \in [UserIds -> UserRow \cup {NoUser}]
  PROVE  IInv'
<1>1. TypeOK'
  BY DEF IInv, TypeOK, Row
<1>2. \A k \in Calls : pc'[k] = pc[k] /\ args'[k] = args[k] /\ seen'[k] = seen[k]
  OBVIOUS
<1>3. CallsKnow'
  BY <1>2, KnowledgeKept DEF IInv, CallsKnow
<1> QED BY <1>1, <1>3 DEF IInv

LEMMA AdminStays ==
  ASSUME AdminStands, RowsStay
  PROVE  \A r \in RoleIds : r \in Coded("ADMIN") => r \in Coded("ADMIN")'
BY DEF AdminStands, RowsStay, Coded

\* A step that leaves roles and users alone.
LEMMA RolesAndUsersUntouched ==
  ASSUME Sound, UNCHANGED <<role, user, pc, args, seen>>, grants' \subseteq Grant
  PROVE  IInv' /\ AdminStands' /\ AddressesDiffer' /\ Coded("ADMIN")' = Coded("ADMIN")
<1>1. IInv
  BY DEF Sound
<1>2. CodesMatch' /\ RowsStay
  BY <1>1 DEF IInv, CodesMatch, RowsStay, RoleExists, UserExists
<1>3. IInv'
  BY <1>1, <1>2, CallsFrozen DEF IInv, TypeOK
<1>4. Coded("ADMIN")' = Coded("ADMIN")
  BY DEF Coded, RoleExists
<1>5. AdminStands' /\ AddressesDiffer'
  BY <1>4 DEF Sound, AdminStands, AdminThere, AddressesDiffer, RoleExists, UserExists
<1> QED BY <1>3, <1>4, <1>5

----------------------------------------------------------------------------
(* The statements.                                                         *)

\* The row a role's upsert writes: the one with the code, or a new one.
LEMMA RoleWritten ==
  ASSUME Sound, UpsertRole
  PROVE  \E i \in 1 .. Len(RoleList), r \in RoleIds :
           /\ at = i
           /\ RoleExists(r) => role[r].code = RoleList[i].code
           /\ ~RoleExists(r) => Coded(RoleList[i].code) = {}
           /\ role' = [role EXCEPT ![r] = RoleUpserted(role[r], RoleList[i])]
<1>1. PICK i \in 1 .. Len(RoleList) : at = i /\ Script[at].of = RoleList[i]
  BY Whereabouts DEF UpsertRole
<1> DEFINE d == RoleList[i]
           r == IF Coded(d.code) = {} THEN FreshRole ELSE CHOOSE q \in Coded(d.code) : TRUE
<1>2. /\ Coded(d.code) # {} \/ RoleIdLeft
      /\ role' = [role EXCEPT ![r] = RoleUpserted(role[r], d)]
  BY <1>1 DEF UpsertRole
<1>3. CASE Coded(d.code) = {}
  <2>1. r \in RoleIds /\ ~RoleExists(r)
    BY <1>2, <1>3 DEF RoleIdLeft, FreshRole
  <2> QED BY <1>1, <1>2, <1>3, <2>1
<1>4. CASE Coded(d.code) # {}
  <2>1. r \in Coded(d.code)
    BY <1>4
  <2>2. r \in RoleIds /\ RoleExists(r) /\ role[r].code = d.code
    BY <2>1 DEF Coded
  <2> QED BY <1>1, <1>2, <2>2
<1> QED BY <1>3, <1>4

\* What the row then says.
LEMMA RoleRowWritten ==
  ASSUME Sound, NEW i \in 1 .. Len(RoleList), NEW r \in RoleIds,
         RoleExists(r) => role[r].code = RoleList[i].code
  PROVE  LET row == RoleUpserted(role[r], RoleList[i]) IN
         /\ row \in RoleRow /\ row # NoRole
         /\ row.code = RoleList[i].code
         /\ row.system <=> row.code = "ADMIN"
         /\ RoleExists(r) => row.system = role[r].system
         /\ row.system => ~row.deleted
         /\ ~row.system => row.code = CodeOf[row.name]
<1> DEFINE d == RoleList[i]
           row == RoleUpserted(role[r], d)
<1>1. d \in [ code : Codes, name : Names, description : Descriptions ]
  BY ListsTyped, ElementOfSeq
<1>2. role[r] \in RoleRow \cup {NoRole} /\ role[r].deleted \in BOOLEAN
  <2>1. role[r] \in RoleRow \cup {NoRole}
    BY DEF Sound, IInv, TypeOK
  <2>2. CASE role[r] \in RoleRow
    BY <2>1, <2>2 DEF RoleRow
  <2>3. CASE role[r] = NoRole
    BY <2>1, <2>3 DEF NoRole
  <2> QED BY <2>1, <2>2, <2>3
<1>3. row \in RoleRow /\ row.code = d.code /\ (row.system <=> row.code = "ADMIN")
      /\ row.name = d.name /\ row.deleted = role[r].deleted
  BY <1>1, <1>2 DEF RoleUpserted, RoleRow
<1>4. row # NoRole
  BY <1>1, <1>3, AccountsAssumption DEF NoRole
<1>5. RoleExists(r) => row.system = role[r].system
  <2>1. RoleExists(r) => (role[r].system <=> role[r].code = "ADMIN") /\ role[r] \in RoleRow
    BY <1>2 DEF Sound, AdminStands, RoleExists
  <2> QED BY <1>3, <2>1 DEF RoleRow
<1>6. row.system => ~row.deleted
  <2>1. CASE RoleExists(r)
    BY <1>3, <1>5, <2>1 DEF Sound, IInv, CodesMatch
  <2>2. CASE ~RoleExists(r)
    BY <1>3, <2>2 DEF RoleExists, NoRole
  <2> QED BY <2>1, <2>2
<1>7. ~row.system => row.code = CodeOf[row.name]
  BY <1>3, SeedAssumption, ListsTyped
<1> HIDE DEF row
<1> QED BY <1>3, <1>4, <1>5, <1>6, <1>7 DEF row

LEMMA UpsertRoleSound ==
  ASSUME Sound, UpsertRole
  PROVE  Sound'
<1>1. PICK i \in 1 .. Len(RoleList), r \in RoleIds :
        /\ at = i
        /\ RoleExists(r) => role[r].code = RoleList[i].code
        /\ ~RoleExists(r) => Coded(RoleList[i].code) = {}
        /\ role' = [role EXCEPT ![r] = RoleUpserted(role[r], RoleList[i])]
  BY RoleWritten
<1>2. PICK row : row = RoleUpserted(role[r], RoleList[i])
  OBVIOUS
<1>3. /\ row \in RoleRow /\ row # NoRole
      /\ row.code = RoleList[i].code
      /\ row.system <=> row.code = "ADMIN"
      /\ RoleExists(r) => row.system = role[r].system
      /\ row.system => ~row.deleted
      /\ ~row.system => row.code = CodeOf[row.name]
  BY <1>1, <1>2, RoleRowWritten
<1>4. IInv /\ TypeOK /\ CodesMatch /\ AdminStands
  BY DEF Sound, IInv
<1>5. role' = [role EXCEPT ![r] = row]
  BY <1>1, <1>2
<1>6. /\ UNCHANGED <<grants, user, target, known, modules, docs>>
      /\ UNCHANGED <<runs, edits, quiet, pc, args, seen>> /\ at' = at + 1
  BY DEF UpsertRole, Then
<1>7. role' \in [RoleIds -> RoleRow \cup {NoRole}] /\ RowsStay
  BY <1>1, <1>3, <1>4, <1>5, <1>6 DEF TypeOK, RowsStay, RoleExists, UserExists
<1>8. \A q \in RoleIds \ {r} : RoleExists(q) => role[q].code # row.code
  BY <1>1, <1>3, <1>4 DEF CodesMatch, Coded
<1>9. CodesMatch'
  BY <1>3, <1>4, <1>5, <1>8 DEF TypeOK, CodesMatch, RoleExists
<1>10. IInv'
  BY <1>4, <1>6, <1>7, <1>9, CallsFrozen DEF TypeOK
<1>11. AdminStands'
  <2>1. \A q \in RoleIds : RoleExists(q)' => (role'[q].system <=> role'[q].code = "ADMIN")
    BY <1>3, <1>4, <1>5 DEF TypeOK, AdminStands, RoleExists
  <2>2. AdminThere => AdminThere'
    BY <1>4, <1>7, AdminStays DEF AdminThere, Coded
  <2>3. (\E x \in UserIds : UserExists(x)') \/ (\E c \in Calls : pc'[c] \in Running) => AdminThere'
    BY <1>4, <1>6, <2>2 DEF AdminStands, UserExists
  <2> QED BY <2>1, <2>3 DEF AdminStands, Running
<1>12. AddressesDiffer'
  BY <1>6 DEF Sound, AddressesDiffer, UserExists
<1>13. SeedTypeOK'
  <2>1. at' \in 1 .. PermissionWork + 1
    BY <1>1, <1>6, ListsTyped DEF RoleWork
  <2> QED BY <1>1, <1>6, <2>1, EarlyPlaces DEF Sound, SeedTypeOK
<1> QED BY <1>10, <1>11, <1>12, <1>13 DEF Sound

LEMMA UpsertPermissionSound ==
  ASSUME Sound, UpsertPermission
  PROVE  Sound'
<1>1. PICK i \in 1 .. Len(PermissionList) : at = RoleWork + i /\ Script[at].of = PermissionList[i]
  BY Whereabouts DEF UpsertPermission
<1>2. /\ UNCHANGED <<role, grants, user, target, modules, docs>>
      /\ UNCHANGED <<runs, edits, quiet, pc, args, seen>> /\ at' = at + 1
      /\ known' = known \cup {PermissionList[i]}
  BY <1>1 DEF UpsertPermission, Then
<1>3. IInv' /\ AdminStands' /\ AddressesDiffer'
  BY <1>2, RolesAndUsersUntouched DEF Sound, IInv, TypeOK
<1>4. at' \in 1 .. PermissionWork + 1
  BY <1>1, <1>2, ListsTyped DEF PermissionWork
<1>5. SeedTypeOK'
  <2>1. known' \subseteq { PermissionList[j] : j \in DOMAIN PermissionList }
    BY <1>2, ListsTyped DEF Sound, SeedTypeOK
  <2>2. runs # << >>
    BY <1>1, ListsTyped DEF Sound, SeedTypeOK
  <2>3. /\ at' \in 0 .. Ended /\ at' # GrantWork + 4
        /\ \A j \in 1 .. Len(GrantList) : at' # PermissionWork + 2 * j
    BY <1>4, EarlyPlaces
  <2> QED BY <1>2, <2>1, <2>2, <2>3 DEF Sound, SeedTypeOK
<1> QED BY <1>3, <1>5 DEF Sound

LEMMA GrantPlaces ==
  ASSUME NEW i \in 1 .. Len(GrantList)
  PROVE  /\ Ended = GrantWork + 7
         /\ PermissionWork + 2 * i - 1 \in 1 .. GrantWork
         /\ PermissionWork + 2 * i \in 1 .. GrantWork
         /\ PermissionWork + 2 * i + 1 \in 1 .. GrantWork + 1
         /\ \A j \in 1 .. Len(GrantList) :
              /\ PermissionWork + 2 * i + 1 # PermissionWork + 2 * j
              /\ PermissionWork + 2 * i = PermissionWork + 2 * j => i = j
<1>1. Ended = GrantWork + 7
  BY ScriptLaidOut, ListsTyped DEF Ended
<1>2. GrantWork = PermissionWork + 2 * Len(GrantList) /\ PermissionWork \in Nat
  BY ListsTyped DEF GrantWork
<1>3. i \in Nat /\ 1 <= i /\ i <= Len(GrantList) /\ Len(GrantList) \in Nat
  BY ListsTyped
<1>4. /\ PermissionWork + 2 * i - 1 \in 1 .. GrantWork
      /\ PermissionWork + 2 * i \in 1 .. GrantWork
      /\ PermissionWork + 2 * i + 1 \in 1 .. GrantWork + 1
  BY <1>2, <1>3
<1>5. ASSUME NEW j \in 1 .. Len(GrantList)
      PROVE  /\ PermissionWork + 2 * i + 1 # PermissionWork + 2 * j
             /\ PermissionWork + 2 * i = PermissionWork + 2 * j => i = j
  BY <1>2, <1>3
<1> QED BY <1>1, <1>4, <1>5

LEMMA DeleteGrantsSound ==
  ASSUME Sound, DeleteGrants
  PROVE  Sound'
<1>1. PICK i \in 1 .. Len(GrantList) :
        at = PermissionWork + 2 * i - 1 /\ Script[at].of = GrantList[i]
  BY Whereabouts DEF DeleteGrants
<1> DEFINE found == Coded(GrantList[i].code)
<1>2. /\ UNCHANGED <<role, user, known, modules, docs>>
      /\ UNCHANGED <<runs, edits, quiet, pc, args, seen>>
      /\ \/ found = {} /\ at' = at + 2 /\ UNCHANGED <<grants, target>>
         \/ at' = at + 1 /\ \E r \in found : target' = r /\ grants' = GrantsDropped(r)
  BY <1>1 DEF DeleteGrants, Then
<1>3. grants' \subseteq Grant
  BY <1>2 DEF GrantsDropped, Sound, IInv, TypeOK
<1>4. IInv' /\ AdminStands' /\ AddressesDiffer'
  BY <1>2, <1>3, RolesAndUsersUntouched
<1>5. CASE at' = at + 2
  <2>1. at' = PermissionWork + 2 * i + 1
    BY <1>1, <1>5, ListsTyped
  <2>2. /\ at' \in 0 .. Ended /\ at' # GrantWork + 4
        /\ \A j \in 1 .. Len(GrantList) : at' # PermissionWork + 2 * j
    BY <2>1, GrantPlaces, ListsTyped
  <2>3. SeedTypeOK'
    <3>1. runs # << >>
      BY <1>1, GrantPlaces DEF Sound, SeedTypeOK
    <3> QED BY <1>2, <2>2, <3>1 DEF Sound, SeedTypeOK
  <2> QED BY <1>4, <2>3 DEF Sound
<1>6. CASE at' = at + 1 /\ target' \in RoleIds
  <2>1. at' = PermissionWork + 2 * i
    BY <1>1, <1>6, ListsTyped
  <2>2. at' \in 0 .. Ended /\ at' # GrantWork + 4
    BY <2>1, GrantPlaces, ListsTyped
  <2> QED BY <1>1, <1>2, <1>4, <1>6, <2>2, GrantPlaces DEF Sound, SeedTypeOK
<1> QED BY <1>2, <1>5, <1>6 DEF Coded

LEMMA CreateGrantsSound ==
  ASSUME Sound, CreateGrants
  PROVE  Sound'
<1>1. PICK i \in 1 .. Len(GrantList) :
        at = PermissionWork + 2 * i /\ Script[at].of = GrantList[i]
  BY Whereabouts DEF CreateGrants
<1>2. /\ UNCHANGED <<role, user, target, known, modules, docs>>
      /\ UNCHANGED <<runs, edits, quiet, pc, args, seen>> /\ at' = at + 1
      /\ grants' = grants \cup GrantsCreated(target, GrantList[i].perms)
  BY <1>1 DEF CreateGrants, Then
<1>3. target \in RoleIds /\ runs[Len(runs)] \in SeedRuns /\ known \subseteq Permissions
  <2>1. target \in RoleIds /\ runs \in Seq(SeedRuns) /\ runs # << >>
    BY <1>1, GrantPlaces DEF Sound, SeedTypeOK
  <2>2. runs[Len(runs)] \in SeedRuns
    BY <2>1
  <2>3. known \subseteq Permissions
    BY ListsTyped, ElementOfSeq DEF Sound, SeedTypeOK
  <2> QED BY <2>1, <2>2, <2>3
<1>4. grants' \subseteq Grant
  BY <1>2, <1>3 DEF GrantsCreated, Grant, Sound, IInv, TypeOK
<1>5. IInv' /\ AdminStands' /\ AddressesDiffer'
  BY <1>2, <1>4, RolesAndUsersUntouched
<1>6. at' = PermissionWork + 2 * i + 1
  BY <1>1, <1>2
<1>7. /\ at' \in 0 .. Ended /\ at' # GrantWork + 4
      /\ \A j \in 1 .. Len(GrantList) : at' # PermissionWork + 2 * j
  BY <1>6, GrantPlaces, ListsTyped
<1> QED BY <1>1, <1>2, <1>5, <1>7, GrantPlaces DEF Sound, SeedTypeOK

\* The statements behind the loops.
LEMMA LatePlaces ==
  ASSUME NEW k \in 1 .. 6
  PROVE  /\ Ended = GrantWork + 7
         /\ GrantWork + k + 1 \in 1 .. Ended
         /\ \A j \in 1 .. Len(GrantList) : GrantWork + k + 1 # PermissionWork + 2 * j
         /\ GrantWork + k + 1 = GrantWork + 4 => k = 3
<1>1. Ended = GrantWork + 7
  BY ScriptLaidOut, ListsTyped DEF Ended
<1> QED BY <1>1, ListsTyped DEF GrantWork

LEMMA ManualStatementsSound ==
  ASSUME Sound, SwitchOffLegacy \/ UpsertModules \/ FindAdminRole \/ RemoveDocs \/ UpsertDocs
  PROVE  Sound'
<1>1. PICK k \in 1 .. 6 : /\ at = GrantWork + k
                          /\ k = 3 <=> FindAdminRole
  <2>1. CASE SwitchOffLegacy
    BY <2>1, Whereabouts DEF SwitchOffLegacy, FindAdminRole, Doing
  <2>2. CASE UpsertModules
    BY <2>2, Whereabouts DEF UpsertModules, FindAdminRole, Doing
  <2>3. CASE FindAdminRole
    BY <2>3, Whereabouts DEF FindAdminRole
  <2>4. CASE RemoveDocs
    BY <2>4, Whereabouts DEF RemoveDocs, FindAdminRole, Doing
  <2>5. CASE UpsertDocs
    BY <2>5, Whereabouts DEF UpsertDocs, FindAdminRole, Doing
  <2> QED BY <2>1, <2>2, <2>3, <2>4, <2>5
<1>2. /\ UNCHANGED <<role, grants, user, known>>
      /\ UNCHANGED <<runs, edits, quiet, pc, args, seen>> /\ at' = at + 1
  BY DEF SwitchOffLegacy, UpsertModules, FindAdminRole, RemoveDocs, UpsertDocs, Then
<1>3. IInv' /\ AdminStands' /\ AddressesDiffer' /\ Coded("ADMIN")' = Coded("ADMIN")
  BY <1>2, RolesAndUsersUntouched DEF Sound, IInv, TypeOK
<1>4. modules' \in [Slots -> { "none", "on", "off" }]
  BY DEF SwitchOffLegacy, UpsertModules, FindAdminRole, RemoveDocs, UpsertDocs, Sound, SeedTypeOK
<1>5. docs' \in [RemovedSlugs \cup DocSlugs -> DocRows \cup {NoDoc}]
  BY DEF SwitchOffLegacy, UpsertModules, FindAdminRole, RemoveDocs, UpsertDocs, Sound, SeedTypeOK,
         DocRows
<1>6. k = 3 => target' \in Coded("ADMIN")
  BY <1>1 DEF FindAdminRole
<1>7. at' = GrantWork + k + 1
  BY <1>1, <1>2
<1>8. runs # << >>
  BY <1>1, ListsTyped DEF Sound, SeedTypeOK
<1>9. /\ at' \in 0 .. Ended
      /\ \A j \in 1 .. Len(GrantList) : at' # PermissionWork + 2 * j
      /\ at' = GrantWork + 4 => k = 3
  BY <1>7, LatePlaces, ListsTyped
<1>10. SeedTypeOK'
  BY <1>2, <1>3, <1>4, <1>5, <1>6, <1>8, <1>9 DEF Sound, SeedTypeOK
<1> QED BY <1>3, <1>10 DEF Sound

\* The row the administrator's upsert writes: the one with the address, or a new one.
LEMMA AdminWritten ==
  ASSUME UpsertAdmin
  PROVE  \E x \in UserIds :
           /\ UserExists(x) => user[x].email = AdminEmail
           /\ ~UserExists(x) => \A y \in UserIds : UserExists(y) => user[y].email # AdminEmail
           /\ user' = [user EXCEPT ![x] = AdminUpserted(user[x])]
<1> DEFINE found == { y \in UserIds : UserExists(y) /\ user[y].email = AdminEmail }
           x == IF found = {} THEN FreshUser ELSE CHOOSE y \in found : TRUE
<1>1. found # {} \/ UserIdLeft
  BY DEF UpsertAdmin
<1>2. user' = [user EXCEPT ![x] = AdminUpserted(user[x])]
  BY DEF UpsertAdmin
<1>3. CASE found = {}
  <2>1. x \in UserIds /\ ~UserExists(x)
    BY <1>1, <1>3 DEF UserIdLeft, FreshUser
  <2> QED BY <1>2, <1>3, <2>1
<1>4. CASE found # {}
  <2>1. x \in found
    BY <1>4
  <2> QED BY <1>2, <2>1
<1> QED BY <1>3, <1>4

LEMMA UpsertAdminSound ==
  ASSUME Sound, UpsertAdmin
  PROVE  Sound'
<1>1. PICK x \in UserIds :
        /\ UserExists(x) => user[x].email = AdminEmail
        /\ ~UserExists(x) => \A y \in UserIds : UserExists(y) => user[y].email # AdminEmail
        /\ user' = [user EXCEPT ![x] = AdminUpserted(user[x])]
  BY AdminWritten
<1>2. PICK row : row = AdminUpserted(user[x])
  OBVIOUS
<1>3. /\ UNCHANGED <<role, grants, target, known, modules, docs>>
      /\ UNCHANGED <<runs, edits, quiet, pc, args, seen>> /\ at' = at + 1
      /\ at = GrantWork + 4
  BY Whereabouts DEF UpsertAdmin, Then
<1>4. IInv /\ TypeOK /\ AdminStands /\ AddressesDiffer /\ target \in Coded("ADMIN")
  BY <1>3 DEF Sound, IInv, SeedTypeOK
<1>5. row \in UserRow /\ row # NoUser /\ row.email = AdminEmail
  <2>1. row \in UserRow /\ row.email = AdminEmail
    BY <1>2, <1>4, SeedAssumption DEF AdminUpserted, UserRow, Coded
  <2> QED BY <2>1, SeedAssumption, AccountsAssumption DEF NoUser
<1>6. user' = [user EXCEPT ![x] = row]
  BY <1>1, <1>2
<1>7. user' \in [UserIds -> UserRow \cup {NoUser}] /\ RowsStay
  BY <1>3, <1>4, <1>5, <1>6 DEF TypeOK, RowsStay, RoleExists, UserExists
<1>8. IInv'
  <2>1. CodesMatch'
    BY <1>3 DEF Sound, IInv, CodesMatch, RoleExists
  <2> QED BY <1>3, <1>4, <1>7, <2>1, CallsFrozen DEF TypeOK
<1>9. Coded("ADMIN")' = Coded("ADMIN")
  BY <1>3 DEF Coded, RoleExists
<1>10. AdminStands'
  BY <1>3, <1>4, <1>9 DEF AdminStands, AdminThere, RoleExists
<1>11. AddressesDiffer'
  <2>1. \A y \in UserIds \ {x} : UserExists(y) => user[y].email # AdminEmail
    BY <1>1, <1>4 DEF AddressesDiffer
  <2> QED BY <1>4, <1>5, <1>6, <2>1 DEF TypeOK, AddressesDiffer, UserExists
<1>12. SeedTypeOK'
  <2>1. runs # << >>
    BY <1>3, ListsTyped DEF Sound, SeedTypeOK
  <2>2. at' = GrantWork + 4 + 1 /\ at' \in 0 .. Ended /\ at' # GrantWork + 4
        /\ \A j \in 1 .. Len(GrantList) : at' # PermissionWork + 2 * j
    BY <1>3, LatePlaces, ListsTyped
  <2> QED BY <1>3, <2>1, <2>2 DEF Sound, SeedTypeOK
<1> QED BY <1>8, <1>10, <1>11, <1>12 DEF Sound

----------------------------------------------------------------------------
(* Everybody else.                                                         *)

\* Who takes a step is let in by a user or was before.
LEMMA ServiceNeedsAdmin ==
  ASSUME Sound, Next
  PROVE  AdminThere
<1>1. CASE \E c \in Calls, a \in Requests : Start(c, a)
  BY <1>1, RequestFields DEF Start, ActiveUser, Sound, AdminStands
<1>2. CASE \E c \in Calls : Step(c) \/ Fail(c)
  <2>1. PICK c \in Calls : pc[c] \in Running
    BY <1>2 DEF Step, Fail, RolesStep, UsersStep, CheckNewRole, InsertRole, ReadRole, CheckCode,
       WriteRole, CountUsers, DeleteRole, BeginReplace, ReplacePermissions, CheckEmail, ReadUser,
       FindRoleByCode, InsertUser, WriteUser, DeleteUser, At, Running
  <2> QED BY <2>1 DEF Sound, AdminStands
<1> QED BY <1>1, <1>2 DEF Next

\* The index on the addresses, and no route that changes one.
LEMMA AddressesKept ==
  ASSUME IInv, AddressesDiffer, Next
  PROVE  AddressesDiffer'
<1>0. TypeOK
  BY DEF IInv
<1>1. CASE UNCHANGED user
  BY <1>1 DEF AddressesDiffer, UserExists
<1>2. ASSUME NEW c \in Calls, InsertUser(c), ~Refuse(c) PROVE AddressesDiffer'
  <2>1. PICK x \in UserIds, row \in UserRow \cup {[ email |-> args[c].email, role |-> seen[c].id,
                                                   active |-> TRUE, deleted |-> FALSE ]} :
          /\ ~UserExists(x) /\ user' = [user EXCEPT ![x] = row] /\ row.email = args[c].email
    BY <1>2 DEF InsertUser
  <2>2. \A y \in UserIds : UserExists(y) => user[y].email # row.email
    BY <1>2, <2>1 DEF InsertUser, EmailTaken
  <2> QED BY <1>0, <2>1, <2>2 DEF AddressesDiffer, UserExists, TypeOK
<1>3. ASSUME NEW c \in Calls, WriteUser(c) \/ DeleteUser(c) PROVE AddressesDiffer'
  <2> DEFINE x == args[c].user
  <2>1. x \in UserIds /\ user[x] \in UserRow /\ UserExists(x)
    BY <1>0, <1>3, RequestFields, RowsTyped
       DEF IInv, CallsKnow, Knows, Running, WriteUser, DeleteUser, At
  <2>2. PICK row : row.email = user[x].email /\ user' = [user EXCEPT ![x] = row]
    <3>1. CASE WriteUser(c)
      <4>1. Patched(c, user[x], args[c]).email = user[x].email
        BY <2>1 DEF Patched, UserRow
      <4> QED BY <3>1, <4>1 DEF WriteUser
    <3>2. CASE DeleteUser(c)
      <4>1. [user[x] EXCEPT !.deleted = TRUE, !.active = FALSE].email = user[x].email
        BY <2>1 DEF UserRow
      <4>2. user' = [user EXCEPT ![x] = [user[x] EXCEPT !.deleted = TRUE, !.active = FALSE]]
        BY <1>0, <2>1, <3>2 DEF DeleteUser, TypeOK
      <4> QED BY <4>1, <4>2
    <3> QED BY <1>3, <3>1, <3>2
  <2> QED BY <1>0, <2>1, <2>2 DEF AddressesDiffer, UserExists, TypeOK
<1>4. ASSUME NEW c \in Calls, Refuse(c) \/ Fail(c) PROVE UNCHANGED user
  BY <1>4 DEF Refuse, Fail
<1>5. ASSUME NEW c \in Calls, Step(c), ~InsertUser(c), ~WriteUser(c), ~DeleteUser(c)
      PROVE  UNCHANGED user
  BY <1>5 DEF Step, RolesStep, UsersStep, CheckNewRole, InsertRole, ReadRole, CheckCode, WriteRole,
     CountUsers, DeleteRole, BeginReplace, ReplacePermissions, CheckEmail, ReadUser, FindRoleByCode,
     Reading, Refuse
<1>6. ASSUME NEW c \in Calls, NEW a \in Requests, Start(c, a) PROVE UNCHANGED user
  BY <1>6 DEF Start
<1> QED BY <1>1, <1>2, <1>3, <1>4, <1>5, <1>6 DEF Next

LEMMA ServiceSound ==
  ASSUME Sound, ServiceStep
  PROVE  Sound'
<1>1. /\ IInv /\ AdminStands /\ AdminThere /\ Next
      /\ UNCHANGED <<at, runs, target, known, modules, docs, edits>>
      /\ quiet' \in BOOLEAN
  BY ServiceNeedsAdmin DEF ServiceStep, Sound, SeedTypeOK
<1>2. IInv' /\ RowsStay /\ NewRolesCustom
  BY <1>1, StepKeeps, StepKeepsRows
<1>3. \A r \in RoleIds : r \in Coded("ADMIN") => r \in Coded("ADMIN")'
  BY <1>1, <1>2, AdminStays
<1>4. PICK admin \in RoleIds : admin \in Coded("ADMIN") /\ admin \in Coded("ADMIN")'
  BY <1>1, <1>3 DEF AdminThere, Coded
<1>5. \A r \in RoleIds : RoleExists(r)' => (role'[r].system <=> role'[r].code = "ADMIN")
  <2> SUFFICES ASSUME NEW r \in RoleIds, RoleExists(r)'
               PROVE  role'[r].system <=> role'[r].code = "ADMIN"
    BY DEF RoleExists
  <2>1. ASSUME role'[r].system PROVE role'[r].code = "ADMIN"
    BY <1>1, <1>2, <2>1 DEF AdminStands, RowsStay, NewRolesCustom
  <2>2. ASSUME role'[r].code = "ADMIN" PROVE role'[r].system
    <3>1. r = admin
      BY <1>2, <1>4, <2>2 DEF IInv, CodesMatch, Coded
    <3>2. RoleExists(admin) /\ role[admin].code = "ADMIN" /\ role[admin].system
      BY <1>1, <1>4 DEF Coded, AdminStands
    <3> QED BY <1>2, <3>1, <3>2 DEF RowsStay
  <2> QED BY <2>1, <2>2, Zenon
<1>6. AdminStands'
  BY <1>4, <1>5 DEF AdminStands, AdminThere
<1>7. AddressesDiffer'
  BY <1>1, AddressesKept DEF Sound
<1>8. SeedTypeOK'
  BY <1>1, <1>3 DEF Sound, SeedTypeOK, Coded
<1> QED BY <1>2, <1>6, <1>7, <1>8 DEF Sound

LEMMA EditSound ==
  ASSUME Sound, EditManual
  PROVE  Sound'
<1>1. /\ UNCHANGED <<vars, at, runs, target, known>> /\ quiet' = FALSE
  BY DEF EditManual
<1>2. IInv' /\ AdminStands' /\ AddressesDiffer' /\ Coded("ADMIN")' = Coded("ADMIN")
  BY <1>1, RolesAndUsersUntouched DEF vars, Sound, IInv, TypeOK
<1>3. docs' \in [RemovedSlugs \cup DocSlugs -> DocRows \cup {NoDoc}]
  <2>1. [ status |-> "DRAFT", content |-> "edited" ] \in DocRows
    BY DEF DocRows
  <2>2. docs \in [RemovedSlugs \cup DocSlugs -> DocRows \cup {NoDoc}]
    BY DEF Sound, SeedTypeOK
  <2>3. ASSUME NEW d \in DOMAIN docs, docs[d] # NoDoc
        PROVE  /\ [docs[d] EXCEPT !.content = "edited"] \in DocRows
               /\ \A s \in { "DRAFT", "PUBLISHED" } : [docs[d] EXCEPT !.status = s] \in DocRows
    <3>1. docs[d] \in DocRows
      BY <2>2, <2>3
    <3> QED BY <3>1 DEF DocRows
  <2>4. \/ UNCHANGED docs
        \/ \E d \in DOMAIN docs : docs' = [docs EXCEPT ![d] = [ status |-> "DRAFT", content |-> "edited" ]]
        \/ \E d \in DOMAIN docs :
             /\ docs[d] # NoDoc
             /\ \/ docs' = [docs EXCEPT ![d] = [docs[d] EXCEPT !.content = "edited"]]
                \/ \E s \in { "DRAFT", "PUBLISHED" } :
                     docs' = [docs EXCEPT ![d] = [docs[d] EXCEPT !.status = s]]
    BY Zenon DEF EditManual
  <2> QED BY <2>1, <2>2, <2>3, <2>4
<1>4. modules' \in [Slots -> { "none", "on", "off" }]
  BY DEF EditManual, Sound, SeedTypeOK
<1>5. SeedTypeOK'
  BY <1>1, <1>2, <1>3, <1>4 DEF Sound, SeedTypeOK
<1> QED BY <1>2, <1>5 DEF Sound

\* A run begins, or stops where it is.
LEMMA StartSound ==
  ASSUME Sound, CrashSeed \/ (\E s \in SeedRuns : StartSeed(s))
  PROVE  Sound'
<1>1. UNCHANGED <<vars, known, modules, docs>> /\ quiet' \in BOOLEAN
  BY DEF CrashSeed, StartSeed, Sound, SeedTypeOK
<1>2. IInv' /\ AdminStands' /\ AddressesDiffer'
  BY <1>1, RolesAndUsersUntouched DEF vars, Sound, IInv, TypeOK
<1>3. CASE CrashSeed
  <2>1. at' = 0 /\ UNCHANGED <<runs, target>>
    BY <1>3 DEF CrashSeed
  <2>2. \A j \in 1 .. Len(GrantList) : at' # PermissionWork + 2 * j
    BY <2>1, ListsTyped
  <2>3. at' \in 0 .. Ended /\ at' # GrantWork + 4 /\ ~(at' > 0)
    BY <2>1, LatePlaces, ListsTyped
  <2> QED BY <1>1, <1>2, <2>1, <2>2, <2>3 DEF Sound, SeedTypeOK
<1>4. CASE \E s \in SeedRuns : StartSeed(s)
  <2>1. PICK s \in SeedRuns : at' = 1 /\ runs' = Append(runs, s) /\ target' = None
    BY <1>4 DEF StartSeed
  <2>2. runs' \in Seq(SeedRuns) /\ runs' # << >>
    BY <2>1 DEF Sound, SeedTypeOK
  <2>3. 1 \in 1 .. PermissionWork + 1
    BY ListsTyped
  <2>4. /\ at' \in 0 .. Ended /\ at' # GrantWork + 4
        /\ \A j \in 1 .. Len(GrantList) : at' # PermissionWork + 2 * j
    BY <2>1, <2>3, EarlyPlaces
  <2> QED BY <1>1, <1>2, <2>2, <2>4 DEF Sound, SeedTypeOK
<1> QED BY <1>3, <1>4

LEMMA SeedStepSound ==
  ASSUME Sound, SeedStep
  PROVE  Sound'
BY UpsertRoleSound, UpsertPermissionSound, DeleteGrantsSound, CreateGrantsSound,
   ManualStatementsSound, UpsertAdminSound DEF SeedStep

LEMMA SoundKept ==
  ASSUME Sound, [SeedNext]_allVars
  PROVE  Sound'
<1>1. CASE UNCHANGED allVars
  <2>1. UNCHANGED <<vars, at, runs, target, known, modules, docs, quiet>>
    BY <1>1 DEF allVars, seedVars
  <2>2. IInv' /\ AdminStands' /\ AddressesDiffer' /\ Coded("ADMIN")' = Coded("ADMIN")
    BY <2>1, RolesAndUsersUntouched DEF vars, Sound, IInv, TypeOK
  <2> QED BY <2>1, <2>2 DEF Sound, SeedTypeOK
<1> QED BY <1>1, SeedStepSound, StartSound, ServiceSound, EditSound DEF SeedNext

----------------------------------------------------------------------------
(* How far a run that is alone has come.                                   *)

LEMMA RolesHold ==
  ASSUME UNCHANGED role
  PROVE  /\ \A code : Coded(code)' = Coded(code)
         /\ \A i : RoleStands(i)' <=> RoleStands(i)
<1>1. \A code : Coded(code)' = Coded(code)
  BY DEF Coded, RoleExists
<1> QED BY <1>1 DEF RoleStands, RoleUpserted

\* Where the tables are as they were, and the place is.
LEMMA ReachedUntouched ==
  ASSUME Reached, UNCHANGED <<role, grants, user, known, modules, docs, at, target>>
  PROVE  Reached'
<1>1. \A code : Coded(code)' = Coded(code)
  BY RolesHold
<1>2. RolesReached'
  BY RolesHold DEF Reached, RolesReached
<1>3. PermissionsReached'
  BY DEF Reached, PermissionsReached, RoleWork
<1>4. GrantsReached'
  BY <1>1 DEF Reached, GrantsReached, GrantsStand, PermsOf
<1>5. RestReached'
  BY <1>1 DEF Reached, RestReached, LegacyOff, ModulesOn, AdminSeeded, DocsGone, DocsPublished
<1> QED BY <1>2, <1>3, <1>4, <1>5 DEF Reached

\* At the beginning nothing is asked.
LEMMA NothingReached ==
  ASSUME at' \in {0, 1}
  PROVE  Reached'
<1>1. RolesReached'
  BY DEF RolesReached
<1>2. PermissionsReached'
  BY ListsTyped DEF PermissionsReached
<1>3. GrantsReached'
  BY ListsTyped DEF GrantsReached
<1>4. RestReached'
  BY ListsTyped DEF RestReached
<1> QED BY <1>1, <1>2, <1>3, <1>4 DEF Reached

LEMMA UpsertRoleReaches ==
  ASSUME Sound, Reached, UpsertRole
  PROVE  Reached'
<1>1. PICK i \in 1 .. Len(RoleList), r \in RoleIds :
        /\ at = i
        /\ RoleExists(r) => role[r].code = RoleList[i].code
        /\ ~RoleExists(r) => Coded(RoleList[i].code) = {}
        /\ role' = [role EXCEPT ![r] = RoleUpserted(role[r], RoleList[i])]
  BY RoleWritten
<1>2. PICK row : row = RoleUpserted(role[r], RoleList[i])
  OBVIOUS
<1>3. row # NoRole /\ row.code = RoleList[i].code
  BY <1>1, <1>2, RoleRowWritten
<1>4. role' = [role EXCEPT ![r] = row] /\ DOMAIN role = RoleIds /\ at' = at + 1
  BY <1>1, <1>2 DEF Sound, IInv, TypeOK, UpsertRole, Then
<1>5. RoleStands(i)'
  <2>1. r \in Coded(RoleList[i].code)' /\ role'[r] = row
    BY <1>3, <1>4 DEF Coded, RoleExists
  <2>2. row = RoleUpserted(row, RoleList[i])
    BY <1>2 DEF RoleUpserted
  <2> QED BY <2>1, <2>2 DEF RoleStands, RoleUpserted
<1>6. ASSUME NEW j \in 1 .. Len(RoleList), at' > j PROVE RoleStands(j)'
  <2>1. CASE j = i
    BY <1>5, <2>1
  <2>2. CASE j # i
    <3>1. at > j /\ RoleList[j].code # RoleList[i].code
      BY <1>1, <1>4, <1>6, <2>2, SeedAssumption, ListsTyped DEF Distinct
    <3>2. PICK q \in Coded(RoleList[j].code) : role[q] = RoleUpserted(role[q], RoleList[j])
      BY <3>1 DEF Reached, RolesReached, RoleStands
    <3>3. q \in RoleIds /\ RoleExists(q) /\ role[q].code = RoleList[j].code
      BY <3>2 DEF Coded
    <3>4. q # r
      BY <1>1, <3>1, <3>3
    <3>5. role'[q] = role[q]
      BY <1>4, <3>3, <3>4
    <3>6. q \in Coded(RoleList[j].code)'
      BY <3>3, <3>5 DEF Coded, RoleExists
    <3> QED BY <3>2, <3>5, <3>6 DEF RoleStands, RoleUpserted
  <2> QED BY <2>1, <2>2
<1>7. at' \in 1 .. RoleWork + 1
  BY <1>1, <1>4, ListsTyped DEF RoleWork
<1>8. PermissionsReached'
  BY <1>7, ListsTyped DEF PermissionsReached
<1>9. GrantsReached'
  BY <1>7, ListsTyped DEF GrantsReached
<1>10. RestReached'
  BY <1>7, ListsTyped DEF RestReached
<1> QED BY <1>6, <1>8, <1>9, <1>10 DEF Reached, RolesReached

LEMMA UpsertPermissionReaches ==
  ASSUME Sound, Reached, UpsertPermission
  PROVE  Reached'
<1>1. PICK i \in 1 .. Len(PermissionList) : at = RoleWork + i /\ Script[at].of = PermissionList[i]
  BY Whereabouts DEF UpsertPermission
<1>2. UNCHANGED role /\ at' = at + 1 /\ known' = known \cup {PermissionList[i]}
  BY <1>1 DEF UpsertPermission, Then
<1>3. RolesReached'
  <2>1. \A j \in 1 .. Len(RoleList) : at > j
    BY <1>1, ListsTyped DEF RoleWork
  <2> QED BY <1>2, <2>1, RolesHold DEF Reached, RolesReached
<1>4. PermissionsReached'
  <2> SUFFICES ASSUME NEW j \in 1 .. Len(PermissionList), at' > RoleWork + j
               PROVE  PermissionList[j] \in known'
    BY DEF PermissionsReached
  <2>1. j = i \/ at > RoleWork + j
    BY <1>1, <1>2, ListsTyped
  <2> QED BY <1>2, <2>1 DEF Reached, PermissionsReached
<1>5. at' \in 1 .. PermissionWork + 1
  BY <1>1, <1>2, ListsTyped DEF PermissionWork
<1>6. GrantsReached'
  BY <1>5, ListsTyped DEF GrantsReached
<1>7. RestReached'
  BY <1>5, ListsTyped DEF RestReached
<1> QED BY <1>3, <1>4, <1>6, <1>7 DEF Reached

\* Past the first two loops: what they wrote is not written again.
LEMMA LoopsBehind ==
  ASSUME Reached, UNCHANGED <<role, known>>, at \in Nat, at > PermissionWork
  PROVE  RolesReached' /\ PermissionsReached'
<1>1. \A j \in 1 .. Len(RoleList) : at > j
  BY ListsTyped DEF RoleWork, PermissionWork
<1>2. \A j \in 1 .. Len(PermissionList) : at > RoleWork + j
  BY ListsTyped DEF PermissionWork
<1> QED BY <1>1, <1>2, RolesHold DEF Reached, RolesReached, PermissionsReached

\* Two lists are about two roles.
LEMMA ListsApart ==
  ASSUME NEW i \in 1 .. Len(GrantList), NEW j \in 1 .. Len(GrantList), i # j,
         NEW r \in Coded(GrantList[i].code)
  PROVE  r \notin Coded(GrantList[j].code)
BY SeedAssumption, ListsTyped DEF Distinct, Coded

\* Of whose permissions a deletion or an insertion is.
LEMMA GrantsOfOthers ==
  ASSUME NEW r, NEW by, NEW list, NEW q, q # r,
         \/ grants' = GrantsDropped(r)
         \/ grants' = grants \cup [ role : {r}, perm : list, by : {by} ]
  PROVE  /\ { g \in grants' : g.role = q } = { g \in grants : g.role = q }
         /\ PermsOf(q)' = PermsOf(q)
<1>1. { g \in grants' : g.role = q } = { g \in grants : g.role = q }
  BY DEF GrantsDropped
<1> QED BY <1>1 DEF PermsOf

LEMMA DeleteGrantsReaches ==
  ASSUME Sound, Reached, DeleteGrants
  PROVE  Reached'
<1>1. PICK i \in 1 .. Len(GrantList) :
        at = PermissionWork + 2 * i - 1 /\ Script[at].of = GrantList[i]
  BY Whereabouts DEF DeleteGrants
<1> DEFINE found == Coded(GrantList[i].code)
<1>2. /\ UNCHANGED <<role, user, known, modules, docs>>
      /\ \/ found = {} /\ at' = at + 2 /\ UNCHANGED <<grants, target>>
         \/ at' = at + 1 /\ \E r \in found : target' = r /\ grants' = GrantsDropped(r)
  BY <1>1 DEF DeleteGrants, Then
<1>3. at \in Nat /\ at > PermissionWork /\ at' \in Nat /\ at' <= GrantWork + 1
  BY <1>1, <1>2, GrantPlaces, ListsTyped
<1>4. RolesReached' /\ PermissionsReached'
  <2>1. at' > PermissionWork
    BY <1>2, <1>3, ListsTyped
  <2> QED BY <1>2, <1>3, <2>1, LoopsBehind DEF RolesReached, PermissionsReached
<1>5. RestReached'
  BY <1>3, ListsTyped DEF RestReached
<1>6. \A code : Coded(code)' = Coded(code)
  BY <1>2, RolesHold
<1>7. CASE found = {} /\ at' = at + 2 /\ UNCHANGED <<grants, target>>
  <2> SUFFICES ASSUME NEW j \in 1 .. Len(GrantList)
               PROVE  /\ at' > PermissionWork + 2 * j => GrantsStand(j)'
                      /\ at' # PermissionWork + 2 * j
    BY <1>4, <1>5 DEF Reached, GrantsReached
  <2>1. at' = PermissionWork + 2 * i + 1
    BY <1>1, <1>7, ListsTyped
  <2>2. at' # PermissionWork + 2 * j
    BY <2>1, GrantPlaces
  <2>3. ASSUME at' > PermissionWork + 2 * j PROVE GrantsStand(j)'
    <3>1. j = i \/ at > PermissionWork + 2 * j
      BY <1>1, <2>1, <2>3, ListsTyped
    <3>2. GrantsStand(j)
      BY <1>7, <3>1 DEF Reached, GrantsReached, GrantsStand
    <3> QED BY <1>6, <1>7, <3>2 DEF GrantsStand, PermsOf
  <2> QED BY <2>2, <2>3
<1>8. ASSUME at' = at + 1, NEW r \in found, target' = r, grants' = GrantsDropped(r)
      PROVE  Reached'
  <2> SUFFICES ASSUME NEW j \in 1 .. Len(GrantList)
               PROVE  /\ at' > PermissionWork + 2 * j => GrantsStand(j)'
                      /\ at' = PermissionWork + 2 * j =>
                           target' \in Coded(GrantList[j].code)' /\ PermsOf(target)' = {}
    BY <1>4, <1>5 DEF Reached, GrantsReached
  <2>1. at' = PermissionWork + 2 * i
    BY <1>1, <1>8, ListsTyped
  <2>2. ASSUME at' = PermissionWork + 2 * j
        PROVE  target' \in Coded(GrantList[j].code)' /\ PermsOf(target)' = {}
    <3>1. j = i
      BY <2>1, <2>2, GrantPlaces
    <3>2. PermsOf(target)' = {}
      BY <1>8 DEF PermsOf, GrantsDropped
    <3> QED BY <1>6, <1>8, <3>1, <3>2
  <2>3. ASSUME at' > PermissionWork + 2 * j PROVE GrantsStand(j)'
    <3>1. at > PermissionWork + 2 * j /\ i # j
      BY <1>1, <2>1, <2>3, ListsTyped
    <3>2. GrantsStand(j)
      BY <3>1 DEF Reached, GrantsReached
    <3>3. \A q \in Coded(GrantList[j].code) : q # r
      BY <3>1, <1>8, ListsApart
    <3>4. \A q \in Coded(GrantList[j].code) : PermsOf(q)' = PermsOf(q)
      BY <1>8, <3>3, GrantsOfOthers
    <3> QED BY <1>6, <3>2, <3>4 DEF GrantsStand
  <2> QED BY <2>2, <2>3
<1> QED BY <1>2, <1>7, <1>8

LEMMA CreateGrantsReaches ==
  ASSUME Sound, Reached, CreateGrants
  PROVE  Reached'
<1>1. PICK i \in 1 .. Len(GrantList) :
        at = PermissionWork + 2 * i /\ Script[at].of = GrantList[i]
  BY Whereabouts DEF CreateGrants
<1> DEFINE perms == GrantList[i].perms
<1>2. /\ UNCHANGED <<role, user, target, known, modules, docs>> /\ at' = at + 1
      /\ grants' = grants \cup GrantsCreated(target, perms)
  BY <1>1 DEF CreateGrants, Then
<1>3. at \in Nat /\ at > PermissionWork /\ at' \in Nat /\ at' <= GrantWork + 1
  BY <1>1, <1>2, GrantPlaces, ListsTyped
<1>4. RolesReached' /\ PermissionsReached'
  <2>1. at' > PermissionWork
    BY <1>2, <1>3, ListsTyped
  <2> QED BY <1>2, <1>3, <2>1, LoopsBehind DEF RolesReached, PermissionsReached
<1>5. RestReached'
  BY <1>3, ListsTyped DEF RestReached
<1>6. \A code : Coded(code)' = Coded(code)
  BY <1>2, RolesHold
<1>7. target \in Coded(GrantList[i].code) /\ PermsOf(target) = {}
  BY <1>1 DEF Reached, GrantsReached
<1>8. perms \subseteq known
  <2>1. perms \subseteq { PermissionList[k] : k \in DOMAIN PermissionList }
    <3>1. GrantList[i] \in [ code : OwnCodes,
                             perms : SUBSET { PermissionList[k] : k \in DOMAIN PermissionList } ]
      BY SeedAssumption, ElementOfSeq
    <3> QED BY <3>1
  <2>2. \A k \in 1 .. Len(PermissionList) : PermissionList[k] \in known
    <3>1. \A k \in 1 .. Len(PermissionList) : at > RoleWork + k
      BY <1>3, ListsTyped DEF PermissionWork
    <3> QED BY <3>1 DEF Reached, PermissionsReached
  <2> QED BY <2>1, <2>2, ListsTyped
<1>9. grants' = grants \cup [ role : {target}, perm : perms, by : {runs[Len(runs)]} ]
  <2>1. (perms \cap known) \ PermsOf(target) = perms
    BY <1>7, <1>8
  <2> QED BY <1>2, <2>1 DEF GrantsCreated
<1>10. PermsOf(target)' = perms
  <2>1. \A g \in grants : g.role # target
    BY <1>7 DEF PermsOf
  <2>2. { g \in grants' : g.role = target } = [ role : {target}, perm : perms, by : {runs[Len(runs)]} ]
    BY <1>9, <2>1
  <2>3. { g.perm : g \in [ role : {target}, perm : perms, by : {runs[Len(runs)]} ] } = perms
    <3>1. ASSUME NEW p \in perms
          PROVE  \E g \in [ role : {target}, perm : perms, by : {runs[Len(runs)]} ] : g.perm = p
      <4>1. [ role |-> target, perm |-> p, by |-> runs[Len(runs)] ]
              \in [ role : {target}, perm : perms, by : {runs[Len(runs)]} ]
        OBVIOUS
      <4> QED BY <4>1
    <3> QED BY <3>1
  <2> QED BY <1>2, <2>2, <2>3 DEF PermsOf
<1>11. target \in RoleIds /\ \A q \in Coded(GrantList[i].code) : q = target
  BY <1>7 DEF Sound, IInv, CodesMatch, Coded
<1>12. ASSUME NEW j \in 1 .. Len(GrantList), at' > PermissionWork + 2 * j
       PROVE  GrantsStand(j)'
  <2>1. CASE j = i
    BY <1>2, <1>6, <1>10, <1>11, <2>1 DEF GrantsStand
  <2>2. CASE j # i
    <3>1. at > PermissionWork + 2 * j
      BY <1>1, <1>2, <1>12, <2>2, ListsTyped
    <3>2. GrantsStand(j)
      BY <3>1 DEF Reached, GrantsReached
    <3>3. \A q \in Coded(GrantList[j].code) : q # target
      BY <2>2, <1>7, ListsApart
    <3>4. \A q \in Coded(GrantList[j].code) : PermsOf(q)' = PermsOf(q)
      BY <1>9, <3>3, GrantsOfOthers
    <3> QED BY <1>6, <3>2, <3>4 DEF GrantsStand
  <2> QED BY <2>1, <2>2
<1>13. \A j \in 1 .. Len(GrantList) : at' # PermissionWork + 2 * j
  BY <1>1, <1>2, GrantPlaces
<1>14. GrantsReached'
  BY <1>12, <1>13 DEF GrantsReached
<1> QED BY <1>4, <1>5, <1>14 DEF Reached

\* Behind the loops roles and permissions are as they were.
LEMMA LoopsDone ==
  ASSUME Reached, NEW k \in 1 .. 6, at = GrantWork + k, at' = at + 1,
         UNCHANGED <<role, grants, known>>
  PROVE  RolesReached' /\ PermissionsReached' /\ GrantsReached'
<1>1. at \in Nat /\ at > PermissionWork /\ at' \in Nat /\ at' > PermissionWork
  BY ListsTyped
<1>2. RolesReached' /\ PermissionsReached'
  BY <1>1, LoopsBehind DEF RolesReached, PermissionsReached
<1>3. \A j \in 1 .. Len(GrantList) :
        at > PermissionWork + 2 * j /\ at' # PermissionWork + 2 * j
  BY ListsTyped DEF GrantWork
<1>4. \A j \in 1 .. Len(GrantList) : GrantsStand(j)'
  <2>1. \A j \in 1 .. Len(GrantList) : GrantsStand(j)
    BY <1>3 DEF Reached, GrantsReached
  <2>2. \A code : Coded(code)' = Coded(code)
    BY RolesHold
  <2> QED BY <2>1, <2>2 DEF GrantsStand, PermsOf
<1> QED BY <1>2, <1>3, <1>4 DEF GrantsReached

LEMMA LateStatementsReach ==
  ASSUME Sound, Reached,
         SwitchOffLegacy \/ UpsertModules \/ FindAdminRole \/ UpsertAdmin \/ RemoveDocs \/ UpsertDocs
  PROVE  Reached'
<1>1. /\ UNCHANGED <<role, grants, known>> /\ at' = at + 1
  BY DEF SwitchOffLegacy, UpsertModules, FindAdminRole, UpsertAdmin, RemoveDocs, UpsertDocs, Then
<1>2. \A code : Coded(code)' = Coded(code)
  BY <1>1, RolesHold
<1>3. GrantWork \in Nat
  BY ListsTyped
<1>4. CASE SwitchOffLegacy
  <2>1. at = GrantWork + 1
    BY <1>4, Whereabouts DEF SwitchOffLegacy
  <2>2. RolesReached' /\ PermissionsReached' /\ GrantsReached'
    BY <1>1, <2>1, LoopsDone
  <2>3. LegacyOff'
    BY <1>4 DEF SwitchOffLegacy, LegacyOff, Slots
  <2> QED BY <1>1, <1>3, <2>1, <2>2, <2>3 DEF Reached, RestReached
<1>5. CASE UpsertModules
  <2>1. at = GrantWork + 2
    BY <1>5, Whereabouts DEF UpsertModules
  <2>2. RolesReached' /\ PermissionsReached' /\ GrantsReached'
    BY <1>1, <2>1, LoopsDone
  <2>3. LegacyOff
    BY <1>3, <2>1 DEF Reached, RestReached
  <2>4. LegacyOff' /\ ModulesOn'
    BY <1>5, <2>3, SeedAssumption DEF UpsertModules, LegacyOff, ModulesOn, Slots
  <2> QED BY <1>1, <1>3, <2>1, <2>2, <2>4 DEF Reached, RestReached
<1>6. CASE FindAdminRole
  <2>1. at = GrantWork + 3
    BY <1>6, Whereabouts DEF FindAdminRole
  <2>2. RolesReached' /\ PermissionsReached' /\ GrantsReached'
    BY <1>1, <2>1, LoopsDone
  <2>3. LegacyOff /\ ModulesOn /\ modules' = modules
    BY <1>3, <1>6, <2>1 DEF Reached, RestReached, FindAdminRole
  <2>4. LegacyOff' /\ ModulesOn'
    BY <2>3 DEF LegacyOff, ModulesOn
  <2> QED BY <1>1, <1>3, <2>1, <2>2, <2>4 DEF Reached, RestReached
<1>7. CASE UpsertAdmin
  <2>1. at = GrantWork + 4 /\ modules' = modules
    BY <1>7, Whereabouts DEF UpsertAdmin
  <2>2. RolesReached' /\ PermissionsReached' /\ GrantsReached'
    BY <1>1, <2>1, LoopsDone
  <2>3. LegacyOff /\ ModulesOn
    BY <1>3, <2>1 DEF Reached, RestReached
  <2>4. LegacyOff' /\ ModulesOn'
    BY <2>1, <2>3 DEF LegacyOff, ModulesOn
  <2>5. AdminSeeded'
    <3>1. PICK x \in UserIds : user' = [user EXCEPT ![x] = AdminUpserted(user[x])]
      BY <1>7, AdminWritten
    <3>2. user'[x] = [ email |-> AdminEmail, role |-> target, active |-> TRUE, deleted |-> FALSE ]
      BY <3>1 DEF Sound, IInv, TypeOK, AdminUpserted
    <3>3. target \in Coded("ADMIN")'
      BY <1>2, <2>1 DEF Sound, SeedTypeOK
    <3> QED BY <3>2, <3>3 DEF AdminSeeded
  <2> QED BY <1>1, <1>3, <2>1, <2>2, <2>4, <2>5 DEF Reached, RestReached
<1>8. CASE RemoveDocs \/ UpsertDocs
  <2>1. UNCHANGED <<modules, user>>
    BY <1>8 DEF RemoveDocs, UpsertDocs
  <2>2. PICK k \in {5, 6} : at = GrantWork + k /\ (k = 6 <=> UpsertDocs)
    BY <1>8, Whereabouts DEF RemoveDocs, UpsertDocs, Doing
  <2>3. RolesReached' /\ PermissionsReached' /\ GrantsReached'
    BY <1>1, <2>2, LoopsDone
  <2>4. LegacyOff /\ ModulesOn /\ AdminSeeded
    BY <1>3, <2>2 DEF Reached, RestReached
  <2>5. LegacyOff' /\ ModulesOn' /\ AdminSeeded'
    BY <1>2, <2>1, <2>4 DEF LegacyOff, ModulesOn, AdminSeeded
  <2>6. CASE k = 5
    <3>1. RemoveDocs /\ DOMAIN docs = RemovedSlugs \cup DocSlugs
      BY <1>8, <2>2, <2>6 DEF Sound, SeedTypeOK
    <3>2. DocsGone'
      BY <3>1 DEF RemoveDocs, DocsGone
    <3> QED BY <1>1, <1>3, <2>2, <2>3, <2>5, <2>6, <3>2 DEF Reached, RestReached
  <2>7. CASE k = 6
    <3>1. UpsertDocs /\ DOMAIN docs = RemovedSlugs \cup DocSlugs
      BY <2>2, <2>7 DEF Sound, SeedTypeOK
    <3>2. DocsGone
      BY <1>3, <2>2, <2>7 DEF Reached, RestReached
    <3>3. DocsGone' /\ DocsPublished'
      BY <3>1, <3>2, SeedAssumption DEF UpsertDocs, DocsGone, DocsPublished
    <3> QED BY <1>1, <1>3, <2>2, <2>3, <2>5, <2>7, <3>3 DEF Reached, RestReached
  <2> QED BY <2>6, <2>7
<1> QED BY <1>4, <1>5, <1>6, <1>7, <1>8

LEMMA SeedStepReaches ==
  ASSUME Sound, Reached, SeedStep
  PROVE  Reached'
BY UpsertRoleReaches, UpsertPermissionReaches, DeleteGrantsReaches, CreateGrantsReaches,
   LateStatementsReach DEF SeedStep

LEMMA StatementsPlain ==
  ASSUME SeedStep
  PROVE  UNCHANGED <<runs, edits, quiet, pc, args, seen>>
BY DEF SeedStep, UpsertRole, UpsertPermission, DeleteGrants, CreateGrants, SwitchOffLegacy,
       UpsertModules, FindAdminRole, UpsertAdmin, RemoveDocs, UpsertDocs, Then

LEMMA ReachedKept ==
  ASSUME Sound, quiet => Reached, [SeedNext]_allVars
  PROVE  quiet' => Reached'
<1>1. CASE UNCHANGED allVars
  BY <1>1, ReachedUntouched DEF allVars, seedVars, vars
<1>2. CASE SeedStep
  BY <1>2, SeedStepReaches, StatementsPlain
<1>3. CASE CrashSeed \/ \E s \in SeedRuns : StartSeed(s)
  <2>1. at' \in {0, 1}
    BY <1>3 DEF CrashSeed, StartSeed
  <2> QED BY <2>1, NothingReached
<1>4. CASE ServiceStep
  <2>1. UNCHANGED <<at, target, known, modules, docs>>
    BY <1>4 DEF ServiceStep
  <2>2. quiet' => quiet /\ UNCHANGED <<role, grants, user>>
    BY <1>4 DEF ServiceStep, tables
  <2> QED BY <2>1, <2>2, ReachedUntouched
<1>5. CASE EditManual
  BY <1>5 DEF EditManual
<1> QED BY <1>1, <1>2, <1>3, <1>4, <1>5 DEF SeedNext

SeedInv == Sound /\ (quiet => Reached)

LEMMA SeedInvAlways == SeedSpec => []SeedInv
<1>1. SeedInit => SeedInv
  <2>1. ASSUME SeedInit PROVE Reached
    <3>1. at = 0
      BY <2>1 DEF SeedInit
    <3> QED BY <3>1, ListsTyped
            DEF Reached, RolesReached, PermissionsReached, GrantsReached, RestReached
  <2> QED BY <2>1, SoundAtStart DEF SeedInv
<1>2. SeedInv /\ [SeedNext]_allVars => SeedInv'
  BY SoundKept, ReachedKept DEF SeedInv
<1> QED BY <1>1, <1>2, PTL DEF SeedSpec

----------------------------------------------------------------------------
(* What a complete run leaves.                                             *)

\* All that a run is there for, but the permissions, which it takes away and
\* gives back.
AllButGrants ==
  /\ \A i \in 1 .. Len(RoleList) : RoleStands(i)
  /\ \A i \in 1 .. Len(PermissionList) : PermissionList[i] \in known
  /\ LegacyOff /\ ModulesOn /\ AdminSeeded /\ DocsGone /\ DocsPublished

AllGrants == \A i \in 1 .. Len(GrantList) : GrantsStand(i)

LEMMA EndReached ==
  ASSUME Reached, at = Ended
  PROVE  AllButGrants /\ AllGrants
<1>1. at = GrantWork + 7 /\ GrantWork \in Nat
  BY ScriptLaidOut, ListsTyped DEF Ended
<1>2. /\ \A i \in 1 .. Len(RoleList) : at > i
      /\ \A i \in 1 .. Len(PermissionList) : at > RoleWork + i
  BY <1>1, ListsTyped DEF RoleWork, PermissionWork
<1>3. \A i \in 1 .. Len(GrantList) : at > PermissionWork + 2 * i
  BY <1>1, ListsTyped DEF GrantWork
<1>4. LegacyOff /\ ModulesOn /\ AdminSeeded /\ DocsGone /\ DocsPublished
  BY <1>1 DEF Reached, RestReached
<1> QED BY <1>2, <1>3, <1>4
        DEF Reached, RolesReached, PermissionsReached, GrantsReached, AllButGrants, AllGrants

\* A run that nobody disturbs leaves what the file says, wherever earlier runs
\* stopped and whatever the database held (prisma/seed.ts, runSeed).
THEOREM RunLeavesWhatTheFileSays == SeedSpec => []SeededWhenUndisturbed
<1>1. SeedInv => SeededWhenUndisturbed
  <2> SUFFICES ASSUME Sound, Reached, at = Ended PROVE SeededWhenUndisturbed
    BY DEF SeedInv, SeededWhenUndisturbed
  <2>1. AllButGrants /\ \A i \in 1 .. Len(GrantList) : GrantsStand(i)
    BY EndReached DEF AllGrants
  <2>2. \A i \in DOMAIN RoleList : \E r \in Coded(RoleList[i].code) :
          /\ role[r].name = RoleList[i].name
          /\ role[r].system <=> RoleList[i].code = "ADMIN"
    <3> TAKE i \in DOMAIN RoleList
    <3>1. PICK r \in Coded(RoleList[i].code) : role[r] = RoleUpserted(role[r], RoleList[i])
      BY <2>1, ListsTyped DEF AllButGrants, RoleStands
    <3>2. /\ RoleUpserted(role[r], RoleList[i]).name = RoleList[i].name
          /\ RoleUpserted(role[r], RoleList[i]).system = (RoleList[i].code = "ADMIN")
      BY DEF RoleUpserted
    <3> QED BY <3>1, <3>2
  <2>3. \A i \in DOMAIN GrantList : \A r \in Coded(GrantList[i].code) :
          PermsOf(r) = GrantList[i].perms
    BY <2>1, ListsTyped DEF GrantsStand
  <2>4. \E x \in UserIds : /\ ActiveUser(x) /\ user[x].email = AdminEmail
                           /\ LiveRole(user[x].role) /\ role[user[x].role].code = "ADMIN"
    <3>1. PICK x \in UserIds, r \in Coded("ADMIN") :
            user[x] = [ email |-> AdminEmail, role |-> r, active |-> TRUE, deleted |-> FALSE ]
      BY <2>1 DEF AllButGrants, AdminSeeded
    <3>2. /\ user[x].email = AdminEmail /\ user[x].role = r
          /\ user[x].active /\ ~user[x].deleted
      BY <3>1
    <3>3. ActiveUser(x)
      BY <3>2, SeedAssumption, AccountsAssumption DEF ActiveUser, UserExists, NoUser
    <3>4. LiveRole(r) /\ role[r].code = "ADMIN"
      BY DEF Sound, IInv, CodesMatch, AdminStands, Coded, LiveRole
    <3> QED BY <3>2, <3>3, <3>4
  <2>5. \A s \in Slots : modules[s] \in IF s \in ModuleSlugs THEN {"on"} ELSE {"none", "off"}
    <3>1. \A s \in Slots : modules[s] \in { "none", "on", "off" }
      BY DEF Sound, SeedTypeOK
    <3> QED BY <2>1, <3>1 DEF AllButGrants, LegacyOff, ModulesOn, Slots
  <2>6. \A d \in DOMAIN docs :
          IF d \in DocSlugs THEN docs[d].status = "PUBLISHED" ELSE docs[d] = NoDoc
    <3>1. DOMAIN docs = RemovedSlugs \cup DocSlugs
      BY DEF Sound, SeedTypeOK
    <3> QED BY <2>1, <3>1 DEF AllButGrants, DocsGone, DocsPublished
  <2> QED BY <2>2, <2>3, <2>4, <2>5, <2>6 DEF SeededWhenUndisturbed
<1> QED BY <1>1, SeedInvAlways, PTL

\* What the file does not name keeps its rows and its permissions while nobody
\* else writes (prisma/seed.ts: every statement addresses a code or an address).
THEOREM RunLeavesOthersAlone == SeedSpec => OthersUntouched
<1> DEFINE Left ==
      /\ \A r \in RoleIds : RoleExists(r) /\ role[r].code \notin OwnCodes =>
           /\ role'[r] = role[r]
           /\ { g \in grants' : g.role = r } = { g \in grants : g.role = r }
      /\ \A x \in UserIds : UserExists(x) /\ user[x].email # AdminEmail =>
           user'[x] = user[x]
<1>1. SeedInv /\ [SeedNext]_allVars =>
        [at' # at /\ at \in 1 .. Len(Script) /\ quiet => Left]_allVars
  <2> SUFFICES ASSUME Sound, Reached, SeedNext, at' # at, at \in 1 .. Len(Script) PROVE Left
    BY DEF SeedInv
  <2>1. CASE UNCHANGED tables
    BY <2>1 DEF tables
  <2>2. CASE UpsertRole
    <3>1. PICK i \in 1 .. Len(RoleList), r \in RoleIds :
            /\ RoleExists(r) => role[r].code = RoleList[i].code
            /\ role' = [role EXCEPT ![r] = RoleUpserted(role[r], RoleList[i])]
      BY <2>2, RoleWritten
    <3>2. RoleList[i].code \in OwnCodes
      BY ListsTyped DEF OwnCodes
    <3>3. UNCHANGED <<grants, user>>
      BY <2>2 DEF UpsertRole
    <3> QED BY <3>1, <3>2, <3>3 DEF Sound, IInv, TypeOK
  <2>3. ASSUME NEW i \in 1 .. Len(GrantList) PROVE GrantList[i].code \in OwnCodes
    <3>1. GrantList[i] \in [ code : OwnCodes,
                             perms : SUBSET { PermissionList[k] : k \in DOMAIN PermissionList } ]
      BY SeedAssumption, ElementOfSeq
    <3> QED BY <3>1
  <2>4. CASE DeleteGrants
    <3>1. PICK i \in 1 .. Len(GrantList) : Script[at].of = GrantList[i]
      BY <2>4, Whereabouts DEF DeleteGrants
    <3>2. /\ UNCHANGED <<role, user>>
          /\ \/ UNCHANGED grants
             \/ \E r \in Coded(GrantList[i].code) : grants' = GrantsDropped(r)
      BY <2>4, <3>1 DEF DeleteGrants
    <3>3. ASSUME NEW r \in Coded(GrantList[i].code), grants' = GrantsDropped(r) PROVE Left
      <4>1. \A q \in RoleIds : role[q].code \notin OwnCodes => q # r
        BY <2>3 DEF Coded
      <4> QED BY <3>2, <3>3, <4>1, GrantsOfOthers
    <3>4. CASE UNCHANGED grants
      BY <3>2, <3>4
    <3> QED BY <3>2, <3>3, <3>4
  <2>5. CASE CreateGrants
    <3>1. PICK i \in 1 .. Len(GrantList) :
            at = PermissionWork + 2 * i /\ Script[at].of = GrantList[i]
      BY <2>5, Whereabouts DEF CreateGrants
    <3>2. target \in Coded(GrantList[i].code)
      BY <3>1 DEF Reached, GrantsReached
    <3>3. \A q \in RoleIds : role[q].code \notin OwnCodes => q # target
      BY <2>3, <3>2 DEF Coded
    <3>4. PICK list : grants' = grants \cup [ role : {target}, perm : list, by : {runs[Len(runs)]} ]
      BY <2>5 DEF CreateGrants, GrantsCreated
    <3>5. UNCHANGED <<role, user>>
      BY <2>5 DEF CreateGrants
    <3> QED BY <3>3, <3>4, <3>5, GrantsOfOthers
  <2>6. CASE UpsertAdmin
    <3>1. PICK x \in UserIds : /\ UserExists(x) => user[x].email = AdminEmail
                               /\ user' = [user EXCEPT ![x] = AdminUpserted(user[x])]
      BY <2>6, AdminWritten
    <3>2. UNCHANGED <<role, grants>>
      BY <2>6 DEF UpsertAdmin
    <3> QED BY <3>1, <3>2 DEF Sound, IInv, TypeOK
  <2>7. CASE \/ UpsertPermission \/ SwitchOffLegacy \/ UpsertModules \/ FindAdminRole
             \/ RemoveDocs \/ UpsertDocs \/ CrashSeed \/ EditManual
    <3>1. UNCHANGED tables
      BY <2>7 DEF UpsertPermission, SwitchOffLegacy, UpsertModules, FindAdminRole, RemoveDocs,
                  UpsertDocs, CrashSeed, EditManual, tables, vars
    <3> QED BY <2>1, <3>1
  <2>8. CASE ServiceStep
    BY <2>8 DEF ServiceStep
  <2>9. ASSUME NEW s \in SeedRuns, StartSeed(s) PROVE UNCHANGED tables
    BY <2>9 DEF StartSeed, tables, vars
  <2> QED BY <2>1, <2>2, <2>4, <2>5, <2>6, <2>7, <2>8, <2>9 DEF SeedNext, SeedStep
<1> QED BY <1>1, SeedInvAlways, PTL DEF SeedSpec, OthersUntouched

----------------------------------------------------------------------------
(* Running it again.                                                       *)

\* The roles the file lists permissions for, and what a role ends up with.
Owned(r) == \E i \in 1 .. Len(GrantList) : r \in Coded(GrantList[i].code)

Wanted(r) ==
  IF Owned(r)
    THEN { p \in Permissions : \A i \in 1 .. Len(GrantList) :
                                 r \in Coded(GrantList[i].code) => p \in GrantList[i].perms }
    ELSE PermsOf(r)

PairsWanted == { z \in RoleIds \X Permissions : z[2] \in Wanted(z[1]) }

\* As long as nobody has written since a complete run, the database is as that
\* run left it, but for permissions a run took away and has not given back.
LastRunStands ==
  result # << >> =>
    /\ quiet
    /\ AllButGrants
    /\ result = <<role, PairsWanted, user, known, modules, docs>>

LEMMA PairsTyped ==
  ASSUME grants \subseteq Grant
  PROVE  /\ Pairs = { z \in RoleIds \X Permissions : z[2] \in PermsOf(z[1]) }
         /\ \A r : PermsOf(r) \subseteq Permissions
<1>1. \A g \in grants : g.role \in RoleIds /\ g.perm \in Permissions
  BY DEF Grant
<1>2. \A r : PermsOf(r) \subseteq Permissions
  BY <1>1 DEF PermsOf
<1>3. ASSUME NEW z \in Pairs PROVE z \in RoleIds \X Permissions /\ z[2] \in PermsOf(z[1])
  <2>1. PICK g \in grants : z = <<g.role, g.perm>>
    BY DEF Pairs
  <2>2. g.perm \in PermsOf(g.role)
    BY DEF PermsOf
  <2> QED BY <1>1, <2>1, <2>2
<1>4. ASSUME NEW z \in RoleIds \X Permissions, z[2] \in PermsOf(z[1]) PROVE z \in Pairs
  <2>1. PICK g \in grants : g.role = z[1] /\ g.perm = z[2]
    BY <1>4 DEF PermsOf
  <2>2. z = <<g.role, g.perm>>
    BY <2>1
  <2> QED BY <2>2 DEF Pairs
<1> QED BY <1>2, <1>3, <1>4

\* At the end of a run every role has what it should.
LEMMA EndPairs ==
  ASSUME Sound, AllGrants
  PROVE  Pairs = PairsWanted
<1>0. grants \subseteq Grant
  BY DEF Sound, IInv, TypeOK
<1>1. ASSUME NEW r \in RoleIds PROVE Wanted(r) = PermsOf(r)
  <2>1. CASE ~Owned(r)
    BY <2>1 DEF Wanted
  <2>2. CASE Owned(r)
    <3>1. PICK i \in 1 .. Len(GrantList) : r \in Coded(GrantList[i].code)
      BY <2>2 DEF Owned
    <3>2. \A j \in 1 .. Len(GrantList) :
            r \in Coded(GrantList[j].code) => PermsOf(r) = GrantList[j].perms
      BY DEF AllGrants, GrantsStand
    <3>3. PermsOf(r) \subseteq Permissions
      BY <1>0, PairsTyped
    <3> QED BY <2>2, <3>1, <3>2, <3>3 DEF Wanted
  <2> QED BY <2>1, <2>2
<1>2. Pairs = { z \in RoleIds \X Permissions : z[2] \in PermsOf(z[1]) }
  BY <1>0, PairsTyped
<1> QED BY <1>1, <1>2 DEF PairsWanted

\* Nothing that is as the file says is changed by a statement.
LEMMA StatementsRepeat ==
  ASSUME Sound, Reached, AllButGrants, SeedStep
  PROVE  /\ UNCHANGED <<role, user, known, modules, docs>>
         /\ \A r \in RoleIds : ~Owned(r) => PermsOf(r)' = PermsOf(r)
<1> DEFINE Repeats == /\ UNCHANGED <<role, user, known, modules, docs>>
                      /\ \A r \in RoleIds : ~Owned(r) => PermsOf(r)' = PermsOf(r)
<1>1. CASE UpsertRole
  <2>1. PICK i \in 1 .. Len(RoleList), r \in RoleIds :
          /\ RoleExists(r) => role[r].code = RoleList[i].code
          /\ ~RoleExists(r) => Coded(RoleList[i].code) = {}
          /\ role' = [role EXCEPT ![r] = RoleUpserted(role[r], RoleList[i])]
    BY <1>1, RoleWritten
  <2>2. PICK q \in Coded(RoleList[i].code) : role[q] = RoleUpserted(role[q], RoleList[i])
    BY DEF AllButGrants, RoleStands
  <2>3. q \in RoleIds /\ RoleExists(q) /\ role[q].code = RoleList[i].code /\ RoleExists(r)
    BY <2>1, <2>2 DEF Coded
  <2>4. q = r
    BY <2>1, <2>3 DEF Sound, IInv, CodesMatch
  <2>5. role' = role
    BY <2>1, <2>2, <2>4 DEF Sound, IInv, TypeOK
  <2> QED BY <1>1, <2>5 DEF UpsertRole, PermsOf
<1>2. CASE UpsertPermission
  <2>1. PICK i \in 1 .. Len(PermissionList) : Script[at].of = PermissionList[i]
    BY <1>2, Whereabouts DEF UpsertPermission
  <2>2. known' = known
    BY <1>2, <2>1 DEF UpsertPermission, AllButGrants
  <2> QED BY <1>2, <2>2 DEF UpsertPermission, PermsOf
<1>3. CASE DeleteGrants
  <2>1. PICK i \in 1 .. Len(GrantList) : Script[at].of = GrantList[i]
    BY <1>3, Whereabouts DEF DeleteGrants
  <2>2. /\ UNCHANGED <<role, user, known, modules, docs>>
        /\ \/ UNCHANGED grants
           \/ \E r \in Coded(GrantList[i].code) : grants' = GrantsDropped(r)
    BY <1>3, <2>1 DEF DeleteGrants
  <2>3. ASSUME NEW r \in Coded(GrantList[i].code), grants' = GrantsDropped(r),
               NEW q \in RoleIds, ~Owned(q)
        PROVE  PermsOf(q)' = PermsOf(q)
    <3>1. q # r
      BY <2>3 DEF Owned
    <3> QED BY <2>3, <3>1, GrantsOfOthers
  <2>4. CASE UNCHANGED grants
    BY <2>2, <2>4 DEF PermsOf
  <2> QED BY <2>2, <2>3, <2>4
<1>4. CASE CreateGrants
  <2>1. PICK i \in 1 .. Len(GrantList) :
          at = PermissionWork + 2 * i /\ Script[at].of = GrantList[i]
    BY <1>4, Whereabouts DEF CreateGrants
  <2>2. target \in Coded(GrantList[i].code)
    BY <2>1 DEF Reached, GrantsReached
  <2>3. PICK list : grants' = grants \cup [ role : {target}, perm : list, by : {runs[Len(runs)]} ]
    BY <1>4 DEF CreateGrants, GrantsCreated
  <2>4. ASSUME NEW q \in RoleIds, ~Owned(q) PROVE PermsOf(q)' = PermsOf(q)
    <3>1. q # target
      BY <2>2, <2>4 DEF Owned
    <3> QED BY <2>3, <3>1, GrantsOfOthers
  <2> QED BY <1>4, <2>4 DEF CreateGrants
<1>5. CASE SwitchOffLegacy
  <2>1. modules' = modules
    BY <1>5 DEF SwitchOffLegacy, AllButGrants, LegacyOff, Sound, SeedTypeOK
  <2> QED BY <1>5, <2>1 DEF SwitchOffLegacy, PermsOf
<1>6. CASE UpsertModules
  <2>1. modules' = modules
    BY <1>6 DEF UpsertModules, AllButGrants, ModulesOn, Sound, SeedTypeOK
  <2> QED BY <1>6, <2>1 DEF UpsertModules, PermsOf
<1>7. CASE FindAdminRole
  BY <1>7 DEF FindAdminRole, PermsOf
<1>8. CASE UpsertAdmin
  <2>1. PICK x \in UserIds :
          /\ UserExists(x) => user[x].email = AdminEmail
          /\ ~UserExists(x) => \A y \in UserIds : UserExists(y) => user[y].email # AdminEmail
          /\ user' = [user EXCEPT ![x] = AdminUpserted(user[x])]
    BY <1>8, AdminWritten
  <2>2. PICK y \in UserIds, r \in Coded("ADMIN") :
          user[y] = [ email |-> AdminEmail, role |-> r, active |-> TRUE, deleted |-> FALSE ]
    BY DEF AllButGrants, AdminSeeded
  <2>3. UserExists(y) /\ user[y].email = AdminEmail
    BY <2>2, SeedAssumption, AccountsAssumption DEF UserExists, NoUser
  <2>4. x = y
    BY <2>1, <2>3 DEF Sound, AddressesDiffer
  <2>5. target = r
    <3>1. target \in Coded("ADMIN")
      BY <1>8, Whereabouts DEF UpsertAdmin, Sound, SeedTypeOK
    <3> QED BY <3>1, <2>2 DEF Coded, Sound, IInv, CodesMatch
  <2>6. AdminUpserted(user[x]) = user[x]
    BY <2>2, <2>4, <2>5 DEF AdminUpserted
  <2>7. user' = user
    BY <2>1, <2>6 DEF Sound, IInv, TypeOK
  <2> QED BY <1>8, <2>7 DEF UpsertAdmin, PermsOf
<1>9. CASE RemoveDocs
  <2>1. docs' = docs
    BY <1>9 DEF RemoveDocs, AllButGrants, DocsGone, Sound, SeedTypeOK
  <2> QED BY <1>9, <2>1 DEF RemoveDocs, PermsOf
<1>10. CASE UpsertDocs
  <2>1. docs' = docs
    BY <1>10 DEF UpsertDocs, AllButGrants, DocsPublished, Sound, SeedTypeOK
  <2> QED BY <1>10, <2>1 DEF UpsertDocs, PermsOf
<1> QED BY <1>1, <1>2, <1>3, <1>4, <1>5, <1>6, <1>7, <1>8, <1>9, <1>10 DEF SeedStep

\* What is wanted depends on the roles, and on the permissions of those the
\* file does not list.
LEMMA WantedKept ==
  ASSUME UNCHANGED role, \A r \in RoleIds : ~Owned(r) => PermsOf(r)' = PermsOf(r)
  PROVE  PairsWanted' = PairsWanted
<1>1. \A code : Coded(code)' = Coded(code)
  BY RolesHold
<1>2. \A r : Owned(r)' <=> Owned(r)
  BY <1>1 DEF Owned
<1>3. \A r \in RoleIds : Wanted(r)' = Wanted(r)
  BY <1>1, <1>2 DEF Wanted
<1> QED BY <1>3 DEF PairsWanted

LEMMA AllButGrantsKept ==
  ASSUME AllButGrants, UNCHANGED <<role, user, known, modules, docs>>
  PROVE  AllButGrants'
<1>1. \A code : Coded(code)' = Coded(code)
  BY RolesHold
<1>2. \A i \in 1 .. Len(RoleList) : RoleStands(i)'
  BY RolesHold DEF AllButGrants
<1> QED BY <1>1, <1>2
        DEF AllButGrants, LegacyOff, ModulesOn, AdminSeeded, DocsGone, DocsPublished

\* Whether a statement is the last one, and what is then recorded.
LEMMA Recorded ==
  ASSUME SeedStep
  PROVE  /\ at \in 1 .. Len(Script)
         /\ result' = IF at' # Ended THEN result
                      ELSE IF quiet THEN <<role', Pairs', user', known', modules', docs'>>
                      ELSE << >>
BY DEF SeedStep, UpsertRole, UpsertPermission, DeleteGrants, CreateGrants, SwitchOffLegacy,
       UpsertModules, FindAdminRole, UpsertAdmin, RemoveDocs, UpsertDocs, Then, Doing, Snapshot

LEMMA LastRunKept ==
  ASSUME SeedInv, LastRunStands, [SeedNext]_allVars
  PROVE  LastRunStands'
<1>1. ASSUME UNCHANGED <<role, grants, user, known, modules, docs, result>>, quiet => quiet'
      PROVE  LastRunStands'
  <2>1. PairsWanted' = PairsWanted
    BY <1>1, WantedKept DEF PermsOf
  <2>2. AllButGrants => AllButGrants'
    BY <1>1, AllButGrantsKept
  <2> QED BY <1>1, <2>1, <2>2 DEF LastRunStands
<1>2. CASE SeedStep
  <2>1. UNCHANGED quiet /\ Sound'
    BY <1>2, StatementsPlain, SeedStepSound DEF SeedInv
  <2>2. CASE result' = result
    <3>1. CASE result = << >>
      BY <2>2, <3>1 DEF LastRunStands
    <3>2. CASE result # << >>
      <4>1. Sound /\ Reached /\ AllButGrants
        BY <3>2 DEF LastRunStands, SeedInv
      <4>2. /\ UNCHANGED <<role, user, known, modules, docs>>
            /\ \A r \in RoleIds : ~Owned(r) => PermsOf(r)' = PermsOf(r)
        BY <1>2, <4>1, StatementsRepeat
      <4>3. PairsWanted' = PairsWanted /\ AllButGrants'
        BY <4>1, <4>2, WantedKept, AllButGrantsKept
      <4> QED BY <2>1, <2>2, <3>2, <4>2, <4>3 DEF LastRunStands
    <3> QED BY <3>1, <3>2
  <2>3. CASE result' = << >>
    BY <2>3 DEF LastRunStands
  <2>4. CASE /\ at' = Ended /\ quiet
             /\ result' = <<role', Pairs', user', known', modules', docs'>>
    <3>1. Reached'
      BY <1>2, <2>4, SeedStepReaches DEF SeedInv
    <3>2. (at = Ended)'
      BY <2>4 DEF Ended, Script
    <3>3. AllButGrants' /\ AllGrants'
      BY <3>1, <3>2, EndReached, PTL
    <3>4. (Pairs = PairsWanted)'
      BY <2>1, <3>3, EndPairs, PTL
    <3> QED BY <2>1, <2>4, <3>3, <3>4 DEF LastRunStands
  <2> QED BY <1>2, <2>2, <2>3, <2>4, Recorded
<1>3. CASE CrashSeed \/ (\E s \in SeedRuns : StartSeed(s)) \/ UNCHANGED allVars
  BY <1>1, <1>3 DEF CrashSeed, StartSeed, allVars, seedVars, vars
<1>4. CASE ServiceStep
  BY <1>1, <1>4 DEF ServiceStep, tables, LastRunStands
<1>5. CASE EditManual
  BY <1>5 DEF EditManual, LastRunStands
<1> QED BY <1>2, <1>3, <1>4, <1>5 DEF SeedNext

LEMMA LastRunAlways == SeedSpec => []LastRunStands
<1>1. SeedInit => LastRunStands
  BY DEF SeedInit, LastRunStands
<1> QED BY <1>1, LastRunKept, SeedInvAlways, PTL DEF SeedSpec

\* The statement a run ends with.
LEMMA EndsWithDocs ==
  ASSUME SeedStep, at' = Ended
  PROVE  UpsertDocs
<1>1. Ended = GrantWork + 7
  BY ScriptLaidOut, ListsTyped DEF Ended
<1> USE ListsTyped DEF Then
<1>2. ~UpsertRole
  BY <1>1, Whereabouts DEF UpsertRole, RoleWork
<1>3. ~UpsertPermission
  BY <1>1, Whereabouts DEF UpsertPermission, PermissionWork
<1>4. ~DeleteGrants
  <2> SUFFICES ASSUME DeleteGrants PROVE FALSE
    OBVIOUS
  <2>1. PICK i \in 1 .. Len(GrantList) : at = PermissionWork + 2 * i - 1
    BY Whereabouts DEF DeleteGrants
  <2>2. at' = at + 1 \/ at' = at + 2
    BY DEF DeleteGrants
  <2> QED BY <1>1, <2>1, <2>2 DEF GrantWork
<1>5. ~CreateGrants
  <2> SUFFICES ASSUME CreateGrants PROVE FALSE
    OBVIOUS
  <2>1. PICK i \in 1 .. Len(GrantList) : at = PermissionWork + 2 * i
    BY Whereabouts DEF CreateGrants
  <2>2. at' = at + 1
    BY DEF CreateGrants
  <2> QED BY <1>1, <2>1, <2>2 DEF GrantWork
<1>6. ~SwitchOffLegacy /\ ~UpsertModules
  BY <1>1, Whereabouts DEF SwitchOffLegacy, UpsertModules
<1>7. ~FindAdminRole /\ ~UpsertAdmin /\ ~RemoveDocs
  BY <1>1, Whereabouts DEF FindAdminRole, UpsertAdmin, RemoveDocs
<1> QED BY <1>2, <1>3, <1>4, <1>5, <1>6, <1>7 DEF SeedStep

\* "rerun seed (idempotent)" (README), as far as it goes: if nobody writes in
\* between, a complete run after a complete run leaves every row as it was in all
\* columns but the dates, whatever crashed in between, and every document of the
\* file published as of this run.
THEOREM RerunsRenewDatesOnly == SeedSpec => RerunRenewsDatesOnly
<1>1. SeedInv /\ SeedInv' /\ LastRunStands /\ [SeedNext]_allVars =>
        [/\ at \in 1 .. Len(Script) /\ at' = Ended
         /\ quiet /\ result # << >>
         => /\ Snapshot' = result
            /\ \A d \in DocSlugs : dated'[d] = runs[Len(runs)]]_allVars
  <2> SUFFICES ASSUME SeedInv, SeedInv', LastRunStands, SeedNext, at \in 1 .. Len(Script), at' = Ended,
                      quiet, result # << >>
               PROVE  /\ Snapshot' = result
                      /\ \A d \in DocSlugs : dated'[d] = runs[Len(runs)]
    OBVIOUS
  <2>1. Sound /\ Reached /\ AllButGrants
    BY DEF SeedInv, LastRunStands
  <2>2. SeedStep
    <3>1. Ended = Len(Script) + 1 /\ Len(Script) \in Nat /\ Len(Script) >= 6
      BY ScriptLaidOut, ListsTyped DEF Ended
    <3>2. at' # at /\ at' # 0 /\ at # 0 /\ at # Ended
      BY <3>1
    <3>3. ~CrashSeed /\ ~ServiceStep /\ ~EditManual /\ \A s \in SeedRuns : ~StartSeed(s)
      BY <3>2 DEF CrashSeed, ServiceStep, EditManual, StartSeed
    <3> QED BY <3>3 DEF SeedNext
  <2>3. /\ UNCHANGED <<role, user, known, modules, docs>>
        /\ \A r \in RoleIds : ~Owned(r) => PermsOf(r)' = PermsOf(r)
    BY <2>1, <2>2, StatementsRepeat
  <2>4. PairsWanted' = PairsWanted
    BY <2>3, WantedKept
  <2>5. (Pairs = PairsWanted)'
    <3>1. (at = Ended)'
      BY DEF Ended, Script
    <3>2. Reached' /\ Sound'
      BY <2>1, <2>2, SeedStepReaches DEF SeedInv
    <3>3. AllGrants'
      BY <3>1, <3>2, EndReached, PTL
    <3> QED BY <3>2, <3>3, EndPairs, PTL
  <2>6. \A d \in DocSlugs : dated'[d] = runs[Len(runs)]
    <3>1. UpsertDocs
      BY <2>2, EndsWithDocs
    <3>2. DOMAIN docs = RemovedSlugs \cup DocSlugs
      BY <2>1 DEF Sound, SeedTypeOK
    <3> QED BY <3>1, <3>2 DEF UpsertDocs
  <2> QED BY <2>3, <2>4, <2>5, <2>6 DEF LastRunStands, Snapshot
<1> QED BY <1>1, LastRunAlways, SeedInvAlways, PTL DEF SeedSpec, RerunRenewsDatesOnly
===============================================================================
