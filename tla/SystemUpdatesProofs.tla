------------------------- MODULE SystemUpdatesProofs -------------------------
(***************************************************************************)
(* Theorems about SystemUpdates, for every set of calls, users, updates    *)
(* and modules and every value of the bounds.                              *)
(***************************************************************************)
EXTENDS BoundedSystemUpdates, NotificationsProofs, FiniteSetTheorems

\* A call that has read a request holds the id of a row that exists, and, if it
\* is a rejection, a reason; only a notifying call has jobs left.
CallsWellFormed ==
  \A c \in Calls :
    /\ work[c] # <<>> => pc[c] = "notifying"
    /\ pc[c] \in {"started", "loaded"} => args[c] \in Request
    /\ pc[c] = "loaded" /\ args[c].op # "create" =>
         Exists(args[c].ref) /\ args[c].decision # "bareReject"

\* A row carries the id of the call that made it, and no call of the future.
NoticesOwned ==
  /\ \A n \in notifications : pc[n.by] # "idle"
  /\ \A c \in Calls : \A n \in InHand(c) : n.by = c

IInv ==
  /\ TypeOK
  /\ CallsWellFormed
  /\ NoticesOwned
  /\ NoticesOnRecord
  /\ CompletionRecord
  /\ RejectionHasReason

\* What no step takes back: a row stays and keeps its requester, a recorded
\* review stays recorded, comments and entries stay, a call stays its caller's.
Grows ==
  /\ \A u \in Updates : Exists(u) =>
       /\ Exists(u)'
       /\ su'[u].requester = su[u].requester
       /\ su'[u].module = su[u].module
       /\ su[u].devReviewedBy # None => su'[u].devReviewedBy # None
       /\ su[u].adminReviewedBy # None => su'[u].adminReviewedBy # None
  /\ comments \subseteq comments'
  /\ changelog \subseteq changelog'
  /\ \A c \in Calls : pc[c] # "idle" => pc'[c] # "idle" /\ args'[c].user = args[c].user

----------------------------------------------------------------------------
(* Rows and jobs are well typed.                                           *)

LEMMA RowsTyped ==
  ASSUME NEW c \in Calls, NEW to \in SUBSET Users, NEW type \in NotificationType,
         NEW ref \in Refs, NEW via \in Via
  PROVE  Rows(c, to, type, ref, via) \subseteq Notice
BY DEF Rows, Notice

LEMMA NotifyRolesTyped ==
  ASSUME NEW c \in Calls, NEW codes, NEW type \in NotificationType,
         NEW ref \in Refs, NEW exclude
  PROVE  NotifyRoles(c, codes, type, ref, exclude) \in Job
<1>1. "notifyRoles" \in Via /\ "resolve" \in Stage
  BY DEF Via, Stage
<1>2. ({ x \in Users : RoleOf[x] \in codes } \ exclude) \in SUBSET Users
  OBVIOUS
<1>3. Rows(c, { x \in Users : RoleOf[x] \in codes } \ exclude, type, ref, "notifyRoles")
        \subseteq Notice
  BY <1>1, <1>2, RowsTyped
<1> QED BY <1>1, <1>3 DEF NotifyRoles, Job

LEMMA TellRequesterTyped ==
  ASSUME NEW c \in Calls, NEW type \in NotificationType, NEW u \in Updates,
         su[u].requester \in Users
  PROVE  TellRequester(c, u, type) \in Job
<1>1. "createMany" \in Via /\ "create" \in Stage /\ {Requester(u)} \in SUBSET Users /\ u \in Refs
  BY DEF Via, Stage, Requester, Updates
<1>2. Rows(c, {Requester(u)}, type, u, "createMany") \subseteq Notice
  BY <1>1, RowsTyped
<1> QED BY <1>1, <1>2 DEF TellRequester, CreateMany, Job

\* A handler that starts notifying leaves well-typed queues behind.
LEMMA NotifyTyped ==
  ASSUME TypeOK, NEW c \in Calls, NEW jobs \in Seq(Job), Notify(c, jobs)
  PROVE  /\ NotificationsTypeOK'
         /\ pc' = [pc EXCEPT ![c] = "notifying"]
         /\ work'[c] = jobs
         /\ \A k \in Calls \ {c} : work'[k] = work[k]
         /\ notifications' = notifications
BY DEF TypeOK, NotificationsTypeOK, Notify, Goto

\* A handler that has written and starts notifying.
LEMMA NotifyingTyped ==
  ASSUME TypeOK, CallsWellFormed, NEW c \in Calls, NEW jobs \in Seq(Job),
         Notify(c, jobs),
         su' \in [Updates -> Row \cup {Absent}], changelog' \subseteq Entry,
         comments' \subseteq Comment, activeModules' = activeModules,
         args' \in [Calls -> [ op : Op \cup {"none"}, user : Users \cup {None},
                               ref : Updates \cup {None}, module : Modules \cup {None},
                               decision : Decision \cup {"none"} ]],
         \A k \in Calls \ {c} : args'[k] = args[k],
         \A v \in Updates : Exists(v) => Exists(v)'
  PROVE  TypeOK' /\ CallsWellFormed'
<1>1. /\ NotificationsTypeOK'
      /\ pc' = [pc EXCEPT ![c] = "notifying"]
      /\ \A k \in Calls \ {c} : work'[k] = work[k]
  BY NotifyTyped
<1>2. TypeOK'
  BY <1>1 DEF TypeOK, Running
<1>3. ASSUME NEW k \in Calls
      PROVE  /\ work'[k] # <<>> => pc'[k] = "notifying"
             /\ pc'[k] \in {"started", "loaded"} => args'[k] \in Request
             /\ pc'[k] = "loaded" /\ args'[k].op # "create" =>
                  Exists(args[k].ref)' /\ args'[k].decision # "bareReject"
  <2>1. CASE k = c
    BY <1>1, <2>1 DEF TypeOK
  <2>2. CASE k # c
    <3>1. work'[k] = work[k] /\ pc'[k] = pc[k] /\ args'[k] = args[k]
      BY <1>1, <2>2 DEF TypeOK
    <3>2. pc[k] = "loaded" /\ args[k].op # "create" => args[k].ref \in Updates
      BY DEF CallsWellFormed, Request, Review
    <3> QED BY <3>1, <3>2 DEF CallsWellFormed, Exists
  <2> QED BY <2>1, <2>2
<1>4. CallsWellFormed'
  BY <1>3 DEF CallsWellFormed
<1> QED BY <1>2, <1>4

\* An existing row is a Row, and stays one when its columns are updated.
LEMMA RowOfExisting ==
  ASSUME TypeOK, NEW u \in Updates, Exists(u)
  PROVE  su[u] \in Row /\ su[u].requester \in Users /\ su[u].module \in Modules
BY DEF TypeOK, Exists, Absent, Row

----------------------------------------------------------------------------
LEMMA InitIInv == Init => IInv
<1> SUFFICES ASSUME Init PROVE IInv
  OBVIOUS
<1>1. TypeOK
  BY DEF Init, NotificationsInit, TypeOK, NotificationsTypeOK, NoRequest
<1>2. CallsWellFormed
  BY DEF Init, NotificationsInit, CallsWellFormed
<1>3. \A c \in Calls : InHand(c) = {}
  <2> SUFFICES ASSUME NEW c \in Calls PROVE InHand(c) = {}
    OBVIOUS
  <2>1. work[c] = <<>> /\ DOMAIN work[c] = {}
    BY DEF Init, NotificationsInit
  <2> QED BY <2>1 DEF InHand
<1>4. NoticesOwned /\ NoticesOnRecord
  BY <1>3 DEF Init, NotificationsInit, NoticesOwned, NoticesOnRecord
<1>5. CompletionRecord /\ RejectionHasReason
  BY DEF Init, CompletionRecord, RejectionHasReason, Absent
<1> QED BY <1>1, <1>2, <1>4, <1>5 DEF IInv

\* Types, and what a call holds after its read.
LEMMA StepTyped ==
  ASSUME TypeOK, CallsWellFormed, [Next]_vars
  PROVE  TypeOK' /\ CallsWellFormed'
<1>1. ASSUME NEW c \in Calls, NEW a \in Request, Start(c, a)
      PROVE  TypeOK' /\ CallsWellFormed'
  <2>1. a \in [ op : Op \cup {"none"}, user : Users \cup {None},
                ref : Updates \cup {None}, module : Modules \cup {None},
                decision : Decision \cup {"none"} ]
    BY DEF Request, Op, Review, Decision
  <2>2. TypeOK'
    BY <1>1, <2>1 DEF Start, Goto, TypeOK, NotificationsTypeOK, notifyVars, tables, Running
  <2>3. CallsWellFormed'
    BY <1>1 DEF Start, Goto, TypeOK, CallsWellFormed, notifyVars, tables, Exists
  <2> QED BY <2>2, <2>3
<1>2. ASSUME NEW c \in Calls, LookupModule(c)
      PROVE  TypeOK' /\ CallsWellFormed'
  BY <1>2 DEF LookupModule, Goto, TypeOK, NotificationsTypeOK, CallsWellFormed,
              notifyVars, tables, Running, Exists
<1>3. ASSUME NEW c \in Calls, LoadUpdate(c)
      PROVE  TypeOK' /\ CallsWellFormed'
  BY <1>3 DEF LoadUpdate, Goto, Accepts, Live, TypeOK, NotificationsTypeOK, CallsWellFormed,
              notifyVars, tables, Running, Exists
<1>4. ASSUME NEW c \in Calls, InsertUpdate(c)
      PROVE  TypeOK' /\ CallsWellFormed'
  <2>1. args[c].user \in Users /\ args[c].module \in Modules
    BY <1>4 DEF InsertUpdate, Writing, CallsWellFormed, Request, Review
  <2>2. PICK u \in Updates :
          /\ ~Exists(u)
          /\ su' = [su EXCEPT ![u] = Filed(c)]
          /\ args' = [args EXCEPT ![c].ref = u]
          /\ Notify(c, << NotifyRoles(c, {"ADMIN", "DEVELOPER"}, "SYSTEM_UPDATE_NEW",
                                      u, {args[c].user}) >>)
    BY <1>4 DEF InsertUpdate
  <2> DEFINE jobs == << NotifyRoles(c, {"ADMIN", "DEVELOPER"}, "SYSTEM_UPDATE_NEW",
                                    u, {args[c].user}) >>
  <2>3. jobs \in Seq(Job)
    BY NotifyRolesTyped DEF NotificationType, Updates
  <2>4. Filed(c) \in Row
    BY <2>1 DEF Filed, Absent, Row, Status
  <2>5. su' \in [Updates -> Row \cup {Absent}] /\ \A v \in Updates : Exists(v) => Exists(v)'
    BY <2>2, <2>4 DEF Exists, TypeOK
  <2>6. changelog' \subseteq Entry /\ comments' \subseteq Comment /\ activeModules' = activeModules
    BY <1>4 DEF InsertUpdate, TypeOK
  <2>7. /\ args' \in [Calls -> [ op : Op \cup {"none"}, user : Users \cup {None},
                                 ref : Updates \cup {None}, module : Modules \cup {None},
                                 decision : Decision \cup {"none"} ]]
        /\ \A k \in Calls \ {c} : args'[k] = args[k]
    BY <2>2 DEF TypeOK
  <2> HIDE DEF jobs
  <2> QED BY <2>2, <2>3, <2>5, <2>6, <2>7, NotifyingTyped DEF jobs
<1>5. ASSUME NEW c \in Calls, NEW op \in Review \cup {"complete"}, Writing(c, op)
      PROVE  /\ args[c].ref \in Updates /\ args[c].user \in Users /\ Exists(args[c].ref)
             /\ su[args[c].ref] \in Row
             /\ args[c].decision # "bareReject"
             /\ \A type \in NotificationType : TellRequester(c, args[c].ref, type) \in Job
             /\ \A type \in NotificationType : \A codes :
                  NotifyRoles(c, codes, type, args[c].ref, {}) \in Job
  <2>1. args[c].ref \in Updates /\ args[c].user \in Users /\ Exists(args[c].ref)
        /\ args[c].decision # "bareReject"
    BY <1>5 DEF Writing, CallsWellFormed, Request, Review
  <2>2. su[args[c].ref] \in Row /\ su[args[c].ref].requester \in Users
    BY <2>1, RowOfExisting
  <2>3. \A type \in NotificationType : TellRequester(c, args[c].ref, type) \in Job
    BY <2>1, <2>2, TellRequesterTyped
  <2>4. \A type \in NotificationType : \A codes :
          NotifyRoles(c, codes, type, args[c].ref, {}) \in Job
    BY <2>1, NotifyRolesTyped DEF Updates
  <2> QED BY <2>1, <2>2, <2>3, <2>4
<1>6. ASSUME NEW c \in Calls, ApproveAsDev(c)
      PROVE  TypeOK' /\ CallsWellFormed'
  <2> DEFINE u == args[c].ref
             jobs == << NotifyRoles(c, {"ADMIN"}, "SYSTEM_UPDATE_DEV_APPROVED", u, {}),
                        TellRequester(c, u, "SYSTEM_UPDATE_DEV_APPROVED") >>
  <2>1. Writing(c, "devReview") /\ Notify(c, jobs)
    BY <1>6 DEF ApproveAsDev, Deciding
  <2>2. jobs \in Seq(Job) /\ u \in Updates /\ args[c].user \in Users /\ su[u] \in Row
    BY <2>1, <1>5 DEF Review, NotificationType
  <2>3. su' \in [Updates -> Row \cup {Absent}] /\ \A v \in Updates : Exists(v) => Exists(v)'
    BY <1>6, <2>2 DEF ApproveAsDev, TypeOK, Exists, Row, Status
  <2>4. UNCHANGED <<changelog, comments, activeModules, args>>
    BY <1>6 DEF ApproveAsDev
  <2> HIDE DEF jobs
  <2> QED BY <2>1, <2>2, <2>3, <2>4, NotifyingTyped DEF TypeOK
<1>7. ASSUME NEW c \in Calls, RejectAsDev(c)
      PROVE  TypeOK' /\ CallsWellFormed'
  <2> DEFINE u == args[c].ref
             jobs == << TellRequester(c, u, "SYSTEM_UPDATE_DEV_REJECTED") >>
  <2>1. Writing(c, "devReview") /\ Notify(c, jobs)
    BY <1>7 DEF RejectAsDev
  <2>2. jobs \in Seq(Job) /\ u \in Updates /\ args[c].user \in Users /\ su[u] \in Row
    BY <2>1, <1>5 DEF Review, NotificationType
  <2>3. su' \in [Updates -> Row \cup {Absent}] /\ \A v \in Updates : Exists(v) => Exists(v)'
    BY <1>7, <2>2 DEF RejectAsDev, TypeOK, Exists, Row, Status
  <2>4. comments' \subseteq Comment
    BY <1>7, <2>2 DEF RejectAsDev, RejectionReason, Comment, TypeOK
  <2>5. UNCHANGED <<changelog, activeModules, args>>
    BY <1>7 DEF RejectAsDev
  <2> HIDE DEF jobs
  <2> QED BY <2>1, <2>2, <2>3, <2>4, <2>5, NotifyingTyped DEF TypeOK
<1>8. ASSUME NEW c \in Calls, ApproveAsAdmin(c)
      PROVE  TypeOK' /\ CallsWellFormed'
  <2> DEFINE u == args[c].ref
             jobs == << TellRequester(c, u, "SYSTEM_UPDATE_ADMIN_APPROVED"),
                        NotifyRoles(c, {"DEVELOPER"}, "SYSTEM_UPDATE_ADMIN_APPROVED", u, {}) >>
  <2>1. Writing(c, "adminReview") /\ Notify(c, jobs)
    BY <1>8 DEF ApproveAsAdmin, Deciding
  <2>2. jobs \in Seq(Job) /\ u \in Updates /\ args[c].user \in Users /\ su[u] \in Row
    BY <2>1, <1>5 DEF Review, NotificationType
  <2>3. su' \in [Updates -> Row \cup {Absent}] /\ \A v \in Updates : Exists(v) => Exists(v)'
    BY <1>8, <2>2 DEF ApproveAsAdmin, TypeOK, Exists, Row, Status
  <2>4. UNCHANGED <<changelog, comments, activeModules, args>>
    BY <1>8 DEF ApproveAsAdmin
  <2> HIDE DEF jobs
  <2> QED BY <2>1, <2>2, <2>3, <2>4, NotifyingTyped DEF TypeOK
<1>9. ASSUME NEW c \in Calls, RejectAsAdmin(c)
      PROVE  TypeOK' /\ CallsWellFormed'
  <2> DEFINE u == args[c].ref
             jobs == << TellRequester(c, u, "SYSTEM_UPDATE_ADMIN_REJECTED") >>
  <2>1. Writing(c, "adminReview") /\ Notify(c, jobs)
    BY <1>9 DEF RejectAsAdmin
  <2>2. jobs \in Seq(Job) /\ u \in Updates /\ args[c].user \in Users /\ su[u] \in Row
    BY <2>1, <1>5 DEF Review, NotificationType
  <2>3. su' \in [Updates -> Row \cup {Absent}] /\ \A v \in Updates : Exists(v) => Exists(v)'
    BY <1>9, <2>2 DEF RejectAsAdmin, TypeOK, Exists, Row, Status
  <2>4. comments' \subseteq Comment
    BY <1>9, <2>2 DEF RejectAsAdmin, RejectionReason, Comment, TypeOK
  <2>5. UNCHANGED <<changelog, activeModules, args>>
    BY <1>9 DEF RejectAsAdmin
  <2> HIDE DEF jobs
  <2> QED BY <2>1, <2>2, <2>3, <2>4, <2>5, NotifyingTyped DEF TypeOK
<1>10. ASSUME NEW c \in Calls, CompleteUpdate(c)
       PROVE  TypeOK' /\ CallsWellFormed'
  <2> DEFINE u == args[c].ref
             jobs == << TellRequester(c, u, "SYSTEM_UPDATE_COMPLETED") >>
  <2>1. Writing(c, "complete") /\ Notify(c, jobs)
    BY <1>10 DEF CompleteUpdate
  <2>2. jobs \in Seq(Job) /\ u \in Updates /\ su[u] \in Row
    BY <2>1, <1>5 DEF NotificationType
  <2>3. su' \in [Updates -> Row \cup {Absent}] /\ \A v \in Updates : Exists(v) => Exists(v)'
    BY <1>10, <2>2 DEF CompleteUpdate, TypeOK, Exists, Row, Status
  <2>4. changelog' \subseteq Entry
    BY <1>10, <2>2 DEF CompleteUpdate, Entry, TypeOK, Row
  <2>5. UNCHANGED <<comments, activeModules, args>>
    BY <1>10 DEF CompleteUpdate
  <2> HIDE DEF jobs
  <2> QED BY <2>1, <2>2, <2>3, <2>4, <2>5, NotifyingTyped DEF TypeOK
<1>11. ASSUME NEW c \in Calls, CompleteConflict(c)
       PROVE  TypeOK' /\ CallsWellFormed'
  BY <1>11 DEF CompleteConflict, Writing, Goto, TypeOK, NotificationsTypeOK, CallsWellFormed,
               notifyVars, tables, Exists
<1>12. ASSUME NEW c \in Calls, InsertComment(c)
       PROVE  TypeOK' /\ CallsWellFormed'
  <2>1. args[c].ref \in Updates /\ args[c].user \in Users
    BY <1>12 DEF InsertComment, Writing, CallsWellFormed, Request, Review
  <2>2. TypeOK'
    BY <1>12, <2>1 DEF InsertComment, Goto, TypeOK, NotificationsTypeOK, notifyVars, Comment
  <2>3. CallsWellFormed'
    BY <1>12 DEF InsertComment, Writing, Goto, TypeOK, CallsWellFormed, notifyVars, Exists
  <2> QED BY <2>2, <2>3
<1>13. ASSUME NEW c \in Calls, DeleteUpdate(c)
       PROVE  TypeOK' /\ CallsWellFormed'
  <2>1. args[c].ref \in Updates /\ Exists(args[c].ref)
    BY <1>13 DEF DeleteUpdate, Writing, CallsWellFormed, Request, Review
  <2>2. su[args[c].ref] \in Row
    BY <2>1, RowOfExisting
  <2>3. su' \in [Updates -> Row \cup {Absent}] /\ \A v \in Updates : Exists(v) => Exists(v)'
    BY <1>13, <2>1, <2>2 DEF DeleteUpdate, TypeOK, Exists, Row
  <2>4. TypeOK'
    BY <1>13, <2>3 DEF DeleteUpdate, Goto, TypeOK, NotificationsTypeOK, notifyVars
  <2>5. \A k \in Calls : pc'[k] = "loaded" /\ args'[k].op # "create" => args'[k].ref \in Updates
    BY <1>13 DEF DeleteUpdate, Goto, TypeOK, CallsWellFormed, Request, Review
  <2>6. CallsWellFormed'
    BY <1>13, <2>3, <2>5 DEF DeleteUpdate, Writing, Goto, TypeOK, CallsWellFormed, notifyVars
  <2> QED BY <2>4, <2>6
<1>14. ASSUME NEW c \in Calls, Deliver(c)
       PROVE  TypeOK' /\ CallsWellFormed'
  <2>1. /\ NotificationsTypeOK'
        /\ \A k \in Calls \ {c} : work'[k] = work[k]
    BY <1>14, NotifyStepKeeps DEF Deliver, TypeOK
  <2> QED BY <1>14, <2>1 DEF Deliver, TypeOK, CallsWellFormed, tables, Exists
<1>15. ASSUME NEW c \in Calls, Respond(c)
       PROVE  TypeOK' /\ CallsWellFormed'
  BY <1>15 DEF Respond, Goto, TypeOK, NotificationsTypeOK, CallsWellFormed,
               notifyVars, tables, Exists
<1>16. ASSUME NEW c \in Calls, Fail(c)
       PROVE  TypeOK' /\ CallsWellFormed'
  <2>1. TypeOK'
    BY <1>16 DEF Fail, Goto, TypeOK, NotificationsTypeOK, tables
  <2>2. CallsWellFormed'
    BY <1>16 DEF Fail, Goto, TypeOK, NotificationsTypeOK, CallsWellFormed, tables, Exists
  <2> QED BY <2>1, <2>2
<1>17. ASSUME NEW m \in Modules, ToggleModule(m)
       PROVE  TypeOK' /\ CallsWellFormed'
  BY <1>17 DEF ToggleModule, TypeOK, NotificationsTypeOK, CallsWellFormed, notifyVars, Exists
<1>18. ASSUME NEW x \in Users, ToggleUser(x)
       PROVE  TypeOK' /\ CallsWellFormed'
  BY <1>18 DEF ToggleUser, Deactivate, Reactivate, TypeOK, NotificationsTypeOK,
               CallsWellFormed, notifyVars, tables, Exists
<1>19. CASE UNCHANGED vars
  BY <1>19 DEF vars, TypeOK, NotificationsTypeOK, CallsWellFormed, Exists
<1> QED
  BY <1>1, <1>2, <1>3, <1>4, <1>6, <1>7, <1>8, <1>9, <1>10, <1>11, <1>12, <1>13, <1>14,
     <1>15, <1>16, <1>17, <1>18, <1>19
  DEF Next, Step

\* TypeOK holds in every reachable state: no interleaving of the handlers
\* writes a row, a job or an argument outside its type.
THEOREM TypeCorrect == Spec => []TypeOK
<1>1. Init => TypeOK /\ CallsWellFormed
  BY InitIInv DEF IInv
<1>2. TypeOK /\ CallsWellFormed /\ [Next]_vars => TypeOK' /\ CallsWellFormed'
  BY StepTyped
<1> QED BY <1>1, <1>2, PTL DEF Spec

----------------------------------------------------------------------------
(* Nothing on record is taken back.                                        *)

LEMMA StepGrows ==
  ASSUME TypeOK, CallsWellFormed, [Next]_vars
  PROVE  Grows
<1>1. ASSUME NEW c \in Calls, NEW a \in Request, Start(c, a) PROVE Grows
  BY <1>1 DEF Start, Goto, Grows, TypeOK, tables, Exists
<1>2. ASSUME NEW c \in Calls, LookupModule(c) \/ LoadUpdate(c) PROVE Grows
  BY <1>2 DEF LookupModule, LoadUpdate, Goto, Grows, TypeOK, tables, Exists
<1>3. ASSUME NEW c \in Calls, InsertUpdate(c) PROVE Grows
  <2>1. PICK u \in Updates :
          ~Exists(u) /\ su' = [su EXCEPT ![u] = Filed(c)] /\ args' = [args EXCEPT ![c].ref = u]
    BY <1>3 DEF InsertUpdate
  <2>2. \A v \in Updates : Exists(v) => su'[v] = su[v]
    BY <2>1 DEF TypeOK
  <2>3. pc' = [pc EXCEPT ![c] = "notifying"] /\ UNCHANGED <<comments, changelog>>
    BY <1>3 DEF InsertUpdate, Notify, Goto
  <2>4. \A k \in Calls : args'[k].user = args[k].user
    BY <2>1 DEF TypeOK
  <2> QED BY <2>2, <2>3, <2>4 DEF Grows, Exists, TypeOK
<1>4. ASSUME NEW c \in Calls, NEW op \in Review \cup {"complete", "softDelete"}, Writing(c, op)
      PROVE  args[c].ref \in Updates /\ args[c].user # None /\ su[args[c].ref] \in Row
  <2>1. args[c].ref \in Updates /\ args[c].user \in Users /\ Exists(args[c].ref)
    BY <1>4 DEF Writing, CallsWellFormed, Request, Review
  <2> QED BY <2>1, RowOfExisting, NotificationsAssumption
<1>5. ASSUME NEW c \in Calls, ApproveAsDev(c) \/ RejectAsDev(c) PROVE Grows
  <2>1. Writing(c, "devReview")
    BY <1>5 DEF ApproveAsDev, RejectAsDev, Deciding
  <2> QED BY <1>4, <1>5, <2>1
          DEF ApproveAsDev, RejectAsDev, Review, Notify, Goto, Grows, TypeOK, Exists, Row
<1>6. ASSUME NEW c \in Calls, ApproveAsAdmin(c) \/ RejectAsAdmin(c) PROVE Grows
  <2>1. Writing(c, "adminReview")
    BY <1>6 DEF ApproveAsAdmin, RejectAsAdmin, Deciding
  <2> QED BY <1>4, <1>6, <2>1
          DEF ApproveAsAdmin, RejectAsAdmin, Review, Notify, Goto, Grows, TypeOK, Exists, Row
<1>7. ASSUME NEW c \in Calls, CompleteUpdate(c) PROVE Grows
  BY <1>4, <1>7 DEF CompleteUpdate, Notify, Goto, Grows, TypeOK, Exists, Row
<1>8. ASSUME NEW c \in Calls, CompleteConflict(c) \/ Respond(c) \/ Fail(c) PROVE Grows
  BY <1>8 DEF CompleteConflict, Respond, Fail, Goto, Grows, TypeOK, tables, Exists
<1>9. ASSUME NEW c \in Calls, InsertComment(c) PROVE Grows
  BY <1>9 DEF InsertComment, Goto, Grows, TypeOK, Exists
<1>10. ASSUME NEW c \in Calls, DeleteUpdate(c) PROVE Grows
  BY <1>4, <1>10 DEF DeleteUpdate, Goto, Grows, TypeOK, Exists, Row
<1>11. ASSUME NEW c \in Calls, Deliver(c) PROVE Grows
  BY <1>11 DEF Deliver, Grows, tables, Exists
<1>12. ASSUME NEW m \in Modules, ToggleModule(m) PROVE Grows
  BY <1>12 DEF ToggleModule, Grows, Exists
<1>13. ASSUME NEW x \in Users, ToggleUser(x) PROVE Grows
  BY <1>13 DEF ToggleUser, Grows, tables, Exists
<1>14. CASE UNCHANGED vars
  BY <1>14 DEF vars, Grows, Exists
<1> QED
  BY <1>1, <1>2, <1>3, <1>5, <1>6, <1>7, <1>8, <1>9, <1>10, <1>11, <1>12, <1>13, <1>14
  DEF Next, Step

\* A notification that is on record stays on record.
LEMMA OnRecordStays ==
  ASSUME TypeOK, Grows, NEW n \in Notice, OnRecord(n), pc[n.by] # "idle"
  PROVE  OnRecord(n)'
<1>1. n.ref \in Updates /\ n.by \in Calls /\ Exists(n.ref)
  BY DEF Notice, Updates, OnRecord
<1>2. /\ Exists(n.ref)'
      /\ su'[n.ref].requester = su[n.ref].requester
      /\ su[n.ref].devReviewedBy # None => su'[n.ref].devReviewedBy # None
      /\ su[n.ref].adminReviewedBy # None => su'[n.ref].adminReviewedBy # None
      /\ comments \subseteq comments' /\ changelog \subseteq changelog'
      /\ args'[n.by].user = args[n.by].user
  BY <1>1 DEF Grows
<1>3. Exists(n.ref)'
  BY <1>2
<1> QED BY <1>2, <1>3 DEF OnRecord

----------------------------------------------------------------------------
(* Notices on record.                                                      *)

LEMMA InHandTyped ==
  ASSUME TypeOK, CallsWellFormed, NEW c \in Calls, NEW n \in InHand(c)
  PROVE  n \in Notice /\ pc[c] = "notifying"
<1>1. work[c] \in Seq(Job)
  BY DEF TypeOK, NotificationsTypeOK
<1>2. PICK i \in DOMAIN work[c] : n \in work[c][i].rows
  BY DEF InHand
<1>3. work[c] # <<>> /\ work[c][i] \in Job
  BY <1>1, <1>2
<1> QED BY <1>2, <1>3 DEF CallsWellFormed, Job

\* A step that takes rows only from the queues they are in.
LEMMA NoticesStay ==
  ASSUME IInv, Grows,
         \A n \in notifications' : n \in notifications \/ \E c \in Calls : n \in InHand(c),
         \A c \in Calls : InHand(c)' \subseteq InHand(c)
  PROVE  NoticesOwned' /\ NoticesOnRecord'
<1>1. \A c \in Calls : \A n \in InHand(c) :
        n \in Notice /\ n.by = c /\ OnRecord(n) /\ pc[n.by] # "idle"
  BY InHandTyped DEF IInv, NoticesOwned, NoticesOnRecord
<1>2. \A n \in notifications : n \in Notice /\ OnRecord(n) /\ pc[n.by] # "idle"
  BY DEF IInv, TypeOK, NotificationsTypeOK, NoticesOwned, NoticesOnRecord
<1>3. \A n \in Notice : OnRecord(n) /\ pc[n.by] # "idle" => OnRecord(n)' /\ pc'[n.by] # "idle"
  <2> SUFFICES ASSUME NEW n \in Notice, OnRecord(n), pc[n.by] # "idle"
               PROVE  OnRecord(n)' /\ pc'[n.by] # "idle"
    OBVIOUS
  <2>1. n.by \in Calls
    BY DEF Notice
  <2> QED BY <2>1, OnRecordStays DEF IInv, Grows
<1>4. NoticesOwned'
  BY <1>1, <1>2, <1>3 DEF NoticesOwned
<1>5. NoticesOnRecord'
  BY <1>1, <1>2, <1>3 DEF NoticesOnRecord
<1> QED BY <1>4, <1>5

\* A handler that writes and fills its queue with rows its write justifies.
LEMMA NoticesAdded ==
  ASSUME IInv, Grows, NEW c \in Calls, pc[c] = "loaded", NEW jobs \in Seq(Job),
         Notify(c, jobs),
         \A i \in DOMAIN jobs : \A n \in jobs[i].rows : n.by = c /\ OnRecord(n)'
  PROVE  NoticesOwned' /\ NoticesOnRecord'
<1>1. /\ work'[c] = jobs
      /\ \A k \in Calls \ {c} : work'[k] = work[k]
      /\ notifications' = notifications
  BY NotifyTyped DEF IInv
<1>2. \A n \in InHand(c)' : n.by = c /\ OnRecord(n)'
  BY <1>1 DEF InHand
<1>3. \A k \in Calls \ {c} : InHand(k)' = InHand(k)
  BY <1>1 DEF InHand
<1>4. \A k \in Calls : \A n \in InHand(k) :
        n \in Notice /\ n.by = k /\ OnRecord(n) /\ pc[n.by] # "idle"
  BY InHandTyped DEF IInv, NoticesOwned, NoticesOnRecord
<1>5. \A n \in notifications : n \in Notice /\ OnRecord(n) /\ pc[n.by] # "idle"
  BY DEF IInv, TypeOK, NotificationsTypeOK, NoticesOwned, NoticesOnRecord
<1>6. \A n \in Notice : OnRecord(n) /\ pc[n.by] # "idle" => OnRecord(n)' /\ pc'[n.by] # "idle"
  <2> SUFFICES ASSUME NEW n \in Notice, OnRecord(n), pc[n.by] # "idle"
               PROVE  OnRecord(n)' /\ pc'[n.by] # "idle"
    OBVIOUS
  <2>1. n.by \in Calls
    BY DEF Notice
  <2> QED BY <2>1, OnRecordStays DEF IInv, Grows
<1>7. NoticesOwned'
  BY <1>1, <1>2, <1>3, <1>4, <1>5, <1>6 DEF NoticesOwned
<1>8. NoticesOnRecord'
  BY <1>1, <1>2, <1>3, <1>4, <1>5, <1>6 DEF NoticesOnRecord
<1> QED BY <1>7, <1>8

\* The rows of the jobs the handlers queue.
LEMMA RowsOfJobs ==
  ASSUME NEW c \in Calls, NEW u \in Updates, NEW type, NEW codes, NEW exclude
  PROVE  /\ \A n \in TellRequester(c, u, type).rows :
              n.by = c /\ n.ref = u /\ n.type = type /\ n.via = "createMany"
              /\ n.user = su[u].requester
         /\ \A n \in NotifyRoles(c, codes, type, u, exclude).rows :
              n.by = c /\ n.ref = u /\ n.type = type /\ n.via = "notifyRoles"
              /\ n.user \notin exclude
BY DEF TellRequester, CreateMany, NotifyRoles, Rows, Requester

LEMMA StepNotices ==
  ASSUME IInv, [Next]_vars
  PROVE  NoticesOwned' /\ NoticesOnRecord'
<1> DEFINE Kept == NoticesOwned' /\ NoticesOnRecord'
<1>1. TypeOK /\ CallsWellFormed /\ Grows
  BY StepGrows DEF IInv
<1>2. ASSUME work' = work, notifications' = notifications PROVE Kept
  BY <1>1, <1>2, NoticesStay DEF InHand
<1>3. ASSUME NEW c \in Calls, InsertUpdate(c) PROVE Kept
  <2>1. PICK u \in Updates :
          /\ ~Exists(u)
          /\ su' = [su EXCEPT ![u] = Filed(c)]
          /\ Notify(c, << NotifyRoles(c, {"ADMIN", "DEVELOPER"}, "SYSTEM_UPDATE_NEW",
                                      u, {args[c].user}) >>)
    BY <1>3 DEF InsertUpdate
  <2> DEFINE jobs == << NotifyRoles(c, {"ADMIN", "DEVELOPER"}, "SYSTEM_UPDATE_NEW",
                                    u, {args[c].user}) >>
  <2>2. jobs \in Seq(Job)
    BY NotifyRolesTyped DEF NotificationType, Updates
  <2>3. su'[u] = Filed(c)
    BY <1>1, <2>1 DEF TypeOK
  <2>4. su'[u].status = "PENDING" /\ su'[u].requester = args[c].user
    BY <2>3 DEF Filed, Absent
  <2>5. \A n \in jobs[1].rows : n.by = c /\ OnRecord(n)'
    BY <2>4, RowsOfJobs DEF OnRecord, Exists
  <2>6. \A i \in DOMAIN jobs : \A n \in jobs[i].rows : n.by = c /\ OnRecord(n)'
    BY <2>5
  <2>7. pc[c] = "loaded"
    BY <1>3 DEF InsertUpdate, Writing
  <2> HIDE DEF jobs
  <2> QED BY <1>1, <2>1, <2>2, <2>6, <2>7, NoticesAdded DEF jobs
<1>4. ASSUME NEW c \in Calls, NEW op \in Review \cup {"complete"}, Writing(c, op)
      PROVE  /\ args[c].ref \in Updates /\ args[c].user \in Users /\ Exists(args[c].ref)
             /\ su[args[c].ref] \in Row
             /\ \A type \in NotificationType : TellRequester(c, args[c].ref, type) \in Job
             /\ \A type \in NotificationType : \A codes :
                  NotifyRoles(c, codes, type, args[c].ref, {}) \in Job
  <2>1. args[c].ref \in Updates /\ args[c].user \in Users /\ Exists(args[c].ref)
    BY <1>1, <1>4 DEF Writing, CallsWellFormed, Request, Review
  <2>2. su[args[c].ref] \in Row /\ su[args[c].ref].requester \in Users
    BY <1>1, <2>1, RowOfExisting
  <2> QED BY <2>1, <2>2, TellRequesterTyped, NotifyRolesTyped DEF Updates
<1>5. ASSUME NEW c \in Calls, ApproveAsDev(c) PROVE Kept
  <2> DEFINE u == args[c].ref
             jobs == << NotifyRoles(c, {"ADMIN"}, "SYSTEM_UPDATE_DEV_APPROVED", u, {}),
                        TellRequester(c, u, "SYSTEM_UPDATE_DEV_APPROVED") >>
  <2>1. Writing(c, "devReview") /\ Notify(c, jobs) /\ pc[c] = "loaded"
    BY <1>5 DEF ApproveAsDev, Deciding, Writing
  <2>2. jobs \in Seq(Job) /\ u \in Updates /\ args[c].user # None /\ su[u] \in Row
    BY <2>1, <1>4, NotificationsAssumption DEF Review, NotificationType
  <2>3. su'[u].requester = su[u].requester /\ su'[u].devReviewedBy = args[c].user
        /\ su'[u].status = "DEV_APPROVED"
    BY <1>1, <1>5, <2>2 DEF ApproveAsDev, TypeOK, Row
  <2>4. \A n \in jobs[1].rows \cup jobs[2].rows : n.by = c /\ OnRecord(n)'
    BY <2>2, <2>3, RowsOfJobs DEF OnRecord, Exists
  <2>5. \A i \in DOMAIN jobs : \A n \in jobs[i].rows : n.by = c /\ OnRecord(n)'
    BY <2>4
  <2> HIDE DEF jobs
  <2> QED BY <1>1, <2>1, <2>2, <2>5, NoticesAdded
<1>6. ASSUME NEW c \in Calls, ApproveAsAdmin(c) PROVE Kept
  <2> DEFINE u == args[c].ref
             jobs == << TellRequester(c, u, "SYSTEM_UPDATE_ADMIN_APPROVED"),
                        NotifyRoles(c, {"DEVELOPER"}, "SYSTEM_UPDATE_ADMIN_APPROVED", u, {}) >>
  <2>1. Writing(c, "adminReview") /\ Notify(c, jobs) /\ pc[c] = "loaded"
    BY <1>6 DEF ApproveAsAdmin, Deciding, Writing
  <2>2. jobs \in Seq(Job) /\ u \in Updates /\ args[c].user # None /\ su[u] \in Row
    BY <2>1, <1>4, NotificationsAssumption DEF Review, NotificationType
  <2>3. su'[u].requester = su[u].requester /\ su'[u].adminReviewedBy = args[c].user
        /\ su'[u].status = "ADMIN_APPROVED"
    BY <1>1, <1>6, <2>2 DEF ApproveAsAdmin, TypeOK, Row
  <2>4. \A n \in jobs[1].rows \cup jobs[2].rows : n.by = c /\ OnRecord(n)'
    BY <2>2, <2>3, RowsOfJobs DEF OnRecord, Exists
  <2>5. \A i \in DOMAIN jobs : \A n \in jobs[i].rows : n.by = c /\ OnRecord(n)'
    BY <2>4
  <2> HIDE DEF jobs
  <2> QED BY <1>1, <2>1, <2>2, <2>5, NoticesAdded
<1>7. ASSUME NEW c \in Calls, RejectAsDev(c) PROVE Kept
  <2> DEFINE u == args[c].ref
             jobs == << TellRequester(c, u, "SYSTEM_UPDATE_DEV_REJECTED") >>
  <2>1. Writing(c, "devReview") /\ Notify(c, jobs) /\ pc[c] = "loaded"
    BY <1>7 DEF RejectAsDev, Writing
  <2>2. jobs \in Seq(Job) /\ u \in Updates /\ su[u] \in Row
    BY <2>1, <1>4 DEF Review, NotificationType
  <2>3. su'[u].requester = su[u].requester /\ su'[u].status = "DEV_REJECTED"
        /\ args' = args
    BY <1>1, <1>7, <2>2 DEF RejectAsDev, TypeOK, Row
  <2>4. \E k \in comments' : /\ k.by = c /\ k.update = u /\ k.author = args[c].user
                             /\ k.type = "REJECTION_REASON"
    <3> DEFINE k == [ by |-> c, update |-> u, author |-> args[c].user,
                      type |-> "REJECTION_REASON",
                      content |-> IF args[c].decision = "bareReject" THEN "empty" ELSE "text" ]
    <3>1. k \in comments'
      BY <1>7 DEF RejectAsDev, RejectionReason
    <3> QED BY <3>1
  <2>5. \A n \in jobs[1].rows : n.by = c /\ OnRecord(n)'
    BY <2>2, <2>3, <2>4, RowsOfJobs DEF OnRecord, Exists
  <2>6. \A i \in DOMAIN jobs : \A n \in jobs[i].rows : n.by = c /\ OnRecord(n)'
    BY <2>5
  <2> HIDE DEF jobs
  <2> QED BY <1>1, <2>1, <2>2, <2>6, NoticesAdded
<1>8. ASSUME NEW c \in Calls, RejectAsAdmin(c) PROVE Kept
  <2> DEFINE u == args[c].ref
             jobs == << TellRequester(c, u, "SYSTEM_UPDATE_ADMIN_REJECTED") >>
  <2>1. Writing(c, "adminReview") /\ Notify(c, jobs) /\ pc[c] = "loaded"
    BY <1>8 DEF RejectAsAdmin, Writing
  <2>2. jobs \in Seq(Job) /\ u \in Updates /\ su[u] \in Row
    BY <2>1, <1>4 DEF Review, NotificationType
  <2>3. su'[u].requester = su[u].requester /\ su'[u].status = "ADMIN_REJECTED"
        /\ args' = args
    BY <1>1, <1>8, <2>2 DEF RejectAsAdmin, TypeOK, Row
  <2>4. \E k \in comments' : /\ k.by = c /\ k.update = u /\ k.author = args[c].user
                             /\ k.type = "REJECTION_REASON"
    <3> DEFINE k == [ by |-> c, update |-> u, author |-> args[c].user,
                      type |-> "REJECTION_REASON",
                      content |-> IF args[c].decision = "bareReject" THEN "empty" ELSE "text" ]
    <3>1. k \in comments'
      BY <1>8 DEF RejectAsAdmin, RejectionReason
    <3> QED BY <3>1
  <2>5. \A n \in jobs[1].rows : n.by = c /\ OnRecord(n)'
    BY <2>2, <2>3, <2>4, RowsOfJobs DEF OnRecord, Exists
  <2>6. \A i \in DOMAIN jobs : \A n \in jobs[i].rows : n.by = c /\ OnRecord(n)'
    BY <2>5
  <2> HIDE DEF jobs
  <2> QED BY <1>1, <2>1, <2>2, <2>6, NoticesAdded
<1>9. ASSUME NEW c \in Calls, CompleteUpdate(c) PROVE Kept
  <2> DEFINE u == args[c].ref
             jobs == << TellRequester(c, u, "SYSTEM_UPDATE_COMPLETED") >>
  <2>1. Writing(c, "complete") /\ Notify(c, jobs) /\ pc[c] = "loaded"
    BY <1>9 DEF CompleteUpdate, Writing
  <2>2. jobs \in Seq(Job) /\ u \in Updates /\ su[u] \in Row
    BY <2>1, <1>4 DEF NotificationType
  <2>3. su'[u].requester = su[u].requester /\ su'[u].status = "COMPLETED"
    BY <1>1, <1>9, <2>2 DEF CompleteUpdate, TypeOK, Row
  <2>4. \E e \in changelog' : e.by = c /\ e.update = u
    <3> DEFINE e == [by |-> c, update |-> u, module |-> su[u].module]
    <3>1. e \in changelog'
      BY <1>9 DEF CompleteUpdate
    <3> QED BY <3>1
  <2>5. \A n \in jobs[1].rows : n.by = c /\ OnRecord(n)'
    BY <2>2, <2>3, <2>4, RowsOfJobs DEF OnRecord, Exists
  <2>6. \A i \in DOMAIN jobs : \A n \in jobs[i].rows : n.by = c /\ OnRecord(n)'
    BY <2>5
  <2> HIDE DEF jobs
  <2> QED BY <1>1, <2>1, <2>2, <2>6, NoticesAdded
<1>10. ASSUME NEW c \in Calls, Deliver(c) PROVE Kept
  <2>1. /\ notifications' \subseteq notifications \cup InHand(c)
        /\ \A k \in Calls \ {c} : work'[k] = work[k]
        /\ InHand(c)' \subseteq InHand(c)
    BY <1>1, <1>10, NotifyStepKeeps DEF Deliver, TypeOK
  <2>2. \A k \in Calls : InHand(k)' \subseteq InHand(k)
    BY <2>1 DEF InHand
  <2> QED BY <1>1, <2>1, <2>2, NoticesStay
<1>11. ASSUME NEW c \in Calls, Fail(c) PROVE Kept
  <2>1. work'[c] = <<>> /\ \A k \in Calls \ {c} : work'[k] = work[k]
    BY <1>1, <1>11 DEF Fail, TypeOK, NotificationsTypeOK
  <2>2. InHand(c)' = {}
    BY <2>1 DEF InHand
  <2>3. \A k \in Calls : InHand(k)' \subseteq InHand(k)
    BY <2>1, <2>2 DEF InHand
  <2> QED BY <1>1, <1>11, <2>3, NoticesStay DEF Fail
<1>12. ASSUME NEW c \in Calls,
              \/ LookupModule(c) \/ LoadUpdate(c) \/ CompleteConflict(c)
              \/ InsertComment(c) \/ DeleteUpdate(c) \/ Respond(c)
       PROVE  Kept
  BY <1>2, <1>12 DEF LookupModule, LoadUpdate, CompleteConflict, InsertComment, DeleteUpdate,
                     Respond, notifyVars
<1>13. ASSUME NEW c \in Calls, NEW a \in Request, Start(c, a) PROVE Kept
  BY <1>2, <1>13 DEF Start, notifyVars
<1>14. ASSUME NEW m \in Modules, ToggleModule(m) PROVE Kept
  BY <1>2, <1>14 DEF ToggleModule, notifyVars
<1>15. ASSUME NEW x \in Users, ToggleUser(x) PROVE Kept
  BY <1>2, <1>15 DEF ToggleUser, Deactivate, Reactivate, notifyVars
<1>16. CASE UNCHANGED vars
  BY <1>2, <1>16 DEF vars
<1> HIDE DEF Kept
<1>17. ASSUME NEW c \in Calls, Step(c) PROVE Kept
  <2>1. \/ InsertUpdate(c) \/ ApproveAsDev(c) \/ RejectAsDev(c) \/ ApproveAsAdmin(c)
        \/ RejectAsAdmin(c) \/ CompleteUpdate(c) \/ Deliver(c)
        \/ (\/ LookupModule(c) \/ LoadUpdate(c) \/ CompleteConflict(c)
            \/ InsertComment(c) \/ DeleteUpdate(c) \/ Respond(c))
    BY <1>17 DEF Step
  <2> QED BY <2>1, <1>3, <1>5, <1>6, <1>7, <1>8, <1>9, <1>10, <1>12
<1>18. ASSUME Next PROVE Kept
  <2>1. CASE \E c \in Calls, a \in Request : Start(c, a)
    BY <2>1, <1>13
  <2>2. CASE \E c \in Calls : Step(c) \/ Fail(c)
    BY <2>2, <1>11, <1>17
  <2>3. CASE \E m \in Modules : ToggleModule(m)
    BY <2>3, <1>14
  <2>4. CASE \E x \in Users : ToggleUser(x)
    BY <2>4, <1>15
  <2> QED BY <1>18, <2>1, <2>2, <2>3, <2>4 DEF Next
<1> QED BY <1>16, <1>18 DEF Kept

----------------------------------------------------------------------------
(* The two records of a completion, and the reason of a rejection.         *)

LEMMA StepCompletion ==
  ASSUME IInv, [Next]_vars
  PROVE  CompletionRecord'
<1>1. TypeOK /\ CallsWellFormed /\ Grows /\ CompletionRecord /\ TypeOK'
  BY StepGrows, StepTyped DEF IInv
<1>2. ASSUME changelog' = changelog,
             \A u \in Updates : /\ su'[u].completed = su[u].completed
                                /\ su'[u].status = "COMPLETED" => su[u].status = "COMPLETED"
      PROVE  CompletionRecord'
  <2>1. \A e \in changelog : e.update \in Updates /\ su'[e.update].module = su[e.update].module
    <3> SUFFICES ASSUME NEW e \in changelog
                 PROVE  e.update \in Updates /\ su'[e.update].module = su[e.update].module
      OBVIOUS
    <3>1. e.update \in Updates
      BY <1>1 DEF TypeOK, Entry
    <3>2. Exists(e.update)
      BY <1>1, <3>1 DEF CompletionRecord, Exists, TypeOK, Absent, Row, Status
    <3> QED BY <1>1, <3>1, <3>2 DEF Grows
  <2> QED BY <1>1, <1>2, <2>1 DEF CompletionRecord
<1>3. ASSUME NEW c \in Calls, NEW op \in Review \cup {"complete", "softDelete"}, Writing(c, op)
      PROVE  args[c].ref \in Updates /\ su[args[c].ref] \in Row
  <2>1. args[c].ref \in Updates /\ Exists(args[c].ref)
    BY <1>1, <1>3 DEF Writing, CallsWellFormed, Request, Review
  <2> QED BY <1>1, <2>1, RowOfExisting
<1>4. ASSUME NEW c \in Calls, InsertUpdate(c) PROVE CompletionRecord'
  <2>1. PICK u \in Updates : ~Exists(u) /\ su' = [su EXCEPT ![u] = Filed(c)]
    BY <1>4 DEF InsertUpdate
  <2>2. su[u] = Absent
    BY <1>1, <2>1 DEF TypeOK, Exists, Row, Status
  <2>3. \A v \in Updates : /\ su'[v].completed = su[v].completed
                           /\ su'[v].status = "COMPLETED" => su[v].status = "COMPLETED"
    BY <1>1, <2>1, <2>2 DEF TypeOK, Filed, Absent
  <2> QED BY <1>2, <1>4, <2>3 DEF InsertUpdate
<1>5. ASSUME NEW c \in Calls, ApproveAsDev(c) \/ RejectAsDev(c) PROVE CompletionRecord'
  <2>1. Writing(c, "devReview")
    BY <1>5 DEF ApproveAsDev, RejectAsDev, Deciding
  <2>2. args[c].ref \in Updates /\ su[args[c].ref] \in Row
    BY <1>3, <2>1 DEF Review
  <2> QED BY <1>1, <1>2, <1>5, <2>2 DEF ApproveAsDev, RejectAsDev, TypeOK, Row
<1>6. ASSUME NEW c \in Calls, ApproveAsAdmin(c) \/ RejectAsAdmin(c) PROVE CompletionRecord'
  <2>1. Writing(c, "adminReview")
    BY <1>6 DEF ApproveAsAdmin, RejectAsAdmin, Deciding
  <2>2. args[c].ref \in Updates /\ su[args[c].ref] \in Row
    BY <1>3, <2>1 DEF Review
  <2> QED BY <1>1, <1>2, <1>6, <2>2 DEF ApproveAsAdmin, RejectAsAdmin, TypeOK, Row
<1>7. ASSUME NEW c \in Calls, CompleteUpdate(c) PROVE CompletionRecord'
  <2> DEFINE u == args[c].ref
             entry == [by |-> c, update |-> u, module |-> su[u].module]
  <2>1. u \in Updates /\ su[u] \in Row
    BY <1>3, <1>7 DEF CompleteUpdate
  <2>2. /\ su' = [su EXCEPT ![u].status = "COMPLETED", ![u].completed = TRUE]
        /\ changelog' = changelog \cup {entry}
        /\ \A e \in changelog : e.update # u
    BY <1>7 DEF CompleteUpdate, EntryAllowed
  <2>0. entry.update = u /\ entry.module = su[u].module
    OBVIOUS
  <2> HIDE DEF entry
  <2>3. /\ su'[u].completed = TRUE /\ su'[u].module = su[u].module
        /\ \A v \in Updates \ {u} : su'[v] = su[v]
    BY <1>1, <2>1, <2>2 DEF TypeOK, Row
  <2>4. \A e \in changelog : e.update \in Updates
    BY <1>1 DEF TypeOK, Entry
  <2>5. \A v \in Updates : su'[v].completed <=> \E e \in changelog' : e.update = v
    <3> SUFFICES ASSUME NEW v \in Updates
                 PROVE  su'[v].completed <=> \E e \in changelog' : e.update = v
      OBVIOUS
    <3>1. CASE v = u
      BY <2>0, <2>2, <2>3, <3>1
    <3>2. CASE v # u
      BY <1>1, <2>0, <2>2, <2>3, <3>2 DEF CompletionRecord
    <3> QED BY <3>1, <3>2
  <2>6. \A v \in Updates : su'[v].status = "COMPLETED" => su'[v].completed
    BY <1>1, <2>3 DEF CompletionRecord
  <2>7. \A e \in changelog' : e.module = su'[e.update].module
    <3> SUFFICES ASSUME NEW e \in changelog' PROVE e.module = su'[e.update].module
      OBVIOUS
    <3>1. CASE e = entry
      BY <2>0, <2>3, <3>1
    <3>2. CASE e \in changelog
      <4>1. e.update \in Updates \ {u}
        BY <2>2, <2>4, <3>2
      <4>2. su'[e.update] = su[e.update]
        BY <2>3, <4>1
      <4>3. e.module = su[e.update].module
        BY <1>1, <3>2 DEF CompletionRecord
      <4> QED BY <4>2, <4>3
    <3> QED BY <2>2, <3>1, <3>2
  <2>8. \A e, f \in changelog' : e.update = f.update => e = f
    BY <1>1, <2>0, <2>2 DEF CompletionRecord
  <2> QED BY <2>5, <2>6, <2>7, <2>8 DEF CompletionRecord
<1>8. ASSUME NEW c \in Calls, DeleteUpdate(c) PROVE CompletionRecord'
  <2>1. args[c].ref \in Updates /\ su[args[c].ref] \in Row
    BY <1>3, <1>8 DEF DeleteUpdate
  <2> QED BY <1>1, <1>2, <1>8, <2>1 DEF DeleteUpdate, TypeOK, Row
<1>9. ASSUME NEW c \in Calls,
             \/ LookupModule(c) \/ LoadUpdate(c) \/ CompleteConflict(c)
             \/ InsertComment(c) \/ Deliver(c) \/ Respond(c) \/ Fail(c)
      PROVE  CompletionRecord'
  BY <1>2, <1>9 DEF LookupModule, LoadUpdate, CompleteConflict, InsertComment, Deliver,
                    Respond, Fail, tables
<1>10. ASSUME NEW c \in Calls, NEW a \in Request, Start(c, a) PROVE CompletionRecord'
  BY <1>2, <1>10 DEF Start, tables
<1>11. ASSUME NEW m \in Modules, ToggleModule(m) PROVE CompletionRecord'
  BY <1>2, <1>11 DEF ToggleModule
<1>12. ASSUME NEW x \in Users, ToggleUser(x) PROVE CompletionRecord'
  BY <1>2, <1>12 DEF ToggleUser, tables
<1>13. CASE UNCHANGED vars
  BY <1>2, <1>13 DEF vars
<1> QED
  BY <1>4, <1>5, <1>6, <1>7, <1>8, <1>9, <1>10, <1>11, <1>12, <1>13 DEF Next, Step

\* The reason for a rejection, as RejectionHasReason asks for it.
Explained(u, x) ==
  \E k \in comments : /\ k.update = u /\ k.author = x
                      /\ k.type = "REJECTION_REASON" /\ k.content # "empty"

LEMMA StepReason ==
  ASSUME IInv, [Next]_vars
  PROVE  RejectionHasReason'
<1>1. TypeOK /\ CallsWellFormed /\ Grows /\ RejectionHasReason
  BY StepGrows DEF IInv
<1>2. \A u \in Updates :
        /\ su[u].status = "DEV_REJECTED" => Explained(u, su[u].devReviewedBy)
        /\ su[u].status = "ADMIN_REJECTED" => Explained(u, su[u].adminReviewedBy)
  BY <1>1 DEF RejectionHasReason, Explained
<1>3. SUFFICES ASSUME NEW u \in Updates
      PROVE /\ su'[u].status = "DEV_REJECTED" => Explained(u, su[u].devReviewedBy)'
            /\ su'[u].status = "ADMIN_REJECTED" => Explained(u, su[u].adminReviewedBy)'
  BY DEF RejectionHasReason, Explained
<1> DEFINE Goal == /\ su'[u].status = "DEV_REJECTED" => Explained(u, su[u].devReviewedBy)'
                   /\ su'[u].status = "ADMIN_REJECTED" => Explained(u, su[u].adminReviewedBy)'
<1>4. comments \subseteq comments'
  BY <1>1 DEF Grows
<1>5. ASSUME su'[u] = su[u] PROVE Goal
  BY <1>2, <1>4, <1>5 DEF Explained
<1>6. ASSUME su'[u].status \notin {"DEV_REJECTED", "ADMIN_REJECTED"} PROVE Goal
  BY <1>6
<1>7. ASSUME NEW c \in Calls, NEW op \in Review \cup {"complete", "softDelete"}, Writing(c, op)
      PROVE  /\ args[c].ref \in Updates /\ su[args[c].ref] \in Row
             /\ op \in Review => args[c].decision # "bareReject"
  <2>1. /\ args[c].ref \in Updates /\ Exists(args[c].ref)
        /\ op \in Review => args[c].decision # "bareReject"
    BY <1>1, <1>7 DEF Writing, CallsWellFormed, Request, Review
  <2> QED BY <1>1, <2>1, RowOfExisting
<1>8. ASSUME NEW c \in Calls, InsertUpdate(c) PROVE Goal
  <2>1. PICK v \in Updates : su' = [su EXCEPT ![v] = Filed(c)]
    BY <1>8 DEF InsertUpdate
  <2>2. Filed(c).status = "PENDING"
    BY DEF Filed, Absent
  <2>3. CASE u = v
    BY <1>1, <1>6, <2>1, <2>2, <2>3 DEF TypeOK
  <2>4. CASE u # v
    BY <1>1, <1>5, <2>1, <2>4 DEF TypeOK
  <2> QED BY <2>3, <2>4
<1>9. ASSUME NEW c \in Calls, ApproveAsDev(c) \/ ApproveAsAdmin(c) \/ CompleteUpdate(c) PROVE Goal
  <2>1. args[c].ref \in Updates /\ su[args[c].ref] \in Row
    BY <1>7, <1>9 DEF ApproveAsDev, ApproveAsAdmin, CompleteUpdate, Deciding, Review
  <2>2. CASE u = args[c].ref
    <3>1. su'[u].status \in {"DEV_APPROVED", "ADMIN_APPROVED", "COMPLETED"}
      BY <1>1, <1>9, <2>1, <2>2 DEF ApproveAsDev, ApproveAsAdmin, CompleteUpdate, TypeOK, Row
    <3> QED BY <1>6, <3>1
  <2>3. CASE u # args[c].ref
    BY <1>1, <1>5, <1>9, <2>3 DEF ApproveAsDev, ApproveAsAdmin, CompleteUpdate, TypeOK
  <2> QED BY <2>2, <2>3
<1>10. ASSUME NEW c \in Calls, RejectAsDev(c) PROVE Goal
  <2>1. /\ args[c].ref \in Updates /\ su[args[c].ref] \in Row
        /\ args[c].decision # "bareReject"
    BY <1>7, <1>10 DEF RejectAsDev, Review
  <2>2. CASE u = args[c].ref
    <3>1. su'[u].status = "DEV_REJECTED" /\ su'[u].devReviewedBy = args[c].user
      BY <1>1, <1>10, <2>1, <2>2 DEF RejectAsDev, TypeOK, Row
    <3> DEFINE k == [ by |-> c, update |-> u, author |-> args[c].user,
                      type |-> "REJECTION_REASON", content |-> "text" ]
    <3>2. k \in comments'
      BY <1>10, <2>1, <2>2 DEF RejectAsDev, RejectionReason
    <3> QED BY <3>1, <3>2 DEF Explained
  <2>3. CASE u # args[c].ref
    BY <1>1, <1>5, <1>10, <2>3 DEF RejectAsDev, TypeOK
  <2> QED BY <2>2, <2>3
<1>11. ASSUME NEW c \in Calls, RejectAsAdmin(c) PROVE Goal
  <2>1. /\ args[c].ref \in Updates /\ su[args[c].ref] \in Row
        /\ args[c].decision # "bareReject"
    BY <1>7, <1>11 DEF RejectAsAdmin, Review
  <2>2. CASE u = args[c].ref
    <3>1. su'[u].status = "ADMIN_REJECTED" /\ su'[u].adminReviewedBy = args[c].user
      BY <1>1, <1>11, <2>1, <2>2 DEF RejectAsAdmin, TypeOK, Row
    <3> DEFINE k == [ by |-> c, update |-> u, author |-> args[c].user,
                      type |-> "REJECTION_REASON", content |-> "text" ]
    <3>2. k \in comments'
      BY <1>11, <2>1, <2>2 DEF RejectAsAdmin, RejectionReason
    <3> QED BY <3>1, <3>2 DEF Explained
  <2>3. CASE u # args[c].ref
    BY <1>1, <1>5, <1>11, <2>3 DEF RejectAsAdmin, TypeOK
  <2> QED BY <2>2, <2>3
<1>12. ASSUME NEW c \in Calls, DeleteUpdate(c) PROVE Goal
  <2>1. args[c].ref \in Updates /\ su[args[c].ref] \in Row
    BY <1>7, <1>12 DEF DeleteUpdate
  <2>2. /\ su'[u].status = su[u].status
        /\ su'[u].devReviewedBy = su[u].devReviewedBy
        /\ su'[u].adminReviewedBy = su[u].adminReviewedBy
    BY <1>1, <1>12, <2>1 DEF DeleteUpdate, TypeOK, Row
  <2> QED BY <1>2, <1>4, <2>2 DEF Explained
<1>13. ASSUME su' = su PROVE Goal
  BY <1>5, <1>13
<1>14. ASSUME NEW c \in Calls,
              \/ LookupModule(c) \/ LoadUpdate(c) \/ CompleteConflict(c)
              \/ InsertComment(c) \/ Deliver(c) \/ Respond(c) \/ Fail(c)
       PROVE  Goal
  BY <1>13, <1>14 DEF LookupModule, LoadUpdate, CompleteConflict, InsertComment, Deliver,
                      Respond, Fail, tables
<1>15. ASSUME NEW c \in Calls, NEW a \in Request, Start(c, a) PROVE Goal
  BY <1>13, <1>15 DEF Start, tables
<1>16. ASSUME NEW m \in Modules, ToggleModule(m) PROVE Goal
  BY <1>13, <1>16 DEF ToggleModule
<1>17. ASSUME NEW x \in Users, ToggleUser(x) PROVE Goal
  BY <1>13, <1>17 DEF ToggleUser, tables
<1>18. ASSUME UNCHANGED vars PROVE Goal
  BY <1>13, <1>18 DEF vars
<1> HIDE DEF Goal
<1>19. Goal
  BY <1>8, <1>9, <1>10, <1>11, <1>12, <1>14, <1>15, <1>16, <1>17, <1>18 DEF Next, Step
<1> QED BY <1>19 DEF Goal

----------------------------------------------------------------------------
LEMMA IInvKept ==
  ASSUME IInv, [Next]_vars
  PROVE  IInv'
<1>1. TypeOK' /\ CallsWellFormed'
  BY StepTyped DEF IInv
<1> QED BY <1>1, StepNotices, StepCompletion, StepReason DEF IInv

\* The inductive invariant holds in every reachable state.
THEOREM InvariantHolds == Spec => []IInv
<1>1. Init => IInv
  BY InitIInv
<1>2. IInv /\ [Next]_vars => IInv'
  BY IInvKept
<1> QED BY <1>1, <1>2, PTL DEF Spec

\* The completion timestamp, the COMPLETED status and the changelog agree
\* whatever calls of `complete' and of the reviews overlap: one entry per
\* update, filed under its module.
THEOREM CompletionIsRecorded == Spec => []CompletionRecord
<1>1. IInv => CompletionRecord
  BY DEF IInv
<1> QED BY <1>1, InvariantHolds, PTL

\* A request that reads rejected carries a reason by the reviewer it names.
THEOREM RejectionIsExplained == Spec => []RejectionHasReason
<1>1. IInv => RejectionHasReason
  BY DEF IInv
<1> QED BY <1>1, InvariantHolds, PTL

\* No notification announces what is not on record.
THEOREM NoticesAreTrue == Spec => []NoticesOnRecord
<1>1. IInv => NoticesOnRecord
  BY DEF IInv
<1> QED BY <1>1, InvariantHolds, PTL
----------------------------------------------------------------------------
(* Soft deletion.                                                          *)

\* What a step may do to a deleted request and to the calls that have read it.
Frozen(u) ==
  /\ su'[u].deleted
  /\ Loaded(u) = {} => su'[u] = su[u] /\ Loaded(u)' = {}

\* A step of one call that does not bring it to its write.
LEMMA NobodyLoads ==
  ASSUME NEW c \in Calls, pc'[c] # "loaded",
         \A k \in Calls \ {c} : pc'[k] = pc[k] /\ args'[k] = args[k], NEW u
  PROVE  Loaded(u)' \subseteq Loaded(u)
BY DEF Loaded

\* A write touches the row its call has read, and never restores it.
LEMMA WriteRespectsDeletion ==
  ASSUME TypeOK, CallsWellFormed, NEW u \in Updates, su[u].deleted,
         NEW c \in Calls, NEW op \in Op \ {"create"}, Writing(c, op),
         pc' = [pc EXCEPT ![c] = "notifying"] \/ pc' = [pc EXCEPT ![c] = "done"], args' = args,
         NEW row, su' = [su EXCEPT ![args[c].ref] = row],
         row.deleted \/ row.deleted = su[args[c].ref].deleted
  PROVE  Frozen(u)
<1>1. Loaded(u)' \subseteq Loaded(u)
  <2>1. \A k \in Calls \ {c} : pc'[k] = pc[k] /\ args'[k] = args[k]
    BY DEF TypeOK
  <2>2. pc'[c] # "loaded"
    BY DEF TypeOK
  <2> QED BY <2>1, <2>2, NobodyLoads
<1>2. CASE args[c].ref = u
  <2>1. c \in Loaded(u)
    BY <1>2 DEF Writing, Loaded
  <2>2. su'[u] = row
    BY <1>2 DEF TypeOK
  <2> QED BY <1>2, <2>1, <2>2 DEF Frozen
<1>3. CASE args[c].ref # u
  <2>1. su'[u] = su[u]
    BY <1>3 DEF TypeOK
  <2> QED BY <1>1, <2>1 DEF Frozen
<1> QED BY <1>2, <1>3

LEMMA StepFreezes ==
  ASSUME TypeOK, CallsWellFormed, [Next]_vars, NEW u \in Updates, su[u].deleted
  PROVE  Frozen(u)
<1>1. ASSUME su' = su, Loaded(u)' \subseteq Loaded(u) PROVE Frozen(u)
  BY <1>1 DEF Frozen
<1>2. ASSUME NEW c \in Calls, NEW a \in Request, Start(c, a) PROVE Frozen(u)
  <2>1. /\ pc'[c] = "started"
        /\ \A k \in Calls \ {c} : pc'[k] = pc[k] /\ args'[k] = args[k]
    BY <1>2 DEF Start, Goto, TypeOK
  <2> QED BY <1>1, <1>2, <2>1, NobodyLoads DEF Start, tables
<1>3. ASSUME NEW c \in Calls, LookupModule(c) PROVE Frozen(u)
  <2>1. args[c].ref = None /\ None # u
    BY <1>3, NotificationsAssumption DEF LookupModule, CallsWellFormed, Request, Review, Updates
  <2>2. Loaded(u)' \subseteq Loaded(u)
    BY <1>3, <2>1 DEF LookupModule, Goto, Loaded, TypeOK
  <2> QED BY <1>1, <1>3, <2>2 DEF LookupModule, tables
<1>4. ASSUME NEW c \in Calls, LoadUpdate(c) PROVE Frozen(u)
  <2>1. Accepts(args[c]) => args[c].ref # u
    BY DEF Accepts, Live
  <2>2. Loaded(u)' \subseteq Loaded(u)
    BY <1>4, <2>1 DEF LoadUpdate, Goto, Loaded, TypeOK
  <2> QED BY <1>1, <1>4, <2>2 DEF LoadUpdate, tables
<1>5. ASSUME NEW c \in Calls, InsertUpdate(c) PROVE Frozen(u)
  <2>1. PICK w \in Updates :
          ~Exists(w) /\ su' = [su EXCEPT ![w] = Filed(c)] /\ args' = [args EXCEPT ![c].ref = w]
    BY <1>5 DEF InsertUpdate
  <2>2. w # u
    BY <2>1 DEF TypeOK, Exists, Absent, Row, Status
  <2>3. su'[u] = su[u]
    BY <2>1, <2>2 DEF TypeOK
  <2>4. pc'[c] = "notifying" /\ \A k \in Calls \ {c} : pc'[k] = pc[k] /\ args'[k] = args[k]
    BY <1>5, <2>1 DEF InsertUpdate, Notify, Goto, TypeOK
  <2> QED BY <2>3, <2>4, NobodyLoads DEF Frozen
<1>6. ASSUME NEW c \in Calls, NEW op \in Review \cup {"complete", "softDelete"}, Writing(c, op)
      PROVE  args[c].ref \in Updates /\ su[args[c].ref] \in Row
  <2>1. args[c].ref \in Updates /\ Exists(args[c].ref)
    BY <1>6 DEF Writing, CallsWellFormed, Request, Review
  <2> QED BY <2>1, RowOfExisting
<1>7. ASSUME NEW c \in Calls, ApproveAsDev(c) PROVE Frozen(u)
  <2>1. Writing(c, "devReview")
    BY <1>7 DEF ApproveAsDev, Deciding
  <2> DEFINE row == [su[args[c].ref] EXCEPT !.status = "DEV_APPROVED",
                                            !.devReviewedBy = args[c].user]
  <2>2. row.deleted = su[args[c].ref].deleted
    BY <1>6, <2>1 DEF Row, Review
  <2>3. su' = [su EXCEPT ![args[c].ref] = row]
    BY <1>6, <1>7, <2>1 DEF ApproveAsDev, Review, TypeOK
  <2>4. pc' = [pc EXCEPT ![c] = "notifying"] /\ args' = args
    BY <1>7 DEF ApproveAsDev, Notify, Goto
  <2> HIDE DEF row
  <2> QED BY <2>1, <2>2, <2>3, <2>4, WriteRespectsDeletion DEF Op, Review
<1>8. ASSUME NEW c \in Calls, RejectAsDev(c) PROVE Frozen(u)
  <2>1. Writing(c, "devReview")
    BY <1>8 DEF RejectAsDev
  <2> DEFINE row == [su[args[c].ref] EXCEPT !.status = "DEV_REJECTED",
                                            !.devReviewedBy = args[c].user]
  <2>2. row.deleted = su[args[c].ref].deleted
    BY <1>6, <2>1 DEF Row, Review
  <2>3. su' = [su EXCEPT ![args[c].ref] = row]
    BY <1>6, <1>8, <2>1 DEF RejectAsDev, Review, TypeOK
  <2>4. pc' = [pc EXCEPT ![c] = "notifying"] /\ args' = args
    BY <1>8 DEF RejectAsDev, Notify, Goto
  <2> HIDE DEF row
  <2> QED BY <2>1, <2>2, <2>3, <2>4, WriteRespectsDeletion DEF Op, Review
<1>9. ASSUME NEW c \in Calls, ApproveAsAdmin(c) PROVE Frozen(u)
  <2>1. Writing(c, "adminReview")
    BY <1>9 DEF ApproveAsAdmin, Deciding
  <2> DEFINE row == [su[args[c].ref] EXCEPT !.status = "ADMIN_APPROVED",
                                            !.adminReviewedBy = args[c].user]
  <2>2. row.deleted = su[args[c].ref].deleted
    BY <1>6, <2>1 DEF Row, Review
  <2>3. su' = [su EXCEPT ![args[c].ref] = row]
    BY <1>6, <1>9, <2>1 DEF ApproveAsAdmin, Review, TypeOK
  <2>4. pc' = [pc EXCEPT ![c] = "notifying"] /\ args' = args
    BY <1>9 DEF ApproveAsAdmin, Notify, Goto
  <2> HIDE DEF row
  <2> QED BY <2>1, <2>2, <2>3, <2>4, WriteRespectsDeletion DEF Op, Review
<1>10. ASSUME NEW c \in Calls, RejectAsAdmin(c) PROVE Frozen(u)
  <2>1. Writing(c, "adminReview")
    BY <1>10 DEF RejectAsAdmin
  <2> DEFINE row == [su[args[c].ref] EXCEPT !.status = "ADMIN_REJECTED",
                                            !.adminReviewedBy = args[c].user]
  <2>2. row.deleted = su[args[c].ref].deleted
    BY <1>6, <2>1 DEF Row, Review
  <2>3. su' = [su EXCEPT ![args[c].ref] = row]
    BY <1>6, <1>10, <2>1 DEF RejectAsAdmin, Review, TypeOK
  <2>4. pc' = [pc EXCEPT ![c] = "notifying"] /\ args' = args
    BY <1>10 DEF RejectAsAdmin, Notify, Goto
  <2> HIDE DEF row
  <2> QED BY <2>1, <2>2, <2>3, <2>4, WriteRespectsDeletion DEF Op, Review
<1>11. ASSUME NEW c \in Calls, CompleteUpdate(c) PROVE Frozen(u)
  <2>1. Writing(c, "complete")
    BY <1>11 DEF CompleteUpdate
  <2> DEFINE row == [su[args[c].ref] EXCEPT !.status = "COMPLETED", !.completed = TRUE]
  <2>2. row.deleted = su[args[c].ref].deleted
    BY <1>6, <2>1 DEF Row
  <2>3. su' = [su EXCEPT ![args[c].ref] = row]
    BY <1>6, <1>11, <2>1 DEF CompleteUpdate, TypeOK
  <2>4. pc' = [pc EXCEPT ![c] = "notifying"] /\ args' = args
    BY <1>11 DEF CompleteUpdate, Notify, Goto
  <2> HIDE DEF row
  <2> QED BY <2>1, <2>2, <2>3, <2>4, WriteRespectsDeletion DEF Op
<1>12. ASSUME NEW c \in Calls, DeleteUpdate(c) PROVE Frozen(u)
  <2>1. Writing(c, "softDelete")
    BY <1>12 DEF DeleteUpdate
  <2> DEFINE row == [su[args[c].ref] EXCEPT !.deleted = TRUE]
  <2>2. row.deleted
    BY <1>6, <2>1 DEF Row
  <2>3. su' = [su EXCEPT ![args[c].ref] = row]
    BY <1>12 DEF DeleteUpdate
  <2>4. pc' = [pc EXCEPT ![c] = "done"] /\ args' = args
    BY <1>12 DEF DeleteUpdate, Goto
  <2> HIDE DEF row
  <2> QED BY <2>1, <2>2, <2>3, <2>4, WriteRespectsDeletion DEF Op
<1>13. ASSUME NEW c \in Calls,
              CompleteConflict(c) \/ InsertComment(c) \/ Respond(c) \/ Fail(c)
       PROVE  Frozen(u)
  <2>1. /\ pc'[c] # "loaded" /\ su' = su
        /\ \A k \in Calls \ {c} : pc'[k] = pc[k] /\ args'[k] = args[k]
    BY <1>13 DEF CompleteConflict, InsertComment, Respond, Fail, Goto, TypeOK, tables
  <2> QED BY <1>1, <2>1, NobodyLoads
<1>14. ASSUME su' = su, pc' = pc, args' = args PROVE Frozen(u)
  BY <1>1, <1>14 DEF Loaded
<1>15. ASSUME \/ \E c \in Calls : Deliver(c)
              \/ \E m \in Modules : ToggleModule(m)
              \/ \E x \in Users : ToggleUser(x)
              \/ UNCHANGED vars
       PROVE  Frozen(u)
  BY <1>14, <1>15 DEF Deliver, ToggleModule, ToggleUser, tables, vars
<1>16. ASSUME NEW c \in Calls, Step(c) PROVE Frozen(u)
  BY <1>3, <1>4, <1>5, <1>7, <1>8, <1>9, <1>10, <1>11, <1>12, <1>13, <1>15, <1>16 DEF Step
<1> QED BY <1>2, <1>13, <1>15, <1>16 DEF Next

\* A deleted request no longer changes once the calls that had read it before
\* are through, and no new call gets hold of it (every findFirst filters on
\* deletedAt, no write clears it).
THEOREM DeletedStaysFrozen == Spec => DeletedIsFrozen
<1>1. TypeOK /\ CallsWellFormed /\ [Next]_vars =>
        [\A u \in Updates : su[u].deleted =>
           /\ su'[u].deleted
           /\ Loaded(u) = {} => su'[u] = su[u] /\ Loaded(u)' = {}]_vars
  BY StepFreezes DEF Frozen
<1>2. IInv => TypeOK /\ CallsWellFormed
  BY DEF IInv
<1> QED BY <1>1, <1>2, InvariantHolds, PTL DEF Spec, DeletedIsFrozen
----------------------------------------------------------------------------
(* Delivery.                                                               *)

\* A job that has not begun, of the call that asks for it.
Begins(c, j) == j \in Job /\ j.stage \in {"resolve", "create"} /\ \A n \in j.rows : n.by = c

LEMMA TellRequesterBegins ==
  ASSUME NEW c \in Calls, NEW type \in NotificationType, NEW u \in Updates,
         su[u].requester \in Users
  PROVE  Begins(c, TellRequester(c, u, type))
<1>1. /\ TellRequester(c, u, type).stage = "create"
      /\ \A n \in TellRequester(c, u, type).rows : n.by = c
  BY DEF TellRequester, CreateMany, Rows
<1> QED BY <1>1, TellRequesterTyped DEF Begins

LEMMA NotifyRolesBegins ==
  ASSUME NEW c \in Calls, NEW codes, NEW type \in NotificationType,
         NEW u \in Updates, NEW exclude
  PROVE  Begins(c, NotifyRoles(c, codes, type, u, exclude))
<1>1. NotifyRoles(c, codes, type, u, exclude).stage = "resolve"
  BY DEF NotifyRoles
<1> QED BY <1>1, NotifyRolesTyped, RowsOfJobs DEF Begins, Updates

\* A handler that goes on to one or two such jobs.
LEMMA NotifyDelivers ==
  ASSUME TypeOK, Delivery, NEW c \in Calls, NEW jobs \in Seq(Job), Notify(c, jobs),
         \A i \in DOMAIN jobs : Begins(c, jobs[i])
  PROVE  Delivery'
<1>1. /\ work'[c] = jobs /\ \A k \in Calls \ {c} : work'[k] = work[k]
      /\ UNCHANGED <<notifications, pushed, emails>>
  BY NotifyTyped DEF Notify
<1>2. QueueOK(c)'
  BY <1>1, QueueFills DEF Begins
<1>3. \A k \in Calls \ {c} : QueueOK(k)'
  BY <1>1, QueueStays DEF Delivery
<1> QED BY <1>1, <1>2, <1>3 DEF Delivery

LEMMA NotifyOneDelivers ==
  ASSUME TypeOK, Delivery, NEW c \in Calls, NEW j, Begins(c, j), Notify(c, <<j>>)
  PROVE  Delivery'
<1>1. j \in Job
  BY DEF Begins
<1>2. <<j>> \in Seq(Job) /\ \A i \in DOMAIN <<j>> : <<j>>[i] = j
  BY <1>1
<1> QED BY <1>2, NotifyDelivers

LEMMA NotifyTwoDelivers ==
  ASSUME TypeOK, Delivery, NEW c \in Calls, NEW j, NEW k, Begins(c, j), Begins(c, k),
         Notify(c, <<j, k>>)
  PROVE  Delivery'
<1>1. j \in Job /\ k \in Job
  BY DEF Begins
<1>2. <<j, k>> \in Seq(Job) /\ \A i \in DOMAIN <<j, k>> : <<j, k>>[i] \in {j, k}
  BY <1>1
<1> QED BY <1>2, NotifyDelivers

LEMMA StepDelivers ==
  ASSUME TypeOK, CallsWellFormed, Delivery, [Next]_vars
  PROVE  Delivery'
<1>1. ASSUME UNCHANGED notifyVars PROVE Delivery'
  BY <1>1, QueueStays DEF Delivery, notifyVars
<1>2. ASSUME NEW c \in Calls, NEW op \in Review \cup {"complete"}, Writing(c, op),
             NEW type \in NotificationType
      PROVE  /\ args[c].ref \in Updates
             /\ Begins(c, TellRequester(c, args[c].ref, type))
  <2>1. args[c].ref \in Updates /\ Exists(args[c].ref)
    BY <1>2 DEF Writing, CallsWellFormed, Request, Review
  <2> QED BY <2>1, RowOfExisting, TellRequesterBegins
<1>3. ASSUME NEW c \in Calls, InsertUpdate(c) PROVE Delivery'
  <2>1. PICK u \in Updates :
          Notify(c, << NotifyRoles(c, {"ADMIN", "DEVELOPER"}, "SYSTEM_UPDATE_NEW",
                                   u, {args[c].user}) >>)
    BY <1>3 DEF InsertUpdate
  <2>2. Begins(c, NotifyRoles(c, {"ADMIN", "DEVELOPER"}, "SYSTEM_UPDATE_NEW",
                              u, {args[c].user}))
    BY NotifyRolesBegins DEF NotificationType
  <2> QED BY <2>1, <2>2, NotifyOneDelivers
<1>4. ASSUME NEW c \in Calls, NEW op \in Review \cup {"complete"}, Writing(c, op),
             NEW type \in NotificationType, Notify(c, << TellRequester(c, args[c].ref, type) >>)
      PROVE  Delivery'
  BY <1>2, <1>4, NotifyOneDelivers
<1>5. ASSUME NEW c \in Calls, RejectAsDev(c) \/ RejectAsAdmin(c) \/ CompleteUpdate(c)
      PROVE  Delivery'
  BY <1>4, <1>5 DEF RejectAsDev, RejectAsAdmin, CompleteUpdate, Review, NotificationType
<1>6. ASSUME NEW c \in Calls, ApproveAsDev(c) PROVE Delivery'
  <2> DEFINE u == args[c].ref
             type == "SYSTEM_UPDATE_DEV_APPROVED"
  <2>1. Writing(c, "devReview") /\ type \in NotificationType
    BY <1>6 DEF ApproveAsDev, Deciding, NotificationType
  <2>2. u \in Updates /\ Begins(c, TellRequester(c, u, type))
    BY <1>2, <2>1 DEF Review
  <2>3. Begins(c, NotifyRoles(c, {"ADMIN"}, type, u, {}))
    BY <2>1, <2>2, NotifyRolesBegins
  <2>4. Notify(c, << NotifyRoles(c, {"ADMIN"}, type, u, {}), TellRequester(c, u, type) >>)
    BY <1>6 DEF ApproveAsDev
  <2> HIDE DEF u, type
  <2> QED BY <2>2, <2>3, <2>4, NotifyTwoDelivers
<1>7. ASSUME NEW c \in Calls, ApproveAsAdmin(c) PROVE Delivery'
  <2> DEFINE u == args[c].ref
             type == "SYSTEM_UPDATE_ADMIN_APPROVED"
  <2>1. Writing(c, "adminReview") /\ type \in NotificationType
    BY <1>7 DEF ApproveAsAdmin, Deciding, NotificationType
  <2>2. u \in Updates /\ Begins(c, TellRequester(c, u, type))
    BY <1>2, <2>1 DEF Review
  <2>3. Begins(c, NotifyRoles(c, {"DEVELOPER"}, type, u, {}))
    BY <2>1, <2>2, NotifyRolesBegins
  <2>4. Notify(c, << TellRequester(c, u, type), NotifyRoles(c, {"DEVELOPER"}, type, u, {}) >>)
    BY <1>7 DEF ApproveAsAdmin
  <2> HIDE DEF u, type
  <2> QED BY <2>2, <2>3, <2>4, NotifyTwoDelivers
<1>8. ASSUME NEW c \in Calls, Deliver(c) PROVE Delivery'
  BY <1>8, NotifyStepDelivers DEF Deliver, TypeOK
<1>9. ASSUME NEW c \in Calls, Fail(c) PROVE Delivery'
  <2>1. /\ work'[c] = <<>> /\ \A k \in Calls \ {c} : work'[k] = work[k]
        /\ UNCHANGED <<notifications, pushed, emails>>
    BY <1>9 DEF Fail, TypeOK, NotificationsTypeOK
  <2>2. <<>> \in Seq(Job) /\ DOMAIN <<>> = {}
    OBVIOUS
  <2>3. QueueOK(c)'
    BY <2>1, <2>2, QueueFills
  <2>4. \A k \in Calls \ {c} : QueueOK(k)'
    BY <2>1, QueueStays DEF Delivery
  <2> QED BY <2>1, <2>3, <2>4 DEF Delivery
<1>10. ASSUME NEW c \in Calls, Step(c) PROVE Delivery'
  <2>1. CASE \/ LookupModule(c) \/ LoadUpdate(c) \/ CompleteConflict(c) \/ InsertComment(c)
             \/ DeleteUpdate(c) \/ Respond(c)
    BY <1>1, <2>1 DEF LookupModule, LoadUpdate, CompleteConflict, InsertComment,
                      DeleteUpdate, Respond
  <2> QED BY <1>3, <1>5, <1>6, <1>7, <1>8, <1>10, <2>1 DEF Step
<1>11. ASSUME \/ \E c \in Calls, a \in Request : Start(c, a)
              \/ \E m \in Modules : ToggleModule(m)
              \/ \E x \in Users : ToggleUser(x)
              \/ UNCHANGED vars
       PROVE  Delivery'
  BY <1>1, <1>11 DEF Start, ToggleModule, ToggleUser, Deactivate, Reactivate, vars, notifyVars
<1> QED BY <1>9, <1>10, <1>11 DEF Next

\* A user is e-mailed only what was pushed to him, and pushed only what is
\* stored, however handlers interleave, users are switched off in between, mail
\* fails or a handler stops half-way.
THEOREM DeliveryIsOrdered == Spec => []DeliveryFollowsStorage
<1>1. Init => IInv /\ Delivery
  <2> SUFFICES ASSUME Init PROVE Delivery
    BY InitIInv
  <2>1. emails = {} /\ pushed = {}
    BY DEF Init, NotificationsInit
  <2>2. ASSUME NEW c \in Calls PROVE work[c] = <<>>
    BY DEF Init, NotificationsInit
  <2>3. ASSUME NEW c \in Calls PROVE QueueOK(c)
    BY <2>2 DEF QueueOK, InHand
  <2> QED BY <2>1, <2>3 DEF Delivery
<1>2. IInv /\ Delivery /\ [Next]_vars => IInv' /\ Delivery'
  BY IInvKept, StepDelivers DEF IInv
<1>3. Delivery => DeliveryFollowsStorage
  BY DEF Delivery, QueueOK, DeliveryFollowsStorage
<1> QED BY <1>1, <1>2, <1>3, PTL DEF Spec
----------------------------------------------------------------------------
(* The inbox.                                                              *)

\* A reviewer's inbox and the `approved' tray hold what can be acted upon, by
\* whatever roles give whatever permissions: list() and the handlers agree.
THEOREM InboxAgrees == Spec => []InboxIsActionable
<1> DEFINE Open(op, u) == Accepts([op |-> op, ref |-> u, decision |-> "approve"])
<1>1. ASSUME NEW u \in Updates
      PROVE  /\ Open("devReview", u) <=> Live(u) /\ su[u].status = "PENDING"
             /\ Open("adminReview", u) <=> Live(u) /\ su[u].status \in {"PENDING", "DEV_APPROVED"}
             /\ Open("complete", u) <=> Live(u) /\ su[u].status = "ADMIN_APPROVED"
  BY DEF Accepts, Expected, AdminExpects
<1>2. ASSUME NEW x \in Users
      PROVE  /\ Required["devReview"] \subseteq PermsOf[x] <=> IsDev(x)
             /\ Required["adminReview"] \subseteq PermsOf[x] <=> IsAdmin(x)
  BY DEF Required, IsDev, IsAdmin, Can
<1>3. ASSUME NEW x \in Users, NEW u \in Updates
      PROVE  /\ MayList(x, "inbox") /\ (IsAdmin(x) \/ IsDev(x)) =>
                  (Listed(x, u, "inbox") <=>
                     \E op \in Review : Required[op] \subseteq PermsOf[x] /\ Open(op, u))
             /\ Listed(x, u, "approved") <=> Open("complete", u)
  <2>1. Listed(x, u, "approved") <=> Live(u) /\ su[u].status = "ADMIN_APPROVED"
    BY DEF Listed, MayList, InScope
  <2>2. IsAdmin(x) \/ IsDev(x) =>
          (Listed(x, u, "inbox") <=>
             /\ Live(u)
             /\ su[u].status \in IF IsAdmin(x) THEN {"PENDING", "DEV_APPROVED"} ELSE {"PENDING"})
    BY DEF Listed, MayList, InScope
  <2>3. (\E op \in Review : Required[op] \subseteq PermsOf[x] /\ Open(op, u)) <=>
          \/ IsDev(x) /\ Open("devReview", u)
          \/ IsAdmin(x) /\ Open("adminReview", u)
    BY <1>2 DEF Review
  <2> HIDE DEF Open
  <2> QED BY <1>1, <2>1, <2>2, <2>3
<1>4. InboxIsActionable
  BY <1>3 DEF InboxIsActionable
<1> QED BY <1>4, PTL

----------------------------------------------------------------------------
(* Calls one after the other.                                              *)

OneAtATime == \A c, d \in InFlight : c = d

\* What a call has checked still stands when it is about to write.
CheckStands(c) == pc[c] = "loaded" /\ args[c].op # "create" => Accepts(args[c])

ChecksStand == \A c \in Calls : CheckStands(c)

FinalType == { "SYSTEM_UPDATE_DEV_REJECTED", "SYSTEM_UPDATE_ADMIN_REJECTED",
               "SYSTEM_UPDATE_COMPLETED" }

\* The status a final notification speaks of.
Said(type) == IF type = "SYSTEM_UPDATE_DEV_REJECTED" THEN "DEV_REJECTED"
              ELSE IF type = "SYSTEM_UPDATE_ADMIN_REJECTED" THEN "ADMIN_REJECTED"
              ELSE "COMPLETED"

FinalStatus == { "DEV_REJECTED", "ADMIN_REJECTED", "COMPLETED" }

\* Stored or still to be, a final notification and the row agree.
Agrees(n) == n.type \in FinalType => su[n.ref].status = Said(n.type)

\* A queue that speaks of u, and truly once its status is `status'.
Truthful(jobs, u, status) ==
  \A j \in DOMAIN jobs : \A n \in jobs[j].rows :
    n.ref = u /\ (n.type \in FinalType => status = Said(n.type))

FinalNoticesHold ==
  /\ \A n \in notifications : Agrees(n)
  /\ \A c \in Calls : \A n \in InHand(c) : Agrees(n)

SerialInv == OneAtATime /\ ChecksStand /\ FinalNoticesHold

\* A step of a handler, or its failure: the call was in flight, and is the only
\* one that moves.
LEMMA OneMoves ==
  ASSUME IInv, NEW c \in Calls, Step(c) \/ Fail(c)
  PROVE  pc[c] \in Running /\ \A k \in Calls \ {c} : pc'[k] = pc[k]
BY DEF Step, LookupModule, LoadUpdate, InsertUpdate, ApproveAsDev, RejectAsDev, ApproveAsAdmin,
       RejectAsAdmin, CompleteUpdate, CompleteConflict, InsertComment, DeleteUpdate, Deliver,
       Respond, Fail, Deciding, Writing, Notify, Goto, Running, IInv, TypeOK

\* A call that starts where one call may be in flight starts alone.
LEMMA StartsAlone ==
  ASSUME Serial, WithinBounds
  PROVE  InFlight = {}
<1>1. IsFiniteSet(InFlight) /\ Cardinality(InFlight) < 1
  BY SystemUpdatesAssumption, FS_Subset DEF InFlight, WithinBounds, Serial
<1>2. Cardinality(InFlight) \in Nat
  BY <1>1, FS_CardinalityType
<1>3. Cardinality(InFlight) = 0
  BY <1>1, <1>2
<1> QED BY <1>1, <1>3, FS_EmptySet

\* Final notifications hold as long as no final status is changed and those a
\* handler takes in agree with what it has written.
LEMMA AgreementKept ==
  ASSUME IInv, FinalNoticesHold,
         \A u \in Updates : su[u].status \in FinalStatus => su'[u].status = su[u].status,
         \A n \in notifications' : n \in notifications \/ \E k \in Calls : n \in InHand(k),
         \A k \in Calls : \A n \in InHand(k)' : n \in InHand(k) \/ Agrees(n)'
  PROVE  FinalNoticesHold'
<1>1. ASSUME NEW n \in Notice, Agrees(n) PROVE Agrees(n)'
  <2>1. n.ref \in Updates /\ Said(n.type) \in FinalStatus
    BY DEF Notice, Updates, Said, FinalStatus
  <2> QED BY <1>1, <2>1 DEF Agrees
<1>2. \A n \in notifications : n \in Notice /\ Agrees(n)
  BY DEF IInv, TypeOK, NotificationsTypeOK, FinalNoticesHold
<1>3. \A k \in Calls : \A n \in InHand(k) : n \in Notice /\ Agrees(n)
  BY InHandTyped DEF IInv, FinalNoticesHold
<1>4. \A n \in notifications' : Agrees(n)'
  BY <1>1, <1>2, <1>3
<1>5. \A k \in Calls : \A n \in InHand(k)' : Agrees(n)'
  BY <1>1, <1>3
<1> QED BY <1>4, <1>5 DEF FinalNoticesHold

\* A step that makes a row of status `row.status' of one that may still change,
\* and announces it truly.
LEMMA RowMoves ==
  ASSUME IInv, FinalNoticesHold, NEW c \in Calls, NEW u \in Updates,
         su[u].status \notin FinalStatus, NEW row, su' = [su EXCEPT ![u] = row],
         NEW jobs, Notify(c, jobs),
         Truthful(jobs, u, row.status)
  PROVE  FinalNoticesHold'
<1>1. /\ work'[c] = jobs /\ notifications' = notifications
      /\ \A k \in Calls \ {c} : work'[k] = work[k]
  BY DEF Notify, IInv, TypeOK, NotificationsTypeOK
<1>2. su'[u] = row /\ \A v \in Updates \ {u} : su'[v] = su[v]
  BY DEF IInv, TypeOK
<1>3. \A k \in Calls \ {c} : InHand(k)' = InHand(k)
  BY <1>1 DEF InHand
<1>4. \A n \in InHand(c)' : Agrees(n)'
  BY <1>1, <1>2 DEF InHand, Agrees, Truthful
<1> QED BY <1>1, <1>2, <1>3, <1>4, AgreementKept

\* What the lifecycle sees of such a step, whether a row moves or is deleted.
LEMMA LifecycleMoves ==
  ASSUME IInv, NEW u \in Updates, NEW row, su' = [su EXCEPT ![u] = row]
  PROVE  /\ row.deleted = su[u].deleted => { v \in Updates : su'[v].deleted }
                                             = { v \in Updates : su[v].deleted }
         /\ row.deleted => { v \in Updates : su'[v].deleted }
                             = { v \in Updates : su[v].deleted } \cup {u}
         /\ \A from : su[u].status \in from => Lifecycle!Move(u, from, row.status)
         /\ row.status = su[u].status =>
              [v \in Updates |-> su'[v].status] = [v \in Updates |-> su[v].status]
<1>1. su'[u] = row /\ \A v \in Updates \ {u} : su'[v] = su[v]
  BY DEF IInv, TypeOK
<1> DEFINE st == [v \in Updates |-> su[v].status]
<1>2. st' = [st EXCEPT ![u] = row.status]
  <2>1. \A v \in Updates : st'[v] = IF v = u THEN row.status ELSE st[v]
    BY <1>1
  <2>2. st' = [v \in Updates |-> IF v = u THEN row.status ELSE st[v]]
    BY <2>1
  <2>3. [st EXCEPT ![u] = row.status] = [v \in Updates |-> IF v = u THEN row.status ELSE st[v]]
    OBVIOUS
  <2> QED BY <2>2, <2>3
<1>3. \A from : su[u].status \in from => Lifecycle!Move(u, from, row.status)
  BY <1>2 DEF Lifecycle!Move
<1>4. row.status = su[u].status =>
        [v \in Updates |-> su'[v].status] = [v \in Updates |-> su[v].status]
  BY <1>1
<1>5. /\ row.deleted = su[u].deleted => { v \in Updates : su'[v].deleted }
                                          = { v \in Updates : su[v].deleted }
      /\ row.deleted => { v \in Updates : su'[v].deleted }
                          = { v \in Updates : su[v].deleted } \cup {u}
  BY <1>1
<1> QED BY <1>3, <1>4, <1>5

\* A step that the lifecycle does not see.
LEMMA LifecycleStutters ==
  ASSUME UNCHANGED <<su, changelog>>
  PROVE  UNCHANGED Lifecycle!vars
BY DEF Lifecycle!vars

\* A call that has checked a request that it is about to review or complete.
LEMMA WriterFinds ==
  ASSUME IInv, SerialInv, NEW c \in Calls, NEW op \in Op \ {"create"}, Writing(c, op)
  PROVE  /\ args[c].ref \in Updates /\ su[args[c].ref] \in Row /\ args[c].decision # "bareReject"
         /\ su[args[c].ref].deleted = FALSE /\ su[args[c].ref].status \in Expected[op]
<1>1. Accepts(args[c]) /\ args[c].op = op /\ args[c] \in Request
  BY DEF Writing, SerialInv, ChecksStand, CheckStands, IInv, CallsWellFormed
<1>2. args[c].ref \in Updates /\ Exists(args[c].ref)
  BY <1>1 DEF Accepts, Live, Request, Review
<1>3. su[args[c].ref] \in Row
  BY <1>2, RowOfExisting DEF IInv
<1> QED BY <1>1, <1>2, <1>3 DEF Accepts, Live, Row

LEMMA InsertUpdateFiles ==
  ASSUME IInv, SerialInv, NEW c \in Calls, InsertUpdate(c)
  PROVE  FinalNoticesHold' /\ Lifecycle!Next
<1>0. PICK row : row = Filed(c)
  OBVIOUS
<1>1. row.status = "PENDING" /\ row.deleted = FALSE
  BY <1>0 DEF Filed, Absent
<1>2. PICK u \in Updates :
        /\ ~Exists(u) /\ su' = [su EXCEPT ![u] = row]
        /\ Notify(c, << NotifyRoles(c, {"ADMIN", "DEVELOPER"}, "SYSTEM_UPDATE_NEW",
                                    u, {args[c].user}) >>)
        /\ changelog' = changelog
  BY <1>0 DEF InsertUpdate
<1>3. su[u].status = "ABSENT" /\ su[u].deleted = FALSE
  <2>1. su[u] = Absent
    BY <1>2 DEF IInv, TypeOK, Exists, Row, Status
  <2> QED BY <2>1 DEF Absent
<1>4. PICK job : job = NotifyRoles(c, {"ADMIN", "DEVELOPER"}, "SYSTEM_UPDATE_NEW", u, {args[c].user})
  OBVIOUS
<1>5. \A n \in job.rows : n.ref = u /\ n.type \notin FinalType
  BY <1>4, RowsOfJobs DEF FinalType
<1>6. FinalNoticesHold'
  <2>1. Truthful(<< job >>, u, row.status)
    BY <1>5 DEF Truthful
  <2> QED BY <1>2, <1>3, <1>4, <2>1, RowMoves DEF SerialInv, FinalStatus
<1>7. Lifecycle!Move(u, {"ABSENT"}, row.status) /\ { v \in Updates : su'[v].deleted }
        = { v \in Updates : su[v].deleted }
  BY <1>1, <1>2, <1>3, LifecycleMoves
<1>8. Lifecycle!File(u)
  BY <1>1, <1>2, <1>7 DEF Lifecycle!File
<1> QED BY <1>6, <1>8 DEF Lifecycle!Next

\* The shape of a decision: a row gets its next status and its requester is told.
LEMMA DecisionMoves ==
  ASSUME IInv, SerialInv, NEW c \in Calls, NEW op \in Review \cup {"complete"}, Writing(c, op),
         NEW u \in Updates, u = args[c].ref,
         NEW row, su' = [su EXCEPT ![u] = row], row.deleted = su[u].deleted,
         NEW to, row.status = to,
         NEW jobs, Notify(c, jobs),
         Truthful(jobs, u, to)
  PROVE  /\ FinalNoticesHold'
         /\ Lifecycle!Move(u, Expected[op], to)
         /\ { v \in Updates : su'[v].deleted } = { v \in Updates : su[v].deleted }
         /\ u \notin { v \in Updates : su[v].deleted }
<1>1. su[u].deleted = FALSE /\ su[u].status \in Expected[op]
  BY WriterFinds DEF Op, Review
<1>2. su[u].status \notin FinalStatus
  BY <1>1 DEF Expected, AdminExpects, FinalStatus, Review
<1>3. FinalNoticesHold'
  <2>1. Truthful(jobs, u, row.status)
    BY DEF Truthful
  <2> QED BY <1>2, <2>1, RowMoves DEF SerialInv
<1>4. Lifecycle!Move(u, Expected[op], to)
  BY <1>1, LifecycleMoves
<1> QED BY <1>1, <1>3, <1>4, LifecycleMoves

LEMMA DevReviews ==
  ASSUME IInv, SerialInv, NEW c \in Calls, ApproveAsDev(c) \/ RejectAsDev(c)
  PROVE  FinalNoticesHold' /\ Lifecycle!Next
<1>1. Writing(c, "devReview")
  BY DEF ApproveAsDev, RejectAsDev, Deciding
<1>2. PICK u \in Updates : u = args[c].ref /\ su[u] \in Row
  BY <1>1, WriterFinds DEF Op, Review
<1> DEFINE row(to) == [su[u] EXCEPT !.status = to, !.devReviewedBy = args[c].user]
<1>3. ASSUME NEW to \in {"DEV_APPROVED", "DEV_REJECTED"}, su' = [su EXCEPT ![u] = row(to)],
             changelog' = changelog, NEW jobs, Notify(c, jobs),
             Truthful(jobs, u, to)
      PROVE  FinalNoticesHold' /\ Lifecycle!Next
  <2>1. PICK r : r = row(to)
    OBVIOUS
  <2>2. r.status = to /\ r.deleted = su[u].deleted
    BY <1>2, <2>1 DEF Row
  <2>3. /\ FinalNoticesHold' /\ Lifecycle!Move(u, Expected["devReview"], to)
        /\ { v \in Updates : su'[v].deleted } = { v \in Updates : su[v].deleted }
        /\ u \notin { v \in Updates : su[v].deleted }
    BY <1>1, <1>2, <1>3, <2>1, <2>2, DecisionMoves DEF Review
  <2>4. Lifecycle!DevDecides(u)
    BY <1>3, <2>3 DEF Lifecycle!DevDecides, Expected
  <2> QED BY <2>3, <2>4 DEF Lifecycle!Next
<1>4. CASE ApproveAsDev(c)
  <2>1. PICK j1, j2 : /\ j1 = NotifyRoles(c, {"ADMIN"}, "SYSTEM_UPDATE_DEV_APPROVED", u, {})
                      /\ j2 = TellRequester(c, u, "SYSTEM_UPDATE_DEV_APPROVED")
    OBVIOUS
  <2>2. /\ su' = [su EXCEPT ![u] = row("DEV_APPROVED")] /\ changelog' = changelog
        /\ Notify(c, << j1, j2 >>)
    BY <1>2, <1>4, <2>1 DEF ApproveAsDev, IInv, TypeOK, Row
  <2>3. \A n \in j1.rows \cup j2.rows : n.ref = u /\ n.type \notin FinalType
    BY <2>1, RowsOfJobs DEF FinalType
  <2>4. Truthful(<< j1, j2 >>, u, "DEV_APPROVED")
    BY <2>3 DEF Truthful
  <2> QED BY <1>3, <2>2, <2>4
<1>5. CASE RejectAsDev(c)
  <2>1. PICK j1 : j1 = TellRequester(c, u, "SYSTEM_UPDATE_DEV_REJECTED")
    OBVIOUS
  <2>2. /\ su' = [su EXCEPT ![u] = row("DEV_REJECTED")] /\ changelog' = changelog
        /\ Notify(c, << j1 >>)
    BY <1>2, <1>5, <2>1 DEF RejectAsDev, IInv, TypeOK, Row
  <2>3. \A n \in j1.rows : n.ref = u /\ n.type = "SYSTEM_UPDATE_DEV_REJECTED"
    BY <2>1 DEF TellRequester, CreateMany, Rows
  <2>4. Truthful(<< j1 >>, u, "DEV_REJECTED")
    BY <2>3 DEF Said, Truthful
  <2> QED BY <1>3, <2>2, <2>4
<1> QED BY <1>4, <1>5

LEMMA AdminReviews ==
  ASSUME IInv, SerialInv, NEW c \in Calls, ApproveAsAdmin(c) \/ RejectAsAdmin(c)
  PROVE  FinalNoticesHold' /\ Lifecycle!Next
<1>1. Writing(c, "adminReview")
  BY DEF ApproveAsAdmin, RejectAsAdmin, Deciding
<1>2. PICK u \in Updates : u = args[c].ref /\ su[u] \in Row
  BY <1>1, WriterFinds DEF Op, Review
<1> DEFINE row(to) == [su[u] EXCEPT !.status = to, !.adminReviewedBy = args[c].user]
<1>3. ASSUME NEW to \in {"ADMIN_APPROVED", "ADMIN_REJECTED"}, su' = [su EXCEPT ![u] = row(to)],
             changelog' = changelog, NEW jobs, Notify(c, jobs),
             Truthful(jobs, u, to)
      PROVE  FinalNoticesHold' /\ Lifecycle!Next
  <2>1. PICK r : r = row(to)
    OBVIOUS
  <2>2. r.status = to /\ r.deleted = su[u].deleted
    BY <1>2, <2>1 DEF Row
  <2>3. /\ FinalNoticesHold' /\ Lifecycle!Move(u, Expected["adminReview"], to)
        /\ { v \in Updates : su'[v].deleted } = { v \in Updates : su[v].deleted }
        /\ u \notin { v \in Updates : su[v].deleted }
    BY <1>1, <1>2, <1>3, <2>1, <2>2, DecisionMoves DEF Review
  <2>4. Lifecycle!AdminDecides(u)
    BY <1>3, <2>3 DEF Lifecycle!AdminDecides, Expected, AdminExpects
  <2> QED BY <2>3, <2>4 DEF Lifecycle!Next
<1>4. CASE ApproveAsAdmin(c)
  <2>1. PICK j1, j2 : /\ j1 = TellRequester(c, u, "SYSTEM_UPDATE_ADMIN_APPROVED")
                      /\ j2 = NotifyRoles(c, {"DEVELOPER"}, "SYSTEM_UPDATE_ADMIN_APPROVED", u, {})
    OBVIOUS
  <2>2. /\ su' = [su EXCEPT ![u] = row("ADMIN_APPROVED")] /\ changelog' = changelog
        /\ Notify(c, << j1, j2 >>)
    BY <1>2, <1>4, <2>1 DEF ApproveAsAdmin, IInv, TypeOK, Row
  <2>3. \A n \in j1.rows \cup j2.rows : n.ref = u /\ n.type \notin FinalType
    BY <2>1, RowsOfJobs DEF FinalType
  <2>4. Truthful(<< j1, j2 >>, u, "ADMIN_APPROVED")
    BY <2>3 DEF Truthful
  <2> QED BY <1>3, <2>2, <2>4
<1>5. CASE RejectAsAdmin(c)
  <2>1. PICK j1 : j1 = TellRequester(c, u, "SYSTEM_UPDATE_ADMIN_REJECTED")
    OBVIOUS
  <2>2. /\ su' = [su EXCEPT ![u] = row("ADMIN_REJECTED")] /\ changelog' = changelog
        /\ Notify(c, << j1 >>)
    BY <1>2, <1>5, <2>1 DEF RejectAsAdmin, IInv, TypeOK, Row
  <2>3. \A n \in j1.rows : n.ref = u /\ n.type = "SYSTEM_UPDATE_ADMIN_REJECTED"
    BY <2>1 DEF TellRequester, CreateMany, Rows
  <2>4. Truthful(<< j1 >>, u, "ADMIN_REJECTED")
    BY <2>3 DEF Said, Truthful
  <2> QED BY <1>3, <2>2, <2>4
<1> QED BY <1>4, <1>5

LEMMA CompleteCompletes ==
  ASSUME IInv, SerialInv, NEW c \in Calls, CompleteUpdate(c)
  PROVE  FinalNoticesHold' /\ Lifecycle!Next
<1>1. Writing(c, "complete")
  BY DEF CompleteUpdate
<1>2. PICK u \in Updates : u = args[c].ref /\ su[u] \in Row
  BY <1>1, WriterFinds DEF Op, Review
<1>3. PICK r : r = [su[u] EXCEPT !.status = "COMPLETED", !.completed = TRUE]
  OBVIOUS
<1>4. r.status = "COMPLETED" /\ r.deleted = su[u].deleted
  BY <1>2, <1>3 DEF Row
<1>5. PICK j1 : j1 = TellRequester(c, u, "SYSTEM_UPDATE_COMPLETED")
  OBVIOUS
<1>6. /\ su' = [su EXCEPT ![u] = r] /\ Notify(c, << j1 >>) /\ EntryAllowed(u)
      /\ changelog' = changelog \cup { [by |-> c, update |-> u, module |-> su[u].module] }
  BY <1>2, <1>3, <1>5 DEF CompleteUpdate, IInv, TypeOK, Row
<1>7. \A n \in j1.rows : n.ref = u /\ n.type = "SYSTEM_UPDATE_COMPLETED"
  BY <1>5 DEF TellRequester, CreateMany, Rows
<1>8. Truthful(<< j1 >>, u, "COMPLETED")
  BY <1>4, <1>7 DEF Said, Truthful
<1>9. /\ FinalNoticesHold' /\ Lifecycle!Move(u, Expected["complete"], "COMPLETED")
      /\ { v \in Updates : su'[v].deleted } = { v \in Updates : su[v].deleted }
      /\ u \notin { v \in Updates : su[v].deleted }
  BY <1>1, <1>2, <1>4, <1>6, <1>8, DecisionMoves
<1>10. /\ { e.update : e \in changelog' } = { e.update : e \in changelog } \cup {u}
       /\ u \notin { e.update : e \in changelog }
  <2> DEFINE entry == [by |-> c, update |-> u, module |-> su[u].module]
  <2>1. changelog' = changelog \cup {entry} /\ entry.update = u
    BY <1>6
  <2> HIDE DEF entry
  <2> QED BY <1>6, <2>1 DEF EntryAllowed
<1>11. Lifecycle!Complete(u)
  BY <1>9, <1>10 DEF Lifecycle!Complete, Expected
<1> QED BY <1>9, <1>11 DEF Lifecycle!Next

LEMMA DeleteUpdateDeletes ==
  ASSUME IInv, SerialInv, NEW c \in Calls, DeleteUpdate(c)
  PROVE  FinalNoticesHold' /\ Lifecycle!Next
<1>1. PICK u \in Updates : u = args[c].ref /\ su[u] \in Row /\ su[u].deleted = FALSE
  BY WriterFinds DEF DeleteUpdate, Op, Review
<1>2. PICK r : r = [su[u] EXCEPT !.deleted = TRUE]
  OBVIOUS
<1>3. /\ su' = [su EXCEPT ![u] = r] /\ r.deleted /\ r.status = su[u].status
      /\ UNCHANGED <<changelog, work, notifications>>
  BY <1>1, <1>2 DEF DeleteUpdate, notifyVars, IInv, TypeOK, Row
<1>4. \A v \in Updates : su'[v].status = su[v].status
  BY <1>1, <1>3 DEF IInv, TypeOK
<1>5. FinalNoticesHold'
  <2>1. \A k \in Calls : InHand(k)' = InHand(k)
    BY <1>3 DEF InHand
  <2> QED BY <1>3, <1>4, <2>1, AgreementKept DEF SerialInv
<1>6. /\ [v \in Updates |-> su'[v].status] = [v \in Updates |-> su[v].status]
      /\ { v \in Updates : su'[v].deleted } = { v \in Updates : su[v].deleted } \cup {u}
  BY <1>3, LifecycleMoves
<1>7. Lifecycle!Delete(u)
  BY <1>1, <1>3, <1>6 DEF Lifecycle!Delete, Row, Status
<1> QED BY <1>5, <1>7 DEF Lifecycle!Next

\* A step that writes no request.
LEMMA OthersStutter ==
  ASSUME IInv, SerialInv, NEW c \in Calls,
         \/ LookupModule(c) \/ LoadUpdate(c) \/ CompleteConflict(c) \/ InsertComment(c)
         \/ Deliver(c) \/ Respond(c) \/ Fail(c) \/ \E a \in Request : Start(c, a)
  PROVE  FinalNoticesHold' /\ UNCHANGED Lifecycle!vars
<1>1. UNCHANGED <<su, changelog>>
  BY DEF LookupModule, LoadUpdate, CompleteConflict, InsertComment, Deliver, Respond, Fail, Start,
         tables
<1>2. /\ notifications' \subseteq notifications \cup InHand(c)
      /\ \A k \in Calls : InHand(k)' \subseteq InHand(k)
  <2>1. CASE Deliver(c)
    <3>1. /\ notifications' \subseteq notifications \cup InHand(c)
          /\ InHand(c)' \subseteq InHand(c)
          /\ \A k \in Calls \ {c} : work'[k] = work[k]
      BY <2>1, NotifyStepKeeps DEF Deliver, IInv, TypeOK
    <3>2. \A k \in Calls \ {c} : InHand(k)' = InHand(k)
      BY <3>1 DEF InHand
    <3> QED BY <3>1, <3>2
  <2>2. CASE Fail(c)
    <3>1. notifications' = notifications /\ \A k \in Calls : work'[k] = work[k] \/ work'[k] = <<>>
      BY <2>2 DEF Fail, IInv, TypeOK, NotificationsTypeOK
    <3> QED BY <3>1 DEF InHand
  <2>3. CASE \/ LookupModule(c) \/ LoadUpdate(c) \/ CompleteConflict(c) \/ InsertComment(c)
             \/ Respond(c) \/ \E a \in Request : Start(c, a)
    <3>1. UNCHANGED <<work, notifications>>
      BY <2>3 DEF LookupModule, LoadUpdate, CompleteConflict, InsertComment, Respond, Start,
                  notifyVars
    <3> QED BY <3>1 DEF InHand
  <2> QED BY <2>1, <2>2, <2>3
<1>3. FinalNoticesHold'
  BY <1>1, <1>2, AgreementKept DEF SerialInv
<1> QED BY <1>1, <1>3, LifecycleStutters

\* With one call at a time, what it has checked it may rely on.
LEMMA SerialStepKeeps ==
  ASSUME IInv, Serial, SerialInv, NEW c \in Calls,
         \/ Step(c) \/ Fail(c)
         \/ \E a \in Request : Start(c, a) /\ WithinBounds
  PROVE  SerialInv' /\ (Lifecycle!Next \/ UNCHANGED Lifecycle!vars)
<1>1. \A k \in Calls \ {c} : pc'[k] = pc[k] /\ pc[k] \notin Running
  <2>1. CASE Step(c) \/ Fail(c)
    BY <2>1, OneMoves DEF SerialInv, OneAtATime, InFlight
  <2>2. CASE \E a \in Request : Start(c, a) /\ WithinBounds
    BY <2>2, StartsAlone DEF InFlight, Start, Goto, IInv, TypeOK
  <2> QED BY <2>1, <2>2
<1>2. OneAtATime'
  BY <1>1 DEF OneAtATime, InFlight
<1>3. FinalNoticesHold' /\ (Lifecycle!Next \/ UNCHANGED Lifecycle!vars)
  BY InsertUpdateFiles, DevReviews, AdminReviews, CompleteCompletes, DeleteUpdateDeletes,
     OthersStutter DEF Step
<1>4. CheckStands(c)'
  <2> SUFFICES ASSUME pc'[c] = "loaded", args'[c].op # "create" PROVE Accepts(args[c])'
    BY DEF CheckStands
  <2>1. LookupModule(c) \/ LoadUpdate(c)
    BY DEF Step, InsertUpdate, ApproveAsDev, RejectAsDev, ApproveAsAdmin, RejectAsAdmin,
           CompleteUpdate, CompleteConflict, InsertComment, DeleteUpdate, Deliver, Respond, Fail,
           Start, Deciding, Writing, Notify, Goto, IInv, TypeOK
  <2>2. LoadUpdate(c) /\ args' = args /\ su' = su
    BY <2>1 DEF LookupModule, LoadUpdate, tables
  <2>3. Accepts(args[c])
    BY <2>2 DEF LoadUpdate, Goto, IInv, TypeOK
  <2> QED BY <2>2, <2>3 DEF Accepts, Live, Exists
<1>5. ChecksStand'
  BY <1>1, <1>4 DEF ChecksStand, CheckStands, Running
<1> QED BY <1>2, <1>3, <1>5 DEF SerialInv

\* The steps of the bounded behaviours are steps of the system updates.
LEMMA BoundedStep ==
  ASSUME [MCNext]_mcVars
  PROVE  /\ [Next]_vars /\ bounds' = bounds
         /\ \/ UNCHANGED <<su, changelog, pc, args, work, notifications>>
            \/ \E c \in Calls : \/ Step(c) \/ Fail(c)
                                \/ \E a \in Request : Start(c, a) /\ WithinBounds
<1>1. CASE UNCHANGED mcVars
  BY <1>1 DEF mcVars, vars
<1>2. CASE MCNext
  BY <1>2 DEF MCNext, Next, Step, ToggleModule, ToggleUser, Deactivate, Reactivate, notifyVars, tables
<1> QED BY <1>1, <1>2

\* What holds of the calls one after the other, and what their steps are.
SInv == IInv /\ (Serial => SerialInv)

LEMMA SerialInit == MCInit => SInv /\ Lifecycle!Init
<1> SUFFICES ASSUME MCInit PROVE SInv /\ Lifecycle!Init
  OBVIOUS
<1>1. Init
  BY DEF MCInit
<1>2. notifications = {} /\ \A c \in Calls : work[c] = <<>> /\ InHand(c) = {}
  <2>1. notifications = {} /\ \A c \in Calls : work[c] = <<>>
    BY <1>1 DEF Init, NotificationsInit
  <2> QED BY <2>1 DEF InHand
<1>3. SerialInv
  BY <1>1, <1>2 DEF Init, SerialInv, OneAtATime, InFlight, Running, ChecksStand, CheckStands,
                    FinalNoticesHold
<1>4. Lifecycle!Init
  BY <1>1 DEF Init, Lifecycle!Init, Absent
<1> QED BY <1>1, <1>3, <1>4, InitIInv DEF SInv

LEMMA SerialStep ==
  ASSUME SInv, [MCNext]_mcVars
  PROVE  SInv' /\ (Serial => Lifecycle!Next \/ UNCHANGED Lifecycle!vars)
<1>1. IInv' /\ (Serial' => Serial)
  BY BoundedStep, IInvKept DEF SInv, Serial
<1>2. ASSUME UNCHANGED <<su, changelog, pc, args, work, notifications>>, Serial
      PROVE  SerialInv' /\ UNCHANGED Lifecycle!vars
  BY <1>2, LifecycleStutters
     DEF SInv, SerialInv, OneAtATime, InFlight, ChecksStand, CheckStands, Accepts, Live, Exists,
         FinalNoticesHold, Agrees, InHand
<1>3. ASSUME NEW c \in Calls, Serial,
             \/ Step(c) \/ Fail(c) \/ \E a \in Request : Start(c, a) /\ WithinBounds
      PROVE  SerialInv' /\ (Lifecycle!Next \/ UNCHANGED Lifecycle!vars)
  BY <1>3, SerialStepKeeps DEF SInv
<1> QED BY <1>1, <1>2, <1>3, BoundedStep DEF SInv

\* For any users, requests and failures: as long as one call is handled at a
\* time, a final notification and the row agree for good (devReview,
\* adminReview, complete).
THEOREM FinalNoticesStandAlone == MCSpec => []FinalNoticesStandSerially
<1>1. SInv => FinalNoticesStandSerially
  BY DEF SInv, SerialInv, FinalNoticesHold, Agrees, FinalType, Said, FinalNoticesStandSerially,
         FinalNoticesStand
<1>2. SInv /\ [MCNext]_mcVars => SInv'
  BY SerialStep
<1> QED BY <1>1, <1>2, SerialInit, PTL DEF MCSpec

\* For any users, requests and failures: as long as one call is handled at a
\* time, every step follows the README's state machine (create, devReview,
\* adminReview, complete, softDelete).
THEOREM FollowsLifecycle == MCSpec => LifecycleFollowed
<1>1. SInv /\ [MCNext]_mcVars => SInv' /\ (Serial => [Lifecycle!Next]_Lifecycle!vars)
  BY SerialStep
<1>2. [MCNext]_mcVars /\ (Serial => [Lifecycle!Next]_Lifecycle!vars)
        => [Serial => [Lifecycle!Next]_Lifecycle!vars]_mcVars
  OBVIOUS
<1> QED BY <1>1, <1>2, SerialInit, PTL DEF MCSpec, LifecycleFollowed

----------------------------------------------------------------------------
(* SystemUpdates implements CompletionLedger: however many calls overlap,  *)
(* an update is published once and announced at most once.                 *)

\* A call that has written nothing has stored no row, and a completion still to
\* be announced is the only row its handler holds; while that row is not
\* stored, the handler has stored none.
AnnouncedOnce ==
  /\ \A n \in notifications : pc[n.by] \in {"notifying", "done", "failed"}
  /\ \A c \in Calls : \A n \in InHand(c) : n.type = "SYSTEM_UPDATE_COMPLETED" =>
       /\ \E stage \in Stage \ {"resolve"} : work[c] = << [stage |-> stage, rows |-> {n}] >>
       /\ At(c, "create") => \A m \in notifications : m.by # c

LInv == IInv /\ AnnouncedOnce

----------------------------------------------------------------------------
\* The second part for a handler whose queue does not change.
LEMMA QueueUntouched ==
  ASSUME AnnouncedOnce, NEW c \in Calls, work'[c] = work[c],
         \A m \in notifications' : m \in notifications \/ m.by # c
  PROVE  \A n \in InHand(c)' : n.type = "SYSTEM_UPDATE_COMPLETED" =>
           /\ \E stage \in Stage \ {"resolve"} : work'[c] = << [stage |-> stage, rows |-> {n}] >>
           /\ At(c, "create")' => \A m \in notifications' : m.by # c
<1>1. InHand(c)' = InHand(c) /\ (At(c, "create")' <=> At(c, "create"))
  BY DEF InHand, At
<1> QED BY <1>1 DEF AnnouncedOnce

\* No step but delivery stores a row, and no call goes back to before its write.
LEMMA StoredLate ==
  ASSUME IInv, AnnouncedOnce, [Next]_vars
  PROVE  \A n \in notifications' : pc'[n.by] \in {"notifying", "done", "failed"}
<1> DEFINE Late == {"notifying", "done", "failed"}
<1>1. \A n \in notifications : n.by \in Calls
  BY DEF IInv, TypeOK, NotificationsTypeOK, Notice
<1>2. \A c \in Calls : pc[c] \in Late => pc'[c] \in Late
  <2>1. ASSUME NEW c \in Calls, NEW a \in Request, Start(c, a)
        PROVE  \A k \in Calls : pc[k] \in Late => pc'[k] \in Late
    BY <2>1 DEF Start, Goto, IInv, TypeOK
  <2>2. ASSUME NEW c \in Calls, Step(c) \/ Fail(c)
        PROVE  \A k \in Calls : pc[k] \in Late => pc'[k] \in Late
    BY <2>2 DEF Step, Fail, LookupModule, LoadUpdate, InsertUpdate, ApproveAsDev, RejectAsDev,
                ApproveAsAdmin, RejectAsAdmin, CompleteUpdate, CompleteConflict, InsertComment,
                DeleteUpdate, Deliver, Respond, Deciding, Writing, Notify, Goto, IInv, TypeOK
  <2>3. CASE pc' = pc
    BY <2>3
  <2> QED BY <2>1, <2>2, <2>3 DEF Next, ToggleModule, ToggleUser, vars
<1>3. ASSUME NEW n \in notifications' \ notifications
      PROVE  pc'[n.by] \in Late
  <2>1. PICK c \in Calls : Deliver(c)
    BY <1>3 DEF Next, Step, Start, LookupModule, LoadUpdate, InsertUpdate, ApproveAsDev,
                RejectAsDev, ApproveAsAdmin, RejectAsAdmin, CompleteUpdate, CompleteConflict,
                InsertComment, DeleteUpdate, Respond, Fail, ToggleModule, ToggleUser,
                Deactivate, Reactivate, Notify, notifyVars, vars
  <2>2. n \in InHand(c)
    BY <1>3, <2>1, NotifyStepKeeps DEF Deliver, IInv, TypeOK
  <2>3. n.by = c
    BY <2>2 DEF IInv, NoticesOwned
  <2> QED BY <2>1, <2>3 DEF Deliver
<1> QED BY <1>1, <1>2, <1>3 DEF AnnouncedOnce

\* One step of delivery, for the handler that takes it.
LEMMA DeliveryAnnounces ==
  ASSUME IInv, AnnouncedOnce, NEW c \in Calls, Deliver(c),
         NEW n \in InHand(c)', n.type = "SYSTEM_UPDATE_COMPLETED"
  PROVE  /\ \E stage \in Stage \ {"resolve"} : work'[c] = << [stage |-> stage, rows |-> {n}] >>
         /\ ~At(c, "create")'
<1>1. n \in InHand(c) /\ NotifyStep(c)
  BY NotifyStepKeeps DEF Deliver, IInv, TypeOK
<1>2. PICK stage \in Stage \ {"resolve"} : work[c] = << [stage |-> stage, rows |-> {n}] >>
  BY <1>1 DEF AnnouncedOnce
<1>3. work[c][1].stage = stage /\ Current(c) = {n}
  BY <1>2 DEF Current
<1>4. ~Return(c)
  <2> SUFFICES ASSUME Return(c) PROVE FALSE
    OBVIOUS
  <2>1. work'[c] = <<>>
    BY <1>2 DEF Return, IInv, TypeOK, NotificationsTypeOK
  <2> QED BY <2>1 DEF InHand
<1>5. PICK next \in Stage \ {"resolve", "create"}, rows \in SUBSET {n} : Advance(c, next, rows)
  <2>1. Reachable({n}) \in SUBSET {n}
    BY DEF Reachable
  <2>2. CASE ResolveAudience(c)
    BY <2>2, <1>3 DEF ResolveAudience, At
  <2>3. CASE CreateRows(c)
    BY <2>3, <1>3 DEF CreateRows, Stage
  <2>4. CASE PushRows(c)
    BY <2>4, <1>3, <1>4 DEF PushRows, Stage
  <2>5. CASE AddressEmails(c)
    BY <2>5, <2>1, <1>3 DEF AddressEmails, Stage
  <2>6. CASE SendEmails(c) \/ Broadcast(c) \/ Emit(c)
    BY <2>6, <1>4 DEF SendEmails, Broadcast, Emit
  <2> QED BY <1>1, <2>2, <2>3, <2>4, <2>5, <2>6 DEF NotifyStep
<1>6. work'[c] = << [stage |-> next, rows |-> rows] >>
  BY <1>2, <1>5 DEF Advance, IInv, TypeOK, NotificationsTypeOK
<1>7. rows = {n}
  <2>1. PICK i \in DOMAIN work'[c] : n \in work'[c][i].rows
    BY DEF InHand
  <2>2. n \in rows
    BY <2>1, <1>6
  <2> QED BY <2>2
<1> QED BY <1>6, <1>7 DEF At

\* A handler that writes and queues jobs: for `complete' the announcement alone,
\* for the others none.
LEMMA WriteAnnounces ==
  ASSUME IInv, AnnouncedOnce, NEW c \in Calls, pc[c] = "loaded", NEW jobs \in Seq(Job),
         Notify(c, jobs),
         \A i \in DOMAIN jobs : \A n \in jobs[i].rows : n.type = "SYSTEM_UPDATE_COMPLETED" =>
           \E stage \in Stage \ {"resolve"} : jobs = << [stage |-> stage, rows |-> {n}] >>
  PROVE  \A k \in Calls : \A n \in InHand(k)' : n.type = "SYSTEM_UPDATE_COMPLETED" =>
           /\ \E stage \in Stage \ {"resolve"} : work'[k] = << [stage |-> stage, rows |-> {n}] >>
           /\ At(k, "create")' => \A m \in notifications' : m.by # k
<1>1. /\ work'[c] = jobs
      /\ \A k \in Calls \ {c} : work'[k] = work[k]
      /\ notifications' = notifications
  BY NotifyTyped DEF IInv
<1>2. \A m \in notifications : m.by # c
  BY DEF AnnouncedOnce
<1>3. \A n \in InHand(c)' : n.type = "SYSTEM_UPDATE_COMPLETED" =>
        \E stage \in Stage \ {"resolve"} : work'[c] = << [stage |-> stage, rows |-> {n}] >>
  BY <1>1 DEF InHand
<1>4. ASSUME NEW k \in Calls \ {c}
      PROVE  \A n \in InHand(k)' : n.type = "SYSTEM_UPDATE_COMPLETED" =>
               /\ \E stage \in Stage \ {"resolve"} : work'[k] = << [stage |-> stage, rows |-> {n}] >>
               /\ At(k, "create")' => \A m \in notifications' : m.by # k
  BY <1>1, QueueUntouched
<1>5. \A m \in notifications' : m.by # c
  BY <1>1, <1>2
<1>6. ASSUME NEW k \in Calls
      PROVE  \A n \in InHand(k)' : n.type = "SYSTEM_UPDATE_COMPLETED" =>
               /\ \E stage \in Stage \ {"resolve"} : work'[k] = << [stage |-> stage, rows |-> {n}] >>
               /\ At(k, "create")' => \A m \in notifications' : m.by # k
  <2>1. CASE k = c
    BY <1>3, <1>5, <2>1
  <2>2. CASE k # c
    BY <1>4, <2>2
  <2> QED BY <2>1, <2>2
<1> QED BY <1>6

LEMMA StepAnnounced ==
  ASSUME IInv, AnnouncedOnce, [Next]_vars
  PROVE  AnnouncedOnce'
<1> DEFINE Goal == \A k \in Calls : \A n \in InHand(k)' : n.type = "SYSTEM_UPDATE_COMPLETED" =>
             /\ \E stage \in Stage \ {"resolve"} : work'[k] = << [stage |-> stage, rows |-> {n}] >>
             /\ At(k, "create")' => \A m \in notifications' : m.by # k
<1>1. ASSUME work' = work, notifications' = notifications PROVE Goal
  BY <1>1, QueueUntouched
<1>2. TypeOK /\ CallsWellFormed
  BY DEF IInv
<1>3. ASSUME NEW c \in Calls, NEW op \in Review \cup {"complete"}, Writing(c, op)
      PROVE  /\ args[c].ref \in Updates /\ su[args[c].ref] \in Row /\ pc[c] = "loaded"
             /\ \A type \in NotificationType : TellRequester(c, args[c].ref, type) \in Job
             /\ \A type \in NotificationType : \A codes :
                  NotifyRoles(c, codes, type, args[c].ref, {}) \in Job
  <2>1. args[c].ref \in Updates /\ Exists(args[c].ref)
    BY <1>2, <1>3 DEF Writing, CallsWellFormed, Request, Review
  <2>2. su[args[c].ref] \in Row /\ su[args[c].ref].requester \in Users
    BY <1>2, <2>1, RowOfExisting
  <2> QED BY <1>3, <2>1, <2>2, TellRequesterTyped, NotifyRolesTyped DEF Updates, Writing
<1>4. ASSUME NEW c \in Calls, InsertUpdate(c) PROVE Goal
  <2>1. PICK u \in Updates :
          Notify(c, << NotifyRoles(c, {"ADMIN", "DEVELOPER"}, "SYSTEM_UPDATE_NEW",
                                   u, {args[c].user}) >>)
    BY <1>4 DEF InsertUpdate
  <2> DEFINE jobs == << NotifyRoles(c, {"ADMIN", "DEVELOPER"}, "SYSTEM_UPDATE_NEW",
                                    u, {args[c].user}) >>
  <2>2. jobs \in Seq(Job)
    BY NotifyRolesTyped DEF NotificationType, Updates
  <2>3. \A i \in DOMAIN jobs : \A n \in jobs[i].rows : n.type = "SYSTEM_UPDATE_NEW"
    BY RowsOfJobs
  <2>4. pc[c] = "loaded"
    BY <1>4 DEF InsertUpdate, Writing
  <2> HIDE DEF jobs
  <2> QED BY <2>1, <2>2, <2>3, <2>4, WriteAnnounces DEF jobs
<1>5. ASSUME NEW c \in Calls, ApproveAsDev(c) PROVE Goal
  <2> DEFINE u == args[c].ref
             jobs == << NotifyRoles(c, {"ADMIN"}, "SYSTEM_UPDATE_DEV_APPROVED", u, {}),
                        TellRequester(c, u, "SYSTEM_UPDATE_DEV_APPROVED") >>
  <2>1. Writing(c, "devReview") /\ Notify(c, jobs)
    BY <1>5 DEF ApproveAsDev, Deciding
  <2>2. jobs \in Seq(Job) /\ u \in Updates /\ pc[c] = "loaded"
    BY <2>1, <1>3 DEF Review, NotificationType
  <2>3. \A i \in DOMAIN jobs : \A n \in jobs[i].rows : n.type = "SYSTEM_UPDATE_DEV_APPROVED"
    <3>1. \A n \in jobs[1].rows \cup jobs[2].rows : n.type = "SYSTEM_UPDATE_DEV_APPROVED"
      BY <2>2, RowsOfJobs
    <3> QED BY <3>1
  <2> HIDE DEF jobs
  <2> QED BY <2>1, <2>2, <2>3, WriteAnnounces
<1>6. ASSUME NEW c \in Calls, ApproveAsAdmin(c) PROVE Goal
  <2> DEFINE u == args[c].ref
             jobs == << TellRequester(c, u, "SYSTEM_UPDATE_ADMIN_APPROVED"),
                        NotifyRoles(c, {"DEVELOPER"}, "SYSTEM_UPDATE_ADMIN_APPROVED", u, {}) >>
  <2>1. Writing(c, "adminReview") /\ Notify(c, jobs)
    BY <1>6 DEF ApproveAsAdmin, Deciding
  <2>2. jobs \in Seq(Job) /\ u \in Updates /\ pc[c] = "loaded"
    BY <2>1, <1>3 DEF Review, NotificationType
  <2>3. \A i \in DOMAIN jobs : \A n \in jobs[i].rows : n.type = "SYSTEM_UPDATE_ADMIN_APPROVED"
    <3>1. \A n \in jobs[1].rows \cup jobs[2].rows : n.type = "SYSTEM_UPDATE_ADMIN_APPROVED"
      BY <2>2, RowsOfJobs
    <3> QED BY <3>1
  <2> HIDE DEF jobs
  <2> QED BY <2>1, <2>2, <2>3, WriteAnnounces
<1>7. ASSUME NEW c \in Calls, NEW op \in Review, Writing(c, op),
             NEW type \in NotificationType, type # "SYSTEM_UPDATE_COMPLETED",
             Notify(c, << TellRequester(c, args[c].ref, type) >>)
      PROVE  Goal
  <2> DEFINE jobs == << TellRequester(c, args[c].ref, type) >>
  <2>1. jobs \in Seq(Job) /\ args[c].ref \in Updates /\ pc[c] = "loaded"
    BY <1>3, <1>7
  <2>2. \A i \in DOMAIN jobs : \A n \in jobs[i].rows : n.type = type
    BY <2>1, RowsOfJobs
  <2> HIDE DEF jobs
  <2> QED BY <1>7, <2>1, <2>2, WriteAnnounces DEF jobs
<1>8. ASSUME NEW c \in Calls, RejectAsDev(c) \/ RejectAsAdmin(c) PROVE Goal
  BY <1>7, <1>8 DEF RejectAsDev, RejectAsAdmin, Review, NotificationType
<1>9. ASSUME NEW c \in Calls, CompleteUpdate(c) PROVE Goal
  <2> DEFINE u == args[c].ref
             row == [ by |-> c, user |-> Requester(u), ref |-> u, via |-> "createMany",
                      type |-> "SYSTEM_UPDATE_COMPLETED" ]
             jobs == << TellRequester(c, u, "SYSTEM_UPDATE_COMPLETED") >>
  <2>1. Writing(c, "complete") /\ Notify(c, jobs)
    BY <1>9 DEF CompleteUpdate
  <2>2. jobs \in Seq(Job) /\ pc[c] = "loaded"
    BY <2>1, <1>3 DEF NotificationType
  <2>3. jobs = << [stage |-> "create", rows |-> {row}] >>
    BY DEF TellRequester, CreateMany, Rows
  <2>4. "create" \in Stage \ {"resolve"}
    BY DEF Stage
  <2>5. \A i \in DOMAIN jobs : \A n \in jobs[i].rows : n = row
    BY <2>3
  <2> HIDE DEF jobs, row
  <2> QED BY <2>1, <2>2, <2>3, <2>4, <2>5, WriteAnnounces
<1>10. ASSUME NEW c \in Calls, Deliver(c) PROVE Goal
  <2>1. /\ notifications' \subseteq notifications \cup InHand(c)
        /\ \A k \in Calls \ {c} : work'[k] = work[k]
    BY <1>2, <1>10, NotifyStepKeeps DEF Deliver, TypeOK
  <2>2. \A m \in notifications' : m \in notifications \/ m.by = c
    BY <2>1 DEF IInv, NoticesOwned
  <2>3. ASSUME NEW k \in Calls \ {c}
        PROVE  \A n \in InHand(k)' : n.type = "SYSTEM_UPDATE_COMPLETED" =>
                 /\ \E stage \in Stage \ {"resolve"} : work'[k] = << [stage |-> stage, rows |-> {n}] >>
                 /\ At(k, "create")' => \A m \in notifications' : m.by # k
    BY <2>1, <2>2, QueueUntouched
  <2>4. \A n \in InHand(c)' : n.type = "SYSTEM_UPDATE_COMPLETED" =>
          /\ \E stage \in Stage \ {"resolve"} : work'[c] = << [stage |-> stage, rows |-> {n}] >>
          /\ ~At(c, "create")'
    BY <1>10, DeliveryAnnounces
  <2> QED BY <2>3, <2>4
<1>11. ASSUME NEW c \in Calls, Fail(c) PROVE Goal
  <2>1. /\ work'[c] = <<>> /\ \A k \in Calls \ {c} : work'[k] = work[k]
        /\ notifications' = notifications
    BY <1>2, <1>11 DEF Fail, TypeOK, NotificationsTypeOK
  <2>2. InHand(c)' = {}
    BY <2>1 DEF InHand
  <2>3. ASSUME NEW k \in Calls \ {c}
        PROVE  \A n \in InHand(k)' : n.type = "SYSTEM_UPDATE_COMPLETED" =>
                 /\ \E stage \in Stage \ {"resolve"} : work'[k] = << [stage |-> stage, rows |-> {n}] >>
                 /\ At(k, "create")' => \A m \in notifications' : m.by # k
    BY <2>1, QueueUntouched
  <2> QED BY <2>2, <2>3
<1>12. ASSUME NEW c \in Calls,
              \/ LookupModule(c) \/ LoadUpdate(c) \/ CompleteConflict(c)
              \/ InsertComment(c) \/ DeleteUpdate(c) \/ Respond(c)
       PROVE  Goal
  BY <1>1, <1>12 DEF LookupModule, LoadUpdate, CompleteConflict, InsertComment, DeleteUpdate,
                     Respond, notifyVars
<1>13. ASSUME \/ \E c \in Calls, a \in Request : Start(c, a)
              \/ \E m \in Modules : ToggleModule(m)
              \/ \E x \in Users : ToggleUser(x)
              \/ UNCHANGED vars
       PROVE  Goal
  BY <1>1, <1>13 DEF Start, ToggleModule, ToggleUser, Deactivate, Reactivate, notifyVars, vars
<1> HIDE DEF Goal
<1>14. ASSUME NEW c \in Calls, Step(c) PROVE Goal
  <2>1. \/ InsertUpdate(c) \/ ApproveAsDev(c) \/ RejectAsDev(c) \/ ApproveAsAdmin(c)
        \/ RejectAsAdmin(c) \/ CompleteUpdate(c) \/ Deliver(c)
        \/ (\/ LookupModule(c) \/ LoadUpdate(c) \/ CompleteConflict(c)
            \/ InsertComment(c) \/ DeleteUpdate(c) \/ Respond(c))
    BY <1>14 DEF Step
  <2> QED BY <2>1, <1>4, <1>5, <1>6, <1>8, <1>9, <1>10, <1>12
<1>15. Goal
  BY <1>11, <1>13, <1>14 DEF Next
<1> QED BY <1>15, StoredLate DEF Goal, AnnouncedOnce

----------------------------------------------------------------------------
(* The refinement.                                                         *)

LEMMA InitLedger == Init => LInv /\ Ledger!Init
<1> SUFFICES ASSUME Init PROVE LInv /\ Ledger!Init
  OBVIOUS
<1>1. notifications = {} /\ changelog = {} /\ \A c \in Calls : work[c] = <<>>
  BY DEF Init, NotificationsInit
<1>2. \A u \in Updates : ~su[u].completed
  BY DEF Init, Absent
<1>3. ASSUME NEW c \in Calls PROVE InHand(c) = {}
  <2>1. work[c] = <<>>
    BY <1>1
  <2> QED BY <2>1 DEF InHand
<1> QED BY <1>1, <1>2, <1>3, InitIInv
        DEF LInv, AnnouncedOnce, Ledger!Init, Completed, Published, Announced

\* Storing the rows in hand announces a completion, or nothing.
LEMMA StoringAnnounces ==
  ASSUME LInv, NEW c \in Calls, CreateRows(c), UNCHANGED tables
  PROVE  Ledger!Next \/ UNCHANGED Ledger!vars
<1>1. Completed' = Completed /\ Published' = Published
  BY DEF tables, Completed, Published
<1>2. notifications' = notifications \cup Current(c) /\ At(c, "create")
  BY DEF CreateRows
<1>3. Current(c) \subseteq InHand(c)
  <2>1. work[c] \in Seq(Job) /\ work[c] # <<>>
    BY <1>2 DEF At, LInv, IInv, TypeOK, NotificationsTypeOK
  <2>2. 1 \in DOMAIN work[c]
    BY <2>1
  <2> QED BY <2>2 DEF Current, InHand
<1>4. CASE \E n \in Current(c) : n.type = "SYSTEM_UPDATE_COMPLETED"
  <2>1. PICK n \in Current(c) : n.type = "SYSTEM_UPDATE_COMPLETED"
    BY <1>4
  <2>2. n \in InHand(c) /\ n.by = c /\ OnRecord(n) /\ n \in Notice
    BY <1>3, <2>1, InHandTyped DEF LInv, IInv, NoticesOwned, NoticesOnRecord
  <2>3. PICK stage \in Stage : work[c] = << [stage |-> stage, rows |-> {n}] >>
    BY <2>1, <2>2 DEF LInv, AnnouncedOnce
  <2>4. Current(c) = {n}
    BY <2>3 DEF Current
  <2>5. \A m \in notifications : m.by # c
    BY <1>2, <2>1, <2>2 DEF LInv, AnnouncedOnce
  <2>6. PICK e \in changelog : e.by = c /\ e.update = n.ref
    BY <2>1, <2>2 DEF OnRecord
  <2>7. [update |-> n.ref, by |-> c] \in Published
    BY <2>6 DEF Published
  <2>8. \A a \in Announced : a.update # n.ref
    <3> SUFFICES ASSUME NEW m \in notifications, m.type = "SYSTEM_UPDATE_COMPLETED",
                        m.ref = n.ref
                 PROVE  FALSE
      BY DEF Announced
    <3>1. PICK f \in changelog : f.by = m.by /\ f.update = m.ref
      BY DEF LInv, IInv, NoticesOnRecord, OnRecord
    <3>2. f = e
      BY <2>6, <3>1 DEF LInv, IInv, CompletionRecord
    <3> QED BY <2>5, <2>6, <3>1, <3>2
  <2>9. Announced' = Announced \cup { [update |-> n.ref, by |-> c] }
    BY <1>2, <2>1, <2>2, <2>4 DEF Announced
  <2>10. n.ref \in Updates
    BY <2>2 DEF Notice, Updates
  <2> QED BY <1>1, <2>7, <2>8, <2>9, <2>10 DEF Ledger!Next, Ledger!Announce
<1>5. CASE \A n \in Current(c) : n.type # "SYSTEM_UPDATE_COMPLETED"
  <2>1. Announced' = Announced
    BY <1>2, <1>5 DEF Announced
  <2> QED BY <1>1, <2>1 DEF Ledger!vars
<1> QED BY <1>4, <1>5

\* The transaction of `complete' publishes.
LEMMA CompletionPublishes ==
  ASSUME LInv, NEW c \in Calls, CompleteUpdate(c)
  PROVE  Ledger!Next
<1> DEFINE u == args[c].ref
<1>1. u \in Updates /\ Exists(u)
  BY DEF CompleteUpdate, Writing, LInv, IInv, CallsWellFormed, Request, Review
<1>2. su[u] \in Row
  BY <1>1, RowOfExisting DEF LInv, IInv
<1>3. \A p \in Published : p.update # u
  BY DEF CompleteUpdate, EntryAllowed, Published
<1>4. Published' = Published \cup { [update |-> u, by |-> c] }
  <2> DEFINE entry == [by |-> c, update |-> u, module |-> su[u].module]
             P(e) == [update |-> e.update, by |-> e.by]
  <2>1. changelog' = changelog \cup {entry}
    BY DEF CompleteUpdate
  <2>2. P(entry) = [update |-> u, by |-> c]
    OBVIOUS
  <2> HIDE DEF entry
  <2>3. { P(e) : e \in changelog \cup {entry} } = { P(e) : e \in changelog } \cup {P(entry)}
    OBVIOUS
  <2> QED BY <2>1, <2>2, <2>3 DEF Published
<1>5. \A v \in Updates : su'[v].completed <=> (su[v].completed \/ v = u)
  BY <1>1, <1>2 DEF CompleteUpdate, LInv, IInv, TypeOK, Row
<1>6. Completed' = Completed \cup {u}
  BY <1>1, <1>5 DEF Completed
<1>7. Announced' = Announced
  BY DEF CompleteUpdate, Notify, Announced
<1> QED BY <1>1, <1>3, <1>4, <1>6, <1>7 DEF Ledger!Next, Ledger!Publish

LEMMA StepLedger ==
  ASSUME LInv, [Next]_vars
  PROVE  Ledger!Next \/ UNCHANGED Ledger!vars
<1> DEFINE Goal == Ledger!Next \/ UNCHANGED Ledger!vars
<1>1. ASSUME changelog' = changelog, notifications' = notifications,
             \A u \in Updates : su'[u].completed = su[u].completed
      PROVE  Goal
  BY <1>1 DEF Completed, Published, Announced, Ledger!vars
<1>2. TypeOK /\ CallsWellFormed
  BY DEF LInv, IInv
<1>3. ASSUME NEW c \in Calls, InsertUpdate(c) PROVE Goal
  <2>1. PICK u \in Updates : ~Exists(u) /\ su' = [su EXCEPT ![u] = Filed(c)]
    BY <1>3 DEF InsertUpdate
  <2>2. \A v \in Updates : su'[v].completed = su[v].completed
    BY <1>2, <2>1 DEF TypeOK, Filed, Absent, Exists, Row, Status
  <2> QED BY <1>1, <1>3, <2>2 DEF InsertUpdate, Notify
<1>4. ASSUME NEW c \in Calls, NEW op \in Review \cup {"softDelete"}, Writing(c, op)
      PROVE  args[c].ref \in Updates /\ su[args[c].ref] \in Row
  <2>1. args[c].ref \in Updates /\ Exists(args[c].ref)
    BY <1>2, <1>4 DEF Writing, CallsWellFormed, Request, Review
  <2> QED BY <1>2, <2>1, RowOfExisting
<1>5. ASSUME NEW c \in Calls,
             ApproveAsDev(c) \/ RejectAsDev(c) \/ ApproveAsAdmin(c) \/ RejectAsAdmin(c)
      PROVE  Goal
  <2> DEFINE u == args[c].ref
  <2>1. u \in Updates /\ su[u] \in Row
    BY <1>4, <1>5 DEF ApproveAsDev, RejectAsDev, ApproveAsAdmin, RejectAsAdmin, Deciding, Review
  <2>2. \A v \in Updates : su'[v].completed = su[v].completed
    <3>1. CASE ApproveAsDev(c)
      BY <1>2, <2>1, <3>1 DEF ApproveAsDev, TypeOK, Row
    <3>2. CASE RejectAsDev(c)
      BY <1>2, <2>1, <3>2 DEF RejectAsDev, TypeOK, Row
    <3>3. CASE ApproveAsAdmin(c)
      BY <1>2, <2>1, <3>3 DEF ApproveAsAdmin, TypeOK, Row
    <3>4. CASE RejectAsAdmin(c)
      BY <1>2, <2>1, <3>4 DEF RejectAsAdmin, TypeOK, Row
    <3> QED BY <1>5, <3>1, <3>2, <3>3, <3>4
  <2> QED BY <1>1, <1>5, <2>2
          DEF ApproveAsDev, RejectAsDev, ApproveAsAdmin, RejectAsAdmin, Notify
<1>6. ASSUME NEW c \in Calls, DeleteUpdate(c) PROVE Goal
  <2>1. \A v \in Updates : su'[v].completed = su[v].completed
    BY <1>2, <1>4, <1>6 DEF DeleteUpdate, TypeOK, Row
  <2> QED BY <1>1, <1>6, <2>1 DEF DeleteUpdate, notifyVars
<1>7. ASSUME NEW c \in Calls, Deliver(c) PROVE Goal
  <2>1. CASE CreateRows(c)
    BY <1>7, <2>1, StoringAnnounces DEF Deliver
  <2>2. CASE ~CreateRows(c)
    <3>1. notifications' = notifications
      BY <1>7, <2>2 DEF Deliver, NotifyStep, ResolveAudience, PushRows, AddressEmails,
                        SendEmails, Broadcast, Emit
    <3> QED BY <1>1, <1>7, <3>1 DEF Deliver, tables
  <2> QED BY <2>1, <2>2
<1>8. ASSUME NEW c \in Calls,
             \/ LookupModule(c) \/ LoadUpdate(c) \/ CompleteConflict(c)
             \/ InsertComment(c) \/ Respond(c) \/ Fail(c)
      PROVE  Goal
  BY <1>1, <1>8 DEF LookupModule, LoadUpdate, CompleteConflict, InsertComment, Respond, Fail,
                    notifyVars, tables
<1>9. ASSUME \/ \E c \in Calls, a \in Request : Start(c, a)
             \/ \E m \in Modules : ToggleModule(m)
             \/ \E x \in Users : ToggleUser(x)
             \/ UNCHANGED vars
      PROVE  Goal
  BY <1>1, <1>9 DEF Start, ToggleModule, ToggleUser, Deactivate, Reactivate, notifyVars,
                    tables, vars
<1>10. ASSUME NEW c \in Calls, CompleteUpdate(c) PROVE Goal
  BY <1>10, CompletionPublishes
<1> HIDE DEF Goal
<1>11. Goal
  BY <1>3, <1>5, <1>6, <1>7, <1>8, <1>9, <1>10 DEF Next, Step
<1> QED BY <1>11 DEF Goal

\* `complete' implements CompletionLedger: an update is published in the
\* changelog once, stamped with that publication, and announced at most once,
\* by the call that published it.
THEOREM LedgerIsImplemented == Spec => LedgerKept
<1>1. Init => LInv /\ Ledger!Init
  BY InitLedger
<1>2. LInv /\ [Next]_vars => LInv'
  <2> SUFFICES ASSUME LInv, [Next]_vars PROVE LInv'
    OBVIOUS
  <2>1. IInv'
    <3>1. IInv /\ [Next]_vars
      BY DEF LInv
    <3> QED BY <3>1, IInvKept
  <2> QED BY <2>1, StepAnnounced DEF LInv
<1>3. LInv /\ [Next]_vars => [Ledger!Next]_(Ledger!vars)
  BY StepLedger
<1> QED BY <1>1, <1>2, <1>3, PTL DEF Spec, LedgerKept, Ledger!Spec
=============================================================================
