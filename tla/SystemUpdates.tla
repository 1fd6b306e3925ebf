---------------------------- MODULE SystemUpdates ----------------------------
(***************************************************************************)
(* SystemUpdatesService behind its controller: change requests, their two  *)
(* reviews, completion with a changelog entry, comments and soft deletion. *)
(*                                                                         *)
(* Every handler of an existing request is a read (findFirst, the status   *)
(* check) followed by a write whose where-clause is the id alone.  The two *)
(* are separate actions, so calls interleave as they do over the database, *)
(* on one instance or on several.  A $transaction is one action.           *)
(***************************************************************************)
EXTENDS Notifications, FiniteSets

CONSTANTS
  Modules,       \* the rows of the Module table
  Offered,       \* bound: the routes the clients of a run call
  MaxInFlight,   \* bound: calls being handled at the same time
  MaxFailed      \* bound: calls that fail for a reason outside the code

ASSUME SystemUpdatesAssumption ==
  /\ None \notin Modules
  /\ IsFiniteSet(Calls)
  /\ MaxInFlight \in Nat \ {0}
  /\ MaxFailed \in Nat

Updates == Refs  \* here a notification refers to a system update

VARIABLES
  su,             \* the SystemUpdate table
  changelog,      \* the ChangelogEntry table
  comments,       \* the SystemUpdateComment table
  activeModules,  \* modules with isActive
  pc,             \* how far each call has come
  args            \* what each call was asked, by whom

tables == <<su, changelog, comments, activeModules>>
vars == <<active, work, notifications, pushed, emails,
          su, changelog, comments, activeModules, pc, args>>

----------------------------------------------------------------------------
Status == { "PENDING", "DEV_APPROVED", "DEV_REJECTED",
            "ADMIN_APPROVED", "ADMIN_REJECTED", "COMPLETED" }

Absent == [ status |-> "ABSENT", requester |-> None, module |-> None,
            devReviewedBy |-> None, adminReviewedBy |-> None,
            completed |-> FALSE, deleted |-> FALSE ]

Row == [ status : Status, requester : Users, module : Modules,
         devReviewedBy : Users \cup {None}, adminReviewedBy : Users \cup {None},
         completed : BOOLEAN,      \* completedAt is set
         deleted : BOOLEAN ]       \* deletedAt is set

\* `by' stands for the row's own id: the call that inserted it.
Entry == [ by : Calls, update : Updates, module : Modules ]

Comment == [ by : Calls, update : Updates, author : Users,
             type : { "REJECTION_REASON", "COMMENT" },
             content : { "text", "empty" } ]

Review == { "devReview", "adminReview" }

Op == Review \cup { "create", "complete", "addComment", "softDelete" }

\* ReviewDecisionDto: a rejection may come without a reason.
Decision == { "approve", "reject", "bareReject" }

\* A request as it reaches its handler: JWT and permission checked, body parsed.
Request ==
  [ op : {"create"}, user : Users, ref : {None}, module : Modules, decision : {"none"} ]
  \cup [ op : Review, user : Users, ref : Updates, module : {None}, decision : Decision ]
  \cup [ op : {"complete", "addComment", "softDelete"}, user : Users,
         ref : Updates, module : {None}, decision : {"none"} ]

NoRequest == [ op |-> "none", user |-> None, ref |-> None,
               module |-> None, decision |-> "none" ]

\* The @Permissions of the controller's routes.
Required ==
  [ create      |-> { "SYSTEM_UPDATE_CREATE" },
    devReview   |-> { "SYSTEM_UPDATE_REVIEW_AS_DEV" },
    adminReview |-> { "SYSTEM_UPDATE_REVIEW_AS_ADMIN" },
    complete    |-> { "SYSTEM_UPDATE_REVIEW_AS_DEV" },
    addComment  |-> {},
    softDelete  |-> { "SYSTEM_UPDATE_DELETE" } ]

\* Mutants: adminReview waits for no developer, or overrules a rejection.
AdminExpectsPending == { "PENDING" }
AdminExpectsRejected == { "PENDING", "DEV_APPROVED", "DEV_REJECTED" }

AdminExpects == { "PENDING", "DEV_APPROVED" }

\* The statuses each handler lets through after its read.
Expected ==
  [ devReview   |-> { "PENDING" },
    adminReview |-> AdminExpects,
    complete    |-> { "ADMIN_APPROVED" },
    addComment  |-> Status,
    softDelete  |-> Status ]

Running == { "started", "loaded", "notifying" }

InFlight == { c \in Calls : pc[c] \in Running }

Exists(u) == su[u].status # "ABSENT"

\* Mutant: the filter on deletedAt is forgotten.
LiveOrDeleted(u) == Exists(u)

\* findFirst({ where: { id, deletedAt: null } }) finds the row.
Live(u) == Exists(u) /\ ~su[u].deleted

\* Mutant: a rejection goes through without a reason.
AcceptsBare(a) == Live(a.ref) /\ su[a.ref].status \in Expected[a.op]

\* The read, the status check and the check for a reason, one synchronous block.
Accepts(a) ==
  /\ Live(a.ref)
  /\ su[a.ref].status \in Expected[a.op]
  /\ a.decision # "bareReject"

----------------------------------------------------------------------------
Init ==
  /\ NotificationsInit
  /\ su = [u \in Updates |-> Absent]
  /\ changelog = {}
  /\ comments = {}
  /\ activeModules = Modules
  /\ pc = [c \in Calls |-> "idle"]
  /\ args = [c \in Calls |-> NoRequest]

Goto(c, to) == pc' = [pc EXCEPT ![c] = to]

\* Bound: the table has room for what `create' is about to insert.
RoomToFile ==
  Cardinality({ c \in Calls : args[c].op = "create" /\ pc[c] # "refused" })
    < Cardinality(Updates)

\* JwtStrategy.validate reads the caller, PermissionsGuard checks the route.
Start(c, a) ==
  /\ pc[c] = "idle"
  /\ a.op \in Offered
  /\ a.op = "create" => RoomToFile
  /\ Cardinality(InFlight) < MaxInFlight
  /\ a.user \in active
  /\ Required[a.op] \subseteq PermsOf[a.user]
  /\ Goto(c, "started")
  /\ args' = [args EXCEPT ![c] = a]
  /\ UNCHANGED <<active, notifyVars, tables>>

\* create: the module must exist and be active.
LookupModule(c) ==
  /\ pc[c] = "started"
  /\ args[c].op = "create"
  /\ Goto(c, IF args[c].module \in activeModules THEN "loaded" ELSE "refused")
  /\ UNCHANGED <<active, notifyVars, tables, args>>

\* Mutant: a request that is not found is never answered.
LoadUpdateOrHang(c) ==
  /\ pc[c] = "started"
  /\ args[c].op # "create"
  /\ Accepts(args[c])
  /\ Goto(c, "loaded")
  /\ UNCHANGED <<active, notifyVars, tables, args>>

LoadUpdate(c) ==
  /\ pc[c] = "started"
  /\ args[c].op # "create"
  /\ Goto(c, IF Accepts(args[c]) THEN "loaded" ELSE "refused")
  /\ UNCHANGED <<active, notifyVars, tables, args>>

----------------------------------------------------------------------------
(* The writes.  `u' is the request's id, taken from the row read earlier.  *)

Writing(c, op) == pc[c] = "loaded" /\ args[c].op = op

Deciding(c, op, decision) == Writing(c, op) /\ args[c].decision = decision

Requester(u) == su[u].requester

\* Mutant: the reviewer is told in the requester's place.
TellCaller(c, u, type) ==
  CreateMany(Rows(c, {args[c].user}, type, u, "createMany"))

\* createMany with one item, for the requester.
TellRequester(c, u, type) ==
  CreateMany(Rows(c, {Requester(u)}, type, u, "createMany"))

Notify(c, jobs) ==
  /\ Goto(c, "notifying")
  /\ work' = [work EXCEPT ![c] = jobs]
  /\ UNCHANGED <<active, notifications, pushed, emails>>

\* The reason travels in the same transaction as the status.
RejectionReason(c) ==
  { [ by |-> c, update |-> args[c].ref, author |-> args[c].user,
      type |-> "REJECTION_REASON",
      content |-> IF args[c].decision = "bareReject" THEN "empty" ELSE "text" ] }

\* Mutant: the module is not copied from the request.
FiledNowhere(c) == [Absent EXCEPT !.status = "PENDING", !.requester = args[c].user]

Filed(c) == [Absent EXCEPT !.status = "PENDING", !.requester = args[c].user,
                           !.module = args[c].module]

InsertUpdate(c) ==
  /\ Writing(c, "create")
  /\ \E u \in Updates :
       /\ ~Exists(u)                            \* a fresh cuid
       /\ su' = [su EXCEPT ![u] = Filed(c)]
       /\ args' = [args EXCEPT ![c].ref = u]
       /\ Notify(c, << NotifyRoles(c, {"ADMIN", "DEVELOPER"}, "SYSTEM_UPDATE_NEW",
                                   u, {args[c].user}) >>)
  /\ UNCHANGED <<changelog, comments, activeModules>>

ApproveAsDev(c) == LET u == args[c].ref IN
  /\ Deciding(c, "devReview", "approve")
  /\ su' = [su EXCEPT ![u].status = "DEV_APPROVED", ![u].devReviewedBy = args[c].user]
  /\ Notify(c, << NotifyRoles(c, {"ADMIN"}, "SYSTEM_UPDATE_DEV_APPROVED", u, {}),
                  TellRequester(c, u, "SYSTEM_UPDATE_DEV_APPROVED") >>)
  /\ UNCHANGED <<changelog, comments, activeModules, args>>

RejectAsDev(c) == LET u == args[c].ref IN
  /\ Writing(c, "devReview")
  /\ args[c].decision # "approve"
  /\ su' = [su EXCEPT ![u].status = "DEV_REJECTED", ![u].devReviewedBy = args[c].user]
  /\ comments' = comments \cup RejectionReason(c)
  /\ Notify(c, << TellRequester(c, u, "SYSTEM_UPDATE_DEV_REJECTED") >>)
  /\ UNCHANGED <<changelog, activeModules, args>>

ApproveAsAdmin(c) == LET u == args[c].ref IN
  /\ Deciding(c, "adminReview", "approve")
  /\ su' = [su EXCEPT ![u].status = "ADMIN_APPROVED", ![u].adminReviewedBy = args[c].user]
  /\ Notify(c, << TellRequester(c, u, "SYSTEM_UPDATE_ADMIN_APPROVED"),
                  NotifyRoles(c, {"DEVELOPER"}, "SYSTEM_UPDATE_ADMIN_APPROVED", u, {}) >>)
  /\ UNCHANGED <<changelog, comments, activeModules, args>>

RejectAsAdmin(c) == LET u == args[c].ref IN
  /\ Writing(c, "adminReview")
  /\ args[c].decision # "approve"
  /\ su' = [su EXCEPT ![u].status = "ADMIN_REJECTED", ![u].adminReviewedBy = args[c].user]
  /\ comments' = comments \cup RejectionReason(c)
  /\ Notify(c, << TellRequester(c, u, "SYSTEM_UPDATE_ADMIN_REJECTED") >>)
  /\ UNCHANGED <<changelog, activeModules, args>>

\* Mutant: no unique index.
EntryAlwaysAllowed(u) == TRUE

\* ChangelogEntry.systemUpdateId is @unique.
EntryAllowed(u) == \A e \in changelog : e.update # u

CompleteUpdate(c) == LET u == args[c].ref IN
  /\ Writing(c, "complete")
  /\ EntryAllowed(u)
  /\ su' = [su EXCEPT ![u].status = "COMPLETED", ![u].completed = TRUE]
  /\ changelog' = changelog \cup { [by |-> c, update |-> u, module |-> su[u].module] }
  /\ Notify(c, << TellRequester(c, u, "SYSTEM_UPDATE_COMPLETED") >>)
  /\ UNCHANGED <<comments, activeModules, args>>

\* Mutant: the conflict is taken for success.
CompleteAgain(c) ==
  /\ Writing(c, "complete")
  /\ ~EntryAllowed(args[c].ref)
  /\ Notify(c, << TellRequester(c, args[c].ref, "SYSTEM_UPDATE_COMPLETED") >>)
  /\ UNCHANGED <<tables, args>>

\* The unique index refuses the entry, the transaction rolls back.
CompleteConflict(c) ==
  /\ Writing(c, "complete")
  /\ ~EntryAllowed(args[c].ref)
  /\ Goto(c, "failed")
  /\ UNCHANGED <<active, notifyVars, tables, args>>

InsertComment(c) ==
  /\ Writing(c, "addComment")
  /\ comments' = comments \cup { [by |-> c, update |-> args[c].ref, author |-> args[c].user,
                                  type |-> "COMMENT", content |-> "text"] }
  /\ Goto(c, "done")
  /\ UNCHANGED <<active, notifyVars, su, changelog, activeModules, args>>

DeleteUpdate(c) ==
  /\ Writing(c, "softDelete")
  /\ su' = [su EXCEPT ![args[c].ref].deleted = TRUE]
  /\ Goto(c, "done")
  /\ UNCHANGED <<active, notifyVars, changelog, comments, activeModules, args>>

----------------------------------------------------------------------------
Deliver(c) ==
  /\ pc[c] = "notifying"
  /\ NotifyStep(c)
  /\ UNCHANGED <<tables, pc, args>>

Respond(c) ==
  /\ pc[c] = "notifying"
  /\ work[c] = <<>>
  /\ Goto(c, "done")
  /\ UNCHANGED <<active, notifyVars, tables, args>>

\* A query raises, or the instance dies: what is committed stays, the rest of
\* the handler never runs.
Fail(c) ==
  /\ pc[c] \in Running
  /\ Cardinality({ k \in Calls : pc[k] = "failed" }) < MaxFailed
  /\ Goto(c, "failed")
  /\ work' = [work EXCEPT ![c] = <<>>]
  /\ UNCHANGED <<active, notifications, pushed, emails, tables, args>>

\* ModulesService.remove and update({ isActive }).
ToggleModule(m) ==
  /\ m \in Toggled
  /\ activeModules' = IF m \in activeModules THEN activeModules \ {m}
                                             ELSE activeModules \cup {m}
  /\ UNCHANGED <<active, notifyVars, su, changelog, comments, pc, args>>

ToggleUser(x) ==
  /\ Deactivate(x) \/ Reactivate(x)
  /\ UNCHANGED <<tables, pc, args>>

Step(c) ==
  \/ LookupModule(c)
  \/ LoadUpdate(c)
  \/ InsertUpdate(c)
  \/ ApproveAsDev(c)
  \/ RejectAsDev(c)
  \/ ApproveAsAdmin(c)
  \/ RejectAsAdmin(c)
  \/ CompleteUpdate(c)
  \/ CompleteConflict(c)
  \/ InsertComment(c)
  \/ DeleteUpdate(c)
  \/ Deliver(c)
  \/ Respond(c)

Next ==
  \/ \E c \in Calls, a \in Request : Start(c, a)
  \/ \E c \in Calls : Step(c) \/ Fail(c)
  \/ \E m \in Modules : ToggleModule(m)
  \/ \E x \in Users : ToggleUser(x)

Spec == Init /\ [][Next]_vars

\* A handler that is running goes on: the event loop resumes it, the database
\* answers, the mail provider's promises settle.  Nothing obliges a client to
\* call, an administrator to toggle, or a query to fail.
Fairness == \A c \in Calls : WF_vars(Step(c))

FairSpec == Spec /\ Fairness

----------------------------------------------------------------------------
(* list(): which rows a scope shows, and who may ask for it.               *)

Can(x, perm) == perm \in PermsOf[x]

IsAdmin(x) == Can(x, "SYSTEM_UPDATE_REVIEW_AS_ADMIN")

IsDev(x) == Can(x, "SYSTEM_UPDATE_REVIEW_AS_DEV")

MayList(x, scope) ==
  scope \in {"inbox", "pending", "all"} => IsAdmin(x) \/ IsDev(x)

InScope(x, u, scope) ==
  CASE scope = "mine"      -> su[u].requester = x
    [] scope = "inbox"     -> su[u].status \in
                                IF IsAdmin(x) THEN {"PENDING", "DEV_APPROVED"} ELSE {"PENDING"}
    [] scope = "pending"   -> su[u].status = "PENDING"
    [] scope = "approved"  -> su[u].status = "ADMIN_APPROVED"
    [] scope = "completed" -> su[u].status = "COMPLETED"
    [] scope = "rejected"  -> su[u].status \in {"DEV_REJECTED", "ADMIN_REJECTED"}
    [] scope = "all"       -> TRUE
    [] OTHER               -> IsAdmin(x) \/ IsDev(x) \/ su[u].requester = x

Listed(x, u, scope) == Live(u) /\ InScope(x, u, scope)

----------------------------------------------------------------------------
(* Properties.                                                             *)

TypeOK ==
  /\ NotificationsTypeOK
  /\ su \in [Updates -> Row \cup {Absent}]
  /\ changelog \subseteq Entry
  /\ comments \subseteq Comment
  /\ activeModules \subseteq Modules
  /\ pc \in [Calls -> Running \cup {"idle", "done", "refused", "failed"}]
  /\ args \in [Calls -> [ op : Op \cup {"none"}, user : Users \cup {None},
                          ref : Updates \cup {None}, module : Modules \cup {None},
                          decision : Decision \cup {"none"} ]]

\* Completion is recorded in two tables, written by one transaction of
\* `complete': completedAt is set exactly on the updates in the changelog, each
\* has one entry, filed under the module of the request, and no update reads
\* COMPLETED without it.  Two calls completing at once must not break it.
CompletionRecord ==
  /\ \A u \in Updates : su[u].completed <=> \E e \in changelog : e.update = u
  /\ \A u \in Updates : su[u].status = "COMPLETED" => su[u].completed
  /\ \A e \in changelog : e.module = su[e.update].module
  /\ \A e, f \in changelog : e.update = f.update => e = f

\* A request that reads rejected says why: there is a REJECTION_REASON comment,
\* not empty, by the very reviewer the row records (devReview, adminReview),
\* even when reviews of the same request overlap.
RejectionHasReason ==
  \A u \in Updates :
    LET Explained(x) == \E k \in comments :
          /\ k.update = u /\ k.author = x
          /\ k.type = "REJECTION_REASON" /\ k.content # "empty"
    IN /\ su[u].status = "DEV_REJECTED" => Explained(su[u].devReviewedBy)
       /\ su[u].status = "ADMIN_REJECTED" => Explained(su[u].adminReviewedBy)

\* What must be on record for a notification to say what it says.
OnRecord(n) ==
  LET row == su[n.ref]
      caller == args[n.by].user
      Reason == \E k \in comments :
        k.by = n.by /\ k.update = n.ref /\ k.author = caller /\ k.type = "REJECTION_REASON"
      Entered == \E e \in changelog : e.by = n.by /\ e.update = n.ref
  IN /\ Exists(n.ref)
     /\ n.via = "createMany" => n.user = row.requester
     /\ \/ n.type = "SYSTEM_UPDATE_NEW" /\ n.user # row.requester
        \/ n.type = "SYSTEM_UPDATE_DEV_APPROVED" /\ row.devReviewedBy # None
        \/ n.type = "SYSTEM_UPDATE_DEV_REJECTED" /\ Reason /\ n.user = row.requester
        \/ n.type = "SYSTEM_UPDATE_ADMIN_APPROVED" /\ row.adminReviewedBy # None
        \/ n.type = "SYSTEM_UPDATE_ADMIN_REJECTED" /\ Reason /\ n.user = row.requester
        \/ n.type = "SYSTEM_UPDATE_COMPLETED" /\ Entered /\ n.user = row.requester

\* No notification, stored or about to be, announces what did not happen: its
\* review, reason or changelog entry is committed before the handler awaits
\* createMany, and the personal ones go to the requester and to nobody else.
NoticesOnRecord ==
  /\ \A n \in notifications : OnRecord(n)
  /\ \A c \in Calls : \A n \in InHand(c) : OnRecord(n)

\* The inbox shows a reviewer exactly the requests one of the reviews he is
\* permitted would let through now, and the `approved' tray exactly those that
\* can be completed (list, devReview, adminReview, complete each spell the
\* statuses out on their own).
InboxIsActionable ==
  \A x \in Users, u \in Updates :
    LET Open(op) == Accepts([op |-> op, ref |-> u, decision |-> "approve"])
    IN /\ MayList(x, "inbox") /\ (IsAdmin(x) \/ IsDev(x)) =>
            (Listed(x, u, "inbox") <=> \E op \in Review : Required[op] \subseteq PermsOf[x] /\ Open(op))
       /\ Listed(x, u, "approved") <=> Open("complete")

\* Calls that have read a request and may still write it.
Loaded(u) == { c \in Calls : pc[c] = "loaded" /\ args[c].ref = u }

\* A deleted request no longer changes once the calls that had read it before
\* are through: no handler reads past deletedAt, and nothing undeletes.
DeletedIsFrozen ==
  [][\A u \in Updates :
       su[u].deleted =>
         /\ su'[u].deleted
         /\ Loaded(u) = {} => su'[u] = su[u] /\ Loaded(u)' = {}]_vars

\* Whoever is told last is told the truth: when calls do not overlap, a final
\* notification and the row agree for good (README, "State machines").
FinalNoticesStand ==
  \A n \in notifications :
    n.type \in { "SYSTEM_UPDATE_DEV_REJECTED", "SYSTEM_UPDATE_ADMIN_REJECTED",
                 "SYSTEM_UPDATE_COMPLETED" } =>
      su[n.ref].status = CASE n.type = "SYSTEM_UPDATE_DEV_REJECTED"   -> "DEV_REJECTED"
                           [] n.type = "SYSTEM_UPDATE_ADMIN_REJECTED" -> "ADMIN_REJECTED"
                           [] n.type = "SYSTEM_UPDATE_COMPLETED"      -> "COMPLETED"

\* Every call that is running is answered, or fails.
Answered ==
  \A c \in Calls : pc[c] \in Running ~> pc[c] \in {"done", "refused", "failed"}

\* A decision on a request reaches its requester's socket room, unless the call
\* that took it fails on the way.
Decided(c) == pc[c] = "notifying" /\ args[c].op \in Review \cup {"complete"}

RequesterLearns ==
  \A c \in Calls :
    Decided(c) ~> \/ pc[c] = "failed"
                  \/ \E n \in pushed : n.by = c /\ n.user = Requester(n.ref)

----------------------------------------------------------------------------
(* What completion promises, and the lifecycle of the README.              *)

\* The stamped updates, the changelog, and the announcements that are stored.
Completed == { u \in Updates : su[u].completed }

Published == { [update |-> e.update, by |-> e.by] : e \in changelog }

Announced == { [update |-> n.ref, by |-> n.by] :
                 n \in { m \in notifications : m.type = "SYSTEM_UPDATE_COMPLETED" } }

Ledger == INSTANCE CompletionLedger WITH
  completed <- Completed, published <- Published, announced <- Announced

\* `complete' keeps the promise of CompletionLedger under any interleaving.
LedgerKept == Ledger!Spec

Lifecycle == INSTANCE ReviewLifecycle WITH
  status <- [u \in Updates |-> su[u].status],
  deleted <- { u \in Updates : su[u].deleted },
  published <- { e.update : e \in changelog }

\* README.md:89, "Admin always has the final word": what an administrator has
\* decided no developer's review undoes.
AdminHasFinalWord ==
  [][\A u \in Updates :
       su[u].status \in {"ADMIN_APPROVED", "ADMIN_REJECTED"} =>
         su'[u].status \notin {"DEV_APPROVED", "DEV_REJECTED"}]_vars
=============================================================================
