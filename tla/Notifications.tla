---------------------------- MODULE Notifications ----------------------------
(***************************************************************************)
(* NotificationsService and EmailService, as the handlers of the other     *)
(* services call them.                                                      *)
(*                                                                         *)
(* A handler awaits a few notification calls one after the other, each a   *)
(* job of the handler's queue in `work'.  A job goes through the awaits of *)
(* notifyRoles / notifyUsersWithPermission / createMany:                   *)
(*                                                                         *)
(*   resolve    read the active users of the audience                      *)
(*   create     insert all rows in one transaction                         *)
(*   push       emit notification:new (and note:sync) for every row        *)
(*   address    dispatchEmails reads which recipients are active           *)
(*   send       Promise.allSettled over the provider's calls               *)
(*   broadcast  read the active audience and emit, storing nothing         *)
(*   emit       emit without reading anything                              *)
(*                                                                         *)
(* Other handlers run between any two of them.  The domain modules EXTEND  *)
(* this one and fill the queue.                                            *)
(***************************************************************************)
EXTENDS Naturals, Sequences

CONSTANTS
  Calls,         \* the HTTP calls the server handles, each a handler of its own
  Users,         \* the rows of the User table
  Refs,          \* what a notification refers to: notes or system updates
  None,          \* SQL NULL
  RoleOf,        \* [Users -> role codes]
  PermsOf,       \* [Users -> sets of permission codes]
  Toggled,       \* bound: what an administrator switches on and off
  EmailEnabled   \* EMAIL_ENABLED and RESEND_API_KEY are set

ASSUME NotificationsAssumption ==
  /\ None \notin Users \cup Refs
  /\ EmailEnabled \in BOOLEAN

VARIABLES
  active,         \* users with isActive and no deletedAt
  work,           \* [Calls -> Seq(Job)]: notification calls a handler still has to await
  notifications,  \* rows of the Notification table
  pushed,         \* events emitted to the users' socket rooms
  emails          \* e-mails the provider accepted

notifyVars == <<work, notifications, pushed, emails>>

----------------------------------------------------------------------------
NotificationType ==
  { "NOTE_PENDING", "NOTE_MENTION", "NOTE_RECEIVED", "NOTE_APPROVED",
    "NOTE_REJECTED", "SYSTEM_UPDATE_NEW", "SYSTEM_UPDATE_DEV_APPROVED",
    "SYSTEM_UPDATE_DEV_REJECTED", "SYSTEM_UPDATE_ADMIN_APPROVED",
    "SYSTEM_UPDATE_ADMIN_REJECTED", "SYSTEM_UPDATE_COMPLETED" }

\* note:sync events that no stored row accompanies, named for what they say.
SyncType == { "SYNC_MINE", "SYNC_APPROVED", "SYNC_REJECTED",
              "SYNC_DROP_PENDING", "SYNC_DROP_APPROVED", "SYNC_DROP_REJECTED" }

\* The service call that made a row.  One handler may create two rows that
\* differ in nothing else (a requester who is also an ADMIN).
Via == { "createMany", "notifyRoles", "notifyUsersWithPermission", "noteSync" }

Notice == [ by : Calls, user : Users, ref : Refs, via : Via,
            type : NotificationType \cup SyncType ]

Stage == { "resolve", "create", "push", "address", "send", "broadcast", "emit" }

Job == [ stage : Stage, rows : SUBSET Notice ]

\* The rows a call addresses to the users in `to'.
Rows(c, to, type, ref, via) ==
  { [ by |-> c, user |-> x, ref |-> ref, via |-> via, type |-> type ] : x \in to }

\* Mutant: the events go out without the rows being stored.
CreateManyUnstored(rows) == [ stage |-> "push", rows |-> rows ]

\* createMany(items): the recipients are given, active or not.
CreateMany(rows) == [ stage |-> "create", rows |-> rows ]

\* notifyRoles(codes, payload, { excludeUserIds }).
NotifyRoles(c, codes, type, ref, exclude) ==
  [ stage |-> "resolve",
    rows  |-> Rows(c, { x \in Users : RoleOf[x] \in codes } \ exclude,
                   type, ref, "notifyRoles") ]

Holders(perm) == { x \in Users : perm \in PermsOf[x] }

\* notifyUsersWithPermission(code, payload, { excludeUserIds }).
NotifyUsersWithPermission(c, perm, type, ref, exclude) ==
  [ stage |-> "resolve",
    rows  |-> Rows(c, Holders(perm) \ exclude, type, ref, "notifyUsersWithPermission") ]

\* broadcastNoteSyncToUsersWithPermission(code, sync).
BroadcastNoteSync(c, perm, type, ref) ==
  [ stage |-> "broadcast", rows |-> Rows(c, Holders(perm), type, ref, "noteSync") ]

\* emitNoteSync(userId, sync), for each user in `to'.
EmitNoteSync(c, to, type, ref) ==
  [ stage |-> "emit", rows |-> Rows(c, to, type, ref, "noteSync") ]

----------------------------------------------------------------------------
NotificationsInit ==
  /\ active = Users
  /\ work = [c \in Calls |-> <<>>]
  /\ notifications = {}
  /\ pushed = {}
  /\ emails = {}

At(c, stage) == work[c] # <<>> /\ work[c][1].stage = stage

Current(c) == work[c][1].rows

\* The where-clause { deletedAt: null, isActive: true } of every audience query.
Reachable(rows) == { n \in rows : n.user \in active }

Advance(c, stage, rows) ==
  work' = [work EXCEPT ![c][1] = [stage |-> stage, rows |-> rows]]

\* The awaited call returns to its handler.
Return(c) == work' = [work EXCEPT ![c] = Tail(work[c])]

ResolveAudience(c) ==
  /\ At(c, "resolve")
  /\ IF Reachable(Current(c)) = {}
       THEN Return(c)
       ELSE Advance(c, "create", Reachable(Current(c)))
  /\ UNCHANGED <<active, notifications, pushed, emails>>

CreateRows(c) ==
  /\ At(c, "create")
  /\ notifications' = notifications \cup Current(c)
  /\ Advance(c, "push", Current(c))
  /\ UNCHANGED <<active, pushed, emails>>

\* With e-mail off, sendForNotifications returns at once and what
\* dispatchEmails has read is dropped.
PushRows(c) ==
  /\ At(c, "push")
  /\ pushed' = pushed \cup Current(c)
  /\ IF EmailEnabled THEN Advance(c, "address", Current(c)) ELSE Return(c)
  /\ UNCHANGED <<active, notifications, emails>>

AddressEmails(c) ==
  /\ At(c, "address")
  /\ Advance(c, "send", Reachable(Current(c)))
  /\ UNCHANGED <<active, notifications, pushed, emails>>

\* Mutant: Promise.all in place of allSettled, and the handler swallows it.
SendEmailsOrGiveUp(c) ==
  /\ At(c, "send")
  /\ \E accepted \in SUBSET Current(c) :
       /\ emails' = emails \cup accepted
       /\ IF accepted = Current(c) THEN Return(c)
                                  ELSE work' = [work EXCEPT ![c] = <<>>]
  /\ UNCHANGED <<active, notifications, pushed>>

\* allSettled: each e-mail succeeds or fails on its own, and no failure is raised.
SendEmails(c) ==
  /\ At(c, "send")
  /\ \E accepted \in SUBSET Current(c) : emails' = emails \cup accepted
  /\ Return(c)
  /\ UNCHANGED <<active, notifications, pushed>>

Broadcast(c) ==
  /\ At(c, "broadcast")
  /\ pushed' = pushed \cup Reachable(Current(c))
  /\ Return(c)
  /\ UNCHANGED <<active, notifications, emails>>

Emit(c) ==
  /\ At(c, "emit")
  /\ pushed' = pushed \cup Current(c)
  /\ Return(c)
  /\ UNCHANGED <<active, notifications, emails>>

NotifyStep(c) ==
  \/ ResolveAudience(c)
  \/ CreateRows(c)
  \/ PushRows(c)
  \/ AddressEmails(c)
  \/ SendEmails(c)
  \/ Broadcast(c)
  \/ Emit(c)

\* UsersService.update({ isActive: false }) and softDelete.
Deactivate(x) ==
  /\ x \in active \cap Toggled
  /\ active' = active \ {x}
  /\ UNCHANGED notifyVars

\* UsersService.update({ isActive: true }).
Reactivate(x) ==
  /\ x \in Toggled \ active
  /\ active' = active \cup {x}
  /\ UNCHANGED notifyVars

----------------------------------------------------------------------------
\* The rows a handler still has in hand, stored or not.
InHand(c) == UNION { work[c][i].rows : i \in DOMAIN work[c] }

NotificationsTypeOK ==
  /\ active \subseteq Users
  /\ work \in [Calls -> Seq(Job)]
  /\ notifications \subseteq Notice
  /\ pushed \subseteq Notice
  /\ emails \subseteq Notice

\* Delivery follows the table, in every interleaving and whatever fails
\* (createMany and dispatchEmails): a user is e-mailed only what was also
\* pushed, a pushed notification is a stored row (a bare note:sync is not one),
\* and a handler owns the rows it carries.
DeliveryFollowsStorage ==
  /\ emails \subseteq pushed
  /\ \A n \in pushed : n.via # "noteSync" => n \in notifications
  /\ \A c \in Calls : \A n \in InHand(c) : n.by = c
  /\ \A c \in Calls : work[c] # <<>> =>
       /\ work[c][1].stage \in {"push", "address", "send"} => Current(c) \subseteq notifications
       /\ work[c][1].stage \in {"address", "send"} => Current(c) \subseteq pushed
=============================================================================
