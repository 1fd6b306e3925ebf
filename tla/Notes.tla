-------------------------------- MODULE Notes --------------------------------
(***************************************************************************)
(* NotesService behind its controller: notes with mentions, recipients and *)
(* citations, their approval or rejection, sub-notes and soft deletion.    *)
(*                                                                         *)
(* As in SystemUpdates a handler reads, checks and later writes by id      *)
(* alone; creating a note reads twice before it writes.                    *)
(***************************************************************************)
EXTENDS Notifications, FiniteSets

CONSTANTS
  Bodies,        \* bound: what clients send as a new note
  Offered,       \* bound: the routes the clients of a run call
  MaxInFlight,   \* bound: calls being handled at the same time
  MaxFailed      \* bound: calls that fail for a reason outside the code

NoteIds == Refs  \* here a notification refers to a note

Body == [ mentions : SUBSET Users, recipients : SUBSET Users, cites : SUBSET NoteIds ]

ASSUME NotesAssumption ==
  /\ Bodies \subseteq Body
  /\ IsFiniteSet(Calls)
  /\ MaxInFlight \in Nat \ {0}
  /\ MaxFailed \in Nat

VARIABLES
  note,       \* the Note table, with its mention, recipient and citation rows
  subNotes,   \* the NoteSubNote table
  pc,         \* how far each call has come
  args        \* what each call was asked, by whom, what it read and what it wrote

vars == <<active, work, notifications, pushed, emails, note, subNotes, pc, args>>

----------------------------------------------------------------------------
Status == { "PENDING", "APPROVED", "REJECTED" }

NoBody == [ mentions |-> {}, recipients |-> {}, cites |-> {} ]

Absent == [ status |-> "ABSENT", author |-> None, reviewedBy |-> None,
            deleted |-> FALSE, body |-> NoBody ]

Row == [ status : Status, author : Users, reviewedBy : Users \cup {None},
         deleted : BOOLEAN, body : Body ]

SubNote == [ by : Calls, note : NoteIds, author : Users,
             type : { "REJECTION_REASON", "COMMENT" } ]

Op == { "create", "approve", "reject", "addSubNote", "softDelete" }

\* Of the row that an insert or a review has committed and returned (`updated'),
\* what the notifications depend on.
Decision == [ status : Status, reviewedBy : Users \cup {None} ]

NoDecision == [ status |-> "none", reviewedBy |-> None ]

DecisionIn(row) == [ status |-> row.status, reviewedBy |-> row.reviewedBy ]

\* A request as it reaches its handler.  `seen' is filled in by the read, `updated'
\* by the write.
Request ==
  [ op : {"create"}, user : Users, ref : {None}, body : Bodies,
    seen : {"none"}, updated : {NoDecision} ]
  \cup [ op : Op \ {"create"}, user : Users, ref : NoteIds, body : {NoBody},
         seen : {"none"}, updated : {NoDecision} ]

NoRequest == [ op |-> "none", user |-> None, ref |-> None, body |-> NoBody,
               seen |-> "none", updated |-> NoDecision ]

\* The @Permissions of the controller's routes.
Required ==
  [ create     |-> { "NOTE_CREATE" },
    approve    |-> { "NOTE_APPROVE_REJECT" },
    reject     |-> { "NOTE_APPROVE_REJECT" },
    addSubNote |-> {},
    softDelete |-> { "NOTE_DELETE" } ]

Running == { "started", "addressed", "loaded", "notifying" }

InFlight == { c \in Calls : pc[c] \in Running }

Exists(i) == note[i].status # "ABSENT"

\* Mutant: the filter on deletedAt is forgotten.
LiveOrDeleted(i) == Exists(i)

Live(i) == Exists(i) /\ ~note[i].deleted

CanApprove(x) == "NOTE_APPROVE_REJECT" \in PermsOf[x]

\* skipsNoteApproval
SkipsApproval(x) == RoleOf[x] = "ADMIN" \/ "NOTE_SKIP_APPROVAL" \in PermsOf[x]

----------------------------------------------------------------------------
(* Who sees what, as each place of the service spells it out.              *)

Addressed(x, i) == x \in note[i].body.mentions \cup note[i].body.recipients

\* assertUserCanViewNote, which does not look at deletedAt.
MayReference(x, i) ==
  \/ note[i].author = x
  \/ CanApprove(x)
  \/ Addressed(x, i) /\ note[i].status = "APPROVED"

\* byId
MayRead(x, i) == Live(i) /\ MayReference(x, i)

\* Mutant: mentions are offered for citation before the approval.
CitableEarly(x, i) ==
  /\ Live(i)
  /\ \/ note[i].author = x
     \/ CanApprove(x) /\ note[i].status \in Status
     \/ x \in note[i].body.mentions
     \/ note[i].status = "APPROVED" /\ x \in note[i].body.recipients

\* buildVisibleNotesWhere: what searchCitable chooses from.  (Of what matches, it
\* answers the twelve changed last.)
Citable(x, i) ==
  /\ Live(i)
  /\ \/ note[i].author = x
     \/ CanApprove(x) /\ note[i].status \in Status
     \/ note[i].status = "APPROVED" /\ x \in note[i].body.mentions
     \/ note[i].status = "APPROVED" /\ x \in note[i].body.recipients

Scopes == { "mine", "mentions", "received", "pending", "approved", "rejected", "all", "default" }

MayList(x, scope) ==
  scope \in {"pending", "approved", "rejected", "all"} => CanApprove(x)

\* list, by buildListWhere
Listed(x, i, scope) ==
  /\ MayList(x, scope)
  /\ Live(i)
  /\ LET mine      == note[i].author = x
         mentions  == note[i].status = "APPROVED" /\ x \in note[i].body.mentions
         received  == note[i].status = "APPROVED" /\ x \in note[i].body.recipients
     IN CASE scope = "mine"     -> mine
          [] scope = "mentions" -> mentions
          [] scope = "received" -> received
          [] scope = "pending"  -> note[i].status = "PENDING"
          [] scope = "approved" -> note[i].status = "APPROVED"
          [] scope = "rejected" -> note[i].status = "REJECTED"
          [] scope = "all"      -> TRUE
          [] OTHER              -> mine \/ mentions \/ received

----------------------------------------------------------------------------
Init ==
  /\ NotificationsInit
  /\ note = [i \in NoteIds |-> Absent]
  /\ subNotes = {}
  /\ pc = [c \in Calls |-> "idle"]
  /\ args = [c \in Calls |-> NoRequest]

Goto(c, to) == pc' = [pc EXCEPT ![c] = to]

\* Bound: the table has room for what `create' is about to insert.
RoomToFile ==
  Cardinality({ c \in Calls : args[c].op = "create" /\ pc[c] # "refused" })
    < Cardinality(NoteIds)

\* JwtStrategy.validate reads the caller, PermissionsGuard checks the route.
Start(c, a) ==
  /\ pc[c] = "idle"
  /\ a.op \in Offered
  /\ a.op = "create" => RoomToFile
  /\ Cardinality(InFlight) < MaxInFlight
  /\ a.user \in active
  /\ Required[a.op] \subseteq PermsOf[a.user]
  /\ Goto(c, "started")
  /\ args' = [args EXCEPT ![c] = a]
  /\ UNCHANGED <<active, notifyVars, note, subNotes>>

\* create: nobody addresses himself, and everybody addressed is active.
AddresseesOK(a) ==
  LET to == a.body.mentions \cup a.body.recipients
  IN a.user \notin to /\ to \subseteq active

CheckAddressees(c) ==
  /\ pc[c] = "started"
  /\ args[c].op = "create"
  /\ Goto(c, IF AddresseesOK(args[c]) THEN "addressed" ELSE "refused")
  /\ UNCHANGED <<active, notifyVars, note, subNotes, args>>

\* Mutant: any note may be cited.
CitationsExist(a) == \A i \in a.body.cites : Live(i)

\* create: every cited note exists and may be referenced by the author.
CitationsOK(a) == \A i \in a.body.cites : Live(i) /\ MayReference(a.user, i)

CheckCitations(c) ==
  /\ pc[c] = "addressed"
  /\ Goto(c, IF CitationsOK(args[c]) THEN "loaded" ELSE "refused")
  /\ UNCHANGED <<active, notifyVars, note, subNotes, args>>

\* Mutant: any status may be reviewed.
AcceptsAny(a) ==
  /\ Live(a.ref)
  /\ a.op = "addSubNote" => CanApprove(a.user) \/ note[a.ref].author = a.user

\* The read and the checks of the other handlers, one synchronous block.
Accepts(a) ==
  /\ Live(a.ref)
  /\ a.op \in {"approve", "reject"} => note[a.ref].status = "PENDING"
  /\ a.op = "addSubNote" => CanApprove(a.user) \/ note[a.ref].author = a.user

LoadNote(c) ==
  /\ pc[c] = "started"
  /\ args[c].op # "create"
  /\ IF Accepts(args[c])
       THEN /\ Goto(c, "loaded")
            /\ args' = [args EXCEPT ![c].seen = note[args[c].ref].status]
       ELSE Goto(c, "refused") /\ UNCHANGED args
  /\ UNCHANGED <<active, notifyVars, note, subNotes>>

----------------------------------------------------------------------------
(* The writes.  `i' is the note's id, taken from the row read earlier.     *)

Writing(c, op) == pc[c] = "loaded" /\ args[c].op = op

Notify(c, jobs) ==
  /\ Goto(c, "notifying")
  /\ work' = [work EXCEPT ![c] = jobs]
  /\ UNCHANGED <<active, notifications, pushed, emails>>

\* The payloads of dispatchApprovedNoteNotifications for the note's readers.
ReaderRows(c, i, b) ==
  Rows(c, b.mentions, "NOTE_MENTION", i, "createMany")
    \cup Rows(c, b.recipients \ b.mentions, "NOTE_RECEIVED", i, "createMany")

\* `await' only if there is a payload.
CreateManyIfAny(rows) == IF rows = {} THEN <<>> ELSE << CreateMany(rows) >>

\* Mutant: the author is not connected.
FiledAnonymously(a) ==
  [Absent EXCEPT !.status = IF SkipsApproval(a.user) THEN "APPROVED" ELSE "PENDING",
                 !.body = a.body]

Filed(a) ==
  [Absent EXCEPT !.status = IF SkipsApproval(a.user) THEN "APPROVED" ELSE "PENDING",
                 !.author = a.user, !.body = a.body]

InsertNote(c) == LET a == args[c] IN
  /\ Writing(c, "create")
  /\ \E i \in NoteIds :
       /\ ~Exists(i)                                \* a fresh cuid
       /\ note' = [note EXCEPT ![i] = Filed(a)]
       /\ args' = [args EXCEPT ![c].ref = i, ![c].updated = DecisionIn(Filed(a))]
       /\ Notify(c, << EmitNoteSync(c, {a.user}, "SYNC_MINE", i) >> \o
            IF SkipsApproval(a.user)
              THEN CreateManyIfAny(ReaderRows(c, i, a.body))
              ELSE << NotifyUsersWithPermission(c, "NOTE_APPROVE_REJECT", "NOTE_PENDING",
                                                i, {a.user}) >>)
  /\ UNCHANGED subNotes

\* Mutant: the author is told, the readers are not.
ApprovalRowsAuthorOnly(c, i) ==
  Rows(c, {note[i].author}, "NOTE_APPROVED", i, "createMany")

\* dispatchApprovedNoteNotifications(updated, { notifyAuthorApproved: true })
ApprovalRows(c, i) ==
  ReaderRows(c, i, note[i].body) \cup Rows(c, {note[i].author}, "NOTE_APPROVED", i, "createMany")

\* Mutant: the row is written only if it is still pending, the users told anyway.
ReviewedIfPending(now, to, x) ==
  IF now.status = "PENDING" THEN [now EXCEPT !.status = to, !.reviewedBy = x] ELSE now

Reviewed(now, to, x) == [now EXCEPT !.status = to, !.reviewedBy = x]

\* The write of a review, by id, and the row it returns.
WriteReview(c, to) == LET row == Reviewed(note[args[c].ref], to, args[c].user) IN
  /\ note' = [note EXCEPT ![args[c].ref] = row]
  /\ args' = [args EXCEPT ![c].updated = DecisionIn(row)]

ApproveNote(c) == LET i == args[c].ref IN
  /\ Writing(c, "approve")
  /\ WriteReview(c, "APPROVED")
  /\ Notify(c, << CreateMany(ApprovalRows(c, i)),
                  BroadcastNoteSync(c, "NOTE_APPROVE_REJECT", "SYNC_APPROVED", i) >>)
  /\ UNCHANGED subNotes

\* Mutant: the reason is filed as a plain comment.
ReasonAsComment(c) ==
  [ by |-> c, note |-> args[c].ref, author |-> args[c].user, type |-> "COMMENT" ]

Reason(c) ==
  [ by |-> c, note |-> args[c].ref, author |-> args[c].user, type |-> "REJECTION_REASON" ]

\* The status and the reason in one transaction.
RejectNote(c) == LET i == args[c].ref IN
  /\ Writing(c, "reject")
  /\ WriteReview(c, "REJECTED")
  /\ subNotes' = subNotes \cup { Reason(c) }
  /\ Notify(c, << CreateMany(Rows(c, {note[i].author}, "NOTE_REJECTED", i, "createMany")),
                  BroadcastNoteSync(c, "NOTE_APPROVE_REJECT", "SYNC_REJECTED", i) >>)

InsertSubNote(c) ==
  /\ Writing(c, "addSubNote")
  /\ subNotes' = subNotes \cup { [ by |-> c, note |-> args[c].ref, author |-> args[c].user,
                                   type |-> "COMMENT" ] }
  /\ Goto(c, "done")
  /\ UNCHANGED <<active, notifyVars, note, args>>

\* noteListScopesForSync: the lists to leave follow from the status read before.
DropSync(status) ==
  CASE status = "PENDING"  -> "SYNC_DROP_PENDING"
    [] status = "APPROVED" -> "SYNC_DROP_APPROVED"
    [] status = "REJECTED" -> "SYNC_DROP_REJECTED"

DeleteNote(c) ==
  LET i == args[c].ref
      drop == DropSync(args[c].seen)
      readers == (note[i].body.mentions \cup note[i].body.recipients) \ {note[i].author}
  IN
  /\ Writing(c, "softDelete")
  /\ note' = [note EXCEPT ![i].deleted = TRUE]
  /\ Notify(c, << EmitNoteSync(c, {note[i].author}, drop, i),
                  BroadcastNoteSync(c, "NOTE_APPROVE_REJECT", drop, i),
                  EmitNoteSync(c, readers, drop, i) >>)
  /\ UNCHANGED <<subNotes, args>>

----------------------------------------------------------------------------
Deliver(c) ==
  /\ pc[c] = "notifying"
  /\ NotifyStep(c)
  /\ UNCHANGED <<note, subNotes, pc, args>>

Respond(c) ==
  /\ pc[c] = "notifying"
  /\ work[c] = <<>>
  /\ Goto(c, "done")
  /\ UNCHANGED <<active, notifyVars, note, subNotes, args>>

\* A query raises, or the instance dies.
Fail(c) ==
  /\ pc[c] \in Running
  /\ Cardinality({ k \in Calls : pc[k] = "failed" }) < MaxFailed
  /\ Goto(c, "failed")
  /\ work' = [work EXCEPT ![c] = <<>>]
  /\ UNCHANGED <<active, notifications, pushed, emails, note, subNotes, args>>

ToggleUser(x) ==
  /\ Deactivate(x) \/ Reactivate(x)
  /\ UNCHANGED <<note, subNotes, pc, args>>

Step(c) ==
  \/ CheckAddressees(c)
  \/ CheckCitations(c)
  \/ LoadNote(c)
  \/ InsertNote(c)
  \/ ApproveNote(c)
  \/ RejectNote(c)
  \/ InsertSubNote(c)
  \/ DeleteNote(c)
  \/ Deliver(c)
  \/ Respond(c)

Next ==
  \/ \E c \in Calls, a \in Request : Start(c, a)
  \/ \E c \in Calls : Step(c) \/ Fail(c)
  \/ \E x \in Users : ToggleUser(x)

Spec == Init /\ [][Next]_vars

\* As in SystemUpdates: a handler that is running goes on, nothing else must.
Fairness == \A c \in Calls : WF_vars(Step(c))

FairSpec == Spec /\ Fairness

----------------------------------------------------------------------------
(* Properties.                                                             *)

TypeOK ==
  /\ NotificationsTypeOK
  /\ note \in [NoteIds -> Row \cup {Absent}]
  /\ subNotes \subseteq SubNote
  /\ pc \in [Calls -> Running \cup {"idle", "done", "refused", "failed"}]
  /\ args \in [Calls -> [ op : Op \cup {"none"}, user : Users \cup {None},
                          ref : NoteIds \cup {None}, body : Bodies \cup {NoBody},
                          seen : Status \cup {"none"},
                          updated : Decision \cup {NoDecision} ]]

\* A note that reads REJECTED carries a REJECTION_REASON sub-note by the very
\* approver the row records, even when an approval and a rejection overlap.
RejectionHasReason ==
  \A i \in NoteIds :
    note[i].status = "REJECTED" =>
      \E k \in subNotes : /\ k.note = i /\ k.author = note[i].reviewedBy
                          /\ k.type = "REJECTION_REASON"

\* What must be on record for a notification to say what it says: its call has
\* committed the row it speaks of, with this status and this reviewer, whether
\* or not an overlapping review has written the row since.
OnRecord(n) ==
  LET row == note[n.ref]
      caller == args[n.by]
      Committed(status, x) == caller.updated = [ status |-> status, reviewedBy |-> x ]
      Published == \/ Committed("APPROVED", caller.user)
                   \/ Committed("APPROVED", None) /\ SkipsApproval(row.author)
  IN /\ Exists(n.ref)
     /\ caller.ref = n.ref
     /\ CASE n.type = "NOTE_PENDING"  -> n.user # row.author /\ CanApprove(n.user)
                                         /\ Committed("PENDING", None)
          [] n.type = "NOTE_MENTION"  -> n.user \in row.body.mentions /\ Published
          [] n.type = "NOTE_RECEIVED" -> n.user \in row.body.recipients \ row.body.mentions
                                         /\ Published
          [] n.type = "NOTE_APPROVED" -> n.user = row.author /\ Committed("APPROVED", caller.user)
          [] n.type = "NOTE_REJECTED" -> n.user = row.author /\ Committed("REJECTED", caller.user)
                                         /\ \E k \in subNotes : k.by = n.by /\ k.note = n.ref
          [] OTHER                    -> n.type \in SyncType

\* Nobody hears of a note but its author, its approvers and, once the call that
\* tells them has itself committed the approval (or the author needs none), its
\* readers; and a reader hears of it as mentioned or as recipient, never as both
\* (dispatchApprovedNoteNotifications filters).
NoticesOnRecord ==
  /\ \A n \in notifications : OnRecord(n)
  /\ \A c \in Calls : \A n \in InHand(c) : OnRecord(n)

\* The three places that decide who sees a note agree: what the editor offers
\* for citation is what byId shows and what `create' accepts as a citation, and
\* no list shows a note that byId would refuse.
VisibilityAgrees ==
  \A x \in Users, i \in NoteIds :
    /\ Citable(x, i) <=> MayRead(x, i)
    /\ \A scope \in Scopes : Listed(x, i, scope) => MayRead(x, i)
    /\ Citable(x, i) /\ ~Addressed(x, i) => \E scope \in Scopes : Listed(x, i, scope)

\* Calls that have read a note and may still write it.
Loaded(i) == { c \in Calls : pc[c] = "loaded" /\ args[c].ref = i }

\* A deleted note no longer changes once the calls that had read it before are
\* through, and gets no further sub-notes.
DeletedIsFrozen ==
  [][\A i \in NoteIds :
       note[i].deleted =>
         /\ note'[i].deleted
         /\ Loaded(i) = {} =>
              /\ note'[i] = note[i] /\ Loaded(i)' = {}
              /\ \A k \in subNotes' \ subNotes : k.note # i]_vars

\* An approval reaches the socket rooms of everyone the note addresses and of
\* its author, unless the call fails on the way.
ReadersLearn ==
  \A c \in Calls, i \in NoteIds :
    pc[c] = "notifying" /\ args[c].op = "approve" /\ args[c].ref = i ~>
      \/ pc[c] = "failed"
      \/ \A x \in note[i].body.mentions \cup note[i].body.recipients \cup {note[i].author} :
           \E n \in pushed : n.by = c /\ n.user = x /\ n.via = "createMany"

Lifecycle == INSTANCE NoteLifecycle WITH
  status <- [i \in NoteIds |-> note[i].status],
  deleted <- { i \in NoteIds : note[i].deleted },
  told <- { [note |-> n.ref, user |-> n.user] :
              n \in { m \in notifications : m.type \in {"NOTE_MENTION", "NOTE_RECEIVED"} } }
=============================================================================
