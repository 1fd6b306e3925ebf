----------------------------- MODULE NotesProofs -----------------------------
(***************************************************************************)
(* Notes, who hears of them and who sees them, for any users, permissions, *)
(* notes and overlapping calls.                                            *)
(***************************************************************************)
EXTENDS BoundedNotes, NotificationsProofs, FiniteSetTheorems

Asked == [ op : Op \cup {"none"}, user : Users \cup {None}, ref : NoteIds \cup {None},
           body : Bodies \cup {NoBody}, seen : Status \cup {"none"},
           updated : Decision \cup {NoDecision} ]

Places == Running \cup {"idle", "done", "refused", "failed"}

\* A handler that has written answers for the notifications it has made.
Settled == { "notifying", "done", "failed" }

\* What a call that is being handled may rely on: the note it has read is there,
\* for no row is ever removed, and only a handler that notifies has jobs.
Knows(c) ==
  /\ pc[c] \in Running => args[c].user \in Users
  /\ pc[c] \in {"addressed", "loaded"} /\ args[c].op # "create" =>
       args[c].ref \in NoteIds /\ Exists(args[c].ref) /\ args[c].seen \in Status
  /\ pc[c] = "started" => args[c].op = "create" \/ args[c].ref \in NoteIds
  /\ pc[c] = "addressed" => args[c].op = "create"
  /\ pc[c] \in {"started", "addressed", "loaded"} /\ args[c].op = "create" =>
       args[c].ref = None
  /\ work[c] # <<>> => pc[c] = "notifying"

CallsKnow == \A c \in Calls : Knows(c)

\* Whose notifications there are.
NoticesOwned ==
  /\ \A n \in notifications : pc[n.by] \in Settled
  /\ \A c \in Calls : \A n \in InHand(c) : n.by = c

IInv == TypeOK /\ CallsKnow /\ RejectionHasReason /\ NoticesOwned /\ NoticesOnRecord

\* What a step adds to and never takes back: notes with their author and body,
\* sub-notes, and what a call that has written was asked.
Grows ==
  /\ \A i \in NoteIds : Exists(i) =>
       /\ Exists(i)'
       /\ note'[i].author = note[i].author /\ note'[i].body = note[i].body
  /\ subNotes \subseteq subNotes'
  /\ \A c \in Calls : pc[c] \in Settled => pc'[c] \in Settled /\ args'[c] = args[c]

----------------------------------------------------------------------------
(* Requests, rows and jobs.                                                *)

LEMMA RequestTyped ==
  ASSUME NEW a \in Request
  PROVE  /\ a \in Asked /\ a.user \in Users
         /\ IF a.op = "create" THEN a.ref = None ELSE a.ref \in NoteIds
BY DEF Request, Asked, Op

\* A row that is there is one of the table's, and an absent one is not.
LEMMA RowsTyped ==
  ASSUME TypeOK
  PROVE  \A i \in NoteIds : Exists(i) <=> note[i] \in Row
BY DEF TypeOK, Exists, Row, Absent, Status

\* The rows a call makes for users of the system are rows of the table.
LEMMA RowsAreNotices ==
  ASSUME NEW c \in Calls, NEW to, to \subseteq Users, NEW type \in NotificationType \cup SyncType,
         NEW i \in NoteIds, NEW via \in Via
  PROVE  /\ Rows(c, to, type, i, via) \subseteq Notice
         /\ \A n \in Rows(c, to, type, i, via) :
              n.by = c /\ n.user \in to /\ n.ref = i /\ n.type = type /\ n.via = via
BY DEF Rows, Notice, NoteIds

\* A sequence of good jobs.
LEMMA GoodJobs ==
  ASSUME NEW Good, Good \subseteq Job, NEW jobs \in Seq(Good)
  PROVE  jobs \in Seq(Job) /\ \A i \in DOMAIN jobs : jobs[i] \in Good
OBVIOUS

\* What is on record stays on record.
LEMMA OnRecordStays ==
  ASSUME TypeOK, Grows, NEW n \in Notice, OnRecord(n), pc[n.by] \in Settled
  PROVE  OnRecord(n)' /\ pc'[n.by] \in Settled
<1>1. n.ref \in NoteIds /\ n.by \in Calls /\ Exists(n.ref)
  BY DEF Notice, NoteIds, OnRecord
<1>2. /\ Exists(n.ref)' /\ note'[n.ref].author = note[n.ref].author
      /\ note'[n.ref].body = note[n.ref].body
      /\ subNotes \subseteq subNotes'
      /\ args'[n.by] = args[n.by] /\ pc'[n.by] \in Settled
  BY <1>1 DEF Grows
<1>3. Exists(n.ref)'
  BY <1>2
<1> QED BY <1>2, <1>3 DEF OnRecord

\* Rows staying, a call that does not move knows what it knew.
LEMMA KnowledgeKept ==
  ASSUME Grows, NEW k \in Calls, Knows(k),
         pc'[k] = pc[k], args'[k] = args[k], work'[k] = work[k]
  PROVE  Knows(k)'
BY DEF Knows, Grows

\* The notifications already made, and those in the hands of calls that take in
\* no new ones, stay on record.
LEMMA NoticesStay ==
  ASSUME IInv, Grows,
         \A n \in notifications' : n \in notifications \/ \E c \in Calls : n \in InHand(c),
         NEW c \in Calls, \A k \in Calls \ {c} : InHand(k)' \subseteq InHand(k)
  PROVE  /\ \A n \in notifications' : OnRecord(n)' /\ pc'[n.by] \in Settled
         /\ \A k \in Calls : \A n \in InHand(k) : n.by = k /\ OnRecord(n)'
<1>1. ASSUME NEW k \in Calls, NEW n \in InHand(k)
      PROVE  n \in Notice /\ n.by = k /\ OnRecord(n) /\ pc[n.by] \in Settled
  <2>1. PICK i \in DOMAIN work[k] : n \in work[k][i].rows
    BY <1>1 DEF InHand
  <2>2. work[k] \in Seq(Job)
    BY DEF IInv, TypeOK, NotificationsTypeOK
  <2>3. work[k] # <<>> /\ work[k][i] \in Job
    BY <2>1, <2>2
  <2>4. pc[k] = "notifying"
    BY <2>3 DEF IInv, CallsKnow, Knows
  <2> QED BY <1>1, <2>1, <2>3, <2>4 DEF Job, IInv, NoticesOwned, NoticesOnRecord, Settled
<1>2. ASSUME NEW n \in notifications
      PROVE  n \in Notice /\ OnRecord(n) /\ pc[n.by] \in Settled
  BY <1>2 DEF IInv, TypeOK, NotificationsTypeOK, NoticesOwned, NoticesOnRecord
<1>3. \A n \in Notice : OnRecord(n) /\ pc[n.by] \in Settled =>
                          OnRecord(n)' /\ pc'[n.by] \in Settled
  BY OnRecordStays DEF IInv
<1> QED BY <1>1, <1>2, <1>3

\* A step of call c that leaves the tables and the queues alone.
LEMMA QuietStep ==
  ASSUME IInv, NEW c \in Calls, UNCHANGED <<note, subNotes, work, notifications, pushed, emails>>,
         active' \subseteq Users, pc' \in [Calls -> Places], args' \in [Calls -> Asked],
         \A k \in Calls \ {c} : pc'[k] = pc[k] /\ args'[k] = args[k],
         pc[c] \in Settled => pc'[c] \in Settled /\ args'[c] = args[c],
         Knows(c)'
  PROVE  IInv'
<1>1. TypeOK'
  BY DEF IInv, TypeOK, NotificationsTypeOK, Places, Asked
<1>2. Grows /\ RejectionHasReason'
  BY DEF IInv, Grows, RejectionHasReason, Exists
<1>3. CallsKnow'
  BY <1>2, KnowledgeKept DEF IInv, CallsKnow
<1>4. \A k \in Calls : InHand(k)' = InHand(k)
  BY DEF InHand
<1>5. NoticesOwned' /\ NoticesOnRecord'
  BY <1>2, <1>4, NoticesStay DEF NoticesOwned, NoticesOnRecord
<1> QED BY <1>1, <1>2, <1>3, <1>5 DEF IInv

\* A step of call c with a write after which it notifies.
LEMMA WritingStep ==
  ASSUME IInv, NEW c \in Calls, pc[c] = "loaded", NEW jobs, Notify(c, jobs),
         jobs \in Seq({ j \in Job : \A n \in j.rows : n.by = c /\ OnRecord(n)' }),
         note' \in [NoteIds -> Row \cup {Absent}], subNotes' \subseteq SubNote,
         args' \in [Calls -> Asked],
         \A k \in Calls \ {c} : args'[k] = args[k],
         args'[c].user = args[c].user,
         \A i \in NoteIds : Exists(i) =>
           /\ Exists(i)'
           /\ note'[i].author = note[i].author /\ note'[i].body = note[i].body,
         subNotes \subseteq subNotes', RejectionHasReason'
  PROVE  IInv'
<1> DEFINE Good == { j \in Job : \A n \in j.rows : n.by = c /\ OnRecord(n)' }
<1>1. /\ pc' = [pc EXCEPT ![c] = "notifying"] /\ work' = [work EXCEPT ![c] = jobs]
      /\ UNCHANGED <<active, notifications, pushed, emails>>
  BY DEF Notify, Goto
<1>2. jobs \in Seq(Job) /\ \A i \in DOMAIN jobs : jobs[i] \in Good
  BY GoodJobs
<1>3. TypeOK'
  BY <1>1, <1>2 DEF IInv, TypeOK, NotificationsTypeOK, Places, Asked, Running
<1>4. /\ pc'[c] = "notifying" /\ work'[c] = jobs
      /\ \A k \in Calls \ {c} : pc'[k] = pc[k] /\ work'[k] = work[k]
  BY <1>1 DEF IInv, TypeOK, NotificationsTypeOK
<1>5. Grows
  BY <1>4 DEF Grows, Settled
<1>6. Knows(c)'
  BY <1>4 DEF IInv, CallsKnow, Knows, Running
<1>7. CallsKnow'
  BY <1>4, <1>5, <1>6, KnowledgeKept DEF IInv, CallsKnow
<1>8. \A k \in Calls \ {c} : InHand(k)' = InHand(k)
  BY <1>4 DEF InHand
<1>9. \A n \in InHand(c)' : n.by = c /\ OnRecord(n)'
  BY <1>2, <1>4 DEF InHand
<1>10. /\ \A n \in notifications' : OnRecord(n)' /\ pc'[n.by] \in Settled
       /\ \A k \in Calls \ {c} : \A n \in InHand(k)' : n.by = k /\ OnRecord(n)'
  BY <1>1, <1>5, <1>8, NoticesStay
<1>11. NoticesOwned' /\ NoticesOnRecord'
  BY <1>9, <1>10 DEF NoticesOwned, NoticesOnRecord
<1> QED BY <1>3, <1>7, <1>11 DEF IInv

----------------------------------------------------------------------------
(* The steps that read.                                                    *)

LEMMA StartKeeps ==
  ASSUME IInv, NEW c \in Calls, NEW a \in Request, Start(c, a)
  PROVE  IInv'
<1>1. /\ pc[c] = "idle" /\ pc' = [pc EXCEPT ![c] = "started"] /\ args' = [args EXCEPT ![c] = a]
      /\ UNCHANGED <<active, work, notifications, pushed, emails, note, subNotes>>
  BY DEF Start, Goto, notifyVars
<1>2. /\ pc' \in [Calls -> Places] /\ args' \in [Calls -> Asked]
      /\ \A k \in Calls \ {c} : pc'[k] = pc[k] /\ args'[k] = args[k]
      /\ pc'[c] = "started" /\ args'[c] = a
  BY <1>1, RequestTyped DEF IInv, TypeOK, Places, Asked, Running
<1>3. Knows(c)'
  BY <1>1, <1>2, RequestTyped DEF IInv, CallsKnow, Knows
<1> QED BY <1>1, <1>2, <1>3, QuietStep DEF IInv, TypeOK, NotificationsTypeOK, Settled

\* The two lookups of create.
LEMMA CheckKeeps ==
  ASSUME IInv, NEW c \in Calls, CheckAddressees(c) \/ CheckCitations(c)
  PROVE  IInv'
<1>1. PICK to \in {"addressed", "loaded", "refused"} : pc' = [pc EXCEPT ![c] = to]
  BY DEF CheckAddressees, CheckCitations, Goto
<1>2. /\ pc[c] \in {"started", "addressed"} /\ args[c].op = "create"
      /\ UNCHANGED <<active, work, notifications, pushed, emails, note, subNotes, args>>
  BY DEF CheckAddressees, CheckCitations, notifyVars, IInv, CallsKnow, Knows
<1>3. /\ pc' \in [Calls -> Places] /\ pc'[c] = to
      /\ \A k \in Calls \ {c} : pc'[k] = pc[k]
  BY <1>1 DEF IInv, TypeOK, Places, Running
<1>4. Knows(c)'
  BY <1>2, <1>3 DEF IInv, CallsKnow, Knows, Running
<1> QED BY <1>2, <1>3, <1>4, QuietStep
        DEF IInv, TypeOK, NotificationsTypeOK, Settled, Asked

LEMMA LoadNoteKeeps ==
  ASSUME IInv, NEW c \in Calls, LoadNote(c)
  PROVE  IInv'
<1> DEFINE i == args[c].ref
<1>1. /\ pc[c] = "started" /\ args[c].op # "create" /\ args[c] \in Asked
      /\ i \in NoteIds /\ work[c] = <<>> /\ args[c].user \in Users
      /\ UNCHANGED <<active, work, notifications, pushed, emails, note, subNotes>>
  BY DEF LoadNote, notifyVars, IInv, CallsKnow, Knows, TypeOK, Asked, Running
<1>2. CASE Accepts(args[c])
  <2>1. /\ pc' = [pc EXCEPT ![c] = "loaded"]
        /\ args' = [args EXCEPT ![c].seen = note[i].status]
    BY <1>2 DEF LoadNote, Goto
  <2>2. Exists(i) /\ note[i].status \in Status
    BY <1>1, <1>2, RowsTyped DEF Accepts, Live, IInv, Row
  <2> DEFINE b == [args[c] EXCEPT !.seen = note[i].status]
  <2>3. /\ b \in Asked /\ b.user = args[c].user /\ b.op = args[c].op /\ b.ref = i
        /\ b.seen = note[i].status
    BY <1>1, <2>2 DEF Asked
  <2>4. args' = [args EXCEPT ![c] = b]
    BY <2>1
  <2> HIDE DEF b
  <2>5. /\ pc' \in [Calls -> Places] /\ args' \in [Calls -> Asked]
        /\ \A k \in Calls \ {c} : pc'[k] = pc[k] /\ args'[k] = args[k]
        /\ pc'[c] = "loaded" /\ args'[c] = b
    BY <2>1, <2>3, <2>4 DEF IInv, TypeOK, Places, Asked, Running
  <2>6. Knows(c)'
    BY <1>1, <2>2, <2>3, <2>5 DEF Knows, Exists
  <2> QED BY <1>1, <2>5, <2>6, QuietStep DEF IInv, TypeOK, NotificationsTypeOK, Settled
<1>3. CASE ~Accepts(args[c])
  <2>1. pc' = [pc EXCEPT ![c] = "refused"] /\ args' = args
    BY <1>3 DEF LoadNote, Goto
  <2>2. /\ pc' \in [Calls -> Places] /\ pc'[c] = "refused"
        /\ \A k \in Calls \ {c} : pc'[k] = pc[k]
    BY <2>1 DEF IInv, TypeOK, Places, Running
  <2>3. Knows(c)'
    BY <1>1, <2>1, <2>2 DEF Knows, Running
  <2> QED BY <1>1, <2>1, <2>2, <2>3, QuietStep
          DEF IInv, TypeOK, NotificationsTypeOK, Settled, Asked
<1> QED BY <1>2, <1>3

LEMMA RespondKeeps ==
  ASSUME IInv, NEW c \in Calls, Respond(c)
  PROVE  IInv'
<1>1. /\ pc' = [pc EXCEPT ![c] = "done"] /\ work[c] = <<>>
      /\ UNCHANGED <<active, work, notifications, pushed, emails, note, subNotes, args>>
  BY DEF Respond, Goto, notifyVars
<1>2. /\ pc' \in [Calls -> Places] /\ pc'[c] = "done"
      /\ \A k \in Calls \ {c} : pc'[k] = pc[k]
  BY <1>1 DEF IInv, TypeOK, Places, Running
<1>3. Knows(c)'
  BY <1>1, <1>2 DEF Knows, Running
<1> QED BY <1>1, <1>2, <1>3, QuietStep
        DEF IInv, TypeOK, NotificationsTypeOK, Settled, Asked

----------------------------------------------------------------------------
(* Delivery, failures and users switched on and off.                       *)

\* A step that leaves the tables alone, makes no new notifications and calls
\* no handler back.
LEMMA DeliveryKeeps ==
  ASSUME IInv, NEW c \in Calls, Deliver(c)
  PROVE  IInv'
<1>1. /\ NotificationsTypeOK'
      /\ notifications' \subseteq notifications \cup InHand(c)
      /\ \A k \in Calls \ {c} : work'[k] = work[k]
      /\ InHand(c)' \subseteq InHand(c)
  BY NotifyStepKeeps DEF Deliver, IInv, TypeOK
<1>2. pc[c] = "notifying" /\ UNCHANGED <<note, subNotes, pc, args>>
  BY DEF Deliver
<1>3. TypeOK' /\ Grows /\ RejectionHasReason'
  BY <1>1, <1>2 DEF IInv, TypeOK, Grows, RejectionHasReason, Exists
<1>4. \A k \in Calls \ {c} : Knows(k)'
  BY <1>1, <1>2, <1>3, KnowledgeKept DEF IInv, CallsKnow
<1>5. Knows(c)'
  BY <1>2 DEF IInv, CallsKnow, Knows, Exists, Running
<1>6. \A k \in Calls \ {c} : InHand(k)' = InHand(k)
  BY <1>1 DEF InHand
<1>7. NoticesOwned' /\ NoticesOnRecord'
  BY <1>1, <1>3, <1>6, NoticesStay DEF NoticesOwned, NoticesOnRecord
<1> QED BY <1>3, <1>4, <1>5, <1>7 DEF IInv, CallsKnow

LEMMA FailKeeps ==
  ASSUME IInv, NEW c \in Calls, Fail(c)
  PROVE  IInv'
<1>1. /\ pc' = [pc EXCEPT ![c] = "failed"] /\ work' = [work EXCEPT ![c] = <<>>]
      /\ UNCHANGED <<active, notifications, pushed, emails, note, subNotes, args>>
  BY DEF Fail, Goto
<1>2. /\ pc' \in [Calls -> Places] /\ pc'[c] = "failed" /\ work'[c] = <<>>
      /\ work' \in [Calls -> Seq(Job)]
      /\ \A k \in Calls \ {c} : pc'[k] = pc[k] /\ work'[k] = work[k]
  BY <1>1 DEF IInv, TypeOK, NotificationsTypeOK, Places, Running
<1>3. TypeOK' /\ RejectionHasReason' /\ Grows
  BY <1>1, <1>2
     DEF IInv, TypeOK, NotificationsTypeOK, Places, RejectionHasReason, Grows, Exists, Settled
<1>4. CallsKnow'
  <2>1. Knows(c)'
    BY <1>2 DEF Knows, Running
  <2>2. \A k \in Calls \ {c} : Knows(k)'
    BY <1>1, <1>2, <1>3, KnowledgeKept DEF IInv, CallsKnow
  <2> QED BY <2>1, <2>2 DEF CallsKnow
<1>5. InHand(c)' = {} /\ \A k \in Calls \ {c} : InHand(k)' = InHand(k)
  BY <1>2 DEF InHand
<1>6. NoticesOwned' /\ NoticesOnRecord'
  BY <1>1, <1>3, <1>5, NoticesStay DEF NoticesOwned, NoticesOnRecord
<1> QED BY <1>3, <1>4, <1>6 DEF IInv

\* A step that leaves all but the switched-on users as they are.
LEMMA IdleKeeps ==
  ASSUME IInv, active' \subseteq Users,
         UNCHANGED <<note, subNotes, pc, args, work, notifications, pushed, emails>>
  PROVE  IInv'
<1>1. TypeOK' /\ Grows /\ RejectionHasReason'
  BY DEF IInv, TypeOK, NotificationsTypeOK, Grows, RejectionHasReason, Exists
<1>2. CallsKnow'
  BY <1>1, KnowledgeKept DEF IInv, CallsKnow
<1>3. \A k \in Calls : InHand(k)' = InHand(k)
  BY DEF InHand
<1>4. \A n \in notifications : OnRecord(n)'
  BY DEF IInv, NoticesOnRecord, OnRecord, Exists
<1>5. \A k \in Calls : \A n \in InHand(k) : OnRecord(n)'
  BY DEF IInv, NoticesOnRecord, OnRecord, Exists
<1>6. NoticesOwned' /\ NoticesOnRecord'
  BY <1>3, <1>4, <1>5 DEF IInv, NoticesOwned, NoticesOnRecord
<1> QED BY <1>1, <1>2, <1>6 DEF IInv

----------------------------------------------------------------------------
(* The steps that write.                                                   *)

\* What a handler that is about to write a note it has read may rely on.
LEMMA WriterKnows ==
  ASSUME IInv, NEW c \in Calls, NEW op \in Op \ {"create"}, Writing(c, op)
  PROVE  /\ pc[c] = "loaded" /\ args[c].op = op /\ args[c] \in Asked /\ args[c].user \in Users
         /\ args[c].ref \in NoteIds /\ Exists(args[c].ref) /\ note[args[c].ref] \in Row
         /\ args[c].seen \in Status
BY RowsTyped DEF IInv, CallsKnow, Knows, Writing, Running, TypeOK, Asked

LEMMA InsertSubNoteKeeps ==
  ASSUME IInv, NEW c \in Calls, InsertSubNote(c)
  PROVE  IInv'
<1> DEFINE k == [ by |-> c, note |-> args[c].ref, author |-> args[c].user, type |-> "COMMENT" ]
<1>1. pc[c] = "loaded" /\ args[c].user \in Users /\ args[c].ref \in NoteIds
  BY WriterKnows DEF InsertSubNote, Op, Writing
<1>2. /\ subNotes' = subNotes \cup {k} /\ pc' = [pc EXCEPT ![c] = "done"]
      /\ UNCHANGED <<active, work, notifications, pushed, emails, note, args>>
  BY DEF InsertSubNote, Goto, notifyVars
<1>3. k \in SubNote
  BY <1>1 DEF SubNote
<1> HIDE DEF k
<1>4. /\ pc' \in [Calls -> Places] /\ pc'[c] = "done"
      /\ \A j \in Calls \ {c} : pc'[j] = pc[j]
  BY <1>2 DEF IInv, TypeOK, Places, Running
<1>5. TypeOK' /\ Grows
  BY <1>1, <1>2, <1>3, <1>4
     DEF IInv, TypeOK, NotificationsTypeOK, Places, Grows, Exists, Settled
<1>6. RejectionHasReason'
  BY <1>2 DEF IInv, RejectionHasReason
<1>7. CallsKnow'
  <2>1. Knows(c)'
    BY <1>1, <1>2, <1>4 DEF IInv, CallsKnow, Knows, Running
  <2>2. \A j \in Calls \ {c} : Knows(j)'
    BY <1>2, <1>4, <1>5, KnowledgeKept DEF IInv, CallsKnow
  <2> QED BY <2>1, <2>2 DEF CallsKnow
<1>8. \A j \in Calls : InHand(j)' = InHand(j)
  BY <1>2 DEF InHand
<1>9. NoticesOwned' /\ NoticesOnRecord'
  BY <1>2, <1>5, <1>8, NoticesStay DEF NoticesOwned, NoticesOnRecord
<1> QED BY <1>5, <1>6, <1>7, <1>9 DEF IInv

\* A write to a note that is there, by a call that then notifies.
LEMMA NoteWritten ==
  ASSUME IInv, NEW c \in Calls, NEW op \in Op \ {"create"}, Writing(c, op),
         NEW row \in Row, note' = [note EXCEPT ![args[c].ref] = row],
         row.author = note[args[c].ref].author, row.body = note[args[c].ref].body,
         subNotes \subseteq subNotes', subNotes' \subseteq SubNote,
         args' \in [Calls -> Asked], args'[c].user = args[c].user,
         \A k \in Calls \ {c} : args'[k] = args[k],
         row.status = "REJECTED" =>
           \E k \in subNotes' : /\ k.note = args[c].ref /\ k.author = row.reviewedBy
                                /\ k.type = "REJECTION_REASON",
         NEW jobs, Notify(c, jobs),
         jobs \in Seq({ j \in Job : \A n \in j.rows : n.by = c /\ OnRecord(n)' })
  PROVE  IInv'
<1> DEFINE i == args[c].ref
<1>1. pc[c] = "loaded" /\ i \in NoteIds /\ Exists(i)
  BY WriterKnows
<1>2. /\ note' \in [NoteIds -> Row \cup {Absent}] /\ note'[i] = row
      /\ \A j \in NoteIds \ {i} : note'[j] = note[j]
  BY <1>1 DEF IInv, TypeOK
<1>3. row.status # "ABSENT"
  BY DEF Row, Status
<1>4. \A j \in NoteIds : Exists(j) =>
        /\ Exists(j)'
        /\ note'[j].author = note[j].author /\ note'[j].body = note[j].body
  BY <1>1, <1>2, <1>3 DEF Exists
<1>5. RejectionHasReason'
  BY <1>1, <1>2 DEF IInv, RejectionHasReason
<1> QED BY <1>1, <1>2, <1>4, <1>5, WritingStep

\* What a review commits and returns.
LEMMA ReviewWritten ==
  ASSUME IInv, NEW c \in Calls, NEW op \in Op \ {"create"}, Writing(c, op),
         NEW to \in Status, WriteReview(c, to)
  PROVE  LET i == args[c].ref
             row == Reviewed(note[i], to, args[c].user)
         IN /\ note' = [note EXCEPT ![i] = row] /\ note'[i] = row /\ row \in Row
            /\ row.status = to /\ row.reviewedBy = args[c].user
            /\ row.author = note[i].author /\ row.body = note[i].body
            /\ row.deleted = note[i].deleted
            /\ args' \in [Calls -> Asked] /\ \A k \in Calls \ {c} : args'[k] = args[k]
            /\ args'[c].user = args[c].user /\ args'[c].ref = i /\ args'[c].op = args[c].op
            /\ args'[c].updated = [ status |-> to, reviewedBy |-> args[c].user ]
<1> DEFINE i == args[c].ref
           row == Reviewed(note[i], to, args[c].user)
           b == [args[c] EXCEPT !.updated = DecisionIn(row)]
<1>1. /\ i \in NoteIds /\ note[i] \in Row /\ args[c] \in Asked /\ args[c].user \in Users
      /\ note \in [NoteIds -> Row \cup {Absent}] /\ args \in [Calls -> Asked]
  BY WriterKnows DEF IInv, TypeOK, Asked
<1>2. /\ row \in Row /\ row.status = to /\ row.reviewedBy = args[c].user
      /\ row.author = note[i].author /\ row.body = note[i].body /\ row.deleted = note[i].deleted
  BY <1>1 DEF Reviewed, Row
<1>3. note' = [note EXCEPT ![i] = row] /\ args' = [args EXCEPT ![c] = b]
  BY <1>1 DEF WriteReview
<1> HIDE DEF row
<1>4. DecisionIn(row) = [ status |-> to, reviewedBy |-> args[c].user ] /\ DecisionIn(row) \in Decision
  BY <1>1, <1>2 DEF DecisionIn, Decision
<1>5. /\ b \in Asked /\ b.user = args[c].user /\ b.ref = i /\ b.op = args[c].op
      /\ b.updated = [ status |-> to, reviewedBy |-> args[c].user ]
  BY <1>1, <1>4 DEF Asked
<1> HIDE DEF b
<1>6. note'[i] = row /\ args' \in [Calls -> Asked] /\ args'[c] = b
      /\ \A k \in Calls \ {c} : args'[k] = args[k]
  BY <1>1, <1>3, <1>5
<1> QED BY <1>2, <1>3, <1>5, <1>6 DEF row

\* A job of rows that are on record afterwards.
LEMMA GoodJob ==
  ASSUME NEW c \in Calls, NEW stage \in Stage, NEW rows \in SUBSET Notice,
         \A n \in rows : n.by = c /\ OnRecord(n)'
  PROVE  [ stage |-> stage, rows |-> rows ]
           \in { j \in Job : \A n \in j.rows : n.by = c /\ OnRecord(n)' }
BY DEF Job

\* note:sync events say nothing that has to be on record but the note.
LEMMA SyncJob ==
  ASSUME NEW c \in Calls, NEW i \in NoteIds, note'[i].status # "ABSENT", args'[c].ref = i,
         NEW to, to \subseteq Users, NEW type \in SyncType, NEW stage \in {"broadcast", "emit"}
  PROVE  [ stage |-> stage, rows |-> Rows(c, to, type, i, "noteSync") ]
           \in { j \in Job : \A n \in j.rows : n.by = c /\ OnRecord(n)' }
<1> DEFINE rows == Rows(c, to, type, i, "noteSync")
<1>0. type \in NotificationType \cup SyncType /\ "noteSync" \in Via
  BY DEF Via
<1>1. /\ rows \subseteq Notice
      /\ \A n \in rows : n.by = c /\ n.ref = i /\ n.type = type
  BY <1>0, RowsAreNotices
<1> HIDE DEF rows
<1>2. ASSUME NEW n \in rows PROVE OnRecord(n)'
  <2>1. n.by = c /\ n.ref = i /\ n.type \in SyncType
    BY <1>1
  <2>2. n.type \notin {"NOTE_PENDING", "NOTE_MENTION", "NOTE_RECEIVED", "NOTE_APPROVED",
                      "NOTE_REJECTED"}
    BY <2>1 DEF SyncType
  <2> QED BY <2>1, <2>2 DEF OnRecord, Exists
<1>3. stage \in Stage
  BY DEF Stage
<1>4. [ stage |-> stage, rows |-> rows ]
        \in { j \in Job : \A n \in j.rows : n.by = c /\ OnRecord(n)' }
  BY <1>1, <1>2, <1>3, GoodJob
<1> QED BY <1>4 DEF rows

\* What must have been written for call c to tell user x about note i.
Commits(c, status, x) == args'[c].updated = [ status |-> status, reviewedBy |-> x ]

Publishes(c, i) ==
  \/ Commits(c, "APPROVED", args'[c].user)
  \/ Commits(c, "APPROVED", None) /\ SkipsApproval(note'[i].author)

Justified(c, i, type, x) ==
  LET row == note'[i]
  IN /\ type \in { "NOTE_PENDING", "NOTE_MENTION", "NOTE_RECEIVED", "NOTE_APPROVED",
                   "NOTE_REJECTED" }
     /\ type = "NOTE_PENDING"  => x # row.author /\ CanApprove(x) /\ Commits(c, "PENDING", None)
     /\ type = "NOTE_MENTION"  => x \in row.body.mentions /\ Publishes(c, i)
     /\ type = "NOTE_RECEIVED" => x \in row.body.recipients \ row.body.mentions /\ Publishes(c, i)
     /\ type = "NOTE_APPROVED" => x = row.author /\ Commits(c, "APPROVED", args'[c].user)
     /\ type = "NOTE_REJECTED" => /\ x = row.author /\ Commits(c, "REJECTED", args'[c].user)
                                  /\ \E k \in subNotes' : k.by = c /\ k.note = i

\* Rows of one kind that are on record afterwards.
LEMMA RowsOnRecord ==
  ASSUME NEW c \in Calls, NEW i \in NoteIds, note'[i].status # "ABSENT", args'[c].ref = i,
         NEW to, to \subseteq Users, NEW type \in NotificationType, NEW via \in Via,
         \A x \in to : Justified(c, i, type, x)
  PROVE  /\ Rows(c, to, type, i, via) \subseteq Notice
         /\ \A n \in Rows(c, to, type, i, via) : n.by = c /\ OnRecord(n)'
<1> DEFINE rows == Rows(c, to, type, i, via)
<1>1. /\ rows \subseteq Notice
      /\ \A n \in rows : n.by = c /\ n.user \in to /\ n.ref = i /\ n.type = type
  <2>1. type \in NotificationType \cup SyncType
    OBVIOUS
  <2> QED BY <2>1, RowsAreNotices
<1> HIDE DEF rows
<1>2. ASSUME NEW n \in rows PROVE OnRecord(n)'
  <2>1. n.by = c /\ n.user \in to /\ n.ref = i /\ n.type = type
    BY <1>1
  <2> QED BY <2>1 DEF OnRecord, Exists, Justified, Commits, Publishes
<1>3. rows \subseteq Notice /\ \A n \in rows : n.by = c /\ OnRecord(n)'
  BY <1>1, <1>2
<1> QED BY <1>3 DEF rows

\* dispatchApprovedNoteNotifications tells the readers of a published note.
LEMMA ReaderRowsOnRecord ==
  ASSUME NEW c \in Calls, NEW i \in NoteIds, note'[i].status # "ABSENT", args'[c].ref = i,
         NEW b, note'[i].body = b, b.mentions \subseteq Users, b.recipients \subseteq Users,
         Publishes(c, i)
  PROVE  /\ ReaderRows(c, i, b) \subseteq Notice
         /\ \A n \in ReaderRows(c, i, b) : n.by = c /\ OnRecord(n)'
<1> DEFINE mentions == Rows(c, b.mentions, "NOTE_MENTION", i, "createMany")
           rest == b.recipients \ b.mentions
           received == Rows(c, rest, "NOTE_RECEIVED", i, "createMany")
<1>1. /\ "NOTE_MENTION" \in NotificationType /\ "NOTE_RECEIVED" \in NotificationType
      /\ "createMany" \in Via /\ rest \subseteq Users
  BY DEF NotificationType, Via
<1>2. mentions \subseteq Notice /\ \A n \in mentions : n.by = c /\ OnRecord(n)'
  <2>1. \A x \in b.mentions : Justified(c, i, "NOTE_MENTION", x)
    BY DEF Justified
  <2> QED BY <1>1, <2>1, RowsOnRecord
<1>3. received \subseteq Notice /\ \A n \in received : n.by = c /\ OnRecord(n)'
  <2>1. \A x \in rest : Justified(c, i, "NOTE_RECEIVED", x)
    BY DEF Justified
  <2> HIDE DEF rest
  <2> QED BY <1>1, <2>1, RowsOnRecord
<1>4. ReaderRows(c, i, b) = mentions \cup received
  BY DEF ReaderRows
<1> HIDE DEF mentions, received
<1> QED BY <1>2, <1>3, <1>4

\* Two jobs, or three, in a row.
LEMMA JobsInARow ==
  ASSUME NEW Good, NEW j1 \in Good, NEW j2 \in Good, NEW j3 \in Good
  PROVE  /\ << j1 >> \in Seq(Good) /\ << j1, j2 >> \in Seq(Good) /\ << j1, j2, j3 >> \in Seq(Good)
OBVIOUS

LEMMA ApproveNoteKeeps ==
  ASSUME IInv, NEW c \in Calls, ApproveNote(c)
  PROVE  IInv'
<1> DEFINE i == args[c].ref
           row == Reviewed(note[i], "APPROVED", args[c].user)
           Good == { j \in Job : \A n \in j.rows : n.by = c /\ OnRecord(n)' }
           told == CreateMany(ApprovalRows(c, i))
           sync == BroadcastNoteSync(c, "NOTE_APPROVE_REJECT", "SYNC_APPROVED", i)
           jobs == << told, sync >>
<1>1. Writing(c, "approve") /\ "approve" \in Op \ {"create"}
  BY DEF ApproveNote, Op
<1>2. /\ args[c].op = "approve" /\ args[c].user \in Users
      /\ i \in NoteIds /\ note[i] \in Row
  BY <1>1, WriterKnows
<1>3. WriteReview(c, "APPROVED") /\ Notify(c, jobs) /\ UNCHANGED subNotes
  BY DEF ApproveNote
<1>4. /\ note' = [note EXCEPT ![i] = row] /\ row \in Row /\ row.status = "APPROVED"
      /\ row.author = note[i].author /\ row.body = note[i].body
      /\ args' \in [Calls -> Asked] /\ \A k \in Calls \ {c} : args'[k] = args[k]
      /\ args'[c].user = args[c].user /\ args'[c].ref = i
      /\ Commits(c, "APPROVED", args'[c].user)
  BY <1>1, <1>3, ReviewWritten DEF Status, Commits
<1>5. note'[i] = row
  BY <1>1, <1>3, ReviewWritten DEF Status
<1> HIDE DEF row
<1>6. /\ note[i].author \in Users
      /\ note[i].body.mentions \subseteq Users /\ note[i].body.recipients \subseteq Users
  BY <1>2 DEF Row, Body
<1>7. told \in Good
  <2> DEFINE readers == ReaderRows(c, i, note[i].body)
             author == Rows(c, {note[i].author}, "NOTE_APPROVED", i, "createMany")
  <2>1. readers \subseteq Notice /\ \A n \in readers : n.by = c /\ OnRecord(n)'
    BY <1>2, <1>3, <1>4, <1>5, <1>6, ReaderRowsOnRecord DEF Publishes
  <2>2. "NOTE_APPROVED" \in NotificationType /\ "createMany" \in Via
    BY DEF NotificationType, Via
  <2>3. author \subseteq Notice /\ \A n \in author : n.by = c /\ OnRecord(n)'
    <3>1. \A x \in {note[i].author} : Justified(c, i, "NOTE_APPROVED", x)
      BY <1>2, <1>3, <1>4, <1>5 DEF Justified
    <3>2. {note[i].author} \subseteq Users /\ note'[i].status # "ABSENT" /\ args'[c].ref = i
      BY <1>3, <1>4, <1>5, <1>6
    <3> QED BY <1>2, <2>2, <3>1, <3>2, RowsOnRecord
  <2>4. told = [ stage |-> "create", rows |-> readers \cup author ] /\ "create" \in Stage
    BY DEF CreateMany, ApprovalRows, Stage
  <2> HIDE DEF readers, author, told
  <2> QED BY <2>1, <2>3, <2>4, GoodJob
<1>8. sync \in Good
  <2>1. /\ Holders("NOTE_APPROVE_REJECT") \subseteq Users /\ "SYNC_APPROVED" \in SyncType
        /\ args'[c].ref = i /\ note'[i].status # "ABSENT"
    BY <1>3, <1>4, <1>5 DEF Holders, SyncType
  <2> QED BY <1>2, <2>1, SyncJob DEF BroadcastNoteSync
<1> HIDE DEF Good, told, sync
<1>9. jobs \in Seq(Good)
  BY <1>7, <1>8, JobsInARow
<1> HIDE DEF jobs
<1>10. subNotes' \subseteq SubNote
  BY <1>3 DEF IInv, TypeOK
<1> QED BY <1>1, <1>3, <1>4, <1>9, <1>10, NoteWritten DEF Good

\* The status, the reviewer and the reason are written in one transaction.
LEMMA RejectNoteKeeps ==
  ASSUME IInv, NEW c \in Calls, RejectNote(c)
  PROVE  IInv'
<1> DEFINE i == args[c].ref
           row == Reviewed(note[i], "REJECTED", args[c].user)
           reason == Reason(c)
           Good == { j \in Job : \A n \in j.rows : n.by = c /\ OnRecord(n)' }
           told == CreateMany(Rows(c, {note[i].author}, "NOTE_REJECTED", i, "createMany"))
           sync == BroadcastNoteSync(c, "NOTE_APPROVE_REJECT", "SYNC_REJECTED", i)
           jobs == << told, sync >>
<1>1. Writing(c, "reject") /\ "reject" \in Op \ {"create"}
  BY DEF RejectNote, Op
<1>2. /\ args[c].op = "reject" /\ args[c].user \in Users
      /\ i \in NoteIds /\ note[i] \in Row
  BY <1>1, WriterKnows
<1>3. WriteReview(c, "REJECTED") /\ Notify(c, jobs) /\ subNotes' = subNotes \cup {reason}
  BY DEF RejectNote
<1>4. /\ note' = [note EXCEPT ![i] = row] /\ row \in Row
      /\ row.status = "REJECTED" /\ row.reviewedBy = args[c].user
      /\ row.author = note[i].author /\ row.body = note[i].body
      /\ args' \in [Calls -> Asked] /\ \A k \in Calls \ {c} : args'[k] = args[k]
      /\ args'[c].user = args[c].user /\ args'[c].ref = i
      /\ Commits(c, "REJECTED", args'[c].user)
  BY <1>1, <1>3, ReviewWritten DEF Status, Commits
<1>5. /\ reason \in SubNote /\ reason.by = c /\ reason.note = i
      /\ reason.author = args[c].user /\ reason.type = "REJECTION_REASON"
  BY <1>2 DEF Reason, SubNote
<1>6. note'[i] = row
  BY <1>1, <1>3, ReviewWritten DEF Status
<1> HIDE DEF row, reason
<1>7. /\ {note[i].author} \subseteq Users /\ note'[i].status # "ABSENT" /\ args'[c].ref = i
  BY <1>2, <1>3, <1>4, <1>6 DEF Row
<1>8. told \in Good
  <2> DEFINE author == Rows(c, {note[i].author}, "NOTE_REJECTED", i, "createMany")
  <2>1. "NOTE_REJECTED" \in NotificationType /\ "createMany" \in Via /\ "create" \in Stage
    BY DEF NotificationType, Via, Stage
  <2>2. \A x \in {note[i].author} : Justified(c, i, "NOTE_REJECTED", x)
    BY <1>3, <1>4, <1>5, <1>6 DEF Justified
  <2>3. author \subseteq Notice /\ \A n \in author : n.by = c /\ OnRecord(n)'
    BY <1>2, <1>7, <2>1, <2>2, RowsOnRecord
  <2>4. told = [ stage |-> "create", rows |-> author ]
    BY DEF CreateMany
  <2> HIDE DEF author, told
  <2> QED BY <2>1, <2>3, <2>4, GoodJob
<1>9. sync \in Good
  <2>1. Holders("NOTE_APPROVE_REJECT") \subseteq Users /\ "SYNC_REJECTED" \in SyncType
    BY DEF Holders, SyncType
  <2> QED BY <1>2, <1>7, <2>1, SyncJob DEF BroadcastNoteSync
<1> HIDE DEF Good, told, sync
<1>10. jobs \in Seq(Good)
  BY <1>8, <1>9, JobsInARow
<1> HIDE DEF jobs
<1>11. subNotes' \subseteq SubNote /\ reason \in subNotes' /\ subNotes \subseteq subNotes'
  BY <1>3, <1>5 DEF IInv, TypeOK
<1> QED BY <1>1, <1>3, <1>4, <1>5, <1>10, <1>11, NoteWritten DEF Good

\* The clients are told to drop the note; the note itself stays as it was.
LEMMA DeleteNoteKeeps ==
  ASSUME IInv, NEW c \in Calls, DeleteNote(c)
  PROVE  IInv'
<1> DEFINE i == args[c].ref
           row == [note[i] EXCEPT !.deleted = TRUE]
           drop == DropSync(args[c].seen)
           readers == (note[i].body.mentions \cup note[i].body.recipients) \ {note[i].author}
           Good == { j \in Job : \A n \in j.rows : n.by = c /\ OnRecord(n)' }
           first == EmitNoteSync(c, {note[i].author}, drop, i)
           second == BroadcastNoteSync(c, "NOTE_APPROVE_REJECT", drop, i)
           third == EmitNoteSync(c, readers, drop, i)
           jobs == << first, second, third >>
<1>1. Writing(c, "softDelete") /\ "softDelete" \in Op \ {"create"}
  BY DEF DeleteNote, Op
<1>2. i \in NoteIds /\ note[i] \in Row /\ args[c].seen \in Status
  BY <1>1, WriterKnows
<1>3. /\ note' = [note EXCEPT ![i] = row] /\ Notify(c, jobs) /\ UNCHANGED <<subNotes, args>>
  BY <1>2 DEF DeleteNote, IInv, TypeOK
<1>4. /\ row \in Row /\ row.status = note[i].status /\ row.reviewedBy = note[i].reviewedBy
      /\ row.author = note[i].author /\ row.body = note[i].body
  BY <1>2 DEF Row
<1> HIDE DEF row
<1>5. note'[i] = row
  BY <1>2, <1>3 DEF IInv, TypeOK
<1>6. note'[i].status # "ABSENT" /\ args'[c].ref = i
  BY <1>3, <1>4, <1>5 DEF Row, Status
<1>7. drop \in SyncType
  BY <1>2 DEF DropSync, Status, SyncType
<1>8. /\ {note[i].author} \subseteq Users /\ readers \subseteq Users
      /\ Holders("NOTE_APPROVE_REJECT") \subseteq Users
  BY <1>2 DEF Row, Body, Holders
<1> HIDE DEF drop, readers
<1>9. first \in Good /\ second \in Good /\ third \in Good
  BY <1>2, <1>6, <1>7, <1>8, SyncJob DEF EmitNoteSync, BroadcastNoteSync
<1> HIDE DEF Good, first, second, third
<1>10. jobs \in Seq(Good)
  BY <1>9, JobsInARow
<1> HIDE DEF jobs
<1>11. subNotes' \subseteq SubNote /\ args' \in [Calls -> Asked]
  BY <1>3 DEF IInv, TypeOK, Asked
<1>12. row.status = "REJECTED" =>
         \E k \in subNotes' : /\ k.note = i /\ k.author = row.reviewedBy
                              /\ k.type = "REJECTION_REASON"
  BY <1>2, <1>3, <1>4 DEF IInv, RejectionHasReason
<1> QED BY <1>1, <1>3, <1>4, <1>10, <1>11, <1>12, NoteWritten DEF Good

\* A new note: its author's lists, and its readers or its approvers.
LEMMA InsertNoteKeeps ==
  ASSUME IInv, NEW c \in Calls, InsertNote(c)
  PROVE  IInv'
<1> DEFINE a == args[c]
           row == Filed(a)
           Good == { j \in Job : \A n \in j.rows : n.by = c /\ OnRecord(n)' }
<1>1. pc[c] = "loaded" /\ a.op = "create" /\ a \in Asked /\ a.user \in Users
  BY DEF InsertNote, Writing, IInv, CallsKnow, Knows, TypeOK, Asked, Running
<1>2. a.body \in Body
  BY <1>1, NotesAssumption DEF Asked, NoBody, Body
<1>3. PICK i \in NoteIds :
        /\ ~Exists(i) /\ note' = [note EXCEPT ![i] = row]
        /\ args' = [args EXCEPT ![c].ref = i, ![c].updated = DecisionIn(row)]
        /\ Notify(c, << EmitNoteSync(c, {a.user}, "SYNC_MINE", i) >> \o
             IF SkipsApproval(a.user)
               THEN CreateManyIfAny(ReaderRows(c, i, a.body))
               ELSE << NotifyUsersWithPermission(c, "NOTE_APPROVE_REJECT", "NOTE_PENDING",
                                                 i, {a.user}) >>)
  BY DEF InsertNote
<1> DEFINE first == EmitNoteSync(c, {a.user}, "SYNC_MINE", i)
           readers == CreateManyIfAny(ReaderRows(c, i, a.body))
           approvers == NotifyUsersWithPermission(c, "NOTE_APPROVE_REJECT", "NOTE_PENDING",
                                                  i, {a.user})
           others == IF SkipsApproval(a.user) THEN readers ELSE << approvers >>
           jobs == << first >> \o others
<1>4. /\ row \in Row /\ row.author = a.user /\ row.body = a.body
      /\ row.status = IF SkipsApproval(a.user) THEN "APPROVED" ELSE "PENDING"
      /\ row.reviewedBy = None
  BY <1>1, <1>2 DEF Filed, Absent, Row, Status
<1> HIDE DEF row
<1>5. note'[i] = row /\ \A j \in NoteIds \ {i} : note'[j] = note[j]
  BY <1>3 DEF IInv, TypeOK
<1> DEFINE b == [a EXCEPT !.ref = i, !.updated = DecisionIn(row)]
<1>61. DecisionIn(row) = [ status |-> row.status, reviewedBy |-> None ] /\ DecisionIn(row) \in Decision
  BY <1>4 DEF DecisionIn, Decision, Row
<1>6. /\ b \in Asked /\ b.ref = i /\ b.user = a.user /\ b.op = "create"
      /\ b.updated = [ status |-> row.status, reviewedBy |-> None ]
  BY <1>1, <1>61 DEF Asked
<1>7. args' = [args EXCEPT ![c] = b]
  BY <1>3
<1> HIDE DEF b
<1>8. /\ args' \in [Calls -> Asked] /\ args'[c] = b
      /\ \A k \in Calls \ {c} : args'[k] = args[k]
  BY <1>6, <1>7 DEF IInv, TypeOK, Asked
<1>9. note'[i].status # "ABSENT" /\ args'[c].ref = i /\ {a.user} \subseteq Users
  BY <1>1, <1>4, <1>5, <1>6, <1>8
<1>10. first \in Good
  <2>1. "SYNC_MINE" \in SyncType
    BY DEF SyncType
  <2> QED BY <1>9, <2>1, SyncJob DEF EmitNoteSync
<1>11. SkipsApproval(a.user) => readers \in Seq(Good)
  <2> SUFFICES ASSUME SkipsApproval(a.user) PROVE readers \in Seq(Good)
    OBVIOUS
  <2> DEFINE rows == ReaderRows(c, i, a.body)
             body == a.body
  <2>1. body.mentions \subseteq Users /\ body.recipients \subseteq Users
    BY <1>2 DEF Body
  <2>2. note'[i].body = body /\ Publishes(c, i)
    BY <1>4, <1>5, <1>6, <1>8 DEF Publishes, Commits
  <2>3. rows \subseteq Notice /\ \A n \in rows : n.by = c /\ OnRecord(n)'
    BY <1>9, <2>1, <2>2, ReaderRowsOnRecord
  <2> HIDE DEF rows, body
  <2>4. CreateMany(rows) \in Good
    <3>1. "create" \in Stage
      BY DEF Stage
    <3> QED BY <2>3, <3>1, GoodJob DEF CreateMany
  <2>5. CASE rows = {}
    BY <2>5 DEF CreateManyIfAny, rows
  <2>6. CASE rows # {}
    <3>1. readers = << CreateMany(rows) >>
      BY <2>6 DEF CreateManyIfAny, rows
    <3> HIDE DEF Good, readers
    <3> QED BY <2>4, <3>1, JobsInARow
  <2> QED BY <2>5, <2>6
<1>12. ~SkipsApproval(a.user) => << approvers >> \in Seq(Good)
  <2> SUFFICES ASSUME ~SkipsApproval(a.user) PROVE << approvers >> \in Seq(Good)
    OBVIOUS
  <2> DEFINE to == Holders("NOTE_APPROVE_REJECT") \ {a.user}
             rows == Rows(c, to, "NOTE_PENDING", i, "notifyUsersWithPermission")
  <2>1. /\ "NOTE_PENDING" \in NotificationType /\ "notifyUsersWithPermission" \in Via
        /\ "resolve" \in Stage /\ to \subseteq Users
    BY DEF NotificationType, Via, Stage, Holders
  <2>2. \A x \in to : Justified(c, i, "NOTE_PENDING", x)
    BY <1>4, <1>5, <1>6, <1>8 DEF Justified, Commits, Holders, CanApprove
  <2>3. approvers = [ stage |-> "resolve", rows |-> rows ]
    BY DEF NotifyUsersWithPermission
  <2> HIDE DEF to
  <2>4. rows \subseteq Notice /\ \A n \in rows : n.by = c /\ OnRecord(n)'
    BY <1>9, <2>1, <2>2, RowsOnRecord
  <2> HIDE DEF rows, approvers
  <2>5. approvers \in Good
    BY <2>1, <2>3, <2>4, GoodJob
  <2> HIDE DEF Good
  <2> QED BY <2>5, JobsInARow
<1> HIDE DEF Good, first, readers, approvers
<1>13. jobs \in Seq(Good)
  <2>1. << first >> \in Seq(Good) /\ others \in Seq(Good)
    BY <1>10, <1>11, <1>12, JobsInARow
  <2> HIDE DEF others
  <2> QED BY <2>1
<1>14. Notify(c, jobs) /\ UNCHANGED subNotes
  BY <1>3 DEF first, readers, approvers, InsertNote
<1> HIDE DEF jobs
<1>15. \A j \in NoteIds : Exists(j) =>
         /\ Exists(j)'
         /\ note'[j].author = note[j].author /\ note'[j].body = note[j].body
  BY <1>3, <1>5 DEF Exists
<1>16. note' \in [NoteIds -> Row \cup {Absent}]
  BY <1>3, <1>4 DEF IInv, TypeOK
<1>17. RejectionHasReason'
  BY <1>4, <1>5, <1>14 DEF IInv, RejectionHasReason
<1>18. args'[c].user = args[c].user /\ subNotes' \subseteq SubNote /\ subNotes \subseteq subNotes'
  BY <1>6, <1>8, <1>14 DEF IInv, TypeOK
<1> QED BY <1>1, <1>8, <1>13, <1>14, <1>15, <1>16, <1>17, <1>18, WritingStep DEF Good

----------------------------------------------------------------------------
(* Theorems.                                                               *)

\* Initially no notes, no calls and no notifications.
THEOREM InitEstablishes == Init => IInv
<1> SUFFICES ASSUME Init PROVE IInv
  OBVIOUS
<1>1. TypeOK
  BY DEF Init, NotificationsInit, TypeOK, NotificationsTypeOK, NoRequest
<1>2. CallsKnow /\ RejectionHasReason
  BY DEF Init, NotificationsInit, CallsKnow, Knows, Running, RejectionHasReason, Absent
<1>3. \A c \in Calls : InHand(c) = {}
  <2> SUFFICES ASSUME NEW c \in Calls PROVE InHand(c) = {}
    OBVIOUS
  <2>1. work[c] = <<>> /\ DOMAIN work[c] = {}
    BY DEF Init, NotificationsInit
  <2> QED BY <2>1 DEF InHand
<1>4. NoticesOwned /\ NoticesOnRecord
  BY <1>3 DEF Init, NotificationsInit, NoticesOwned, NoticesOnRecord
<1> QED BY <1>1, <1>2, <1>4 DEF IInv

\* Every step of every call keeps the invariant.
THEOREM StepKeeps == IInv /\ [Next]_vars => IInv'
<1> SUFFICES ASSUME IInv, [Next]_vars PROVE IInv'
  OBVIOUS
<1>1. ASSUME NEW c \in Calls, Step(c) PROVE IInv'
  BY <1>1, CheckKeeps, LoadNoteKeeps, InsertNoteKeeps, ApproveNoteKeeps, RejectNoteKeeps,
     InsertSubNoteKeeps, DeleteNoteKeeps, DeliveryKeeps, RespondKeeps DEF Step
<1>2. ASSUME NEW x \in Users, ToggleUser(x) PROVE IInv'
  <2>1. active' \subseteq Users
    BY <1>2 DEF ToggleUser, Deactivate, Reactivate, IInv, TypeOK, NotificationsTypeOK
  <2> QED BY <1>2, <2>1, IdleKeeps DEF ToggleUser, Deactivate, Reactivate, notifyVars
<1>3. CASE UNCHANGED vars
  BY <1>3, IdleKeeps DEF vars, IInv, TypeOK, NotificationsTypeOK
<1> QED BY <1>1, <1>2, <1>3, StartKeeps, FailKeeps DEF Next

\* The inductive invariant of the notes: typing, what the calls may rely on, the
\* reasons of the rejections, and whose notifications say what.
THEOREM InvariantHolds == Spec => []IInv
<1> QED BY InitEstablishes, StepKeeps, PTL DEF Spec

\* Every reachable state is well typed (all routes of NotesController).
THEOREM TypeCorrect == Spec => []TypeOK
<1>1. IInv => TypeOK
  BY DEF IInv
<1> QED BY <1>1, InvariantHolds, PTL

\* A rejected note carries the reason of the reviewer it names, however reviews
\* overlap (approve, reject).
THEOREM RejectionIsExplained == Spec => []RejectionHasReason
<1>1. IInv => RejectionHasReason
  BY DEF IInv
<1> QED BY <1>1, InvariantHolds, PTL

\* Nobody is told of a note but those it addresses, its author and the approvers,
\* and each only what the call that tells them has committed: readers and author
\* of an approval, the approval by that call's reviewer (create, approve, reject,
\* softDelete and dispatchApprovedNoteNotifications).
THEOREM NoticesAreTrue == Spec => []NoticesOnRecord
<1>1. IInv => NoticesOnRecord
  BY DEF IInv
<1> QED BY <1>1, InvariantHolds, PTL

\* byId, searchCitable and list agree on who sees a note, for any roles and
\* permissions (assertUserCanViewNote, buildVisibleNotesWhere, buildListWhere).
THEOREM VisibilityIsOne == Spec => []VisibilityAgrees
<1>1. TypeOK => VisibilityAgrees
  <2> SUFFICES ASSUME TypeOK, NEW x \in Users, NEW i \in NoteIds
               PROVE  /\ Citable(x, i) <=> MayRead(x, i)
                      /\ \A scope \in Scopes : Listed(x, i, scope) => MayRead(x, i)
                      /\ Citable(x, i) /\ ~Addressed(x, i) =>
                           \E scope \in Scopes : Listed(x, i, scope)
    BY DEF VisibilityAgrees
  <2>1. Exists(i) => note[i].status \in Status
    BY RowsTyped DEF Row
  <2>2. Citable(x, i) <=> MayRead(x, i)
    BY <2>1 DEF Citable, MayRead, MayReference, Addressed, Live
  <2>3. ASSUME NEW scope \in Scopes, Listed(x, i, scope) PROVE MayRead(x, i)
    BY <2>3 DEF Listed, MayList, Scopes, MayRead, MayReference, Addressed
  <2>4. ASSUME Citable(x, i), ~Addressed(x, i)
        PROVE  \E scope \in Scopes : Listed(x, i, scope)
    <3>1. Live(i) /\ (note[i].author = x \/ CanApprove(x))
      BY <2>4 DEF Citable, Addressed
    <3>2. CASE note[i].author = x
      <4>1. Listed(x, i, "mine")
        BY <3>1, <3>2 DEF Listed, MayList
      <4> QED BY <4>1 DEF Scopes
    <3>3. CASE CanApprove(x)
      <4>1. Listed(x, i, "all")
        BY <3>1, <3>3 DEF Listed, MayList
      <4> QED BY <4>1 DEF Scopes
    <3> QED BY <3>1, <3>2, <3>3
  <2> QED BY <2>2, <2>3, <2>4
<1> QED BY <1>1, TypeCorrect, PTL

----------------------------------------------------------------------------
(* Soft deletion.                                                          *)

\* What a step may do to a deleted note and to the calls that have read it.
Frozen(i) ==
  /\ note'[i].deleted
  /\ Loaded(i) = {} =>
       /\ note'[i] = note[i] /\ Loaded(i)' = {}
       /\ \A k \in subNotes' \ subNotes : k.note # i

\* A step of one call that does not bring it to the write of note i.
LEMMA NobodyLoads ==
  ASSUME NEW c \in Calls, \A k \in Calls \ {c} : pc'[k] = pc[k] /\ args'[k] = args[k],
         NEW i \in NoteIds, pc'[c] = "loaded" => args'[c].ref # i
  PROVE  Loaded(i)' \subseteq Loaded(i)
BY DEF Loaded

\* A write touches the note its call has read, and never restores it.
LEMMA WriteRespectsDeletion ==
  ASSUME TypeOK, NEW i \in NoteIds, note[i].deleted,
         NEW c \in Calls, NEW op, Writing(c, op), args[c].ref \in NoteIds,
         NEW to \in {"notifying", "done"}, pc' = [pc EXCEPT ![c] = to],
         \A k \in Calls \ {c} : args'[k] = args[k],
         NEW row, note' = [note EXCEPT ![args[c].ref] = row],
         row.deleted \/ row.deleted = note[args[c].ref].deleted,
         \A k \in subNotes' \ subNotes : k.note = args[c].ref
  PROVE  Frozen(i)
<1>1. Loaded(i)' \subseteq Loaded(i)
  BY NobodyLoads DEF TypeOK
<1>2. CASE args[c].ref = i
  <2>1. c \in Loaded(i)
    BY <1>2 DEF Loaded, Writing
  <2>2. note'[i].deleted
    BY <1>2 DEF TypeOK
  <2> QED BY <2>1, <2>2 DEF Frozen
<1>3. CASE args[c].ref # i
  <2>1. note'[i] = note[i]
    BY <1>3 DEF TypeOK
  <2> QED BY <1>1, <1>3, <2>1 DEF Frozen
<1> QED BY <1>2, <1>3

\* A deleted note is not restored, nor changed by a call that reads it later
\* (approve, reject, addSubNote, softDelete).
THEOREM DeletedStaysFrozen == Spec => DeletedIsFrozen
<1>1. IInv /\ [Next]_vars => [\A i \in NoteIds : note[i].deleted => Frozen(i)]_vars
  <2> SUFFICES ASSUME IInv, Next, NEW i \in NoteIds, note[i].deleted PROVE Frozen(i)
    OBVIOUS
  <2>1. TypeOK /\ CallsKnow /\ Exists(i) /\ None \notin NoteIds
    BY NotificationsAssumption DEF IInv, TypeOK, Exists, Absent, Row, Status, NoteIds
  <2>2. ASSUME NEW c \in Calls, UNCHANGED <<note, subNotes>>,
               \A k \in Calls \ {c} : pc'[k] = pc[k] /\ args'[k] = args[k],
               pc'[c] = "loaded" => args'[c].ref # i
        PROVE  Frozen(i)
    BY <2>2, NobodyLoads DEF Frozen
  <2>3. ASSUME NEW c \in Calls, NEW a \in Request, Start(c, a) PROVE Frozen(i)
    <3>1. /\ UNCHANGED <<note, subNotes>> /\ pc'[c] = "started"
          /\ \A k \in Calls \ {c} : pc'[k] = pc[k] /\ args'[k] = args[k]
      BY <2>1, <2>3 DEF Start, Goto, TypeOK
    <3> QED BY <2>2, <3>1
  <2>4. ASSUME NEW c \in Calls, CheckAddressees(c) \/ CheckCitations(c) PROVE Frozen(i)
    <3>1. /\ UNCHANGED <<note, subNotes, args>> /\ args[c].ref = None
          /\ \A k \in Calls \ {c} : pc'[k] = pc[k]
      BY <2>1, <2>4 DEF CheckAddressees, CheckCitations, Goto, TypeOK, CallsKnow, Knows
    <3> QED BY <2>1, <2>2, <3>1
  <2>5. ASSUME NEW c \in Calls, LoadNote(c) PROVE Frozen(i)
    <3>1. /\ UNCHANGED <<note, subNotes>>
          /\ \A k \in Calls \ {c} : pc'[k] = pc[k] /\ args'[k] = args[k]
          /\ args'[c].ref = args[c].ref
      BY <2>1, <2>5 DEF LoadNote, Goto, TypeOK
    <3>2. pc'[c] = "loaded" => args[c].ref # i
      BY <2>1, <2>5 DEF LoadNote, Goto, TypeOK, Accepts, Live
    <3> QED BY <2>2, <3>1, <3>2
  <2>6. ASSUME NEW c \in Calls, Respond(c) \/ Fail(c) PROVE Frozen(i)
    <3>1. /\ UNCHANGED <<note, subNotes, args>> /\ pc'[c] # "loaded"
          /\ \A k \in Calls \ {c} : pc'[k] = pc[k]
      BY <2>1, <2>6 DEF Respond, Fail, Goto, TypeOK
    <3> QED BY <2>2, <3>1
  <2>7. ASSUME UNCHANGED <<note, subNotes, pc, args>> PROVE Frozen(i)
    BY <2>7 DEF Frozen, Loaded
  <2>8. ASSUME NEW c \in Calls, InsertNote(c) PROVE Frozen(i)
    <3>1. PICK j \in NoteIds :
            /\ ~Exists(j) /\ note' = [note EXCEPT ![j] = Filed(args[c])]
            /\ args' = [args EXCEPT ![c].ref = j, ![c].updated = DecisionIn(Filed(args[c]))]
      BY <2>8 DEF InsertNote
    <3>2. pc' = [pc EXCEPT ![c] = "notifying"] /\ UNCHANGED subNotes
      BY <2>8 DEF InsertNote, Notify, Goto
    <3>3. note'[i] = note[i]
      BY <2>1, <3>1 DEF TypeOK
    <3>4. Loaded(i)' \subseteq Loaded(i)
      BY <2>1, <3>1, <3>2, NobodyLoads DEF TypeOK
    <3> QED BY <3>2, <3>3, <3>4 DEF Frozen
  <2>9. ASSUME NEW c \in Calls, NEW op \in Op \ {"create"}, Writing(c, op)
        PROVE  args[c].ref \in NoteIds /\ note[args[c].ref] \in Row
    BY <2>9, WriterKnows
  <2>10. ASSUME NEW c \in Calls, ApproveNote(c) PROVE Frozen(i)
    <3> DEFINE j == args[c].ref
               row == Reviewed(note[j], "APPROVED", args[c].user)
    <3>1. Writing(c, "approve") /\ j \in NoteIds /\ "approve" \in Op \ {"create"}
      BY <2>9, <2>10 DEF ApproveNote, Op
    <3>2. /\ note' = [note EXCEPT ![j] = row] /\ row.deleted = note[j].deleted
          /\ \A k \in Calls \ {c} : args'[k] = args[k]
      BY <2>10, <3>1, ReviewWritten DEF ApproveNote, Status
    <3>3. pc' = [pc EXCEPT ![c] = "notifying"] /\ UNCHANGED subNotes
      BY <2>10 DEF ApproveNote, Notify, Goto
    <3> HIDE DEF row
    <3> QED BY <2>1, <3>1, <3>2, <3>3, WriteRespectsDeletion
  <2>11. ASSUME NEW c \in Calls, RejectNote(c) PROVE Frozen(i)
    <3> DEFINE j == args[c].ref
               row == Reviewed(note[j], "REJECTED", args[c].user)
    <3>1. Writing(c, "reject") /\ j \in NoteIds /\ "reject" \in Op \ {"create"}
      BY <2>9, <2>11 DEF RejectNote, Op
    <3>2. /\ note' = [note EXCEPT ![j] = row] /\ row.deleted = note[j].deleted
          /\ \A k \in Calls \ {c} : args'[k] = args[k]
      BY <2>11, <3>1, ReviewWritten DEF RejectNote, Status
    <3>3. /\ pc' = [pc EXCEPT ![c] = "notifying"]
          /\ \A k \in subNotes' \ subNotes : k.note = j
      BY <2>11 DEF RejectNote, Reason, Notify, Goto
    <3> HIDE DEF row
    <3> QED BY <2>1, <3>1, <3>2, <3>3, WriteRespectsDeletion
  <2>12. ASSUME NEW c \in Calls, InsertSubNote(c) PROVE Frozen(i)
    <3> DEFINE j == args[c].ref
    <3>1. Writing(c, "addSubNote") /\ j \in NoteIds
      BY <2>9, <2>12 DEF InsertSubNote, Op
    <3>2. /\ note' = [note EXCEPT ![j] = note[j]] /\ UNCHANGED args
          /\ pc' = [pc EXCEPT ![c] = "done"]
          /\ \A k \in subNotes' \ subNotes : k.note = j
      BY <2>1, <2>12, <3>1 DEF InsertSubNote, Goto, TypeOK
    <3> QED BY <2>1, <3>1, <3>2, WriteRespectsDeletion
  <2>13. ASSUME NEW c \in Calls, DeleteNote(c) PROVE Frozen(i)
    <3> DEFINE j == args[c].ref
               row == [note[j] EXCEPT !.deleted = TRUE]
    <3>1. Writing(c, "softDelete") /\ j \in NoteIds /\ note[j] \in Row
      BY <2>9, <2>13 DEF DeleteNote, Op
    <3>2. /\ note' = [note EXCEPT ![j] = row] /\ UNCHANGED <<subNotes, args>>
          /\ pc' = [pc EXCEPT ![c] = "notifying"] /\ row.deleted
      BY <2>1, <2>13, <3>1 DEF DeleteNote, Notify, Goto, TypeOK, Row
    <3> HIDE DEF row
    <3> QED BY <2>1, <3>1, <3>2, WriteRespectsDeletion
  <2>14. ASSUME NEW c \in Calls, Step(c) PROVE Frozen(i)
    BY <2>4, <2>5, <2>6, <2>7, <2>8, <2>10, <2>11, <2>12, <2>13, <2>14 DEF Step, Deliver
  <2>15. ASSUME NEW x \in Users, ToggleUser(x) PROVE Frozen(i)
    BY <2>7, <2>15 DEF ToggleUser
  <2> HIDE DEF Frozen
  <2> QED BY <2>3, <2>6, <2>14, <2>15 DEF Next
<1>2. [\A i \in NoteIds : note[i].deleted => Frozen(i)]_vars =>
        [\A i \in NoteIds :
           note[i].deleted =>
             /\ note'[i].deleted
             /\ Loaded(i) = {} =>
                  /\ note'[i] = note[i] /\ Loaded(i)' = {}
                  /\ \A k \in subNotes' \ subNotes : k.note # i]_vars
  BY DEF Frozen
<1> QED BY <1>1, <1>2, InvariantHolds, PTL DEF Spec, DeletedIsFrozen

----------------------------------------------------------------------------
(* Calls one after the other.                                              *)

OneAtATime == \A c, d \in InFlight : c = d

\* What a call has checked still stands when it is about to write.
CheckStands(c) ==
  pc[c] = "loaded" => IF args[c].op = "create" THEN CitationsOK(args[c]) ELSE Accepts(args[c])

ChecksStand == \A c \in Calls : CheckStands(c)

SerialInv == OneAtATime /\ ChecksStand

\* A step of a handler, or its failure: the call was in flight, and is the only
\* one that moves.
LEMMA OneMoves ==
  ASSUME IInv, NEW c \in Calls, Step(c) \/ Fail(c)
  PROVE  pc[c] \in Running /\ \A k \in Calls \ {c} : pc'[k] = pc[k]
BY DEF Step, CheckAddressees, CheckCitations, LoadNote, InsertNote, ApproveNote, RejectNote,
       InsertSubNote, DeleteNote, Deliver, Respond, Fail, Writing, Notify, Goto, Running,
       IInv, TypeOK

\* A call that starts where one call may be in flight starts alone.
LEMMA StartsAlone ==
  ASSUME Serial, NEW a, WithinBounds(a)
  PROVE  InFlight = {}
<1>1. IsFiniteSet(InFlight) /\ Cardinality(InFlight) < 1
  BY NotesAssumption, FS_Subset DEF InFlight, WithinBounds, Serial
<1>2. Cardinality(InFlight) \in Nat
  BY <1>1, FS_CardinalityType
<1>3. Cardinality(InFlight) = 0
  BY <1>1, <1>2
<1> QED BY <1>1, <1>3, FS_EmptySet

\* Who writes notes goes on to notify.
LEMMA WritersNotify ==
  ASSUME IInv, NEW c \in Calls, Step(c) \/ Fail(c)
  PROVE  note' = note \/ pc'[c] = "notifying"
<1>1. CASE \/ CheckAddressees(c) \/ CheckCitations(c) \/ LoadNote(c) \/ InsertSubNote(c)
           \/ Deliver(c) \/ Respond(c) \/ Fail(c)
  BY <1>1 DEF CheckAddressees, CheckCitations, LoadNote, InsertSubNote, Deliver, Respond, Fail
<1>2. CASE InsertNote(c) \/ ApproveNote(c) \/ RejectNote(c) \/ DeleteNote(c)
  BY <1>2 DEF InsertNote, ApproveNote, RejectNote, DeleteNote, Notify, Goto, IInv, TypeOK
<1> QED BY <1>1, <1>2 DEF Step

\* With one call at a time, what it has checked it may rely on.
LEMMA SerialStepKeeps ==
  ASSUME IInv, IInv', Serial, SerialInv, NEW c \in Calls,
         \/ Step(c) \/ Fail(c)
         \/ \E a \in Request : Start(c, a) /\ WithinBounds(a)
  PROVE  SerialInv'
<1>1. \A k \in Calls \ {c} : pc'[k] = pc[k] /\ pc[k] \notin Running
  <2>1. CASE Step(c) \/ Fail(c)
    BY <2>1, OneMoves DEF SerialInv, OneAtATime, InFlight
  <2>2. CASE \E a \in Request : Start(c, a) /\ WithinBounds(a)
    BY <2>2, StartsAlone DEF InFlight, Start, Goto, IInv, TypeOK
  <2> QED BY <2>1, <2>2
<1>2. OneAtATime'
  BY <1>1 DEF OneAtATime, InFlight
<1>3. \A k \in Calls \ {c} : pc'[k] # "loaded"
  BY <1>1 DEF Running
<1>4. CASE \E a \in Request : Start(c, a)
  <2>1. pc'[c] # "loaded" /\ note' = note
    BY <1>4 DEF Start, Goto, IInv, TypeOK
  <2> QED BY <1>2, <1>3, <2>1
          DEF SerialInv, ChecksStand, CheckStands, CitationsOK, Accepts, Live, Exists, MayReference, Addressed
<1>5. CASE Step(c) \/ Fail(c)
  <2>2. ASSUME pc'[c] = "loaded" PROVE CheckStands(c)'
    <3>1. note' = note
      BY <1>5, <2>2, WritersNotify
    <3>2. CheckCitations(c) \/ LoadNote(c)
      BY <1>5, <2>2 DEF Step, CheckAddressees, InsertNote, ApproveNote, RejectNote, InsertSubNote,
                  DeleteNote, Deliver, Respond, Fail, Writing, Notify, Goto, IInv, TypeOK
    <3>3. CASE CheckCitations(c)
      <4>1. args' = args /\ args[c].op = "create" /\ CitationsOK(args[c])
        BY <2>2, <3>3 DEF CheckCitations, Goto, IInv, TypeOK, CallsKnow, Knows
      <4> QED BY <3>1, <4>1 DEF CheckStands, CitationsOK, Live, Exists, MayReference, Addressed
    <3>4. CASE LoadNote(c)
      <4>1. /\ args'[c].op = args[c].op /\ args'[c].ref = args[c].ref
            /\ args'[c].user = args[c].user /\ args[c].op # "create" /\ Accepts(args[c])
        BY <2>2, <3>4 DEF LoadNote, Goto, IInv, TypeOK
      <4> QED BY <3>1, <4>1 DEF CheckStands, Accepts, Live, Exists
    <3> QED BY <3>2, <3>3, <3>4
  <2>3. ChecksStand'
    BY <1>3, <2>2 DEF ChecksStand, CheckStands
  <2> QED BY <1>2, <2>3 DEF SerialInv
<1> QED BY <1>4, <1>5

\* The steps of the bounded behaviours are steps of the notes.
LEMMA BoundedStep ==
  ASSUME [MCNext]_mcVars
  PROVE  /\ [Next]_vars /\ bounds' = bounds
         /\ \/ UNCHANGED vars
            \/ \E x \in Users : ToggleUser(x)
            \/ \E c \in Calls : \/ Step(c) \/ Fail(c)
                                \/ \E a \in Request : Start(c, a) /\ WithinBounds(a)
<1>1. CASE UNCHANGED mcVars
  BY <1>1 DEF mcVars, listVars, vars
<1>2. CASE MCNext
  BY <1>2 DEF MCNext, Quietly, Reload, Next, Step, listVars, vars
<1> QED BY <1>1, <1>2

\* One at a time, calls keep what they have checked (the behaviours of all
\* properties about calls that do not overlap).
LEMMA SerialChecksStand == MCSpec => [](IInv /\ (Serial => SerialInv))
<1> DEFINE Inv == IInv /\ (Serial => SerialInv)
<1>1. MCInit => Inv
  <2>1. Init => SerialInv
    BY DEF Init, SerialInv, OneAtATime, InFlight, Running, ChecksStand, CheckStands
  <2> QED BY <2>1, InitEstablishes DEF MCInit, ListsInit
<1>2. Inv /\ [MCNext]_mcVars => Inv'
  <2> SUFFICES ASSUME Inv, [MCNext]_mcVars PROVE Inv'
    OBVIOUS
  <2>1. IInv'
    BY BoundedStep, StepKeeps
  <2>2. Serial' => Serial
    BY BoundedStep DEF Serial
  <2>3. ASSUME UNCHANGED <<note, pc, args>> PROVE Inv'
    BY <2>1, <2>2, <2>3
       DEF SerialInv, OneAtATime, InFlight, ChecksStand, CheckStands, CitationsOK, Accepts, Live, Exists,
           MayReference, Addressed
  <2>4. ASSUME NEW c \in Calls, \/ Step(c) \/ Fail(c)
                                \/ \E a \in Request : Start(c, a) /\ WithinBounds(a)
        PROVE  Inv'
    BY <2>1, <2>2, <2>4, SerialStepKeeps
  <2> QED BY <2>3, <2>4, BoundedStep DEF vars, ToggleUser
<1> QED BY <1>1, <1>2, PTL DEF MCSpec

\* What the insertion of a note, and any write of a note, does to a citation.
FiledOn(i, x, q) == ~Exists(i) => MayRead(x, q)

KeepsReader(x, q) == MayRead(x, q) => MayRead(x, q)' \/ note'[q].deleted

\* A write of one note that is there, by a call that found it pending or leaves
\* its status alone.
LEMMA WriteKeepsReaders ==
  ASSUME IInv, NEW j \in NoteIds, NEW row \in Row, note' = [note EXCEPT ![j] = row],
         row.author = note[j].author, row.body = note[j].body,
         note[j].status = "PENDING" \/ row.status = note[j].status,
         row.deleted = note[j].deleted \/ row.deleted,
         NEW x \in Users, NEW q \in NoteIds
  PROVE  KeepsReader(x, q)
<1>1. note'[j] = row /\ \A k \in NoteIds \ {j} : note'[k] = note[k]
  BY DEF IInv, TypeOK
<1>2. row.status # "ABSENT"
  BY DEF Row, Status
<1>3. CASE q = j
  BY <1>1, <1>2, <1>3 DEF KeepsReader, MayRead, Live, Exists, MayReference, Addressed
<1>4. CASE q # j
  BY <1>1, <1>4 DEF KeepsReader, MayRead, Live, Exists, MayReference, Addressed
<1> QED BY <1>3, <1>4

\* A step of a handler that is alone.
LEMMA CitationStep ==
  ASSUME IInv, IInv', SerialInv, NEW c \in Calls, Step(c) \/ Fail(c),
         NEW i \in NoteIds, NEW x \in Users, x = note'[i].author, NEW q \in note'[i].body.cites
  PROVE  FiledOn(i, x, q) /\ KeepsReader(x, q)
<1>1. q \in NoteIds
  <2>1. note'[i] = Absent \/ note'[i] \in Row
    BY DEF IInv, TypeOK
  <2> QED BY <2>1 DEF Absent, NoBody, Row, Body
<1>2. CASE note' = note
  <2>1. Exists(i)
    BY <1>2, NotificationsAssumption DEF IInv, TypeOK, Exists, Absent, Row, Status
  <2> QED BY <1>2, <2>1 DEF FiledOn, KeepsReader, MayRead, Live, Exists, MayReference, Addressed
<1>3. CASE InsertNote(c)
  <2>1. PICK j \in NoteIds : ~Exists(j) /\ note' = [note EXCEPT ![j] = Filed(args[c])]
    BY <1>3 DEF InsertNote
  <2>2. CitationsOK(args[c])
    BY <1>3 DEF InsertNote, Writing, SerialInv, ChecksStand, CheckStands
  <2> DEFINE row == Filed(args[c])
  <2>3. row.author = args[c].user /\ row.body = args[c].body
    BY DEF Filed, Absent
  <2> HIDE DEF row
  <2>4. note'[j] = row /\ \A k \in NoteIds \ {j} : note'[k] = note[k]
    BY <2>1 DEF IInv, TypeOK, row
  <2>5. FiledOn(i, x, q)
    <3>1. CASE i = j
      BY <2>2, <2>3, <2>4, <3>1 DEF FiledOn, CitationsOK, MayRead
    <3>2. CASE i # j
      <4>1. note[i].author # None
        BY <2>4, <3>2, NotificationsAssumption
      <4> QED BY <4>1 DEF FiledOn, Exists, IInv, TypeOK, Absent, Row, Status
    <3> QED BY <3>1, <3>2
  <2>6. KeepsReader(x, q)
    <3>1. CASE q = j
      BY <2>1, <3>1 DEF KeepsReader, MayRead, Live
    <3>2. CASE q # j
      BY <1>1, <2>4, <3>2 DEF KeepsReader, MayRead, Live, Exists, MayReference, Addressed
    <3> QED BY <3>1, <3>2
  <2> QED BY <2>5, <2>6
<1>4. ASSUME NEW j \in NoteIds, Exists(j), NEW row \in Row, note' = [note EXCEPT ![j] = row],
             row.author = note[j].author, row.body = note[j].body,
             note[j].status = "PENDING" \/ row.status = note[j].status,
             row.deleted = note[j].deleted \/ row.deleted
      PROVE  FiledOn(i, x, q) /\ KeepsReader(x, q)
  <2>1. KeepsReader(x, q)
    BY <1>1, <1>4, WriteKeepsReaders
  <2>2. Exists(i)
    <3>1. CASE i = j
      BY <1>4, <3>1
    <3>2. CASE i # j
      <4>1. note'[i] = note[i]
        BY <1>4, <3>2 DEF IInv, TypeOK
      <4> QED BY <4>1, NotificationsAssumption DEF IInv, TypeOK, Exists, Absent, Row, Status
    <3> QED BY <3>1, <3>2
  <2> QED BY <2>1, <2>2 DEF FiledOn
<1>5. CASE ApproveNote(c) \/ RejectNote(c)
  <2>1. PICK op \in {"approve", "reject"}, to \in {"APPROVED", "REJECTED"} :
          Writing(c, op) /\ WriteReview(c, to)
    BY <1>5 DEF ApproveNote, RejectNote
  <2>2. op \in Op \ {"create"} /\ to \in Status
    BY DEF Op, Status
  <2> DEFINE j == args[c].ref
             row == Reviewed(note[j], to, args[c].user)
  <2>3. j \in NoteIds /\ Exists(j) /\ note[j].status = "PENDING"
    BY <2>1, <2>2, WriterKnows
       DEF SerialInv, ChecksStand, CheckStands, Accepts, Writing
  <2>4. /\ row \in Row /\ note' = [note EXCEPT ![j] = row] /\ row.author = note[j].author
        /\ row.body = note[j].body /\ row.deleted = note[j].deleted
    BY <2>1, <2>2, ReviewWritten
  <2> HIDE DEF row, j
  <2> QED BY <1>4, <2>3, <2>4
<1>6. CASE DeleteNote(c)
  <2> DEFINE j == args[c].ref
             row == [note[j] EXCEPT !.deleted = TRUE]
  <2>1. j \in NoteIds /\ Exists(j) /\ note[j] \in Row
    BY <1>6, WriterKnows DEF DeleteNote, Op
  <2>2. note' = [note EXCEPT ![j] = row]
    BY <1>6, <2>1 DEF DeleteNote, IInv, TypeOK
  <2>3. /\ row \in Row /\ row.author = note[j].author /\ row.status = note[j].status
        /\ row.body = note[j].body /\ row.deleted
    BY <2>1 DEF Row
  <2> HIDE DEF row, j
  <2> QED BY <1>4, <2>1, <2>2, <2>3
<1>7. CASE \/ CheckAddressees(c) \/ CheckCitations(c) \/ LoadNote(c) \/ InsertSubNote(c)
           \/ Deliver(c) \/ Respond(c) \/ Fail(c)
  <2>1. note' = note
    BY <1>7 DEF CheckAddressees, CheckCitations, LoadNote, InsertSubNote, Deliver, Respond, Fail
  <2> QED BY <1>2, <2>1
<1> QED BY <1>3, <1>5, <1>6, <1>7 DEF Step

\* For any notes, users and permissions, as long as one call is handled at a time:
\* a note is filed only with citations its author may read, deleted notes being
\* readable by nobody, and an author goes on reading what he cites until that is
\* deleted (create, approve, reject, softDelete and assertUserCanViewNote).
THEOREM CitationsStandAlone == MCSpec => CitationsStandSerially
<1>1. IInv /\ IInv' /\ (Serial => SerialInv) /\ [MCNext]_mcVars =>
        [Serial =>
           \A i \in NoteIds, x \in Users :
             x = note'[i].author =>
               \A q \in note'[i].body.cites : FiledOn(i, x, q) /\ KeepsReader(x, q)]_mcVars
  <2> SUFFICES ASSUME IInv, IInv', Serial, SerialInv, [MCNext]_mcVars,
                      NEW i \in NoteIds, NEW x \in Users, x = note'[i].author,
                      NEW q \in note'[i].body.cites
               PROVE  FiledOn(i, x, q) /\ KeepsReader(x, q)
    OBVIOUS
  <2>1. ASSUME note' = note PROVE FiledOn(i, x, q) /\ KeepsReader(x, q)
    <3>1. Exists(i)
      BY <2>1, NotificationsAssumption DEF IInv, TypeOK, Exists, Absent, Row, Status
    <3> QED BY <2>1, <3>1 DEF FiledOn, KeepsReader, MayRead, Live, Exists, MayReference, Addressed
  <2>2. ASSUME NEW c \in Calls, Step(c) \/ Fail(c) PROVE FiledOn(i, x, q) /\ KeepsReader(x, q)
    BY <2>2, CitationStep
  <2>3. ASSUME NEW c \in Calls, NEW a, Start(c, a) PROVE note' = note
    BY <2>3 DEF Start
  <2> QED BY <2>1, <2>2, <2>3, BoundedStep DEF vars, ToggleUser
<1>2. [Serial =>
         \A i \in NoteIds, x \in Users :
           x = note'[i].author =>
             \A q \in note'[i].body.cites : FiledOn(i, x, q) /\ KeepsReader(x, q)]_mcVars =>
      [Serial =>
         \A i \in NoteIds, x \in Users :
           x = note'[i].author =>
             \A q \in note'[i].body.cites :
               /\ ~Exists(i) => MayRead(x, q)
               /\ MayRead(x, q) => MayRead(x, q)' \/ note'[q].deleted]_mcVars
  BY DEF FiledOn, KeepsReader
<1> QED BY <1>1, <1>2, SerialChecksStand, PTL DEF MCSpec, CitationsStandSerially

----------------------------------------------------------------------------
(* The lifecycle of a note, calls one after the other.                     *)

ReaderType == { "NOTE_MENTION", "NOTE_RECEIVED" }

\* The jobs of a handler that may yet tell a note's readers of it.
Telling(c) == { j \in ToStore(c) : \E n \in work[c][j].rows : n.type \in ReaderType }

Untold(i) == \A n \in notifications : n.type \in ReaderType => n.ref # i

\* Whose readers have been told is approved, and a handler about to tell them is
\* the first to, and tells them once.
ToldOnce ==
  /\ \A n \in notifications : n.type \in ReaderType => note[n.ref].status = "APPROVED"
  /\ \A c \in Calls : \A j \in Telling(c) :
       /\ note[args[c].ref].status = "APPROVED" /\ Untold(args[c].ref)
       /\ Telling(c) = {j}

\* A call that is not being handled has no jobs.
LEMMA OthersQuiet ==
  ASSUME IInv, NEW k \in Calls, pc[k] \notin Running
  PROVE  work[k] = <<>>
BY DEF IInv, CallsKnow, Knows, Running

\* An empty queue tells nobody.
LEMMA EmptyQuiet ==
  ASSUME NEW k, work'[k] = <<>>
  PROVE  Telling(k)' = {}
BY DEF Telling, ToStore

\* A step that leaves the rows and the queues alone.
LEMMA NothingTold ==
  ASSUME ToldOnce, UNCHANGED <<note, notifications>>,
         \A k \in Calls : Telling(k)' # {} => work'[k] = work[k] /\ args'[k] = args[k]
  PROVE  ToldOnce' /\ UNCHANGED Lifecycle!vars
<1>1. UNCHANGED Lifecycle!vars
  BY DEF Lifecycle!vars
<1>2. \A k \in Calls : Telling(k)' # {} => Telling(k)' = Telling(k)
  BY DEF Telling, ToStore
<1> QED BY <1>1, <1>2 DEF ToldOnce, Untold

\* A write of note i by a handler that queues at most one job that tells its
\* readers, of a note that is approved and of which nobody was told.
LEMMA WriteTells ==
  ASSUME IInv, IInv', ToldOnce, NEW c \in Calls, NEW jobs, Notify(c, jobs),
         \A k \in Calls \ {c} : pc[k] \notin Running,
         NEW i \in NoteIds, args'[c].ref = i,
         \A j \in NoteIds : note[j].status = "APPROVED" => note'[j].status = "APPROVED",
         NEW at,
         \A j \in DOMAIN jobs :
           /\ jobs[j].stage \in {"resolve", "create"}
           /\ \E n \in jobs[j].rows : n.type \in ReaderType
           => j = at /\ note'[i].status = "APPROVED" /\ Untold(i)
  PROVE  ToldOnce' /\ notifications' = notifications
<1>1. /\ work'[c] = jobs /\ notifications' = notifications
      /\ \A k \in Calls \ {c} : work'[k] = work[k]
  BY DEF Notify, IInv, TypeOK, NotificationsTypeOK
<1>2. \A k \in Calls \ {c} : Telling(k)' = {}
  BY <1>1, OthersQuiet, EmptyQuiet
<1>3. \A j \in Telling(c)' : j = at /\ note'[i].status = "APPROVED" /\ Untold(i)
  BY <1>1 DEF Telling, ToStore
<1>4. \A n \in notifications : n.ref \in NoteIds
  BY DEF IInv, TypeOK, NotificationsTypeOK, Notice, NoteIds
<1> QED BY <1>1, <1>2, <1>3, <1>4 DEF ToldOnce, Untold

\* A step that gives a note its status.
LEMMA Becomes ==
  ASSUME TypeOK, NEW i \in NoteIds, NEW row, note' = [note EXCEPT ![i] = row],
         row.deleted = note[i].deleted, notifications' = notifications
  PROVE  Lifecycle!Become(i, row.status)
<1>1. note'[i] = row /\ \A j \in NoteIds \ {i} : note'[j] = note[j]
  BY DEF TypeOK
<1>2. \A j \in NoteIds : note'[j].deleted = note[j].deleted
  BY <1>1
<1> DEFINE st == [j \in NoteIds |-> note[j].status]
           gone == { j \in NoteIds : note[j].deleted }
<1>3. st' = [st EXCEPT ![i] = row.status]
  <2>1. \A j \in NoteIds : st'[j] = IF j = i THEN row.status ELSE st[j]
    BY <1>1
  <2>2. st' = [j \in NoteIds |-> IF j = i THEN row.status ELSE st[j]]
    BY <2>1
  <2>3. [st EXCEPT ![i] = row.status] = [j \in NoteIds |-> IF j = i THEN row.status ELSE st[j]]
    OBVIOUS
  <2> QED BY <2>2, <2>3
<1>4. gone' = gone
  BY <1>2
<1> QED BY <1>3, <1>4 DEF Lifecycle!Become

\* A queue of one job, and of two.
LEMMA Appended ==
  ASSUME NEW S, NEW j1 \in S, NEW j2 \in S
  PROVE  << j1 >> \o <<>> = << j1 >> /\ << j1 >> \o << j2 >> = << j1, j2 >>
<1>1. << j1 >> \in Seq(S) /\ << j2 >> \in Seq(S)
  OBVIOUS
<1>2. << j1 >> \o <<>> = << j1 >>
  BY <1>1
<1> DEFINE s == << j1 >> \o << j2 >>
           t == << j1, j2 >>
<1>3. s \in Seq(S) /\ Len(s) = 2 /\ s[1] = j1 /\ s[2] = j2
  BY <1>1
<1>4. t \in Seq(S) /\ Len(t) = 2 /\ t[1] = j1 /\ t[2] = j2
  OBVIOUS
<1> HIDE DEF s, t
<1>5. \A k \in 1 .. 2 : s[k] = t[k]
  BY <1>3, <1>4
<1>6. DOMAIN s = 1 .. 2 /\ DOMAIN t = 1 .. 2 /\ s = [k \in DOMAIN s |-> s[k]]
        /\ t = [k \in DOMAIN t |-> t[k]]
  BY <1>3, <1>4
<1>7. s = t
  BY <1>5, <1>6
<1> QED BY <1>2, <1>7 DEF s, t

\* A step of the lifecycle.
LEMMA LifecycleStep ==
  ASSUME NEW i \in NoteIds,
         Lifecycle!File(i) \/ Lifecycle!Review(i) \/ Lifecycle!Tell(i) \/ Lifecycle!Delete(i)
  PROVE  Lifecycle!Next
BY DEF Lifecycle!Next, NoteIds

LEMMA InsertNoteFiles ==
  ASSUME IInv, IInv', ToldOnce, NEW c \in Calls, InsertNote(c),
         \A k \in Calls \ {c} : pc[k] \notin Running
  PROVE  ToldOnce' /\ Lifecycle!Next
<1> DEFINE a == args[c]
<1>0. PICK row : row = Filed(a)
  OBVIOUS
<1>1. PICK i \in NoteIds :
        /\ ~Exists(i) /\ note' = [note EXCEPT ![i] = row]
        /\ args' = [args EXCEPT ![c].ref = i, ![c].updated = DecisionIn(row)]
        /\ Notify(c, << EmitNoteSync(c, {a.user}, "SYNC_MINE", i) >> \o
             IF SkipsApproval(a.user)
               THEN CreateManyIfAny(ReaderRows(c, i, a.body))
               ELSE << NotifyUsersWithPermission(c, "NOTE_APPROVE_REJECT", "NOTE_PENDING",
                                                 i, {a.user}) >>)
  BY <1>0 DEF InsertNote
<1> DEFINE first == EmitNoteSync(c, {a.user}, "SYNC_MINE", i)
           readers == CreateMany(ReaderRows(c, i, a.body))
           approvers == NotifyUsersWithPermission(c, "NOTE_APPROVE_REJECT", "NOTE_PENDING",
                                                  i, {a.user})
           jobs == << first >> \o
             IF SkipsApproval(a.user)
               THEN CreateManyIfAny(ReaderRows(c, i, a.body)) ELSE << approvers >>
<1>2. /\ row.status = IF SkipsApproval(a.user) THEN "APPROVED" ELSE "PENDING"
      /\ row.deleted = FALSE
  BY <1>0 DEF Filed, Absent
<1>3. note[i] = Absent
  BY <1>1 DEF IInv, TypeOK, Exists, Row, Status
<1>4. note'[i] = row /\ \A j \in NoteIds \ {i} : note'[j] = note[j]
  BY <1>1 DEF IInv, TypeOK
<1>5. args'[c].ref = i
  BY <1>1 DEF IInv, TypeOK
<1>6. Untold(i)
  BY <1>1 DEF Untold, IInv, NoticesOnRecord, OnRecord
<1>7. first.stage = "emit"
  BY DEF EmitNoteSync
<1>8. approvers.stage = "resolve" /\ \A n \in approvers.rows : n.type \notin ReaderType
  BY DEF NotifyUsersWithPermission, Rows, ReaderType
<1>9. \/ jobs = << first >>
      \/ jobs = << first, readers >> /\ SkipsApproval(a.user)
      \/ jobs = << first, approvers >>
  <2> DEFINE rows == ReaderRows(c, i, a.body)
  <2>1. CreateManyIfAny(rows) = IF rows = {} THEN <<>> ELSE << readers >>
    BY DEF CreateManyIfAny
  <2> HIDE DEF rows, first, readers, approvers
  <2>2. /\ << first >> \o <<>> = << first >> /\ << first >> \o << readers >> = << first, readers >>
        /\ << first >> \o << approvers >> = << first, approvers >>
    <3> DEFINE S == {first, readers, approvers}
    <3>1. first \in S /\ readers \in S /\ approvers \in S
      OBVIOUS
    <3> HIDE DEF S
    <3> QED BY <3>1, Appended
  <2> QED BY <2>1, <2>2 DEF rows
<1>10. Notify(c, jobs)
  BY <1>1
<1> HIDE DEF first, readers, approvers, jobs
<1>11. \A j \in DOMAIN jobs :
         /\ jobs[j].stage \in {"resolve", "create"}
         /\ \E n \in jobs[j].rows : n.type \in ReaderType
         => j = 2 /\ note'[i].status = "APPROVED" /\ Untold(i)
  BY <1>2, <1>4, <1>6, <1>7, <1>8, <1>9
<1>12. ToldOnce' /\ notifications' = notifications
  BY <1>3, <1>4, <1>5, <1>10, <1>11, WriteTells DEF Absent
<1>13. Lifecycle!Become(i, row.status)
  <2>1. TypeOK /\ row.deleted = note[i].deleted
    <3>1. note[i].deleted = FALSE
      BY <1>3 DEF Absent
    <3> QED BY <1>2, <3>1 DEF IInv
  <2>2. note' = [note EXCEPT ![i] = row] /\ notifications' = notifications
    BY <1>1, <1>12
  <2> QED BY <2>1, <2>2, Becomes
<1>14. Lifecycle!File(i)
  <2>1. row.status \in {"PENDING", "APPROVED"} /\ note[i].status = "ABSENT"
    BY <1>2, <1>3 DEF Absent
  <2> QED BY <1>13, <2>1 DEF Lifecycle!File
<1> QED BY <1>12, <1>14, LifecycleStep

LEMMA ReviewReviews ==
  ASSUME IInv, IInv', SerialInv, ToldOnce, NEW c \in Calls, ApproveNote(c) \/ RejectNote(c),
         \A k \in Calls \ {c} : pc[k] \notin Running
  PROVE  ToldOnce' /\ Lifecycle!Next
<1>1. PICK i \in NoteIds :
        i = args[c].ref /\ note[i] \in Row /\ note[i].status = "PENDING" /\ ~note[i].deleted
  BY WriterKnows DEF ApproveNote, RejectNote, Writing, Op, SerialInv, ChecksStand, CheckStands,
                     Accepts, Live
<1>2. Untold(i)
  BY <1>1 DEF Untold, ToldOnce
<1>3. args'[c].ref = i
  BY <1>1, ReviewWritten DEF ApproveNote, RejectNote, Op, Status
<1> DEFINE row(to) == Reviewed(note[i], to, args[c].user)
<1>4. ASSUME NEW to \in {"APPROVED", "REJECTED"}, note' = [note EXCEPT ![i] = row(to)],
             ToldOnce', notifications' = notifications
      PROVE  Lifecycle!Next
  <2>1. row(to).status = to /\ row(to).deleted = note[i].deleted
    BY <1>1 DEF Row, Reviewed
  <2> HIDE DEF row
  <2>2. Lifecycle!Become(i, to)
    BY <1>4, <2>1, Becomes DEF IInv
  <2>3. Lifecycle!Review(i)
    BY <1>1, <2>2 DEF Lifecycle!Review, NoteIds
  <2> QED BY <2>3, LifecycleStep
<1>5. ASSUME NEW to \in {"APPROVED", "REJECTED"}, note' = [note EXCEPT ![i] = row(to)]
      PROVE  /\ note'[i].status = to
             /\ \A j \in NoteIds : note[j].status = "APPROVED" => note'[j].status = "APPROVED"
  <2>1. row(to).status = to
    BY <1>1 DEF Row, Reviewed
  <2> HIDE DEF row
  <2>2. note'[i] = row(to) /\ \A j \in NoteIds \ {i} : note'[j] = note[j]
    BY <1>5 DEF IInv, TypeOK
  <2> QED BY <1>1, <2>1, <2>2
<1>6. CASE ApproveNote(c)
  <2> DEFINE told == CreateMany(ApprovalRows(c, i))
             sync == BroadcastNoteSync(c, "NOTE_APPROVE_REJECT", "SYNC_APPROVED", i)
             jobs == << told, sync >>
  <2>1. note' = [note EXCEPT ![i] = row("APPROVED")] /\ Notify(c, jobs)
    BY <1>1, <1>6 DEF ApproveNote, WriteReview
  <2>2. sync.stage = "broadcast"
    BY DEF BroadcastNoteSync
  <2> HIDE DEF told, sync
  <2>3. \A j \in DOMAIN jobs :
          /\ jobs[j].stage \in {"resolve", "create"}
          /\ \E n \in jobs[j].rows : n.type \in ReaderType
          => j = 1 /\ note'[i].status = "APPROVED" /\ Untold(i)
    BY <1>2, <1>5, <2>1, <2>2
  <2> HIDE DEF jobs, row
  <2>4. ToldOnce' /\ notifications' = notifications
    BY <1>1, <1>3, <1>5, <2>1, <2>3, WriteTells
  <2> QED BY <1>4, <2>1, <2>4
<1>7. CASE RejectNote(c)
  <2> DEFINE told == CreateMany(Rows(c, {note[i].author}, "NOTE_REJECTED", i, "createMany"))
             sync == BroadcastNoteSync(c, "NOTE_APPROVE_REJECT", "SYNC_REJECTED", i)
             jobs == << told, sync >>
  <2>1. note' = [note EXCEPT ![i] = row("REJECTED")] /\ Notify(c, jobs)
    BY <1>1, <1>7 DEF RejectNote, WriteReview
  <2>2. sync.stage = "broadcast" /\ \A n \in told.rows : n.type \notin ReaderType
    BY DEF BroadcastNoteSync, CreateMany, Rows, ReaderType
  <2> HIDE DEF told, sync
  <2>3. \A j \in DOMAIN jobs :
          /\ jobs[j].stage \in {"resolve", "create"}
          /\ \E n \in jobs[j].rows : n.type \in ReaderType
          => j = 1 /\ note'[i].status = "APPROVED" /\ Untold(i)
    BY <2>2
  <2> HIDE DEF jobs, row
  <2>4. ToldOnce' /\ notifications' = notifications
    BY <1>1, <1>3, <1>5, <2>1, <2>3, WriteTells
  <2> QED BY <1>4, <2>1, <2>4
<1> QED BY <1>6, <1>7

LEMMA DeleteNoteDeletes ==
  ASSUME IInv, IInv', SerialInv, ToldOnce, NEW c \in Calls, DeleteNote(c),
         \A k \in Calls \ {c} : pc[k] \notin Running
  PROVE  ToldOnce' /\ Lifecycle!Next
<1>1. PICK i \in NoteIds : i = args[c].ref /\ note[i] \in Row /\ ~note[i].deleted
  BY WriterKnows DEF DeleteNote, Writing, Op, SerialInv, ChecksStand, CheckStands, Accepts, Live
<1> DEFINE drop == DropSync(args[c].seen)
           readers == (note[i].body.mentions \cup note[i].body.recipients) \ {note[i].author}
           j1 == EmitNoteSync(c, {note[i].author}, drop, i)
           j2 == BroadcastNoteSync(c, "NOTE_APPROVE_REJECT", drop, i)
           j3 == EmitNoteSync(c, readers, drop, i)
           jobs == << j1, j2, j3 >>
<1>2. /\ note' = [note EXCEPT ![i].deleted = TRUE] /\ Notify(c, jobs) /\ args' = args
  BY <1>1 DEF DeleteNote
<1>3. /\ note'[i].deleted /\ note'[i].status = note[i].status
      /\ \A j \in NoteIds \ {i} : note'[j] = note[j]
  BY <1>1, <1>2 DEF IInv, TypeOK, Row
<1>4. j1.stage = "emit" /\ j2.stage = "broadcast" /\ j3.stage = "emit"
  BY DEF EmitNoteSync, BroadcastNoteSync
<1> HIDE DEF j1, j2, j3
<1>5. \A j \in DOMAIN jobs : jobs[j].stage \notin {"resolve", "create"}
  BY <1>4
<1> HIDE DEF jobs
<1>6. ToldOnce' /\ notifications' = notifications
  BY <1>1, <1>2, <1>3, <1>5, WriteTells
<1>7. Lifecycle!Delete(i)
  BY <1>1, <1>3, <1>6 DEF Lifecycle!Delete, NoteIds, Row, Status
<1> QED BY <1>6, <1>7, LifecycleStep

LEMMA DeliveryTells ==
  ASSUME IInv, IInv', ToldOnce, NEW c \in Calls, Deliver(c),
         \A k \in Calls \ {c} : pc[k] \notin Running
  PROVE  ToldOnce' /\ (Lifecycle!Next \/ UNCHANGED Lifecycle!vars)
<1>0. PICK i : i = args[c].ref
  OBVIOUS
<1>1. /\ UNCHANGED <<note, pc, args>> /\ NotifyStep(c) /\ NotificationsTypeOK
      /\ NotificationsTypeOK'
  BY DEF Deliver, IInv, TypeOK
<1>2. PICK shift \in {0, 1} :
        /\ \A j \in ToStore(c)' :
             j + shift \in ToStore(c) /\ work'[c][j].rows \subseteq work[c][j + shift].rows
        /\ \/ notifications' = notifications
           \/ /\ 1 \in ToStore(c) /\ notifications' = notifications \cup Current(c)
              /\ \A j \in ToStore(c)' : j + shift # 1
  BY <1>1, NotifyStepStores
<1>3. \A k \in Calls \ {c} : Telling(k)' = {}
  <2>1. \A k \in Calls \ {c} : work'[k] = work[k]
    BY <1>1, NotifyStepKeeps
  <2> QED BY <2>1, OthersQuiet, EmptyQuiet
<1>4. \A j \in Telling(c)' : j \in Nat /\ j + shift \in Telling(c)
  <2>1. DOMAIN work'[c] \subseteq Nat
    BY <1>1 DEF NotificationsTypeOK
  <2> QED BY <1>2, <2>1 DEF Telling, ToStore
<1>5. \A j \in Telling(c)' : Telling(c)' = {j}
  <2> SUFFICES ASSUME NEW j \in Telling(c)', NEW k \in Telling(c)' PROVE j = k
    OBVIOUS
  <2>1. j + shift = k + shift
    BY <1>4 DEF ToldOnce
  <2> QED BY <1>4, <2>1
<1>6. ASSUME \A n \in notifications' \ notifications : n.type \notin ReaderType
      PROVE  ToldOnce' /\ UNCHANGED Lifecycle!vars
  <2>1. notifications \subseteq notifications'
    BY <1>1, NotifyStepKeeps
  <2>2. UNCHANGED Lifecycle!vars
    BY <1>1, <1>6, <2>1 DEF Lifecycle!vars, ReaderType
  <2>3. ToldOnce'
    BY <1>1, <1>3, <1>4, <1>5, <1>6, <2>1 DEF ToldOnce, Untold
  <2> QED BY <2>2, <2>3
<1>7. ASSUME NEW n \in notifications' \ notifications, n.type \in ReaderType
      PROVE  ToldOnce' /\ Lifecycle!Next
  <2>1. /\ notifications' = notifications \cup Current(c) /\ n \in Current(c)
        /\ 1 \in ToStore(c) /\ \A j \in ToStore(c)' : j + shift # 1
    BY <1>2, <1>7
  <2>2. 1 \in Telling(c)
    BY <1>7, <2>1 DEF Telling, Current
  <2>3. note[i].status = "APPROVED" /\ Untold(i) /\ Telling(c) = {1}
    BY <1>0, <2>2 DEF ToldOnce
  <2>4. Telling(c)' = {}
    BY <1>4, <2>1, <2>3 DEF Telling
  <2>5. \A m \in Current(c) : m.ref = i /\ m.user \in Users
    <3> SUFFICES ASSUME NEW m \in Current(c) PROVE m.ref = i /\ m.user \in Users
      OBVIOUS
    <3>1. m \in InHand(c)
      BY <2>1 DEF InHand, ToStore, Current
    <3>2. m.by = c /\ m.ref = i
      BY <1>0, <3>1 DEF IInv, NoticesOwned, NoticesOnRecord, OnRecord
    <3>3. m \in Notice
      BY <1>1, <2>1 DEF NotificationsTypeOK
    <3> QED BY <3>2, <3>3 DEF Notice
  <2>6. ToldOnce'
    BY <1>0, <1>1, <1>3, <2>1, <2>3, <2>4, <2>5 DEF ToldOnce
  <2>7. i \in NoteIds
    <3>1. n \in Notice
      BY <1>1, <1>7 DEF NotificationsTypeOK
    <3> QED BY <2>1, <2>5, <3>1 DEF Notice, NoteIds
  <2> DEFINE fresh == { m \in Current(c) : m.type \in ReaderType }
             told == { [note |-> m.ref, user |-> m.user] :
                         m \in { o \in notifications : o.type \in ReaderType } }
             readers == { m.user : m \in fresh }
  <2>8. readers \in SUBSET Users
    BY <2>5
  <2>9. told' = told \cup { [note |-> i, user |-> x] : x \in readers }
    <3>1. told' = told \cup { [note |-> m.ref, user |-> m.user] : m \in fresh }
      BY <2>1
    <3>2. { [note |-> m.ref, user |-> m.user] : m \in fresh }
            = { [note |-> i, user |-> x] : x \in readers }
      BY <2>5
    <3> QED BY <3>1, <3>2
  <2>10. \A t \in told : t.note # i
    BY <2>3 DEF Untold
  <2>11. Lifecycle!Tell(i)
    BY <1>1, <2>3, <2>7, <2>8, <2>9, <2>10 DEF Lifecycle!Tell, ReaderType, NoteIds
  <2> QED BY <2>6, <2>7, <2>11, LifecycleStep
<1> QED BY <1>6, <1>7

\* Every other step tells nobody.
LEMMA QuietTells ==
  ASSUME IInv, IInv', ToldOnce, NEW c \in Calls,
         \/ CheckAddressees(c) \/ CheckCitations(c) \/ LoadNote(c) \/ InsertSubNote(c)
         \/ Respond(c) \/ Fail(c) \/ \E a \in Request : Start(c, a)
  PROVE  ToldOnce' /\ UNCHANGED Lifecycle!vars
<1>1. /\ UNCHANGED <<note, notifications>>
      /\ \A k \in Calls \ {c} : work'[k] = work[k] /\ args'[k] = args[k]
  BY DEF CheckAddressees, CheckCitations, LoadNote, InsertSubNote, Respond, Fail, Start, notifyVars,
         IInv, TypeOK, NotificationsTypeOK
<1>2. work'[c] = <<>> \/ (work'[c] = work[c] /\ args'[c] = args[c])
  <2>1. CASE Fail(c)
    BY <2>1 DEF Fail, IInv, TypeOK, NotificationsTypeOK
  <2>2. CASE LoadNote(c) \/ \E a \in Request : Start(c, a)
    <3>1. work' = work /\ pc[c] # "notifying"
      BY <2>2 DEF LoadNote, Start, notifyVars
    <3> QED BY <3>1 DEF IInv, CallsKnow, Knows
  <2>3. CASE \/ CheckAddressees(c) \/ CheckCitations(c) \/ InsertSubNote(c) \/ Respond(c)
    BY <2>3 DEF CheckAddressees, CheckCitations, InsertSubNote, Respond, notifyVars
  <2> QED BY <2>1, <2>2, <2>3
<1> QED BY <1>1, <1>2, EmptyQuiet, NothingTold

LEMMA LifecycleStepKeeps ==
  ASSUME IInv, IInv', Serial, SerialInv, ToldOnce, NEW c \in Calls,
         \/ Step(c) \/ Fail(c)
         \/ \E a \in Request : Start(c, a) /\ WithinBounds(a)
  PROVE  ToldOnce' /\ (Lifecycle!Next \/ UNCHANGED Lifecycle!vars)
<1>1. CASE Step(c) \/ Fail(c)
  <2>1. \A k \in Calls \ {c} : pc[k] \notin Running
    BY <1>1, OneMoves DEF SerialInv, OneAtATime, InFlight
  <2> QED BY <1>1, <2>1, QuietTells, InsertNoteFiles, ReviewReviews, DeleteNoteDeletes,
             DeliveryTells DEF Step
<1>2. CASE \E a \in Request : Start(c, a)
  BY <1>2, QuietTells
<1> QED BY <1>1, <1>2

\* For any notes, users and failures: as long as one call is handled at a time,
\* every step follows the README's state machine (create, approve, reject,
\* softDelete and dispatchApprovedNoteNotifications).
THEOREM FollowsLifecycle == MCSpec => LifecycleFollowed
<1> DEFINE Inv == IInv /\ (Serial => SerialInv /\ ToldOnce)
<1>1. MCInit => Inv /\ Lifecycle!Init
  <2> SUFFICES ASSUME MCInit PROVE Inv /\ Lifecycle!Init
    OBVIOUS
  <2>1. Init
    BY DEF MCInit, ListsInit
  <2>2. SerialInv
    BY <2>1 DEF Init, SerialInv, OneAtATime, InFlight, Running, ChecksStand, CheckStands
  <2>3. notifications = {} /\ \A c \in Calls : work[c] = <<>>
    BY <2>1 DEF Init, NotificationsInit
  <2>4. ToldOnce
    BY <2>3 DEF ToldOnce, Telling, ToStore
  <2>5. Lifecycle!Init
    BY <2>1, <2>3 DEF Init, Lifecycle!Init, NoteIds, Absent
  <2> QED BY <2>1, <2>2, <2>4, <2>5, InitEstablishes
<1>2. Inv /\ [MCNext]_mcVars => Inv' /\ (Serial => [Lifecycle!Next]_Lifecycle!vars)
  <2> SUFFICES ASSUME Inv, [MCNext]_mcVars
               PROVE  Inv' /\ (Serial => Lifecycle!Next \/ UNCHANGED Lifecycle!vars)
    OBVIOUS
  <2>1. IInv' /\ (Serial' => Serial)
    BY BoundedStep, StepKeeps DEF Serial
  <2>2. ASSUME UNCHANGED <<note, pc, args, work, notifications>>, Serial
        PROVE  (SerialInv /\ ToldOnce)' /\ UNCHANGED Lifecycle!vars
    <3>1. SerialInv'
      BY <2>2 DEF SerialInv, OneAtATime, InFlight, ChecksStand, CheckStands, CitationsOK, Accepts,
                  Live, Exists, MayReference, Addressed
    <3> QED BY <2>2, <3>1, NothingTold
  <2>3. ASSUME NEW c \in Calls, Serial,
               \/ Step(c) \/ Fail(c) \/ \E a \in Request : Start(c, a) /\ WithinBounds(a)
        PROVE  (SerialInv /\ ToldOnce)' /\ (Lifecycle!Next \/ UNCHANGED Lifecycle!vars)
    BY <2>1, <2>3, SerialStepKeeps, LifecycleStepKeeps
  <2>4. UNCHANGED vars \/ (\E x \in Users : ToggleUser(x)) =>
          UNCHANGED <<note, pc, args, work, notifications>>
    BY DEF vars, ToggleUser, Deactivate, Reactivate, notifyVars
  <2> QED BY <2>1, <2>2, <2>3, <2>4, BoundedStep
<1>3. [MCNext]_mcVars /\ (Serial => [Lifecycle!Next]_Lifecycle!vars)
        => [Serial => [Lifecycle!Next]_Lifecycle!vars]_mcVars
  OBVIOUS
<1> QED BY <1>1, <1>2, <1>3, PTL DEF MCSpec, LifecycleFollowed

----------------------------------------------------------------------------
(* What clients show who only listen, calls one after the other.           *)

Approvers == Holders("NOTE_APPROVE_REJECT")

\* What a batch of events tells user x to do with note i in a list.
Gains(events, x, i, scope) ==
  \E n \in events : n.user = x /\ n.ref = i /\ scope \in SyncOf(n.type).add

Loses(events, x, i, scope) ==
  \E n \in events : n.user = x /\ n.ref = i /\ scope \in SyncOf(n.type).remove

\* The events still to come.
Coming == UNION { Outgoing(c) : c \in Calls }

\* What a client shows is listed, or about to be taken away; what is listed it
\* shows, or is about to be told; and what is to come says what is listed.
Agrees(x, i, scope) ==
  /\ i \in lists[x][scope] => Listed(x, i, scope) \/ Loses(Coming, x, i, scope)
  /\ Listed(x, i, scope) /\ ~Unannounced(x, i, scope) =>
       i \in lists[x][scope] \/ Gains(Coming, x, i, scope)
  /\ Gains(Coming, x, i, scope) => Listed(x, i, scope)
  /\ Loses(Coming, x, i, scope) => ~Listed(x, i, scope)

\* Audiences are read from the table for approvers only, and these are active.
ToApprovers(c) ==
  \A j \in DOMAIN work[c] : work[c][j].stage \in {"resolve", "broadcast"} =>
    \A n \in work[c][j].rows : n.user \in Approvers

ListsInv ==
  /\ lists \in [Users -> [ListScope -> SUBSET NoteIds]]
  /\ Approvers \subseteq active
  /\ \A c \in Calls : ToApprovers(c)
  /\ \A x \in Users, i \in NoteIds, scope \in ListScope : Agrees(x, i, scope)

\* What each event says.
LEMMA SyncSays ==
  /\ SyncOf("SYNC_MINE") = Sync({"mine"}, {})
  /\ SyncOf("NOTE_APPROVED") = Sync({"mine"}, {})
  /\ SyncOf("NOTE_REJECTED") = Sync({"mine"}, {})
  /\ SyncOf("NOTE_PENDING") = Sync({"pending"}, {})
  /\ SyncOf("NOTE_MENTION") = Sync({"mentions"}, {})
  /\ SyncOf("NOTE_RECEIVED") = Sync({"received"}, {})
  /\ SyncOf("SYNC_APPROVED") = Sync({"approved"}, {"pending"})
  /\ SyncOf("SYNC_REJECTED") = Sync({"rejected"}, {"pending"})
  /\ SyncOf(DropSync("PENDING")) = Sync({}, {"mine", "pending"})
  /\ SyncOf(DropSync("APPROVED")) = Sync({}, {"mine", "approved", "mentions", "received"})
  /\ SyncOf(DropSync("REJECTED")) = Sync({}, {"mine", "rejected"})
BY DEF SyncOf, ScopesToClear, DropSync

\* The rows of one notification call tell those they are for.
LEMMA RowsSay ==
  ASSUME NEW c, NEW to, NEW type, NEW i, NEW via, NEW x, NEW scope
  PROVE  LET rows == Rows(c, to, type, i, via) IN
         /\ Gains(rows, x, i, scope) <=> x \in to /\ scope \in SyncOf(type).add
         /\ Loses(rows, x, i, scope) <=> x \in to /\ scope \in SyncOf(type).remove
<1> DEFINE rows == Rows(c, to, type, i, via)
<1>1. \A n \in rows : n.ref = i /\ n.user \in to /\ n.type = type
  BY DEF Rows
<1>2. ASSUME x \in to PROVE \E n \in rows : n.user = x /\ n.ref = i /\ n.type = type
  <2> DEFINE n == [ by |-> c, user |-> x, ref |-> i, via |-> via, type |-> type ]
  <2>1. n \in rows
    BY <1>2 DEF Rows
  <2>2. n.user = x /\ n.ref = i /\ n.type = type
    OBVIOUS
  <2> QED BY <2>1, <2>2
<1> HIDE DEF rows
<1>3. Gains(rows, x, i, scope) <=> x \in to /\ scope \in SyncOf(type).add
  BY <1>1, <1>2 DEF Gains
<1>4. Loses(rows, x, i, scope) <=> x \in to /\ scope \in SyncOf(type).remove
  BY <1>1, <1>2 DEF Loses
<1> QED BY <1>3, <1>4 DEF rows

LEMMA RowsAbout ==
  ASSUME NEW c, NEW to, NEW type, NEW i, NEW via
  PROVE  \A n \in Rows(c, to, type, i, via) : n.ref = i /\ n.user \in to
BY DEF Rows

\* The lists one by one.
Shown(row, x, scope) ==
  /\ row.status # "ABSENT" /\ ~row.deleted
  /\ \/ scope = "mine" /\ row.author = x
     \/ scope = "mentions" /\ row.status = "APPROVED" /\ x \in row.body.mentions
     \/ scope = "received" /\ row.status = "APPROVED" /\ x \in row.body.recipients
     \/ scope = "pending" /\ row.status = "PENDING" /\ CanApprove(x)
     \/ scope = "approved" /\ row.status = "APPROVED" /\ CanApprove(x)
     \/ scope = "rejected" /\ row.status = "REJECTED" /\ CanApprove(x)

Withheld(row, x, scope) ==
  \/ scope = "received" /\ x \in row.body.mentions
  \/ scope = "approved" /\ row.reviewedBy = None
  \/ scope = "pending" /\ row.author = x

LEMMA ListedMeans ==
  ASSUME NEW x, NEW i, NEW scope \in ListScope
  PROVE  /\ Listed(x, i, scope) <=> Shown(note[i], x, scope)
         /\ Listed(x, i, scope)' <=> Shown(note'[i], x, scope)
         /\ Unannounced(x, i, scope) <=> Withheld(note[i], x, scope)
         /\ Unannounced(x, i, scope)' <=> Withheld(note'[i], x, scope)
<1>1. scope \in { "mine", "mentions", "received", "pending", "approved", "rejected" }
  BY DEF ListScope
<1>2. Unannounced(x, i, scope) <=> Withheld(note[i], x, scope)
  BY DEF Unannounced, Withheld
<1>3. Unannounced(x, i, scope)' <=> Withheld(note'[i], x, scope)
  BY DEF Unannounced, Withheld
<1>4. Listed(x, i, scope) <=> Shown(note[i], x, scope)
  BY <1>1 DEF Listed, MayList, Live, Exists, Shown
<1>5. Listed(x, i, scope)' <=> Shown(note'[i], x, scope)
  BY <1>1 DEF Listed, MayList, Live, Exists, Shown
<1> QED BY <1>2, <1>3, <1>4, <1>5

\* A step that touches neither notes nor queues nor lists nor users.
LEMMA QuietAgrees ==
  ASSUME ListsInv, UNCHANGED <<note, lists, work, active>>
  PROVE  ListsInv'
<1>1. Coming' = Coming /\ \A c \in Calls : ToApprovers(c)'
  BY DEF Coming, Outgoing, ToEmit, ListsInv, ToApprovers
<1>2. ASSUME NEW x \in Users, NEW i \in NoteIds, NEW scope \in ListScope
      PROVE  Agrees(x, i, scope)'
  <2>1. Agrees(x, i, scope)
    BY DEF ListsInv
  <2>2. /\ Listed(x, i, scope)' <=> Listed(x, i, scope)
        /\ Unannounced(x, i, scope)' <=> Unannounced(x, i, scope)
    BY ListedMeans
  <2> QED BY <1>1, <2>1, <2>2 DEF Agrees, Gains, Loses
<1> QED BY <1>1, <1>2 DEF ListsInv

\* Opening a page puts right whatever there was.
LEMMA ReloadAgrees ==
  ASSUME ListsInv, NEW u \in Users, Reload(u)
  PROVE  ListsInv'
<1>1. UNCHANGED <<note, work, active>> /\ lists' = [lists EXCEPT ![u] = Fetched(u)]
  BY DEF Reload, vars
<1>2. Coming' = Coming /\ \A c \in Calls : ToApprovers(c)'
  BY <1>1 DEF Coming, Outgoing, ToEmit, ListsInv, ToApprovers
<1>3. /\ Fetched(u) \in [ListScope -> SUBSET NoteIds]
      /\ \A scope \in ListScope, i \in NoteIds : i \in Fetched(u)[scope] <=> Listed(u, i, scope)
  BY DEF Fetched
<1>4. /\ lists' \in [Users -> [ListScope -> SUBSET NoteIds]]
      /\ lists'[u] = Fetched(u) /\ \A x \in Users \ {u} : lists'[x] = lists[x]
  BY <1>1, <1>3 DEF ListsInv
<1>5. ASSUME NEW x \in Users, NEW i \in NoteIds, NEW scope \in ListScope
      PROVE  Agrees(x, i, scope)'
  <2>1. Agrees(x, i, scope)
    BY DEF ListsInv
  <2>2. /\ Listed(x, i, scope)' <=> Listed(x, i, scope)
        /\ Unannounced(x, i, scope)' <=> Unannounced(x, i, scope)
    BY <1>1, ListedMeans
  <2>3. /\ Gains(Coming, x, i, scope)' <=> Gains(Coming, x, i, scope)
        /\ Loses(Coming, x, i, scope)' <=> Loses(Coming, x, i, scope)
    BY <1>2 DEF Gains, Loses
  <2>4. CASE x = u
    BY <1>3, <1>4, <2>1, <2>2, <2>3, <2>4 DEF Agrees
  <2>5. CASE x # u
    BY <1>4, <2>1, <2>2, <2>3, <2>5 DEF Agrees
  <2> QED BY <2>4, <2>5
<1> QED BY <1>1, <1>2, <1>4, <1>5 DEF ListsInv

\* A write of note i by the only call in flight, whose events say what changes.
LEMMA WriteAgrees ==
  ASSUME IInv, ListsInv, NEW c \in Calls, pc[c] = "loaded",
         \A k \in Calls \ {c} : pc[k] \notin Running,
         NEW i \in NoteIds, \A j \in NoteIds \ {i} : note'[j] = note[j],
         NEW jobs, Notify(c, jobs), UNCHANGED lists,
         ToApprovers(c)', \A n \in Outgoing(c)' : n.ref = i,
         \A x \in Users, scope \in ListScope :
           /\ Shown(note[i], x, scope) /\ ~Shown(note'[i], x, scope) =>
                Loses(Outgoing(c)', x, i, scope)
           /\ Shown(note'[i], x, scope) /\ ~Withheld(note'[i], x, scope) =>
                \/ Shown(note[i], x, scope) /\ ~Withheld(note[i], x, scope)
                \/ Gains(Outgoing(c)', x, i, scope)
           /\ Gains(Outgoing(c)', x, i, scope) => Shown(note'[i], x, scope)
           /\ Loses(Outgoing(c)', x, i, scope) => ~Shown(note'[i], x, scope)
  PROVE  ListsInv'
<1>1. \A k \in Calls : work[k] = <<>>
  BY OthersQuiet DEF IInv, CallsKnow, Knows
<1>2. \A k \in Calls \ {c} : work'[k] = <<>>
  BY <1>1 DEF Notify, IInv, TypeOK, NotificationsTypeOK
<1>3. Coming = {}
  BY <1>1 DEF Coming, Outgoing, ToEmit
<1>4. Coming' = Outgoing(c)'
  BY <1>2 DEF Coming, Outgoing, ToEmit
<1>5. ASSUME NEW k \in Calls PROVE ToApprovers(k)'
  BY <1>2, <1>5 DEF ToApprovers
<1>6. active' = active /\ lists' = lists
  BY DEF Notify
<1>7. ASSUME NEW x \in Users, NEW j \in NoteIds, NEW scope \in ListScope
      PROVE  Agrees(x, j, scope)'
  <2>1. /\ j \in lists[x][scope] => Shown(note[j], x, scope)
        /\ Shown(note[j], x, scope) /\ ~Withheld(note[j], x, scope) => j \in lists[x][scope]
    BY <1>3, ListedMeans DEF ListsInv, Agrees, Gains, Loses
  <2>2. CASE j = i
    <3>1. /\ Gains(Coming, x, j, scope)' <=> Gains(Outgoing(c)', x, i, scope)
          /\ Loses(Coming, x, j, scope)' <=> Loses(Outgoing(c)', x, i, scope)
      BY <1>4, <2>2 DEF Gains, Loses
    <3> QED BY <1>6, <2>1, <2>2, <3>1, ListedMeans DEF Agrees
  <2>3. CASE j # i
    <3>1. ~Gains(Coming, x, j, scope)' /\ ~Loses(Coming, x, j, scope)'
      BY <1>4, <2>3 DEF Gains, Loses
    <3>2. note'[j] = note[j]
      BY <2>3
    <3> QED BY <1>6, <2>1, <3>1, <3>2, ListedMeans DEF Agrees
  <2> QED BY <2>2, <2>3
<1> QED BY <1>5, <1>6, <1>7 DEF ListsInv

\* A step of delivery: what the clients hear is no longer to come.
LEMMA DeliveryAgrees ==
  ASSUME IInv, ListsInv, NEW c \in Calls, Deliver(c), Hear(Emitted(c))
  PROVE  ListsInv'
<1>1. /\ NotifyStep(c) /\ UNCHANGED note /\ NotificationsTypeOK
      /\ active' = active
  BY DEF Deliver, NotifyStep, IInv, TypeOK, ResolveAudience, CreateRows, PushRows, AddressEmails,
         SendEmails, Broadcast, Emit
<1>2. AudienceActive(c)
  BY DEF ListsInv, ToApprovers, AudienceActive, Reachable
<1>3. work[c] # <<>> /\ \A k \in Calls \ {c} : work'[k] = work[k]
  BY <1>1, NotifyStepKeeps
<1>4. /\ \/ /\ work[c][1].stage \in Emitting
            /\ Outgoing(c) = Outgoing(c)' \cup Current(c)
         \/ /\ work[c][1].stage \notin Emitting
            /\ Outgoing(c) = Outgoing(c)'
      /\ \A j \in DOMAIN work'[c] : work'[c][j].stage \in {"resolve", "broadcast"} =>
           \E k \in DOMAIN work[c] : work[c][k] = work'[c][j]
  BY <1>1, <1>2, NotifyStepEmits
<1>5. PICK events : events = Emitted(c)
  OBVIOUS
<1>6. events = IF work[c][1].stage \in Emitting THEN Current(c) ELSE {}
  <2>1. 1 \in DOMAIN work[c]
    BY <1>1, <1>3 DEF NotificationsTypeOK
  <2>2. work[c][1].stage = "broadcast" => Reachable(Current(c)) = Current(c)
    BY <1>2, <2>1 DEF AudienceActive, Current
  <2> QED BY <1>3, <1>5, <2>2 DEF Emitted, At, Emitting
<1>7. Outgoing(c) = Outgoing(c)' \cup events
  BY <1>4, <1>6
<1>8. Coming = Coming' \cup events
  <2>1. \A k \in Calls \ {c} : Outgoing(k)' = Outgoing(k)
    BY <1>3 DEF Outgoing, ToEmit
  <2> QED BY <1>7, <2>1 DEF Coming
<1>9. ASSUME NEW k \in Calls PROVE ToApprovers(k)'
  <2>1. CASE k = c
    BY <1>4, <2>1 DEF ListsInv, ToApprovers
  <2>2. CASE k # c
    BY <1>3, <2>2 DEF ListsInv, ToApprovers
  <2> QED BY <2>1, <2>2
<1>10. \A n \in events : n.ref \in NoteIds
  <2>1. work[c] \in Seq(Job) /\ work[c][1] \in Job
    BY <1>1, <1>3 DEF NotificationsTypeOK
  <2> QED BY <1>6, <2>1 DEF Job, Current, Notice, NoteIds
<1>11. lists' = [x \in Users |-> [scope \in ListScope |-> Heard(x, scope, events)]]
  BY <1>5 DEF Hear
<1>12. ASSUME NEW x \in Users, NEW scope \in ListScope
       PROVE  /\ lists'[x][scope] = Heard(x, scope, events)
              /\ Heard(x, scope, events) \subseteq NoteIds
              /\ \A i \in NoteIds : i \in Heard(x, scope, events) <=>
                   \/ i \in lists[x][scope] /\ ~Loses(events, x, i, scope)
                   \/ Gains(events, x, i, scope)
  BY <1>10, <1>11 DEF ListsInv, Heard, Gains, Loses
<1>13. lists' \in [Users -> [ListScope -> SUBSET NoteIds]]
  BY <1>11, <1>12
<1>14. ASSUME NEW x \in Users, NEW i \in NoteIds, NEW scope \in ListScope
       PROVE  Agrees(x, i, scope)'
  <2>1. /\ Gains(Coming, x, i, scope) <=>
             Gains(Coming, x, i, scope)' \/ Gains(events, x, i, scope)
        /\ Loses(Coming, x, i, scope) <=>
             Loses(Coming, x, i, scope)' \/ Loses(events, x, i, scope)
    BY <1>8 DEF Gains, Loses
  <2>2. /\ Listed(x, i, scope)' <=> Listed(x, i, scope)
        /\ Unannounced(x, i, scope)' <=> Unannounced(x, i, scope)
    BY <1>1, ListedMeans
  <2>3. i \in lists'[x][scope] <=> \/ i \in lists[x][scope] /\ ~Loses(events, x, i, scope)
                                   \/ Gains(events, x, i, scope)
    BY <1>12
  <2>4. Agrees(x, i, scope)
    BY DEF ListsInv
  <2> QED BY <2>1, <2>2, <2>3, <2>4 DEF Agrees
<1> QED BY <1>1, <1>9, <1>13, <1>14 DEF ListsInv

\* What a handler is about to emit that has just filled its hands.
LEMMA JustFilled ==
  ASSUME IInv, NEW c \in Calls, NEW jobs, Notify(c, jobs),
         \A j \in DOMAIN jobs :
           /\ jobs[j].stage \notin {"address", "send"}
           /\ jobs[j].stage \in {"resolve", "broadcast"} => \A n \in jobs[j].rows : n.user \in Approvers
  PROVE  /\ Outgoing(c)' = UNION { jobs[j].rows : j \in DOMAIN jobs }
         /\ ToApprovers(c)'
<1>1. work'[c] = jobs
  BY DEF Notify, IInv, TypeOK, NotificationsTypeOK
<1>2. ToEmit(c)' = DOMAIN jobs
  BY <1>1 DEF ToEmit
<1> QED BY <1>1, <1>2 DEF Outgoing, ToApprovers

\* A row and the row it becomes.
LEMMA RowReviewed ==
  ASSUME IInv, NEW i \in NoteIds, note[i] \in Row, NEW to \in {"APPROVED", "REJECTED"}, NEW x,
         note' = [note EXCEPT ![i] = Reviewed(note[i], to, x)]
  PROVE  /\ note'[i].status = to /\ note'[i].reviewedBy = x
         /\ note'[i].author = note[i].author /\ note'[i].body = note[i].body
         /\ note'[i].deleted = note[i].deleted
         /\ \A j \in NoteIds \ {i} : note'[j] = note[j]
BY DEF IInv, TypeOK, Row, Reviewed

LEMMA ApproveAgrees ==
  ASSUME IInv, ListsInv, NEW c \in Calls, ApproveNote(c), UNCHANGED lists, CheckStands(c),
         \A k \in Calls \ {c} : pc[k] \notin Running
  PROVE  ListsInv'
<1> DEFINE i == args[c].ref
           mentioned == Rows(c, note[i].body.mentions, "NOTE_MENTION", i, "createMany")
           received == Rows(c, note[i].body.recipients \ note[i].body.mentions, "NOTE_RECEIVED", i,
                            "createMany")
           author == Rows(c, {note[i].author}, "NOTE_APPROVED", i, "createMany")
           sync == Rows(c, Approvers, "SYNC_APPROVED", i, "noteSync")
           jobs == << CreateMany(mentioned \cup received \cup author),
                      [ stage |-> "broadcast", rows |-> sync ] >>
<1>1. /\ pc[c] = "loaded" /\ i \in NoteIds /\ note[i] \in Row /\ args[c].user \in Users
      /\ args[c].op = "approve"
  BY WriterKnows DEF ApproveNote, Writing, Op
<1>2. note[i].status = "PENDING" /\ ~note[i].deleted
  BY <1>1 DEF CheckStands, Accepts, Live
<1>3. Notify(c, jobs)
  BY DEF ApproveNote, ApprovalRows, ReaderRows, BroadcastNoteSync, Approvers
<1>4. /\ note'[i].status = "APPROVED" /\ note'[i].reviewedBy = args[c].user
      /\ note'[i].author = note[i].author /\ note'[i].body = note[i].body
      /\ note'[i].deleted = note[i].deleted
      /\ \A j \in NoteIds \ {i} : note'[j] = note[j]
  BY <1>1, RowReviewed DEF ApproveNote, WriteReview
<1>5. args[c].user # None
  BY <1>1, NotificationsAssumption
<1>6. Outgoing(c)' = mentioned \cup received \cup author \cup sync /\ ToApprovers(c)'
  <2>1. \A n \in sync : n.user \in Approvers
    BY RowsAbout
  <2> HIDE DEF mentioned, received, author, sync
  <2>2. \A j \in DOMAIN jobs :
          /\ jobs[j].stage \notin {"address", "send"}
          /\ jobs[j].stage \in {"resolve", "broadcast"} => \A n \in jobs[j].rows : n.user \in Approvers
    BY <2>1 DEF CreateMany
  <2>3. UNION { jobs[j].rows : j \in DOMAIN jobs } = mentioned \cup received \cup author \cup sync
    BY DEF CreateMany
  <2> HIDE DEF jobs
  <2> QED BY <1>3, <2>2, <2>3, JustFilled
<1>7. \A n \in Outgoing(c)' : n.ref = i
  <2>1. /\ \A n \in mentioned : n.ref = i
        /\ \A n \in received : n.ref = i
        /\ \A n \in author : n.ref = i
        /\ \A n \in sync : n.ref = i
    BY RowsAbout
  <2> QED BY <1>6, <2>1
<1>8. ASSUME NEW x \in Users, NEW scope \in ListScope
      PROVE  /\ Gains(Outgoing(c)', x, i, scope) <=>
                  \/ x \in note[i].body.mentions /\ scope = "mentions"
                  \/ x \in note[i].body.recipients \ note[i].body.mentions /\ scope = "received"
                  \/ x = note[i].author /\ scope = "mine"
                  \/ CanApprove(x) /\ scope = "approved"
             /\ Loses(Outgoing(c)', x, i, scope) <=> CanApprove(x) /\ scope = "pending"
  <2>1. /\ Gains(mentioned, x, i, scope) <=> x \in note[i].body.mentions /\ scope = "mentions"
        /\ ~Loses(mentioned, x, i, scope)
    BY RowsSay, SyncSays DEF Sync
  <2>2. /\ Gains(received, x, i, scope) <=>
             x \in note[i].body.recipients \ note[i].body.mentions /\ scope = "received"
        /\ ~Loses(received, x, i, scope)
    BY RowsSay, SyncSays DEF Sync
  <2>3. /\ Gains(author, x, i, scope) <=> x = note[i].author /\ scope = "mine"
        /\ ~Loses(author, x, i, scope)
    BY RowsSay, SyncSays DEF Sync
  <2>4. /\ Gains(sync, x, i, scope) <=> CanApprove(x) /\ scope = "approved"
        /\ Loses(sync, x, i, scope) <=> CanApprove(x) /\ scope = "pending"
    <3>1. x \in Approvers <=> CanApprove(x)
      BY DEF Approvers, Holders, CanApprove
    <3>2. /\ Gains(sync, x, i, scope) <=> x \in Approvers /\ scope \in SyncOf("SYNC_APPROVED").add
          /\ Loses(sync, x, i, scope) <=> x \in Approvers /\ scope \in SyncOf("SYNC_APPROVED").remove
      BY RowsSay
    <3> QED BY <3>1, <3>2, SyncSays DEF Sync
  <2> HIDE DEF mentioned, received, author, sync, jobs
  <2>5. /\ Gains(Outgoing(c)', x, i, scope) <=>
             \/ Gains(mentioned, x, i, scope) \/ Gains(received, x, i, scope)
             \/ Gains(author, x, i, scope) \/ Gains(sync, x, i, scope)
        /\ Loses(Outgoing(c)', x, i, scope) <=>
             \/ Loses(mentioned, x, i, scope) \/ Loses(received, x, i, scope)
             \/ Loses(author, x, i, scope) \/ Loses(sync, x, i, scope)
    BY <1>6 DEF Gains, Loses
  <2> QED BY <2>1, <2>2, <2>3, <2>4, <2>5
<1> HIDE DEF mentioned, received, author, sync, jobs
<1>9. ASSUME NEW x \in Users, NEW scope \in ListScope
      PROVE  /\ Shown(note[i], x, scope) /\ ~Shown(note'[i], x, scope) =>
                  Loses(Outgoing(c)', x, i, scope)
             /\ Shown(note'[i], x, scope) /\ ~Withheld(note'[i], x, scope) =>
                  \/ Shown(note[i], x, scope) /\ ~Withheld(note[i], x, scope)
                  \/ Gains(Outgoing(c)', x, i, scope)
             /\ Gains(Outgoing(c)', x, i, scope) => Shown(note'[i], x, scope)
             /\ Loses(Outgoing(c)', x, i, scope) => ~Shown(note'[i], x, scope)
  BY <1>2, <1>4, <1>5, <1>8 DEF Shown, Withheld
<1> HIDE DEF i
<1> QED BY <1>1, <1>3, <1>4, <1>6, <1>7, <1>9, WriteAgrees

LEMMA RejectAgrees ==
  ASSUME IInv, ListsInv, NEW c \in Calls, RejectNote(c), UNCHANGED lists, CheckStands(c),
         \A k \in Calls \ {c} : pc[k] \notin Running
  PROVE  ListsInv'
<1> DEFINE i == args[c].ref
           author == Rows(c, {note[i].author}, "NOTE_REJECTED", i, "createMany")
           sync == Rows(c, Approvers, "SYNC_REJECTED", i, "noteSync")
           jobs == << CreateMany(author), [ stage |-> "broadcast", rows |-> sync ] >>
<1>1. /\ pc[c] = "loaded" /\ i \in NoteIds /\ note[i] \in Row /\ args[c].op = "reject"
  BY WriterKnows DEF RejectNote, Writing, Op
<1>2. note[i].status = "PENDING" /\ ~note[i].deleted
  BY <1>1 DEF CheckStands, Accepts, Live
<1>3. Notify(c, jobs)
  BY DEF RejectNote, BroadcastNoteSync, Approvers
<1>4. /\ note'[i].status = "REJECTED" /\ note'[i].reviewedBy = args[c].user
      /\ note'[i].author = note[i].author /\ note'[i].body = note[i].body
      /\ note'[i].deleted = note[i].deleted
      /\ \A j \in NoteIds \ {i} : note'[j] = note[j]
  BY <1>1, RowReviewed DEF RejectNote, WriteReview
<1>5. Outgoing(c)' = author \cup sync /\ ToApprovers(c)'
  <2>1. \A n \in sync : n.user \in Approvers
    BY RowsAbout
  <2> HIDE DEF author, sync
  <2>2. \A j \in DOMAIN jobs :
          /\ jobs[j].stage \notin {"address", "send"}
          /\ jobs[j].stage \in {"resolve", "broadcast"} => \A n \in jobs[j].rows : n.user \in Approvers
    BY <2>1 DEF CreateMany
  <2>3. UNION { jobs[j].rows : j \in DOMAIN jobs } = author \cup sync
    BY DEF CreateMany
  <2> HIDE DEF jobs
  <2> QED BY <1>3, <2>2, <2>3, JustFilled
<1>6. \A n \in Outgoing(c)' : n.ref = i
  <2>1. (\A n \in author : n.ref = i) /\ (\A n \in sync : n.ref = i)
    BY RowsAbout
  <2> QED BY <1>5, <2>1
<1>7. ASSUME NEW x \in Users, NEW scope \in ListScope
      PROVE  /\ Gains(Outgoing(c)', x, i, scope) <=>
                  \/ x = note[i].author /\ scope = "mine"
                  \/ CanApprove(x) /\ scope = "rejected"
             /\ Loses(Outgoing(c)', x, i, scope) <=> CanApprove(x) /\ scope = "pending"
  <2>1. /\ Gains(author, x, i, scope) <=> x = note[i].author /\ scope = "mine"
        /\ ~Loses(author, x, i, scope)
    BY RowsSay, SyncSays DEF Sync
  <2>2. /\ Gains(sync, x, i, scope) <=> x \in Approvers /\ scope = "rejected"
        /\ Loses(sync, x, i, scope) <=> x \in Approvers /\ scope = "pending"
    BY RowsSay, SyncSays DEF Sync
  <2>3. x \in Approvers <=> CanApprove(x)
    BY DEF Approvers, Holders, CanApprove
  <2> HIDE DEF author, sync, jobs
  <2>4. /\ Gains(Outgoing(c)', x, i, scope) <=>
             Gains(author, x, i, scope) \/ Gains(sync, x, i, scope)
        /\ Loses(Outgoing(c)', x, i, scope) <=>
             Loses(author, x, i, scope) \/ Loses(sync, x, i, scope)
    BY <1>5 DEF Gains, Loses
  <2> QED BY <2>1, <2>2, <2>3, <2>4
<1> HIDE DEF author, sync, jobs
<1>8. ASSUME NEW x \in Users, NEW scope \in ListScope
      PROVE  /\ Shown(note[i], x, scope) /\ ~Shown(note'[i], x, scope) =>
                  Loses(Outgoing(c)', x, i, scope)
             /\ Shown(note'[i], x, scope) /\ ~Withheld(note'[i], x, scope) =>
                  \/ Shown(note[i], x, scope) /\ ~Withheld(note[i], x, scope)
                  \/ Gains(Outgoing(c)', x, i, scope)
             /\ Gains(Outgoing(c)', x, i, scope) => Shown(note'[i], x, scope)
             /\ Loses(Outgoing(c)', x, i, scope) => ~Shown(note'[i], x, scope)
  BY <1>2, <1>4, <1>7 DEF Shown, Withheld
<1> HIDE DEF i
<1> QED BY <1>1, <1>3, <1>4, <1>5, <1>6, <1>8, WriteAgrees

\* A deleted note leaves the lists it was in, those its status of the time allows.
LEMMA DeleteAgrees ==
  ASSUME IInv, ListsInv, NEW c \in Calls, DeleteNote(c), UNCHANGED lists,
         args[c].seen = note[args[c].ref].status,
         \A k \in Calls \ {c} : pc[k] \notin Running
  PROVE  ListsInv'
<1> DEFINE i == args[c].ref
           drop == DropSync(note[i].status)
           readers == (note[i].body.mentions \cup note[i].body.recipients) \ {note[i].author}
           author == Rows(c, {note[i].author}, drop, i, "noteSync")
           sync == Rows(c, Approvers, drop, i, "noteSync")
           others == Rows(c, readers, drop, i, "noteSync")
           jobs == << [ stage |-> "emit", rows |-> author ],
                      [ stage |-> "broadcast", rows |-> sync ],
                      [ stage |-> "emit", rows |-> others ] >>
<1>1. pc[c] = "loaded" /\ i \in NoteIds /\ note[i] \in Row
  BY WriterKnows DEF DeleteNote, Writing, Op
<1>2. Notify(c, jobs)
  BY DEF DeleteNote, EmitNoteSync, BroadcastNoteSync, Approvers
<1>3. /\ note'[i].deleted = TRUE /\ \A j \in NoteIds \ {i} : note'[j] = note[j]
  BY <1>1 DEF DeleteNote, IInv, TypeOK, Row
<1>4. Outgoing(c)' = author \cup sync \cup others /\ ToApprovers(c)'
  <2>1. \A n \in sync : n.user \in Approvers
    BY RowsAbout
  <2> HIDE DEF author, sync, others
  <2>2. \A j \in DOMAIN jobs :
          /\ jobs[j].stage \notin {"address", "send"}
          /\ jobs[j].stage \in {"resolve", "broadcast"} => \A n \in jobs[j].rows : n.user \in Approvers
    BY <2>1
  <2>3. UNION { jobs[j].rows : j \in DOMAIN jobs } = author \cup sync \cup others
    OBVIOUS
  <2> HIDE DEF jobs
  <2> QED BY <1>2, <2>2, <2>3, JustFilled
<1>5. \A n \in Outgoing(c)' : n.ref = i
  <2>1. (\A n \in author : n.ref = i) /\ (\A n \in sync : n.ref = i) /\ (\A n \in others : n.ref = i)
    BY RowsAbout
  <2> QED BY <1>4, <2>1
<1>6. ASSUME NEW x \in Users, NEW scope \in ListScope
      PROVE  /\ ~Gains(Outgoing(c)', x, i, scope)
             /\ Shown(note[i], x, scope) => Loses(Outgoing(c)', x, i, scope)
  <2>1. x \in Approvers <=> CanApprove(x)
    BY DEF Approvers, Holders, CanApprove
  <2>2. /\ SyncOf(drop).add = {}
        /\ Shown(note[i], x, scope) => scope \in SyncOf(drop).remove
    <3>1. note[i].status \in Status
      BY <1>1 DEF Row
    <3>2. /\ note[i].status = "PENDING" => SyncOf(drop) = Sync({}, {"mine", "pending"})
          /\ note[i].status = "APPROVED" =>
               SyncOf(drop) = Sync({}, {"mine", "approved", "mentions", "received"})
          /\ note[i].status = "REJECTED" => SyncOf(drop) = Sync({}, {"mine", "rejected"})
      BY SyncSays
    <3> HIDE DEF drop
    <3> QED BY <3>1, <3>2 DEF Status, Sync, Shown
  <2>3. Shown(note[i], x, scope) => x \in {note[i].author} \/ x \in Approvers \/ x \in readers
    BY <2>1 DEF Shown
  <2> HIDE DEF drop, readers
  <2>4. /\ ~Gains(author, x, i, scope) /\ ~Gains(sync, x, i, scope) /\ ~Gains(others, x, i, scope)
        /\ Loses(author, x, i, scope) <=> x \in {note[i].author} /\ scope \in SyncOf(drop).remove
        /\ Loses(sync, x, i, scope) <=> x \in Approvers /\ scope \in SyncOf(drop).remove
        /\ Loses(others, x, i, scope) <=> x \in readers /\ scope \in SyncOf(drop).remove
    BY <2>2, RowsSay
  <2> HIDE DEF author, sync, others, jobs
  <2>5. /\ Gains(Outgoing(c)', x, i, scope) <=>
             \/ Gains(author, x, i, scope) \/ Gains(sync, x, i, scope) \/ Gains(others, x, i, scope)
        /\ Loses(Outgoing(c)', x, i, scope) <=>
             \/ Loses(author, x, i, scope) \/ Loses(sync, x, i, scope) \/ Loses(others, x, i, scope)
    BY <1>4 DEF Gains, Loses
  <2> QED BY <2>2, <2>3, <2>4, <2>5
<1>7. \A x \in Users, scope \in ListScope : ~Shown(note'[i], x, scope)
  BY <1>3 DEF Shown
<1> HIDE DEF i, jobs
<1> QED BY <1>1, <1>2, <1>3, <1>4, <1>5, <1>6, <1>7, WriteAgrees

\* A new note is in its author's list, and either awaits the other approvers or
\* is with its readers at once.
LEMMA InsertAgrees ==
  ASSUME IInv, ListsInv, NEW c \in Calls, InsertNote(c), UNCHANGED lists,
         \A k \in Calls \ {c} : pc[k] \notin Running
  PROVE  ListsInv'
<1> DEFINE a == args[c]
           skips == SkipsApproval(a.user)
<1>0. PICK row : row = Filed(a)
  OBVIOUS
<1>1. PICK i \in NoteIds :
        /\ ~Exists(i) /\ note' = [note EXCEPT ![i] = row]
        /\ Notify(c, << EmitNoteSync(c, {a.user}, "SYNC_MINE", i) >> \o
             IF skips
               THEN CreateManyIfAny(ReaderRows(c, i, a.body))
               ELSE << NotifyUsersWithPermission(c, "NOTE_APPROVE_REJECT", "NOTE_PENDING",
                                                 i, {a.user}) >>)
  BY <1>0 DEF InsertNote
<1> DEFINE mine == Rows(c, {a.user}, "SYNC_MINE", i, "noteSync")
           mentioned == Rows(c, a.body.mentions, "NOTE_MENTION", i, "createMany")
           received == Rows(c, a.body.recipients \ a.body.mentions, "NOTE_RECEIVED", i, "createMany")
           pending == Rows(c, Approvers \ {a.user}, "NOTE_PENDING", i, "notifyUsersWithPermission")
           first == [ stage |-> "emit", rows |-> mine ]
           told == CreateMany(mentioned \cup received)
           asked == [ stage |-> "resolve", rows |-> pending ]
           jobs == << first >> \o IF skips THEN CreateManyIfAny(mentioned \cup received)
                                           ELSE << asked >>
<1>2. Notify(c, jobs)
  BY <1>1 DEF EmitNoteSync, ReaderRows, NotifyUsersWithPermission, Approvers
<1>3. /\ row.status = IF skips THEN "APPROVED" ELSE "PENDING"
      /\ row.deleted = FALSE /\ row.author = a.user /\ row.body = a.body /\ row.reviewedBy = None
  BY <1>0 DEF Filed, Absent
<1>4. /\ note'[i] = row /\ \A j \in NoteIds \ {i} : note'[j] = note[j]
      /\ note[i].status = "ABSENT" /\ pc[c] = "loaded"
  BY <1>1 DEF IInv, TypeOK, Exists, InsertNote, Writing
<1>5. /\ Outgoing(c)' = mine \cup (IF skips THEN mentioned \cup received ELSE pending)
      /\ ToApprovers(c)'
  <2>1. \A n \in pending : n.user \in Approvers
    BY RowsAbout
  <2>2. \/ jobs = << first >> /\ skips /\ mentioned \cup received = {}
        \/ jobs = << first, told >> /\ skips
        \/ jobs = << first, asked >> /\ ~skips
    <3> DEFINE S == {first, told, asked}
               rows == mentioned \cup received
    <3>1. first \in S /\ told \in S /\ asked \in S
      OBVIOUS
    <3>2. CreateManyIfAny(rows) = IF rows = {} THEN <<>> ELSE << told >>
      BY DEF CreateManyIfAny
    <3> HIDE DEF S, first, told, asked, rows, skips
    <3>3. /\ << first >> \o <<>> = << first >> /\ << first >> \o << told >> = << first, told >>
          /\ << first >> \o << asked >> = << first, asked >>
      BY <3>1, Appended
    <3> QED BY <3>2, <3>3 DEF rows
  <2> HIDE DEF mine, mentioned, received, pending, jobs, skips
  <2>3. /\ \A j \in DOMAIN jobs :
             /\ jobs[j].stage \notin {"address", "send"}
             /\ jobs[j].stage \in {"resolve", "broadcast"} =>
                  \A n \in jobs[j].rows : n.user \in Approvers
        /\ UNION { jobs[j].rows : j \in DOMAIN jobs } =
             mine \cup (IF skips THEN mentioned \cup received ELSE pending)
    <3>1. CASE jobs = << first >> /\ skips /\ mentioned \cup received = {}
      BY <3>1
    <3>2. CASE jobs = << first, told >> /\ skips
      BY <3>2 DEF CreateMany
    <3>3. CASE jobs = << first, asked >> /\ ~skips
      BY <2>1, <3>3
    <3> QED BY <2>2, <3>1, <3>2, <3>3
  <2> QED BY <1>2, <2>3, JustFilled
<1>6. \A n \in Outgoing(c)' : n.ref = i
  <2>1. /\ \A n \in mine : n.ref = i
        /\ \A n \in mentioned : n.ref = i
        /\ \A n \in received : n.ref = i
        /\ \A n \in pending : n.ref = i
    BY RowsAbout
  <2> QED BY <1>5, <2>1
<1>7. ASSUME NEW x \in Users, NEW scope \in ListScope
      PROVE  /\ Gains(Outgoing(c)', x, i, scope) <=>
                  \/ x = a.user /\ scope = "mine"
                  \/ skips /\ x \in a.body.mentions /\ scope = "mentions"
                  \/ skips /\ x \in a.body.recipients \ a.body.mentions /\ scope = "received"
                  \/ ~skips /\ CanApprove(x) /\ x # a.user /\ scope = "pending"
             /\ ~Loses(Outgoing(c)', x, i, scope)
  <2>1. /\ Gains(mine, x, i, scope) <=> x = a.user /\ scope = "mine"
        /\ ~Loses(mine, x, i, scope)
    BY RowsSay, SyncSays DEF Sync
  <2>2. /\ Gains(mentioned, x, i, scope) <=> x \in a.body.mentions /\ scope = "mentions"
        /\ ~Loses(mentioned, x, i, scope)
    BY RowsSay, SyncSays DEF Sync
  <2>3. /\ Gains(received, x, i, scope) <=>
             x \in a.body.recipients \ a.body.mentions /\ scope = "received"
        /\ ~Loses(received, x, i, scope)
    BY RowsSay, SyncSays DEF Sync
  <2>4. /\ Gains(pending, x, i, scope) <=> x \in Approvers \ {a.user} /\ scope = "pending"
        /\ ~Loses(pending, x, i, scope)
    BY RowsSay, SyncSays DEF Sync
  <2>5. x \in Approvers <=> CanApprove(x)
    BY DEF Approvers, Holders, CanApprove
  <2> HIDE DEF mine, mentioned, received, pending, jobs, skips
  <2>6. /\ Gains(Outgoing(c)', x, i, scope) <=>
             \/ Gains(mine, x, i, scope)
             \/ skips /\ (Gains(mentioned, x, i, scope) \/ Gains(received, x, i, scope))
             \/ ~skips /\ Gains(pending, x, i, scope)
        /\ Loses(Outgoing(c)', x, i, scope) <=>
             \/ Loses(mine, x, i, scope)
             \/ skips /\ (Loses(mentioned, x, i, scope) \/ Loses(received, x, i, scope))
             \/ ~skips /\ Loses(pending, x, i, scope)
    BY <1>5 DEF Gains, Loses
  <2> QED BY <2>1, <2>2, <2>3, <2>4, <2>5, <2>6
<1> HIDE DEF skips, jobs
<1>8. ASSUME NEW x \in Users, NEW scope \in ListScope
      PROVE  /\ Shown(note[i], x, scope) /\ ~Shown(note'[i], x, scope) =>
                  Loses(Outgoing(c)', x, i, scope)
             /\ Shown(note'[i], x, scope) /\ ~Withheld(note'[i], x, scope) =>
                  \/ Shown(note[i], x, scope) /\ ~Withheld(note[i], x, scope)
                  \/ Gains(Outgoing(c)', x, i, scope)
             /\ Gains(Outgoing(c)', x, i, scope) => Shown(note'[i], x, scope)
             /\ Loses(Outgoing(c)', x, i, scope) => ~Shown(note'[i], x, scope)
  BY <1>3, <1>4, <1>7 DEF Shown, Withheld
<1> QED BY <1>2, <1>4, <1>5, <1>6, <1>8, WriteAgrees

\* What softDelete goes by is the status it read.
SeenStands ==
  \A c \in Calls :
    pc[c] = "loaded" /\ args[c].op # "create" => args[c].seen = note[args[c].ref].status

LEMMA SeenStepKeeps ==
  ASSUME IInv, IInv', SerialInv, SeenStands, NEW c \in Calls,
         \/ Step(c) \/ Fail(c)
         \/ \E a \in Request : Start(c, a) /\ WithinBounds(a),
         Serial
  PROVE  SeenStands'
<1>1. \A k \in Calls \ {c} : pc'[k] = pc[k] /\ pc[k] \notin Running
  <2>1. CASE Step(c) \/ Fail(c)
    BY <2>1, OneMoves DEF SerialInv, OneAtATime, InFlight
  <2>2. CASE \E a \in Request : Start(c, a) /\ WithinBounds(a)
    BY <2>2, StartsAlone DEF InFlight, Start, Goto, IInv, TypeOK
  <2> QED BY <2>1, <2>2
<1>2. ASSUME pc'[c] = "loaded", args'[c].op # "create"
      PROVE  args'[c].seen = note'[args'[c].ref].status
  <2>1. LoadNote(c) \/ CheckCitations(c)
    BY <1>2 DEF Step, CheckAddressees, InsertNote, ApproveNote, RejectNote, InsertSubNote, DeleteNote,
                Deliver, Respond, Fail, Start, Writing, Notify, Goto, IInv, TypeOK
  <2>2. CASE LoadNote(c)
    BY <1>2, <2>2 DEF LoadNote, Goto, IInv, TypeOK
  <2>3. CASE CheckCitations(c)
    BY <1>2, <2>3 DEF CheckCitations, IInv, CallsKnow, Knows
  <2> QED BY <2>1, <2>2, <2>3
<1> QED BY <1>1, <1>2 DEF SeenStands, Running

\* The steps of the bounded behaviours, and what the clients do in them.
LEMMA AttendedStep ==
  ASSUME [MCNext]_mcVars, Attended
  PROVE  \/ UNCHANGED <<note, lists, work, active>>
         \/ \E c \in Calls :
              \/ /\ InsertNote(c) \/ ApproveNote(c) \/ RejectNote(c) \/ DeleteNote(c)
                 /\ UNCHANGED lists
              \/ Deliver(c) /\ Hear(Emitted(c))
         \/ \E x \in Users : \/ ToggleUser(x) /\ x \notin Approvers /\ UNCHANGED lists
                             \/ Reload(x)
<1>1. CASE UNCHANGED mcVars
  BY <1>1 DEF mcVars, listVars, vars
<1>2. CASE \E c \in Calls, a \in Request : Start(c, a) /\ WithinBounds(a) /\ Quietly
  BY <1>2 DEF Start, notifyVars, Quietly
<1>3. ASSUME NEW c \in Calls, Quietly,
             \/ CheckAddressees(c) \/ CheckCitations(c) \/ LoadNote(c) \/ InsertSubNote(c)
             \/ Respond(c)
      PROVE  UNCHANGED <<note, lists, work, active>>
  BY <1>3 DEF CheckAddressees, CheckCitations, LoadNote, InsertSubNote, Respond, notifyVars, Quietly
<1>4. ASSUME NEW x \in Users, x \in bounds.toggles PROVE x \notin Approvers
  BY <1>4 DEF Attended, Approvers
<1>5. bounds.clients /\ ~bounds.failures
  BY DEF Attended
<1>6. CASE MCNext
  BY <1>2, <1>3, <1>4, <1>5, <1>6 DEF MCNext, Quietly
<1> QED BY <1>1, <1>6

\* For any users, permissions, notes and number of calls: as long as one call is
\* handled at a time, none fails and no approver is switched off, a client that
\* only listens to note:sync shows what GET /notes would (noteSync of create,
\* approve, reject and softDelete, noteListScopesForSync, buildListWhere).
THEOREM ClientsAlwaysAgree == MCSpec => []ClientsAgree
<1> DEFINE Inv == IInv /\ (Serial => SerialInv /\ SeenStands) /\ (Attended => ListsInv)
<1>1. MCInit => Inv
  <2> SUFFICES ASSUME MCInit PROVE Inv
    OBVIOUS
  <2>1. Init /\ lists = [x \in Users |-> [scope \in ListScope |-> {}]]
    BY DEF MCInit, ListsInit
  <2>2. SerialInv /\ SeenStands
    BY <2>1 DEF Init, SerialInv, OneAtATime, InFlight, Running, ChecksStand, CheckStands,
                SeenStands
  <2>3. /\ \A c \in Calls : work[c] = <<>>
        /\ active = Users
    BY <2>1 DEF Init, NotificationsInit
  <2>4. Coming = {} /\ \A c \in Calls : ToApprovers(c)
    BY <2>3 DEF Coming, Outgoing, ToEmit, ToApprovers
  <2>5. ASSUME NEW x \in Users, NEW i \in NoteIds, NEW scope \in ListScope PROVE Agrees(x, i, scope)
    <3>1. ~Shown(note[i], x, scope) /\ i \notin lists[x][scope]
      BY <2>1 DEF Init, Shown, Absent
    <3> QED BY <2>4, <3>1, ListedMeans DEF Agrees, Gains, Loses
  <2>6. ListsInv
    BY <2>1, <2>3, <2>4, <2>5 DEF ListsInv, Approvers, Holders
  <2> QED BY <2>1, <2>2, <2>6, InitEstablishes
<1>2. Inv /\ [MCNext]_mcVars => Inv'
  <2> SUFFICES ASSUME Inv, [MCNext]_mcVars PROVE Inv'
    OBVIOUS
  <2>1. /\ IInv' /\ bounds' = bounds
        /\ \/ UNCHANGED vars
           \/ \E x \in Users : ToggleUser(x)
           \/ \E c \in Calls : \/ Step(c) \/ Fail(c)
                               \/ \E a \in Request : Start(c, a) /\ WithinBounds(a)
    BY BoundedStep, StepKeeps
  <2>2. ASSUME Serial PROVE SerialInv' /\ SeenStands'
    <3>1. ASSUME UNCHANGED <<note, pc, args>> PROVE SerialInv' /\ SeenStands'
      BY <2>2, <3>1
         DEF SerialInv, OneAtATime, InFlight, ChecksStand, CheckStands, CitationsOK, Accepts, Live,
             Exists, MayReference, Addressed, SeenStands
    <3>2. ASSUME NEW c \in Calls, \/ Step(c) \/ Fail(c)
                                  \/ \E a \in Request : Start(c, a) /\ WithinBounds(a)
          PROVE  SerialInv' /\ SeenStands'
      BY <2>1, <2>2, <3>2, SerialStepKeeps, SeenStepKeeps
    <3> QED BY <2>1, <3>1, <3>2 DEF vars, ToggleUser
  <2>3. ASSUME Attended PROVE ListsInv'
    <3>1. SerialInv /\ SeenStands /\ ListsInv
      BY <2>3 DEF Attended
    <3>2. ASSUME NEW c \in Calls, UNCHANGED lists,
                 InsertNote(c) \/ ApproveNote(c) \/ RejectNote(c) \/ DeleteNote(c)
          PROVE  ListsInv'
      <4>1. \A k \in Calls \ {c} : pc[k] \notin Running
        BY <3>1, <3>2, OneMoves DEF Step, SerialInv, OneAtATime, InFlight
      <4>2. CheckStands(c)
        BY <3>1 DEF SerialInv, ChecksStand
      <4>3. DeleteNote(c) => args[c].seen = note[args[c].ref].status
        BY <3>1 DEF SeenStands, DeleteNote, Writing
      <4> QED BY <3>1, <3>2, <4>1, <4>2, <4>3, InsertAgrees, ApproveAgrees, RejectAgrees, DeleteAgrees
    <3>3. ASSUME NEW x \in Users, ToggleUser(x), x \notin Approvers, UNCHANGED lists
          PROVE  ListsInv'
      <4>1. UNCHANGED <<note, work, lists>> /\ Approvers \subseteq active'
        BY <3>1, <3>3 DEF ToggleUser, Deactivate, Reactivate, notifyVars, ListsInv
      <4>2. Coming' = Coming /\ \A c \in Calls : ToApprovers(c)'
        BY <3>1, <4>1 DEF Coming, Outgoing, ToEmit, ListsInv, ToApprovers
      <4>3. ASSUME NEW y \in Users, NEW i \in NoteIds, NEW scope \in ListScope
            PROVE  Agrees(y, i, scope)'
        BY <3>1, <4>1, <4>2, ListedMeans DEF ListsInv, Agrees, Gains, Loses
      <4> QED BY <3>1, <4>1, <4>2, <4>3 DEF ListsInv
    <3> QED BY <2>3, <3>1, <3>2, <3>3, AttendedStep, QuietAgrees, DeliveryAgrees, ReloadAgrees
  <2>4. (Serial' => Serial) /\ (Attended' => Attended)
    BY <2>1 DEF Serial, Attended
  <2> QED BY <2>1, <2>2, <2>3, <2>4
<1>3. Inv => ClientsAgree
  <2> SUFFICES ASSUME IInv, ListsInv, Quiet PROVE ListsAgree
    BY DEF ClientsAgree, ListsAgree
  <2>1. Coming = {}
    <3>1. \A c \in Calls : work[c] = <<>>
      BY OthersQuiet DEF Quiet
    <3> QED BY <3>1 DEF Coming, Outgoing, ToEmit
  <2>2. \A x \in Users, i \in NoteIds, scope \in ListScope :
          /\ ~Gains(Coming, x, i, scope) /\ ~Loses(Coming, x, i, scope)
          /\ Agrees(x, i, scope)
    BY <2>1 DEF Gains, Loses, ListsInv
  <2> QED BY <2>2 DEF Agrees, ListsAgree
<1> QED BY <1>1, <1>2, <1>3, PTL DEF MCSpec
=============================================================================
