----------------------------- MODULE InboxProofs -----------------------------
(***************************************************************************)
(* The inbox, for any users, sockets and batches: whose rows are read and  *)
(* shown on any number of instances, and that one instance misses nothing. *)
(***************************************************************************)
EXTENDS Inbox, TLAPS, FiniteSetTheorems

\* A row that is stored is for somebody its batch was made for.
RowsOfBatches == \A n \in Stored : n[2] \in batch[n[1]].to

\* What a client knows is stored and is its user's, and it has not polled since
\* it joined unless it has joined.
ClientsKnow ==
  \A s \in Sockets :
    /\ \A n \in shown[s] : n \in Stored /\ n[2] = socket[s].user
    /\ socket[s].polled => socket[s].state = "joined"

\* A batch that is there has its rows in the table.
BatchesStored == \A c \in Calls : \A x \in batch[c].to : <<c, x>> \in Stored

IInv == TypeOK /\ RowsOfBatches /\ BatchesStored /\ ClientsKnow

OneInstance == \A j, k \in Instances : j = k

----------------------------------------------------------------------------
(* The table.                                                              *)

\* An empty table stores nothing, and one that is typed stores ids of rows.
LEMMA StoredTyped ==
  ASSUME rows \in Seq(NoticeId)
  PROVE  /\ Stored \subseteq NoticeId
         /\ \A n \in Stored : n[1] \in Calls /\ n[2] \in Users /\ n = <<n[1], n[2]>>
BY DEF Stored, NoticeId

\* Rows newer than a row are finitely many.
LEMMA NewerFinite ==
  ASSUME rows \in Seq(NoticeId), NEW n
  PROVE  IsFiniteSet(Newer(n)) /\ Cardinality(Newer(n)) \in Nat
<1>1. IsFiniteSet(1..Len(rows))
  BY FS_Interval
<1>2. Newer(n) \subseteq 1..Len(rows)
  BY DEF Newer
<1> QED BY <1>1, <1>2, FS_Subset, FS_CardinalityType

\* What a committed batch does to the table.
LEMMA RowsAppended ==
  ASSUME TypeOK, NEW c \in Calls, NEW k \in Instances, NEW to \in Audiences,
         CommitRows(c, k, to)
  PROVE  /\ rows' \in Seq(NoticeId)
         /\ Stored' = Stored \cup { <<c, x>> : x \in to }
         /\ \A n : Newer(n) \subseteq Newer(n)'
<1>1. to \subseteq Users /\ IsFiniteSet(to)
  BY InboxAssumption, FS_Subset
<1>2. Cardinality(to) \in Nat
  BY <1>1, FS_CardinalityType
<1> DEFINE made == { <<c, x>> : x \in to }
<1>3. PICK new \in [1..Cardinality(to) -> made] :
        /\ \A x \in to : \E j \in DOMAIN new : new[j] = <<c, x>>
        /\ rows' = rows \o new
  BY DEF CommitRows
<1>4. made \subseteq NoticeId
  BY <1>1 DEF NoticeId
<1>5. new \in Seq(made) /\ Len(new) = Cardinality(to) /\ DOMAIN new = 1..Cardinality(to)
  BY <1>2, <1>3
<1>6. rows \in Seq(NoticeId) /\ new \in Seq(NoticeId)
  BY <1>4, <1>5 DEF TypeOK
<1> HIDE DEF made
<1>7. /\ rows' \in Seq(NoticeId)
      /\ DOMAIN rows = 1..Len(rows)
      /\ Len(rows') = Len(rows) + Len(new)
      /\ DOMAIN rows' = 1..(Len(rows) + Len(new))
      /\ \A j \in 1..Len(rows) : rows'[j] = rows[j]
      /\ \A j \in 1..Len(new) : rows'[Len(rows) + j] = new[j]
  BY <1>3, <1>6
<1>8. Stored \subseteq Stored'
  BY <1>5, <1>6, <1>7 DEF Stored
<1>9. made \subseteq Stored'
  <2> SUFFICES ASSUME NEW x \in to PROVE <<c, x>> \in Stored'
    BY DEF made
  <2>1. PICK j \in 1..Len(new) : new[j] = <<c, x>>
    BY <1>3, <1>5
  <2>2. Len(rows) + j \in DOMAIN rows' /\ rows'[Len(rows) + j] = <<c, x>>
    BY <1>6, <1>7, <2>1
  <2> QED BY <2>2 DEF Stored
<1>10. Stored' \subseteq Stored \cup made
  <2> SUFFICES ASSUME NEW j \in DOMAIN rows' PROVE rows'[j] \in Stored \cup made
    BY DEF Stored
  <2>1. CASE j <= Len(rows)
    BY <1>6, <1>7, <2>1 DEF Stored
  <2>2. CASE j > Len(rows)
    <3>1. j - Len(rows) \in 1..Len(new) /\ j = Len(rows) + (j - Len(rows))
      BY <1>6, <1>7, <2>2
    <3> QED BY <1>3, <1>5, <1>7, <3>1
  <2> QED BY <1>6, <1>7, <2>1, <2>2
<1>11. ASSUME NEW n PROVE Newer(n) \subseteq Newer(n)'
  <2> SUFFICES ASSUME NEW i \in Newer(n) PROVE i \in Newer(n)'
    OBVIOUS
  <2>1. PICK j \in 1..(i - 1) : rows[j] = n
    BY DEF Newer
  <2>2. i \in 1..Len(rows) /\ rows[i][2] = n[2] /\ j \in 1..Len(rows)
    BY <1>7, <2>1 DEF Newer
  <2> QED BY <1>5, <1>7, <2>1, <2>2 DEF Newer
<1> QED BY <1>7, <1>8, <1>9, <1>10, <1>11 DEF made

----------------------------------------------------------------------------
(* The invariant.                                                          *)

THEOREM InitEstablishes == Init => IInv
<1> SUFFICES ASSUME Init PROVE IInv
  OBVIOUS
<1>1. Stored = {}
  BY DEF Init, Stored
<1>2. TypeOK
  BY <1>1 DEF Init, TypeOK, NoticeId, NoBatch, Closed
<1>3. RowsOfBatches /\ BatchesStored /\ ClientsKnow
  BY <1>1 DEF Init, RowsOfBatches, BatchesStored, ClientsKnow, NoBatch, Closed
<1> QED BY <1>2, <1>3 DEF IInv

\* A step that leaves the table and the batches alone.
LEMMA TableUntouched ==
  ASSUME IInv, UNCHANGED <<rows, batch>>
  PROVE  /\ Stored' = Stored
         /\ \A n : Newer(n)' = Newer(n)
         /\ RowsOfBatches' /\ BatchesStored'
BY DEF IInv, Stored, Newer, RowsOfBatches, BatchesStored

\* The handshake and the end of a socket.
LEMMA SocketKeeps ==
  ASSUME IInv, NEW s \in Sockets,
         (\E x \in Users, k \in Instances : Connect(s, x, k))
           \/ Admit(s) \/ Join(s) \/ Disconnect(s)
  PROVE  IInv'
<1>1. UNCHANGED <<active, rows, read, marks, batch>>
  BY DEF Connect, Admit, Join, Disconnect
<1>2. Stored' = Stored /\ RowsOfBatches' /\ BatchesStored'
  BY <1>1, TableUntouched
<1>3. CASE \E x \in Users, k \in Instances : Connect(s, x, k)
  <2> PICK x \in Users, k \in Instances : Connect(s, x, k)
    BY <1>3
  <2>1. TypeOK'
    BY <1>1, <1>2 DEF IInv, TypeOK, Connect, Socket
  <2>2. ClientsKnow'
    BY <1>2 DEF IInv, TypeOK, ClientsKnow, Connect
  <2> QED BY <1>2, <2>1, <2>2 DEF IInv
<1>4. CASE Admit(s) \/ Join(s)
  <2>1. socket[s] \in Socket
    BY <1>4 DEF IInv, TypeOK, Admit, Join, Closed
  <2>2. TypeOK'
    BY <1>1, <1>2, <1>4, <2>1 DEF IInv, TypeOK, Admit, Join, Socket
  <2>3. ClientsKnow'
    BY <1>2, <1>4, <2>1 DEF IInv, TypeOK, ClientsKnow, Admit, Join, Socket
  <2> QED BY <1>2, <2>2, <2>3 DEF IInv
<1>5. CASE Disconnect(s)
  <2>1. TypeOK'
    BY <1>1, <1>2, <1>5 DEF IInv, TypeOK, Disconnect
  <2>2. ClientsKnow'
    BY <1>2, <1>5 DEF IInv, TypeOK, ClientsKnow, Disconnect, Closed
  <2> QED BY <1>2, <2>1, <2>2 DEF IInv
<1> QED BY <1>3, <1>4, <1>5

LEMMA PollKeeps ==
  ASSUME IInv, NEW s \in Sockets, Poll(s)
  PROVE  IInv'
<1>1. Stored' = Stored /\ RowsOfBatches' /\ BatchesStored'
  BY TableUntouched DEF Poll
<1>2. socket[s] \in Socket
  BY DEF IInv, TypeOK, Poll
<1>3. Latest(socket[s].user) \subseteq { n \in Stored : n[2] = socket[s].user }
  BY DEF Latest
<1>4. Stored \subseteq NoticeId
  BY StoredTyped DEF IInv, TypeOK
<1>5. TypeOK'
  BY <1>1, <1>2, <1>3, <1>4 DEF IInv, TypeOK, Poll, Socket
<1>6. ClientsKnow'
  BY <1>1, <1>2, <1>3 DEF IInv, TypeOK, ClientsKnow, Poll, Socket
<1> QED BY <1>1, <1>5, <1>6 DEF IInv

LEMMA CommitKeeps ==
  ASSUME IInv, NEW c \in Calls, NEW k \in Instances, NEW to \in Audiences,
         CommitRows(c, k, to)
  PROVE  IInv'
<1>1. /\ rows' \in Seq(NoticeId)
      /\ Stored' = Stored \cup { <<c, x>> : x \in to }
  BY RowsAppended DEF IInv
<1>2. to \subseteq Users
  BY InboxAssumption
<1>3. \A n \in Stored : n[1] \in Calls \ {c}
  BY StoredTyped DEF IInv, TypeOK, CommitRows, RowsOfBatches, NoBatch
<1>4. TypeOK'
  BY <1>1, <1>2 DEF IInv, TypeOK, CommitRows, Batch
<1>5. batch'[c].to = to /\ \A b \in Calls \ {c} : batch'[b] = batch[b]
  BY DEF IInv, TypeOK, CommitRows
<1>6. RowsOfBatches'
  BY <1>1, <1>3, <1>5 DEF IInv, RowsOfBatches
<1>7. BatchesStored'
  BY <1>1, <1>5 DEF IInv, BatchesStored
<1>8. ClientsKnow'
  BY <1>1 DEF IInv, ClientsKnow, CommitRows
<1> QED BY <1>4, <1>6, <1>7, <1>8 DEF IInv

\* The end of a batch, with or without its events.
LEMMA BatchEnds ==
  ASSUME IInv, NEW c \in Calls, NEW how \in {"done", "failed"},
         batch[c].state = "committed", batch' = [batch EXCEPT ![c].state = how],
         UNCHANGED rows
  PROVE  /\ batch' \in [Calls -> Batch \cup {NoBatch}]
         /\ \A b \in Calls : batch'[b].to = batch[b].to
         /\ Stored' = Stored /\ RowsOfBatches' /\ BatchesStored'
<1>1. batch[c] \in Batch
  BY DEF IInv, TypeOK, NoBatch
<1>2. batch' \in [Calls -> Batch \cup {NoBatch}] /\ \A b \in Calls : batch'[b].to = batch[b].to
  BY <1>1 DEF IInv, TypeOK, Batch
<1>3. Stored' = Stored
  BY DEF Stored
<1>4. RowsOfBatches'
  BY <1>2, <1>3, StoredTyped DEF IInv, TypeOK, RowsOfBatches
<1>5. BatchesStored'
  BY <1>2, <1>3 DEF IInv, BatchesStored
<1> QED BY <1>2, <1>3, <1>4, <1>5

LEMMA EmitKeeps ==
  ASSUME IInv, NEW c \in Calls, EmitRows(c)
  PROVE  IInv'
<1>1. /\ batch' \in [Calls -> Batch \cup {NoBatch}]
      /\ Stored' = Stored /\ RowsOfBatches' /\ BatchesStored'
  BY BatchEnds DEF EmitRows
<1>2. batch[c] \in Batch
  BY DEF IInv, TypeOK, EmitRows, NoBatch
<1> DEFINE told(s) == { <<c, x>> : x \in { y \in batch[c].to : s \in Room(y, batch[c].at) } }
<1>3. ASSUME NEW s \in Sockets, NEW n \in told(s)
      PROVE  n \in Stored /\ n \in NoticeId /\ n[2] = socket[s].user
  BY <1>2, <1>3 DEF IInv, BatchesStored, Room, Batch, NoticeId
<1>4. shown' = [s \in Sockets |-> shown[s] \cup told(s)]
  BY DEF EmitRows
<1> HIDE DEF told
<1>5. TypeOK'
  BY <1>1, <1>3, <1>4 DEF IInv, TypeOK, EmitRows
<1>6. ClientsKnow'
  BY <1>1, <1>3, <1>4 DEF IInv, ClientsKnow, EmitRows
<1> QED BY <1>1, <1>5, <1>6 DEF IInv

LEMMA FailBatchKeeps ==
  ASSUME IInv, NEW c \in Calls, FailBatch(c)
  PROVE  IInv'
<1>1. /\ batch' \in [Calls -> Batch \cup {NoBatch}]
      /\ Stored' = Stored /\ RowsOfBatches' /\ BatchesStored'
  BY BatchEnds DEF FailBatch
<1>2. TypeOK'
  BY <1>1 DEF IInv, TypeOK, FailBatch
<1>3. ClientsKnow'
  BY <1>1 DEF IInv, ClientsKnow, FailBatch
<1> QED BY <1>1, <1>2, <1>3 DEF IInv

\* The requests to mark, and a user being switched off or on.
Marking == \/ \E x \in Askers, n \in Stored \cup {None} : AskToMark(x, n)
           \/ \E m \in marks : MarkRead(m) \/ MarkAllRead(m)

LEMMA UserKeeps ==
  ASSUME IInv, Marking \/ \E x \in Users : ToggleUser(x)
  PROVE  IInv'
<1>1. UNCHANGED <<rows, batch, socket, shown>>
  BY DEF Marking, AskToMark, MarkRead, MarkAllRead, ToggleUser
<1>2. Stored' = Stored /\ RowsOfBatches' /\ BatchesStored'
  BY <1>1, TableUntouched
<1>3. active' \subseteq Users
  BY DEF IInv, TypeOK, Marking, AskToMark, MarkRead, MarkAllRead, ToggleUser
<1>4. read' \subseteq Stored
  BY DEF IInv, TypeOK, Marking, AskToMark, MarkRead, MarkAllRead, ToggleUser, Marked
<1>5. marks' \subseteq Mark
  <2>1. ASSUME NEW x \in Askers, NEW n \in Stored \cup {None}, AskToMark(x, n)
        PROVE  marks' \subseteq Mark
    <3>1. x \in Users /\ n \in NoticeId \cup {None}
      BY StoredTyped, InboxAssumption DEF IInv, TypeOK
    <3> QED BY <2>1, <3>1 DEF AskToMark, Mark, IInv, TypeOK
  <2>2. ASSUME NEW m \in marks, MarkRead(m) \/ MarkAllRead(m) PROVE marks' \subseteq Mark
    BY <2>2 DEF MarkRead, MarkAllRead, IInv, TypeOK
  <2>3. ASSUME NEW x \in Users, ToggleUser(x) PROVE marks' \subseteq Mark
    BY <2>3 DEF ToggleUser, IInv, TypeOK
  <2> QED BY <2>1, <2>2, <2>3 DEF Marking
<1>6. TypeOK'
  BY <1>1, <1>2, <1>3, <1>4, <1>5 DEF IInv, TypeOK
<1>7. ClientsKnow'
  BY <1>1, <1>2 DEF IInv, ClientsKnow
<1> QED BY <1>2, <1>6, <1>7 DEF IInv

THEOREM StepKeeps == IInv /\ [Next]_vars => IInv'
<1> SUFFICES ASSUME IInv, [Next]_vars PROVE IInv'
  OBVIOUS
<1>1. CASE UNCHANGED vars
  <2>1. Stored' = Stored /\ RowsOfBatches' /\ BatchesStored'
    BY <1>1, TableUntouched DEF vars
  <2> QED BY <1>1, <2>1 DEF IInv, TypeOK, ClientsKnow, vars
<1>2. CASE Next
  BY <1>2, SocketKeeps, PollKeeps, CommitKeeps, EmitKeeps, FailBatchKeeps, UserKeeps
     DEF Next, Marking
<1> QED BY <1>1, <1>2

\* The inductive invariant: typing, which rows a batch has stored, and what a
\* client may know.
THEOREM InvariantHolds == Spec => []IInv
<1> QED BY InitEstablishes, StepKeeps, PTL DEF Spec

\* Every reachable state is well typed.
THEOREM TypeCorrect == Spec => []TypeOK
<1>1. IInv => TypeOK
  BY DEF IInv
<1> QED BY <1>1, InvariantHolds, PTL

----------------------------------------------------------------------------
(* Who reads a row and who is shown it.                                    *)

\* updateMany where id and userId: a row becomes read by a step that carries out a
\* request of its own user, whoever else asks for it, never becomes unread, and a
\* client learns only of its user's stored rows.
THEOREM OwnersRead == Spec => ReadByOwner
<1>1. ASSUME [Next]_vars
      PROVE  /\ read \subseteq read'
             /\ \A n \in read' \ read :
                  \E m \in marks \ marks' : m.by = n[2] /\ m.row \in {n, None}
  <2>1. CASE UNCHANGED read
    BY <2>1
  <2>2. CASE \E m \in marks : MarkRead(m) \/ MarkAllRead(m)
    BY <2>2 DEF MarkRead, MarkAllRead, Marked
  <2> QED BY <1>1, <2>1, <2>2 DEF Next, vars, Connect, Admit, Join, Disconnect, Poll, CommitRows,
         EmitRows, FailBatch, AskToMark, ToggleUser
<1>2. IInv /\ IInv' /\ [Next]_vars =>
        [/\ read \subseteq read'
         /\ \A n \in read' \ read :
              \E m \in marks \ marks' : m.by = n[2] /\ m.row \in {n, None}
         /\ \A s \in Sockets : \A n \in shown'[s] :
              n \in Stored /\ n[2] = socket'[s].user]_vars
  <2> SUFFICES ASSUME IInv, IInv', Next
               PROVE  \A s \in Sockets : \A n \in shown'[s] :
                        n \in Stored /\ n[2] = socket'[s].user
    BY <1>1 DEF vars
  <2> SUFFICES ASSUME NEW s \in Sockets, NEW n \in shown'[s]
               PROVE  n \in Stored /\ n[2] = socket'[s].user
    OBVIOUS
  <2>1. n \in Stored' /\ n[2] = socket'[s].user
    BY DEF IInv, ClientsKnow
  <2>2. CASE UNCHANGED rows
    BY <2>1, <2>2 DEF Stored
  <2>3. CASE \E c \in Calls, k \in Instances, to \in Audiences : CommitRows(c, k, to)
    BY <2>1, <2>3 DEF IInv, ClientsKnow, CommitRows
  <2> QED BY <2>2, <2>3 DEF Next, Connect, Admit, Join, Disconnect, Poll, EmitRows, FailBatch,
       AskToMark, MarkRead, MarkAllRead, ToggleUser
<1> QED BY <1>2, InvariantHolds, PTL DEF Spec, ReadByOwner

----------------------------------------------------------------------------
(* One instance misses nothing.                                            *)

\* What a polled client of this state owes to n it owes no more in the next.
LEMMA StillKnown ==
  ASSUME IInv, IInv', NothingMissed, NEW s \in Sockets, NEW n \in Stored,
         socket[s].state = "joined", socket[s].polled, n[2] = socket[s].user,
         batch[n[1]].state = "done",
         shown[s] \subseteq shown'[s], Newer(n) \subseteq Newer(n)'
  PROVE  n \in shown'[s] \/ Cardinality(Newer(n)') >= Take
<1>1. n \in shown[s] \/ Cardinality(Newer(n)) >= Take
  BY DEF NothingMissed
<1>2. rows \in Seq(NoticeId) /\ rows' \in Seq(NoticeId)
  BY DEF IInv, TypeOK
<1>3. Cardinality(Newer(n)) \in Nat
  BY <1>2, NewerFinite
<1>4. IsFiniteSet(Newer(n)') /\ Cardinality(Newer(n)') \in Nat
  <2>1. IsFiniteSet(1..Len(rows'))
    BY <1>2, FS_Interval
  <2>2. Newer(n)' \subseteq 1..Len(rows')
    BY <1>2 DEF Newer
  <2> QED BY <2>1, <2>2, FS_Subset, FS_CardinalityType
<1>5. Cardinality(Newer(n)) <= Cardinality(Newer(n)')
  BY <1>4, FS_Subset
<1> QED BY <1>1, <1>3, <1>4, <1>5, InboxAssumption

\* With one instance every step keeps it: a list shows all that fits, an event
\* reaches every socket that has joined, and a row of a batch under way is not
\* due yet.
LEMMA NothingMissedKept ==
  ASSUME OneInstance, IInv, IInv', NothingMissed, [Next]_vars
  PROVE  NothingMissed'
<1> SUFFICES ASSUME NEW s \in Sockets, socket'[s].state = "joined", socket'[s].polled,
                    NEW n \in Stored', n[2] = socket'[s].user, batch'[n[1]].state = "done"
             PROVE  n \in shown'[s] \/ Cardinality(Newer(n)') >= Take
  BY DEF NothingMissed
<1>1. n[1] \in Calls
  BY StoredTyped DEF IInv, TypeOK, Stored, NoticeId
<1>2. ASSUME UNCHANGED <<rows, batch>>, socket'[s] = socket[s], shown[s] \subseteq shown'[s]
      PROVE  n \in shown'[s] \/ Cardinality(Newer(n)') >= Take
  <2>1. n \in Stored /\ Newer(n)' = Newer(n)
    BY <1>2 DEF Stored, Newer
  <2> QED BY <1>2, <2>1, StillKnown
<1>3. CASE UNCHANGED vars
  BY <1>2, <1>3 DEF vars
<1>4. ASSUME NEW t \in Sockets,
             (\E x \in Users, k \in Instances : Connect(t, x, k))
               \/ Admit(t) \/ Join(t) \/ Disconnect(t)
      PROVE  n \in shown'[s] \/ Cardinality(Newer(n)') >= Take
  <2>1. UNCHANGED <<rows, batch>>
    BY <1>4 DEF Connect, Admit, Join, Disconnect
  <2>2. t # s
    <3>1. socket[s] \in Socket \cup {Closed}
      BY DEF IInv, TypeOK
    <3>2. socket[s].polled => socket[s].state = "joined"
      BY DEF IInv, ClientsKnow
    <3> QED BY <1>4, <3>1, <3>2 DEF IInv, TypeOK, Connect, Admit, Join, Disconnect, Closed, Socket
  <2>3. socket'[s] = socket[s] /\ shown'[s] = shown[s]
    BY <1>4, <2>2 DEF IInv, TypeOK, Connect, Admit, Join, Disconnect
  <2> QED BY <1>2, <2>1, <2>3
<1>5. ASSUME NEW t \in Sockets, Poll(t)
      PROVE  n \in shown'[s] \/ Cardinality(Newer(n)') >= Take
  <2>1. UNCHANGED <<rows, batch>>
    BY <1>5 DEF Poll
  <2>2. CASE t # s
    <3>1. socket'[s] = socket[s] /\ shown'[s] = shown[s]
      BY <1>5, <2>2 DEF IInv, TypeOK, Poll
    <3> QED BY <1>2, <2>1, <3>1
  <2>3. CASE t = s
    <3>1. shown'[s] = shown[s] \cup Latest(socket[s].user)
      BY <1>5, <2>3 DEF IInv, TypeOK, Poll
    <3>2. socket'[s].user = socket[s].user
      BY <1>5, <2>3 DEF IInv, TypeOK, Poll, Socket, Closed
    <3>3. Newer(n)' = Newer(n) /\ n \in Stored
      BY <2>1 DEF Newer, Stored
    <3>4. Cardinality(Newer(n)) \in Nat /\ Take \in Nat
      BY NewerFinite, InboxAssumption DEF IInv, TypeOK
    <3> QED BY <3>1, <3>2, <3>3, <3>4 DEF Latest
  <2> QED BY <2>2, <2>3
<1>6. ASSUME NEW c \in Calls, NEW k \in Instances, NEW to \in Audiences, CommitRows(c, k, to)
      PROVE  n \in shown'[s] \/ Cardinality(Newer(n)') >= Take
  <2>1. UNCHANGED <<socket, shown>> /\ n[1] # c /\ batch'[n[1]] = batch[n[1]]
    BY <1>1, <1>6 DEF IInv, TypeOK, CommitRows
  <2>2. n \in Stored /\ Newer(n) \subseteq Newer(n)'
    BY <1>6, <2>1, RowsAppended DEF IInv
  <2> QED BY <2>1, <2>2, StillKnown
<1>7. ASSUME NEW c \in Calls, EmitRows(c)
      PROVE  n \in shown'[s] \/ Cardinality(Newer(n)') >= Take
  <2>1. UNCHANGED <<rows, socket>> /\ n \in Stored /\ Newer(n)' = Newer(n)
    BY <1>7 DEF EmitRows, Stored, Newer
  <2>2. shown'[s] = shown[s] \cup
                 { <<c, x>> : x \in { y \in batch[c].to : s \in Room(y, batch[c].at) } }
    BY <1>7 DEF EmitRows
  <2>3. CASE n[1] = c
    <3>1. n[2] \in batch[c].to /\ n = <<c, n[2]>>
      BY <2>1, <2>3, StoredTyped DEF IInv, TypeOK, RowsOfBatches
    <3>2. batch[c] \in Batch /\ socket[s] \in Socket
      BY <1>7, <2>1 DEF IInv, TypeOK, EmitRows, NoBatch, Closed
    <3>3. socket[s].at = batch[c].at
      BY <3>2 DEF OneInstance, Batch, Socket
    <3>4. s \in Room(n[2], batch[c].at)
      BY <2>1, <3>3 DEF Room
    <3> QED BY <2>2, <3>1, <3>4
  <2>4. CASE n[1] # c
    <3>1. batch'[n[1]] = batch[n[1]]
      BY <1>1, <1>7, <2>4 DEF IInv, TypeOK, EmitRows
    <3> QED BY <2>1, <2>2, <3>1, StillKnown
  <2> QED BY <2>3, <2>4
<1>8. ASSUME NEW c \in Calls, FailBatch(c)
      PROVE  n \in shown'[s] \/ Cardinality(Newer(n)') >= Take
  <2>1. UNCHANGED <<rows, socket, shown>> /\ n \in Stored /\ Newer(n)' = Newer(n)
    BY <1>8 DEF FailBatch, Stored, Newer
  <2>2. batch[n[1]].state = "done"
    <3>1. batch[c] \in Batch
      BY <1>8 DEF IInv, TypeOK, FailBatch, NoBatch
    <3>2. batch'[c].state = "failed" /\ \A b \in Calls \ {c} : batch'[b] = batch[b]
      BY <1>8, <3>1 DEF IInv, TypeOK, FailBatch, Batch
    <3> QED BY <1>1, <3>2
  <2> QED BY <2>1, <2>2, StillKnown
<1>9. ASSUME Marking \/ \E x \in Users : ToggleUser(x)
      PROVE  n \in shown'[s] \/ Cardinality(Newer(n)') >= Take
  BY <1>2, <1>9 DEF Marking, AskToMark, MarkRead, MarkAllRead, ToggleUser
<1> QED BY <1>3, <1>4, <1>5, <1>6, <1>7, <1>8, <1>9 DEF Next, Marking

\* With one instance a client that has joined and polled knows every
\* notification emitted, whatever its handshake, the batches and the failures
\* interleaved, but for rows that did not fit into the list.
THEOREM OneInstanceMissesNothing ==
  ASSUME OneInstance
  PROVE  Spec => []NothingMissed
<1>1. Init => NothingMissed
  BY DEF Init, NothingMissed, Closed
<1>2. IInv /\ IInv' /\ NothingMissed /\ [Next]_vars => NothingMissed'
  BY NothingMissedKept
<1> QED BY <1>1, <1>2, InvariantHolds, PTL DEF Spec
=============================================================================
