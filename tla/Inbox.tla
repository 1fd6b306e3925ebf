-------------------------------- MODULE Inbox --------------------------------
(***************************************************************************)
(* The user's side of notifications: NotificationsGateway admits sockets   *)
(* to the user's room, createMany commits rows and then emits them to that *)
(* room, and the inbox routes list rows and mark them as read.             *)
(*                                                                         *)
(* Each instance of the server has its own Socket.IO server and no adapter *)
(* joins them, so the room of a user is a room per instance.  A handshake  *)
(* awaits the token's verification and a query before it joins the room;   *)
(* createMany awaits its transaction before it emits.                      *)
(***************************************************************************)
EXTENDS Naturals, FiniteSets, Sequences

CONSTANTS
  Users, Instances, Sockets,
  Calls,        \* handlers that create notifications, one batch each
  Take,         \* `take ?? 50', the length of a list
  None,
  Toggled,      \* bound: users an administrator switches off and on
  Audiences,    \* bound: the users a batch may be for
  MaxFailed,    \* bound: handlers that die between the commit and the events
  Askers,       \* bound: users who ask for rows to be marked, their own or not
  MaxMarks      \* bound: requests to mark that are being handled at one time

\* A row of Notification is the one call c creates for user x.
NoticeId == Calls \X Users

ASSUME InboxAssumption ==
  /\ None \notin Users \cup Instances
  /\ IsFiniteSet(Users)
  /\ Toggled \subseteq Users
  /\ Audiences \subseteq SUBSET Users
  /\ Take \in Nat \ {0}
  /\ MaxFailed \in Nat
  /\ Askers \subseteq Users
  /\ MaxMarks \in Nat

VARIABLES
  active,       \* users with isActive and without deletedAt
  rows,         \* the Notification table, oldest first
  read,         \* the rows with isRead
  marks,        \* the requests to mark being handled: by whom, and which row
  batch,        \* what each call still has to do, and on which instance
  socket,       \* the sockets the clients have opened
  shown         \* the rows the client of each socket has come to know

vars == <<active, rows, read, marks, batch, socket, shown>>

----------------------------------------------------------------------------
\* `polled': the client has fetched its list since it joined the room.
Socket == [ state : {"verifying", "admitted", "joined"}, user : Users,
            at : Instances, polled : BOOLEAN ]

Closed == [ state |-> "closed", user |-> None, at |-> None, polled |-> FALSE ]

Batch == [ state : {"committed", "done", "failed"}, at : Instances, to : SUBSET Users ]

NoBatch == [ state |-> "idle", at |-> None, to |-> {} ]

\* `row' is None in a request to mark them all.
Mark == [ by : Users, row : NoticeId \cup {None} ]

Stored == { rows[k] : k \in DOMAIN rows }

\* The places of the rows of n's user that are newer than n.
Newer(n) == { k \in DOMAIN rows : rows[k][2] = n[2] /\ \E j \in 1..(k - 1) : rows[j] = n }

\* list: the newest `take' rows of the caller.
Latest(x) == { n \in Stored : n[2] = x /\ Cardinality(Newer(n)) < Take }

----------------------------------------------------------------------------
Init ==
  /\ active = Users
  /\ rows = <<>>
  /\ read = {}
  /\ marks = {}
  /\ batch = [c \in Calls |-> NoBatch]
  /\ socket = [s \in Sockets |-> Closed]
  /\ shown = [s \in Sockets |-> {}]

----------------------------------------------------------------------------
(* handleConnection.                                                       *)

Connect(s, x, k) ==
  /\ socket[s] = Closed
  /\ socket' = [socket EXCEPT ![s] = [ state |-> "verifying", user |-> x, at |-> k,
                                       polled |-> FALSE ]]
  /\ shown' = [shown EXCEPT ![s] = {}]
  /\ UNCHANGED <<active, rows, read, marks, batch>>

\* The token is verified, its user is read.  A bad token or a user who is not
\* active closes the socket (see Disconnect).
Admit(s) ==
  /\ socket[s].state = "verifying"
  /\ socket[s].user \in active
  /\ socket' = [socket EXCEPT ![s].state = "admitted"]
  /\ UNCHANGED <<active, rows, read, marks, batch, shown>>

Join(s) ==
  /\ socket[s].state = "admitted"
  /\ socket' = [socket EXCEPT ![s].state = "joined"]
  /\ UNCHANGED <<active, rows, read, marks, batch, shown>>

\* handleDisconnect, or a refused handshake.  Nothing but the handshake closes
\* the socket of a user who is switched off.
Disconnect(s) ==
  /\ socket[s] # Closed
  /\ socket' = [socket EXCEPT ![s] = Closed]
  /\ shown' = [shown EXCEPT ![s] = {}]
  /\ UNCHANGED <<active, rows, read, marks, batch>>

\* Mutant: the gateway remembers one socket per user.
RoomOfOne(x, k) ==
  LET members == { s \in Sockets : /\ socket[s].state = "joined"
                                   /\ socket[s].user = x /\ socket[s].at = k }
  IN IF members = {} THEN {} ELSE { CHOOSE s \in members : TRUE }

\* The room `user:x' of instance k.
Room(x, k) ==
  { s \in Sockets : /\ socket[s].state = "joined"
                    /\ socket[s].user = x /\ socket[s].at = k }

----------------------------------------------------------------------------
(* createMany.                                                             *)

CommitRows(c, k, to) ==
  /\ batch[c] = NoBatch
  /\ batch' = [batch EXCEPT ![c] = [ state |-> "committed", at |-> k, to |-> to ]]
  /\ \E new \in [1..Cardinality(to) -> { <<c, x>> : x \in to }] :
       /\ \A x \in to : \E j \in DOMAIN new : new[j] = <<c, x>>
       /\ rows' = rows \o new
  /\ UNCHANGED <<active, read, marks, socket, shown>>

\* emitToUser for every row, in one synchronous block.
EmitRows(c) ==
  /\ batch[c].state = "committed"
  /\ shown' = [s \in Sockets |-> shown[s] \cup
                 { <<c, x>> : x \in { y \in batch[c].to : s \in Room(y, batch[c].at) } }]
  /\ batch' = [batch EXCEPT ![c].state = "done"]
  /\ UNCHANGED <<active, rows, read, marks, socket>>

FailBatch(c) ==
  /\ batch[c].state = "committed"
  /\ Cardinality({ k \in Calls : batch[k].state = "failed" }) < MaxFailed
  /\ batch' = [batch EXCEPT ![c].state = "failed"]
  /\ UNCHANGED <<active, rows, read, marks, socket, shown>>

----------------------------------------------------------------------------
(* The routes of the inbox; JwtStrategy lets active users in.              *)

\* list, at any time; it counts as a poll once the socket has joined.
Poll(s) ==
  /\ socket[s] # Closed
  /\ socket[s].user \in active
  /\ shown' = [shown EXCEPT ![s] = @ \cup Latest(socket[s].user)]
  /\ socket' = [socket EXCEPT ![s].polled = @ \/ socket[s].state = "joined"]
  /\ UNCHANGED <<active, rows, read, marks, batch>>

\* A request to mark one row or all of them has passed JwtStrategy, which awaits
\* the caller's row; he may be switched off before the update runs.  Anybody may
\* name any row there is; a request for another id would update nothing.
AskToMark(x, n) ==
  /\ x \in active
  /\ Cardinality(marks) < MaxMarks
  /\ marks' = marks \cup { [ by |-> x, row |-> n ] }
  /\ UNCHANGED <<active, rows, read, batch, socket, shown>>

\* Mutant: the where-clause forgets the user.
MarkedById(x, n) == { n } \cap Stored

\* markRead: updateMany where id and userId; somebody else's row is not found.
Marked(x, n) == { m \in Stored : m = n /\ m[2] = x }

MarkRead(m) ==
  /\ m \in marks
  /\ m.row # None
  /\ read' = read \cup Marked(m.by, m.row)
  /\ marks' = marks \ {m}
  /\ UNCHANGED <<active, rows, batch, socket, shown>>

MarkAllRead(m) ==
  /\ m \in marks
  /\ m.row = None
  /\ read' = read \cup { n \in Stored : n[2] = m.by }
  /\ marks' = marks \ {m}
  /\ UNCHANGED <<active, rows, batch, socket, shown>>

\* UsersService.update and softDelete.
ToggleUser(x) ==
  /\ x \in Toggled
  /\ active' = IF x \in active THEN active \ {x} ELSE active \cup {x}
  /\ UNCHANGED <<rows, read, marks, batch, socket, shown>>

Next ==
  \/ \E s \in Sockets, x \in Users, k \in Instances : Connect(s, x, k)
  \/ \E s \in Sockets : Admit(s) \/ Join(s) \/ Disconnect(s) \/ Poll(s)
  \/ \E c \in Calls, k \in Instances, to \in Audiences : CommitRows(c, k, to)
  \/ \E c \in Calls : EmitRows(c) \/ FailBatch(c)
  \/ \E x \in Askers, n \in Stored \cup {None} : AskToMark(x, n)
  \/ \E m \in marks : MarkRead(m) \/ MarkAllRead(m)
  \/ \E x \in Users : ToggleUser(x)

Spec == Init /\ [][Next]_vars

----------------------------------------------------------------------------
(* Properties.                                                             *)

TypeOK ==
  /\ active \subseteq Users
  /\ rows \in Seq(NoticeId)
  /\ read \subseteq Stored
  /\ marks \subseteq Mark
  /\ batch \in [Calls -> Batch \cup {NoBatch}]
  /\ socket \in [Sockets -> Socket \cup {Closed}]
  /\ shown \in [Sockets -> SUBSET NoticeId]

\* README.md:94, "On every server-side Notification creation, the service emits
\* notification:new to the corresponding user room", with polling "as a
\* fallback": a client that has joined its room and fetched its list since then
\* knows every notification that was emitted, however its handshake interleaved
\* with createMany, but for rows that did not fit into the list.  Holds on one
\* instance.
NothingMissed ==
  \A s \in Sockets : socket[s].state = "joined" /\ socket[s].polled =>
    \A n \in Stored :
      n[2] = socket[s].user /\ batch[n[1]].state = "done" =>
        n \in shown[s] \/ Cardinality(Newer(n)) >= Take

\* A notification becomes read only in a step that carries out a request made by
\* its own user, for this row or for all, however the requests of others, new
\* rows and users switched off come in between (markRead and markAllRead both
\* name the caller in the where-clause); no request makes it unread again; and a
\* client learns only of rows that are stored and belong to its user.
ReadByOwner ==
  [][/\ read \subseteq read'
     /\ \A n \in read' \ read :
          \E m \in marks \ marks' : m.by = n[2] /\ m.row \in {n, None}
     /\ \A s \in Sockets : \A n \in shown'[s] :
          n \in Stored /\ n[2] = socket'[s].user]_vars
=============================================================================
