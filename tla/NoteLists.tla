------------------------------ MODULE NoteLists ------------------------------
(***************************************************************************)
(* Notes together with the clients that keep its lists up to date by the   *)
(* note:sync events: each event names the lists a note is added to and     *)
(* removed from, and the lists are those of GET /notes?scope=...           *)
(*                                                                         *)
(* The clients are not part of the repository; `lists' is what the payload *)
(* types say a client does with an event.                                  *)
(***************************************************************************)
EXTENDS Notes

VARIABLE lists   \* [Users -> [ListScope -> SUBSET NoteIds]]: what the clients show

listVars == <<vars, lists>>

----------------------------------------------------------------------------
\* NOTE_LIST_SCOPES
ListScope == { "mine", "mentions", "received", "pending", "approved", "rejected" }

Sync(add, remove) == [ add |-> add, remove |-> remove ]

\* Mutant: deletion clears the author's list and the review tabs only.
ScopesToClearReview(status) ==
  {"mine"} \cup CASE status = "PENDING"  -> {"pending"}
                  [] status = "APPROVED" -> {"approved"}
                  [] status = "REJECTED" -> {"rejected"}

\* noteListScopesForSync: the lists a deleted note leaves.
ScopesToClear(status) ==
  {"mine"} \cup CASE status = "PENDING"  -> {"pending"}
                  [] status = "APPROVED" -> {"approved", "mentions", "received"}
                  [] status = "REJECTED" -> {"rejected"}

\* The noteSync that goes with an event.
SyncOf(type) ==
  CASE type \in {"SYNC_MINE", "NOTE_APPROVED", "NOTE_REJECTED"} -> Sync({"mine"}, {})
    [] type = "NOTE_PENDING"       -> Sync({"pending"}, {})
    [] type = "NOTE_MENTION"       -> Sync({"mentions"}, {})
    [] type = "NOTE_RECEIVED"      -> Sync({"received"}, {})
    [] type = "SYNC_APPROVED"      -> Sync({"approved"}, {"pending"})
    [] type = "SYNC_REJECTED"      -> Sync({"rejected"}, {"pending"})
    [] type = "SYNC_DROP_PENDING"  -> Sync({}, ScopesToClear("PENDING"))
    [] type = "SYNC_DROP_APPROVED" -> Sync({}, ScopesToClear("APPROVED"))
    [] type = "SYNC_DROP_REJECTED" -> Sync({}, ScopesToClear("REJECTED"))

\* What call c emits in its next step.
Emitted(c) ==
  CASE work[c] = <<>>     -> {}
    [] At(c, "push")      -> Current(c)
    [] At(c, "broadcast") -> Reachable(Current(c))
    [] At(c, "emit")      -> Current(c)
    [] OTHER              -> {}

\* A client hears the events of its user; no batch has two for one list.
Heard(x, scope, events) ==
  LET own == { n \in events : n.user = x }
  IN (lists[x][scope] \ { n.ref : n \in { m \in own : scope \in SyncOf(m.type).remove } })
       \cup { n.ref : n \in { m \in own : scope \in SyncOf(m.type).add } }

Hear(events) ==
  lists' = [x \in Users |-> [scope \in ListScope |-> Heard(x, scope, events)]]

\* A page is opened: GET /notes for every list.
Fetched(x) == [scope \in ListScope |-> { i \in NoteIds : Listed(x, i, scope) }]

Reload(x) ==
  /\ x \in active
  /\ lists' = [lists EXCEPT ![x] = Fetched(x)]
  /\ UNCHANGED vars

ListsInit == Init /\ lists = [x \in Users |-> [scope \in ListScope |-> {}]]

ListsNext ==
  \/ \E c \in Calls, a \in Request : Start(c, a) /\ UNCHANGED lists
  \/ \E c \in Calls : Step(c) /\ Hear(Emitted(c))
  \/ \E c \in Calls : Fail(c) /\ UNCHANGED lists
  \/ \E x \in Users : ToggleUser(x) /\ UNCHANGED lists
  \/ \E x \in Users : Reload(x)

ListsSpec == ListsInit /\ [][ListsNext]_listVars

----------------------------------------------------------------------------
(* Properties.                                                             *)

\* Nothing is on its way.
Quiet == \A c \in Calls : pc[c] \notin Running

\* What no event announces: a reader who is both mentioned and a recipient is
\* told as mentioned; a note published without review never reaches the
\* approvers' tab; and an approver whose own note awaits review is the one
\* approver that `create' excludes.
Unannounced(x, i, scope) ==
  \/ scope = "received" /\ x \in note[i].body.mentions
  \/ scope = "approved" /\ note[i].reviewedBy = None
  \/ scope = "pending" /\ note[i].author = x

\* When calls do not overlap and none fails, a client that has only listened
\* shows what GET /notes would, list by list: nothing missing but what no event
\* announces, and nothing left over from before a review or a deletion.
ListsAgree ==
  Quiet =>
    \A x \in Users, i \in NoteIds, scope \in ListScope :
      /\ i \in lists[x][scope] => Listed(x, i, scope)
      /\ Listed(x, i, scope) /\ ~Unannounced(x, i, scope) => i \in lists[x][scope]
=============================================================================
