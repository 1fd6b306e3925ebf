---------------------------- MODULE BoundedNotes -----------------------------
(***************************************************************************)
(* Notes and the clients' lists under the bounds a behaviour draws at its  *)
(* start and keeps, so that one run covers several settings.  `calls' are  *)
(* the requests made, `inFlight' those at one time; with `clients' the     *)
(* clients listen and reload.                                              *)
(***************************************************************************)
EXTENDS NoteLists

CONSTANT Settings

VARIABLE bounds

mcVars == <<listVars, bounds>>

Setting(calls, inFlight, failures, toggles, notes, bodies, clients) ==
  [ calls |-> calls, inFlight |-> inFlight, failures |-> failures, toggles |-> toggles,
    notes |-> notes, bodies |-> bodies, clients |-> clients ]

Serial == bounds.inFlight = 1

MCInit == ListsInit /\ bounds \in Settings

WithinBounds(a) ==
  /\ Cardinality(InFlight) < bounds.inFlight
  /\ Cardinality({ c \in Calls : pc[c] # "idle" }) < bounds.calls
  /\ a.ref \in bounds.notes \cup {None}
  /\ a.op = "create" =>
       /\ a.body \in bounds.bodies
       /\ Cardinality({ c \in Calls : args[c].op = "create" /\ pc[c] # "refused" })
            < Cardinality(bounds.notes)

Quietly == UNCHANGED <<lists, bounds>>

\* The disjuncts of ListsNext one by one, so that TLC counts each.
MCNext ==
  \/ \E c \in Calls, a \in Request : Start(c, a) /\ WithinBounds(a) /\ Quietly
  \/ \E c \in Calls :
       \/ CheckAddressees(c) /\ Quietly
       \/ CheckCitations(c) /\ Quietly
       \/ LoadNote(c) /\ Quietly
       \/ InsertNote(c) /\ args'[c].ref \in bounds.notes /\ Quietly
       \/ ApproveNote(c) /\ Quietly
       \/ RejectNote(c) /\ Quietly
       \/ InsertSubNote(c) /\ Quietly
       \/ DeleteNote(c) /\ Quietly
       \/ Deliver(c) /\ bounds.clients /\ Hear(Emitted(c)) /\ UNCHANGED bounds
       \/ Deliver(c) /\ ~bounds.clients /\ Quietly
       \/ Respond(c) /\ Quietly
       \/ Fail(c) /\ bounds.failures /\ Quietly
  \/ \E x \in Users :
       \/ ToggleUser(x) /\ x \in bounds.toggles /\ Quietly
       \/ Reload(x) /\ bounds.clients /\ UNCHANGED bounds

MCSpec == MCInit /\ [][MCNext]_mcVars

MCFairSpec == MCSpec /\ Fairness

----------------------------------------------------------------------------
(* What holds as long as calls do not overlap.                             *)

\* What a note cites its author may read when the note is filed, by the check of
\* create (assertUserCanViewNote and NOT_DELETED); and no later call takes that
\* back but the deletion of the cited note: not a review, and not the deletion of
\* the note that cites.  (What users are permitted does not change here.)
CitationsStandSerially ==
  [][Serial =>
       \A i \in NoteIds, x \in Users :
         x = note'[i].author =>
           \A q \in note'[i].body.cites :
             /\ ~Exists(i) => MayRead(x, q)
             /\ MayRead(x, q) => MayRead(x, q)' \/ note'[q].deleted]_mcVars

\* The calls follow the README's state machine ("State machines", Notes), one of
\* them dying half-way included: only an approved note's readers are told.
LifecycleFollowed ==
  Lifecycle!Init /\ [][Serial => [Lifecycle!Next]_Lifecycle!vars]_mcVars

\* One call at a time and none fails; and no approver is switched off, for the
\* audiences of broadcasts and of NOTE_PENDING are those who are active.
Attended ==
  /\ Serial /\ bounds.clients /\ ~bounds.failures
  /\ bounds.toggles \cap Holders("NOTE_APPROVE_REJECT") = {}

\* A client that only listens to note:sync shows what GET /notes would, list by
\* list (noteSync of the handlers, buildListWhere).
ClientsAgree == Attended => ListsAgree
=============================================================================
