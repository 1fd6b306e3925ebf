------------------------ MODULE BoundedSystemUpdates -------------------------
(***************************************************************************)
(* SystemUpdates under the bounds a behaviour draws at its start and keeps, *)
(* so that one run covers several settings.  `calls' are the requests made, *)
(* `inFlight' those at one time.                                           *)
(***************************************************************************)
EXTENDS SystemUpdates

CONSTANT Settings

VARIABLE bounds

mcVars == <<vars, bounds>>

Setting(calls, inFlight, failures, toggles) ==
  [ calls |-> calls, inFlight |-> inFlight, failures |-> failures, toggles |-> toggles ]

Serial == bounds.inFlight = 1

MCInit == Init /\ bounds \in Settings

WithinBounds ==
  /\ Cardinality(InFlight) < bounds.inFlight
  /\ Cardinality({ c \in Calls : pc[c] # "idle" }) < bounds.calls

\* The disjuncts of Next one by one, so that TLC counts each.
MCNext ==
  \/ \E c \in Calls, a \in Request : Start(c, a) /\ WithinBounds /\ UNCHANGED bounds
  \/ \E c \in Calls :
       \/ LookupModule(c) /\ UNCHANGED bounds
       \/ LoadUpdate(c) /\ UNCHANGED bounds
       \/ InsertUpdate(c) /\ UNCHANGED bounds
       \/ ApproveAsDev(c) /\ UNCHANGED bounds
       \/ RejectAsDev(c) /\ UNCHANGED bounds
       \/ ApproveAsAdmin(c) /\ UNCHANGED bounds
       \/ RejectAsAdmin(c) /\ UNCHANGED bounds
       \/ CompleteUpdate(c) /\ UNCHANGED bounds
       \/ CompleteConflict(c) /\ UNCHANGED bounds
       \/ InsertComment(c) /\ UNCHANGED bounds
       \/ DeleteUpdate(c) /\ UNCHANGED bounds
       \/ Deliver(c) /\ UNCHANGED bounds
       \/ Respond(c) /\ UNCHANGED bounds
       \/ Fail(c) /\ bounds.failures /\ UNCHANGED bounds
  \/ \E m \in Modules : ToggleModule(m) /\ m \in bounds.toggles /\ UNCHANGED bounds
  \/ \E x \in Users : ToggleUser(x) /\ x \in bounds.toggles /\ UNCHANGED bounds

MCSpec == MCInit /\ [][MCNext]_mcVars

MCFairSpec == MCSpec /\ Fairness

----------------------------------------------------------------------------
(* What holds as long as calls do not overlap.                             *)

\* Whoever is told last is told the truth: a final notification and the row
\* agree for good (devReview, adminReview, complete).
FinalNoticesStandSerially == Serial => FinalNoticesStand

\* The calls follow the README's state machine ("State machines", System
\* Updates), one of them dying half-way included.
LifecycleFollowed ==
  Lifecycle!Init /\ [][Serial => [Lifecycle!Next]_Lifecycle!vars]_mcVars
=============================================================================
