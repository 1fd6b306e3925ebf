-------------------------- MODULE CompletionLedger --------------------------
(***************************************************************************)
(* What completing a system update promises, whatever runs concurrently:   *)
(* an update is published in the changelog once, is stamped completed with *)
(* that publication, and is announced to its requester at most once, by    *)
(* the call that published it.  Nothing is ever taken back.                *)
(***************************************************************************)
CONSTANTS Updates, Calls

VARIABLES completed, published, announced

vars == <<completed, published, announced>>

Init == completed = {} /\ published = {} /\ announced = {}

Publish(u, c) ==
  /\ \A p \in published : p.update # u
  /\ completed' = completed \cup {u}
  /\ published' = published \cup { [update |-> u, by |-> c] }
  /\ UNCHANGED announced

Announce(u, c) ==
  /\ [update |-> u, by |-> c] \in published
  /\ \A a \in announced : a.update # u
  /\ announced' = announced \cup { [update |-> u, by |-> c] }
  /\ UNCHANGED <<completed, published>>

Next == \E u \in Updates, c \in Calls : Publish(u, c) \/ Announce(u, c)

Spec == Init /\ [][Next]_vars
=============================================================================
