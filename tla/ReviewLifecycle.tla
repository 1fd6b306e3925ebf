--------------------------- MODULE ReviewLifecycle ---------------------------
(***************************************************************************)
(* The lifecycle the README draws for a system update ("State machines",   *)
(* System Updates): either reviewer decides, the administrator last; an    *)
(* approved request is completed once and then stands in the changelog;    *)
(* a rejected, completed or deleted one does not move again.               *)
(***************************************************************************)
CONSTANT Updates

VARIABLES status, deleted, published

vars == <<status, deleted, published>>

Init ==
  /\ status = [u \in Updates |-> "ABSENT"]
  /\ deleted = {}
  /\ published = {}

Move(u, from, to) ==
  /\ status[u] \in from
  /\ status' = [status EXCEPT ![u] = to]

File(u) == Move(u, {"ABSENT"}, "PENDING") /\ UNCHANGED <<deleted, published>>

DevDecides(u) ==
  /\ u \notin deleted
  /\ \E to \in {"DEV_APPROVED", "DEV_REJECTED"} : Move(u, {"PENDING"}, to)
  /\ UNCHANGED <<deleted, published>>

AdminDecides(u) ==
  /\ u \notin deleted
  /\ \E to \in {"ADMIN_APPROVED", "ADMIN_REJECTED"} :
       Move(u, {"PENDING", "DEV_APPROVED"}, to)
  /\ UNCHANGED <<deleted, published>>

Complete(u) ==
  /\ u \notin deleted \cup published
  /\ Move(u, {"ADMIN_APPROVED"}, "COMPLETED")
  /\ published' = published \cup {u}
  /\ UNCHANGED deleted

Delete(u) ==
  /\ u \notin deleted
  /\ status[u] # "ABSENT"
  /\ deleted' = deleted \cup {u}
  /\ UNCHANGED <<status, published>>

Next == \E u \in Updates :
          File(u) \/ DevDecides(u) \/ AdminDecides(u) \/ Complete(u) \/ Delete(u)

Spec == Init /\ [][Next]_vars
=============================================================================
