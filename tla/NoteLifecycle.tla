---------------------------- MODULE NoteLifecycle ----------------------------
(***************************************************************************)
(* The lifecycle the README draws for a note ("State machines", Notes): a  *)
(* note is pending, then approved or rejected; only an approved note's     *)
(* readers are told of it, each of them once; a deleted note is not        *)
(* reviewed any more.                                                      *)
(***************************************************************************)
CONSTANTS Refs, Users

VARIABLES status, deleted, told

vars == <<status, deleted, told>>

Init ==
  /\ status = [i \in Refs |-> "ABSENT"]
  /\ deleted = {}
  /\ told = {}

Become(i, to) == status' = [status EXCEPT ![i] = to] /\ UNCHANGED <<deleted, told>>

File(i) == status[i] = "ABSENT" /\ \E to \in {"PENDING", "APPROVED"} : Become(i, to)

Review(i) ==
  /\ status[i] = "PENDING"
  /\ i \notin deleted
  /\ \E to \in {"APPROVED", "REJECTED"} : Become(i, to)

\* One transaction stores the rows of all readers.
Tell(i) ==
  /\ status[i] = "APPROVED"
  /\ \A t \in told : t.note # i
  /\ \E readers \in SUBSET Users : told' = told \cup { [note |-> i, user |-> x] : x \in readers }
  /\ UNCHANGED <<status, deleted>>

Delete(i) ==
  /\ status[i] # "ABSENT"
  /\ i \notin deleted
  /\ deleted' = deleted \cup {i}
  /\ UNCHANGED <<status, told>>

Next == \E i \in Refs : File(i) \/ Review(i) \/ Tell(i) \/ Delete(i)

Spec == Init /\ [][Next]_vars
=============================================================================
