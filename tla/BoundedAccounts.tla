--------------------------- MODULE BoundedAccounts ---------------------------
(***************************************************************************)
(* Accounts under the bounds a behaviour draws at its start and keeps, so  *)
(* that one run covers several settings.  `calls' are the requests made,   *)
(* `inFlight' those at one time; `text' is what somebody types as the name *)
(* of a role, or as the title of a document.                               *)
(***************************************************************************)
EXTENDS Accounts, TextCodes

CONSTANT Settings

VARIABLE bounds

mcVars == <<vars, bounds>>

Setting(calls, inFlight, text) == [ calls |-> calls, inFlight |-> inFlight, text |-> text ]

\* A text of any length.
ASSUME SettingsAssumption == \A b \in Settings : b.text \in Seq(Chars)

Serial == bounds.inFlight = 1

MCInit == Init /\ bounds \in Settings

WithinBounds ==
  /\ Cardinality(InFlight) < bounds.inFlight
  /\ Cardinality({ c \in Calls : pc[c] # "idle" }) < bounds.calls

\* The disjuncts of Next one by one, so that TLC counts each.
MCNext ==
  \/ \E c \in Calls, a \in Requests : Start(c, a) /\ WithinBounds /\ UNCHANGED bounds
  \/ \E c \in Calls :
       \/ CheckNewRole(c) /\ UNCHANGED bounds
       \/ InsertRole(c) /\ UNCHANGED bounds
       \/ ReadRole(c) /\ UNCHANGED bounds
       \/ CheckCode(c) /\ UNCHANGED bounds
       \/ WriteRole(c) /\ UNCHANGED bounds
       \/ CountUsers(c) /\ UNCHANGED bounds
       \/ DeleteRole(c) /\ UNCHANGED bounds
       \/ BeginReplace(c) /\ UNCHANGED bounds
       \/ ReplacePermissions(c) /\ UNCHANGED bounds
       \/ CheckEmail(c) /\ UNCHANGED bounds
       \/ ReadUser(c) /\ UNCHANGED bounds
       \/ FindRoleByCode(c) /\ UNCHANGED bounds
       \/ InsertUser(c) /\ UNCHANGED bounds
       \/ WriteUser(c) /\ UNCHANGED bounds
       \/ DeleteUser(c) /\ UNCHANGED bounds
       \/ Fail(c) /\ UNCHANGED bounds

MCSpec == MCInit /\ [][MCNext]_mcVars

----------------------------------------------------------------------------
(* What holds as long as calls do not overlap.                             *)

\* Roles are deleted only when nobody has them, and nobody is given a deleted
\* one: softDelete's "Cannot delete role: N active user(s) still assigned".
NoUserOnDeletedRoleSerially == Serial => NoUserOnDeletedRole

----------------------------------------------------------------------------
(* Whatever somebody types.                                                *)

\* A code is the code of itself, in one form (normalizeRoleCode).
CodeIsStable == RoleCodeStable(bounds.text)

\* The spelling of a name makes no other role (normalizeRoleCode).
CodeIgnoresSpelling == RoleCodeIgnoresSpelling(bounds.text)

\* A title of words has a slug one may write into an address (slugify).
SlugIsAddress == SlugOfWordsAccepted(bounds.text)
=============================================================================
