----------------------------- MODULE MCSessions ------------------------------
(* Sessions for TLC: calls and tokens are interchangeable.                  *)
EXTENDS Sessions, TLC

Symmetry == Permutations(Calls) \cup Permutations(Tokens)

----------------------------------------------------------------------------
(* One run covers several settings: a behaviour keeps the number of calls  *)
(* that may be in flight at one time.                                      *)

CONSTANT Settings

VARIABLE bounds

mcVars == <<vars, bounds>>

Setting(inFlight) == [ inFlight |-> inFlight ]

\* Three at a time, and one after the other.
MCSettings == { Setting(3), Setting(1) }

Serial == bounds.inFlight = 1

MCInit == Init /\ bounds \in Settings

WithinBounds == Cardinality(InFlight) < bounds.inFlight

\* The disjuncts of Next one by one, so that TLC counts each.
MCNext ==
  \/ \E c \in Calls, a \in Request : Start(c, a) /\ WithinBounds /\ UNCHANGED bounds
  \/ \E c \in Calls :
       \/ CheckPassword(c) /\ UNCHANGED bounds
       \/ CheckToken(c) /\ UNCHANGED bounds
       \/ RevokeExchanged(c) /\ UNCHANGED bounds
       \/ IssueTokens(c) /\ UNCHANGED bounds
       \/ Respond(c) /\ UNCHANGED bounds
       \/ Logout(c) /\ UNCHANGED bounds
       \/ Fail(c) /\ UNCHANGED bounds
       \/ LogoutFails(c) /\ UNCHANGED bounds
  \/ \E t \in Tokens : Expire(t) /\ UNCHANGED bounds
  \/ \E x \in Users : ToggleUser(x) /\ UNCHANGED bounds

MCSpec == MCInit /\ [][MCNext]_mcVars

----------------------------------------------------------------------------
(* What holds as long as calls do not overlap.                             *)

\* A token is exchanged once, so that sessions do not branch: a client that was
\* told of an exchange, or lost its answer, finds the old token spent.
ExchangedOnceSerially == Serial => ExchangedOnce
=============================================================================
