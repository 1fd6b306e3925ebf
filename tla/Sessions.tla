------------------------------ MODULE Sessions -------------------------------
(***************************************************************************)
(* AuthService: logging in, exchanging a refresh token for the next one,   *)
(* logging out.  The routes are public, so calls overlap freely; a refresh *)
(* reads the token and its user, revokes the token by id and inserts the   *)
(* next one in three queries without a transaction.                        *)
(*                                                                         *)
(* Access tokens are signed and stored nowhere: JwtStrategy looks at the   *)
(* user again whenever one is used (see Start in the other modules).       *)
(***************************************************************************)
EXTENDS Naturals, FiniteSets

CONSTANTS
  Users, Tokens, Calls,
  None,
  Toggled,      \* bound: users an administrator switches off and on
  MaxInFlight,  \* bound: calls being handled at the same time
  MaxFailed     \* bound: queries and responses that fail

ASSUME SessionsAssumption ==
  /\ None \notin Users \cup Tokens \cup Calls
  /\ Toggled \subseteq Users
  /\ MaxInFlight \in Nat \ {0}
  /\ MaxFailed \in Nat
  /\ IsFiniteSet(Tokens) /\ IsFiniteSet(Calls)

VARIABLES
  active,       \* users with isActive and without deletedAt
  token,        \* the RefreshToken table
  held,         \* the tokens each user's clients were handed
  pc,           \* how far each call has come
  args,         \* what each call was asked
  failed        \* how many queries and responses have failed

vars == <<active, token, held, pc, args, failed>>

----------------------------------------------------------------------------
\* expiresAt lies in the past when `expired'; `by' is the inserting call.
Row == [ user : Users, revoked : BOOLEAN, expired : BOOLEAN, by : Calls ]

NoToken == [ user |-> None, revoked |-> FALSE, expired |-> FALSE, by |-> None ]

\* login's user is the one whose address and password are sent; the others
\* present a token.  A refresh learns its user from the token's row.
Request ==
  [ op : {"login"}, user : Users, token : {None} ]
  \cup [ op : {"refresh", "logout"}, user : {None}, token : Tokens \cup {None} ]

NoRequest == [ op |-> "none", user |-> None, token |-> None ]

Running == { "started", "checked", "revoked", "issued" }

InFlight == { c \in Calls : pc[c] \in Running }

Exists(t) == t # None /\ token[t] # NoToken

\* A token whose holder may still exchange it, but for his own standing.
Unspent(t) == Exists(t) /\ ~token[t].revoked /\ ~token[t].expired

\* What the insertions of the exchanges of t have made.
Successors(t) ==
  { s \in Tokens : Exists(s) /\ args[token[s].by].op = "refresh"
                   /\ args[token[s].by].token = t }

\* Calls that have passed the checks and have not inserted yet.
InHand == { c \in Calls : pc[c] \in {"checked", "revoked"} }

----------------------------------------------------------------------------
Init ==
  /\ active = Users
  /\ token = [t \in Tokens |-> NoToken]
  /\ held = [x \in Users |-> {}]
  /\ pc = [c \in Calls |-> "idle"]
  /\ args = [c \in Calls |-> NoRequest]
  /\ failed = 0

Goto(c, to) == pc' = [pc EXCEPT ![c] = to]

\* A client sends what it knows: its password, a token it was handed at some
\* time, or something that is no token of ours (None).
MayPresent(t) == t = None \/ \E x \in Users : t \in held[x]

\* Bound: the table has room for what login and refresh are about to insert.
RoomToIssue ==
  Cardinality({ c \in Calls : args[c].op \in {"login", "refresh"} /\ pc[c] # "refused" })
    < Cardinality(Tokens)

Start(c, a) ==
  /\ pc[c] = "idle"
  /\ Cardinality(InFlight) < MaxInFlight
  /\ a.op = "login" \/ MayPresent(a.token)
  /\ a.op # "logout" => RoomToIssue
  /\ Goto(c, "started")
  /\ args' = [args EXCEPT ![c] = a]
  /\ UNCHANGED <<active, token, held, failed>>

\* login: the user, then his password, which may be wrong.
CheckPassword(c) ==
  /\ pc[c] = "started" /\ args[c].op = "login"
  /\ \/ args[c].user \in active /\ Goto(c, "checked")
     \/ Goto(c, "refused")
  /\ UNCHANGED <<active, token, held, args, failed>>

\* Mutant: the user of the token is not looked at.
ExchangeableByAnyone(t) == Unspent(t)

\* Mutant: revokedAt is not looked at.
ExchangeableAgain(t) == Exists(t) /\ ~token[t].expired /\ token[t].user \in active

\* refresh: the one test, over the token and its user read together.
Exchangeable(t) == Unspent(t) /\ token[t].user \in active

CheckToken(c) == LET t == args[c].token IN
  /\ pc[c] = "started" /\ args[c].op = "refresh"
  /\ IF Exchangeable(t)
       THEN /\ Goto(c, "checked")
            /\ args' = [args EXCEPT ![c].user = token[t].user]
       ELSE Goto(c, "refused") /\ UNCHANGED args
  /\ UNCHANGED <<active, token, held, failed>>

\* refresh: the update by id, whatever has happened to the row meanwhile.
RevokeExchanged(c) ==
  /\ pc[c] = "checked" /\ args[c].op = "refresh"
  /\ token' = [token EXCEPT ![args[c].token].revoked = TRUE]
  /\ Goto(c, "revoked")
  /\ UNCHANGED <<active, held, args, failed>>

\* Mutant: the next token is inserted before the old one is revoked.
ReadyToIssueEarly(c) == pc[c] = "checked"

\* login issues after its checks, refresh after the revocation.
ReadyToIssue(c) == pc[c] = IF args[c].op = "refresh" THEN "revoked" ELSE "checked"

\* Mutant: the token of an exchange is not connected to its user.
IssuedAnonymously(c) ==
  [ user |-> IF args[c].op = "refresh" THEN None ELSE args[c].user,
    revoked |-> FALSE, expired |-> FALSE, by |-> c ]

Issued(c) == [ user |-> args[c].user, revoked |-> FALSE, expired |-> FALSE, by |-> c ]

\* issueTokens: the insert.
IssueTokens(c) ==
  /\ ReadyToIssue(c)
  /\ \E t \in Tokens :
       /\ ~Exists(t)                                  \* 48 random bytes
       /\ token' = [token EXCEPT ![t] = Issued(c)]
  /\ Goto(c, "issued")
  /\ UNCHANGED <<active, held, args, failed>>

Respond(c) ==
  /\ pc[c] = "issued"
  /\ held' = [held EXCEPT ![args[c].user] = @ \cup { t \in Tokens : Exists(t) /\ token[t].by = c }]
  /\ Goto(c, "done")
  /\ UNCHANGED <<active, token, args, failed>>

\* logout: the update by hash.  That there is no such row is an error too, and
\* every error is swallowed.
Logout(c) == LET t == args[c].token IN
  /\ pc[c] = "started" /\ args[c].op = "logout"
  /\ token' = IF Exists(t) THEN [token EXCEPT ![t].revoked = TRUE] ELSE token
  /\ Goto(c, "done")
  /\ UNCHANGED <<active, held, args, failed>>

----------------------------------------------------------------------------
(* Failures, time and administrators.                                      *)

Failing == failed < MaxFailed /\ failed' = failed + 1

\* A query of login or refresh raises, the instance dies, or the response is
\* lost: what was committed stays.
Fail(c) ==
  /\ Failing
  /\ pc[c] \in Running
  /\ args[c].op # "logout"
  /\ Goto(c, "failed")
  /\ UNCHANGED <<active, token, held, args>>

\* logout's query raises: `.catch(() => undefined)', and success is answered.
LogoutFails(c) ==
  /\ Failing
  /\ pc[c] = "started" /\ args[c].op = "logout"
  /\ Goto(c, "done")
  /\ UNCHANGED <<active, token, held, args>>

Expire(t) ==
  /\ Exists(t) /\ ~token[t].expired
  /\ token' = [token EXCEPT ![t].expired = TRUE]
  /\ UNCHANGED <<active, held, pc, args, failed>>

\* UsersService.update and softDelete.
ToggleUser(x) ==
  /\ x \in Toggled
  /\ active' = IF x \in active THEN active \ {x} ELSE active \cup {x}
  /\ UNCHANGED <<token, held, pc, args, failed>>

Step(c) ==
  \/ CheckPassword(c)
  \/ CheckToken(c)
  \/ RevokeExchanged(c)
  \/ IssueTokens(c)
  \/ Respond(c)
  \/ Logout(c)

Next ==
  \/ \E c \in Calls, a \in Request : Start(c, a)
  \/ \E c \in Calls : Step(c) \/ Fail(c) \/ LogoutFails(c)
  \/ \E t \in Tokens : Expire(t)
  \/ \E x \in Users : ToggleUser(x)

Spec == Init /\ [][Next]_vars

----------------------------------------------------------------------------
(* Properties.                                                             *)

TypeOK ==
  /\ active \subseteq Users
  /\ token \in [Tokens -> Row \cup {NoToken}]
  /\ held \in [Users -> SUBSET Tokens]
  /\ pc \in [Calls -> Running \cup {"idle", "done", "refused", "failed"}]
  /\ args \in [Calls -> [ op : {"login", "refresh", "logout", "none"},
                          user : Users \cup {None}, token : Tokens \cup {None} ]]
  /\ failed \in 0..MaxFailed

\* The order of refresh: whichever calls overlap or die half-way, a token that
\* was exchanged for another is revoked before the other exists, and belongs to
\* the same user.
PredecessorRevoked ==
  \A t, s \in Tokens : s \in Successors(t) =>
    Exists(t) /\ token[t].revoked /\ token[s].user = token[t].user

\* Once a token is revoked, by an exchange or by logging out, it yields nothing
\* more than what the exchanges already past their check are about to insert.
RevokedYieldsNoMore ==
  [][\A t \in Tokens : Exists(t) /\ token[t].revoked =>
       LET pending == { c \in InHand : args[c].token = t }
       IN Cardinality(Successors(t))' + Cardinality(pending)'
            <= Cardinality(Successors(t)) + Cardinality(pending)]_vars

\* The same for a user who has been switched off: the sessions he has and the
\* ones in the making do not become more until he is switched on again.
SwitchedOffGainsNothing ==
  [][\A x \in Users : x \notin active =>
       LET his == { t \in Tokens : token[t].user = x }
           making == { c \in InHand : args[c].user = x }
       IN Cardinality(his)' + Cardinality(making)' <= Cardinality(his) + Cardinality(making)]_vars

\* Calls not overlapping, a token is exchanged once: sessions do not branch.
\* Two exchanges of one token that overlap both succeed.
ExchangedOnce ==
  \A t \in Tokens : Cardinality(Successors(t)) <= 1
=============================================================================
