---------------------------- MODULE SessionsProofs ----------------------------
(***************************************************************************)
(* The safety of the exchange of refresh tokens, for any number of users,  *)
(* tokens and overlapping calls.                                           *)
(***************************************************************************)
EXTENDS MCSessions, TLAPS, FiniteSetTheorems

Past == { "checked", "revoked", "issued" }

\* What a handler knows once it is past its checks: the user it acts for and,
\* in an exchange, that the token it was handed is that user's; and that it has
\* been revoked when the handler is through with the revocation.
Knows(c) ==
  /\ args[c].op = "login" => args[c].user \in Users /\ args[c].token = None
  /\ pc[c] \in Past => args[c].op \in {"login", "refresh"} /\ args[c].user \in Users
  /\ pc[c] \in Past /\ args[c].op = "refresh" =>
       Exists(args[c].token) /\ token[args[c].token].user = args[c].user
  /\ pc[c] \in {"revoked", "issued"} /\ args[c].op = "refresh" => token[args[c].token].revoked
  /\ pc[c] = "revoked" => args[c].op = "refresh"

HandlersKnow == \A c \in Calls : Knows(c)

\* The stages in which what a call was asked does not change any more.
Settled == { "issued", "done", "failed" }

\* A row was inserted by a call that is settled.
RowsRecorded ==
  \A t \in Tokens : Exists(t) => pc[token[t].by] \in Settled

IInv == TypeOK /\ HandlersKnow /\ RowsRecorded /\ PredecessorRevoked

----------------------------------------------------------------------------
\* What the steps may do to the table: rows stay, with their user and inserting
\* call, a revoked one stays revoked, and only IssueTokens adds one.
RowsStay ==
  \A t \in Tokens : Exists(t) =>
    /\ Exists(t)'
    /\ token'[t].user = token[t].user /\ token'[t].by = token[t].by
    /\ token[t].revoked => token'[t].revoked

\* Setting a flag of a row that is there.
LEMMA FlagSet ==
  ASSUME TypeOK, NEW t \in Tokens, Exists(t),
         \/ token' = [token EXCEPT ![t].revoked = TRUE]
         \/ token' = [token EXCEPT ![t].expired = TRUE]
  PROVE  /\ token' \in [Tokens -> Row \cup {NoToken}]
         /\ RowsStay
         /\ \A s \in Tokens : ~Exists(s) => token'[s] = token[s]
<1>1. token[t] \in Row /\ NoToken \notin Row
  BY SessionsAssumption DEF TypeOK, Exists, Row, NoToken
<1>2. \A s \in Tokens \ {t} : token'[s] = token[s]
  BY DEF TypeOK
<1>3. /\ token'[t] \in Row
      /\ token'[t].user = token[t].user /\ token'[t].by = token[t].by
      /\ token[t].revoked => token'[t].revoked
  <2>1. CASE token' = [token EXCEPT ![t].revoked = TRUE]
    BY <1>1, <2>1 DEF TypeOK, Row
  <2>2. CASE token' = [token EXCEPT ![t].expired = TRUE]
    BY <1>1, <2>2 DEF TypeOK, Row
  <2> QED BY <2>1, <2>2
<1>4. token' \in [Tokens -> Row \cup {NoToken}]
  <2>1. DOMAIN token' = Tokens /\ token' = [s \in Tokens |-> token'[s]]
    BY DEF TypeOK
  <2> QED BY <1>2, <1>3, <2>1 DEF TypeOK
<1>5. RowsStay
  BY <1>1, <1>2, <1>3 DEF RowsStay, Exists
<1> QED BY <1>2, <1>4, <1>5

\* A step that inserts nothing, and leaves settled calls settled, leaves the
\* records of the exchanges as they were.
LEMMA RecordsKept ==
  ASSUME IInv, RowsStay,
         \A s \in Tokens : Exists(s)' => Exists(s),
         \A k \in Calls : pc[k] \in Settled => pc'[k] \in Settled /\ args'[k] = args[k]
  PROVE  RowsRecorded' /\ PredecessorRevoked'
<1> USE DEF IInv
<1>1. \A s \in Tokens : Exists(s) => token[s].by \in Calls /\ pc[token[s].by] \in Settled
  BY SessionsAssumption DEF TypeOK, Exists, Row, NoToken, RowsRecorded
<1>2. RowsRecorded'
  BY <1>1 DEF RowsRecorded, RowsStay
<1>3. PredecessorRevoked'
  <2> SUFFICES ASSUME NEW t \in Tokens, NEW s \in Tokens, (s \in Successors(t))'
               PROVE  Exists(t)' /\ token'[t].revoked /\ token'[s].user = token'[t].user
    BY DEF PredecessorRevoked
  <2>1. Exists(s) /\ token'[s].by = token[s].by /\ token'[s].user = token[s].user
    BY DEF Successors, RowsStay
  <2>2. s \in Successors(t)
    BY <1>1, <2>1 DEF Successors
  <2> QED BY <2>1, <2>2 DEF PredecessorRevoked, RowsStay
<1> QED BY <1>2, <1>3

\* A call that does not move knows what it knew.
LEMMA KnowledgeKept ==
  ASSUME RowsStay, NEW k \in Calls, Knows(k), pc'[k] = pc[k], args'[k] = args[k],
         args[k].token \in Tokens \cup {None}
  PROVE  Knows(k)'
BY DEF Knows, RowsStay, Exists, Past

\* Nothing inserted, nothing revoked.
LEMMA TableKept ==
  ASSUME token' = token
  PROVE  RowsStay /\ \A s \in Tokens : Exists(s)' => Exists(s)
BY DEF RowsStay, Exists

----------------------------------------------------------------------------
\* No token and no call: every part of the invariant holds in the first state.
THEOREM InitEstablishes == Init => IInv
BY SessionsAssumption
   DEF Init, IInv, TypeOK, HandlersKnow, Knows, RowsRecorded, PredecessorRevoked, Successors,
       Exists, NoToken, NoRequest, Row, Past

\* A step of one call, given what it does to itself and to the table.
LEMMA CallStep ==
  ASSUME IInv, NEW c \in Calls, RowsStay,
         \A s \in Tokens : Exists(s)' => Exists(s),
         \A k \in Calls \ {c} : pc'[k] = pc[k] /\ args'[k] = args[k],
         pc[c] \in Settled => pc'[c] \in Settled /\ args'[c] = args[c],
         Knows(c)'
  PROVE  HandlersKnow' /\ RowsRecorded' /\ PredecessorRevoked'
<1>1. \A k \in Calls : args[k].token \in Tokens \cup {None}
  BY DEF IInv, TypeOK
<1>2. HandlersKnow'
  BY <1>1, KnowledgeKept DEF IInv, HandlersKnow
<1>3. \A k \in Calls : pc[k] \in Settled => pc'[k] \in Settled /\ args'[k] = args[k]
  OBVIOUS
<1> QED BY <1>2, <1>3, RecordsKept

LEMMA StartKeeps ==
  ASSUME IInv, NEW c \in Calls, NEW a \in Request, Start(c, a)
  PROVE  IInv'
<1> USE DEF IInv
<1>1. TypeOK'
  BY DEF Start, TypeOK, Goto, Request, Running
<1>2. pc'[c] = "started" /\ args'[c] = a /\ pc[c] = "idle"
  BY DEF Start, TypeOK, Goto
<1>3. Knows(c)'
  BY <1>2 DEF Knows, Past, Request
<1>4. \A k \in Calls \ {c} : pc'[k] = pc[k] /\ args'[k] = args[k]
  BY DEF Start, TypeOK, Goto
<1>5. RowsStay /\ \A s \in Tokens : Exists(s)' => Exists(s)
  BY TableKept DEF Start
<1>6. HandlersKnow' /\ RowsRecorded' /\ PredecessorRevoked'
  BY <1>2, <1>3, <1>4, <1>5, CallStep DEF Settled
<1> QED BY <1>1, <1>6

LEMMA CheckPasswordKeeps ==
  ASSUME IInv, NEW c \in Calls, CheckPassword(c)
  PROVE  IInv'
<1> USE DEF IInv
<1>1. TypeOK'
  BY DEF CheckPassword, TypeOK, Goto, Running
<1>2. pc'[c] \in {"checked", "refused"} /\ args'[c] = args[c] /\ pc[c] = "started"
  BY DEF CheckPassword, TypeOK, Goto
<1>3. Knows(c)'
  BY <1>2 DEF CheckPassword, HandlersKnow, Knows, Past
<1>4. \A k \in Calls \ {c} : pc'[k] = pc[k] /\ args'[k] = args[k]
  BY DEF CheckPassword, TypeOK, Goto
<1>5. RowsStay /\ \A s \in Tokens : Exists(s)' => Exists(s)
  BY TableKept DEF CheckPassword
<1>6. HandlersKnow' /\ RowsRecorded' /\ PredecessorRevoked'
  BY <1>2, <1>3, <1>4, <1>5, CallStep DEF Settled
<1> QED BY <1>1, <1>6

LEMMA CheckTokenKeeps ==
  ASSUME IInv, NEW c \in Calls, CheckToken(c)
  PROVE  IInv'
<1> USE DEF IInv
<1> DEFINE t == args[c].token
<1>1. t \in Tokens \cup {None} /\ args[c].op = "refresh" /\ pc[c] = "started"
  BY DEF CheckToken, TypeOK
<1>2. CASE Exchangeable(t)
  <2>1. Exists(t) /\ t \in Tokens /\ token[t].user \in Users
    BY <1>1, <1>2, SessionsAssumption DEF Exchangeable, Unspent, Exists, TypeOK, Row, NoToken
  <2>2. pc'[c] = "checked" /\ args'[c] = [args[c] EXCEPT !.user = token[t].user]
    BY <1>2 DEF CheckToken, TypeOK, Goto
  <2>3. args'[c].op = "refresh" /\ args'[c].token = t /\ args'[c].user = token[t].user
    BY <1>1, <2>2 DEF TypeOK
  <2>4. args' \in [Calls -> [ op : {"login", "refresh", "logout", "none"},
                              user : Users \cup {None}, token : Tokens \cup {None} ]]
    BY <1>2, <2>1 DEF CheckToken, TypeOK
  <2>5. TypeOK'
    BY <1>2, <2>4 DEF CheckToken, TypeOK, Goto, Running
  <2>6. Knows(c)'
    BY <2>1, <2>2, <2>3 DEF Knows, Past, CheckToken, Exists
  <2>7. \A k \in Calls \ {c} : pc'[k] = pc[k] /\ args'[k] = args[k]
    BY <1>2 DEF CheckToken, TypeOK, Goto
  <2>8. RowsStay /\ \A s \in Tokens : Exists(s)' => Exists(s)
    BY TableKept DEF CheckToken
  <2>9. HandlersKnow' /\ RowsRecorded' /\ PredecessorRevoked'
    BY <1>1, <2>6, <2>7, <2>8, CallStep DEF Settled
  <2> QED BY <2>5, <2>9
<1>3. CASE ~Exchangeable(t)
  <2>1. TypeOK'
    BY <1>3 DEF CheckToken, TypeOK, Goto, Running
  <2>2. pc'[c] = "refused" /\ args'[c] = args[c]
    BY <1>3 DEF CheckToken, TypeOK, Goto
  <2>3. Knows(c)'
    BY <1>1, <2>2 DEF HandlersKnow, Knows, Past
  <2>4. \A k \in Calls \ {c} : pc'[k] = pc[k] /\ args'[k] = args[k]
    BY <1>3 DEF CheckToken, TypeOK, Goto
  <2>5. RowsStay /\ \A s \in Tokens : Exists(s)' => Exists(s)
    BY TableKept DEF CheckToken
  <2>6. HandlersKnow' /\ RowsRecorded' /\ PredecessorRevoked'
    BY <1>1, <2>3, <2>4, <2>5, CallStep DEF Settled
  <2> QED BY <2>1, <2>6
<1> QED BY <1>2, <1>3

LEMMA RespondKeeps ==
  ASSUME IInv, NEW c \in Calls, Respond(c)
  PROVE  IInv'
<1> USE DEF IInv
<1>1. TypeOK'
  BY DEF Respond, TypeOK, Goto, Running
<1>2. pc'[c] = "done" /\ args'[c] = args[c] /\ pc[c] = "issued"
  BY DEF Respond, TypeOK, Goto, Running
<1>3. Knows(c)'
  BY <1>2 DEF HandlersKnow, Knows, Past
<1>4. \A k \in Calls \ {c} : pc'[k] = pc[k] /\ args'[k] = args[k]
  BY DEF Respond, TypeOK, Goto
<1>5. RowsStay /\ \A s \in Tokens : Exists(s)' => Exists(s)
  BY TableKept DEF Respond
<1>6. HandlersKnow' /\ RowsRecorded' /\ PredecessorRevoked'
  BY <1>2, <1>3, <1>4, <1>5, CallStep DEF Settled
<1> QED BY <1>1, <1>6

LEMMA FailKeeps ==
  ASSUME IInv, NEW c \in Calls, Fail(c)
  PROVE  IInv'
<1> USE DEF IInv
<1>1. TypeOK'
  <2>1. failed' \in 0..MaxFailed
    BY SessionsAssumption DEF Fail, Failing, TypeOK
  <2> QED BY <2>1 DEF Fail, TypeOK, Goto, Running
<1>2. pc'[c] = "failed" /\ args'[c] = args[c] /\ pc[c] \in Running
  BY DEF Fail, TypeOK, Goto, Running
<1>3. Knows(c)'
  BY <1>2 DEF HandlersKnow, Knows, Past
<1>4. \A k \in Calls \ {c} : pc'[k] = pc[k] /\ args'[k] = args[k]
  BY DEF Fail, TypeOK, Goto
<1>5. RowsStay /\ \A s \in Tokens : Exists(s)' => Exists(s)
  BY TableKept DEF Fail
<1>6. HandlersKnow' /\ RowsRecorded' /\ PredecessorRevoked'
  BY <1>2, <1>3, <1>4, <1>5, CallStep DEF Settled
<1> QED BY <1>1, <1>6

LEMMA LogoutFailsKeeps ==
  ASSUME IInv, NEW c \in Calls, LogoutFails(c)
  PROVE  IInv'
<1> USE DEF IInv
<1>1. TypeOK'
  <2>1. failed' \in 0..MaxFailed
    BY SessionsAssumption DEF LogoutFails, Failing, TypeOK
  <2> QED BY <2>1 DEF LogoutFails, TypeOK, Goto, Running
<1>2. pc'[c] = "done" /\ args'[c] = args[c] /\ pc[c] = "started"
  BY DEF LogoutFails, TypeOK, Goto, Running
<1>3. Knows(c)'
  BY <1>2 DEF HandlersKnow, Knows, Past
<1>4. \A k \in Calls \ {c} : pc'[k] = pc[k] /\ args'[k] = args[k]
  BY DEF LogoutFails, TypeOK, Goto
<1>5. RowsStay /\ \A s \in Tokens : Exists(s)' => Exists(s)
  BY TableKept DEF LogoutFails
<1>6. HandlersKnow' /\ RowsRecorded' /\ PredecessorRevoked'
  BY <1>2, <1>3, <1>4, <1>5, CallStep DEF Settled
<1> QED BY <1>1, <1>6

LEMMA RevokeExchangedKeeps ==
  ASSUME IInv, NEW c \in Calls, RevokeExchanged(c)
  PROVE  IInv'
<1> USE DEF IInv
<1> DEFINE t == args[c].token
<1>1. /\ pc[c] = "checked" /\ pc'[c] = "revoked" /\ args'[c] = args[c]
      /\ args[c].op = "refresh"
  BY DEF RevokeExchanged, TypeOK, Goto
<1>2. t \in Tokens /\ Exists(t) /\ token[t].user = args[c].user
  BY <1>1 DEF HandlersKnow, Knows, Past, Exists, TypeOK
<1>3. /\ token' \in [Tokens -> Row \cup {NoToken}]
      /\ RowsStay
      /\ \A s \in Tokens : ~Exists(s) => token'[s] = token[s]
  BY <1>2, FlagSet DEF RevokeExchanged
<1>4. TypeOK'
  BY <1>3 DEF RevokeExchanged, TypeOK, Goto, Running
<1>5. token'[t].revoked
  <2>1. token[t] \in Row
    BY <1>2 DEF TypeOK, Exists
  <2> QED BY <1>2, <2>1 DEF RevokeExchanged, TypeOK, Row
<1>6. Knows(c)'
  BY <1>1, <1>2, <1>3, <1>5 DEF HandlersKnow, Knows, Past, RowsStay, Exists
<1>7. \A k \in Calls \ {c} : pc'[k] = pc[k] /\ args'[k] = args[k]
  BY DEF RevokeExchanged, TypeOK, Goto
<1>8. \A s \in Tokens : Exists(s)' => Exists(s)
  BY <1>3 DEF Exists
<1>9. HandlersKnow' /\ RowsRecorded' /\ PredecessorRevoked'
  BY <1>1, <1>3, <1>6, <1>7, <1>8, CallStep DEF Settled
<1> QED BY <1>4, <1>9

LEMMA LogoutKeeps ==
  ASSUME IInv, NEW c \in Calls, Logout(c)
  PROVE  IInv'
<1> USE DEF IInv
<1> DEFINE t == args[c].token
<1>1. pc[c] = "started" /\ pc'[c] = "done" /\ args'[c] = args[c]
  BY DEF Logout, TypeOK, Goto
<1>2. /\ token' \in [Tokens -> Row \cup {NoToken}]
      /\ RowsStay
      /\ \A s \in Tokens : Exists(s)' => Exists(s)
  <2>1. CASE Exists(t)
    <3>1. t \in Tokens
      BY <2>1 DEF Exists, TypeOK
    <3> QED BY <2>1, <3>1, FlagSet DEF Logout, Exists
  <2>2. CASE ~Exists(t)
    BY <2>2, TableKept DEF Logout, TypeOK
  <2> QED BY <2>1, <2>2
<1>3. TypeOK'
  BY <1>2 DEF Logout, TypeOK, Goto, Running
<1>4. Knows(c)'
  BY <1>1 DEF HandlersKnow, Knows, Past
<1>5. \A k \in Calls \ {c} : pc'[k] = pc[k] /\ args'[k] = args[k]
  BY DEF Logout, TypeOK, Goto
<1>6. HandlersKnow' /\ RowsRecorded' /\ PredecessorRevoked'
  BY <1>1, <1>2, <1>4, <1>5, CallStep DEF Settled
<1> QED BY <1>3, <1>6

\* The insertion: the new row's call has read and revoked what it exchanges,
\* and is settled by the step itself.
LEMMA IssueTokensKeeps ==
  ASSUME IInv, NEW c \in Calls, IssueTokens(c)
  PROVE  IInv'
<1> USE DEF IInv
<1>1. PICK n \in Tokens : ~Exists(n) /\ token' = [token EXCEPT ![n] = Issued(c)]
  BY DEF IssueTokens
<1>2. /\ pc[c] \in {"checked", "revoked"} /\ pc'[c] = "issued" /\ args'[c] = args[c]
      /\ pc[c] = "revoked" <=> args[c].op = "refresh"
  BY DEF IssueTokens, ReadyToIssue, TypeOK, Goto, HandlersKnow, Knows
<1>3. Issued(c) \in Row /\ Issued(c).user = args[c].user /\ Issued(c).by = c
  BY <1>2 DEF Issued, Row, HandlersKnow, Knows, Past
<1>4. \A s \in Tokens \ {n} : token'[s] = token[s]
  BY <1>1 DEF TypeOK
<1>5. token'[n] = Issued(c)
  BY <1>1 DEF TypeOK
<1>6. TypeOK'
  <2>1. token' \in [Tokens -> Row \cup {NoToken}]
    BY <1>1, <1>3 DEF TypeOK
  <2> QED BY <2>1 DEF IssueTokens, TypeOK, Goto, Running
<1>7. RowsStay
  BY <1>1, <1>4 DEF RowsStay, Exists
<1>8. \A k \in Calls \ {c} : pc'[k] = pc[k] /\ args'[k] = args[k]
  BY DEF IssueTokens, TypeOK, Goto
<1>9. Knows(c)'
  BY <1>2, <1>7 DEF HandlersKnow, Knows, Past, RowsStay, Exists, TypeOK
<1>10. HandlersKnow'
  <2>1. \A k \in Calls : args[k].token \in Tokens \cup {None}
    BY DEF TypeOK
  <2> QED BY <1>7, <1>8, <1>9, <2>1, KnowledgeKept DEF HandlersKnow
<1>11. \A s \in Tokens : Exists(s) => token[s].by \in Calls /\ pc[token[s].by] \in Settled
  BY SessionsAssumption DEF TypeOK, Exists, Row, NoToken, RowsRecorded
<1>12. RowsRecorded'
  <2> SUFFICES ASSUME NEW s \in Tokens, Exists(s)' PROVE pc'[token'[s].by] \in Settled
    BY DEF RowsRecorded
  <2>1. CASE s = n
    BY <1>2, <1>3, <1>5, <2>1 DEF Settled
  <2>2. CASE s # n
    <3>1. Exists(s) /\ token'[s] = token[s]
      BY <1>4, <2>2 DEF Exists
    <3>2. token[s].by # c
      BY <1>2, <1>11, <3>1 DEF Settled
    <3> QED BY <1>8, <1>11, <3>1, <3>2
  <2> QED BY <2>1, <2>2
<1>13. PredecessorRevoked'
  <2> SUFFICES ASSUME NEW t \in Tokens, NEW s \in Tokens, (s \in Successors(t))'
               PROVE  Exists(t)' /\ token'[t].revoked /\ token'[s].user = token'[t].user
    BY DEF PredecessorRevoked
  <2>1. CASE s = n
    <3>1. args[c].op = "refresh" /\ args[c].token = t
      BY <1>2, <1>3, <1>5, <2>1 DEF Successors
    <3>2. Exists(t) /\ token[t].user = args[c].user /\ token[t].revoked
      BY <1>2, <3>1 DEF HandlersKnow, Knows, Past
    <3> QED BY <1>3, <1>5, <1>7, <2>1, <3>2 DEF RowsStay
  <2>2. CASE s # n
    <3>1. Exists(s) /\ token'[s] = token[s]
      BY <1>4, <2>2 DEF Exists, Successors
    <3>2. token[s].by \in Calls /\ token[s].by # c
      BY <1>2, <1>11, <3>1 DEF Settled
    <3>3. s \in Successors(t)
      BY <1>8, <3>1, <3>2 DEF Successors
    <3> QED BY <1>7, <3>1, <3>3 DEF PredecessorRevoked, RowsStay
  <2> QED BY <2>1, <2>2
<1> QED BY <1>6, <1>10, <1>12, <1>13

\* Time and administrators move no call.
LEMMA WorldStep ==
  ASSUME IInv, RowsStay, \A s \in Tokens : Exists(s)' => Exists(s), UNCHANGED <<pc, args>>
  PROVE  HandlersKnow' /\ RowsRecorded' /\ PredecessorRevoked'
<1>1. \A k \in Calls : args[k].token \in Tokens \cup {None}
  BY DEF IInv, TypeOK
<1>2. HandlersKnow'
  BY <1>1, KnowledgeKept DEF IInv, HandlersKnow
<1> QED BY <1>2, RecordsKept

LEMMA ExpireKeeps ==
  ASSUME IInv, NEW t \in Tokens, Expire(t)
  PROVE  IInv'
<1>1. /\ token' \in [Tokens -> Row \cup {NoToken}]
      /\ RowsStay
      /\ \A s \in Tokens : Exists(s)' => Exists(s)
  BY FlagSet DEF IInv, Expire, Exists
<1>2. TypeOK'
  BY <1>1 DEF IInv, Expire, TypeOK
<1> QED BY <1>1, <1>2, WorldStep DEF IInv, Expire

LEMMA ToggleUserKeeps ==
  ASSUME IInv, NEW x \in Users, ToggleUser(x)
  PROVE  IInv'
<1>1. TypeOK'
  BY DEF IInv, ToggleUser, TypeOK
<1> QED BY <1>1, WorldStep, TableKept DEF IInv, ToggleUser

LEMMA NextKeeps == IInv /\ [Next]_vars => IInv'
<1> SUFFICES ASSUME IInv, [Next]_vars PROVE IInv'
  OBVIOUS
<1>1. ASSUME NEW c \in Calls, Step(c) PROVE IInv'
  BY <1>1, CheckPasswordKeeps, CheckTokenKeeps, RevokeExchangedKeeps, IssueTokensKeeps,
     RespondKeeps, LogoutKeeps DEF Step
<1>2. CASE UNCHANGED vars
  <2>1. TypeOK'
    BY <1>2 DEF vars, IInv, TypeOK
  <2> QED BY <1>2, <2>1, WorldStep, TableKept DEF vars, IInv
<1> QED BY <1>1, <1>2, StartKeeps, FailKeeps, LogoutFailsKeeps, ExpireKeeps, ToggleUserKeeps
        DEF Next

\* The inductive invariant, in every reachable state of login, refresh and logout.
THEOREM InvariantHolds == Spec => []IInv
BY InitEstablishes, NextKeeps, PTL DEF Spec

\* Every reachable state is well typed: TypeOK, for all constants.
THEOREM TypeCorrect == Spec => []TypeOK
<1>1. IInv => TypeOK
  BY DEF IInv
<1> QED BY <1>1, InvariantHolds, PTL

\* refresh: however exchanges of any tokens overlap and wherever they stop, no
\* successor exists of a token that is not revoked, or for another user.
THEOREM ExchangeRevokesFirst == Spec => []PredecessorRevoked
<1>1. IInv => PredecessorRevoked
  BY DEF IInv
<1> QED BY <1>1, InvariantHolds, PTL

----------------------------------------------------------------------------
(* How many sessions there can be.                                         *)

\* Two finite sets do not have more elements together when nothing joins them,
\* or one element joins the first for another that leaves the second.
LEMMA NoMoreTogether ==
  ASSUME NEW S, NEW T, NEW P, NEW Q, IsFiniteSet(S), IsFiniteSet(P),
         \/ T \subseteq S /\ Q \subseteq P
         \/ \E n, c : T \subseteq S \cup {n} /\ c \in P /\ Q \subseteq P \ {c}
  PROVE  Cardinality(T) + Cardinality(Q) <= Cardinality(S) + Cardinality(P)
<1>1. Cardinality(S) \in Nat /\ Cardinality(P) \in Nat
  BY FS_CardinalityType
<1>2. CASE T \subseteq S /\ Q \subseteq P
  <2>1. IsFiniteSet(T) /\ Cardinality(T) <= Cardinality(S)
    BY <1>2, FS_Subset
  <2>2. IsFiniteSet(Q) /\ Cardinality(Q) <= Cardinality(P)
    BY <1>2, FS_Subset
  <2>3. Cardinality(T) \in Nat /\ Cardinality(Q) \in Nat
    BY <2>1, <2>2, FS_CardinalityType
  <2> QED BY <1>1, <2>1, <2>2, <2>3
<1>3. ASSUME NEW n, NEW c, T \subseteq S \cup {n}, c \in P, Q \subseteq P \ {c}
      PROVE  Cardinality(T) + Cardinality(Q) <= Cardinality(S) + Cardinality(P)
  <2>1. IsFiniteSet(S \cup {n}) /\ Cardinality(S \cup {n}) <= Cardinality(S) + 1
    <3>1. /\ IsFiniteSet(S \cup {n})
          /\ Cardinality(S \cup {n}) = IF n \in S THEN Cardinality(S) ELSE Cardinality(S) + 1
      BY FS_AddElement
    <3> QED BY <1>1, <3>1
  <2>2. IsFiniteSet(T) /\ Cardinality(T) <= Cardinality(S \cup {n})
    BY <1>3, <2>1, FS_Subset
  <2>3. IsFiniteSet(P \ {c}) /\ Cardinality(P \ {c}) = Cardinality(P) - 1
    BY <1>3, FS_RemoveElement
  <2>4. IsFiniteSet(Q) /\ Cardinality(Q) <= Cardinality(P \ {c})
    BY <1>3, <2>3, FS_Subset
  <2>5. /\ Cardinality(T) \in Nat /\ Cardinality(Q) \in Nat
        /\ Cardinality(S \cup {n}) \in Nat
    BY <2>1, <2>2, <2>4, FS_CardinalityType
  <2> QED BY <1>1, <2>1, <2>2, <2>3, <2>4, <2>5
<1> QED BY <1>2, <1>3

\* A call in hand was in hand before, asked the same; or it has just passed a
\* check, for a user who may log in, in an exchange of a token that was good.
StaysOrEnters(k) ==
  k \in InHand' =>
    \/ k \in InHand /\ args'[k] = args[k]
    \/ args'[k].token = None /\ args'[k].user \in active
    \/ /\ Exchangeable(args[k].token) /\ args'[k].token = args[k].token
       /\ args'[k].user \in active

\* A step that does not insert.
LEMMA QuietStep ==
  ASSUME IInv, [Next]_vars, \A c \in Calls : ~IssueTokens(c)
  PROVE  /\ RowsStay
         /\ \A s \in Tokens : Exists(s)' => Exists(s)
         /\ \A k \in Calls : pc[k] \in Settled => args'[k] = args[k]
         /\ \A k \in Calls : StaysOrEnters(k)
<1> DEFINE Goal == /\ RowsStay
                   /\ \A s \in Tokens : Exists(s)' => Exists(s)
                   /\ \A k \in Calls : pc[k] \in Settled => args'[k] = args[k]
                   /\ \A k \in Calls : StaysOrEnters(k)
<1>1. ASSUME NEW c \in Calls, NEW a \in Request, Start(c, a) PROVE Goal
  BY <1>1, TableKept DEF IInv, TypeOK, Start, Goto, Settled, StaysOrEnters, InHand
<1>2. ASSUME NEW c \in Calls, CheckPassword(c) PROVE Goal
  <2>1. args[c].token = None
    BY <1>2 DEF IInv, HandlersKnow, Knows, CheckPassword
  <2>2. \A k \in Calls : StaysOrEnters(k)
    BY <1>2, <2>1 DEF IInv, TypeOK, CheckPassword, Goto, StaysOrEnters, InHand
  <2> QED BY <1>2, <2>2, TableKept DEF CheckPassword
<1>3. ASSUME NEW c \in Calls, CheckToken(c) PROVE Goal
  <2>1. \A k \in Calls \ {c} : args'[k] = args[k] /\ pc'[k] = pc[k]
    BY <1>3 DEF IInv, TypeOK, CheckToken, Goto
  <2>2. pc[c] = "started" /\ pc'[c] \in {"checked", "refused"}
    BY <1>3 DEF IInv, TypeOK, CheckToken, Goto
  <2>3. pc'[c] = "checked" => /\ Exchangeable(args[c].token)
                              /\ args'[c].token = args[c].token
                              /\ args'[c].user = token[args[c].token].user
    BY <1>3 DEF IInv, TypeOK, CheckToken, Goto
  <2>4. \A k \in Calls : StaysOrEnters(k)
    BY <2>1, <2>2, <2>3 DEF StaysOrEnters, InHand, Exchangeable
  <2>5. \A k \in Calls : pc[k] \in Settled => args'[k] = args[k]
    BY <2>1, <2>2 DEF Settled
  <2> QED BY <1>3, <2>4, <2>5, TableKept DEF CheckToken
<1>4. ASSUME NEW c \in Calls, RevokeExchanged(c) PROVE Goal
  <2>1. args[c].token \in Tokens /\ Exists(args[c].token)
    BY <1>4 DEF IInv, HandlersKnow, Knows, Past, RevokeExchanged, TypeOK, Exists
  <2>2. RowsStay /\ \A s \in Tokens : Exists(s)' => Exists(s)
    BY <1>4, <2>1, FlagSet DEF IInv, RevokeExchanged, Exists
  <2> QED BY <1>4, <2>2 DEF IInv, TypeOK, RevokeExchanged, Goto, StaysOrEnters, InHand
<1>5. ASSUME NEW c \in Calls, Respond(c) PROVE Goal
  BY <1>5, TableKept DEF IInv, TypeOK, Respond, Goto, StaysOrEnters, InHand
<1>6. ASSUME NEW c \in Calls, Logout(c) PROVE Goal
  <2>1. RowsStay /\ \A s \in Tokens : Exists(s)' => Exists(s)
    <3>1. CASE Exists(args[c].token)
      <4>1. args[c].token \in Tokens
        BY <3>1 DEF IInv, TypeOK, Exists
      <4> QED BY <1>6, <3>1, <4>1, FlagSet DEF IInv, Logout, Exists
    <3>2. CASE ~Exists(args[c].token)
      BY <1>6, <3>2, TableKept DEF Logout
    <3> QED BY <3>1, <3>2
  <2> QED BY <1>6, <2>1 DEF IInv, TypeOK, Logout, Goto, StaysOrEnters, InHand
<1>7. ASSUME NEW c \in Calls, Fail(c) \/ LogoutFails(c) PROVE Goal
  <2>1. args' = args /\ token' = token /\ pc'[c] \in {"failed", "done"}
    BY <1>7 DEF IInv, TypeOK, Fail, LogoutFails, Goto
  <2>2. \A k \in Calls \ {c} : pc'[k] = pc[k]
    BY <1>7 DEF IInv, TypeOK, Fail, LogoutFails, Goto
  <2> QED BY <2>1, <2>2, TableKept DEF StaysOrEnters, InHand
<1>8. ASSUME NEW t \in Tokens, Expire(t) PROVE Goal
  <2>1. RowsStay /\ \A s \in Tokens : Exists(s)' => Exists(s)
    BY <1>8, FlagSet DEF IInv, Expire, Exists
  <2> QED BY <1>8, <2>1 DEF Expire, StaysOrEnters, InHand
<1>9. ASSUME NEW x \in Users, ToggleUser(x) PROVE Goal
  BY <1>9, TableKept DEF ToggleUser, StaysOrEnters, InHand
<1>10. ASSUME UNCHANGED vars PROVE Goal
  BY <1>10, TableKept DEF vars, StaysOrEnters, InHand
<1> HIDE DEF Goal
<1>11. ASSUME NEW c \in Calls, Step(c) PROVE Goal
  BY <1>2, <1>3, <1>4, <1>5, <1>6, <1>11 DEF Step
<1>12. ASSUME Next PROVE Goal
  BY <1>1, <1>7, <1>8, <1>9, <1>11, <1>12, Zenon DEF Next
<1>13. Goal
  BY <1>10, <1>12
<1> QED BY <1>13 DEF Goal

\* A step that inserts takes its call out of hand.
LEMMA InsertingStep ==
  ASSUME IInv, NEW c \in Calls, IssueTokens(c)
  PROVE  \E n \in Tokens :
           /\ ~Exists(n) /\ token' = [token EXCEPT ![n] = Issued(c)]
           /\ c \in InHand /\ InHand' = InHand \ {c}
           /\ args' = args
           /\ \A s \in Tokens : Exists(s) => token[s].by # c
<1>1. PICK n \in Tokens : ~Exists(n) /\ token' = [token EXCEPT ![n] = Issued(c)]
  BY DEF IssueTokens
<1>2. pc[c] \in {"checked", "revoked"} /\ pc' = [pc EXCEPT ![c] = "issued"] /\ args' = args
  BY DEF IssueTokens, ReadyToIssue, Goto
<1>3. c \in InHand /\ InHand' = InHand \ {c}
  BY <1>2 DEF InHand, IInv, TypeOK
<1>4. \A s \in Tokens : Exists(s) => token[s].by # c
  BY <1>2 DEF IInv, RowsRecorded, Settled
<1> QED BY <1>1, <1>2, <1>3, <1>4

\* RevokedYieldsNoMore, for all constants: what is revoked, by an exchange or by
\* logging out, yields only what exchanges already past their check insert.
THEOREM RevocationHolds == Spec => RevokedYieldsNoMore
<1> DEFINE Pending(t) == { c \in InHand : args[c].token = t }
           Bounded(t) == Cardinality(Successors(t))' + Cardinality(Pending(t))'
                           <= Cardinality(Successors(t)) + Cardinality(Pending(t))
<1>1. ASSUME IInv, [Next]_vars, NEW t \in Tokens, Exists(t), token[t].revoked
      PROVE  Bounded(t)
  <2> DEFINE S == Successors(t)
             P == Pending(t)
  <2>1. S \subseteq Tokens /\ P \subseteq Calls
    BY DEF Successors, InHand
  <2>2. IsFiniteSet(S) /\ IsFiniteSet(P)
    BY <2>1, SessionsAssumption, FS_Subset
  <2>3. \A s \in Tokens : Exists(s) => token[s].by \in Calls /\ pc[token[s].by] \in Settled
    BY <1>1, SessionsAssumption DEF IInv, TypeOK, Exists, Row, NoToken, RowsRecorded
  <2>4. CASE \A c \in Calls : ~IssueTokens(c)
    <3>1. S' \subseteq S
      BY <1>1, <2>3, <2>4, QuietStep DEF Successors, RowsStay
    <3>2. ~Exchangeable(t) /\ t # None
      BY <1>1, SessionsAssumption DEF Exchangeable, Unspent
    <3>3. P' \subseteq P
      <4> SUFFICES ASSUME NEW k \in Calls, k \in InHand', args'[k].token = t
                   PROVE  k \in InHand /\ args[k].token = t
        BY DEF InHand
      <4>1. StaysOrEnters(k)
        BY <1>1, <2>4, QuietStep
      <4> QED BY <3>2, <4>1 DEF StaysOrEnters
    <3> QED BY <2>2, <3>1, <3>3, NoMoreTogether
  <2>5. ASSUME NEW c \in Calls, IssueTokens(c) PROVE Bounded(t)
    <3>1. PICK n \in Tokens : /\ ~Exists(n) /\ token' = [token EXCEPT ![n] = Issued(c)]
                               /\ c \in InHand /\ InHand' = InHand \ {c}
                               /\ args' = args
                               /\ \A s \in Tokens : Exists(s) => token[s].by # c
      BY <1>1, <2>5, InsertingStep
    <3>2. token'[n].by = c /\ \A s \in Tokens \ {n} : token'[s] = token[s]
      BY <1>1, <3>1 DEF IInv, TypeOK, Issued
    <3>3. \A s \in Tokens \ {n} : s \in S' => s \in S
      BY <3>1, <3>2 DEF Successors, Exists
    <3>4. n \in S' => args[c].token = t
      BY <3>1, <3>2 DEF Successors
    <3>5. P' = P \ {c}
      BY <3>1
    <3>6. CASE args[c].token = t
      <4>1. S' \subseteq S \cup {n} /\ c \in P
        BY <3>1, <3>3, <3>6 DEF Successors
      <4> QED BY <2>2, <3>5, <4>1, NoMoreTogether
    <3>7. CASE args[c].token # t
      <4>1. S' \subseteq S /\ P' \subseteq P
        BY <3>3, <3>4, <3>5, <3>7 DEF Successors
      <4> QED BY <2>2, <4>1, NoMoreTogether
    <3> QED BY <3>6, <3>7
  <2> QED
    <3>1. CASE \A c \in Calls : ~IssueTokens(c)
      BY <2>4, <3>1
    <3>2. CASE \E c \in Calls : IssueTokens(c)
      BY <2>5, <3>2
    <3> QED BY <3>1, <3>2
<1> HIDE DEF Bounded
<1>2. IInv /\ [Next]_vars =>
        [\A t \in Tokens : Exists(t) /\ token[t].revoked => Bounded(t)]_vars
  BY <1>1
<1> USE DEF Bounded
<1> QED BY <1>2, InvariantHolds, PTL DEF Spec, RevokedYieldsNoMore

\* SwitchedOffGainsNothing, for all constants: a user who has been switched off
\* has no more sessions, stored or in the making, after any step.
THEOREM SwitchingOffHolds == Spec => SwitchedOffGainsNothing
<1> DEFINE His(x) == { t \in Tokens : token[t].user = x }
           Making(x) == { c \in InHand : args[c].user = x }
           Bounded(x) == Cardinality(His(x))' + Cardinality(Making(x))'
                           <= Cardinality(His(x)) + Cardinality(Making(x))
<1>1. ASSUME IInv, [Next]_vars, NEW x \in Users, x \notin active
      PROVE  Bounded(x)
  <2> DEFINE S == His(x)
             P == Making(x)
  <2>1. IsFiniteSet(S) /\ IsFiniteSet(P)
    <3>1. S \subseteq Tokens /\ P \subseteq Calls
      BY DEF InHand
    <3> QED BY <3>1, SessionsAssumption, FS_Subset
  <2>2. \A s \in Tokens : token[s].user = x => Exists(s)
    BY SessionsAssumption DEF Exists, NoToken
  <2>3. CASE \A c \in Calls : ~IssueTokens(c)
    <3>1. S' \subseteq S
      <4> SUFFICES ASSUME NEW s \in Tokens, token'[s].user = x PROVE token[s].user = x
        OBVIOUS
      <4>1. Exists(s)'
        BY SessionsAssumption DEF Exists, NoToken
      <4> QED BY <1>1, <2>3, <4>1, QuietStep DEF RowsStay
    <3>2. P' \subseteq P
      <4> SUFFICES ASSUME NEW k \in Calls, k \in InHand', args'[k].user = x
                   PROVE  k \in InHand /\ args[k].user = x
        BY DEF InHand
      <4>1. StaysOrEnters(k)
        BY <1>1, <2>3, QuietStep
      <4> QED BY <1>1, <4>1 DEF StaysOrEnters
    <3> QED BY <2>1, <3>1, <3>2, NoMoreTogether
  <2>4. ASSUME NEW c \in Calls, IssueTokens(c) PROVE Bounded(x)
    <3>1. PICK n \in Tokens : /\ ~Exists(n) /\ token' = [token EXCEPT ![n] = Issued(c)]
                               /\ c \in InHand /\ InHand' = InHand \ {c}
                               /\ args' = args
      BY <1>1, <2>4, InsertingStep
    <3>2. /\ token'[n].user = args[c].user
          /\ \A s \in Tokens \ {n} : token'[s] = token[s]
      BY <1>1, <3>1 DEF IInv, TypeOK, Issued
    <3>3. P' = P \ {c}
      BY <3>1
    <3>4. CASE args[c].user = x
      <4>1. S' \subseteq S \cup {n} /\ c \in P
        BY <3>1, <3>2, <3>4
      <4> QED BY <2>1, <3>3, <4>1, NoMoreTogether
    <3>5. CASE args[c].user # x
      <4>1. S' \subseteq S /\ P' \subseteq P
        BY <3>2, <3>3, <3>5
      <4> QED BY <2>1, <4>1, NoMoreTogether
    <3> QED BY <3>4, <3>5
  <2> QED
    <3>1. CASE \A c \in Calls : ~IssueTokens(c)
      BY <2>3, <3>1
    <3>2. CASE \E c \in Calls : IssueTokens(c)
      BY <2>4, <3>2
    <3> QED BY <3>1, <3>2
<1> HIDE DEF Bounded
<1>2. IInv /\ [Next]_vars => [\A x \in Users : x \notin active => Bounded(x)]_vars
  BY <1>1
<1> USE DEF Bounded
<1> QED BY <1>2, InvariantHolds, PTL DEF Spec, SwitchedOffGainsNothing

----------------------------------------------------------------------------
(* Calls one after the other.                                              *)

OneAtATime == \A c, d \in InFlight : c = d

\* A token has one successor at most, and an exchange past its check is of a
\* token that has none: what else could have exchanged it meanwhile?
ExchangesAlone ==
  /\ \A t \in Tokens : \A r, s \in Successors(t) : r = s
  /\ \A c \in InHand : args[c].op = "refresh" => Successors(args[c].token) = {}

SerialInv == OneAtATime /\ ExchangesAlone

\* Only a call that starts adds to those in flight, and it starts alone.
LEMMA StaysAlone ==
  ASSUME IInv, Serial, OneAtATime, [MCNext]_mcVars
  PROVE  OneAtATime'
<1>1. ASSUME NEW c \in Calls, NEW a \in Request, Start(c, a), WithinBounds
      PROVE  OneAtATime'
  <2>1. IsFiniteSet(InFlight)
    BY SessionsAssumption, FS_Subset DEF InFlight
  <2>2. Cardinality(InFlight) \in Nat
    BY <2>1, FS_CardinalityType
  <2>3. InFlight = {}
    BY <1>1, <2>1, <2>2, FS_EmptySet DEF WithinBounds, Serial
  <2>4. InFlight' \subseteq {c}
    BY <1>1, <2>3 DEF Start, Goto, InFlight, IInv, TypeOK
  <2> QED BY <2>4 DEF OneAtATime
<1>2. ASSUME NEW c \in Calls, Step(c) \/ Fail(c) \/ LogoutFails(c) PROVE OneAtATime'
  <2>1. pc[c] \in Running
    BY <1>2 DEF Step, CheckPassword, CheckToken, RevokeExchanged, IssueTokens, ReadyToIssue,
                Respond, Logout, Fail, LogoutFails, Running
  <2>2. \A k \in Calls \ {c} : pc'[k] = pc[k]
    BY <1>2 DEF Step, CheckPassword, CheckToken, RevokeExchanged, IssueTokens, Respond,
                Logout, Fail, LogoutFails, Goto, IInv, TypeOK
  <2>3. InFlight' \subseteq InFlight
    BY <2>1, <2>2 DEF InFlight
  <2> QED BY <2>3 DEF OneAtATime
<1>3. ASSUME pc' = pc PROVE OneAtATime'
  BY <1>3 DEF OneAtATime, InFlight
<1> QED BY <1>1, <1>2, <1>3 DEF MCNext, mcVars, vars, Step, Expire, ToggleUser

\* With one call at a time the check of an exchange is as good at the insertion
\* as when it was made.
LEMMA ExchangesAloneKept ==
  ASSUME IInv, SerialInv, [Next]_vars
  PROVE  ExchangesAlone'
<1>1. \A s \in Tokens : Exists(s) => token[s].by \in Calls /\ pc[token[s].by] \in Settled
  BY SessionsAssumption DEF IInv, TypeOK, Exists, Row, NoToken, RowsRecorded
<1>2. CASE \A c \in Calls : ~IssueTokens(c)
  <2>1. \A t : Successors(t)' \subseteq Successors(t)
    BY <1>1, <1>2, QuietStep DEF Successors, RowsStay
  <2>2. ASSUME NEW c \in Calls, c \in InHand', args'[c].op = "refresh"
        PROVE  (Successors(args[c].token) = {})'
    <3>1. PICK t \in Tokens : t = args'[c].token /\ t # None
      BY <2>2, NextKeeps, SessionsAssumption
         DEF IInv, TypeOK, HandlersKnow, Knows, InHand, Past, Exists
    <3>2. StaysOrEnters(c)
      BY <1>2, QuietStep
    <3>3. c \in InHand /\ args'[c] = args[c] => Successors(t) = {}
      BY <2>2, <3>1 DEF SerialInv, ExchangesAlone
    <3>4. Exchangeable(t) => Successors(t) = {}
      BY DEF IInv, PredecessorRevoked, Exchangeable, Unspent, Successors
    <3>5. Successors(t) = {}
      BY <2>2, <3>1, <3>2, <3>3, <3>4 DEF StaysOrEnters
    <3>6. Successors(t)' = {}
      BY <2>1, <3>5
    <3> QED BY <3>1, <3>6 DEF Successors
  <2> QED BY <2>1, <2>2 DEF SerialInv, ExchangesAlone, InHand
<1>3. ASSUME NEW c \in Calls, IssueTokens(c) PROVE ExchangesAlone'
  <2>1. PICK n \in Tokens : /\ ~Exists(n) /\ token' = [token EXCEPT ![n] = Issued(c)]
                             /\ c \in InHand /\ InHand' = InHand \ {c}
                             /\ args' = args
    BY <1>3, InsertingStep
  <2>2. token'[n].by = c /\ \A s \in Tokens \ {n} : token'[s] = token[s]
    BY <2>1 DEF IInv, TypeOK, Issued
  <2>3. InHand' = {}
    BY <2>1 DEF SerialInv, OneAtATime, InFlight, InHand, Running
  <2>4. \A t \in Tokens : \A s \in Successors(t)' \ {n} : s \in Successors(t)
    BY <2>1, <2>2 DEF Successors, Exists
  <2>5. \A t \in Tokens : n \in Successors(t)' => Successors(t) = {}
    BY <2>1, <2>2 DEF Successors, SerialInv, ExchangesAlone
  <2>6. ASSUME NEW t \in Tokens, NEW r \in Successors(t)', NEW s \in Successors(t)'
        PROVE  r = s
    BY <2>4, <2>5, <2>6 DEF SerialInv, ExchangesAlone
  <2> QED BY <2>3, <2>6 DEF ExchangesAlone
<1> QED BY <1>2, <1>3

\* A set whose elements are all the same has one at most.
LEMMA AtMostOne ==
  ASSUME NEW S, \A r, s \in S : r = s
  PROVE  Cardinality(S) <= 1
<1>1. CASE S = {}
  BY <1>1, FS_EmptySet
<1>2. CASE S # {}
  <2>1. PICK s \in S : S = {s}
    BY <1>2
  <2> QED BY <2>1, FS_Singleton
<1> QED BY <1>1, <1>2

\* refresh, for any number of tokens and calls: as long as one call is handled
\* at a time a token is exchanged once, whatever fails, is answered or is not,
\* is presented again, or is switched off in between.
THEOREM ExchangedOnceAlone == MCSpec => []ExchangedOnceSerially
<1> DEFINE Inv == IInv /\ (Serial => SerialInv)
<1>1. MCInit => Inv
  BY InitEstablishes
     DEF MCInit, Init, SerialInv, OneAtATime, InFlight, Running, ExchangesAlone, InHand,
         Successors, Exists
<1>2. [MCNext]_mcVars => [Next]_vars /\ bounds' = bounds
  BY DEF MCNext, mcVars, vars, Next, Step
<1>3. Inv /\ [MCNext]_mcVars => Inv'
  <2> SUFFICES ASSUME Inv, [MCNext]_mcVars PROVE Inv'
    OBVIOUS
  <2>1. IInv'
    BY <1>2, NextKeeps
  <2>2. Serial' => Serial
    BY <1>2 DEF Serial
  <2>3. Serial => OneAtATime' /\ ExchangesAlone'
    BY <1>2, StaysAlone, ExchangesAloneKept DEF SerialInv
  <2> QED BY <2>1, <2>2, <2>3 DEF SerialInv
<1>4. Inv => ExchangedOnceSerially
  BY AtMostOne DEF ExchangedOnceSerially, ExchangedOnce, SerialInv, ExchangesAlone
<1> QED BY <1>1, <1>3, <1>4, PTL DEF MCSpec
=============================================================================
