-------------------------- MODULE AuthSessionsProofs --------------------------
(***************************************************************************)
(* Proofs about AuthSessions, for every set of users, devices, rows and    *)
(* requests.  Each theorem has its inductive invariant: the property and   *)
(* what the requests in flight know about the rows they hold.              *)
(***************************************************************************)
EXTENDS AuthSessions, FiniteSetTheorems, TLAPS

\* What a request in flight has read is still there: rows are never deleted,
\* and a row's session and user never change.  q is the state of a request.
Holds(q) ==
    /\ q.pc \in {"reactivate", "selectRows"} => q.sess \in SessionId
    /\ q.pc \in {"insertSession", "selectSessions"} => q.sess = None
    /\ q.sess # None => sessions[q.sess].state # "absent"
    /\ q.pc \in {"reactivate", "commitLogin"} /\ q.sess # None
          => sessions[q.sess].user = q.user
    /\ q.pc \in {"revokeOne", "findUser", "insertToken"}
          => /\ q.tok \in TokenId
             /\ Stored(q.tok)
             /\ q.sess = tokens[q.tok].session
    /\ q.pc = "respond" => q.tok \in TokenId /\ Stored(q.tok)
    /\ \A t \in q.rows : Stored(t)

Inv == TypeOK /\ \A r \in Request : Holds(req[r])

LEMMA InitInv == Init => Inv
<1> SUFFICES ASSUME Init PROVE Inv
  OBVIOUS
<1>1. TypeOK
  BY ConstantsAssumption
  DEF Init, TypeOK, SessionRow, NoSession, TokenRow, NoToken, RequestState, Pc, Idle, Stored
<1>2. QED
  BY <1>1 DEF Init, Inv, Holds, Idle

\* The fresh keys are keys no row uses.
LEMMA FreshKeys ==
    /\ \A s \in NextSession : s \in SessionId /\ sessions[s].state = "absent"
    /\ \A t \in NextToken : t \in TokenId /\ ~Stored(t)
BY DEF NextSession, NextToken

LEMMA IdleOK == Idle \in RequestState /\ Holds(Idle)
BY DEF Idle, RequestState, Pc, Holds

\* A request that has signed its JWT is well formed.
LEMMA Signs ==
    ASSUME NEW q \in RequestState, NEW label \in Pc, NEW t \in Nat
    PROVE  [q EXCEPT !.pc = label, !.iat = t] \in RequestState
BY DEF RequestState

\* A step that only moves one request preserves the invariant when the
\* request's new state is well formed.
LEMMA RequestStep ==
    ASSUME Inv, NEW r \in Request, NEW q \in RequestState, Holds(q),
           req' = [req EXCEPT ![r] = q], UNCHANGED <<sessions, tokens, history, delivered, now>>
    PROVE  Inv'
<1>1. TypeOK'
  BY DEF Inv, TypeOK, Stored
<1>2. \A p \in Request : Holds(req[p])'
  BY DEF Inv, Holds, TypeOK, Stored
<1>3. QED BY <1>1, <1>2 DEF Inv

\* No row is deleted, and a row's session and user never change.
RowsKept ==
    /\ \A s \in SessionId : sessions[s].state # "absent" =>
          sessions'[s].state # "absent" /\ sessions'[s].user = sessions[s].user
    /\ \A t \in TokenId : Stored(t) =>
          tokens'[t].state # "absent" /\ tokens'[t].session = tokens[t].session

\* A step that keeps the rows keeps what a request holds, when the request
\* stays at its statement.
LEMMA HoldsStable ==
    ASSUME Inv, RowsKept, NEW p \in Request,
           req'[p].pc = req[p].pc, req'[p].user = req[p].user,
           req'[p].sess = req[p].sess, req'[p].tok = req[p].tok,
           req'[p].rows = req[p].rows
    PROVE  Holds(req[p])'
<1>1. /\ req[p] \in RequestState /\ Holds(req[p])
  BY DEF Inv, TypeOK
<1>2. QED
  BY <1>1 DEF RowsKept, Holds, Stored, RequestState

LEMMA NextInv == Inv /\ [Next]_vars => Inv'
<1> SUFFICES ASSUME Inv, [Next]_vars PROVE Inv'
  OBVIOUS
<1> USE ConstantsAssumption DEF At
<1>a. /\ TypeOK
      /\ \A r \in Request : req[r] \in RequestState /\ Holds(req[r])
  BY DEF Inv, TypeOK
<1>1. ASSUME NEW r \in Request, NEW u \in User, NEW d \in Device, FindSession(r, u, d)
      PROVE  Inv'
  <2> DEFINE start == [Idle EXCEPT !.user = u, !.device = d]
  <2>a. start \in RequestState /\ start.sess = None /\ start.user = u /\ start.rows = {}
    BY DEF Idle, RequestState, Pc
  <2>b. now \in Nat /\ \A s \in SessionsOf(u) : s \in SessionId /\ s # None
                   /\ sessions[s].state # "absent" /\ sessions[s].user = u
    BY <1>a DEF TypeOK, SessionsOf
  <2> HIDE DEF start
  <2>1. CASE req' = [req EXCEPT ![r] = [start EXCEPT !.pc = "insertSession"]]
    <3> DEFINE q == [start EXCEPT !.pc = "insertSession"]
    <3>1. q \in RequestState
      BY <2>a DEF RequestState, Pc
    <3>2. Holds(q)
      BY <2>a DEF RequestState, Holds
    <3>3. QED
      BY <1>1, <2>1, <3>1, <3>2, RequestStep DEF FindSession
  <2>2. ASSUME NEW s \in SessionsOf(u), 
               req' = [req EXCEPT ![r] = [start EXCEPT !.pc = "commitLogin", !.sess = s, !.iat = now]]
        PROVE  Inv'
    <3> DEFINE q == [start EXCEPT !.pc = "commitLogin", !.sess = s, !.iat = now]
    <3>1. q \in RequestState
      BY <2>a, <2>b DEF RequestState, Pc
    <3>2. Holds(q)
      BY <2>a, <2>b DEF RequestState, Holds
    <3>3. QED
      BY <1>1, <2>2, <3>1, <3>2, RequestStep DEF FindSession
  <2>3. ASSUME NEW s \in SessionsOf(u), 
               req' = [req EXCEPT ![r] = [start EXCEPT !.pc = "reactivate", !.sess = s]]
        PROVE  Inv'
    <3> DEFINE q == [start EXCEPT !.pc = "reactivate", !.sess = s]
    <3>1. q \in RequestState
      BY <2>a, <2>b DEF RequestState, Pc
    <3>2. Holds(q)
      BY <2>a, <2>b DEF RequestState, Holds
    <3>3. QED
      BY <1>1, <2>3, <3>1, <3>2, RequestStep DEF FindSession
  <2>4. QED
    BY <1>1, <2>1, <2>2, <2>3 DEF FindSession, start
<1>2. ASSUME NEW r \in Request, NEW j \in delivered, FindToken(r, j)
      PROVE  Inv'
  <2>1. PICK t \in TokenId, label \in {"refused", "revokeOne"} :
           /\ Stored(t)
           /\ req' = [req EXCEPT ![r] =
                [Idle EXCEPT !.pc = label, !.sess = tokens[t].session, !.tok = t]]
    BY <1>2 DEF FindToken
  <2> DEFINE q == [Idle EXCEPT !.pc = label, !.sess = tokens[t].session, !.tok = t]
  <2>2. q \in RequestState /\ Holds(q)
    BY <1>a, <2>1 DEF Idle, RequestState, Pc, Holds, TypeOK, TokenRow, Stored
  <2>3. QED
    BY <1>2, <2>1, <2>2, RequestStep DEF FindToken
<1>3. ASSUME NEW r \in Request, NEW s \in SessionId, StartLogout(r, s)
      PROVE  Inv'
  <2> DEFINE q == [Idle EXCEPT !.pc = "selectRows", !.sess = s]
  <2>1. q \in RequestState /\ Holds(q)
    BY <1>3 DEF StartLogout, Idle, RequestState, Pc, Holds
  <2>2. QED
    BY <1>3, <2>1, RequestStep DEF StartLogout
<1>4. ASSUME NEW r \in Request, NEW d \in Device, StartLogoutDevice(r, d)
      PROVE  Inv'
  <2>1. PICK s \in SessionId : StartLogout(r, s)
    BY <1>4 DEF StartLogoutDevice, StartLogout
  <2>2. QED
    BY <1>3, <2>1
<1>5. ASSUME NEW r \in Request, NEW u \in User, StartLogoutAll(r, u)
      PROVE  Inv'
  <2> DEFINE rows == {t \in UNION {TokensOf(s) : s \in SessionsOf(u)} : Live(t)}
             q == [Idle EXCEPT !.pc = "revokeRows", !.user = u, !.rows = rows]
  <2>1. rows \in SUBSET TokenId
    BY DEF TokensOf
  <2>2. q \in RequestState /\ Holds(q)
    BY <2>1 DEF Idle, RequestState, Pc, Holds, TokensOf, Live, Stored
  <2>3. QED
    BY <1>5, <2>2, RequestStep DEF StartLogoutAll
<1>6. ASSUME NEW r \in Request, Reactivate(r) PROVE Inv'
  <2> DEFINE q == [req[r] EXCEPT !.pc = "commitLogin", !.iat = now]
  <2>1. req[r].sess \in SessionId /\ sessions[req[r].sess] \in SessionRow
    BY <1>6, <1>a DEF Reactivate, Holds, TypeOK
  <2>2. q \in RequestState /\ q.pc = "commitLogin" /\ q.sess = req[r].sess /\ q.user = req[r].user
        /\ q.rows = req[r].rows
    <3>1. req[r] \in RequestState /\ now \in Nat
      BY <1>a DEF TypeOK
    <3>2. "commitLogin" \in Pc
      BY DEF Pc
    <3>3. q \in RequestState
      BY <3>1, <3>2, Signs
    <3>4. QED BY <3>1, <3>3 DEF RequestState
  <2>3. req' = [req EXCEPT ![r] = q]
    BY <1>6, <1>a DEF Reactivate, TypeOK, RequestState
  <2>4. sessions' \in [SessionId -> SessionRow] /\ RowsKept
    BY <1>6, <1>a, <2>1 DEF Reactivate, TypeOK, SessionRow, RowsKept, Stored
  <2>5. TypeOK'
    BY <1>6, <1>a, <2>2, <2>3, <2>4 DEF Reactivate, TypeOK, Stored, RowsKept
  <2>6. Holds(req[r])'
    BY <1>6, <1>a, <2>1, <2>2, <2>3 DEF Reactivate, Holds, TypeOK, SessionRow, Stored
  <2>7. \A p \in Request \ {r} : Holds(req[p])'
    BY <1>a, <2>3, <2>4, HoldsStable DEF TypeOK
  <2>8. QED BY <2>5, <2>6, <2>7 DEF Inv
<1>7. ASSUME NEW r \in Request, InsertSession(r) PROVE Inv'
  <2> DEFINE q == [req[r] EXCEPT !.pc = "commitLogin", !.iat = now]
  <2>1. q \in RequestState
    <3>1. req[r] \in RequestState /\ now \in Nat
      BY <1>a DEF TypeOK
    <3>2. "commitLogin" \in Pc
      BY DEF Pc
    <3>3. QED BY <3>1, <3>2, Signs
  <2>4. req' = [req EXCEPT ![r] = q]
    BY <1>7, <1>a DEF InsertSession, RequestState, TypeOK
  <2>2. Holds(q)
    BY <1>7, <1>a DEF InsertSession, Holds, RequestState
  <2>3. QED BY <1>7, <2>1, <2>2, <2>4, RequestStep DEF InsertSession
<1>8. ASSUME NEW r \in Request, CommitLogin(r) PROVE Inv'
  <2>1. PICK t \in NextToken, s \in IF req[r].sess = None THEN NextSession ELSE {req[r].sess} :
          /\ sessions' = IF req[r].sess = None
                         THEN [sessions EXCEPT ![s] =
                                 [state |-> "active", user |-> req[r].user,
                                  device |-> req[r].device]]
                         ELSE sessions
          /\ tokens' = [tokens EXCEPT ![t] = NewToken(r, s, req[r].user, None)]
          /\ req' = [req EXCEPT ![r].pc = "respond", ![r].sess = s, ![r].tok = t]
    BY <1>8 DEF CommitLogin
  <2>2. /\ t \in TokenId /\ ~Stored(t)
        /\ s \in SessionId
        /\ IF req[r].sess = None THEN s \in NextSession ELSE s = req[r].sess
    BY <1>a, FreshKeys DEF RequestState
  <2> DEFINE q == [req[r] EXCEPT !.pc = "respond", !.sess = s, !.tok = t]
  <2>3. /\ q \in RequestState /\ q.pc = "respond"
        /\ q.sess = s /\ q.tok = t /\ q.rows = req[r].rows
    BY <1>a, <2>2, ZenonT(30) DEF RequestState, Pc
  <2>4. req' = [req EXCEPT ![r] = q]
    BY <1>a, <2>1 DEF TypeOK, RequestState
  <2>5. /\ sessions' \in [SessionId -> SessionRow]
        /\ sessions'[s].state # "absent"
        /\ \A x \in SessionId : sessions[x].state # "absent" =>
              sessions'[x].state # "absent" /\ sessions'[x].user = sessions[x].user
    <3>1. CASE req[r].sess = None
      <4>1. sessions[s].state = "absent"
        BY <2>2, <3>1, FreshKeys
      <4>2. [state |-> "active", user |-> req[r].user, device |-> req[r].device] \in SessionRow
        BY <1>a DEF SessionRow, RequestState
      <4>3. QED BY <1>a, <2>1, <2>2, <3>1, <4>1, <4>2 DEF TypeOK
    <3>2. CASE req[r].sess # None
      BY <1>a, <2>1, <2>2, <3>2 DEF TypeOK, Holds
    <3>3. QED BY <3>1, <3>2
  <2> DEFINE row == NewToken(r, s, req[r].user, None)
  <2>6. row \in TokenRow /\ row.state = "live" /\ row.session = s
    <3>1. now + RowTTL \in Nat /\ req[r].iat \in Nat
      BY <1>a DEF TypeOK, RequestState
    <3>2. row.raced \in BOOLEAN
      BY DEF NewToken
    <3>3. QED BY <2>2, <3>1, <3>2 DEF NewToken, TokenRow
  <2>7. tokens' \in [TokenId -> TokenRow] /\ tokens'[t].session = s /\ tokens'[t].state = "live"
        /\ \A x \in TokenId \ {t} : tokens'[x] = tokens[x]
    BY <1>a, <2>1, <2>2, <2>6 DEF TypeOK
  <2>8. RowsKept
    BY <2>2, <2>5, <2>7 DEF RowsKept, Stored
  <2>9. req' \in [Request -> RequestState]
    BY <1>a, <2>3, <2>4 DEF TypeOK
  <2>10. \A x \in TokenId : Stored(x)' =>
            tokens'[x].session \in SessionId /\ sessions'[tokens'[x].session].state # "absent"
    <3> SUFFICES ASSUME NEW x \in TokenId, Stored(x)'
                 PROVE  tokens'[x].session \in SessionId
                        /\ sessions'[tokens'[x].session].state # "absent"
      OBVIOUS
    <3>1. CASE x = t
      BY <2>2, <2>5, <2>7, <3>1
    <3>2. CASE x # t
      <4>1. tokens'[x] = tokens[x] /\ Stored(x)
        BY <2>7, <3>2 DEF Stored
      <4>2. tokens[x].session \in SessionId /\ sessions[tokens[x].session].state # "absent"
        BY <1>a, <4>1 DEF TypeOK
      <4>3. QED BY <2>5, <4>1, <4>2
    <3>3. QED BY <3>1, <3>2
  <2>11. TypeOK'
    BY <1>8, <1>a, <2>5, <2>7, <2>9, <2>10, SMTT(30) DEF CommitLogin, TypeOK
  <2>12. Holds(req[r])'
    <3>1. req'[r] = q
      BY <1>a, <2>4 DEF TypeOK
    <3>2. \A x \in req[r].rows : x \in TokenId /\ Stored(x)
      BY <1>a DEF Holds, RequestState
    <3>3. \A x \in q.rows : Stored(x)'
      BY <2>3, <2>8, <3>2 DEF RowsKept, Stored
    <3>4. Stored(t)'
      BY <2>7 DEF Stored
    <3> HIDE DEF q
    <3>5. QED BY <2>2, <2>3, <2>5, <3>1, <3>3, <3>4 DEF Holds
  <2>13. \A p \in Request \ {r} : Holds(req[p])'
    BY <1>a, <2>4, <2>8, HoldsStable DEF TypeOK
  <2>14. QED BY <2>11, <2>12, <2>13 DEF Inv
<1>9. ASSUME NEW r \in Request, Respond(r) PROVE Inv'
  <2>1. Jwt(req[r].tok) \in SessionId \X Nat
    BY <1>9, <1>a DEF Respond, Jwt, TypeOK, TokenRow, Holds
  <2>2. req' \in [Request -> RequestState] /\ \A p \in Request \ {r} : req'[p] = req[p]
    BY <1>9, <1>a, IdleOK DEF Respond, TypeOK
  <2>3. TypeOK'
    BY <1>9, <1>a, <2>1, <2>2 DEF Respond, TypeOK, Stored
  <2>4. \A p \in Request : Holds(req[p])'
    BY <1>9, <1>a, <2>2 DEF Respond, Holds, Idle, TypeOK, Stored
  <2>5. QED BY <2>3, <2>4 DEF Inv
<1>10. ASSUME NEW r \in Request, Refuse(r) PROVE Inv'
  BY <1>10, IdleOK, RequestStep DEF Refuse
<1>11. ASSUME NEW r \in Request, RevokeOne(r) PROVE Inv'
  <2> DEFINE t == req[r].tok
  <2>1. t \in TokenId /\ Stored(t)
    BY <1>11, <1>a DEF RevokeOne, Holds
  <2>2. /\ tokens' \in [TokenId -> TokenRow]
        /\ tokens' = [tokens EXCEPT ![t].state = "revoked"]
        /\ \A x \in TokenId : tokens'[x].session = tokens[x].session
                           /\ (Stored(x)' <=> Stored(x))
    BY <1>11, <1>a, <2>1 DEF RevokeOne, TypeOK, TokenRow, Stored
  <2>3. RowsKept
    BY <1>11, <2>2 DEF RevokeOne, RowsKept, Stored
  <2>4. \/ req' = [req EXCEPT ![r] = Idle]
        \/ req' = [req EXCEPT ![r] = [req[r] EXCEPT !.pc = "findUser"]]
    BY <1>11, <1>a DEF RevokeOne, TypeOK, RequestState
  <2>5. [req[r] EXCEPT !.pc = "findUser"] \in RequestState
    BY <1>a DEF RequestState, Pc
  <2>6. req' \in [Request -> RequestState]
    BY <1>a, <2>4, <2>5, IdleOK DEF TypeOK
  <2>7. TypeOK'
    BY <1>11, <1>a, <2>2, <2>6 DEF RevokeOne, TypeOK
  <2>8. Holds(req[r])'
    <3>1. CASE req' = [req EXCEPT ![r] = Idle]
      BY <1>a, <3>1 DEF TypeOK, Holds, Idle
    <3>2. CASE req' = [req EXCEPT ![r] = [req[r] EXCEPT !.pc = "findUser"]]
      BY <1>11, <1>a, <2>1, <2>2, <3>2 DEF RevokeOne, TypeOK, Holds, RequestState
    <3>3. QED BY <2>4, <3>1, <3>2
  <2>9. \A p \in Request \ {r} : Holds(req[p])'
    BY <1>a, <2>3, <2>4, HoldsStable DEF TypeOK
  <2>10. QED BY <2>7, <2>8, <2>9 DEF Inv
<1>12. ASSUME NEW r \in Request, FindUser(r) PROVE Inv'
  <2> DEFINE q == [req[r] EXCEPT !.pc = "insertToken", !.iat = now]
  <2>1. q \in RequestState
    <3>1. req[r] \in RequestState /\ now \in Nat
      BY <1>a DEF TypeOK
    <3>2. "insertToken" \in Pc
      BY DEF Pc
    <3>3. QED BY <3>1, <3>2, Signs
  <2>2. req' = [req EXCEPT ![r] = q]
    BY <1>12, <1>a DEF FindUser, RequestState, TypeOK
  <2>3. Holds(q)
    BY <1>12, <1>a DEF FindUser, Holds, RequestState
  <2>4. QED BY <1>12, <2>1, <2>2, <2>3, RequestStep DEF FindUser
<1>13. ASSUME NEW r \in Request, InsertToken(r) PROVE Inv'
  <2> DEFINE s == req[r].sess
             p == req[r].tok
  <2>1. PICK t \in NextToken :
          /\ tokens' = [tokens EXCEPT ![t] = NewToken(r, s, sessions[s].user, p)]
          /\ req' = [req EXCEPT ![r].pc = "respond", ![r].tok = t]
    BY <1>13 DEF InsertToken
  <2>2. /\ t \in TokenId /\ ~Stored(t)
        /\ p \in TokenId /\ Stored(p) /\ tokens[p] \in TokenRow
        /\ s \in SessionId /\ sessions[s].state # "absent"
    BY <1>13, <1>a, FreshKeys DEF InsertToken, Holds, TypeOK
  <2> DEFINE q == [req[r] EXCEPT !.pc = "respond", !.tok = t]
  <2>3. /\ q \in RequestState /\ q.pc = "respond"
        /\ q.sess = s /\ q.tok = t /\ q.rows = req[r].rows
    BY <1>a, <2>2 DEF RequestState, Pc
  <2>4. req' = [req EXCEPT ![r] = q]
    BY <1>a, <2>1 DEF TypeOK, RequestState
  <2> DEFINE row == NewToken(r, s, sessions[s].user, p)
  <2>6. row \in TokenRow /\ row.state = "live" /\ row.session = s
    <3>1. now + RowTTL \in Nat /\ req[r].iat \in Nat
      BY <1>a DEF TypeOK, RequestState
    <3>2. RacesLogout(r, s, sessions[s].user) \in BOOLEAN /\ tokens[p].raced \in BOOLEAN
      BY <1>a, <2>2 DEF RacesLogout, RequestState, TokenRow
    <3>3. QED BY <2>2, <3>1, <3>2 DEF NewToken, TokenRow
  <2>7. tokens' \in [TokenId -> TokenRow] /\ tokens'[t].session = s /\ tokens'[t].state = "live"
        /\ \A x \in TokenId \ {t} : tokens'[x] = tokens[x]
    BY <1>a, <2>1, <2>2, <2>6 DEF TypeOK
  <2>8. RowsKept
    BY <1>13, <2>2, <2>7 DEF InsertToken, RowsKept, Stored
  <2>9. req' \in [Request -> RequestState]
    BY <1>a, <2>3, <2>4 DEF TypeOK
  <2>10. \A x \in TokenId : Stored(x)' =>
            tokens'[x].session \in SessionId /\ sessions'[tokens'[x].session].state # "absent"
    BY <1>13, <1>a, <2>2, <2>7 DEF InsertToken, TypeOK, Stored
  <2>11. TypeOK'
    BY <1>13, <1>a, <2>7, <2>9, <2>10 DEF InsertToken, TypeOK
  <2>12. Holds(req[r])'
    BY <1>13, <1>a, <2>2, <2>3, <2>4, <2>7 DEF InsertToken, Holds, TypeOK, Stored
  <2>13. \A x \in Request \ {r} : Holds(req[x])'
    BY <1>a, <2>4, <2>8, HoldsStable DEF TypeOK
  <2>14. QED BY <2>11, <2>12, <2>13 DEF Inv
<1>14. ASSUME NEW r \in Request, SelectRows(r) PROVE Inv'
  <2> DEFINE q == [req[r] EXCEPT !.pc = "revokeRows", !.rows = TokensOf(req[r].sess)]
  <2>1. q \in RequestState
    BY <1>a DEF RequestState, Pc, TokensOf
  <2>2. req' = [req EXCEPT ![r] = q]
    BY <1>14, <1>a DEF SelectRows, RequestState, TypeOK
  <2>3. Holds(q)
    BY <1>14, <1>a DEF SelectRows, Holds, RequestState, TokensOf
  <2>4. QED BY <1>14, <2>1, <2>2, <2>3, RequestStep DEF SelectRows
<1>15. ASSUME NEW r \in Request, RevokeRows(r) PROVE Inv'
  <2>1. CASE req[r].sess # None
    <3> DEFINE q == [req[r] EXCEPT !.pc = "commitLogout", !.due = {req[r].sess}]
    <3>1. q \in RequestState
      BY <1>a, <2>1 DEF RequestState, Pc
    <3>2. req' = [req EXCEPT ![r] = q]
      BY <1>15, <1>a, <2>1 DEF RevokeRows, RequestState, TypeOK
    <3>3. Holds(q)
      BY <1>a, <1>15, <2>1 DEF RevokeRows, Holds, RequestState
    <3>4. QED BY <1>15, <3>1, <3>2, <3>3, RequestStep DEF RevokeRows
  <2>2. CASE req[r].sess = None
    <3> DEFINE q == [req[r] EXCEPT !.pc = "selectSessions", !.rows = {t \in req[r].rows : Live(t)}]
    <3>1. q \in RequestState
      BY <1>a DEF RequestState, Pc
    <3>2. req' = [req EXCEPT ![r] = q]
      BY <1>15, <1>a, <2>2 DEF RevokeRows, RequestState, TypeOK
    <3>3. Holds(q)
      BY <1>a, <2>2 DEF Holds, RequestState
    <3>4. QED BY <1>15, <3>1, <3>2, <3>3, RequestStep DEF RevokeRows
  <2>3. QED BY <2>1, <2>2
<1>16. ASSUME NEW r \in Request, SelectSessions(r) PROVE Inv'
  <2> DEFINE q == [req[r] EXCEPT !.pc = "commitLogout",
                                 !.due = {s \in SessionsOf(req[r].user) : Active(s)}]
  <2>1. q \in RequestState
    BY <1>a DEF RequestState, Pc, SessionsOf
  <2>2. req' = [req EXCEPT ![r] = q]
    BY <1>16, <1>a DEF SelectSessions, RequestState, TypeOK
  <2>3. Holds(q)
    BY <1>16, <1>a DEF SelectSessions, Holds, RequestState, Pc
  <2>4. QED BY <1>16, <2>1, <2>2, <2>3, RequestStep DEF SelectSessions
<1>17. ASSUME NEW r \in Request, CommitLogout(r) PROVE Inv'
  <2>1. /\ tokens' \in [TokenId -> TokenRow]
        /\ \A t \in TokenId : tokens'[t].session = tokens[t].session
    BY <1>17, <1>a DEF CommitLogout, TypeOK, TokenRow
  <2>2. /\ sessions' \in [SessionId -> SessionRow]
        /\ \A s \in SessionId : sessions'[s].user = sessions[s].user
    BY <1>17, <1>a DEF CommitLogout, TypeOK, SessionRow
  <2>3. RowsKept
    BY <1>17, <1>a, <2>1, <2>2 DEF CommitLogout, RowsKept, TypeOK, SessionRow, TokenRow, Stored
  <2>4. /\ req' \in [Request -> RequestState]
        /\ \A p \in Request : IF p = r THEN req'[p] = Idle
                              ELSE /\ req'[p].pc = req[p].pc /\ req'[p].user = req[p].user
                                   /\ req'[p].sess = req[p].sess /\ req'[p].tok = req[p].tok
                                   /\ req'[p].rows = req[p].rows
    <3> DEFINE moved(p) == [req[p] EXCEPT !.raced = @ \/ HoldsSession(p, req[r].due)]
    <3>1. req' = [p \in Request |-> IF p = r THEN Idle ELSE moved(p)]
      BY <1>17 DEF CommitLogout
    <3>2. ASSUME NEW p \in Request
          PROVE  /\ moved(p) \in RequestState
                 /\ moved(p).pc = req[p].pc /\ moved(p).user = req[p].user
                 /\ moved(p).sess = req[p].sess /\ moved(p).tok = req[p].tok
                 /\ moved(p).rows = req[p].rows
      <4>1. (req[p].raced \/ HoldsSession(p, req[r].due)) \in BOOLEAN
        OBVIOUS
      <4>2. QED BY <1>a, <4>1 DEF RequestState
    <3> HIDE DEF moved
    <3>3. QED BY <3>1, <3>2, IdleOK
  <2>5. TypeOK'
    <3>1. delivered' = delivered /\ history' = history /\ now' = now
      BY <1>17 DEF CommitLogout
    <3>2. ASSUME NEW t \in TokenId, Stored(t)' PROVE Stored(t)
      BY <1>17, <1>a, <3>2 DEF CommitLogout, TypeOK, TokenRow, Stored, Holds
    <3>3. \A t \in TokenId : Stored(t)' => 
             tokens'[t].session \in SessionId /\ sessions'[tokens'[t].session].state # "absent"
      BY <1>a, <2>1, <2>3, <3>2 DEF TypeOK, RowsKept
    <3>4. QED BY <1>a, <2>1, <2>2, <2>4, <3>1, <3>3 DEF TypeOK
  <2>6. \A p \in Request : Holds(req[p])'
    BY <1>a, <2>3, <2>4, HoldsStable DEF Holds, Idle
  <2>7. QED BY <2>5, <2>6 DEF Inv
<1>18. ASSUME NEW r \in Request, Fail(r) PROVE Inv'
  BY <1>18, IdleOK, RequestStep DEF Fail
<1>19. CASE Crash
  <2>1. TypeOK'
    BY <1>19, <1>a, IdleOK DEF Crash, TypeOK, Stored
  <2>2. \A p \in Request : Holds(req[p])'
    BY <1>19 DEF Crash, Holds, Idle
  <2>3. QED BY <2>1, <2>2 DEF Inv
<1>20. CASE Tick
  <2>1. TypeOK'
    BY <1>20, <1>a DEF Tick, TypeOK, Stored
  <2>2. \A p \in Request : Holds(req[p])'
    BY <1>20, <1>a DEF Tick, Holds, Stored
  <2>3. QED BY <2>1, <2>2 DEF Inv
<1>21. CASE UNCHANGED vars
  <2>1. TypeOK'
    BY <1>21, <1>a DEF vars, TypeOK, Stored
  <2>2. \A p \in Request : Holds(req[p])'
    BY <1>21, <1>a DEF vars, Holds, Stored
  <2>3. QED BY <2>1, <2>2 DEF Inv
<1>22. QED
  BY <1>1, <1>2, <1>3, <1>4, <1>5, <1>6, <1>7, <1>8, <1>9, <1>10, <1>11, <1>12,
     <1>13, <1>14, <1>15, <1>16, <1>17, <1>18, <1>19, <1>20, <1>21
  DEF Next, Start, Step

\* Type correctness: rows and requests keep their shape, and no token row
\* names a session that is not stored, for every number of requests.
THEOREM TypeCorrect == Spec => []TypeOK
<1>1. Inv => TypeOK
  BY DEF Inv
<1>2. QED
  BY InitInv, NextInv, <1>1, PTL DEF Spec

-----------------------------------------------------------------------------
(* Rotation.                                                               *)

\* A step leaves a token row alone, revokes it, or inserts it.
LEMMA TokenMoves ==
    ASSUME Inv, [Next]_vars, NEW t \in TokenId
    PROVE  \/ tokens'[t] = tokens[t]
           \/ Stored(t) /\ tokens'[t] = [tokens[t] EXCEPT !.state = "revoked"]
           \/ \E r \in Request : /\ CommitLogin(r)
                                 /\ ~Stored(t) /\ tokens'[t].state = "live"
                                 /\ tokens'[t].parent = None
           \/ \E r \in Request : /\ InsertToken(r)
                                 /\ ~Stored(t) /\ tokens'[t].state = "live"
                                 /\ tokens'[t].parent = req[r].tok
                                 /\ tokens'[t].by = r
<1>a. TypeOK /\ \A r \in Request : req[r] \in RequestState /\ Holds(req[r])
  BY DEF Inv, TypeOK
<1>1. ASSUME NEW r \in Request, CommitLogin(r)
      PROVE  \/ tokens'[t] = tokens[t]
             \/ ~Stored(t) /\ tokens'[t].state = "live" /\ tokens'[t].parent = None
  BY <1>1, <1>a, FreshKeys DEF CommitLogin, NewToken, TypeOK
<1>2. ASSUME NEW r \in Request, InsertToken(r)
      PROVE  \/ tokens'[t] = tokens[t]
             \/ /\ ~Stored(t) /\ tokens'[t].state = "live"
                /\ tokens'[t].parent = req[r].tok /\ tokens'[t].by = r
  <2>1. req[r].tok # None
    BY <1>2, <1>a, ConstantsAssumption DEF InsertToken, At, Holds
  <2>2. QED BY <1>2, <1>a, <2>1, FreshKeys DEF InsertToken, NewToken, TypeOK
<1>3. ASSUME NEW r \in Request, RevokeOne(r)
      PROVE  \/ tokens'[t] = tokens[t]
             \/ Stored(t) /\ tokens'[t] = [tokens[t] EXCEPT !.state = "revoked"]
  BY <1>3, <1>a DEF RevokeOne, At, Holds, TypeOK
<1>4. ASSUME NEW r \in Request, CommitLogout(r)
      PROVE  \/ tokens'[t] = tokens[t]
             \/ Stored(t) /\ tokens'[t] = [tokens[t] EXCEPT !.state = "revoked"]
  BY <1>4, <1>a DEF CommitLogout, Holds, TypeOK
<1>5. CASE tokens' = tokens
  BY <1>5
<1>6. QED
  BY <1>1, <1>2, <1>3, <1>4, <1>5
  DEF Next, Start, Step, vars, FindSession, FindToken, StartLogout, StartLogoutDevice,
      StartLogoutAll, Reactivate, InsertSession, Respond, Refuse, FindUser, SelectRows,
      RevokeRows, SelectSessions, Fail, Crash, Tick

Refreshing == {"revokeOne", "findUser", "insertToken"}

\* A refresh in flight keeps the row it found; it found it unrevoked; it goes on
\* to its INSERT only through the UPDATE.
LEMMA RefreshMoves ==
    ASSUME Inv, [Next]_vars, NEW r \in Request, req'[r].pc \in Refreshing
    PROVE  \/ /\ req[r].pc \in Refreshing /\ req'[r].tok = req[r].tok
              /\ req'[r].pc # "revokeOne" => req[r].pc # "revokeOne" \/ RevokeOne(r)
           \/ /\ req'[r].pc = "revokeOne"
              /\ req'[r].tok \in TokenId /\ Live(req'[r].tok) /\ tokens' = tokens
<1>a. TypeOK /\ \A q \in Request : req[q] \in RequestState /\ Holds(req[q])
  BY DEF Inv, TypeOK
<1> USE DEF Refreshing, At, Idle
<1>1. ASSUME NEW q \in Request, Start(q)
      PROVE  \/ req'[r] = req[r]
             \/ /\ req'[r].pc = "revokeOne"
                /\ req'[r].tok \in TokenId /\ Live(req'[r].tok) /\ tokens' = tokens
  <2>1. ASSUME NEW u \in User, NEW d \in Device, FindSession(q, u, d) PROVE req'[r] = req[r]
    BY <1>a, <2>1, ZenonT(30) DEF FindSession, TypeOK
  <2>2. ASSUME NEW j \in delivered, FindToken(q, j)
        PROVE  \/ req'[r] = req[r]
               \/ /\ req'[r].pc = "revokeOne"
                  /\ req'[r].tok \in TokenId /\ Live(req'[r].tok) /\ tokens' = tokens
    BY <1>a, <2>2 DEF FindToken, TypeOK
  <2>3. ASSUME NEW s \in SessionId, StartLogout(q, s) PROVE req'[r] = req[r]
    BY <1>a, <2>3 DEF StartLogout, TypeOK
  <2>4. ASSUME NEW d \in Device, StartLogoutDevice(q, d) PROVE req'[r] = req[r]
    BY <1>a, <2>4 DEF StartLogoutDevice, TypeOK
  <2>5. ASSUME NEW u \in User, StartLogoutAll(q, u) PROVE req'[r] = req[r]
    BY <1>a, <2>5 DEF StartLogoutAll, TypeOK
  <2>6. QED BY <1>1, <2>1, <2>2, <2>3, <2>4, <2>5 DEF Start
<1>2. ASSUME NEW q \in Request, RevokeOne(q)
      PROVE  req'[r] = req[r] \/ (q = r /\ req[r].pc = "revokeOne" /\ req'[r].tok = req[r].tok)
  BY <1>2, <1>a DEF RevokeOne, TypeOK, RequestState
<1>3. ASSUME NEW q \in Request, FindUser(q)
      PROVE  req'[r] = req[r] \/ (q = r /\ req[r].pc = "findUser" /\ req'[r].tok = req[r].tok)
  BY <1>3, <1>a DEF FindUser, TypeOK, RequestState
<1>4. ASSUME NEW q \in Request,
             \/ Reactivate(q) \/ InsertSession(q) \/ CommitLogin(q) \/ InsertToken(q)
             \/ Refuse(q) \/ Respond(q) \/ SelectRows(q) \/ RevokeRows(q)
             \/ SelectSessions(q) \/ Fail(q)
      PROVE  req'[r] = req[r]
  <2>a. req \in [Request -> RequestState]
    BY <1>a DEF TypeOK
  <2>1. CASE Reactivate(q)
    BY <2>1, <2>a DEF Reactivate, RequestState
  <2>2. CASE InsertSession(q)
    BY <2>2, <2>a DEF InsertSession, RequestState
  <2>3. CASE CommitLogin(q)
    BY <2>3, <2>a DEF CommitLogin, RequestState
  <2>4. CASE InsertToken(q)
    BY <2>4, <2>a DEF InsertToken, RequestState
  <2>5. CASE Refuse(q)
    BY <2>5, <2>a DEF Refuse, RequestState
  <2>6. CASE Respond(q)
    BY <2>6, <2>a DEF Respond, RequestState
  <2>7. CASE SelectRows(q)
    BY <2>7, <2>a DEF SelectRows, RequestState
  <2>8. CASE RevokeRows(q)
    BY <2>8, <2>a DEF RevokeRows, RequestState
  <2>9. CASE SelectSessions(q)
    BY <2>9, <2>a DEF SelectSessions, RequestState
  <2>10. CASE Fail(q)
    BY <2>10, <2>a DEF Fail, RequestState
  <2>11. QED BY <1>4, <2>1, <2>2, <2>3, <2>4, <2>5, <2>6, <2>7, <2>8, <2>9, <2>10
<1>5. ASSUME NEW q \in Request, CommitLogout(q)
      PROVE  req'[r].pc = req[r].pc /\ req'[r].tok = req[r].tok
  BY <1>5, <1>a DEF CommitLogout, TypeOK, RequestState
<1>6. CASE Crash \/ Tick \/ UNCHANGED vars
  BY <1>6 DEF Crash, Tick, vars
<1>7. QED
  BY <1>1, <1>2, <1>3, <1>4, <1>5, <1>6 DEF Next, Step

RotationInv ==
    /\ Inv
    /\ RotationRevokesParent
    /\ \A r \in Request : req[r].pc \in {"findUser", "insertToken"}
                             => tokens[req[r].tok].state = "revoked"

LEMMA NextRotation == RotationInv /\ [Next]_vars => RotationInv'
<1> SUFFICES ASSUME RotationInv, [Next]_vars PROVE RotationInv'
  OBVIOUS
<1> USE DEF RotationInv
<1>a. /\ Inv
      /\ tokens \in [TokenId -> TokenRow]
      /\ \A r \in Request : Holds(req[r])
  BY DEF Inv, TypeOK
<1>1. ASSUME NEW t \in TokenId, tokens[t].state = "revoked"
      PROVE  tokens'[t].state = "revoked"
  BY <1>1, <1>a, TokenMoves DEF Stored, TokenRow
<1>2. RotationRevokesParent'
  <2> SUFFICES ASSUME NEW t \in TokenId, tokens'[t].parent # None
               PROVE  tokens'[tokens'[t].parent].state = "revoked"
    BY DEF RotationRevokesParent
  <2>1. CASE tokens'[t].parent = tokens[t].parent
    BY <1>1, <1>a, <2>1 DEF RotationRevokesParent, TokenRow
  <2>2. ASSUME NEW r \in Request, InsertToken(r), tokens'[t].parent = req[r].tok
        PROVE  tokens'[tokens'[t].parent].state = "revoked"
    BY <1>1, <1>a, <2>2 DEF InsertToken, At, Holds
  <2>3. \/ tokens'[t].parent = tokens[t].parent
        \/ \E r \in Request : InsertToken(r) /\ tokens'[t].parent = req[r].tok
    <3>1. CASE tokens'[t] = [tokens[t] EXCEPT !.state = "revoked"]
      BY <1>a, <3>1 DEF TokenRow
    <3>2. QED BY <1>a, <3>1, TokenMoves
  <2>4. QED
    BY <2>1, <2>2, <2>3
<1>3. ASSUME NEW r \in Request, req'[r].pc \in {"findUser", "insertToken"}
      PROVE  tokens'[req'[r].tok].state = "revoked"
  <2>1. /\ req[r].pc \in Refreshing /\ req'[r].tok = req[r].tok /\ req[r].tok \in TokenId
        /\ req[r].pc # "revokeOne" \/ RevokeOne(r)
    BY <1>a, <1>3, RefreshMoves DEF Refreshing, Holds
  <2>2. CASE req[r].pc # "revokeOne"
    BY <1>1, <2>1, <2>2 DEF Refreshing
  <2>3. CASE RevokeOne(r)
    BY <1>a, <2>1, <2>3 DEF RevokeOne, TokenRow
  <2>4. QED BY <2>1, <2>2, <2>3
<1>4. QED
  BY <1>2, <1>3, NextInv

\* A row written by a refresh replaces a revoked row, at every interleaving,
\* failure and crash.
THEOREM RotationSafe == Spec => []RotationRevokesParent
<1>1. Init => RotationInv
  BY InitInv DEF Init, RotationInv, RotationRevokesParent, NoToken, Idle
<1>2. RotationInv => RotationRevokesParent
  BY DEF RotationInv
<1>3. QED
  BY <1>1, <1>2, NextRotation, PTL DEF Spec

ExchangeInv ==
    /\ RotationInv
    /\ OneExchangePerRequest
    /\ \A t \in TokenId, r \in Request :
          tokens[t].parent # None /\ tokens[t].by = r /\ req[r].pc \in Refreshing
             => req[r].tok # tokens[t].parent

LEMMA NextExchange == ExchangeInv /\ [Next]_vars => ExchangeInv'
<1> SUFFICES ASSUME ExchangeInv, [Next]_vars PROVE ExchangeInv'
  OBVIOUS
<1> USE DEF ExchangeInv
<1>a. /\ Inv /\ RotationInv'
      /\ tokens \in [TokenId -> TokenRow]
      /\ \A r \in Request : req[r] \in RequestState /\ Holds(req[r])
  BY NextRotation DEF RotationInv, Inv, TypeOK
\* A row that has a parent after the step is an old row, or the row one InsertToken wrote.
<1>1. ASSUME NEW t \in TokenId, tokens'[t].parent # None
      PROVE  \/ tokens'[t].parent = tokens[t].parent /\ tokens'[t].by = tokens[t].by
             \/ \E r \in Request :
                  /\ InsertToken(r) /\ ~Stored(t) /\ tokens'[t].state = "live"
                  /\ tokens'[t].parent = req[r].tok /\ tokens'[t].by = r
  BY <1>1, <1>a, TokenMoves DEF TokenRow
\* An InsertToken writes one row and leaves its request past the INSERT.
<1>2. ASSUME NEW r \in Request, InsertToken(r)
      PROVE  /\ req[r].pc = "insertToken" /\ req'[r].pc = "respond"
             /\ \A q \in Request \ {r} : req'[q] = req[q]
             /\ \E t \in TokenId : \A x \in TokenId \ {t} : tokens'[x] = tokens[x]
  BY <1>2, <1>a, FreshKeys DEF InsertToken, At, Inv, TypeOK, RequestState
<1>3. OneExchangePerRequest'
  <2> SUFFICES ASSUME NEW t1 \in TokenId, NEW t2 \in TokenId, t1 # t2,
                      tokens'[t1].parent # None, tokens'[t1].parent = tokens'[t2].parent
               PROVE  tokens'[t1].by # tokens'[t2].by
    BY DEF OneExchangePerRequest
  <2> DEFINE old(t) == tokens'[t].parent = tokens[t].parent /\ tokens'[t].by = tokens[t].by
             new(t) == \E r \in Request :
                  /\ InsertToken(r) /\ ~Stored(t) /\ tokens'[t].state = "live"
                  /\ tokens'[t].parent = req[r].tok /\ tokens'[t].by = r
  <2>1. CASE old(t1) /\ old(t2)
    BY <2>1 DEF OneExchangePerRequest
  <2>2. ASSUME NEW x \in TokenId, NEW y \in TokenId, old(x), new(y),
               tokens'[x].parent # None, tokens'[x].parent = tokens'[y].parent
        PROVE  tokens'[x].by # tokens'[y].by
    <3>1. PICK r \in Request : InsertToken(r) /\ tokens'[y].parent = req[r].tok /\ tokens'[y].by = r
      BY <2>2
    <3>2. req[r].pc \in Refreshing /\ req[r].tok = tokens[x].parent /\ tokens[x].parent # None
      BY <1>2, <2>2, <3>1 DEF Refreshing
    <3>3. QED BY <2>2, <3>1, <3>2
  <2>3. CASE new(t1) /\ new(t2)
    <3>1. PICK r \in Request : InsertToken(r)
      BY <2>3
    <3>2. tokens'[t1] = tokens[t1] \/ tokens'[t2] = tokens[t2]
      BY <1>2, <3>1
    <3>3. QED BY <2>3, <3>2 DEF Stored
  <2>4. (old(t1) \/ new(t1)) /\ (old(t2) \/ new(t2))
    BY <1>1
  <2>5. QED BY <2>1, <2>2, <2>3, <2>4
<1>4. ASSUME NEW t \in TokenId, NEW r \in Request,
             tokens'[t].parent # None, tokens'[t].by = r, req'[r].pc \in Refreshing
      PROVE  req'[r].tok # tokens'[t].parent
  <2>1. CASE tokens'[t].parent = tokens[t].parent /\ tokens'[t].by = tokens[t].by
    <3>1. CASE req[r].pc \in Refreshing /\ req'[r].tok = req[r].tok
      BY <1>4, <2>1, <3>1
    <3>2. CASE req'[r].tok \in TokenId /\ Live(req'[r].tok)
      BY <1>4, <2>1, <3>2 DEF RotationInv, RotationRevokesParent, Live
    <3>3. QED BY <1>a, <1>4, <3>1, <3>2, RefreshMoves
  <2>2. ASSUME NEW q \in Request, InsertToken(q), tokens'[t].by = q PROVE FALSE
    BY <1>2, <1>4, <2>2 DEF Refreshing
  <2>3. QED BY <1>1, <1>4, <2>1, <2>2
<1>5. QED
  BY <1>a, <1>3, <1>4

\* A token is exchanged again only by a request that overlapped its first exchange.
THEOREM ExchangeSafe == Spec => []OneExchangePerRequest
<1>1. Init => ExchangeInv
  BY InitInv DEF Init, ExchangeInv, RotationInv, RotationRevokesParent,
     OneExchangePerRequest, NoToken, Idle
<1>2. ExchangeInv => OneExchangePerRequest
  BY DEF ExchangeInv
<1>3. QED
  BY <1>1, <1>2, NextExchange, PTL DEF Spec

-----------------------------------------------------------------------------
(* The token table implements the ledger.                                  *)

Status == [t \in TokenId |-> tokens[t].state]
Owner == [t \in TokenId |-> tokens[t].session]
Origin == [t \in TokenId |-> tokens[t].parent]

\* Inserting row x enters token x in the ledger.
LEMMA InsertEnters ==
    ASSUME TypeOK, NEW x \in TokenId, NEW row \in TokenRow,
           ~Stored(x), row.state = "live", tokens' = [tokens EXCEPT ![x] = row]
    PROVE  Ledger!Enter(x, row.session, row.parent)
<1>1. Status' = [Status EXCEPT ![x] = "live"]
  BY DEF TypeOK, Status
<1>2. Owner' = [Owner EXCEPT ![x] = row.session]
  BY DEF TypeOK, Owner
<1>3. Origin' = [Origin EXCEPT ![x] = row.parent]
  BY DEF TypeOK, Origin
<1>4. QED
  BY <1>1, <1>2, <1>3 DEF Ledger!Enter, Status, Owner, Origin, Stored

\* Revoking a set of stored rows revokes them in the ledger.
LEMMA RevokeRevokes ==
    ASSUME TypeOK, NEW S \in SUBSET TokenId, \A t \in S : Stored(t),
           tokens' = [t \in TokenId |->
                        IF t \in S THEN [tokens[t] EXCEPT !.state = "revoked"] ELSE tokens[t]]
    PROVE  Ledger!Revoke
<1>1. Status' = [t \in TokenId |-> IF t \in S THEN "revoked" ELSE Status[t]]
  BY DEF TypeOK, TokenRow, Status
<1>2. Owner' = Owner /\ Origin' = Origin
  BY DEF TypeOK, TokenRow, Owner, Origin
<1>3. QED
  BY <1>1, <1>2 DEF Ledger!Revoke, Status, Owner, Origin, Stored

LEMMA NextLedger == RotationInv /\ [Next]_vars => [Ledger!Next]_<<Status, Owner, Origin>>
<1> SUFFICES ASSUME RotationInv, [Next]_vars
             PROVE  Ledger!Next \/ UNCHANGED <<Status, Owner, Origin>>
  OBVIOUS
<1> USE DEF At
<1>a. /\ TypeOK
      /\ \A r \in Request : req[r] \in RequestState /\ Holds(req[r])
  BY DEF RotationInv, Inv, TypeOK
<1>1. ASSUME NEW r \in Request, CommitLogin(r) PROVE Ledger!Next
  <2>1. PICK x \in NextToken, s \in IF req[r].sess = None THEN NextSession ELSE {req[r].sess} :
           tokens' = [tokens EXCEPT ![x] = NewToken(r, s, req[r].user, None)]
    BY <1>1 DEF CommitLogin
  <2> DEFINE row == NewToken(r, s, req[r].user, None)
  <2>2. x \in TokenId /\ ~Stored(x) /\ s \in SessionId
    BY <1>a, FreshKeys DEF RequestState
  <2>3. row \in TokenRow /\ row.state = "live" /\ row.session = s /\ row.parent = None
    <3>1. row.raced \in BOOLEAN
      BY DEF NewToken
    <3>2. now + RowTTL \in Nat /\ req[r].iat \in Nat
      BY <1>a, ConstantsAssumption DEF TypeOK, RequestState
    <3>3. QED BY <2>2, <3>1, <3>2 DEF NewToken, TokenRow
  <2> HIDE DEF row
  <2>4. Ledger!Enter(x, s, None)
    BY <1>a, <2>1, <2>2, <2>3, InsertEnters DEF row
  <2>5. QED BY <2>2, <2>4 DEF Ledger!Next, Ledger!Issue
<1>2. ASSUME NEW r \in Request, InsertToken(r) PROVE Ledger!Next
  <2>1. /\ req[r].tok \in TokenId /\ tokens[req[r].tok].state = "revoked"
        /\ req[r].sess \in SessionId /\ tokens[req[r].tok].session = req[r].sess
    BY <1>2, <1>a DEF InsertToken, Holds, TypeOK, RotationInv
  <2>2. PICK p \in TokenId, s \in SessionId, u \in User \cup {None} :
           /\ p = req[r].tok /\ s = req[r].sess /\ u = sessions[s].user
           /\ tokens[p].state = "revoked" /\ tokens[p].session = s
    BY <1>a, <2>1 DEF TypeOK, SessionRow
  <2>3. PICK x \in NextToken : tokens' = [tokens EXCEPT ![x] = NewToken(r, s, u, p)]
    BY <1>2, <2>2 DEF InsertToken
  <2> DEFINE row == NewToken(r, s, u, p)
  <2>4. x \in TokenId /\ ~Stored(x)
    BY <1>a, FreshKeys
  <2>5. row \in TokenRow /\ row.state = "live" /\ row.session = s /\ row.parent = p
    <3>1. row.raced \in BOOLEAN
      BY DEF NewToken
    <3>2. now + RowTTL \in Nat /\ req[r].iat \in Nat
      BY <1>a, ConstantsAssumption DEF TypeOK, RequestState
    <3>3. QED BY <3>1, <3>2 DEF NewToken, TokenRow
  <2> HIDE DEF row
  <2>6. Ledger!Enter(x, s, p)
    BY <1>a, <2>3, <2>4, <2>5, InsertEnters DEF row
  <2>7. Ledger!Exchange
    <3>1. Status[p] = "revoked" /\ Owner[p] = s
      BY <2>2 DEF Status, Owner
    <3>2. QED BY <2>4, <2>6, <3>1 DEF Ledger!Exchange, Status, Owner
  <2>8. QED BY <2>7 DEF Ledger!Next
<1>3. ASSUME NEW r \in Request, RevokeOne(r) PROVE Ledger!Next
  <2>1. req[r].tok \in TokenId /\ Stored(req[r].tok)
    BY <1>3, <1>a DEF RevokeOne, Holds
  <2>2. tokens' = [t \in TokenId |-> IF t \in {req[r].tok}
                                     THEN [tokens[t] EXCEPT !.state = "revoked"] ELSE tokens[t]]
    BY <1>3, <1>a, <2>1 DEF RevokeOne, TypeOK
  <2>3. {req[r].tok} \in SUBSET TokenId /\ \A t \in {req[r].tok} : Stored(t)
    BY <2>1
  <2>4. Ledger!Revoke
    BY <1>a, <2>2, <2>3, RevokeRevokes
  <2>5. QED BY <2>4 DEF Ledger!Next
<1>4. ASSUME NEW r \in Request, CommitLogout(r) PROVE Ledger!Next
  BY <1>4, <1>a, RevokeRevokes DEF CommitLogout, Holds, RequestState, Ledger!Next
<1>5. ASSUME tokens' = tokens PROVE UNCHANGED <<Status, Owner, Origin>>
  BY <1>5 DEF Status, Owner, Origin
<1>6. QED
  BY <1>1, <1>2, <1>3, <1>4, <1>5
  DEF Next, Start, Step, vars, FindSession, FindToken, StartLogout, StartLogoutDevice,
      StartLogoutAll, Reactivate, InsertSession, Respond, Refuse, FindUser, SelectRows,
      RevokeRows, SelectSessions, Fail, Crash, Tick

\* Refinement: every behaviour of the service is, on the token table, a
\* behaviour of the ledger.
THEOREM LedgerRefined == Spec => LedgerSpec
<1>1. Init => RotationInv /\ Ledger!Init
  BY InitInv DEF Init, RotationInv, RotationRevokesParent, NoToken, Idle, Ledger!Init
<1>2. QED
  BY <1>1, NextRotation, NextLedger, PTL
  DEF Spec, LedgerSpec, Ledger!Spec, Ledger!ledger, Status, Owner, Origin

-----------------------------------------------------------------------------
(* Delivery.                                                               *)

DeliveredInv == Inv /\ DeliveredIsStored

LEMMA NextDelivered == DeliveredInv /\ [Next]_vars => DeliveredInv'
<1> SUFFICES ASSUME DeliveredInv, [Next]_vars PROVE DeliveredInv'
  OBVIOUS
<1>a. Inv /\ TypeOK /\ DeliveredIsStored /\ \A r \in Request : Holds(req[r])
  BY DEF DeliveredInv, Inv
<1>1. ASSUME NEW t \in TokenId, Stored(t) PROVE Stored(t)' /\ Jwt(t)' = Jwt(t)
  <2>1. tokens'[t] = tokens[t] \/ tokens'[t] = [tokens[t] EXCEPT !.state = "revoked"]
    BY <1>1, <1>a, TokenMoves
  <2>2. QED BY <1>1, <1>a, <2>1 DEF TypeOK, TokenRow, Stored, Jwt
<1>2. \/ delivered' = delivered
      \/ \E r \in Request : /\ At(r, "respond")
                            /\ delivered' = delivered \cup {Jwt(req[r].tok)}
  BY DEF Next, Start, Step, vars, FindSession, FindToken, StartLogout, StartLogoutDevice,
      StartLogoutAll, Reactivate, InsertSession, CommitLogin, Respond, RevokeOne, Refuse,
      FindUser, InsertToken, SelectRows, RevokeRows, SelectSessions, CommitLogout,
      Fail, Crash, Tick
<1>3. ASSUME NEW j \in delivered' PROVE \E t \in TokenId : Stored(t) /\ Jwt(t) = j
  BY <1>a, <1>2, <1>3 DEF DeliveredIsStored, Holds, At
<1>4. DeliveredIsStored'
  BY <1>1, <1>3 DEF DeliveredIsStored
<1>5. QED
  BY <1>a, <1>4, NextInv DEF DeliveredInv

\* A client never holds a refresh JWT whose row is not in the table.
THEOREM DeliveredSafe == Spec => []DeliveredIsStored
<1>1. Init => DeliveredInv
  BY InitInv DEF Init, DeliveredInv, DeliveredIsStored
<1>2. DeliveredInv => DeliveredIsStored
  BY DEF DeliveredInv
<1>3. QED
  BY <1>1, <1>2, NextDelivered, PTL DEF Spec


-----------------------------------------------------------------------------
(***************************************************************************)
(* What a logout achieves: a token that still works on an ended session    *)
(* was issued by a request that overlapped the logout.  Without overlap -  *)
(* one request at a time - an ended session has no working token.          *)
(***************************************************************************)

\* The logout in state q reaches session s of user u.
ReachedBy(q, s, u) ==
    /\ q.pc \in {"revokeRows", "selectSessions", "commitLogout"}
    /\ IF q.sess # None THEN q.sess = s ELSE q.user = u

\* The session a request will issue a token for is active, unless a logout
\* ended it while the request was under way, or the token it replaces was
\* itself issued in such a race.
IssuesForActive(q) ==
    /\ q.pc \in {"commitLogin"} \cup Refreshing /\ q.sess # None
    /\ ~q.raced
    /\ q.pc \in Refreshing => ~tokens[q.tok].raced
    => Active(q.sess)

\* A pending logout has read every token it reaches, but for the raced ones.
HasRead(q) ==
    \A t \in TokenId :
        /\ Live(t) /\ ~tokens[t].raced
        /\ ReachedBy(q, tokens[t].session, sessions[tokens[t].session].user)
        => t \in q.rows

\* The sessions a logout will end are sessions it reaches.
EndsReached(q) ==
    q.pc = "commitLogout" => \A s \in q.due :
        sessions[s].state # "absent" /\ ReachedBy(q, s, sessions[s].user)

RaceOK(q) == IssuesForActive(q) /\ HasRead(q) /\ EndsReached(q)

RaceInv ==
    /\ Inv
    /\ LiveOnInactiveOnlyIfRaced
    /\ \A r \in Request : RaceOK(req[r])

LEMMA IdleRace == RaceOK(Idle)
BY DEF Idle, RaceOK, IssuesForActive, HasRead, EndsReached, ReachedBy, Refreshing

\* A step that only moves one request.
LEMMA RaceRequestStep ==
    ASSUME RaceInv, Inv', NEW r \in Request, NEW q \in RequestState, RaceOK(q),
           req' = [req EXCEPT ![r] = q], UNCHANGED <<sessions, tokens>>
    PROVE  RaceInv'
<1>1. LiveOnInactiveOnlyIfRaced'
  BY DEF RaceInv, LiveOnInactiveOnlyIfRaced, Live, Active
<1>2. ASSUME NEW p \in Request PROVE RaceOK(req[p])'
  <2>1. req'[p] = IF p = r THEN q ELSE req[p]
    BY DEF RaceInv, Inv, TypeOK
  <2>2. CASE p = r
    BY <2>1, <2>2 DEF RaceOK, IssuesForActive, HasRead, EndsReached, ReachedBy, Live, Active
  <2>3. CASE p # r
    BY <2>1, <2>3 DEF RaceInv, RaceOK, IssuesForActive, HasRead, EndsReached, ReachedBy, Live, Active
  <2>4. QED BY <2>2, <2>3
<1>3. QED
  BY <1>1, <1>2 DEF RaceInv

\* What a step of the tables must keep for the requests that do not move: no
\* session ends, users stay, rows keep their session and history, and a new
\* token is raced when a pending logout reaches it.
TablesKept ==
    /\ \A s \in SessionId : /\ Active(s) => Active(s)'
                            /\ sessions[s].state # "absent" =>
                                 /\ sessions'[s].state # "absent"
                                 /\ sessions'[s].user = sessions[s].user
    /\ \A t \in TokenId : /\ Stored(t) => tokens'[t].raced = tokens[t].raced
                          /\ Stored(t) => tokens'[t].session = tokens[t].session
                          /\ Live(t)' /\ Stored(t) => Live(t)
    /\ \A t \in TokenId : Live(t)' /\ ~Stored(t) /\ ~tokens'[t].raced =>
          /\ sessions'[tokens'[t].session].state = "active"
          /\ \A l \in Request :
                ~ReachedBy(req[l], tokens'[t].session, sessions'[tokens'[t].session].user)

LEMMA RaceStable ==
    ASSUME RaceInv, TablesKept, NEW p \in Request, req'[p] = req[p]
    PROVE  RaceOK(req[p])'
<1>a. /\ TypeOK /\ req[p] \in RequestState /\ Holds(req[p]) /\ RaceOK(req[p])
  BY DEF RaceInv, Inv, TypeOK
<1>1. IssuesForActive(req[p])'
  BY <1>a DEF RaceOK, IssuesForActive, TablesKept, Holds, Refreshing, RequestState
<1>2. HasRead(req[p])'
  <2> SUFFICES ASSUME NEW t \in TokenId, Live(t)', ~tokens'[t].raced,
                      ReachedBy(req[p], tokens'[t].session, sessions'[tokens'[t].session].user)
               PROVE  t \in req[p].rows
    BY DEF HasRead, ReachedBy
  <2>1. Live(t) /\ Stored(t) /\ ~tokens[t].raced /\ tokens'[t].session = tokens[t].session
    BY DEF TablesKept
  <2>2. sessions'[tokens[t].session].user = sessions[tokens[t].session].user
    BY <1>a, <2>1 DEF TypeOK, TablesKept
  <2>3. QED BY <1>a, <2>1, <2>2 DEF RaceOK, HasRead
<1>3. EndsReached(req[p])'
  <2> SUFFICES ASSUME req[p].pc = "commitLogout", NEW s \in req[p].due
               PROVE  sessions'[s].state # "absent" /\ ReachedBy(req[p], s, sessions'[s].user)
    BY DEF EndsReached, ReachedBy
  <2>1. s \in SessionId /\ ReachedBy(req[p], s, sessions[s].user) /\ sessions[s].state # "absent"
    BY <1>a DEF RaceOK, EndsReached, RequestState, Holds
  <2>2. QED BY <2>1 DEF TablesKept
<1>4. QED BY <1>1, <1>2, <1>3 DEF RaceOK

LEMMA TablesKeptUnraced ==
    ASSUME RaceInv, TablesKept PROVE LiveOnInactiveOnlyIfRaced'
<1>a. TypeOK /\ LiveOnInactiveOnlyIfRaced
  BY DEF RaceInv, Inv
<1> SUFFICES ASSUME NEW t \in TokenId, Live(t)', ~tokens'[t].raced
             PROVE  Active(tokens[t].session)'
  BY DEF LiveOnInactiveOnlyIfRaced, Live, Active
<1>1. CASE ~Stored(t)
  BY <1>1 DEF TablesKept, Active
<1>2. CASE Stored(t)
  BY <1>a, <1>2 DEF TablesKept, TypeOK, LiveOnInactiveOnlyIfRaced, Active
<1>3. QED BY <1>1, <1>2

LEMMA NextRace == RaceInv /\ [Next]_vars => RaceInv'
<1> SUFFICES ASSUME RaceInv, [Next]_vars PROVE RaceInv'
  OBVIOUS
<1> USE DEF At
<1>a. /\ Inv /\ Inv' /\ TypeOK
      /\ LiveOnInactiveOnlyIfRaced
      /\ \A r \in Request : req[r] \in RequestState /\ Holds(req[r]) /\ RaceOK(req[r])
  BY NextInv DEF RaceInv, Inv, TypeOK
<1>b. \A r \in Request : req'[r] \in RequestState
  BY <1>a DEF Inv, TypeOK
\* A request that has read a session or a token, and no logout since.
<1>1. ASSUME NEW r \in Request, NEW u \in User, NEW d \in Device, FindSession(r, u, d)
      PROVE  RaceInv'
  <2>1. req' = [req EXCEPT ![r] = req'[r]]
    BY <1>1, <1>a DEF FindSession, TypeOK
  <2>2. RaceOK(req'[r])
    <3>1. /\ req'[r].pc \in {"insertSession", "commitLogin", "reactivate"}
          /\ req'[r].pc = "commitLogin" => Active(req'[r].sess)
      BY <1>1, <1>a DEF FindSession, TypeOK, Idle
    <3>2. QED BY <3>1 DEF RaceOK, IssuesForActive, HasRead, EndsReached, ReachedBy, Refreshing
  <2>3. QED BY <1>1, <1>a, <1>b, <2>1, <2>2, RaceRequestStep DEF FindSession
<1>2. ASSUME NEW r \in Request, NEW j \in delivered, FindToken(r, j)
      PROVE  RaceInv'
  <2>1. req' = [req EXCEPT ![r] = req'[r]]
    BY <1>2, <1>a DEF FindToken, TypeOK
  <2>2. RaceOK(req'[r])
    <3>1. PICK t \in TokenId :
             /\ Stored(t)
             /\ req'[r].pc = "revokeOne" => Live(t)
             /\ req'[r].pc \in {"refused", "revokeOne"}
             /\ req'[r].sess = tokens[t].session /\ req'[r].tok = t
      BY <1>2, <1>a DEF FindToken, TypeOK, Idle
    <3>2. QED
      BY <1>a, <3>1 DEF LiveOnInactiveOnlyIfRaced, RaceOK, IssuesForActive, HasRead, EndsReached, ReachedBy, Refreshing
  <2>3. QED BY <1>2, <1>a, <1>b, <2>1, <2>2, RaceRequestStep DEF FindToken
<1>3. ASSUME NEW r \in Request, NEW s \in SessionId, StartLogout(r, s)
      PROVE  RaceInv'
  <2>1. req' = [req EXCEPT ![r] = req'[r]]
    BY <1>3, <1>a DEF StartLogout, TypeOK
  <2>2. RaceOK(req'[r])
    BY <1>3, <1>a DEF StartLogout, TypeOK, RequestState, Idle, Holds,
       RaceOK, IssuesForActive, HasRead, EndsReached, ReachedBy, Refreshing
  <2>3. QED BY <1>3, <1>a, <1>b, <2>1, <2>2, RaceRequestStep DEF StartLogout
<1>4. ASSUME NEW r \in Request, NEW d \in Device, StartLogoutDevice(r, d)
      PROVE  RaceInv'
  <2>1. req' = [req EXCEPT ![r] = req'[r]]
    BY <1>4, <1>a DEF StartLogoutDevice, TypeOK
  <2>2. RaceOK(req'[r])
    BY <1>4, <1>a DEF StartLogoutDevice, TypeOK, RequestState, Idle, Holds,
       RaceOK, IssuesForActive, HasRead, EndsReached, ReachedBy, Refreshing
  <2>3. QED BY <1>4, <1>a, <1>b, <2>1, <2>2, RaceRequestStep DEF StartLogoutDevice
<1>5. ASSUME NEW r \in Request, NEW u \in User, StartLogoutAll(r, u)
      PROVE  RaceInv'
  <2>1. req' = [req EXCEPT ![r] = req'[r]]
    BY <1>5, <1>a DEF StartLogoutAll, TypeOK
  <2>2. RaceOK(req'[r])
    <3>1. /\ req'[r].pc = "revokeRows" /\ req'[r].sess = None /\ req'[r].user = u
          /\ req'[r].rows = {t \in UNION {TokensOf(s) : s \in SessionsOf(u)} : Live(t)}
      BY <1>5, <1>a DEF StartLogoutAll, TypeOK, Idle
    <3>2. ASSUME NEW t \in TokenId, Live(t), sessions[tokens[t].session].user = u
          PROVE  t \in req'[r].rows
      BY <1>a, <3>1, <3>2 DEF TypeOK, TokensOf, SessionsOf, Live, Stored
    <3>3. QED
      BY <3>1, <3>2 DEF RaceOK, IssuesForActive, HasRead, EndsReached, ReachedBy, Refreshing
  <2>3. QED BY <1>5, <1>a, <1>b, <2>1, <2>2, RaceRequestStep DEF StartLogoutAll
<1>7. ASSUME NEW r \in Request, InsertSession(r)
      PROVE  RaceInv'
  <2>1. req' = [req EXCEPT ![r] = req'[r]]
    BY <1>7, <1>a DEF InsertSession, TypeOK
  <2>2. RaceOK(req'[r])
    BY <1>7, <1>a DEF InsertSession, TypeOK, RequestState, Holds,
       RaceOK, IssuesForActive, HasRead, EndsReached, ReachedBy, Refreshing
  <2>3. QED BY <1>7, <1>a, <1>b, <2>1, <2>2, RaceRequestStep DEF InsertSession
<1>9. ASSUME NEW r \in Request, Respond(r)
      PROVE  RaceInv'
  <2>1. req' = [req EXCEPT ![r] = req'[r]]
    BY <1>9, <1>a DEF Respond, TypeOK
  <2>2. RaceOK(req'[r])
    BY <1>9, <1>a, IdleRace DEF Respond, TypeOK
  <2>3. QED BY <1>9, <1>a, <1>b, <2>1, <2>2, RaceRequestStep DEF Respond
<1>10. ASSUME NEW r \in Request, Refuse(r)
      PROVE  RaceInv'
  <2>1. req' = [req EXCEPT ![r] = req'[r]]
    BY <1>10, <1>a DEF Refuse, TypeOK
  <2>2. RaceOK(req'[r])
    BY <1>10, <1>a, IdleRace DEF Refuse, TypeOK
  <2>3. QED BY <1>10, <1>a, <1>b, <2>1, <2>2, RaceRequestStep DEF Refuse
<1>12. ASSUME NEW r \in Request, FindUser(r)
      PROVE  RaceInv'
  <2>1. req' = [req EXCEPT ![r] = req'[r]]
    BY <1>12, <1>a DEF FindUser, TypeOK
  <2>2. RaceOK(req'[r])
    BY <1>12, <1>a DEF FindUser, TypeOK, RequestState, Idle, Holds,
       RaceOK, IssuesForActive, HasRead, EndsReached, ReachedBy, Refreshing
  <2>3. QED BY <1>12, <1>a, <1>b, <2>1, <2>2, RaceRequestStep DEF FindUser
<1>14. ASSUME NEW r \in Request, SelectRows(r)
      PROVE  RaceInv'
  <2>1. req' = [req EXCEPT ![r] = req'[r]]
    BY <1>14, <1>a DEF SelectRows, TypeOK
  <2>2. RaceOK(req'[r])
    <3>1. /\ req'[r].pc = "revokeRows" /\ req'[r].sess = req[r].sess /\ req[r].sess \in SessionId
          /\ req'[r].rows = TokensOf(req[r].sess)
      BY <1>14, <1>a DEF SelectRows, TypeOK, RequestState, Holds
    <3>2. req[r].sess # None
      BY <3>1, ConstantsAssumption
    <3>3. QED
      BY <3>1, <3>2 DEF TokensOf, Live, Stored, RaceOK, IssuesForActive, HasRead, EndsReached, ReachedBy, Refreshing
  <2>3. QED BY <1>14, <1>a, <1>b, <2>1, <2>2, RaceRequestStep DEF SelectRows
<1>15. ASSUME NEW r \in Request, RevokeRows(r)
      PROVE  RaceInv'
  <2>1. req' = [req EXCEPT ![r] = req'[r]]
    BY <1>15, <1>a DEF RevokeRows, TypeOK
  <2>2. RaceOK(req'[r])
    <3>1. /\ req'[r].pc \in {"commitLogout", "selectSessions"}
          /\ req'[r].sess = req[r].sess /\ req'[r].user = req[r].user
          /\ {t \in req[r].rows : Live(t)} \subseteq req'[r].rows
          /\ req'[r].pc = "commitLogout" => req[r].sess # None /\ req'[r].due = {req[r].sess}
      BY <1>15, <1>a DEF RevokeRows, TypeOK, RequestState
    <3>2. /\ HasRead(req[r]) /\ req[r].pc = "revokeRows"
          /\ req[r].sess # None => sessions[req[r].sess].state # "absent"
      BY <1>15, <1>a DEF RevokeRows, RaceOK, Holds
    <3>3. QED
      BY <3>1, <3>2 DEF RaceOK, IssuesForActive, HasRead, EndsReached, ReachedBy, Refreshing
  <2>3. QED BY <1>15, <1>a, <1>b, <2>1, <2>2, RaceRequestStep DEF RevokeRows
<1>16. ASSUME NEW r \in Request, SelectSessions(r)
      PROVE  RaceInv'
  <2>1. req' = [req EXCEPT ![r] = req'[r]]
    BY <1>16, <1>a DEF SelectSessions, TypeOK
  <2>2. RaceOK(req'[r])
    <3>1. /\ req'[r].pc = "commitLogout" /\ req[r].pc = "selectSessions"
          /\ req'[r].sess = req[r].sess /\ req'[r].user = req[r].user
          /\ req'[r].rows = req[r].rows
          /\ req'[r].due \subseteq SessionsOf(req[r].user)
      BY <1>16, <1>a DEF SelectSessions, TypeOK, RequestState
    <3>2. HasRead(req[r]) /\ req[r].sess = None
      BY <1>16, <1>a, <3>1 DEF RaceOK, Holds
    <3>3. QED
      BY <3>1, <3>2 DEF SessionsOf, RaceOK, IssuesForActive, HasRead, EndsReached, ReachedBy, Refreshing
  <2>3. QED BY <1>16, <1>a, <1>b, <2>1, <2>2, RaceRequestStep DEF SelectSessions
<1>18. ASSUME NEW r \in Request, Fail(r)
      PROVE  RaceInv'
  <2>1. req' = [req EXCEPT ![r] = req'[r]]
    BY <1>18, <1>a DEF Fail, TypeOK
  <2>2. RaceOK(req'[r])
    BY <1>18, <1>a, IdleRace DEF Fail, TypeOK
  <2>3. QED BY <1>18, <1>a, <1>b, <2>1, <2>2, RaceRequestStep DEF Fail
<1>6. ASSUME NEW r \in Request, Reactivate(r) PROVE RaceInv'
  <2>1. /\ req[r].sess \in SessionId
        /\ sessions' = [sessions EXCEPT ![req[r].sess].state = "active"]
        /\ tokens' = tokens
    BY <1>6, <1>a DEF Reactivate, Holds
  <2>2. TablesKept
    BY <1>a, <2>1 DEF TablesKept, TypeOK, SessionRow, Active, Live, Stored
  <2>3. /\ req'[r].pc = "commitLogin" /\ req'[r].sess = req[r].sess
        /\ \A p \in Request \ {r} : req'[p] = req[p]
    BY <1>6, <1>a DEF Reactivate, TypeOK, RequestState
  <2>4. Active(req[r].sess)'
    BY <1>a, <2>1, <2>3 DEF Active, TypeOK, SessionRow
  <2>5. RaceOK(req[r])'
    BY <2>3, <2>4 DEF RaceOK, IssuesForActive, HasRead, EndsReached, ReachedBy, Refreshing
  <2>6. QED
    BY <1>a, <2>2, <2>3, <2>5, RaceStable, TablesKeptUnraced DEF RaceInv
<1>8. ASSUME NEW r \in Request, CommitLogin(r) PROVE RaceInv'
  <2>1. PICK t \in NextToken, s \in IF req[r].sess = None THEN NextSession ELSE {req[r].sess} :
          /\ sessions' = IF req[r].sess = None
                         THEN [sessions EXCEPT ![s] =
                                 [state |-> "active", user |-> req[r].user,
                                  device |-> req[r].device]]
                         ELSE sessions
          /\ tokens' = [tokens EXCEPT ![t] = NewToken(r, s, req[r].user, None)]
          /\ req' = [req EXCEPT ![r].pc = "respond", ![r].sess = s, ![r].tok = t]
    BY <1>8 DEF CommitLogin
  <2>2. /\ t \in TokenId /\ ~Stored(t) /\ s \in SessionId
        /\ IF req[r].sess = None THEN sessions[s].state = "absent" ELSE s = req[r].sess
    BY <1>a, FreshKeys DEF RequestState
  <2>3. /\ tokens'[t].session = s
        /\ tokens'[t].raced = (RacesLogout(r, s, req[r].user) \/ (None # None /\ tokens[None].raced))
        /\ \A x \in TokenId \ {t} : tokens'[x] = tokens[x]
    BY <1>a, <2>1, <2>2 DEF NewToken, TypeOK
  <2>4. /\ sessions'[s].user = req[r].user
        /\ \A x \in SessionId : Active(x) => Active(x)'
        /\ \A x \in SessionId : sessions[x].state # "absent" =>
              sessions'[x].state # "absent" /\ sessions'[x].user = sessions[x].user
    BY <1>8, <1>a, <2>1, <2>2 DEF TypeOK, Holds, Active, CommitLogin
  <2>5. ~tokens'[t].raced =>
           /\ sessions'[s].state = "active"
           /\ \A l \in Request : ~ReachedBy(req[l], s, req[r].user)
    <3> SUFFICES ASSUME ~tokens'[t].raced
                 PROVE  /\ sessions'[s].state = "active"
                        /\ \A l \in Request : ~ReachedBy(req[l], s, req[r].user)
      OBVIOUS
    <3>1. ~RacesLogout(r, s, req[r].user)
      BY <2>3
    <3>2. /\ ~req[r].raced
          /\ \A l \in Request : ~ReachedBy(req[l], s, req[r].user)
      BY <3>1 DEF RacesLogout, Reaches, LogoutPending, ReachedBy
    <3>3. CASE req[r].sess = None
      BY <1>a, <2>1, <2>2, <3>2, <3>3 DEF TypeOK
    <3>4. CASE req[r].sess # None
      BY <1>8, <1>a, <2>1, <2>2, <3>2, <3>4
      DEF CommitLogin, RaceOK, IssuesForActive, Refreshing, Active
    <3>5. QED BY <3>2, <3>3, <3>4
  <2>6. TablesKept
    BY <2>2, <2>3, <2>4, <2>5 DEF TablesKept, Stored, Live
  <2>7. /\ req'[r].pc = "respond"
        /\ \A p \in Request \ {r} : req'[p] = req[p]
    BY <1>a, <2>1 DEF TypeOK, RequestState
  <2>8. RaceOK(req[r])'
    BY <2>7 DEF RaceOK, IssuesForActive, HasRead, EndsReached, ReachedBy, Refreshing
  <2>9. QED
    BY <1>a, <2>6, <2>7, <2>8, RaceStable, TablesKeptUnraced DEF RaceInv
<1>11. ASSUME NEW r \in Request, RevokeOne(r) PROVE RaceInv'
  <2>1. /\ req[r].tok \in TokenId
        /\ tokens' = [tokens EXCEPT ![req[r].tok].state = "revoked"]
        /\ sessions' = sessions
    BY <1>11, <1>a DEF RevokeOne, Holds
  <2>2. TablesKept
    <3>1. \A x \in TokenId : /\ tokens'[x].raced = tokens[x].raced
                             /\ tokens'[x].session = tokens[x].session
                             /\ Live(x)' => Live(x)
      BY <1>a, <2>1 DEF TypeOK, TokenRow, Live
    <3>2. QED BY <2>1, <3>1 DEF TablesKept, Active, Live, Stored
  <2>3. /\ req'[r] = Idle \/ (req'[r].pc = "findUser" /\ req'[r].sess = req[r].sess
                               /\ req'[r].tok = req[r].tok /\ req'[r].raced = req[r].raced)
        /\ \A p \in Request \ {r} : req'[p] = req[p]
    BY <1>11, <1>a DEF RevokeOne, TypeOK, RequestState
  <2>4. RaceOK(req[r])'
    <3>1. CASE req'[r] = Idle
      BY <3>1 DEF Idle, RaceOK, IssuesForActive, HasRead, EndsReached, ReachedBy, Refreshing
    <3>2. CASE req'[r].pc = "findUser" /\ req'[r].sess = req[r].sess
               /\ req'[r].tok = req[r].tok /\ req'[r].raced = req[r].raced
      <4>1. tokens'[req[r].tok].raced = tokens[req[r].tok].raced
        BY <1>a, <2>1 DEF TypeOK, TokenRow
      <4>2. IssuesForActive(req[r]) /\ req[r].pc = "revokeOne"
        BY <1>11, <1>a DEF RevokeOne, RaceOK
      <4>3. QED
        BY <2>1, <3>2, <4>1, <4>2
        DEF RaceOK, IssuesForActive, HasRead, EndsReached, ReachedBy, Refreshing, Active
    <3>3. QED BY <2>3, <3>1, <3>2
  <2>5. QED
    BY <1>a, <2>2, <2>3, <2>4, RaceStable, TablesKeptUnraced DEF RaceInv
<1>13. ASSUME NEW r \in Request, InsertToken(r) PROVE RaceInv'
  <2> DEFINE s == req[r].sess
             p == req[r].tok
  <2>1. PICK t \in NextToken :
          /\ tokens' = [tokens EXCEPT ![t] = NewToken(r, s, sessions[s].user, p)]
          /\ req' = [req EXCEPT ![r].pc = "respond", ![r].tok = t]
          /\ sessions' = sessions /\ req[r].pc = "insertToken"
    BY <1>13 DEF InsertToken
  <2>2. /\ t \in TokenId /\ ~Stored(t)
        /\ p \in TokenId /\ Stored(p) /\ p # None
        /\ s \in SessionId /\ s # None
    BY <1>a, <2>1, FreshKeys, ConstantsAssumption DEF Holds, TypeOK
  <2>3. /\ tokens'[t].session = s
        /\ tokens'[t].raced = (RacesLogout(r, s, sessions[s].user) \/ (p # None /\ tokens[p].raced))
        /\ \A x \in TokenId \ {t} : tokens'[x] = tokens[x]
    BY <1>a, <2>1, <2>2 DEF NewToken, TypeOK
  <2>5. ~tokens'[t].raced =>
           /\ sessions[s].state = "active"
           /\ \A l \in Request : ~ReachedBy(req[l], s, sessions[s].user)
    <3> SUFFICES ASSUME ~tokens'[t].raced
                 PROVE  /\ sessions[s].state = "active"
                        /\ \A l \in Request : ~ReachedBy(req[l], s, sessions[s].user)
      OBVIOUS
    <3>1. ~RacesLogout(r, s, sessions[s].user) /\ ~tokens[p].raced
      BY <2>2, <2>3
    <3>2. /\ ~req[r].raced
          /\ \A l \in Request : ~ReachedBy(req[l], s, sessions[s].user)
      BY <3>1 DEF RacesLogout, Reaches, LogoutPending, ReachedBy
    <3>3. Active(s)
      BY <1>a, <2>1, <2>2, <3>1, <3>2 DEF RaceOK, IssuesForActive, Refreshing
    <3>5. QED BY <3>2, <3>3 DEF Active
  <2>6. TablesKept
    BY <2>1, <2>2, <2>3, <2>5 DEF TablesKept, Stored, Live, Active
  <2>7. /\ req'[r].pc = "respond"
        /\ \A x \in Request \ {r} : req'[x] = req[x]
    BY <1>a, <2>1 DEF TypeOK, RequestState
  <2>8. RaceOK(req[r])'
    BY <2>7 DEF RaceOK, IssuesForActive, HasRead, EndsReached, ReachedBy, Refreshing
  <2>9. QED
    BY <1>a, <2>6, <2>7, <2>8, RaceStable, TablesKeptUnraced DEF RaceInv
<1>17. ASSUME NEW r \in Request, CommitLogout(r) PROVE RaceInv'
  <2> DEFINE rows == req[r].rows
             due == req[r].due
  <2>1. /\ req[r].pc = "commitLogout"
        /\ \A t \in TokenId : /\ Live(t)' => Live(t) /\ t \notin rows
                              /\ tokens'[t].session = tokens[t].session
                              /\ tokens'[t].raced = tokens[t].raced
    BY <1>17, <1>a DEF CommitLogout, TypeOK, TokenRow, Live
  <2>2. \A s \in SessionId : /\ Active(s) /\ s \notin due => Active(s)'
                             /\ sessions'[s].user = sessions[s].user
                             /\ sessions[s].state # "absent" => sessions'[s].state # "absent"
    BY <1>17, <1>a DEF CommitLogout, TypeOK, SessionRow, Active
  \* The rows it revokes are all the tokens of the sessions it ends, but the raced ones.
  <2>3. LiveOnInactiveOnlyIfRaced'
    <3> SUFFICES ASSUME NEW t \in TokenId, Live(t)', ~tokens'[t].raced
                 PROVE  Active(tokens[t].session)'
      BY DEF LiveOnInactiveOnlyIfRaced, Live, Active
    <3>1. Live(t) /\ ~tokens[t].raced /\ t \notin rows /\ tokens'[t].session = tokens[t].session
      BY <2>1
    <3>2. tokens[t].session \in SessionId /\ Active(tokens[t].session)
      BY <1>a, <3>1 DEF TypeOK, LiveOnInactiveOnlyIfRaced, Live, Stored
    <3>3. tokens[t].session \notin due
      BY <1>a, <2>1, <3>1 DEF RaceOK, HasRead, EndsReached
    <3>4. QED BY <2>2, <3>1, <3>2, <3>3 DEF Active
  <2>4. ASSUME NEW p \in Request PROVE RaceOK(req[p])'
    <3>1. CASE p = r
      <4>1. req'[p] = Idle
        BY <1>17, <3>1 DEF CommitLogout
      <4>2. QED BY <4>1 DEF Idle, RaceOK, IssuesForActive, HasRead, EndsReached, ReachedBy, Refreshing
    <3>2. CASE p # r
      <4>1. /\ req'[p].pc = req[p].pc /\ req'[p].sess = req[p].sess /\ req'[p].tok = req[p].tok
            /\ req'[p].user = req[p].user /\ req'[p].rows = req[p].rows /\ req'[p].due = req[p].due
            /\ req'[p].raced = (req[p].raced \/ HoldsSession(p, due))
        BY <1>17, <1>a, <3>2 DEF CommitLogout, RequestState
      <4>2. IssuesForActive(req[p])'
        <5> SUFFICES ASSUME req[p].pc \in {"commitLogin"} \cup Refreshing, req[p].sess # None,
                            ~req'[p].raced, req[p].pc \in Refreshing => ~tokens'[req[p].tok].raced
                     PROVE  Active(req[p].sess)'
          BY <4>1 DEF IssuesForActive, Active
        <5>1. ~req[p].raced /\ req[p].sess \notin due
          BY <4>1 DEF HoldsSession, Refreshing
        <5>2. req[p].pc \in Refreshing => ~tokens[req[p].tok].raced
          BY <1>a, <2>1 DEF Holds, Refreshing
        <5>3. Active(req[p].sess)
          BY <1>a, <5>1, <5>2 DEF RaceOK, IssuesForActive
        <5>4. QED BY <1>a, <2>2, <4>1, <5>1, <5>3 DEF RequestState, Active
      <4>3. HasRead(req[p])'
        <5> SUFFICES ASSUME NEW t \in TokenId, Live(t)', ~tokens'[t].raced,
                            ReachedBy(req[p], tokens'[t].session, sessions'[tokens'[t].session].user)
                     PROVE  t \in req[p].rows
          BY <4>1 DEF HasRead, ReachedBy
        <5>1. Live(t) /\ ~tokens[t].raced /\ tokens'[t].session = tokens[t].session
              /\ tokens[t].session \in SessionId
          BY <1>a, <2>1 DEF TypeOK, Live, Stored
        <5>2. QED BY <1>a, <2>2, <5>1 DEF RaceOK, HasRead
      <4>4. EndsReached(req[p])'
        <5> SUFFICES ASSUME req[p].pc = "commitLogout", NEW s \in req[p].due
                     PROVE  sessions'[s].state # "absent" /\ ReachedBy(req[p], s, sessions'[s].user)
          BY <4>1 DEF EndsReached, ReachedBy
        <5>1. s \in SessionId /\ sessions[s].state # "absent"
              /\ ReachedBy(req[p], s, sessions[s].user)
          BY <1>a DEF RaceOK, EndsReached, RequestState
        <5>2. QED BY <2>2, <5>1
      <4>5. QED BY <4>2, <4>3, <4>4 DEF RaceOK
    <3>3. QED BY <3>1, <3>2
  <2>5. QED BY <1>a, <2>3, <2>4 DEF RaceInv
<1>19. CASE Crash
  <2>1. /\ LiveOnInactiveOnlyIfRaced'
        /\ \A p \in Request : req'[p] = Idle
    BY <1>19, <1>a DEF Crash, LiveOnInactiveOnlyIfRaced, Live, Active
  <2>2. \A p \in Request : RaceOK(req[p])'
    BY <2>1 DEF Idle, RaceOK, IssuesForActive, HasRead, EndsReached, ReachedBy, Refreshing
  <2>3. QED BY <1>a, <2>1, <2>2 DEF RaceInv
<1>20. CASE Tick \/ UNCHANGED vars
  <2>1. sessions' = sessions /\ tokens' = tokens /\ req' = req
    BY <1>20 DEF Tick, vars
  <2>2. TablesKept
    BY <2>1 DEF TablesKept, Active, Live, Stored
  <2>3. QED
    BY <1>a, <2>1, <2>2, RaceStable, TablesKeptUnraced DEF RaceInv
<1>21. QED
  BY <1>1, <1>2, <1>3, <1>4, <1>5, <1>6, <1>7, <1>8, <1>9, <1>10, <1>11, <1>12,
     <1>13, <1>14, <1>15, <1>16, <1>17, <1>18, <1>19, <1>20
  DEF Next, Start, Step

LEMMA InitRace == Init => RaceInv
<1> SUFFICES ASSUME Init PROVE RaceInv
  OBVIOUS
<1>1. Inv
  BY InitInv
<1>2. LiveOnInactiveOnlyIfRaced /\ \A t \in TokenId : ~Live(t)
  BY DEF Init, LiveOnInactiveOnlyIfRaced, Live, NoToken
<1>3. \A r \in Request : RaceOK(req[r])
  BY IdleRace DEF Init
<1>4. QED
  BY <1>1, <1>2, <1>3 DEF RaceInv

\* Logout, for any number of concurrent requests: a token that works on an
\* ended session was issued in a race with the logout, or descends from one.
THEOREM LogoutSafe == Spec => []LiveOnInactiveOnlyIfRaced
<1>1. RaceInv => LiveOnInactiveOnlyIfRaced
  BY DEF RaceInv
<1>2. QED
  BY <1>1, InitRace, NextRace, PTL DEF Spec

-----------------------------------------------------------------------------
(* One request at a time.                                                  *)

SerialInv ==
    /\ RaceInv
    /\ \A t \in TokenId : ~tokens[t].raced
    /\ \A t \in TokenId : tokens[t].parent # None => tokens[t].by \in Request
    /\ \A r \in Request : ~req[r].raced

\* With a single request in flight no token is ever issued in a race.
LEMMA NextSerial ==
    ASSUME \A p, q \in Request : p = q, SerialInv, [Next]_vars
    PROVE  SerialInv'
<1>a. /\ RaceInv /\ RaceInv' /\ TypeOK
      /\ \A r \in Request : req[r] \in RequestState /\ ~req[r].raced /\ Holds(req[r])
      /\ \A t \in TokenId : ~tokens[t].raced
  BY NextRace DEF SerialInv, RaceInv, Inv, TypeOK
<1> USE DEF At
<1>1. ASSUME NEW r \in Request, CommitLogin(r) PROVE \A t \in TokenId : ~tokens'[t].raced
  <2>1. PICK x \in NextToken, s \in IF req[r].sess = None THEN NextSession ELSE {req[r].sess} :
           tokens' = [tokens EXCEPT ![x] = NewToken(r, s, req[r].user, None)]
    BY <1>1 DEF CommitLogin
  <2>2. ~RacesLogout(r, s, req[r].user)
    BY <1>1, <1>a DEF CommitLogin, RacesLogout, Reaches, LogoutPending
  <2>3. QED BY <1>a, <2>1, <2>2 DEF NewToken, TypeOK
<1>2. ASSUME NEW r \in Request, InsertToken(r) PROVE \A t \in TokenId : ~tokens'[t].raced
  <2>1. PICK x \in NextToken :
           tokens' = [tokens EXCEPT ![x] =
                        NewToken(r, req[r].sess, sessions[req[r].sess].user, req[r].tok)]
    BY <1>2 DEF InsertToken
  <2>2. ~RacesLogout(r, req[r].sess, sessions[req[r].sess].user) /\ ~tokens[req[r].tok].raced
    BY <1>2, <1>a DEF InsertToken, RacesLogout, Reaches, LogoutPending, Holds
  <2>3. QED BY <1>a, <2>1, <2>2 DEF NewToken, TypeOK
<1>3. ASSUME NEW r \in Request, RevokeOne(r) \/ CommitLogout(r)
      PROVE  \A t \in TokenId : ~tokens'[t].raced
  BY <1>3, <1>a DEF RevokeOne, CommitLogout, TypeOK, TokenRow
<1>4. ASSUME tokens' = tokens PROVE \A t \in TokenId : ~tokens'[t].raced
  BY <1>4, <1>a
<1>5. \A t \in TokenId : ~tokens'[t].raced
  BY <1>1, <1>2, <1>3, <1>4
  DEF Next, Start, Step, vars, FindSession, FindToken, StartLogout, StartLogoutDevice,
      StartLogoutAll, Reactivate, InsertSession, Respond, Refuse, FindUser, SelectRows,
      RevokeRows, SelectSessions, Fail, Crash, Tick
<1>6. ASSUME NEW r \in Request PROVE ~req'[r].raced
  <2>a. req \in [Request -> RequestState] /\ \A q \in Request : q = r
    BY <1>a DEF TypeOK
  <2>1. CASE Crash \/ Tick \/ UNCHANGED vars
    BY <1>a, <2>1 DEF Crash, Tick, vars, Idle
  <2>2. CASE Start(r)
    <3>1. ASSUME NEW u \in User, NEW d \in Device, FindSession(r, u, d) PROVE ~req'[r].raced
      BY <3>1, <2>a DEF FindSession, Idle
    <3>2. ASSUME NEW j \in delivered, FindToken(r, j) PROVE ~req'[r].raced
      BY <3>2, <2>a DEF FindToken, Idle
    <3>3. ASSUME NEW s \in SessionId, StartLogout(r, s) PROVE ~req'[r].raced
      BY <3>3, <2>a DEF StartLogout, Idle
    <3>4. ASSUME NEW d \in Device, StartLogoutDevice(r, d) PROVE ~req'[r].raced
      BY <3>4, <2>a DEF StartLogoutDevice, Idle
    <3>5. ASSUME NEW u \in User, StartLogoutAll(r, u) PROVE ~req'[r].raced
      BY <3>5, <2>a DEF StartLogoutAll, Idle
    <3>6. QED BY <2>2, <3>1, <3>2, <3>3, <3>4, <3>5 DEF Start
  <2>3. CASE Respond(r) \/ Refuse(r) \/ CommitLogout(r) \/ Fail(r)
    BY <2>3, <2>a DEF Respond, Refuse, CommitLogout, Fail, Idle
  <2>4. CASE Reactivate(r) \/ InsertSession(r) \/ FindUser(r)
    BY <1>a, <2>4, <2>a DEF Reactivate, InsertSession, FindUser, RequestState
  <2>5. CASE CommitLogin(r) \/ InsertToken(r)
    <3>1. CASE CommitLogin(r)
      BY <1>a, <3>1, <2>a DEF CommitLogin, RequestState
    <3>2. CASE InsertToken(r)
      BY <1>a, <3>2, <2>a DEF InsertToken, RequestState
    <3>3. QED BY <2>5, <3>1, <3>2
  <2>6. CASE RevokeOne(r)
    BY <1>a, <2>6, <2>a DEF RevokeOne, RequestState, Idle
  <2>7. CASE SelectRows(r) \/ RevokeRows(r) \/ SelectSessions(r)
    BY <1>a, <2>7, <2>a DEF SelectRows, RevokeRows, SelectSessions, RequestState
  <2>8. QED
    BY <2>a, <2>1, <2>2, <2>3, <2>4, <2>5, <2>6, <2>7 DEF Next, Step
<1>7. ASSUME NEW t \in TokenId, tokens'[t].parent # None PROVE tokens'[t].by \in Request
  <2>1. \/ tokens'[t].parent = tokens[t].parent /\ tokens'[t].by = tokens[t].by
        \/ tokens'[t].parent = None
        \/ tokens'[t].by \in Request
    <3>1. CASE tokens'[t] = [tokens[t] EXCEPT !.state = "revoked"]
      BY <1>a, <3>1 DEF TypeOK, TokenRow
    <3>2. QED BY <1>a, <3>1, TokenMoves DEF RaceInv
  <2>2. QED BY <1>7, <2>1 DEF SerialInv
<1>8. QED BY <1>a, <1>5, <1>6, <1>7 DEF SerialInv

\* One request at a time: an ended session has no token left that works.
THEOREM SerialSafe == (\A p, q \in Request : p = q) => (Spec => []LiveImpliesActive)
<1> SUFFICES ASSUME \A p, q \in Request : p = q PROVE Spec => []LiveImpliesActive
  OBVIOUS
<1>1. Init => SerialInv
  BY InitRace DEF Init, SerialInv, NoToken, Idle
<1>2. SerialInv /\ [Next]_vars => SerialInv'
  BY NextSerial
<1>3. SerialInv => LiveImpliesActive
  BY DEF SerialInv, RaceInv, LiveImpliesActive, LiveOnInactiveOnlyIfRaced
<1>4. QED
  BY <1>1, <1>2, <1>3, PTL DEF Spec

\* One request at a time: a refresh token is exchanged for a new one at most once.
THEOREM SerialExchange == (\A p, q \in Request : p = q) => (Spec => []AtMostOneExchange)
<1> SUFFICES ASSUME \A p, q \in Request : p = q PROVE Spec => []AtMostOneExchange
  OBVIOUS
<1>1. Init => SerialInv
  BY InitRace DEF Init, SerialInv, NoToken, Idle
<1>2. SerialInv /\ [Next]_vars => SerialInv'
  BY NextSerial
<1>3. SerialInv /\ OneExchangePerRequest => AtMostOneExchange
  BY DEF SerialInv, AtMostOneExchange, OneExchangePerRequest
<1>4. QED
  BY <1>1, <1>2, <1>3, ExchangeSafe, PTL DEF Spec

\* A logout of a user has read rows of the user only and, with no other request
\* in flight, every active session.
ReadExactly(q) ==
    /\ q.pc \in {"selectRows", "revokeRows", "selectSessions", "commitLogout"} /\ q.user # None
          => q.sess = None /\ \A t \in q.rows : sessions[tokens[t].session].user = q.user
    /\ q.pc = "commitLogout" /\ q.user # None
          => \A s \in SessionsOf(q.user) : Active(s) => s \in q.due

ExactInv == SerialInv /\ \A r \in Request : ReadExactly(req[r])

\* The step of the one request that changes the tables is not one of a logout
\* on its way.
LEMMA NextExact ==
    ASSUME \A p, q \in Request : p = q, ExactInv, [Next]_vars
    PROVE  ExactInv'
<1>a. /\ SerialInv /\ SerialInv' /\ req \in [Request -> RequestState]
      /\ \A r \in Request : Holds(req[r]) /\ ReadExactly(req[r])
  BY NextSerial DEF ExactInv, SerialInv, RaceInv, Inv, TypeOK
<1> SUFFICES ASSUME NEW r \in Request PROVE ReadExactly(req[r])'
  BY <1>a DEF ExactInv
<1>b. \A q \in Request : q = r
  OBVIOUS
<1> USE DEF At
<1>1. CASE Crash \/ Fail(r)
  BY <1>1, <1>a DEF Crash, Fail, Idle, ReadExactly
<1>2. CASE Tick \/ UNCHANGED vars
  <2>1. req' = req /\ sessions' = sessions /\ tokens' = tokens
    BY <1>2 DEF Tick, vars
  <2>2. \A u : SessionsOf(u)' = SessionsOf(u)
    BY <2>1 DEF SessionsOf
  <2>3. QED BY <1>a, <2>1, <2>2 DEF ReadExactly, Active
<1>3. ASSUME \/ \E u \in User, d \in Device : FindSession(r, u, d)
             \/ \E j \in delivered : FindToken(r, j)
             \/ Reactivate(r) \/ InsertSession(r) \/ CommitLogin(r) \/ RevokeOne(r) \/ FindUser(r)
             \/ InsertToken(r) \/ Refuse(r) \/ Respond(r) \/ CommitLogout(r)
      PROVE  ReadExactly(req[r])'
  <2>1. CASE \E u \in User, d \in Device : FindSession(r, u, d)
    <3>1. PICK u \in User, d \in Device : FindSession(r, u, d)
      BY <2>1
    <3> DEFINE start == [Idle EXCEPT !.user = u, !.device = d]
    <3>2. start \in RequestState
      BY DEF Idle, RequestState, Pc
    <3>3. \/ req' = [req EXCEPT ![r] = [start EXCEPT !.pc = "insertSession"]]
          \/ \E s : req' = [req EXCEPT ![r] = [start EXCEPT !.pc = "commitLogin", !.sess = s, !.iat = now]]
          \/ \E s : req' = [req EXCEPT ![r] = [start EXCEPT !.pc = "reactivate", !.sess = s]]
      BY <3>1 DEF FindSession
    <3> HIDE DEF start
    <3>4. ASSUME NEW q, req' = [req EXCEPT ![r] = q],
                 q.pc \in {"insertSession", "commitLogin", "reactivate"}
          PROVE  ReadExactly(req[r])'
      <4>1. req'[r] = q
        BY <1>a, <3>4
      <4>2. req'[r].pc \notin {"selectRows", "revokeRows", "selectSessions", "commitLogout"}
        BY <3>4, <4>1
      <4>3. QED BY <4>2 DEF ReadExactly
    <3>5. [start EXCEPT !.pc = "insertSession"].pc = "insertSession"
      BY <3>2 DEF RequestState
    <3>6. ASSUME NEW s PROVE [start EXCEPT !.pc = "commitLogin", !.sess = s, !.iat = now].pc = "commitLogin"
      BY <3>2 DEF RequestState
    <3>7. ASSUME NEW s PROVE [start EXCEPT !.pc = "reactivate", !.sess = s].pc = "reactivate"
      BY <3>2 DEF RequestState
    <3>8. CASE req' = [req EXCEPT ![r] = [start EXCEPT !.pc = "insertSession"]]
      BY <3>4, <3>5, <3>8
    <3>9. ASSUME NEW s, req' = [req EXCEPT ![r] = [start EXCEPT !.pc = "commitLogin", !.sess = s, !.iat = now]]
          PROVE  ReadExactly(req[r])'
      BY <3>4, <3>6, <3>9
    <3>10. ASSUME NEW s, req' = [req EXCEPT ![r] = [start EXCEPT !.pc = "reactivate", !.sess = s]]
           PROVE  ReadExactly(req[r])'
      BY <3>4, <3>7, <3>10
    <3>11. QED BY <3>3, <3>8, <3>9, <3>10
  <2>2. CASE \E j \in delivered : FindToken(r, j)
    BY <1>a, <2>2 DEF FindToken, Idle, ReadExactly
  <2>3. CASE Reactivate(r) \/ InsertSession(r) \/ FindUser(r) \/ Refuse(r) \/ Respond(r)
    <3>1. \/ req'[r].pc \in {"commitLogin", "insertToken", "idle"} /\ req'[r].user = req[r].user
          \/ req'[r] = Idle
      BY <1>a, <2>3 DEF Reactivate, InsertSession, FindUser, Refuse, Respond, RequestState
    <3>2. QED BY <3>1 DEF ReadExactly, Idle
  <2>4. CASE CommitLogin(r) \/ InsertToken(r)
    <3>1. ASSUME CommitLogin(r) PROVE req'[r].pc = "respond"
      <4>1. PICK t, s : req' = [req EXCEPT ![r].pc = "respond", ![r].sess = s, ![r].tok = t]
        BY <3>1 DEF CommitLogin
      <4>2. QED BY <1>a, <4>1
    <3>2. ASSUME InsertToken(r) PROVE req'[r].pc = "respond"
      BY <1>a, <3>2 DEF InsertToken
    <3>3. QED BY <2>4, <3>1, <3>2 DEF ReadExactly
  <2>5. CASE RevokeOne(r) \/ CommitLogout(r)
    <3>1. req'[r] = Idle \/ req'[r].pc = "findUser"
      BY <1>a, <2>5 DEF RevokeOne, CommitLogout, RequestState
    <3>2. QED BY <3>1 DEF ReadExactly, Idle
  <2>6. QED BY <1>3, <2>1, <2>2, <2>3, <2>4, <2>5
<1>4. ASSUME \/ \E s \in SessionId : StartLogout(r, s)
             \/ \E d \in Device : StartLogoutDevice(r, d)
             \/ SelectRows(r)
      PROVE  ReadExactly(req[r])'
  <2>1. CASE \/ \E s \in SessionId : StartLogout(r, s)
             \/ \E d \in Device : StartLogoutDevice(r, d)
    <3>1. PICK s : req' = [req EXCEPT ![r] = [Idle EXCEPT !.pc = "selectRows", !.sess = s]]
      BY <2>1 DEF StartLogout, StartLogoutDevice
    <3>2. req'[r].pc = "selectRows" /\ req'[r].user = None
      BY <1>a, <3>1 DEF Idle
    <3>3. QED BY <3>2 DEF ReadExactly
  <2>2. CASE SelectRows(r)
    <3>1. req[r].user = None
      BY <1>a, <2>2, ConstantsAssumption DEF SelectRows, Holds, ReadExactly
    <3>2. req'[r].user = None /\ req'[r].pc = "revokeRows"
      BY <1>a, <2>2, <3>1 DEF SelectRows, RequestState
    <3>3. QED BY <3>2 DEF ReadExactly
  <2>3. QED BY <1>4, <2>1, <2>2
<1>5. ASSUME NEW u \in User, StartLogoutAll(r, u) PROVE ReadExactly(req[r])'
  <2>1. /\ req'[r].pc = "revokeRows" /\ req'[r].sess = None /\ req'[r].user = u
        /\ \A t \in req'[r].rows : sessions[tokens[t].session].user = u
    BY <1>5, <1>a DEF StartLogoutAll, Idle, TokensOf, SessionsOf
  <2>2. QED BY <1>5, <2>1 DEF ReadExactly, StartLogoutAll
<1>6. CASE RevokeRows(r)
  <2>1. /\ req'[r].user = req[r].user /\ req'[r].sess = req[r].sess
        /\ req'[r].rows \subseteq req[r].rows
        /\ req'[r].pc = "commitLogout" => req[r].sess # None
    BY <1>6, <1>a DEF RevokeRows, RequestState
  <2>2. QED BY <1>6, <1>a, <2>1 DEF ReadExactly, RevokeRows
<1>7. CASE SelectSessions(r)
  <2>1. /\ req'[r].user = req[r].user /\ req'[r].sess = req[r].sess /\ req'[r].rows = req[r].rows
        /\ req'[r].due = {s \in SessionsOf(req[r].user) : Active(s)}
    BY <1>7, <1>a DEF SelectSessions, RequestState
  <2>2. QED BY <1>7, <1>a, <2>1 DEF ReadExactly, SelectSessions, SessionsOf, Active
<1>8. QED
  BY <1>b, <1>1, <1>2, <1>3, <1>4, <1>5, <1>6, <1>7 DEF Next, Start, Step

\* One request at a time: a global logout ends the sessions and tokens of its user
\* and no others.
THEOREM SerialGlobalLogout == (\A p, q \in Request : p = q) => (Spec => GlobalLogoutIsExact)
<1> SUFFICES ASSUME \A p, q \in Request : p = q PROVE Spec => GlobalLogoutIsExact
  OBVIOUS
<1>1. Init => ExactInv
  BY InitRace DEF Init, ExactInv, SerialInv, ReadExactly, NoToken, Idle
<1>2. ExactInv /\ [Next]_vars => ExactInv'
  BY NextExact
<1>3. ASSUME ExactInv, NEW r \in Request, NEW u \in User, CommitLogout(r), req[r].user = u
      PROVE  /\ \A s \in SessionId : IF s \in SessionsOf(u) THEN ~Active(s)'
                                     ELSE sessions'[s] = sessions[s]
             /\ \A t \in TokenId : IF Stored(t) /\ tokens[t].session \in SessionsOf(u)
                                   THEN ~Live(t)' ELSE tokens'[t] = tokens[t]
  <2>a. /\ TypeOK /\ ReadExactly(req[r]) /\ HasRead(req[r]) /\ EndsReached(req[r]) /\ Holds(req[r])
        /\ req[r] \in RequestState /\ \A t \in TokenId : ~tokens[t].raced
    BY <1>3 DEF ExactInv, SerialInv, RaceInv, RaceOK, Inv, TypeOK
  <2>b. /\ req[r].pc = "commitLogout" /\ req[r].sess = None /\ u # None
        /\ \A t \in TokenId : tokens'[t] = IF t \in req[r].rows
                                           THEN [tokens[t] EXCEPT !.state = "revoked"] ELSE tokens[t]
        /\ \A s \in SessionId : sessions'[s] = IF s \in req[r].due
                                               THEN [sessions[s] EXCEPT !.state = "inactive"] ELSE sessions[s]
    BY <1>3, <2>a, ConstantsAssumption DEF CommitLogout, At, ReadExactly
  <2>1. ASSUME NEW s \in SessionId
        PROVE  IF s \in SessionsOf(u) THEN ~Active(s)' ELSE sessions'[s] = sessions[s]
    <3>1. s \in req[r].due => s \in SessionsOf(u)
      BY <1>3, <2>a, <2>b DEF EndsReached, ReachedBy, SessionsOf
    <3>2. s \in SessionsOf(u) /\ Active(s) => s \in req[r].due
      BY <1>3, <2>a, <2>b DEF ReadExactly
    <3>3. s \in req[r].due => ~Active(s)'
      BY <2>a, <2>b DEF Active, TypeOK, SessionRow
    <3>4. QED BY <2>b, <3>1, <3>2, <3>3 DEF Active
  <2>2. ASSUME NEW t \in TokenId
        PROVE  IF Stored(t) /\ tokens[t].session \in SessionsOf(u)
               THEN ~Live(t)' ELSE tokens'[t] = tokens[t]
    <3>1. t \in req[r].rows => Stored(t) /\ tokens[t].session \in SessionsOf(u)
      BY <1>3, <2>a, <2>b DEF Holds, ReadExactly, SessionsOf, TypeOK
    <3>2. Live(t) /\ tokens[t].session \in SessionsOf(u) => t \in req[r].rows
      BY <1>3, <2>a, <2>b DEF HasRead, ReachedBy, SessionsOf
    <3>3. t \in req[r].rows => ~Live(t)'
      BY <2>a, <2>b DEF Live, TypeOK, TokenRow
    <3>4. QED BY <2>b, <3>1, <3>2, <3>3 DEF Live
  <2>3. QED BY <2>1, <2>2
<1>4. ExactInv /\ [Next]_vars =>
        [\A r \in Request, u \in User : CommitLogout(r) /\ req[r].user = u =>
            /\ \A s \in SessionId : IF s \in SessionsOf(u) THEN ~Active(s)'
                                    ELSE sessions'[s] = sessions[s]
            /\ \A t \in TokenId : IF Stored(t) /\ tokens[t].session \in SessionsOf(u)
                                  THEN ~Live(t)' ELSE tokens'[t] = tokens[t]]_vars
  BY <1>3
<1>5. QED
  BY <1>1, <1>2, <1>4, PTL DEF Spec, GlobalLogoutIsExact

\* The session of user u on device d is not in the table.
NoneStored(u, d) ==
    \A s \in SessionId : sessions[s].state # "absent" => ~(sessions[s].user = u /\ sessions[s].device = d)

\* A login that goes to insert a session has seen that there is none to reuse.
Inserting(q) == q.pc = "insertSession" \/ (q.pc = "commitLogin" /\ q.sess = None)

DeviceInv ==
    /\ RaceInv
    /\ OneSessionPerDevice
    /\ \A r \in Request : Inserting(req[r]) => NoneStored(req[r].user, req[r].device)

\* A step keeps the user and the device of every session row; it stores a row
\* only by the COMMIT of a login that inserts.
LEMMA SessionMoves ==
    ASSUME RaceInv, [Next]_vars, NEW s \in SessionId
    PROVE  \/ /\ sessions'[s].user = sessions[s].user
              /\ sessions'[s].device = sessions[s].device
              /\ sessions'[s].state # "absent" => sessions[s].state # "absent"
           \/ \E r \in Request :
                 /\ CommitLogin(r) /\ req[r].sess = None
                 /\ sessions'[s].user = req[r].user
                 /\ sessions'[s].device = req[r].device
                 /\ \A x \in SessionId \ {s} : sessions'[x] = sessions[x]
<1>a. /\ sessions \in [SessionId -> SessionRow]
      /\ \A r \in Request : req[r] \in RequestState /\ Holds(req[r]) /\ RaceOK(req[r])
  BY DEF RaceInv, Inv, TypeOK
<1> DEFINE kept == /\ sessions'[s].user = sessions[s].user
                   /\ sessions'[s].device = sessions[s].device
                   /\ sessions'[s].state # "absent" => sessions[s].state # "absent"
<1>1. ASSUME NEW r \in Request, Reactivate(r) PROVE kept
  BY <1>1, <1>a, ConstantsAssumption DEF Reactivate, At, Holds, SessionRow
<1>2. ASSUME NEW r \in Request, CommitLogin(r), req[r].sess # None PROVE kept
  BY <1>2 DEF CommitLogin
<1>3. ASSUME NEW r \in Request, CommitLogin(r), req[r].sess = None
      PROVE  \/ kept
             \/ /\ sessions'[s].user = req[r].user
                /\ sessions'[s].device = req[r].device
                /\ \A x \in SessionId \ {s} : sessions'[x] = sessions[x]
  BY <1>3, <1>a, FreshKeys DEF CommitLogin
<1>4. ASSUME NEW r \in Request, CommitLogout(r) PROVE kept
  BY <1>4, <1>a DEF CommitLogout, At, RaceOK, EndsReached, SessionRow
<1>5. CASE sessions' = sessions
  BY <1>5
<1>6. QED
  BY <1>1, <1>2, <1>3, <1>4, <1>5
  DEF Next, Start, Step, vars, FindSession, FindToken, StartLogout, StartLogoutDevice,
      StartLogoutAll, InsertSession, Respond, Refuse, RevokeOne, FindUser, InsertToken,
      SelectRows, RevokeRows, SelectSessions, Fail, Crash, Tick

\* A request comes to insert a session by finding none, or by signing its JWT.
LEMMA InsertingMoves ==
    ASSUME RaceInv, [Next]_vars, NEW r \in Request, Inserting(req'[r])
    PROVE  /\ sessions' = sessions \/ \E q \in Request \ {r} : Step(q)
           /\ \/ /\ Inserting(req[r])
                 /\ req'[r].user = req[r].user /\ req'[r].device = req[r].device
              \/ NoneStored(req'[r].user, req'[r].device)
<1>a. /\ req \in [Request -> RequestState]
      /\ \A q \in Request : req[q] \in RequestState /\ Holds(req[q])
  BY DEF RaceInv, Inv, TypeOK
<1> DEFINE same == req'[r] = req[r]
           found == NoneStored(req'[r].user, req'[r].device)
<1> USE DEF Inserting
<1>1. ASSUME NEW q \in Request, NEW u \in User, NEW d \in Device, FindSession(q, u, d)
      PROVE  sessions' = sessions /\ (same \/ found)
  <2> DEFINE hits == {s \in SessionsOf(u) : sessions[s].device = d}
             start == [Idle EXCEPT !.user = u, !.device = d]
  <2>1. sessions' = sessions
    BY <1>1 DEF FindSession
  <2>2. CASE q # r
    BY <1>1, <1>a, <2>1, <2>2 DEF FindSession
  <2>3. CASE q = r
    <3>1. CASE hits = {} /\ req' = [req EXCEPT ![q] = [start EXCEPT !.pc = "insertSession"]]
      <4>1. req'[r].user = u /\ req'[r].device = d
        BY <1>a, <2>3, <3>1 DEF Idle
      <4>2. NoneStored(u, d)
        BY <3>1 DEF NoneStored, SessionsOf
      <4>3. QED BY <2>1, <4>1, <4>2
    <3>2. ASSUME NEW s \in hits, NEW label \in {"commitLogin", "reactivate"}, NEW i \in Nat,
                 req' = [req EXCEPT ![q] = [start EXCEPT !.pc = label, !.sess = s, !.iat = i]]
          PROVE FALSE
      <4>1. s # None
        BY ConstantsAssumption DEF SessionsOf
      <4>2. QED BY <1>a, <2>3, <3>2, <4>1 DEF Idle
    <3>3. ASSUME NEW s \in hits,
                 req' = [req EXCEPT ![q] = [start EXCEPT !.pc = "reactivate", !.sess = s]]
          PROVE FALSE
      BY <1>a, <2>3, <3>3 DEF Idle
    <3>4. now \in Nat
      BY DEF RaceInv, Inv, TypeOK
    <3> HIDE DEF found
    <3>5. QED BY <1>1, <2>1, <3>1, <3>2, <3>3, <3>4 DEF FindSession
  <2>4. QED BY <2>2, <2>3
<1>2. ASSUME NEW q \in Request,
             \/ \E j \in delivered : FindToken(q, j)
             \/ \E s \in SessionId : StartLogout(q, s)
             \/ \E d \in Device : StartLogoutDevice(q, d)
             \/ \E u \in User : StartLogoutAll(q, u)
      PROVE  sessions' = sessions /\ same
  <2>1. ASSUME NEW j \in delivered, FindToken(q, j) PROVE sessions' = sessions /\ same
    BY <1>a, <2>1 DEF FindToken, Idle
  <2>2. ASSUME NEW s \in SessionId, StartLogout(q, s) PROVE sessions' = sessions /\ same
    BY <1>a, <2>2 DEF StartLogout, Idle
  <2>3. ASSUME NEW d \in Device, StartLogoutDevice(q, d) PROVE sessions' = sessions /\ same
    BY <1>a, <2>3 DEF StartLogoutDevice, Idle
  <2>4. ASSUME NEW u \in User, StartLogoutAll(q, u) PROVE sessions' = sessions /\ same
    BY <1>a, <2>4 DEF StartLogoutAll, Idle
  <2>5. QED BY <1>2, <2>1, <2>2, <2>3, <2>4
<1>3. CASE InsertSession(r)
  BY <1>3, <1>a DEF InsertSession, At, RequestState, RaceInv, Inv, TypeOK
<1>4. ASSUME NEW q \in Request, Step(q), q # r
      PROVE  /\ req'[r].pc = req[r].pc /\ req'[r].sess = req[r].sess
             /\ req'[r].user = req[r].user /\ req'[r].device = req[r].device
  <2>1. CASE CommitLogout(q)
    BY <1>4, <1>a, <2>1 DEF CommitLogout, RequestState
  <2>2. CASE ~CommitLogout(q)
    BY <1>4, <1>a, <2>2 DEF Step, Reactivate, InsertSession, CommitLogin, RevokeOne, FindUser,
       InsertToken, Refuse, Respond, SelectRows, RevokeRows, SelectSessions
  <2>3. QED BY <2>1, <2>2
<1>5. ASSUME Step(r) PROVE InsertSession(r)
  <2>1. CASE Reactivate(r)
    BY <1>a, <2>1, ConstantsAssumption DEF Reactivate, At, Holds, RequestState
  <2>2. CASE CommitLogin(r) \/ InsertToken(r)
    <3>1. CASE CommitLogin(r)
      BY <1>a, <3>1 DEF CommitLogin, RequestState
    <3>2. CASE InsertToken(r)
      BY <1>a, <3>2 DEF InsertToken, RequestState
    <3>3. QED BY <2>2, <3>1, <3>2
  <2>3. CASE RevokeOne(r)
    BY <1>a, <2>3 DEF RevokeOne, RequestState, Idle
  <2>4. CASE FindUser(r) \/ SelectRows(r) \/ RevokeRows(r) \/ SelectSessions(r)
    <3>1. CASE FindUser(r)
      BY <1>a, <3>1 DEF FindUser, RequestState
    <3>2. CASE SelectRows(r)
      BY <1>a, <3>2 DEF SelectRows, RequestState
    <3>3. CASE RevokeRows(r)
      BY <1>a, <3>3 DEF RevokeRows, RequestState
    <3>4. CASE SelectSessions(r)
      BY <1>a, <3>4 DEF SelectSessions, RequestState
    <3>5. QED BY <2>4, <3>1, <3>2, <3>3, <3>4
  <2>5. CASE Respond(r) \/ Refuse(r) \/ CommitLogout(r)
    BY <1>a, <2>5 DEF Respond, Refuse, CommitLogout, Idle
  <2>6. QED BY <1>5, <2>1, <2>2, <2>3, <2>4, <2>5 DEF Step
<1>6. CASE Tick \/ UNCHANGED vars
  BY <1>6 DEF Tick, vars
<1>7. ASSUME NEW q \in Request, Fail(q) PROVE sessions' = sessions /\ same
  BY <1>7, <1>a DEF Fail, Idle
<1>8. CASE Crash
  BY <1>8 DEF Crash, Idle
<1>9. ASSUME NEW q \in Request, Step(q)
      PROVE  /\ sessions' = sessions \/ \E p \in Request \ {r} : Step(p)
             /\ Inserting(req[r]) /\ req'[r].user = req[r].user /\ req'[r].device = req[r].device
  <2>1. CASE q = r
    BY <1>3, <1>5, <1>9, <2>1, <1>a DEF InsertSession, At, RequestState
  <2>2. CASE q # r
    BY <1>4, <1>9, <2>2
  <2>3. QED BY <2>1, <2>2
<1> HIDE DEF Inserting
<1>10. CASE sessions' = sessions /\ same
  BY <1>10
<1>11. QED
  BY <1>1, <1>2, <1>6, <1>7, <1>8, <1>9, <1>10 DEF Next, Start, Tick, vars

LEMMA NextDevice ==
    ASSUME \A p, q \in Request : p = q, DeviceInv, [Next]_vars
    PROVE  DeviceInv'
<1>a. /\ RaceInv /\ RaceInv'
      /\ OneSessionPerDevice
      /\ \A r \in Request : Inserting(req[r]) => NoneStored(req[r].user, req[r].device)
  BY NextRace DEF DeviceInv
<1>1. OneSessionPerDevice'
  <2> SUFFICES ASSUME NEW x \in SessionId, NEW y \in SessionId, x # y,
                      sessions'[x].state # "absent", sessions'[y].state # "absent",
                      sessions'[x].user = sessions'[y].user,
                      sessions'[x].device = sessions'[y].device
               PROVE  FALSE
    BY DEF OneSessionPerDevice
  <2> DEFINE kept(s) == /\ sessions'[s].user = sessions[s].user
                        /\ sessions'[s].device = sessions[s].device
                        /\ sessions'[s].state # "absent" => sessions[s].state # "absent"
  <2>1. CASE kept(x) /\ kept(y)
    BY <1>a, <2>1 DEF OneSessionPerDevice
  \* The row the login inserts meets no row of the same user and device.
  <2>2. ASSUME NEW r \in Request, CommitLogin(r), req[r].sess = None,
               NEW s \in SessionId, NEW z \in SessionId, s # z,
               sessions'[s].user = req[r].user, sessions'[s].device = req[r].device,
               \A w \in SessionId \ {s} : sessions'[w] = sessions[w],
               sessions'[z].state # "absent",
               sessions'[z].user = sessions'[s].user, sessions'[z].device = sessions'[s].device
        PROVE  FALSE
    <3>1. Inserting(req[r])
      BY <2>2 DEF CommitLogin, At, Inserting
    <3>2. QED BY <1>a, <2>2, <3>1 DEF NoneStored
  <2>3. QED
    BY <1>a, <2>1, <2>2, SessionMoves
<1>2. ASSUME NEW r \in Request, Inserting(req'[r])
      PROVE  \A s \in SessionId : sessions'[s].state # "absent"
                => ~(sessions'[s].user = req'[r].user /\ sessions'[s].device = req'[r].device)
  <2>1. sessions' = sessions
    BY <1>a, <1>2, InsertingMoves
  <2>2. NoneStored(req'[r].user, req'[r].device)
    BY <1>a, <1>2, InsertingMoves
  <2>3. QED BY <2>1, <2>2 DEF NoneStored
<1>3. QED BY <1>a, <1>1, <1>2 DEF DeviceInv, Inserting, NoneStored

\* One request at a time: a user has one session per device.  Concurrent first
\* logins may both find none, so nothing less than the hypothesis will do.
THEOREM SerialDevice == (\A p, q \in Request : p = q) => (Spec => []OneSessionPerDevice)
<1> SUFFICES ASSUME \A p, q \in Request : p = q PROVE Spec => []OneSessionPerDevice
  OBVIOUS
<1>1. Init => DeviceInv
  BY InitRace DEF Init, DeviceInv, OneSessionPerDevice, NoSession, Idle, Inserting
<1>2. DeviceInv /\ [Next]_vars => DeviceInv'
  BY NextDevice
<1>3. DeviceInv => OneSessionPerDevice
  BY DEF DeviceInv
<1>4. QED
  BY <1>1, <1>2, <1>3, PTL DEF Spec

-----------------------------------------------------------------------------
(* The login transaction is all or nothing.                                *)

\* The token rows the logins inserted.
LoginRows == {t \in TokenId : Stored(t) /\ tokens[t].parent = None}

HistoryInv ==
    /\ Inv
    /\ IsFiniteSet(LoginRows)
    /\ history = Cardinality(LoginRows)

\* The login rows grow by one row at the COMMIT of a login, and at no other step.
LEMMA LoginRowsMove ==
    ASSUME Inv, [Next]_vars
    PROVE  \/ LoginRows' = LoginRows /\ history' = history
           \/ \E t \in TokenId \ LoginRows :
                 LoginRows' = LoginRows \cup {t} /\ history' = history + 1
<1>a. /\ tokens \in [TokenId -> TokenRow]
      /\ \A r \in Request : req[r] \in RequestState /\ Holds(req[r])
  BY DEF Inv, TypeOK
<1>1. ASSUME NEW r \in Request, CommitLogin(r)
      PROVE  \E t \in TokenId \ LoginRows :
                 LoginRows' = LoginRows \cup {t} /\ history' = history + 1
  <2>1. PICK t \in NextToken, s \in IF req[r].sess = None THEN NextSession ELSE {req[r].sess} :
           tokens' = [tokens EXCEPT ![t] = NewToken(r, s, req[r].user, None)]
    BY <1>1 DEF CommitLogin
  <2>2. t \in TokenId /\ ~Stored(t)
    BY FreshKeys
  <2>3. tokens'[t].state = "live" /\ tokens'[t].parent = None
    BY <1>a, <2>1, <2>2 DEF NewToken
  <2>4. \A x \in TokenId \ {t} : tokens'[x] = tokens[x]
    BY <1>a, <2>1
  <2>5. t \notin LoginRows /\ LoginRows' = LoginRows \cup {t}
    BY <2>2, <2>3, <2>4 DEF LoginRows, Stored
  <2>6. QED BY <1>1, <2>2, <2>5 DEF CommitLogin
<1>2. ASSUME \A r \in Request : ~CommitLogin(r) PROVE LoginRows' = LoginRows
  <2>1. ASSUME NEW t \in TokenId
        PROVE  (Stored(t)' /\ tokens'[t].parent = None) <=> (Stored(t) /\ tokens[t].parent = None)
    <3>1. CASE tokens'[t] = tokens[t]
      BY <3>1 DEF Stored
    <3>2. CASE Stored(t) /\ tokens'[t] = [tokens[t] EXCEPT !.state = "revoked"]
      BY <1>a, <3>2 DEF Stored, TokenRow
    <3>3. ASSUME NEW r \in Request, InsertToken(r), ~Stored(t), tokens'[t].parent = req[r].tok
          PROVE  (Stored(t)' /\ tokens'[t].parent = None) <=> (Stored(t) /\ tokens[t].parent = None)
      BY <1>a, <3>3, ConstantsAssumption DEF InsertToken, At, Holds
    <3>4. QED BY <1>2, <3>1, <3>2, <3>3, TokenMoves
  <2>2. QED BY <2>1 DEF LoginRows
<1>3. ASSUME \A r \in Request : ~CommitLogin(r) PROVE history' = history
  BY <1>3 DEF Next, Start, Step, vars, FindSession, FindToken, StartLogout, StartLogoutDevice,
     StartLogoutAll, Reactivate, InsertSession, RevokeOne, FindUser, InsertToken, Refuse,
     Respond, SelectRows, RevokeRows, SelectSessions, CommitLogout, Fail, Crash, Tick
<1>4. QED BY <1>1, <1>2, <1>3

LEMMA NextHistory == HistoryInv /\ [Next]_vars => HistoryInv'
<1> SUFFICES ASSUME HistoryInv, [Next]_vars PROVE HistoryInv'
  OBVIOUS
<1>a. Inv /\ Inv' /\ IsFiniteSet(LoginRows) /\ history = Cardinality(LoginRows)
  BY NextInv DEF HistoryInv
<1>1. CASE LoginRows' = LoginRows /\ history' = history
  BY <1>a, <1>1 DEF HistoryInv
<1>2. ASSUME NEW t \in TokenId \ LoginRows,
             LoginRows' = LoginRows \cup {t}, history' = history + 1
      PROVE  HistoryInv'
  <2>1. /\ IsFiniteSet(LoginRows \cup {t})
        /\ Cardinality(LoginRows \cup {t}) = Cardinality(LoginRows) + 1
    BY <1>a, FS_AddElement
  <2>2. QED BY <1>a, <1>2, <2>1 DEF HistoryInv
<1>3. QED BY <1>a, <1>1, <1>2, LoginRowsMove

\* The login transaction, at every interleaving, failure and crash: the history
\* has one row for each token a login has inserted.
THEOREM HistoryExact == Spec => []HistoryMatchesLogins
<1>1. ASSUME Init PROVE HistoryInv
  <2>1. LoginRows = {}
    BY <1>1 DEF Init, LoginRows, Stored, NoToken
  <2>2. QED BY <1>1, <2>1, InitInv, FS_EmptySet DEF Init, HistoryInv
<1>2. HistoryInv => HistoryMatchesLogins
  BY DEF HistoryInv, HistoryMatchesLogins, LoginRows
<1>3. QED
  BY <1>1, <1>2, NextHistory, PTL DEF Spec

=============================================================================
