---------------------------- MODULE AuthSessions ----------------------------
(***************************************************************************)
(* The session core of the service: the tables auth_sessions,              *)
(* auth_refresh_tokens and user_sessions, and the HTTP requests that read  *)
(* and write them concurrently - login, refresh, logout, logout of a       *)
(* device, global logout (src/modules/auth/auth.service.ts with            *)
(* sessions.service.ts and refresh-tokens.service.ts).                     *)
(*                                                                         *)
(* A request is a thread of one Node process: it runs from one awaited SQL *)
(* statement to the next without being interrupted, and any other request  *)
(* may run while it waits.  An action below is one awaited statement with  *)
(* the synchronous code that follows it.  PostgreSQL runs at READ          *)
(* COMMITTED: a statement sees the rows committed when it starts.  What a  *)
(* transaction has written is kept in its request until COMMIT; a row it   *)
(* has updated is locked until then.                                       *)
(***************************************************************************)
EXTENDS Naturals, FiniteSets

CONSTANTS
    User, Device,   \* the account ids and the device ids clients send
    SessionId,      \* primary keys of auth_sessions (a bound: the rows an instance can insert)
    TokenId,        \* primary keys of auth_refresh_tokens (a bound, likewise)
    Request,        \* slots for the requests in flight at one time
    None,           \* the absent value
    JwtTTL,         \* life of a refresh JWT, in seconds (2 days, scaled down)
    RowTTL,         \* life of a refresh token row (7 days, scaled down)
    MaxClock        \* bound on the clock, in seconds

ASSUME ConstantsAssumption ==
    /\ JwtTTL \in Nat /\ RowTTL \in Nat /\ JwtTTL < RowTTL
    /\ MaxClock \in Nat
    /\ None \notin User \cup Device \cup SessionId \cup TokenId \cup Request

VARIABLES
    sessions,   \* the table auth_sessions
    tokens,     \* the table auth_refresh_tokens
    history,    \* the number of rows in user_sessions
    delivered,  \* the refresh JWTs that reached a client
    now,        \* the clock, in whole seconds: what a JWT's iat can tell apart
    req         \* the requests in flight: where each is and what it has read

vars == <<sessions, tokens, history, delivered, now, req>>

-----------------------------------------------------------------------------
(* Rows.  "absent" marks a primary key no row uses yet.                    *)

SessionRow == [state : {"absent", "active", "inactive"},
               user : User \cup {None}, device : Device \cup {None}]

NoSession == [state |-> "absent", user |-> None, device |-> None]

\* A token row stores the hash of its JWT; the JWT's payload is fixed by the
\* session and its iat, so the string is the pair <<session, iat>>.  The last
\* three fields are history variables: the row a refresh replaced, the slot
\* that refreshed it, and whether a logout overlapped the request that issued it.
TokenRow == [state : {"absent", "live", "revoked"},
             session : SessionId \cup {None}, iat : Nat, expires : Nat,
             parent : TokenId \cup {None}, by : Request \cup {None},
             raced : BOOLEAN]

NoToken == [state |-> "absent", session |-> None, iat |-> 0, expires |-> 0,
            parent |-> None, by |-> None, raced |-> FALSE]

Jwt(t) == <<tokens[t].session, tokens[t].iat>>

Stored(t) == tokens[t].state # "absent"
Live(t) == tokens[t].state = "live"
Active(s) == sessions[s].state = "active"

\* Faulty: findOne in the place of an UPDATE of every row of the session.
FirstTokenOf(s) ==
    LET rows == {t \in TokenId : Stored(t) /\ tokens[t].session = s}
    IN  IF rows = {} THEN {} ELSE {CHOOSE t \in rows : TRUE}

TokensOf(s) == {t \in TokenId : Stored(t) /\ tokens[t].session = s}

\* Faulty: the look-up sees active sessions only.
ActiveSessionsOf(u) == {s \in SessionId : Active(s) /\ sessions[s].user = u}

SessionsOf(u) == {s \in SessionId : sessions[s].state # "absent" /\ sessions[s].user = u}

\* The rows the next INSERT may create: the sequence hands out one key.
NextSession ==
    LET free == {s \in SessionId : sessions[s].state = "absent"}
    IN  IF free = {} THEN {} ELSE {CHOOSE s \in free : TRUE}

NextToken ==
    LET free == {t \in TokenId : ~Stored(t)}
    IN  IF free = {} THEN {} ELSE {CHOOSE t \in free : TRUE}

-----------------------------------------------------------------------------
(* Requests.  pc names the statement a request is waiting to run.          *)

Pc == {"idle",
       "reactivate", "insertSession", "commitLogin",         \* login
       "revokeOne", "findUser", "insertToken", "refused",    \* refresh
       "respond",                                            \* login, refresh
       "selectRows", "revokeRows", "selectSessions", "commitLogout"}

RequestState == [pc : Pc, user : User \cup {None}, device : Device \cup {None},
                 sess : SessionId \cup {None}, tok : TokenId \cup {None},
                 iat : Nat, rows : SUBSET TokenId, due : SUBSET SessionId,
                 raced : BOOLEAN]

Idle == [pc |-> "idle", user |-> None, device |-> None, sess |-> None,
         tok |-> None, iat |-> 0, rows |-> {}, due |-> {}, raced |-> FALSE]

At(r, label) == req[r].pc = label

\* A logout that has read the token rows it will revoke, and not committed.
LogoutPending(r) == req[r].pc \in {"revokeRows", "selectSessions", "commitLogout"}

\* Faulty: rows are locked as they are read, before the UPDATE waits for them.
LockedSinceRead(r) == IF LogoutPending(r) THEN req[r].rows ELSE {}

\* The rows the open transaction of r has updated: locked until it ends.
Locked(r) == IF req[r].pc \in {"selectSessions", "commitLogout"} THEN req[r].rows ELSE {}

Unlocked(r, S) == \A other \in Request \ {r} : Locked(other) \cap S = {}

\* Pending logouts that reach session s of user u: of the session, or of the user.
Reaches(r, s, u) ==
    /\ LogoutPending(r)
    /\ IF req[r].sess # None THEN req[r].sess = s ELSE req[r].user = u

RacesLogout(r, s, u) == req[r].raced \/ \E l \in Request : Reaches(l, s, u)

\* Bound: a request that will insert starts only when a key is left for it.
Issuing(r) == req[r].pc \in {"reactivate", "insertSession", "commitLogin",
                             "revokeOne", "findUser", "insertToken"}
RoomForToken ==
    Cardinality({r \in Request : Issuing(r)}) < Cardinality({t \in TokenId : ~Stored(t)})
RoomForSession ==
    Cardinality({r \in Request : Issuing(r) /\ req[r].sess = None})
      < Cardinality({s \in SessionId : sessions[s].state = "absent"})

-----------------------------------------------------------------------------
Init ==
    /\ sessions = [s \in SessionId |-> NoSession]
    /\ tokens = [t \in TokenId |-> NoToken]
    /\ history = 0
    /\ delivered = {}
    /\ now = 0
    /\ req = [r \in Request |-> Idle]

(***************************************************************************)
(* Login: __generatedTokenAndRefreshToken.  BEGIN and the INSERT into      *)
(* user_sessions are private to the transaction until CommitLogin.         *)
(***************************************************************************)

\* createAuthSession looks for a session of the user on the device, outside
\* the transaction's own statements; findOne returns any match.
FindSession(r, u, d) ==
    LET found == {s \in SessionsOf(u) : sessions[s].device = d}
        start == [Idle EXCEPT !.user = u, !.device = d]
    IN
    /\ At(r, "idle")
    /\ RoomForToken
    /\ \/ /\ found = {}
          /\ RoomForSession
          /\ req' = [req EXCEPT ![r] = [start EXCEPT !.pc = "insertSession"]]
       \/ \E s \in found :
             /\ Active(s)
             /\ req' = [req EXCEPT ![r] =
                          [start EXCEPT !.pc = "commitLogin", !.sess = s, !.iat = now]]
       \/ \E s \in found :
             /\ ~Active(s)
             /\ req' = [req EXCEPT ![r] = [start EXCEPT !.pc = "reactivate", !.sess = s]]
    /\ UNCHANGED <<sessions, tokens, history, delivered, now>>

\* Faulty: the session found inactive is used as it is.
ReactivateUnsaved(r) ==
    /\ At(r, "reactivate")
    /\ req' = [req EXCEPT ![r].pc = "commitLogin", ![r].iat = now]
    /\ UNCHANGED <<sessions, tokens, history, delivered, now>>

\* updateActive(id, true) without the manager: committed at once, whatever
\* becomes of the login's transaction.
Reactivate(r) ==
    /\ At(r, "reactivate")
    /\ sessions' = [sessions EXCEPT ![req[r].sess].state = "active"]
    /\ req' = [req EXCEPT ![r].pc = "commitLogin", ![r].iat = now]
    /\ UNCHANGED <<tokens, history, delivered, now>>

\* Faulty: the response carries the JWT as soon as it is signed.
InsertSessionResponds(r) ==
    /\ At(r, "insertSession")
    /\ delivered' = delivered \cup (NextSession \X {now})
    /\ req' = [req EXCEPT ![r].pc = "commitLogin", ![r].iat = now]
    /\ UNCHANGED <<sessions, tokens, history, now>>

\* The INSERT of a new session, private to the transaction; then the JWT is signed.
InsertSession(r) ==
    /\ At(r, "insertSession")
    /\ req' = [req EXCEPT ![r].pc = "commitLogin", ![r].iat = now]
    /\ UNCHANGED <<sessions, tokens, history, delivered, now>>

\* Faulty: the row is saved without its relation to the session.
NewTokenUnrelated(r, s, u, p) ==
    [state |-> "live", session |-> None, iat |-> req[r].iat, expires |-> now + RowTTL,
     parent |-> p, by |-> IF p = None THEN None ELSE r, raced |-> FALSE]

\* A token row as createRefreshToken inserts it.
NewToken(r, s, u, p) ==
    [state |-> "live", session |-> s, iat |-> req[r].iat, expires |-> now + RowTTL,
     parent |-> p, by |-> IF p = None THEN None ELSE r,
     raced |-> RacesLogout(r, s, u) \/ (p # None /\ tokens[p].raced)]

\* The INSERT of the token and COMMIT: the history row, the session if it is
\* new, and the token become visible together.
CommitLogin(r) ==
    /\ At(r, "commitLogin")
    /\ \E t \in NextToken,
          s \in IF req[r].sess = None THEN NextSession ELSE {req[r].sess} :
         /\ sessions' = IF req[r].sess = None
                        THEN [sessions EXCEPT ![s] =
                                [state |-> "active", user |-> req[r].user,
                                 device |-> req[r].device]]
                        ELSE sessions
         /\ tokens' = [tokens EXCEPT ![t] = NewToken(r, s, req[r].user, None)]
         /\ req' = [req EXCEPT ![r].pc = "respond", ![r].sess = s, ![r].tok = t]
    /\ history' = history + 1
    /\ UNCHANGED <<delivered, now>>

\* What follows the last write succeeds (login: the alert mail, the reset of
\* the attempts, the audit row; refresh: the audit row) and the response
\* carries the JWT.
Respond(r) ==
    /\ At(r, "respond")
    /\ delivered' = delivered \cup {Jwt(req[r].tok)}
    /\ req' = [req EXCEPT ![r] = Idle]
    /\ UNCHANGED <<sessions, tokens, history, now>>

(***************************************************************************)
(* Refresh: refreshToken and revokeRefreshToken.  No transaction: every    *)
(* statement commits by itself.                                            *)
(***************************************************************************)

\* Faulty: revokeRefreshToken does not look at the row's revoked flag.
FindTokenUnchecked(r, j) ==
    /\ At(r, "idle")
    /\ RoomForToken
    /\ \E t \in TokenId :
         /\ Stored(t) /\ Jwt(t) = j /\ tokens[t].expires >= now
         /\ req' = [req EXCEPT ![r] =
              [Idle EXCEPT !.pc = "revokeOne", !.sess = tokens[t].session, !.tok = t]]
    /\ UNCHANGED <<sessions, tokens, history, delivered, now>>

\* revokeRefreshToken's SELECT by hash, and the two refusals.
FindToken(r, j) ==
    /\ At(r, "idle")
    /\ RoomForToken
    /\ \E t \in TokenId :
         /\ Stored(t) /\ Jwt(t) = j
         /\ req' = [req EXCEPT ![r] =
              [Idle EXCEPT
                 !.pc = IF tokens[t].expires < now \/ ~Live(t) THEN "refused" ELSE "revokeOne",
                 !.sess = tokens[t].session, !.tok = t]]
    /\ UNCHANGED <<sessions, tokens, history, delivered, now>>

Refuse(r) ==
    /\ At(r, "refused")
    /\ req' = [req EXCEPT ![r] = Idle]
    /\ UNCHANGED <<sessions, tokens, history, delivered, now>>

\* The UPDATE by primary key - the row may have been revoked since - and then
\* jwtService.verify, which throws on an expired JWT.
RevokeOne(r) ==
    LET t == req[r].tok IN
    /\ At(r, "revokeOne")
    /\ Unlocked(r, {t})
    /\ tokens' = [tokens EXCEPT ![t].state = "revoked"]
    /\ req' = IF now >= tokens[t].iat + JwtTTL
              THEN [req EXCEPT ![r] = Idle]
              ELSE [req EXCEPT ![r].pc = "findUser"]
    /\ UNCHANGED <<sessions, history, delivered, now>>

\* usersService.findOne(sub), then the new JWT is signed.
FindUser(r) ==
    /\ At(r, "findUser")
    /\ req' = [req EXCEPT ![r].pc = "insertToken", ![r].iat = now]
    /\ UNCHANGED <<sessions, tokens, history, delivered, now>>

InsertToken(r) ==
    /\ At(r, "insertToken")
    /\ \E t \in NextToken :
         /\ tokens' = [tokens EXCEPT ![t] =
              NewToken(r, req[r].sess, sessions[req[r].sess].user, req[r].tok)]
         /\ req' = [req EXCEPT ![r].pc = "respond", ![r].tok = t]
    /\ UNCHANGED <<sessions, history, delivered, now>>

(***************************************************************************)
(* The three logouts.                                                      *)
(***************************************************************************)

\* logout: the session id is the one in the caller's access token.
StartLogout(r, s) ==
    /\ At(r, "idle")
    /\ sessions[s].state # "absent"
    /\ req' = [req EXCEPT ![r] = [Idle EXCEPT !.pc = "selectRows", !.sess = s]]
    /\ UNCHANGED <<sessions, tokens, history, delivered, now>>

\* logoutDevice: findByDeviceId returns any session of the device, of any user;
\* without one the handler throws before it writes.
StartLogoutDevice(r, d) ==
    /\ At(r, "idle")
    /\ \E s \in SessionId :
         /\ sessions[s].state # "absent" /\ sessions[s].device = d
         /\ req' = [req EXCEPT ![r] = [Idle EXCEPT !.pc = "selectRows", !.sess = s]]
    /\ UNCHANGED <<sessions, tokens, history, delivered, now>>

\* revokeTokenWithSessionId: its UPDATE fixes the rows it will write when it starts.
SelectRows(r) ==
    /\ At(r, "selectRows")
    /\ req' = [req EXCEPT ![r].pc = "revokeRows", ![r].rows = TokensOf(req[r].sess)]
    /\ UNCHANGED <<sessions, tokens, history, delivered, now>>

\* logoutAll: revokeTokenWithUserId reads the unrevoked tokens of the user
\* through the repository, not through the transaction's manager.
StartLogoutAll(r, u) ==
    /\ At(r, "idle")
    /\ req' = [req EXCEPT ![r] =
         [Idle EXCEPT !.pc = "revokeRows", !.user = u,
                      !.rows = {t \in UNION {TokensOf(s) : s \in SessionsOf(u)} : Live(t)}]]
    /\ UNCHANGED <<sessions, tokens, history, delivered, now>>

\* The UPDATE waits for rows another open transaction has written; save(tokens)
\* leaves out the rows revoked since they were read.
RevokeRows(r) ==
    /\ At(r, "revokeRows")
    /\ Unlocked(r, req[r].rows)
    /\ req' = IF req[r].sess # None
              THEN [req EXCEPT ![r].pc = "commitLogout", ![r].due = {req[r].sess}]
              ELSE [req EXCEPT ![r].pc = "selectSessions",
                               ![r].rows = {t \in req[r].rows : Live(t)}]
    /\ UNCHANGED <<sessions, tokens, history, delivered, now>>

\* Faulty: the sessions are looked up by the session id, which logoutAll need not be given.
SelectSessionsById(r) ==
    /\ At(r, "selectSessions")
    /\ req' = [req EXCEPT ![r].pc = "commitLogout",
                          ![r].due = {s \in SessionId : Active(s) /\ s = req[r].sess}]
    /\ UNCHANGED <<sessions, tokens, history, delivered, now>>

\* updateInactiveUserId reads the active sessions of the user.
SelectSessions(r) ==
    /\ At(r, "selectSessions")
    /\ req' = [req EXCEPT ![r].pc = "commitLogout",
                          ![r].due = {s \in SessionsOf(req[r].user) : Active(s)}]
    /\ UNCHANGED <<sessions, tokens, history, delivered, now>>

\* A request that has fixed the session it will issue a token for.
HoldsSession(r, S) ==
    /\ req[r].pc \in {"commitLogin", "revokeOne", "findUser", "insertToken"}
    /\ req[r].sess \in S

\* The UPDATE of the sessions and COMMIT.
CommitLogout(r) ==
    LET rows == req[r].rows
        due == req[r].due
    IN
    /\ At(r, "commitLogout")
    /\ tokens' = [t \in TokenId |->
                    IF t \in rows THEN [tokens[t] EXCEPT !.state = "revoked"] ELSE tokens[t]]
    /\ sessions' = [s \in SessionId |->
                      IF s \in due THEN [sessions[s] EXCEPT !.state = "inactive"]
                                   ELSE sessions[s]]
    /\ req' = [q \in Request |->
                 IF q = r THEN Idle
                 ELSE [req[q] EXCEPT !.raced = @ \/ HoldsSession(q, due)]]
    /\ UNCHANGED <<history, delivered, now>>

(***************************************************************************)
(* The environment.                                                        *)
(***************************************************************************)

\* Faulty: the history row is inserted without the transaction's manager.
FailKeepsHistory(r) ==
    /\ ~At(r, "idle")
    /\ history' = IF req[r].pc \in {"reactivate", "insertSession", "commitLogin"}
                  THEN history + 1 ELSE history
    /\ req' = [req EXCEPT ![r] = Idle]
    /\ UNCHANGED <<sessions, tokens, delivered, now>>

\* Faulty: a refresh that fails gives the client its old token back.
FailRestoresToken(r) ==
    /\ ~At(r, "idle")
    /\ tokens' = IF req[r].pc \in {"findUser", "insertToken"}
                 THEN [tokens EXCEPT ![req[r].tok].state = "live"] ELSE tokens
    /\ req' = [req EXCEPT ![r] = Idle]
    /\ UNCHANGED <<sessions, history, delivered, now>>

\* The awaited call of r fails (SQL error, deadlock victim, mail server, audit
\* row): the handler throws, an open transaction is rolled back, what was
\* committed before stays.
Fail(r) ==
    /\ ~At(r, "idle")
    /\ req' = [req EXCEPT ![r] = Idle]
    /\ UNCHANGED <<sessions, tokens, history, delivered, now>>

\* The process dies and is restarted: every request in flight is lost.
Crash ==
    /\ \E r \in Request : ~At(r, "idle")
    /\ req' = [r \in Request |-> Idle]
    /\ UNCHANGED <<sessions, tokens, history, delivered, now>>

Tick ==
    /\ now < MaxClock
    /\ now' = now + 1
    /\ UNCHANGED <<sessions, tokens, history, delivered, req>>

Start(r) ==
    \/ \E u \in User, d \in Device : FindSession(r, u, d)
    \/ \E j \in delivered : FindToken(r, j)
    \/ \E s \in SessionId : StartLogout(r, s)
    \/ \E d \in Device : StartLogoutDevice(r, d)
    \/ \E u \in User : StartLogoutAll(r, u)

Step(r) ==
    \/ Reactivate(r) \/ InsertSession(r) \/ CommitLogin(r)
    \/ RevokeOne(r) \/ FindUser(r) \/ InsertToken(r) \/ Refuse(r)
    \/ Respond(r)
    \/ SelectRows(r) \/ RevokeRows(r) \/ SelectSessions(r) \/ CommitLogout(r)

Next ==
    \/ \E r \in Request : Start(r) \/ Step(r) \/ Fail(r)
    \/ Crash
    \/ Tick

Spec == Init /\ [][Next]_vars

\* Every request in flight keeps running; PostgreSQL queues lock waiters, so a
\* statement that waits for a row gets it although others take it meanwhile.
FairSpec == Spec /\ \A r \in Request : SF_vars(Step(r))

-----------------------------------------------------------------------------
(* Properties.                                                             *)

\* Rows and requests have the shape the tables and handlers give them, and the
\* foreign key auth_refresh_tokens.authSession names a stored session.
TypeOK ==
    /\ sessions \in [SessionId -> SessionRow]
    /\ tokens \in [TokenId -> TokenRow]
    /\ history \in Nat
    /\ delivered \subseteq (SessionId \X Nat)
    /\ now \in Nat
    /\ req \in [Request -> RequestState]
    /\ \A t \in TokenId : Stored(t) =>
          /\ tokens[t].session \in SessionId
          /\ sessions[tokens[t].session].state # "absent"

\* Logout's promise under concurrency.  A token that still works although its
\* session was ended was issued by a login or refresh (or descends from one)
\* that overlapped the logout: it was inserted after the logout had read the
\* rows to revoke, or its request had fixed the session before the logout
\* committed.  Every other token of the session is revoked with it.
LiveOnInactiveOnlyIfRaced ==
    \A t \in TokenId : Live(t) /\ ~Active(tokens[t].session) => tokens[t].raced

\* Rotation: a row written by a refresh replaces a row that is revoked, and
\* stays so, at whatever statement the refresh failed or the process died.
\* (LedgerSpec, below, implies it; the proofs need it by itself.)
RotationRevokesParent ==
    \A t \in TokenId : tokens[t].parent # None => tokens[tokens[t].parent].state = "revoked"

\* A token can be exchanged again only by another request that overlapped the
\* first exchange: the requests one slot serves one after the other never
\* exchange the same row twice, however logins and logouts interleave.
OneExchangePerRequest ==
    \A t1, t2 \in TokenId :
        /\ t1 # t2 /\ tokens[t1].parent # None
        /\ tokens[t1].parent = tokens[t2].parent
        => tokens[t1].by # tokens[t2].by

\* A client never holds a refresh JWT whose row was rolled back: responses are
\* sent after COMMIT, so the hash is in the table even when the process dies.
DeliveredIsStored ==
    \A j \in delivered : \E t \in TokenId : Stored(t) /\ Jwt(t) = j

\* The login transaction is all or nothing: user_sessions has one row for each
\* token a login has inserted, none for a login that failed or was cut short.
HistoryMatchesLogins ==
    history = Cardinality({t \in TokenId : Stored(t) /\ tokens[t].parent = None})

\* Every request reaches its end: no statement waits for a row lock for ever
\* (transactions lock tokens before sessions and release at COMMIT or rollback).
EveryRequestEnds == \A r \in Request : ~At(r, "idle") ~> At(r, "idle")

\* What the same code promises when requests come one at a time (failures and
\* crashes included).  A session that was ended has no token left that works.
LiveImpliesActive == \A t \in TokenId : Live(t) => Active(tokens[t].session)

\* A refresh token is exchanged for a new one at most once.
AtMostOneExchange ==
    \A t1, t2 \in TokenId :
        tokens[t1].parent # None /\ tokens[t1].parent = tokens[t2].parent => t1 = t2

\* A global logout ends what is the user's and nothing else: once it commits no
\* session of the user is active, no token of one works, and the rows of the
\* others are as they were - whatever logins, refreshes, failed logins that left
\* a session active and cut-off logouts have come before.
GlobalLogoutIsExact ==
    [][\A r \in Request, u \in User : CommitLogout(r) /\ req[r].user = u =>
          /\ \A s \in SessionId : IF s \in SessionsOf(u) THEN ~Active(s)'
                                  ELSE sessions'[s] = sessions[s]
          /\ \A t \in TokenId : IF Stored(t) /\ tokens[t].session \in SessionsOf(u)
                                THEN ~Live(t)' ELSE tokens'[t] = tokens[t]]_vars

\* A user has one session per device: createAuthSession reuses the row.
OneSessionPerDevice ==
    \A s1, s2 \in SessionId :
        /\ sessions[s1].state # "absent" /\ sessions[s2].state # "absent"
        /\ sessions[s1].user = sessions[s2].user
        /\ sessions[s1].device = sessions[s2].device
        => s1 = s2

\* The abstract specification the tables implement.
Ledger == INSTANCE RefreshLedger WITH
    Token <- TokenId, Session <- SessionId,
    status <- [t \in TokenId |-> tokens[t].state],
    owner <- [t \in TokenId |-> tokens[t].session],
    origin <- [t \in TokenId |-> tokens[t].parent]

\* Whatever interleaves, fails or crashes, the token table moves only as the
\* ledger does: no revocation is undone, no row is rewritten, and every row is
\* either issued by a login or exchanged for a dead row of the same session.
LedgerSpec == Ledger!Spec

=============================================================================
