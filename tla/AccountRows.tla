----------------------------- MODULE AccountRows -----------------------------
(***************************************************************************)
(* What the handlers on an account share: the users table, the requests in *)
(* flight and the pool of database connections they compete for            *)
(* (src/modules/users/entities/user.entity, src/app.module).  Guards,      *)
(* EmailChange, OAuthAccounts and ReAuthentication add the handlers,       *)
(* Accounts composes them.                                                 *)
(*                                                                         *)
(* A request is the list of steps between its awaits.  Each query takes a  *)
(* connection for itself and gives it back, so it needs a free one; a      *)
(* transaction keeps its connection from BEGIN to COMMIT, and its writes   *)
(* become visible with COMMIT.                                             *)
(***************************************************************************)
EXTENDS Naturals, FiniteSets

CONSTANTS
    User, Email, Role,
    Change,       \* rows of user_email_change_request (a bound)
    Log,          \* rows of user_email_change_logs (a bound)
    Identity,     \* accounts at an OAuth provider: (provider, providerId)
    Link,         \* rows of user_account_oauth (a bound)
    Token,        \* rows of auth_reauth_tokens (a bound)
    Request,      \* slots for the requests in flight at one time
    None,         \* the absent value
    PoolSize,     \* connections of the pool
    MaxSecret,    \* the secrets a user can have (a bound)
    Scenarios,    \* the bounds of a behaviour: one of these scenarios
    FirstRole,    \* the roles of the users that are there at the start
    DefaultRole   \* ROL_USER_DEFAULT

\* The kinds of handlers that are called, the address each user starts with, None
\* when not registered, the ones it had before, of which there still are access
\* tokens, and the rows there is room for.
Kind == {"email", "oauth", "reauth", "role", "remove"}
Scenario == [kinds : SUBSET Kind, first : [User -> Email \cup {None}],
             past : [User -> SUBSET Email],
             changes : Nat, logs : Nat, links : Nat, tokens : Nat]

ASSUME AccountsAssumption ==
    /\ PoolSize \in Nat \ {0} /\ MaxSecret \in Nat
    /\ IsFiniteSet(Request)
    /\ FirstRole \in [User -> Role] /\ DefaultRole \in Role
    /\ Scenarios \subseteq Scenario
    /\ \A s \in Scenarios, u \in User :
         /\ s.first[u] = None => s.past[u] = {}
         /\ \A v \in User : s.first[u] = s.first[v] /\ s.first[u] # None => u = v
    /\ None \notin User \cup Email \cup Role \cup Change \cup Log \cup Identity \cup Link \cup Token

VARIABLES
    users,   \* the users table
    access,  \* the claims of the access tokens signed for each user
    req,     \* the requests in flight
    scenario,
    met      \* history: the requests in flight that another one has overlapped

rowVars == <<users, access, req, met, scenario>>

-----------------------------------------------------------------------------
(* Rows.                                                                   *)

\* secret numbers the values user_secret has had.  born is a history variable:
\* the address the row was inserted with.
UserRow == [email : Email \cup {None}, role : Role \cup {None}, deleted : BOOLEAN,
            secret : 0..MaxSecret, born : Email \cup {None}]
NoUser == [email |-> None, role |-> None, deleted |-> FALSE, secret |-> 0, born |-> None]
NewUser(e, role) == [NoUser EXCEPT !.email = e, !.role = role, !.born = e]

Exists(u) == users[u].email # None

\* What a find() returns: a soft-deleted row is left out.
Visible(u) == Exists(u) /\ ~users[u].deleted

\* The unique index on email, which soft-deleted rows are in.
Taken(e, u) == \E v \in User \ {u} : Exists(v) /\ users[v].email = e

\* An access token carries the row of the moment it is signed at, by a login or
\* a refresh, and login and refresh are open whenever the row is there.
Claim == [email : Email, role : Role, secret : 0..MaxSecret]
ClaimsOf(row) == IF row.email = None THEN {}
                 ELSE {[email |-> row.email, role |-> row.role, secret |-> row.secret]}

Put(u, row) ==
    /\ users' = [users EXCEPT ![u] = row]
    /\ access' = [access EXCEPT ![u] = @ \cup ClaimsOf(row)]

KeepRows == UNCHANGED <<users, access>>

Called(kind) == kind \in scenario.kinds

\* A request that may insert a row starts only while there is one for it and
\* for the requests that may insert one already.
Room(n, used, coming) == Cardinality(used) + Cardinality(coming) < n

-----------------------------------------------------------------------------
(* Requests and connections.                                               *)

Pc == {"idle",
       "update", "updateCheck", "updateWrite", "updateMail", "updateCommit",
       "confirmBegin", "confirmUser", "confirmWrite", "confirmMail", "rollbackWrite",
       "changeRole", "roleSave", "remove",
       "loginLink", "loginEmail", "loginRole", "loginNewRole", "loginRow", "loginInsert", "loginCommit",
       "sessionBegin", "sessionUser",
       "linkUser", "linkRow", "linkInsert", "unlink", "unlinkDelete",
       "reauthPassword", "reauthRevoke", "reauthInsert",
       "guardFind", "guardList", "guardSave",
       "pwdBegin", "pwdCredential", "pwdUser", "pwdNew", "pwdWrite"}

\* tx: the request is in a transaction.  by is the user of its access token,
\* seen the row it has read, rows the tokens; told that it has answered with an
\* error, fresh that it is to insert a row.
RequestState == [pc : Pc, tx : BOOLEAN, by : User \cup {None}, user : User \cup {None},
                 email : Email \cup {None}, role : Role \cup {None},
                 item : Change \cup Log \cup Identity \cup Token \cup User \cup {None},
                 seen : UserRow, rows : SUBSET Token, told : BOOLEAN, fresh : BOOLEAN]

Idle == [pc |-> "idle", tx |-> FALSE, by |-> None, user |-> None, email |-> None, role |-> None,
         item |-> None, seen |-> NoUser, rows |-> {}, told |-> FALSE, fresh |-> FALSE]

At(r, label) == req[r].pc = label

Busy == {r \in Request : ~At(r, "idle")}
Holding == {r \in Request : req[r].tx}

\* The pool can hand out a connection.
Free == Cardinality(Holding) < PoolSize

\* The first query of a request.  From here on it overlaps the ones in flight.
Start(r, state) ==
    /\ At(r, "idle") /\ Free
    /\ req' = [req EXCEPT ![r] = state]
    /\ met' = IF Busy = {} THEN met ELSE met \cup Busy \cup {r}

Goto(r, label) == req' = [req EXCEPT ![r].pc = label] /\ UNCHANGED met

\* BEGIN.
Enter(r, label) ==
    /\ Free
    /\ req' = [req EXCEPT ![r].pc = label, ![r].tx = TRUE]
    /\ UNCHANGED met

\* Faulty: the connection of the transaction is not given back.
DoneHeld(r) == req' = [req EXCEPT ![r] = [Idle EXCEPT !.tx = req[r].tx]] /\ met' = met \ {r}

\* The request ends: answered, refused or failed, its transaction over.
Done(r) == req' = [req EXCEPT ![r] = Idle] /\ met' = met \ {r}

\* A promise nobody awaits is rejected: the process exits and comes back with
\* every request and transaction lost.
Exit == req' = [r \in Request |-> Idle] /\ met' = {}

RowsInit ==
    /\ scenario \in Scenarios
    /\ users = [u \in User |-> IF scenario.first[u] = None THEN NoUser
                               ELSE NewUser(scenario.first[u], FirstRole[u])]
    /\ access = [u \in User |-> UNION {ClaimsOf([users[u] EXCEPT !.email = e]) :
                                         e \in scenario.past[u] \cup {users[u].email}}]
    /\ req = [r \in Request |-> Idle]
    /\ met = {}

=============================================================================
