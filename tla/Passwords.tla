------------------------------ MODULE Passwords ------------------------------
(***************************************************************************)
(* Passwords and the links that reach an account by mail: registration,    *)
(* verification of the address, sign-in - with the password alone, with a  *)
(* second factor, through a provider -, refresh, the reset of a forgotten  *)
(* password and the change of a known one (src/modules/auth/auth.service,  *)
(* src/modules/users/tokens, credentials and users services), with the     *)
(* transactions, mails and logouts these handlers chain.                   *)
(*                                                                         *)
(* What a session is made of is AuthSessions' subject: here one grant      *)
(* stands for a session with its chain of refresh tokens, and of a second  *)
(* factor (TwoFactor's subject) only what a sign-in asks is kept.          *)
(* Passwords and secrets are counted, not spelled: the n-th password of an *)
(* account is n.                                                           *)
(***************************************************************************)
EXTENDS Naturals, FiniteSets

CONSTANTS
    User,        \* accounts, by e-mail address
    Link,        \* rows of user_tokens (a bound: the links an instance can mail)
    Grant,       \* sessions sign-ins can open (a bound, likewise)
    Request,     \* slots for the requests in flight at one time
    None,        \* the absent value
    MaxChanges   \* bound on the passwords an account has

ASSUME PasswordsAssumption ==
    /\ MaxChanges \in Nat
    /\ None \notin User \cup Link \cup Grant \cup Request

VARIABLES
    accounts,  \* users with their credentials and user_security: status, password,
               \* user_secret, second factor
    links,     \* user_tokens
    grants,    \* the sessions sign-ins have opened
    mailed,    \* the links mails have carried to their user, with the kind of mail
    access,    \* the access tokens that reached a client
    req        \* the requests in flight

vars == <<accounts, links, grants, mailed, access, req>>

-----------------------------------------------------------------------------
(* Rows.                                                                   *)

Kind == {"verify", "reset"}

\* factor is "stored" when user_security or its recovery codes hold something
\* verify2fa accepts, and "on" when a login asks for it besides.
AccountRow == [status : {"absent", "pending", "active"}, password : Nat, secret : Nat,
               factor : {"none", "stored", "on"}]
NoAccount == [status |-> "absent", password |-> 0, secret |-> 0, factor |-> "none"]

\* by is a history variable: the slots that have set a password with the link,
\* and uses how often one was set.
LinkRow == [state : {"absent", "fresh", "expired", "used"}, user : User \cup {None},
            by : SUBSET Request, uses : Nat]
NoLink == [state |-> "absent", user |-> None, by |-> {}, uses |-> 0]

\* While a refresh is between its revocation and its INSERT the grant has no
\* token: it is rotating.  The rest is history: password, the account's when the
\* sign-in read its row (the one a login has checked; the other ways check none);
\* provider, whether an OAuth provider vouched for the user; excused, why the
\* grant may outlive that password.
GrantRow == [state : {"absent", "live", "rotating", "ended"}, user : User \cup {None},
             password : Nat, provider : BOOLEAN, excused : BOOLEAN]
NoGrant == [state |-> "absent", user |-> None, password |-> 0, provider |-> FALSE,
            excused |-> FALSE]

\* An access token is signed with the user_secret; password is history, the
\* account's when the sign-in that signed it read the row, 0 for a refresh.
AccessToken == [user : User, secret : Nat, password : Nat]

Live(g) == grants[g].state = "live"
Stale(g) == grants[g].password # accounts[grants[g].user].password

\* getUserSecret, with which the guard verifies an access token.
Accepts(a) == accounts[a.user].status = "active" /\ a.secret = accounts[a.user].secret

\* Faulty: the look-up does not ask whether the link was used.
OpensUsed(l) == links[l].state \in {"fresh", "used"}

\* A link findOneByToken accepts, at any of the endpoints that take one.
Opens(l) == links[l].state = "fresh"

Pc == {"idle", "insertUser", "commitRegister", "activate", "markUsed", "mailLink",
       "askFactor", "checkFactor", "saveFactor", "issue", "issueProvider",
       "rotate", "signAccess", "updateCredential", "commitPassword", "mailChange", "revokeGrants"}

RequestState == [pc : Pc, user : User \cup {None}, link : Link \cup {None},
                 grant : Grant \cup {None}, password : Nat, secret : Nat,
                 rows : SUBSET Grant]

Idle == [pc |-> "idle", user |-> None, link |-> None, grant |-> None,
         password |-> 0, secret |-> 0, rows |-> {}]

At(r, label) == req[r].pc = label

\* Rows a transaction has written and not committed: another writer waits.
RegistersUser(r, u) == req[r].user = u /\ At(r, "commitRegister")
ChangesPassword(r, u) == req[r].user = u /\ At(r, "commitPassword")

\* A link is a fresh uuid: no other request's, and in no mail yet.
FreeLinks == {l \in Link : /\ links[l].state = "absent"
                           /\ \A r \in Request : req[r].link # l
                           /\ \A kind \in Kind : <<kind, l>> \notin mailed}

\* A sign-in inserts new rows; here they may take the place of a session that is
\* over and that no request under way has read, so that few places are enough.
FreeGrants == {g \in Grant : /\ ~Live(g)
                             /\ \A r \in Request : req[r].grant # g /\ g \notin req[r].rows}

-----------------------------------------------------------------------------
Init ==
    /\ accounts = [u \in User |-> NoAccount]
    /\ links = [l \in Link |-> NoLink]
    /\ grants = [g \in Grant |-> NoGrant]
    /\ mailed = {}
    /\ access = {}
    /\ req = [r \in Request |-> Idle]

Goto(r, label) == req' = [req EXCEPT ![r].pc = label]
Done(r) == req' = [req EXCEPT ![r] = Idle]
Begin(r, u, label) == req' = [req EXCEPT ![r] = [Idle EXCEPT !.pc = label, !.user = u]]
Carries(r, u, l, label) ==
    req' = [req EXCEPT ![r] = [Idle EXCEPT !.pc = label, !.user = u, !.link = l]]

(***************************************************************************)
(* register: one transaction, which also sends the mail.                   *)
(***************************************************************************)

\* __ValidateAndCreateUser looks for the address outside the transaction.
Register(r, u) ==
    /\ At(r, "idle")
    /\ accounts[u].status = "absent"
    /\ Begin(r, u, "insertUser")
    /\ UNCHANGED <<accounts, links, grants, mailed, access>>

\* The INSERT of the user waits for a concurrent INSERT of the same address, and
\* fails if that one commits.  createTokenEmailVerification then inserts a link
\* and mails it, before any of this is committed.
InsertUser(r) ==
    LET u == req[r].user IN
    /\ At(r, "insertUser")
    /\ \A other \in Request : ~RegistersUser(other, u)
    /\ \/ accounts[u].status # "absent" /\ Done(r) /\ UNCHANGED mailed
       \/ /\ accounts[u].status = "absent"
          /\ \E l \in FreeLinks :
               /\ req' = [req EXCEPT ![r].pc = "commitRegister", ![r].link = l]
               /\ mailed' = mailed \cup {<<"verify", l>>}
    /\ UNCHANGED <<accounts, links, grants, access>>

\* user_security's row and COMMIT.
CommitRegister(r) ==
    LET u == req[r].user IN
    /\ At(r, "commitRegister")
    /\ accounts' = [accounts EXCEPT ![u] = [NoAccount EXCEPT !.status = "pending",
                                                                !.password = 1, !.secret = 1]]
    /\ links' = [links EXCEPT ![req[r].link] =
                   [NoLink EXCEPT !.state = "fresh", !.user = u]]
    /\ Done(r)
    /\ UNCHANGED <<grants, mailed, access>>

(***************************************************************************)
(* verifyEmail: three statements that commit one by one.                   *)
(***************************************************************************)

OpenVerification(r, l) ==
    /\ At(r, "idle")
    /\ Opens(l)
    /\ Carries(r, links[l].user, l, "activate")
    /\ UNCHANGED <<accounts, links, grants, mailed, access>>

Activate(r) ==
    /\ At(r, "activate")
    /\ accounts' = [accounts EXCEPT ![req[r].user].status = "active"]
    /\ Goto(r, "markUsed")
    /\ UNCHANGED <<links, grants, mailed, access>>

\* The mail that follows changes nothing.
MarkUsed(r) ==
    /\ At(r, "markUsed")
    /\ links' = [links EXCEPT ![req[r].link].state = "used"]
    /\ Done(r)
    /\ UNCHANGED <<accounts, grants, mailed, access>>

(***************************************************************************)
(* resetPassword: a link is stored, then mailed.                           *)
(***************************************************************************)

\* Faulty: the row is created and not saved, its link is mailed.
InsertLinkUnsaved(r, u) ==
    /\ At(r, "idle")
    /\ accounts[u].status # "absent"
    /\ \E l \in FreeLinks : Carries(r, u, l, "mailLink")
    /\ UNCHANGED <<accounts, links, grants, mailed, access>>

\* Faulty: the row is saved without its user.
InsertLinkUnowned(r, u) ==
    /\ At(r, "idle")
    /\ accounts[u].status # "absent"
    /\ \E l \in FreeLinks :
         /\ links' = [links EXCEPT ![l] = [NoLink EXCEPT !.state = "fresh"]]
         /\ Carries(r, u, l, "mailLink")
    /\ UNCHANGED <<accounts, grants, mailed, access>>

\* findOneByEmail finds the account, whatever its status; the row commits by itself.
InsertLink(r, u) ==
    /\ At(r, "idle")
    /\ accounts[u].status # "absent"
    /\ \E l \in FreeLinks :
         /\ links' = [links EXCEPT ![l] = [NoLink EXCEPT !.state = "fresh", !.user = u]]
         /\ Carries(r, u, l, "mailLink")
    /\ UNCHANGED <<accounts, grants, mailed, access>>

MailLink(r) ==
    /\ At(r, "mailLink")
    /\ mailed' = mailed \cup {<<"reset", req[r].link>>}
    /\ Done(r)
    /\ UNCHANGED <<accounts, links, grants, access>>

(***************************************************************************)
(* The sign-ins: login, verify2fa, loginWithOauth.                         *)
(***************************************************************************)

\* r keeps, across its awaits, the row of u as it has read it.
Reads(r, u, label) ==
    req' = [req EXCEPT ![r] = [Idle EXCEPT !.pc = label, !.user = u,
                                           !.password = accounts[u].password,
                                           !.secret = accounts[u].secret]]

\* Faulty: the status of the account is not looked at.
SignInAnyStatus(r, u) ==
    /\ At(r, "idle")
    /\ accounts[u].status # "absent"
    /\ Reads(r, u, "askFactor")
    /\ UNCHANGED <<accounts, links, grants, mailed, access>>

\* findOneByEmail reads the password, the secret and the status in one query;
\* bcrypt accepts the password and the account is active.  A refusal changes
\* nothing.
SignIn(r, u) ==
    /\ At(r, "idle")
    /\ accounts[u].status = "active"
    /\ Reads(r, u, "askFactor")
    /\ UNCHANGED <<accounts, links, grants, mailed, access>>

\* __Validate2FAUser then reads user_security: with a second factor the login
\* ends here, with twoFactorRequired and, at most, an OTP in the mail.
AskFactor(r) ==
    /\ At(r, "askFactor")
    /\ IF accounts[req[r].user].factor = "on" THEN Done(r) ELSE Goto(r, "issue")
    /\ UNCHANGED <<accounts, links, grants, mailed, access>>

\* verify2fa is a request of its own, for any user: findById reads the row, and
\* neither the password nor the status is looked at ...
Verify2fa(r, u) ==
    /\ At(r, "idle")
    /\ accounts[u].status # "absent"
    /\ Reads(r, u, "checkFactor")
    /\ UNCHANGED <<accounts, links, grants, mailed, access>>

\* ... only the code, which is an app's, an OTP or a recovery code.
CheckFactor(r) ==
    /\ At(r, "checkFactor")
    /\ accounts[req[r].user].factor # "none"
    /\ Goto(r, "issue")
    /\ UNCHANGED <<accounts, links, grants, mailed, access>>

\* validateOAuthUser finds the account by its provider or its address, whatever
\* its status.  An account it creates has no password, and is not modelled here.
LoginWithOauth(r, u) ==
    /\ At(r, "idle")
    /\ accounts[u].status # "absent"
    /\ Reads(r, u, "issueProvider")
    /\ UNCHANGED <<accounts, links, grants, mailed, access>>

\* A token inserted now for u, by a request that read another password than the
\* current one, is one no logout of the change will read.
Unseen(u, password) ==
    /\ password # accounts[u].password
    /\ ~ \E q \in Request : req[q].user = u /\ At(q, "mailChange")

\* A response with an access token reaches its client, or does not.
Delivers(a) == access' \in {access, access \cup {a}}

\* The session and its first refresh token are committed.
OpensGrant(r, provider) ==
    \E g \in FreeGrants :
        grants' = [grants EXCEPT ![g] =
          [state |-> "live", user |-> req[r].user, password |-> req[r].password,
           provider |-> provider, excused |-> Unseen(req[r].user, req[r].password)]]

\* The transaction of a login or a verify2fa commits, and the response may reach
\* the client.
Issue(r) ==
    /\ At(r, "issue")
    /\ OpensGrant(r, FALSE)
    /\ Delivers([user |-> req[r].user, secret |-> req[r].secret, password |-> req[r].password])
    /\ Done(r)
    /\ UNCHANGED <<accounts, links, mailed>>

\* An OAuth login redirects with a refresh token and no access token.
IssueProvider(r) ==
    /\ At(r, "issueProvider")
    /\ OpensGrant(r, TRUE)
    /\ Done(r)
    /\ UNCHANGED <<accounts, links, mailed, access>>

(***************************************************************************)
(* enable2fa, confirm2fa and disable2fa, as far as sign-ins can tell.      *)
(***************************************************************************)

\* The guard accepts an access token signed with the current secret.
ChangeFactor(r, a) ==
    /\ At(r, "idle")
    /\ Accepts(a)
    /\ Begin(r, a.user, "saveFactor")
    /\ UNCHANGED <<accounts, links, grants, mailed, access>>

\* enable2fa stores a factor, confirm2fa turns the stored one on, and disable2fa
\* leaves the recovery codes.
SaveFactor(r) ==
    /\ At(r, "saveFactor")
    /\ accounts' = [accounts EXCEPT ![req[r].user].factor =
                       IF @ = "stored" THEN "on" ELSE "stored"]
    /\ Done(r)
    /\ UNCHANGED <<links, grants, mailed, access>>

(***************************************************************************)
(* refreshToken, as far as passwords and secrets go.                       *)
(***************************************************************************)

\* revokeRefreshToken finds the grant's token unrevoked.
OpenRefresh(r, g) ==
    /\ At(r, "idle")
    /\ Live(g)
    /\ req' = [req EXCEPT ![r] = [Idle EXCEPT !.pc = "rotate", !.user = grants[g].user, !.grant = g]]
    /\ UNCHANGED <<accounts, links, grants, mailed, access>>

\* The token is revoked, by another request before or by this one; then
\* findOne reads the secret.
Rotate(r) ==
    LET g == req[r].grant IN
    /\ At(r, "rotate")
    /\ grants' = [grants EXCEPT ![g].state = "rotating"]
    /\ req' = [req EXCEPT ![r].pc = "signAccess", ![r].password = grants[g].password,
                          ![r].secret = accounts[req[r].user].secret]
    /\ UNCHANGED <<accounts, links, mailed, access>>

\* The new token is inserted, a row that no logout in flight has read, and the
\* access token is signed.
SignAccess(r) ==
    /\ At(r, "signAccess")
    /\ grants' = [grants EXCEPT ![req[r].grant].state = "live",
                                ![req[r].grant].excused = @ \/ Unseen(req[r].user, req[r].password)]
    /\ Delivers([user |-> req[r].user, secret |-> req[r].secret, password |-> 0])
    /\ req' = [q \in Request |->
                 IF q = r THEN Idle ELSE [req[q] EXCEPT !.rows = @ \ {req[r].grant}]]
    /\ UNCHANGED <<accounts, links, mailed>>

(***************************************************************************)
(* resetPasswordToken and resetPasswordLogged.                             *)
(***************************************************************************)

OpenReset(r, l) ==
    /\ At(r, "idle")
    /\ Opens(l)
    /\ Carries(r, links[l].user, l, "updateCredential")
    /\ UNCHANGED <<accounts, links, grants, mailed, access>>

\* The guard is before it, too.
ChangePassword(r, a) ==
    /\ At(r, "idle")
    /\ Accepts(a)
    /\ Begin(r, a.user, "updateCredential")
    /\ UNCHANGED <<accounts, links, grants, mailed, access>>

\* The UPDATE of the credential row waits while another transaction holds it.
UpdateCredential(r) ==
    /\ At(r, "updateCredential")
    /\ \A other \in Request : ~ChangesPassword(other, req[r].user)
    /\ accounts[req[r].user].password < MaxChanges
    /\ Goto(r, "commitPassword")
    /\ UNCHANGED <<accounts, links, grants, mailed, access>>

\* Faulty: the user_secret is not replaced.
CommitPasswordOnly(r) ==
    LET l == req[r].link IN
    /\ At(r, "commitPassword")
    /\ accounts' = [accounts EXCEPT ![req[r].user].password = @ + 1]
    /\ links' = IF l = None THEN links
                ELSE [links EXCEPT ![l].state = "used", ![l].by = @ \cup {r}, ![l].uses = @ + 1]
    /\ Goto(r, "mailChange")
    /\ UNCHANGED <<grants, mailed, access>>

\* The new user_secret, the link marked used, and COMMIT.
CommitPassword(r) ==
    LET l == req[r].link IN
    /\ At(r, "commitPassword")
    /\ accounts' = [accounts EXCEPT ![req[r].user].password = @ + 1, ![req[r].user].secret = @ + 1]
    /\ links' = IF l = None THEN links
                ELSE [links EXCEPT ![l].state = "used", ![l].by = @ \cup {r}, ![l].uses = @ + 1]
    /\ Goto(r, "mailChange")
    /\ UNCHANGED <<grants, mailed, access>>

\* Faulty: the handler ends with the mail, without logoutAll.
MailChangeOnly(r) ==
    /\ At(r, "mailChange")
    /\ Done(r)
    /\ UNCHANGED <<accounts, links, grants, mailed, access>>

\* The mail has gone, and logoutAll reads what to revoke ...
SelectGrants(r) ==
    /\ At(r, "mailChange")
    /\ req' = [req EXCEPT ![r].pc = "revokeGrants",
                          ![r].rows = {g \in Grant : Live(g) /\ grants[g].user = req[r].user}]
    /\ UNCHANGED <<accounts, links, grants, mailed, access>>

\* ... and commits.
RevokeGrants(r) ==
    /\ At(r, "revokeGrants")
    /\ grants' = [g \in Grant |->
                    IF g \in req[r].rows /\ Live(g) THEN [grants[g] EXCEPT !.state = "ended"]
                                                    ELSE grants[g]]
    /\ Done(r)
    /\ UNCHANGED <<accounts, links, mailed, access>>

(***************************************************************************)
(* The environment.                                                        *)
(***************************************************************************)

\* A change r has committed without its logout: the grants it will not end.
Cut(r) == IF req[r].pc \in {"mailChange", "revokeGrants"}
          THEN {g \in Grant : grants[g].state \in {"live", "rotating"} /\ grants[g].user = req[r].user}
          ELSE {}

Excuse(S) == [g \in Grant |-> IF g \in S THEN [grants[g] EXCEPT !.excused = TRUE] ELSE grants[g]]

\* The awaited call of r throws - SQL, mail server, a password that does not
\* match its confirmation: an open transaction is rolled back.
Fail(r) ==
    /\ ~At(r, "idle")
    /\ Done(r)
    /\ grants' = Excuse(Cut(r))
    /\ UNCHANGED <<accounts, links, mailed, access>>

Crash ==
    /\ \E r \in Request : ~At(r, "idle")
    /\ req' = [r \in Request |-> Idle]
    /\ grants' = Excuse(UNION {Cut(r) : r \in Request})
    /\ UNCHANGED <<accounts, links, mailed, access>>

\* expiresAt has passed: 2 days or 3 hours after the link was stored, whatever
\* the requests have come to.
Expire(l) ==
    /\ links[l].state = "fresh"
    /\ links' = [links EXCEPT ![l].state = "expired"]
    /\ UNCHANGED <<accounts, grants, mailed, access, req>>

\* 15 or 30 minutes after it was signed.
ExpireAccess(a) ==
    /\ access' = access \ {a}
    /\ UNCHANGED <<accounts, links, grants, mailed, req>>

Start(r) ==
    \/ \E u \in User : Register(r, u) \/ InsertLink(r, u)
    \/ \E u \in User : SignIn(r, u) \/ Verify2fa(r, u) \/ LoginWithOauth(r, u)
    \/ \E m \in mailed : OpenVerification(r, m[2]) \/ OpenReset(r, m[2])
    \/ \E g \in Grant : OpenRefresh(r, g)
    \/ \E a \in access : ChangePassword(r, a) \/ ChangeFactor(r, a)

Step(r) ==
    \/ InsertUser(r) \/ CommitRegister(r) \/ Activate(r) \/ MarkUsed(r)
    \/ MailLink(r)
    \/ AskFactor(r) \/ CheckFactor(r) \/ Issue(r) \/ IssueProvider(r) \/ SaveFactor(r)
    \/ Rotate(r) \/ SignAccess(r)
    \/ UpdateCredential(r) \/ CommitPassword(r) \/ SelectGrants(r) \/ RevokeGrants(r)

Next ==
    \/ \E r \in Request : Start(r) \/ Step(r) \/ Fail(r)
    \/ \E l \in Link : Expire(l)
    \/ \E a \in access : ExpireAccess(a)
    \/ Crash

Spec == Init /\ [][Next]_vars

-----------------------------------------------------------------------------
(* Properties.                                                             *)

\* Rows and requests have the shape the tables and handlers give them, and
\* what is stored belongs to a stored account.
TypeOK ==
    /\ accounts \in [User -> AccountRow]
    /\ links \in [Link -> LinkRow]
    /\ grants \in [Grant -> GrantRow]
    /\ mailed \subseteq Kind \X Link
    /\ access \subseteq AccessToken
    /\ req \in [Request -> RequestState]
    /\ \A l \in Link : links[l].state # "absent" =>
          links[l].user \in User /\ accounts[links[l].user].status # "absent"
    /\ \A g \in Grant : grants[g].state # "absent" =>
          grants[g].user \in User /\ accounts[grants[g].user].status # "absent"

\* r will still end g: it has changed the password of g's user, and has not
\* read the sessions to end yet or has read this one.
WillEnd(r, g) ==
    /\ req[r].user = grants[g].user
    /\ \/ At(r, "mailChange")
       \/ At(r, "revokeGrants") /\ g \in req[r].rows

\* A change of password ends the sessions opened before it, however they were
\* opened: a session whose sign-in read the account under an earlier password -
\* for a login, the one it checked - was opened or refreshed by a request that
\* overlapped the change, or the change was cut short after its COMMIT, or is
\* about to end it.  A verify2fa that begins after the change is not such a
\* session, although the login before it may have been accepted on the old
\* password.
StaleGrantExplained ==
    \A g \in Grant : Live(g) /\ Stale(g) =>
        grants[g].excused \/ \E r \in Request : WillEnd(r, g)

\* An access token the guard accepts comes from a sign-in that read the account
\* under the current password - a login has been given that very password -
\* unless a refresh signed it: sign-ins sign with the secret they read before
\* bcrypt, the code and the transaction, a refresh with the one it finds.
AccessFollowsPassword ==
    \A a \in access : Accepts(a) => a.password \in {0, accounts[a.user].password}

\* A link sets a password again only for a request that opened it before it
\* was used: a slot that served one request after the other never does.
OneResetPerRequest == \A l \in Link : links[l].uses = Cardinality(links[l].by)

\* A reset link that is in a mail is in the table: it is stored first.
ResetMailIsStored == \A l \in Link : <<"reset", l>> \in mailed => links[l].state # "absent"

\* An account whose address has not been verified has no session but those a
\* provider vouched for.  login looks at the status, loginWithOauth does not, and
\* verify2fa does not either: a factor to verify is there only because a guard
\* has once found the account active.
GrantOnlyVerified ==
    \A g \in Grant : Live(g) /\ accounts[grants[g].user].status # "active" => grants[g].provider

\* The links with which a reset is under way.
Held == {<<r, req[r].link>> :
           r \in {q \in Request : /\ req[q].pc \in {"updateCredential", "commitPassword"}
                                  /\ req[q].link # None}}

\* The abstract specification the links implement.
Codes == INSTANCE OneTimeCodes WITH
    Code <- Link, Client <- Request,
    status <- [l \in Link |->
                 CASE links[l].state = "fresh" -> "good"
                   [] links[l].state = "absent" -> "absent"
                   [] OTHER -> "over"],
    holds <- Held,
    admitted <- [l \in Link |-> links[l].uses]

\* However registrations, verifications, resets and their rollbacks interleave,
\* the links move only as one-time codes do: a password is set only with a link
\* that was found unused, and by no request that comes after its use.
CodesSpec == Codes!Spec

=============================================================================
