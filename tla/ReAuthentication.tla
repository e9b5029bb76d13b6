--------------------------- MODULE ReAuthentication ---------------------------
(***************************************************************************)
(* Re-authentication and what it protects: ReAuthService, ReAuthGuard, and *)
(* behind the guard the change of a known password                         *)
(* (resetPasswordLogged), which goes by the address in the access token    *)
(* (src/modules/auth/re-auth, auth/guards/re-auth.guard,                   *)
(* auth/auth.service, users/credentials).                                  *)
(***************************************************************************)
EXTENDS Guards

VARIABLES
    passwords,  \* user_account_credentials: whose choice the password is, None without a row
    reauth      \* auth_reauth_tokens

reauthVars == <<passwords, reauth>>

\* passed and raced are history variables: the guard has let the token pass, and
\* the request that inserted the row was overlapped.
TokenRow == [user : User \cup {None}, revoked : BOOLEAN, passed : BOOLEAN, raced : BOOLEAN]
NoToken == [user |-> None, revoked |-> FALSE, passed |-> FALSE, raced |-> FALSE]

Given(t) == reauth[t].user # None
Unrevoked == {t \in Token : Given(t) /\ ~reauth[t].revoked}

Revoked(ts) == [t \in Token |-> [reauth[t] EXCEPT !.revoked = @ \/ t \in ts]]

ReAuthInit ==
    /\ passwords = [u \in User |-> IF Exists(u) THEN u ELSE None]
    /\ reauth = [t \in Token |-> NoToken]

FreshTokens == {t \in Token : ~Given(t)}
Proving == {r \in Request : req[r].pc \in {"reauthPassword", "reauthRevoke", "reauthInsert"}}

-----------------------------------------------------------------------------
(* reauthenticate.                                                         *)

Reauthenticate(r, u) ==
    /\ Room(scenario.tokens, Token \ FreshTokens, Proving)
    /\ Call(r, Plain, u, u, [Idle EXCEPT !.pc = "reauthPassword"])
    /\ KeepRows /\ UNCHANGED reauthVars

\* validateReathPassword: the user knows the password that is its own choice,
\* and gives an empty one when there is none.
ReauthPassword(r) ==
    /\ At(r, "reauthPassword") /\ Free
    /\ \/ passwords[req[r].by] \in {req[r].by, None} /\ Goto(r, "reauthRevoke")
       \/ Done(r)
    /\ KeepRows /\ UNCHANGED reauthVars

\* Faulty: the tokens given before are left.
ReauthRevokeNone(r) ==
    /\ At(r, "reauthRevoke") /\ Free
    /\ Goto(r, "reauthInsert")
    /\ KeepRows /\ UNCHANGED reauthVars

\* One UPDATE of the tokens of the user.
ReauthRevoke(r) ==
    /\ At(r, "reauthRevoke") /\ Free
    /\ reauth' = Revoked({t \in Token : reauth[t].user = req[r].by})
    /\ Goto(r, "reauthInsert")
    /\ KeepRows /\ UNCHANGED passwords

ReauthInsert(r) ==
    /\ At(r, "reauthInsert") /\ Free
    /\ \E t \in FreshTokens :
         reauth' = [reauth EXCEPT ![t] = [NoToken EXCEPT !.user = req[r].by, !.raced = r \in met]]
    /\ Done(r)
    /\ KeepRows /\ UNCHANGED passwords

-----------------------------------------------------------------------------
(* ReAuthGuard, on the way to change-password and 2fa/enable.  It passes   *)
(* on user.id, and the claims only have sub: the queries of consumeToken   *)
(* are without a user.                                                     *)

\* The body carries a password, the claims the address it is to be set for.
Protected(r, by, c, t) ==
    /\ Given(t) /\ AuthGuard(by, c)
    /\ Start(r, [Idle EXCEPT !.pc = "guardFind", !.by = by, !.email = c.email, !.item = t])
    /\ KeepRows /\ UNCHANGED reauthVars

\* Faulty: a revoked token is found too.
GuardFindAny(r) ==
    /\ At(r, "guardFind") /\ Free
    /\ Goto(r, "guardList") \/ Done(r)
    /\ KeepRows /\ UNCHANGED reauthVars

\* Its expiry is a refusal that may always come instead.
GuardFind(r) ==
    /\ At(r, "guardFind") /\ Free
    /\ (req[r].item \in Unrevoked /\ Goto(r, "guardList")) \/ Done(r)
    /\ KeepRows /\ UNCHANGED reauthVars

Pass(r, rows) == [rows EXCEPT ![req[r].item].passed = TRUE]

\* With no token left to revoke the request passes all the same.
GuardList(r) ==
    /\ At(r, "guardList") /\ Free
    /\ \/ /\ Unrevoked = {}
          /\ reauth' = Pass(r, reauth)
          /\ Goto(r, "pwdBegin")
       \/ /\ Unrevoked # {}
          /\ req' = [req EXCEPT ![r].pc = "guardSave", ![r].rows = Unrevoked]
          /\ UNCHANGED <<met, reauth>>
    /\ KeepRows /\ UNCHANGED passwords

\* Faulty: the token stays as it is.
GuardSaveNothing(r) ==
    /\ At(r, "guardSave") /\ Free
    /\ reauth' = Pass(r, reauth)
    /\ req' = [req EXCEPT ![r].pc = "pwdBegin", ![r].rows = {}]
    /\ UNCHANGED met
    /\ KeepRows /\ UNCHANGED passwords

\* The rows that were read are saved, and the handler begins.
GuardSave(r) ==
    /\ At(r, "guardSave") /\ Free
    /\ reauth' = Pass(r, Revoked(req[r].rows))
    /\ req' = [req EXCEPT ![r].pc = "pwdBegin", ![r].rows = {}]
    /\ UNCHANGED met
    /\ KeepRows /\ UNCHANGED passwords

-----------------------------------------------------------------------------
(* resetPasswordLogged; the other handler, enable2fa, is TwoFactor's.      *)

\* Secrets are random uuids: a new one is none the user has had.
FreshSecrets(u) == {n \in 0..MaxSecret : \A c \in access[u] : c.secret # n}

\* The bound: there is a secret left.
PwdBegin(r) ==
    /\ At(r, "pwdBegin")
    /\ \/ FreshSecrets(req[r].by) # {} /\ Enter(r, "pwdCredential")
       \/ Done(r)
    /\ KeepRows /\ UNCHANGED reauthVars

\* Faulty: the look-up is without the address.
OwnerOfAny(e) == {v \in User : Visible(v)}

OwnerOf(e) == {v \in User : Visible(v) /\ users[v].email = e}

\* The account the address is found to be of; user keeps it.
PwdCredential(r) ==
    /\ At(r, "pwdCredential") /\ Free
    /\ \/ \E v \in OwnerOf(req[r].email) :
            /\ passwords[v] # None
            /\ req' = [req EXCEPT ![r].pc = "pwdWrite", ![r].user = v]
            /\ UNCHANGED met
       \/ /\ \A v \in OwnerOf(req[r].email) : passwords[v] = None
          /\ Goto(r, "pwdUser")
    /\ KeepRows /\ UNCHANGED reauthVars

\* Without credentials they are created, for the user who has this address ...
PwdUser(r) ==
    /\ At(r, "pwdUser") /\ Free
    /\ \/ \E v \in OwnerOf(req[r].email) :
            /\ req' = [req EXCEPT ![r].pc = "pwdNew", ![r].user = v]
            /\ UNCHANGED met
       \/ OwnerOf(req[r].email) = {} /\ Done(r)
    /\ KeepRows /\ UNCHANGED reauthVars

\* ... and does not have any.
PwdNew(r) ==
    /\ At(r, "pwdNew") /\ Free
    /\ \/ /\ passwords[req[r].user] = None
          /\ req' = [req EXCEPT ![r].pc = "pwdWrite", ![r].fresh = TRUE]
          /\ UNCHANGED met
       \/ passwords[req[r].user] # None /\ Done(r)
    /\ KeepRows /\ UNCHANGED reauthVars

\* The password of the account found and the secret of the one that asked
\* commit; a second row of credentials for one user is refused by its index.
PwdWrite(r) ==
    LET v == req[r].user
        by == req[r].by
    IN
    /\ At(r, "pwdWrite")
    /\ \/ /\ req[r].fresh => passwords[v] = None
          /\ \E n \in FreshSecrets(by) : Put(by, [users[by] EXCEPT !.secret = n])
          /\ passwords' = [passwords EXCEPT ![v] = by]
       \/ /\ (req[r].fresh /\ passwords[v] # None) \/ FreshSecrets(by) = {}
          /\ KeepRows /\ UNCHANGED passwords
    /\ Done(r)
    /\ UNCHANGED reauth

ReAuthStart(r) ==
    \/ \E u \in User : Reauthenticate(r, u)
    \/ \E by \in User, c \in Claim, t \in Token : Protected(r, by, c, t)

ReAuthStep(r) ==
    \/ ReauthPassword(r) \/ ReauthRevoke(r) \/ ReauthInsert(r)
    \/ GuardFind(r) \/ GuardList(r) \/ GuardSave(r)
    \/ PwdBegin(r) \/ PwdCredential(r) \/ PwdUser(r) \/ PwdNew(r) \/ PwdWrite(r)

=============================================================================
