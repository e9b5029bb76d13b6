------------------------------- MODULE Accounts -------------------------------
(***************************************************************************)
(* The accounts as a whole: EmailChange, OAuthAccounts and                 *)
(* ReAuthentication on one users table and one connection pool, with the   *)
(* administrator's handlers changeRole and remove                          *)
(* (src/modules/users/users.service).                                      *)
(***************************************************************************)
EXTENDS EmailChange, OAuthAccounts, ReAuthentication

vars == <<rowVars, emailVars, oauthVars, reauthVars>>

Init == RowsInit /\ EmailInit /\ OAuthInit /\ ReAuthInit

-----------------------------------------------------------------------------
(* changeRole and remove.                                                  *)

ChangeRole(r, by, u, role) ==
    /\ role \in roles
    /\ Call(r, ChangeRoleEndpoint, by, u, [Idle EXCEPT !.pc = "changeRole", !.role = role])
    /\ KeepRows

\* findOne of the user (and of the role, which nothing deletes).
ChangeRoleFind(r) ==
    /\ At(r, "changeRole") /\ Free
    /\ \/ /\ Visible(req[r].user)
          /\ req' = [req EXCEPT ![r].pc = "roleSave", ![r].seen = users[req[r].user]]
          /\ UNCHANGED met
       \/ ~Visible(req[r].user) /\ Done(r)
    /\ KeepRows

\* save() of the user that was read: the columns of findOne's select list, the
\* address and the secret among them, are written back as they were.
RoleSave(r) ==
    LET u == req[r].user
        seen == req[r].seen
    IN
    /\ At(r, "roleSave") /\ Free
    /\ IF Taken(seen.email, u) THEN KeepRows
       ELSE Put(u, [users[u] EXCEPT !.role = req[r].role, !.email = seen.email, !.secret = seen.secret])
    /\ Done(r)

Remove(r, by, u) ==
    /\ Call(r, RemoveEndpoint, by, u, [Idle EXCEPT !.pc = "remove"])
    /\ KeepRows

\* softDelete.  The findOne before it is not awaited, so a user who is not
\* there ends the process.
RemoveRow(r) ==
    LET u == req[r].user IN
    /\ At(r, "remove") /\ Free
    /\ \/ Visible(u) /\ Put(u, [users[u] EXCEPT !.deleted = TRUE]) /\ Done(r)
       \/ ~Visible(u) /\ KeepRows /\ Exit

RoleStep(r) == ChangeRoleFind(r) \/ RoleSave(r) \/ RemoveRow(r)

-----------------------------------------------------------------------------
Step(r) ==
    \/ EmailStep(r) /\ UNCHANGED <<oauthVars, reauthVars>>
    \/ OAuthStep(r) /\ UNCHANGED <<emailVars, reauthVars>>
    \/ ReAuthStep(r) /\ UNCHANGED <<emailVars, oauthVars>>
    \/ RoleStep(r) /\ UNCHANGED <<emailVars, oauthVars, reauthVars>>

Begin(r) ==
    \/ Called("email") /\ EmailStart(r) /\ UNCHANGED <<oauthVars, reauthVars>>
    \/ Called("oauth") /\ OAuthStart(r) /\ UNCHANGED <<emailVars, reauthVars>>
    \/ Called("reauth") /\ ReAuthStart(r) /\ UNCHANGED <<emailVars, oauthVars>>
    \/ /\ \/ Called("role") /\ \E by, u \in User, role \in Role : ChangeRole(r, by, u, role)
          \/ Called("remove") /\ \E by, u \in User : Remove(r, by, u)
       /\ UNCHANGED <<emailVars, oauthVars, reauthVars>>

Next == UNCHANGED scenario /\ \E r \in Request : Begin(r) \/ Step(r)

Spec == Init /\ [][Next]_vars

-----------------------------------------------------------------------------
(* Properties.                                                             *)

\* Every variable has its type, a row is whole or absent, and a request that has
\* ended has left nothing behind.
TypeOK ==
    /\ users \in [User -> UserRow]
    /\ \A u \in User : (users[u].role = None) = (users[u].email = None)
    /\ access \in [User -> SUBSET Claim]
    /\ req \in [Request -> RequestState]
    /\ \A r \in Request : At(r, "idle") => req[r] = Idle
    /\ met \subseteq Busy /\ scenario \in Scenarios
    /\ changes \in [Change -> ChangeRow] /\ logs \in [Log -> LogRow]
    /\ inbox \subseteq Change \cup Log
    /\ links \in [Link -> LinkRow] /\ roles \subseteq Role
    /\ \A k \in Link : (links[k].user = None) = (links[k].identity = None)
    /\ passwords \in [User -> User \cup {None}]
    /\ reauth \in [Token -> TokenRow]

Address == [u \in User |-> users[u].email]
Confirmed == [u \in User |-> ({users[u].born} \ {None}) \cup
                {changes[q].new : q \in {p \in Change : changes[p].user = u /\ changes[p].used}}]
Offered == [u \in User |-> {<<changes[q].old, changes[q].new>> :
                              q \in {p \in Change : changes[p].user = u}}]
Ledger == INSTANCE AddressLedger WITH
    address <- Address, confirmed <- Confirmed, offered <- Offered

\* Through update, both confirmations, changeRole and every overlap of them, an
\* account keeps to the addresses that were confirmed for it by a link that went
\* to an address confirmed before, and no two accounts share one.
AddressSpec == Ledger!Spec

\* A change of address is confirmed once, unless two confirmations of it overlap:
\* the used flag is tested outside the transaction that sets it.
SecondConfirmationOnlyByRace ==
    \A l, m \in Log : l # m /\ Logged(l) /\ logs[l].change = logs[m].change
                        => logs[l].raced /\ logs[m].raced

\* A provider's account is linked once, unless the requests that link it overlap;
\* a link that was answered with "already linked" is never made unless one did.
LinkOnlyByRace ==
    /\ \A j, k \in Link : j # k /\ Linked(j) /\ links[j].identity = links[k].identity
                            => links[j].raced \/ links[k].raced
    /\ \A k \in Link : links[k].told => links[k].raced

Means(labels) == \E r \in Request : req'[r] # req[r] /\ (req[r].pc \in labels \/ r \in met)

\* A column of a user changes only by the request it is for, unless the request
\* that changes it was overlapped: changeRole, the rollback and an update of
\* other columns write back what they have read.
ColumnsKept ==
    [][\A u \in User : Exists(u) =>
         /\ users'[u].email # users[u].email => Means({"confirmWrite", "rollbackWrite"})
         /\ users'[u].role # users[u].role => Means({"roleSave"})
         /\ users'[u].deleted # users[u].deleted => Means({"remove"})
         /\ users'[u].secret # users[u].secret => Means({"pwdWrite"})]_vars

\* The row of a user changes only by a link from its mail or its provider, by the
\* user, or for one who has been super_admin or has had every permission: what the
\* guards let through on the claims of an old token included.
OthersOnlyByAdmin ==
    [][\A u \in User : Exists(u) /\ users'[u] # users[u] =>
         \E r \in Request :
            /\ req'[r] # req[r]
            /\ \/ req[r].by \in {None, u}
               \/ \E c \in access[req[r].by] : c.role = SuperAdmin \/ "all" \in Grants[c.role]]_vars

\* A user sets the password of another only when the address in its token has
\* since become the other's: resetPasswordLogged goes by that address.
PasswordFollowsAddress ==
    \A u, v \in User : u # v /\ passwords[v] = u =>
        \E c \in access[u], d \in access[v] : c.email = d.email

\* A token the guard has let pass is revoked from then on.
PassedTokenIsRevoked == \A t \in Token : reauth[t].passed => reauth[t].revoked

\* It passes a second time only with a request that was overlapped.
SecondPassOnlyByRace ==
    [][\A r \in Request : req[r].pc \in {"guardList", "guardSave"} /\ req'[r].pc = "pwdBegin"
                            /\ reauth[req[r].item].passed => r \in met]_vars

\* A user has one unrevoked token, unless the calls that gave them overlapped.
OneLiveTokenUnlessRaced ==
    \A s, t \in Unrevoked : s # t /\ reauth[s].user = reauth[t].user
                             => reauth[s].raced \/ reauth[t].raced

\* The steps of a transaction that query outside it, and those that do not.
Waiting == {"confirmUser", "loginLink", "loginEmail", "loginRole", "loginNewRole", "loginRow",
            "sessionUser", "pwdCredential", "pwdUser", "pwdNew"}
Unaided == {"updateCommit", "confirmWrite", "loginInsert", "loginCommit", "pwdWrite"}

\* Every connection is held by a transaction that waits for another one: the
\* handlers that query outside the transaction they are in.
Wedged == ~Free /\ \A r \in Holding : req[r].pc \in Waiting

\* No request is stuck while the pool is not.
StuckOnlyIfWedged == Busy # {} /\ (\A r \in Busy : ~ENABLED Step(r)) => Wedged

\* However a request ends, answered, refused, failed or lost, its connection goes
\* back: the pool is never overdrawn, and unless it is wedged there is a request
\* that has the connection its next step needs.
PoolServes ==
    /\ Cardinality(Holding) <= PoolSize
    /\ Busy # {} /\ ~Wedged => \E r \in Busy : Free \/ req[r].pc \in Unaided

\* What ROADMAP.md says of the change of a password: the guard lets a request
\* pass with a token its user has been given for proving its password.
PassedWithOwnToken ==
    [][\A r \in Request : req[r].pc \in {"guardList", "guardSave"} /\ req'[r].pc = "pwdBegin"
                            => reauth[req[r].item].user = req[r].by]_vars

=============================================================================
