---------------------------- MODULE OAuthAccounts ----------------------------
(***************************************************************************)
(* Sign-in through a provider, and the accounts at providers a user links  *)
(* and unlinks: AuthService.loginWithOauth, linkOauth and unlinkProvider,  *)
(* UsersService.validateOAuthUser, OAuthService and                        *)
(* RolesService.getNameRoleOrCreate (src/modules/auth/auth.service,        *)
(* users/users.service, users/oauth, roles).                               *)
(***************************************************************************)
EXTENDS Guards

VARIABLES
    links,  \* user_account_oauth
    roles   \* the rows of roles

oauthVars == <<links, roles>>

\* raced and told are history variables: the request that inserted the row was
\* overlapped, and had answered that the provider is another user's.
LinkRow == [identity : Identity \cup {None}, user : User \cup {None},
            raced : BOOLEAN, told : BOOLEAN]
NoLink == [identity |-> None, user |-> None, raced |-> FALSE, told |-> FALSE]

Linked(k) == links[k].identity # None
Rows(i) == {k \in Link : links[k].identity = i}

OAuthInit ==
    /\ links = [k \in Link |-> NoLink]
    /\ roles \in {Role, Role \ {DefaultRole}}
    /\ \A u \in User : Exists(u) => users[u].role \in roles

FreeLinks == {k \in Link : ~Linked(k)}
Inserting == {r \in Request : req[r].pc \in {"loginLink", "loginEmail", "loginRole", "loginNewRole",
                                            "loginRow", "loginInsert",
                                            "linkUser", "linkRow", "linkInsert"}}
RoomForLink == Room(scenario.links, Link \ FreeLinks, Inserting)

Insert(r, i, u) ==
    \E k \in FreeLinks :
        links' = [links EXCEPT ![k] = [identity |-> i, user |-> u, raced |-> r \in met,
                                       told |-> req[r].told]]

-----------------------------------------------------------------------------
(* loginWithOauth, its first transaction.                                  *)

\* e is the address in the profile the provider sends.
OauthLogin(r, i, e) ==
    /\ RoomForLink
    /\ Start(r, [Idle EXCEPT !.pc = "loginLink", !.tx = TRUE, !.item = i, !.email = e])
    /\ KeepRows /\ UNCHANGED oauthVars

\* getUserWithProviderAndProviderId: the user of one of the rows; a row whose
\* user is deleted comes without him.
LoginLink(r) ==
    /\ At(r, "loginLink") /\ Free
    /\ \/ \E k \in Rows(req[r].item) :
            /\ Visible(links[k].user)
            /\ req' = [req EXCEPT ![r].pc = "loginRow", ![r].user = links[k].user]
            /\ UNCHANGED met
       \/ /\ \/ Rows(req[r].item) = {}
             \/ \E k \in Rows(req[r].item) : ~Visible(links[k].user)
          /\ Goto(r, "loginEmail")
    /\ KeepRows /\ UNCHANGED oauthVars

LoginEmail(r) ==
    LET e == req[r].email IN
    /\ At(r, "loginEmail") /\ Free
    /\ \/ \E u \in User :
            /\ Visible(u) /\ users[u].email = e
            /\ req' = [req EXCEPT ![r].pc = "loginRow", ![r].user = u]
            /\ UNCHANGED met
       \/ /\ \A u \in User : ~(Visible(u) /\ users[u].email = e)
          /\ Goto(r, "loginRole")
    /\ KeepRows /\ UNCHANGED oauthVars

\* getNameRoleOrCreate: the role is looked up, and inserted when there is none.
LoginRole(r) ==
    /\ At(r, "loginRole") /\ Free
    /\ IF DefaultRole \in roles
       THEN req' = [req EXCEPT ![r].pc = "loginRow", ![r].fresh = TRUE] /\ UNCHANGED met
       ELSE Goto(r, "loginNewRole")
    /\ KeepRows /\ UNCHANGED oauthVars

\* The name is unique: of two requests that insert it one fails.
LoginNewRole(r) ==
    /\ At(r, "loginNewRole") /\ Free
    /\ IF DefaultRole \in roles
       THEN Done(r)
       ELSE req' = [req EXCEPT ![r].pc = "loginRow", ![r].fresh = TRUE] /\ UNCHANGED met
    /\ roles' = roles \cup {DefaultRole}
    /\ KeepRows /\ UNCHANGED links

\* OAuthService.create looks for a row on a connection of its own; with one
\* there is nothing to insert, whoever its user is.
LoginRow(r) ==
    /\ At(r, "loginRow") /\ Free
    /\ Goto(r, IF Rows(req[r].item) = {} THEN "loginInsert" ELSE "loginCommit")
    /\ KeepRows /\ UNCHANGED oauthVars

\* A new user and the row of the provider become visible with COMMIT, or
\* neither does: the address may be taken (and, the bound, there may be no
\* user left).
LoginCommit(r) ==
    LET i == req[r].item
        e == req[r].email
        Commit(u) == /\ IF At(r, "loginInsert") THEN Insert(r, i, u) ELSE UNCHANGED links
                     /\ req' = [req EXCEPT ![r] = [Idle EXCEPT !.pc = "sessionBegin", !.user = u]]
                     /\ UNCHANGED met
    IN
    /\ req[r].pc \in {"loginInsert", "loginCommit"}
    /\ \/ /\ ~req[r].fresh
          /\ Commit(req[r].user)
          /\ KeepRows
       \/ /\ req[r].fresh /\ ~ \E v \in User : Exists(v) /\ users[v].email = e
          /\ \E u \in User : /\ ~Exists(u)
                             /\ Put(u, NewUser(e, DefaultRole))
                             /\ Commit(u)
       \/ /\ req[r].fresh
          /\ \/ \E v \in User : Exists(v) /\ users[v].email = e
             \/ \A u \in User : Exists(u)
          /\ Done(r)
          /\ KeepRows /\ UNCHANGED links
    /\ UNCHANGED roles

-----------------------------------------------------------------------------
(* Its second transaction, the session: what the rows of a session are is  *)
(* AuthSessions' subject, here it is a transaction that reads outside.     *)

SessionBegin(r) ==
    /\ At(r, "sessionBegin")
    /\ Enter(r, "sessionUser")
    /\ KeepRows /\ UNCHANGED oauthVars

\* findOne and the look-up of the session, each on a connection of its own,
\* then COMMIT; a user deleted meanwhile fails the request.
SessionUser(r) ==
    /\ At(r, "sessionUser") /\ Free
    /\ Done(r)
    /\ KeepRows /\ UNCHANGED oauthVars

-----------------------------------------------------------------------------
(* linkOauth and unlinkProvider.                                           *)

\* Faulty: the link is made without looking for a row of the provider.
LinkRowBlind(r) ==
    /\ At(r, "linkRow") /\ Free
    /\ Goto(r, "linkInsert")
    /\ KeepRows /\ UNCHANGED oauthVars

\* A provider that is another user's is answered with the error, and the
\* handler goes on.  u is the user named in the state the provider sends back.
LinkProvider(r, u, i) ==
    /\ RoomForLink
    /\ \E told \in BOOLEAN :
         /\ IF told THEN \E k \in Rows(i) : Visible(links[k].user) /\ links[k].user # u
            ELSE Rows(i) = {} \/ \E k \in Rows(i) : Visible(links[k].user) => links[k].user = u
         /\ Start(r, [Idle EXCEPT !.pc = "linkUser", !.user = u, !.item = i, !.told = told])
    /\ KeepRows /\ UNCHANGED oauthVars

LinkUser(r) ==
    /\ At(r, "linkUser") /\ Free
    /\ IF Visible(req[r].user) THEN Goto(r, "linkRow") ELSE Done(r)
    /\ KeepRows /\ UNCHANGED oauthVars

\* OAuthService.create: no second row for the provider.
LinkRowLookup(r) ==
    /\ At(r, "linkRow") /\ Free
    /\ IF Rows(req[r].item) = {} THEN Goto(r, "linkInsert") ELSE Done(r)
    /\ KeepRows /\ UNCHANGED oauthVars

LinkInsert(r) ==
    /\ At(r, "linkInsert") /\ Free
    /\ Insert(r, req[r].item, req[r].user)
    /\ Done(r)
    /\ KeepRows /\ UNCHANGED roles

UnlinkProvider(r, u) ==
    /\ Call(r, Plain, u, u, [Idle EXCEPT !.pc = "unlink"])
    /\ KeepRows /\ UNCHANGED oauthVars

UnlinkFind(r) ==
    /\ At(r, "unlink") /\ Free
    /\ IF \E k \in Link : links[k].user = req[r].user THEN Goto(r, "unlinkDelete") ELSE Done(r)
    /\ KeepRows /\ UNCHANGED oauthVars

\* Faulty: the rows stay, without a user.
UnlinkDeleteHalf(r) ==
    /\ At(r, "unlinkDelete") /\ Free
    /\ links' = [k \in Link |-> IF links[k].user = req[r].user THEN [links[k] EXCEPT !.user = None]
                                ELSE links[k]]
    /\ Done(r)
    /\ KeepRows /\ UNCHANGED roles

\* Every row of the user with this provider, not the one found.
UnlinkDelete(r) ==
    /\ At(r, "unlinkDelete") /\ Free
    /\ links' = [k \in Link |-> IF links[k].user = req[r].user THEN NoLink ELSE links[k]]
    /\ Done(r)
    /\ KeepRows /\ UNCHANGED roles

OAuthStart(r) ==
    \/ \E i \in Identity, e \in Email : OauthLogin(r, i, e)
    \/ \E u \in User, i \in Identity : LinkProvider(r, u, i)
    \/ \E u \in User : UnlinkProvider(r, u)

OAuthStep(r) ==
    \/ LoginLink(r) \/ LoginEmail(r) \/ LoginRole(r) \/ LoginNewRole(r) \/ LoginRow(r)
    \/ LoginCommit(r) \/ SessionBegin(r) \/ SessionUser(r)
    \/ LinkUser(r) \/ LinkRowLookup(r) \/ LinkInsert(r)
    \/ UnlinkFind(r) \/ UnlinkDelete(r)

=============================================================================
