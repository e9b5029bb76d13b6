------------------------------- MODULE Guards -------------------------------
(***************************************************************************)
(* What stands before a handler: the guards that @Auth composes            *)
(* (src/modules/auth/decorators/auth.decorator, src/modules/auth/guards).  *)
(* They decide by the claims of the access token, so by the role of the    *)
(* moment it was signed at; only its user and the secret are looked up.    *)
(***************************************************************************)
EXTENDS AccountRows

CONSTANTS
    Grants,     \* the permissions of each role
    SuperAdmin  \* the role named super_admin

ASSUME GuardsAssumption == SuperAdmin \in Role /\ Grants \in [Role -> SUBSET STRING]

-----------------------------------------------------------------------------
\* The declarations in the controllers.
Endpoint == [permission : STRING, allowSelf : BOOLEAN, superadminOnly : BOOLEAN]

Plain == [permission |-> "", allowSelf |-> FALSE, superadminOnly |-> FALSE]
UpdateEndpoint == [Plain EXCEPT !.permission = "users:update:id", !.allowSelf = TRUE]
RemoveEndpoint == [Plain EXCEPT !.permission = "users:delete:id", !.allowSelf = TRUE]
ChangeRoleEndpoint == [Plain EXCEPT !.permission = "users:update:id:role", !.superadminOnly = TRUE]

-----------------------------------------------------------------------------
\* The signature verifies with the secret the user has now.
AuthGuard(by, c) == Visible(by) /\ c \in access[by] /\ c.secret = users[by].secret

PermissionGuard(e, c) ==
    \/ e.permission = ""
    \/ c.role = SuperAdmin
    \/ Grants[c.role] \cap {"all", e.permission} # {}

\* Faulty: the permission is enough, whoever the user in the path is.
UserSelfOrAdminGuardOff(e, by, c, u) == TRUE

\* The role in the claims is an object: comparing it to the name never holds.
UserSelfOrAdminGuard(e, by, c, u) ==
    e.allowSelf => (u = by \/ "all" \in Grants[c.role])

SuperadminGuard(e, c) == e.superadminOnly => c.role = SuperAdmin

Passes(e, by, u) ==
    \E c \in access[by] :
        /\ AuthGuard(by, c) /\ PermissionGuard(e, c)
        /\ UserSelfOrAdminGuard(e, by, c, u) /\ SuperadminGuard(e, c)

\* A request on the row of u with a token of by: the guards' query is its first.
Call(r, e, by, u, state) ==
    /\ Passes(e, by, u)
    /\ Start(r, [state EXCEPT !.by = by, !.user = u])

=============================================================================
