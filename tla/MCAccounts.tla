----------------------------- MODULE MCAccounts -----------------------------
(* Accounts, instantiated for TLC. *)
EXTENDS Accounts, TLC

CONSTANTS u1, u2, a, b, c, admin, user

MCFirstRole == [u \in User |-> IF u = u1 THEN admin ELSE user]
MCGrants == [r \in Role |-> IF r = admin THEN {"all"} ELSE {"users:update:id", "users:delete:id"}]

Both == [u \in User |-> IF u = u1 THEN a ELSE b]
Moved == [u \in User |-> IF u = u1 THEN c ELSE a]
One == [u \in User |-> IF u = u1 THEN a ELSE None]

Case(kinds, first, n) ==
    [kinds |-> kinds, first |-> first, past |-> [u \in User |-> IF first[u] = c THEN {a} ELSE {}],
     changes |-> n[1], logs |-> n[2], links |-> n[3], tokens |-> n[4]]

MCScenarios == {
    Case({"email", "remove"}, Both, <<2, 2, 0, 0>>),
    Case({"email", "role"}, Both, <<1, 1, 0, 0>>),
    Case({"email", "reauth"}, Moved, <<1, 1, 0, 1>>),
    Case({"reauth"}, Moved, <<0, 0, 0, 2>>),
    Case({"reauth"}, Both, <<0, 0, 0, 2>>),
    Case({"oauth", "remove"}, One, <<0, 0, 2, 0>>),
    Case({"oauth", "reauth"}, One, <<0, 0, 1, 1>>)}

ReAuthScenarios == {Case({"reauth"}, Both, <<0, 0, 0, 2>>)}

Symmetry == Permutations(Request) \cup Permutations(Token) \cup Permutations(Link)
            \cup Permutations(Change) \cup Permutations(Log)

=============================================================================
