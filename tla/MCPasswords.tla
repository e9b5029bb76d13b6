----------------------------- MODULE MCPasswords -----------------------------
(* Passwords, instantiated for TLC. *)
EXTENDS Passwords, TLC

\* Slots, links and grants are interchangeable: nothing singles one out.
Symmetry == Permutations(Request) \cup Permutations(Link) \cup Permutations(Grant)

\* The access tokens in clients' hands at one time: another of the same user
\* opens no door that one does not.
FewTokens == Cardinality(access) <= 1

\* What distinguishes two states: not the history of a session that is over and
\* that no request is renewing, nor the slots that used a link.  No action's guard
\* and no property of the run looks at either.
Seen == <<accounts,
          [l \in Link |-> [links[l] EXCEPT !.by = {}]],
          [g \in Grant |-> IF Live(g) \/ \E r \in Request : req[r].grant = g
                           THEN grants[g] ELSE NoGrant],
          mailed, access, req>>

=============================================================================
