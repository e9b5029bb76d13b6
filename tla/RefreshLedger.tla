---------------------------- MODULE RefreshLedger ----------------------------
(***************************************************************************)
(* What the refresh token table promises, whatever the requests that write *)
(* it do: a ledger of tokens.  A login issues a token for a session.  A    *)
(* token that is dead stays dead.  An exchange enters a new token in the   *)
(* place of a dead one, for the same session.                              *)
(***************************************************************************)
CONSTANTS Token, Session, None

VARIABLES status, owner, origin

ledger == <<status, owner, origin>>

Init ==
    /\ status = [t \in Token |-> "absent"]
    /\ owner = [t \in Token |-> None]
    /\ origin = [t \in Token |-> None]

\* Enters t, in the place of p (None: for a login).
Enter(t, s, p) ==
    /\ status[t] = "absent"
    /\ status' = [status EXCEPT ![t] = "live"]
    /\ owner' = [owner EXCEPT ![t] = s]
    /\ origin' = [origin EXCEPT ![t] = p]

Issue == \E t \in Token, s \in Session : Enter(t, s, None)

Exchange == \E t, p \in Token : status[p] = "revoked" /\ Enter(t, owner[p], p)

Revoke ==
    \E S \in SUBSET Token :
        /\ \A t \in S : status[t] # "absent"
        /\ status' = [t \in Token |-> IF t \in S THEN "revoked" ELSE status[t]]
        /\ UNCHANGED <<owner, origin>>

Next == Issue \/ Exchange \/ Revoke

Spec == Init /\ [][Next]_ledger

=============================================================================
