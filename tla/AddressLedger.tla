---------------------------- MODULE AddressLedger ----------------------------
(***************************************************************************)
(* What the change of an address promises: no two accounts have the same   *)
(* one, an account only ever has an address it was opened with or one that *)
(* was confirmed for it, and an address is confirmed through a link that   *)
(* went to an address already confirmed.                                   *)
(***************************************************************************)
CONSTANTS User, Email, None

VARIABLES
    address,    \* the address of each account, None before it is opened
    confirmed,  \* the addresses confirmed for it
    offered     \* the changes, old and new address, its owner was mailed a link for

Apart(f) == \A u, v \in User : f[u] = f[v] /\ f[u] # None => u = v

Init ==
    /\ address \in [User -> Email \cup {None}]
    /\ Apart(address)
    /\ confirmed = [u \in User |-> {address[u]} \ {None}]
    /\ offered = [u \in User |-> {}]

Have(u, e) == address' = [address EXCEPT ![u] = e] /\ Apart(address')

Open(u, e) ==
    /\ address[u] = None
    /\ Have(u, e)
    /\ confirmed' = [confirmed EXCEPT ![u] = {e}]
    /\ UNCHANGED offered

Offer(u, old, new) ==
    /\ old \in confirmed[u]
    /\ offered' = [offered EXCEPT ![u] = @ \cup {<<old, new>>}]
    /\ UNCHANGED <<address, confirmed>>

Confirm(u, old, new) ==
    /\ <<old, new>> \in offered[u]
    /\ Have(u, new)
    /\ confirmed' = [confirmed EXCEPT ![u] = @ \cup {new}]
    /\ UNCHANGED offered

Return(u, e) ==
    /\ e \in confirmed[u]
    /\ Have(u, e)
    /\ UNCHANGED <<confirmed, offered>>

Next == \E u \in User, e \in Email :
    \/ Open(u, e) \/ Return(u, e)
    \/ \E old \in Email : Offer(u, old, e) \/ Confirm(u, old, e)

Spec == Init /\ [][Next]_<<address, confirmed, offered>>

=============================================================================
