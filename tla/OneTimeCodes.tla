----------------------------- MODULE OneTimeCodes -----------------------------
(***************************************************************************)
(* What the three tables of one-time codes promise - recovery codes, OTPs  *)
(* and the links that set a password - whatever the requests that write    *)
(* them do.  A code is issued once and is closed for good.  A client has   *)
(* to take a code while it is good; the code then admits the client once   *)
(* and is closed.  Taking and admitting are separate steps: clients that   *)
(* took a code together may all be admitted, a client that comes after an  *)
(* admission may not.                                                      *)
(***************************************************************************)
EXTENDS Naturals

CONSTANTS Code, Client

VARIABLES
    status,    \* of each code
    holds,     \* the clients that have taken a code, and which
    admitted   \* how often a code has admitted a client

codes == <<status, holds, admitted>>

Init ==
    /\ status = [c \in Code |-> "absent"]
    /\ holds = {}
    /\ admitted = [c \in Code |-> 0]

Issue(c) ==
    /\ status[c] = "absent"
    /\ status' = [status EXCEPT ![c] = "good"]
    /\ UNCHANGED <<holds, admitted>>

Close(S) ==
    /\ \A c \in S : status[c] # "absent"
    /\ status' = [c \in Code |-> IF c \in S THEN "over" ELSE status[c]]
    /\ UNCHANGED <<holds, admitted>>

Take(u, c) ==
    /\ status[c] = "good"
    /\ \A d \in Code : <<u, d>> \notin holds
    /\ holds' = holds \cup {<<u, c>>}
    /\ UNCHANGED <<status, admitted>>

Admit(u, c) ==
    /\ <<u, c>> \in holds
    /\ status' = [status EXCEPT ![c] = "over"]
    /\ holds' = holds \ {<<u, c>>}
    /\ admitted' = [admitted EXCEPT ![c] = @ + 1]

\* Requests fail, and the codes they hold admit no one.
Drop(S) ==
    /\ holds' = holds \ S
    /\ UNCHANGED <<status, admitted>>

Next ==
    \/ \E c \in Code : Issue(c)
    \/ \E S \in SUBSET Code : Close(S)
    \/ \E u \in Client, c \in Code : Take(u, c) \/ Admit(u, c)
    \/ \E S \in SUBSET holds : Drop(S)

Spec == Init /\ [][Next]_codes

=============================================================================
