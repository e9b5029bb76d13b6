----------------------------- MODULE EmailChange -----------------------------
(***************************************************************************)
(* The change of an address: UsersService.update asks the old address for  *)
(* leave, EmailChangeRequestService.changeEmail makes the change and sends *)
(* the old address a way back, EmailLogChangesService.rollbackEmail takes  *)
(* it (src/modules/users/users.service, email-change-request,              *)
(* email-log-changes).                                                     *)
(***************************************************************************)
EXTENDS Guards

VARIABLES
    changes,  \* user_email_change_request
    logs,     \* user_email_change_logs
    inbox     \* the links that mails have carried: changes and logs

emailVars == <<changes, logs, inbox>>

ChangeRow == [user : User \cup {None}, old : Email \cup {None}, new : Email \cup {None},
              used : BOOLEAN]
NoChange == [user |-> None, old |-> None, new |-> None, used |-> FALSE]

\* change and raced are history variables: the request the log is of, and that
\* the confirmation that inserted it was overlapped.
LogRow == [user : User \cup {None}, old : Email \cup {None}, revoked : BOOLEAN,
           change : Change \cup {None}, raced : BOOLEAN]
NoLog == [user |-> None, old |-> None, revoked |-> FALSE, change |-> None, raced |-> FALSE]

Stored(q) == changes[q].user # None
Logged(l) == logs[l].user # None

EmailInit ==
    /\ changes = [q \in Change |-> NoChange]
    /\ logs = [l \in Log |-> NoLog]
    /\ inbox = {}

\* Tokens are fresh uuids.
FreshChanges == {q \in Change : ~Stored(q) /\ q \notin inbox /\ \A r \in Request : req[r].item # q}
FreshLogs == {l \in Log : ~Logged(l) /\ l \notin inbox}
Updating == {r \in Request : req[r].pc \in {"update", "updateCheck", "updateMail"}}
Confirming == {r \in Request : req[r].pc \in {"confirmBegin", "confirmUser", "confirmWrite"}}

-----------------------------------------------------------------------------
(* update.                                                                 *)

\* e is None when the body leaves the address out.
Update(r, by, u, e) ==
    /\ Room(scenario.changes, Change \ FreshChanges, Updating)
    /\ Call(r, UpdateEndpoint, by, u, [Idle EXCEPT !.pc = "update", !.email = e])
    /\ KeepRows /\ UNCHANGED emailVars

\* findOne.  A first one, for __ValidateAndCreateUser, is not awaited, so a
\* user who is not there ends the process.  The look-up of the address there
\* refuses what the one in UpdateCheck refuses.
UpdateFind(r) ==
    /\ At(r, "update") /\ Free
    /\ \/ /\ Visible(req[r].user)
          /\ req' = [req EXCEPT ![r].pc = "updateCheck", ![r].seen = users[req[r].user]]
          /\ UNCHANGED met
       \/ ~Visible(req[r].user) /\ Exit
    /\ KeepRows /\ UNCHANGED emailVars

\* __ValidateChangeEmail: another's address is refused; whether the address
\* changes is decided by the row read before.  A body without an address fails
\* either way: the look-up finds anybody, and the new address may not be null.
UpdateCheck(r) ==
    LET e == req[r].email
        others == {v \in User \ {req[r].user} : Visible(v) /\ users[v].email = e}
    IN
    /\ At(r, "updateCheck") /\ Free
    /\ \/ (e = None \/ others # {}) /\ Done(r)
       \/ /\ e # None /\ others = {}
          /\ Goto(r, IF req[r].seen.email = e THEN "updateWrite" ELSE "updateMail")
    /\ KeepRows /\ UNCHANGED emailVars

\* No change of address: one UPDATE of the whole dto, its address included.
UpdateWrite(r) ==
    LET u == req[r].user IN
    /\ At(r, "updateWrite") /\ Free
    /\ IF Taken(req[r].email, u) THEN KeepRows ELSE Put(u, [users[u] EXCEPT !.email = req[r].email])
    /\ Done(r)
    /\ UNCHANGED emailVars

\* The transaction: the request row is inserted and its link mailed to the old
\* address before COMMIT.  When the mail fails the transaction is rolled back.
UpdateMail(r) ==
    /\ At(r, "updateMail") /\ Free
    /\ \/ \E q \in FreshChanges :
            /\ req' = [req EXCEPT ![r].pc = "updateCommit", ![r].tx = TRUE, ![r].item = q]
            /\ inbox' = inbox \cup {q}
            /\ UNCHANGED met
       \/ Done(r) /\ UNCHANGED inbox
    /\ KeepRows /\ UNCHANGED <<changes, logs>>

\* Faulty: the request is kept for the address asked for as the old one.
UpdateCommitSwapped(r) ==
    /\ At(r, "updateCommit")
    /\ changes' = [changes EXCEPT ![req[r].item] =
         [NoChange EXCEPT !.user = req[r].user, !.old = req[r].email, !.new = req[r].seen.email]]
    /\ Done(r)
    /\ KeepRows /\ UNCHANGED <<logs, inbox>>

\* Faulty: the new address is written with the other columns.
UpdateCommitEarly(r) ==
    /\ At(r, "updateCommit")
    /\ changes' = [changes EXCEPT ![req[r].item] =
         [NoChange EXCEPT !.user = req[r].user, !.old = req[r].seen.email, !.new = req[r].email]]
    /\ IF Taken(req[r].email, req[r].user) THEN KeepRows
       ELSE Put(req[r].user, [users[req[r].user] EXCEPT !.email = req[r].email])
    /\ Done(r)
    /\ UNCHANGED <<logs, inbox>>

UpdateCommit(r) ==
    /\ At(r, "updateCommit")
    /\ changes' = [changes EXCEPT ![req[r].item] =
         [NoChange EXCEPT !.user = req[r].user, !.old = req[r].seen.email, !.new = req[r].email]]
    /\ Done(r)
    /\ KeepRows /\ UNCHANGED <<logs, inbox>>

-----------------------------------------------------------------------------
(* changeEmail: the link of the request mail.                              *)

\* Faulty: a used request is confirmed again.
ConfirmUsed(r, q) ==
    /\ q \in inbox /\ Stored(q)
    /\ Visible(changes[q].user)
    /\ Room(scenario.logs, Log \ FreshLogs, Confirming)
    /\ Start(r, [Idle EXCEPT !.pc = "confirmBegin", !.user = changes[q].user, !.item = q])
    /\ KeepRows /\ UNCHANGED emailVars

\* The request is read and tested outside the transaction.  Its expiry is a
\* refusal that may always come instead, so it has no column here.
Confirm(r, q) ==
    /\ q \in inbox /\ Stored(q) /\ ~changes[q].used
    /\ Visible(changes[q].user)
    /\ Room(scenario.logs, Log \ FreshLogs, Confirming)
    /\ Start(r, [Idle EXCEPT !.pc = "confirmBegin", !.user = changes[q].user, !.item = q])
    /\ KeepRows /\ UNCHANGED emailVars

ConfirmBegin(r) ==
    /\ At(r, "confirmBegin")
    /\ Enter(r, "confirmUser")
    /\ KeepRows /\ UNCHANGED emailVars

\* findOne in the transaction, on a connection of its own.
ConfirmUser(r) ==
    /\ At(r, "confirmUser") /\ Free
    /\ IF Visible(req[r].user) THEN Goto(r, "confirmWrite") ELSE Done(r)
    /\ KeepRows /\ UNCHANGED emailVars

\* The log, the address and the used flag commit together, or none of them
\* when the address has been taken.
ConfirmWrite(r) ==
    LET q == req[r].item
        u == req[r].user
    IN
    /\ At(r, "confirmWrite")
    /\ \/ /\ Taken(changes[q].new, u)
          /\ Done(r)
          /\ KeepRows /\ UNCHANGED <<changes, logs>>
       \/ /\ ~Taken(changes[q].new, u)
          /\ \E l \in FreshLogs :
               /\ logs' = [logs EXCEPT ![l] = [NoLog EXCEPT !.user = u, !.old = changes[q].old,
                                                  !.change = q, !.raced = r \in met]]
               /\ req' = [req EXCEPT ![r].pc = "confirmMail", ![r].tx = FALSE, ![r].item = l]
          /\ Put(u, [users[u] EXCEPT !.email = changes[q].new])
          /\ changes' = [changes EXCEPT ![q].used = TRUE]
          /\ UNCHANGED met
    /\ UNCHANGED inbox

\* The mail with the way back is sent after COMMIT and can fail.
ConfirmMail(r) ==
    /\ At(r, "confirmMail")
    /\ inbox' \in {inbox, inbox \cup {req[r].item}}
    /\ Done(r)
    /\ KeepRows /\ UNCHANGED <<changes, logs>>

-----------------------------------------------------------------------------
(* rollbackEmail: the link of the second mail.                             *)

\* The log is read with its user; its expiry too is a refusal.
Rollback(r, l) ==
    /\ l \in inbox /\ Logged(l) /\ ~logs[l].revoked
    /\ Visible(logs[l].user)
    /\ Start(r, [Idle EXCEPT !.pc = "rollbackWrite", !.user = logs[l].user, !.item = l,
                             !.seen = users[logs[l].user]])
    /\ KeepRows /\ UNCHANGED emailVars

\* save() writes every column of the user in which the row has come to differ,
\* role and deletedAt among them; user_secret is not selected.
GivenBack(r) ==
    [users[req[r].user] EXCEPT !.email = logs[req[r].item].old, !.role = req[r].seen.role,
                               !.deleted = FALSE]

\* One transaction saves the log and the user as it was read.
RollbackWrite(r) ==
    LET l == req[r].item
        u == req[r].user
    IN
    /\ At(r, "rollbackWrite") /\ Free
    /\ \/ /\ Taken(logs[l].old, u)
          /\ KeepRows /\ UNCHANGED logs
       \/ /\ ~Taken(logs[l].old, u)
          /\ logs' = [logs EXCEPT ![l].revoked = TRUE]
          /\ Put(u, GivenBack(r))
    /\ Done(r)
    /\ UNCHANGED <<changes, inbox>>

EmailStart(r) ==
    \/ \E by, u \in User, e \in Email \cup {None} : Update(r, by, u, e)
    \/ \E q \in Change : Confirm(r, q)
    \/ \E l \in Log : Rollback(r, l)

EmailStep(r) ==
    \/ UpdateFind(r) \/ UpdateCheck(r) \/ UpdateWrite(r) \/ UpdateMail(r) \/ UpdateCommit(r)
    \/ ConfirmBegin(r) \/ ConfirmUser(r) \/ ConfirmWrite(r) \/ ConfirmMail(r)
    \/ RollbackWrite(r)

=============================================================================
