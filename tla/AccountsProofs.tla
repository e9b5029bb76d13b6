---------------------------- MODULE AccountsProofs ----------------------------
(***************************************************************************)
(* Type correctness of Accounts, for every set of users, rows and          *)
(* requests: what a request in flight knows about the rows it is going to  *)
(* write, and that no step takes that away.  Then the connections of the   *)
(* pool, and the steps a request has left.                                 *)
(***************************************************************************)
EXTENDS Accounts, TLAPS, FiniteSetTheorems

-----------------------------------------------------------------------------
(* The invariant: TypeOK in parts, and what requests know.                 *)

RowsTyped ==
    /\ users \in [User -> UserRow]
    /\ \A u \in User : (users[u].role = None) = (users[u].email = None)
    /\ access \in [User -> SUBSET Claim]

EmailTyped ==
    /\ changes \in [Change -> ChangeRow] /\ logs \in [Log -> LogRow]
    /\ inbox \subseteq Change \cup Log
    /\ \A q \in Change : Stored(q) =>
         Exists(changes[q].user) /\ changes[q].old # None /\ changes[q].new # None
    /\ \A l \in Log : Logged(l) => Exists(logs[l].user) /\ logs[l].old # None

OAuthTyped ==
    /\ links \in [Link -> LinkRow] /\ roles \subseteq Role
    /\ \A k \in Link : (links[k].user = None) = (links[k].identity = None)

ReAuthTyped == passwords \in [User -> User \cup {None}] /\ reauth \in [Token -> TokenRow]

\* q is the state of a request.
Knows(q) ==
    /\ q.pc \in {"update", "updateCheck", "updateWrite", "updateMail", "updateCommit",
                 "confirmBegin", "confirmUser", "confirmWrite", "rollbackWrite",
                 "changeRole", "roleSave", "remove", "linkUser", "linkRow", "linkInsert"}
          => q.user \in User
    /\ q.pc \in {"updateCheck", "updateWrite", "updateMail", "updateCommit",
                 "confirmBegin", "confirmUser", "confirmWrite", "rollbackWrite", "roleSave"}
          => Exists(q.user)
    /\ q.pc \in {"updateCheck", "updateWrite", "updateMail", "updateCommit", "roleSave",
                 "rollbackWrite"}
          => q.seen.email # None /\ q.seen.role # None
    /\ q.pc \in {"updateWrite", "updateMail", "updateCommit",
                 "loginLink", "loginEmail", "loginRole", "loginNewRole", "loginRow",
                 "loginInsert", "loginCommit"}
          => q.email # None
    /\ q.pc = "updateCommit" => q.item \in Change
    /\ q.pc \in {"confirmBegin", "confirmUser", "confirmWrite"} => q.item \in Change /\ Stored(q.item)
    /\ q.pc = "confirmMail" => q.item \in Log
    /\ q.pc = "rollbackWrite" => q.item \in Log /\ Logged(q.item)
    /\ q.pc \in {"changeRole", "roleSave"} => q.role # None
    /\ q.pc \in {"loginLink", "loginEmail", "loginRole", "loginNewRole", "loginRow", "loginInsert",
                 "loginCommit", "linkUser", "linkRow", "linkInsert"}
          => q.item \in Identity
    /\ q.pc \in {"loginRow", "loginInsert", "loginCommit"} => q.fresh \/ q.user \in User
    /\ q.pc \in {"guardFind", "guardList", "guardSave",
                 "pwdBegin", "pwdCredential", "pwdUser", "pwdNew", "pwdWrite"}
          => q.by \in User /\ Exists(q.by)

Requests ==
    /\ req \in [Request -> RequestState]
    /\ \A r \in Request : At(r, "idle") => req[r] = Idle
    /\ met \subseteq Busy
    /\ \A r \in Request : Knows(req[r])

Inv == RowsTyped /\ Requests /\ EmailTyped /\ OAuthTyped /\ ReAuthTyped /\ scenario \in Scenarios

LEMMA InvType == Inv => TypeOK
BY DEF Inv, TypeOK, RowsTyped, Requests, EmailTyped, OAuthTyped, ReAuthTyped

\* Rows of users, changes and logs do not go away.
Lasting ==
    /\ \A u \in User : Exists(u) => Exists(u)'
    /\ \A q \in Change : Stored(q) => Stored(q)'
    /\ \A l \in Log : Logged(l) => Logged(l)'

-----------------------------------------------------------------------------
(* Records with some fields replaced.                                      *)

LEMMA StateMoved ==
    ASSUME NEW s \in RequestState, NEW label \in Pc, NEW b \in BOOLEAN
    PROVE  [s EXCEPT !.pc = label, !.tx = b] \in RequestState
BY DEF RequestState

LEMMA StateWithItem ==
    ASSUME NEW s \in RequestState, NEW label \in Pc, NEW b \in BOOLEAN, NEW x \in Change \cup Log
    PROVE  [s EXCEPT !.pc = label, !.tx = b, !.item = x] \in RequestState
BY DEF RequestState

LEMMA StateFresh ==
    ASSUME NEW s \in RequestState, NEW label \in Pc
    PROVE  [s EXCEPT !.pc = label, !.fresh = TRUE] \in RequestState
BY DEF RequestState

LEMMA StateWithUser ==
    ASSUME NEW s \in RequestState, NEW label \in Pc, NEW u \in User
    PROVE  [s EXCEPT !.pc = label, !.user = u] \in RequestState
BY DEF RequestState

LEMMA StateWithSeen ==
    ASSUME NEW s \in RequestState, NEW label \in Pc, NEW row \in UserRow
    PROVE  [s EXCEPT !.pc = label, !.seen = row] \in RequestState
BY DEF RequestState

LEMMA StateWithRows ==
    ASSUME NEW s \in RequestState, NEW label \in Pc, NEW ts \in SUBSET Token
    PROVE  [s EXCEPT !.pc = label, !.rows = ts] \in RequestState
BY DEF RequestState

LEMMA UserOpened ==
    ASSUME NEW e \in Email, NEW role \in Role
    PROVE  /\ NewUser(e, role) \in UserRow
           /\ NewUser(e, role).email = e /\ NewUser(e, role).role = role
<1>1. NoUser \in UserRow
  BY AccountsAssumption DEF NoUser, UserRow
<1>2. \A row \in UserRow : /\ [row EXCEPT !.email = e, !.role = role, !.born = e] \in UserRow
                          /\ [row EXCEPT !.email = e, !.role = role, !.born = e].email = e
                          /\ [row EXCEPT !.email = e, !.role = role, !.born = e].role = role
  BY DEF UserRow
<1>3. QED BY <1>1, <1>2 DEF NewUser

LEMMA NewLog ==
    ASSUME NEW u \in User, NEW e \in Email, NEW c \in Change, NEW b \in BOOLEAN
    PROVE  [NoLog EXCEPT !.user = u, !.old = e, !.change = c, !.raced = b] \in LogRow
BY DEF NoLog, LogRow

LEMMA RowGivenBack ==
    ASSUME NEW row \in UserRow, NEW e \in Email, NEW role \in Role
    PROVE  [row EXCEPT !.email = e, !.role = role, !.deleted = FALSE] \in UserRow
BY DEF UserRow

-----------------------------------------------------------------------------
(* Steps of one request.                                                   *)

LEMMA IdleOK == Idle \in RequestState /\ Knows(Idle) /\ Idle.pc = "idle"
BY AccountsAssumption DEF Idle, RequestState, Pc, NoUser, UserRow, Knows

\* A request that goes on to a well-formed state it knows enough for.
LEMMA OneMoves ==
    ASSUME Requests, Lasting, NEW r \in Request, NEW q \in RequestState, Knows(q),
           q.pc = "idle" => q = Idle,
           req' = [req EXCEPT ![r] = q],
           met' \subseteq met \cup Busy \cup {r}, q.pc = "idle" => r \notin met'
    PROVE  Requests'
<1>1. req' \in [Request -> RequestState] /\ \A p \in Request : At(p, "idle")' => req'[p] = Idle
  BY DEF Requests, At
<1>2. met' \subseteq Busy'
  BY DEF Requests, Busy, At
<1>3. ASSUME NEW p \in Request PROVE Knows(req[p])'
  <2>1. PICK s \in RequestState : s = req'[p] /\ Knows(s)
    BY <1>1 DEF Requests
  <2>2. /\ s.user \in User /\ Exists(s.user) => Exists(s.user)'
        /\ s.by \in User /\ Exists(s.by) => Exists(s.by)'
        /\ s.item \in Change /\ Stored(s.item) => Stored(s.item)'
        /\ s.item \in Log /\ Logged(s.item) => Logged(s.item)'
    BY DEF Lasting
  <2> QED
    BY <2>1, <2>2 DEF Knows
<1>4. QED BY <1>1, <1>2, <1>3 DEF Requests

LEMMA DoneMoves ==
    ASSUME Requests, Lasting, NEW r \in Request, Done(r)
    PROVE  Requests'
<1>1. req' = [req EXCEPT ![r] = Idle] /\ met' \subseteq met \cup Busy \cup {r} /\ r \notin met'
  BY DEF Done
<1>2. QED BY <1>1, IdleOK, OneMoves

LEMMA GotoMoves ==
    ASSUME Requests, Lasting, NEW r \in Request, NEW label \in Pc \ {"idle"}, Goto(r, label),
           Knows([req[r] EXCEPT !.pc = label])
    PROVE  Requests'
<1> DEFINE q == [req[r] EXCEPT !.pc = label]
<1>1. q \in RequestState /\ q.pc # "idle"
  BY DEF Requests, RequestState
<1>2. req' = [req EXCEPT ![r] = q] /\ met' = met
  BY DEF Goto
<1> HIDE DEF q
<1>3. Knows(q)
  BY DEF q
<1>4. QED BY <1>1, <1>2, <1>3, OneMoves

LEMMA StartMoves ==
    ASSUME Requests, Lasting, NEW r \in Request, NEW q \in RequestState, q.pc # "idle", Knows(q),
           Start(r, q)
    PROVE  Requests'
<1>1. req' = [req EXCEPT ![r] = q] /\ met' \subseteq met \cup Busy \cup {r}
  BY DEF Start
<1>2. QED BY <1>1, OneMoves

LEMMA ExitMoves == ASSUME Requests, Exit PROVE Requests'
<1>1. req' = [r \in Request |-> Idle] /\ met' = {}
  BY DEF Exit
<1>2. \A r \in Request : req'[r] = Idle
  BY <1>1
<1>3. \A r \in Request : Knows(req[r])'
  BY <1>2 DEF Knows, Idle
<1>4. QED BY <1>1, <1>2, <1>3, IdleOK DEF Requests, At

\* Rows that stay.
LEMMA SameRows == KeepRows /\ RowsTyped => RowsTyped' /\ \A u \in User : Exists(u)' = Exists(u)
BY DEF KeepRows, RowsTyped, Exists

LEMMA SameEmail ==
    ASSUME EmailTyped, UNCHANGED emailVars, \A u \in User : Exists(u) => Exists(u)'
    PROVE  EmailTyped' /\ (\A q \in Change : Stored(q)' = Stored(q)) /\ (\A l \in Log : Logged(l)' = Logged(l))
<1>1. changes' = changes /\ logs' = logs /\ inbox' = inbox
  BY DEF emailVars
<1>2. \A q \in Change : Stored(q)' = Stored(q)
  BY <1>1 DEF Stored
<1>3. \A l \in Log : Logged(l)' = Logged(l)
  BY <1>1 DEF Logged
<1>4. /\ \A q \in Change : Stored(q) => changes[q].user \in User
      /\ \A l \in Log : Logged(l) => logs[l].user \in User
  BY DEF EmailTyped, Stored, Logged, ChangeRow, LogRow
<1>5. QED BY <1>1, <1>2, <1>3, <1>4 DEF EmailTyped

\* A row that is written.
LEMMA PutRows ==
    ASSUME RowsTyped, NEW u \in User, NEW row \in UserRow, row.email # None, row.role # None,
           Put(u, row)
    PROVE  RowsTyped' /\ \A v \in User : Exists(v) => Exists(v)'
<1>1. users' = [users EXCEPT ![u] = row] /\ access' = [access EXCEPT ![u] = @ \cup ClaimsOf(row)]
  BY DEF Put
<1>2. ClaimsOf(row) \subseteq Claim
  BY DEF ClaimsOf, Claim, UserRow
<1>3. access' \in [User -> SUBSET Claim]
  BY <1>1, <1>2 DEF RowsTyped
<1>4. users' \in [User -> UserRow] /\ \A v \in User : (users'[v].role = None) = (users'[v].email = None)
  BY <1>1 DEF RowsTyped
<1>5. \A v \in User : Exists(v) => Exists(v)'
  BY <1>1 DEF RowsTyped, Exists
<1>6. QED BY <1>3, <1>4, <1>5 DEF RowsTyped

LEMMA Quiet ==
    ASSUME Inv, KeepRows, UNCHANGED emailVars
    PROVE  Lasting /\ RowsTyped' /\ EmailTyped'
BY SameRows, SameEmail DEF Inv, Lasting

LEMMA OthersSame ==
    /\ OAuthTyped /\ UNCHANGED oauthVars => OAuthTyped'
    /\ ReAuthTyped /\ UNCHANGED reauthVars => ReAuthTyped'
BY DEF OAuthTyped, oauthVars, ReAuthTyped, reauthVars

-----------------------------------------------------------------------------
(* The change of an address.                                               *)

LEMMA EmailStartInv ==
    ASSUME Inv, NEW r \in Request, EmailStart(r), UNCHANGED <<oauthVars, reauthVars, scenario>>
    PROVE  Inv'
<1> USE AccountsAssumption
<1>o. OAuthTyped' /\ ReAuthTyped' /\ scenario' \in Scenarios
  BY OthersSame DEF Inv
<1>q. KeepRows /\ UNCHANGED emailVars
  BY DEF EmailStart, Update, Confirm, Rollback
<1>r. Lasting /\ RowsTyped' /\ EmailTyped' /\ Requests
  BY <1>q, Quiet DEF Inv
<1>1. ASSUME NEW by \in User, NEW u \in User, NEW e \in Email \cup {None}, Update(r, by, u, e)
      PROVE  Requests'
  <2> DEFINE q == [Idle EXCEPT !.pc = "update", !.email = e, !.by = by, !.user = u]
  <2>1. q \in RequestState
    BY IdleOK DEF Idle, RequestState, Pc
  <2>2. Knows(q) /\ q.pc # "idle"
    BY DEF Knows, Idle
  <2>3. Start(r, q)
    BY <1>1 DEF Update, Call, Idle
  <2>4. QED BY <1>r, <2>1, <2>2, <2>3, StartMoves
<1>2. ASSUME NEW c \in Change, Confirm(r, c)
      PROVE  Requests'
  <2> DEFINE q == [Idle EXCEPT !.pc = "confirmBegin", !.user = changes[c].user, !.item = c]
  <2>1. changes[c].user \in User /\ Exists(changes[c].user) /\ Stored(c)
    BY <1>2 DEF Confirm, Inv, EmailTyped, ChangeRow, Stored, Visible
  <2>2. q \in RequestState
    BY <2>1, IdleOK DEF Idle, RequestState, Pc
  <2>3. Knows(q) /\ q.pc # "idle"
    BY <2>1 DEF Knows, Idle
  <2>4. Start(r, q)
    BY <1>2 DEF Confirm
  <2>5. QED BY <1>r, <2>2, <2>3, <2>4, StartMoves
<1>3. ASSUME NEW l \in Log, Rollback(r, l)
      PROVE  Requests'
  <2> DEFINE v == logs[l].user
             q == [Idle EXCEPT !.pc = "rollbackWrite", !.user = v, !.item = l, !.seen = users[v]]
  <2>1. v \in User /\ Exists(v) /\ Logged(l)
    BY <1>3 DEF Rollback, Inv, EmailTyped, LogRow, Logged, Visible
  <2>2. users[v] \in UserRow /\ users[v].email # None /\ users[v].role # None
    BY <2>1 DEF Inv, RowsTyped, Exists
  <2>3. q \in RequestState
    BY <2>1, <2>2, IdleOK DEF Idle, RequestState, Pc
  <2>4. Knows(q) /\ q.pc # "idle"
    BY <2>1, <2>2 DEF Knows, Idle
  <2>5. Start(r, q)
    BY <1>3 DEF Rollback
  <2>6. QED BY <1>r, <2>3, <2>4, <2>5, StartMoves
<1>4. Requests'
  BY <1>1, <1>2, <1>3 DEF EmailStart
<1>5. QED BY <1>o, <1>r, <1>4 DEF Inv

LEMMA EmailStepInv ==
    ASSUME Inv, NEW r \in Request, EmailStep(r), UNCHANGED <<oauthVars, reauthVars, scenario>>
    PROVE  Inv'
<1> USE AccountsAssumption DEF At
<1>o. OAuthTyped' /\ ReAuthTyped' /\ scenario' \in Scenarios
  BY OthersSame DEF Inv
<1>a. /\ req \in [Request -> RequestState] /\ req[r] \in RequestState /\ Knows(req[r])
      /\ Requests /\ RowsTyped /\ EmailTyped
  BY DEF Inv, Requests
<1>1. ASSUME UpdateFind(r) PROVE Inv'
  <2>1. Lasting /\ RowsTyped' /\ EmailTyped'
    BY <1>1, Quiet DEF UpdateFind
  <2>2. CASE Exit
    BY <1>a, <1>o, <2>1, <2>2, ExitMoves DEF Inv
  <2>3. CASE ~Exit
    <3> DEFINE q == [req[r] EXCEPT !.pc = "updateCheck", !.seen = users[req[r].user]]
    <3>1. req[r].user \in User /\ Exists(req[r].user)
      BY <1>a, <1>1, <2>3 DEF UpdateFind, Knows, Visible
    <3>2. users[req[r].user] \in UserRow /\ users[req[r].user].email # None /\ users[req[r].user].role # None
      BY <1>a, <3>1 DEF RowsTyped, Exists
    <3>3. q \in RequestState
      BY <1>a, <3>2 DEF RequestState, Pc
    <3>4. req' = [req EXCEPT ![r] = q] /\ met' = met
      BY <1>1, <2>3 DEF UpdateFind
    <3>5. Knows(q) /\ q.pc # "idle"
      BY <1>a, <3>1, <3>2 DEF Knows, RequestState
    <3> HIDE DEF q
    <3>6. QED BY <1>a, <1>o, <2>1, <3>3, <3>4, <3>5, OneMoves DEF Inv
  <2>4. QED BY <2>2, <2>3
<1>2. ASSUME UpdateCheck(r) PROVE Inv'
  <2>1. Lasting /\ RowsTyped' /\ EmailTyped'
    BY <1>2, Quiet DEF UpdateCheck
  <2>2. CASE Done(r)
    BY <1>a, <1>o, <2>1, <2>2, DoneMoves DEF Inv
  <2>3. CASE ~Done(r)
    <3>1. PICK label \in {"updateWrite", "updateMail"} : Goto(r, label) /\ req[r].email # None
      BY <1>2, <2>3 DEF UpdateCheck
    <3>2. Knows([req[r] EXCEPT !.pc = label])
      BY <1>a, <1>2, <3>1 DEF UpdateCheck, Knows, RequestState
    <3>3. label \in Pc \ {"idle"}
      BY DEF Pc
    <3>4. QED BY <1>a, <1>o, <2>1, <3>1, <3>2, <3>3, GotoMoves DEF Inv
  <2>4. QED BY <2>2, <2>3
<1>3. ASSUME UpdateWrite(r) PROVE Inv'
  <2> DEFINE u == req[r].user
             row == [users[u] EXCEPT !.email = req[r].email]
  <2>1. u \in User /\ Exists(u) /\ req[r].email # None
    BY <1>a, <1>3 DEF UpdateWrite, Knows
  <2>2. row \in UserRow /\ row.email # None /\ row.role # None
    BY <1>a, <2>1 DEF RowsTyped, UserRow, Exists, RequestState
  <2>3. KeepRows \/ Put(u, row)
    BY <1>3 DEF UpdateWrite
  <2> HIDE DEF row
  <2>4. RowsTyped' /\ \A v \in User : Exists(v) => Exists(v)'
    BY <1>a, <2>1, <2>2, <2>3, PutRows, SameRows
  <2>5. EmailTyped' /\ Lasting
    BY <1>a, <1>3, <2>4, SameEmail DEF UpdateWrite, Lasting
  <2>6. QED BY <1>a, <1>o, <1>3, <2>4, <2>5, DoneMoves DEF UpdateWrite, Inv
<1>4. ASSUME UpdateMail(r) PROVE Inv'
  <2>1. KeepRows /\ UNCHANGED <<changes, logs>>
    BY <1>4 DEF UpdateMail
  <2>2. RowsTyped' /\ \A v \in User : Exists(v)' = Exists(v)
    BY <1>a, <2>1, SameRows
  <2>3. inbox' \subseteq Change \cup Log
    BY <1>a, <1>4 DEF UpdateMail, EmailTyped, FreshChanges
  <2>4. EmailTyped' /\ Lasting
    <3>1. /\ \A c \in Change : Stored(c) => changes[c].user \in User
          /\ \A l \in Log : Logged(l) => logs[l].user \in User
      BY <1>a DEF EmailTyped, Stored, Logged, ChangeRow, LogRow
    <3>2. (\A c \in Change : Stored(c)' = Stored(c)) /\ (\A l \in Log : Logged(l)' = Logged(l))
      BY <2>1 DEF Stored, Logged
    <3>3. EmailTyped'
      BY <1>a, <2>1, <2>2, <2>3, <3>1, <3>2 DEF EmailTyped
    <3>4. QED BY <2>2, <3>2, <3>3 DEF Lasting
  <2>5. CASE Done(r)
    BY <1>a, <1>o, <2>2, <2>4, <2>5, DoneMoves DEF Inv
  <2>6. CASE ~Done(r)
    <3>1. PICK c \in FreshChanges :
            req' = [req EXCEPT ![r].pc = "updateCommit", ![r].tx = TRUE, ![r].item = c] /\ met' = met
      BY <1>4, <2>6 DEF UpdateMail
    <3> DEFINE q == [req[r] EXCEPT !.pc = "updateCommit", !.tx = TRUE, !.item = c]
    <3>2. c \in Change
      BY DEF FreshChanges
    <3>3. q \in RequestState /\ q.pc # "idle"
      <4>1. "updateCommit" \in Pc
        BY DEF Pc
      <4>2. q \in RequestState
        BY <1>a, <3>2, <4>1, StateWithItem
      <4>3. QED BY <1>a, <4>2 DEF RequestState
    <3>4. req' = [req EXCEPT ![r] = q]
      BY <1>a, <3>1
    <3>5. Knows(q)
      BY <1>a, <1>4, <3>2 DEF UpdateMail, Knows, RequestState
    <3> HIDE DEF q
    <3>6. QED BY <1>a, <1>o, <2>2, <2>4, <3>1, <3>3, <3>4, <3>5, OneMoves DEF Inv
  <2>7. QED BY <2>5, <2>6
<1>5. ASSUME UpdateCommit(r) PROVE Inv'
  <2> DEFINE row == [NoChange EXCEPT !.user = req[r].user, !.old = req[r].seen.email,
                                     !.new = req[r].email]
  <2>1. /\ req[r].user \in User /\ Exists(req[r].user) /\ req[r].item \in Change
        /\ req[r].seen.email # None /\ req[r].email # None
        /\ req[r].seen \in UserRow /\ req[r].email \in Email
    BY <1>a, <1>5 DEF UpdateCommit, Knows, RequestState
  <2>2. row \in ChangeRow /\ row.user \in User /\ Exists(row.user) /\ row.old # None /\ row.new # None
    BY <2>1 DEF ChangeRow, NoChange, UserRow
  <2>3. /\ changes' = [changes EXCEPT ![req[r].item] = row]
        /\ KeepRows /\ logs' = logs /\ inbox' = inbox /\ Done(r)
    BY <1>5 DEF UpdateCommit
  <2> HIDE DEF row
  <2>4. RowsTyped' /\ \A v \in User : Exists(v)' = Exists(v)
    BY <1>a, <2>3, SameRows
  <2>5. EmailTyped' /\ Lasting
    <3>1. \A l \in Log : Logged(l)' = Logged(l) /\ (Logged(l) => logs[l].user \in User)
      BY <1>a, <2>3 DEF EmailTyped, Logged, LogRow
    <3>2. \A c \in Change : Stored(c) => Stored(c)' /\ changes[c].user \in User
      BY <1>a, <2>2, <2>3 DEF EmailTyped, Stored, ChangeRow
    <3>3. changes' \in [Change -> ChangeRow]
      BY <1>a, <2>2, <2>3 DEF EmailTyped
    <3>4. \A c \in Change : (Stored(c) => Exists(changes[c].user) /\ changes[c].old # None /\ changes[c].new # None)'
      BY <1>a, <2>2, <2>3, <2>4, <3>2 DEF EmailTyped, Stored
    <3>5. EmailTyped'
      BY <1>a, <2>3, <2>4, <3>1, <3>3, <3>4 DEF EmailTyped
    <3>6. QED BY <2>4, <3>1, <3>2, <3>5 DEF Lasting
  <2>6. QED BY <1>a, <1>o, <2>3, <2>4, <2>5, DoneMoves DEF Inv
<1>6. ASSUME ConfirmBegin(r) PROVE Inv'
  <2>1. Lasting /\ RowsTyped' /\ EmailTyped'
    BY <1>6, Quiet DEF ConfirmBegin
  <2> DEFINE q == [req[r] EXCEPT !.pc = "confirmUser", !.tx = TRUE]
  <2>2. q \in RequestState /\ q.pc # "idle"
    <3>1. "confirmUser" \in Pc
      BY DEF Pc
    <3>2. q \in RequestState
      BY <1>a, <3>1, StateMoved
    <3>3. QED BY <1>a, <3>2 DEF RequestState
  <2>3. req' = [req EXCEPT ![r] = q] /\ met' = met
    BY <1>a, <1>6 DEF ConfirmBegin, Enter
  <2>4. Knows(q)
    BY <1>a, <1>6 DEF ConfirmBegin, Knows, RequestState
  <2> HIDE DEF q
  <2>5. QED BY <1>a, <1>o, <2>1, <2>2, <2>3, <2>4, OneMoves DEF Inv
<1>7. ASSUME ConfirmUser(r) PROVE Inv'
  <2>1. Lasting /\ RowsTyped' /\ EmailTyped'
    BY <1>7, Quiet DEF ConfirmUser
  <2>2. CASE Done(r)
    BY <1>a, <1>o, <2>1, <2>2, DoneMoves DEF Inv
  <2>3. CASE ~Done(r)
    <3>1. Goto(r, "confirmWrite") /\ "confirmWrite" \in Pc \ {"idle"}
      BY <1>7, <2>3 DEF ConfirmUser, Pc
    <3>2. Knows([req[r] EXCEPT !.pc = "confirmWrite"])
      BY <1>a, <1>7 DEF ConfirmUser, Knows, RequestState
    <3>3. QED BY <1>a, <1>o, <2>1, <3>1, <3>2, GotoMoves DEF Inv
  <2>4. QED BY <2>2, <2>3
<1>8. ASSUME ConfirmWrite(r) PROVE Inv'
  <2> DEFINE c == req[r].item
             u == req[r].user
             row == [users[u] EXCEPT !.email = changes[c].new]
  <2>1. u \in User /\ Exists(u) /\ c \in Change /\ Stored(c)
    BY <1>a, <1>8 DEF ConfirmWrite, Knows
  <2>2. CASE Taken(changes[c].new, u)
    BY <1>a, <1>o, <1>8, <2>2, Quiet, DoneMoves DEF ConfirmWrite, emailVars, Inv
  <2>3. CASE ~Taken(changes[c].new, u)
    <3>1. changes[c] \in ChangeRow /\ changes[c].new \in Email /\ changes[c].old \in Email /\ changes[c].new # None
      BY <1>a, <2>1 DEF EmailTyped, ChangeRow
    <3>2. row \in UserRow /\ row.email # None /\ row.role # None
      BY <1>a, <2>1, <3>1 DEF RowsTyped, UserRow, Exists
    <3>3. /\ Put(u, row) /\ changes' = [changes EXCEPT ![c].used = TRUE] /\ inbox' = inbox
      BY <1>8, <2>3 DEF ConfirmWrite
    <3>4. PICK l \in FreshLogs :
            /\ logs' = [logs EXCEPT ![l] = [NoLog EXCEPT !.user = u, !.old = changes[c].old,
                                                 !.change = c, !.raced = r \in met]]
            /\ req' = [req EXCEPT ![r].pc = "confirmMail", ![r].tx = FALSE, ![r].item = l]
            /\ met' = met
      BY <1>8, <2>3 DEF ConfirmWrite
    <3> HIDE DEF row
    <3>5. RowsTyped' /\ \A v \in User : Exists(v) => Exists(v)'
      BY <1>a, <2>1, <3>2, <3>3, PutRows
    <3>6. EmailTyped' /\ Lasting
      <4> DEFINE log == [NoLog EXCEPT !.user = u, !.old = changes[c].old, !.change = c,
                                      !.raced = r \in met]
      <4>1. log \in LogRow /\ log.user = u /\ log.old # None
        <5>1. (r \in met) \in BOOLEAN /\ changes[c].old # None
          BY <1>a, <2>1 DEF EmailTyped
        <5>2. log \in LogRow
          BY <2>1, <3>1, <5>1, NewLog
        <5>3. QED BY <5>1, <5>2 DEF LogRow, NoLog
      <4>2. logs' = [logs EXCEPT ![l] = log] /\ l \in Log
        BY <3>4 DEF FreshLogs
      <4> HIDE DEF log
      <4>3. logs' \in [Log -> LogRow] /\ \A m \in Log : Logged(m) => Logged(m)' /\ logs[m].user \in User
        BY <1>a, <2>1, <4>1, <4>2 DEF EmailTyped, Logged, LogRow
      <4>4. \A m \in Log : (Logged(m) => Exists(logs[m].user) /\ logs[m].old # None)'
        BY <1>a, <2>1, <3>5, <4>1, <4>2, <4>3 DEF EmailTyped, Logged
      <4>5. changes' \in [Change -> ChangeRow]
        BY <1>a, <2>1, <3>1, <3>3 DEF EmailTyped, ChangeRow
      <4>6. \A d \in Change : /\ changes'[d].user = changes[d].user /\ changes'[d].old = changes[d].old
                              /\ changes'[d].new = changes[d].new
                              /\ Stored(d)' = Stored(d) /\ (Stored(d) => changes[d].user \in User)
        BY <1>a, <3>3 DEF EmailTyped, Stored, ChangeRow
      <4>7. \A d \in Change : (Stored(d) => Exists(changes[d].user) /\ changes[d].old # None
                                              /\ changes[d].new # None)'
        BY <1>a, <3>5, <4>6 DEF EmailTyped
      <4>8. EmailTyped'
        BY <1>a, <3>3, <4>3, <4>4, <4>5, <4>7 DEF EmailTyped
      <4>9. QED BY <3>5, <4>3, <4>6, <4>8 DEF Lasting
    <3> DEFINE q == [req[r] EXCEPT !.pc = "confirmMail", !.tx = FALSE, !.item = l]
    <3>7. q \in RequestState /\ q.pc # "idle" /\ l \in Log
      <4>1. "confirmMail" \in Pc /\ l \in Log
        BY DEF Pc, FreshLogs
      <4>2. q \in RequestState
        BY <1>a, <4>1, StateWithItem
      <4>3. QED BY <1>a, <4>1, <4>2 DEF RequestState
    <3>8. req' = [req EXCEPT ![r] = q]
      BY <1>a, <3>4
    <3>9. Knows(q)
      BY <1>a, <3>7 DEF Knows, RequestState
    <3> HIDE DEF q
    <3>10. QED BY <1>a, <1>o, <3>4, <3>5, <3>6, <3>7, <3>8, <3>9, OneMoves DEF Inv
  <2>4. QED BY <2>2, <2>3
<1>9. ASSUME ConfirmMail(r) PROVE Inv'
  <2>1. req[r].item \in Log
    BY <1>a, <1>9 DEF ConfirmMail, Knows
  <2>2. KeepRows /\ changes' = changes /\ logs' = logs /\ inbox' \subseteq Change \cup Log /\ Done(r)
    BY <1>a, <1>9, <2>1 DEF ConfirmMail, EmailTyped
  <2>3. RowsTyped' /\ \A v \in User : Exists(v)' = Exists(v)
    BY <1>a, <2>2, SameRows
  <2>4. EmailTyped' /\ Lasting
    <3>1. /\ \A c \in Change : Stored(c) => changes[c].user \in User
          /\ \A l \in Log : Logged(l) => logs[l].user \in User
      BY <1>a DEF EmailTyped, Stored, Logged, ChangeRow, LogRow
    <3>2. (\A c \in Change : Stored(c)' = Stored(c)) /\ (\A l \in Log : Logged(l)' = Logged(l))
      BY <2>2 DEF Stored, Logged
    <3>3. EmailTyped'
      BY <1>a, <2>2, <2>3, <3>1, <3>2 DEF EmailTyped
    <3>4. QED BY <2>3, <3>2, <3>3 DEF Lasting
  <2>5. QED BY <1>a, <1>o, <2>2, <2>3, <2>4, DoneMoves DEF Inv
<1>10. ASSUME RollbackWrite(r) PROVE Inv'
  <2> DEFINE l == req[r].item
             u == req[r].user
             row == GivenBack(r)
  <2>1. /\ u \in User /\ Exists(u) /\ l \in Log /\ Logged(l)
        /\ req[r].seen \in UserRow /\ req[r].seen.role # None
    BY <1>a, <1>10 DEF RollbackWrite, Knows, RequestState
  <2>2. row \in UserRow /\ row.email # None /\ row.role # None
    <3>1. /\ users[u] \in UserRow /\ logs[l].old \in Email /\ logs[l].old # None
          /\ req[r].seen.role \in Role
      BY <1>a, <2>1 DEF RowsTyped, EmailTyped, LogRow, UserRow
    <3>2. row = [users[u] EXCEPT !.email = logs[l].old, !.role = req[r].seen.role, !.deleted = FALSE]
      BY DEF GivenBack
    <3> HIDE DEF row, l, u
    <3>3. row \in UserRow
      BY <3>1, <3>2, RowGivenBack
    <3>4. QED BY <1>a, <3>1, <3>2, <3>3 DEF UserRow
  <2>3. /\ (KeepRows /\ logs' = logs) \/ (Put(u, row) /\ logs' = [logs EXCEPT ![l].revoked = TRUE])
        /\ changes' = changes /\ inbox' = inbox /\ Done(r)
    BY <1>10 DEF RollbackWrite
  <2> HIDE DEF row
  <2>4. RowsTyped' /\ \A v \in User : Exists(v) => Exists(v)'
    BY <1>a, <2>1, <2>2, <2>3, PutRows, SameRows
  <2>5. EmailTyped' /\ Lasting
    <3>1. logs' \in [Log -> LogRow]
      <4>1. \A x \in LogRow : [x EXCEPT !.revoked = TRUE] \in LogRow
        BY DEF LogRow
      <4>2. QED BY <1>a, <2>1, <2>3, <4>1 DEF EmailTyped
    <3>2. \A m \in Log : /\ logs'[m].user = logs[m].user /\ logs'[m].old = logs[m].old
                         /\ Logged(m)' = Logged(m) /\ (Logged(m) => logs[m].user \in User)
      BY <1>a, <2>3 DEF EmailTyped, LogRow, Logged
    <3>3. \A c \in Change : Stored(c)' = Stored(c) /\ (Stored(c) => changes[c].user \in User)
      BY <1>a, <2>3 DEF EmailTyped, ChangeRow, Stored
    <3>4. \A m \in Log : (Logged(m) => Exists(logs[m].user) /\ logs[m].old # None)'
      BY <1>a, <2>4, <3>2 DEF EmailTyped
    <3>5. \A c \in Change : (Stored(c) => Exists(changes[c].user) /\ changes[c].old # None
                                            /\ changes[c].new # None)'
      BY <1>a, <2>3, <2>4, <3>3 DEF EmailTyped
    <3>6. EmailTyped'
      BY <1>a, <2>3, <3>1, <3>4, <3>5 DEF EmailTyped
    <3>7. QED BY <2>4, <3>2, <3>3, <3>6 DEF Lasting
  <2>6. QED BY <1>a, <1>o, <2>3, <2>4, <2>5, DoneMoves DEF Inv
<1>11. QED
  BY <1>1, <1>2, <1>3, <1>4, <1>5, <1>6, <1>7, <1>8, <1>9, <1>10 DEF EmailStep

-----------------------------------------------------------------------------
(* Accounts at providers.                                                  *)

\* A step that writes no row of these modules.
LEMMA QuietStep ==
    ASSUME Inv, KeepRows, UNCHANGED emailVars, UNCHANGED oauthVars, UNCHANGED reauthVars,
           UNCHANGED scenario, Requests'
    PROVE  Inv'
BY Quiet, OthersSame DEF Inv

LEMMA OAuthStartInv ==
    ASSUME Inv, NEW r \in Request, OAuthStart(r), UNCHANGED <<emailVars, reauthVars, scenario>>
    PROVE  Inv'
<1> USE AccountsAssumption
<1>q. KeepRows /\ UNCHANGED oauthVars
  BY GuardsAssumption DEF OAuthStart, OauthLogin, LinkProvider, UnlinkProvider
<1>r. Lasting /\ Requests
  BY <1>q, Quiet DEF Inv
<1>1. ASSUME NEW i \in Identity, NEW e \in Email, OauthLogin(r, i, e)
      PROVE  Requests'
  <2> DEFINE q == [Idle EXCEPT !.pc = "loginLink", !.tx = TRUE, !.item = i, !.email = e]
  <2>1. q \in RequestState
    BY IdleOK DEF Idle, RequestState, Pc
  <2>2. Knows(q) /\ q.pc # "idle"
    BY DEF Knows, Idle
  <2>3. QED BY <1>1, <1>r, <2>1, <2>2, StartMoves DEF OauthLogin
<1>2. ASSUME NEW u \in User, NEW i \in Identity, LinkProvider(r, u, i)
      PROVE  Requests'
  <2>1. PICK told \in BOOLEAN :
          Start(r, [Idle EXCEPT !.pc = "linkUser", !.user = u, !.item = i, !.told = told])
    BY <1>2 DEF LinkProvider
  <2> DEFINE q == [Idle EXCEPT !.pc = "linkUser", !.user = u, !.item = i, !.told = told]
  <2>2. q \in RequestState
    BY IdleOK DEF Idle, RequestState, Pc
  <2>3. Knows(q) /\ q.pc # "idle"
    BY DEF Knows, Idle
  <2>4. QED BY <1>r, <2>1, <2>2, <2>3, StartMoves
<1>3. ASSUME NEW u \in User, UnlinkProvider(r, u)
      PROVE  Requests'
  <2> DEFINE q == [Idle EXCEPT !.pc = "unlink", !.by = u, !.user = u]
  <2>1. q \in RequestState
    BY IdleOK DEF Idle, RequestState, Pc
  <2>2. Knows(q) /\ q.pc # "idle"
    BY DEF Knows, Idle
  <2>3. Start(r, q)
    BY <1>3 DEF UnlinkProvider, Call, Idle
  <2>4. QED BY <1>r, <2>1, <2>2, <2>3, StartMoves
<1>4. Requests'
  BY <1>1, <1>2, <1>3 DEF OAuthStart
<1>5. QED BY <1>q, <1>4, QuietStep

\* The row a request inserts for a provider.
LEMMA InsertTyped ==
    ASSUME Inv, NEW r \in Request, NEW i \in Identity, NEW u \in User, Insert(r, i, u),
           roles' \subseteq Role
    PROVE  OAuthTyped'
<1>1. PICK k \in Link : links' = [links EXCEPT ![k] = [identity |-> i, user |-> u, raced |-> r \in met,
                                                         told |-> req[r].told]]
  BY DEF Insert, FreeLinks
<1>2. req[r].told \in BOOLEAN /\ (r \in met) \in BOOLEAN /\ links \in [Link -> LinkRow]
  BY DEF Inv, Requests, RequestState, OAuthTyped
<1>3. \A a, b \in BOOLEAN : [identity |-> i, user |-> u, raced |-> a, told |-> b] \in LinkRow
  BY DEF LinkRow
<1>4. links' \in [Link -> LinkRow]
  BY <1>1, <1>2, <1>3
<1>5. \A j \in Link : (links[j].user = None)' = (links[j].identity = None)'
  BY <1>1, <1>2, AccountsAssumption DEF Inv, OAuthTyped
<1>6. QED BY <1>4, <1>5 DEF OAuthTyped

LEMMA OAuthStepInv ==
    ASSUME Inv, NEW r \in Request, OAuthStep(r), UNCHANGED <<emailVars, reauthVars, scenario>>
    PROVE  Inv'
<1> USE DEF At
<1>a. /\ req \in [Request -> RequestState] /\ req[r] \in RequestState /\ Knows(req[r])
      /\ Requests /\ RowsTyped /\ EmailTyped /\ OAuthTyped
  BY DEF Inv, Requests
<1>b. ReAuthTyped' /\ scenario' \in Scenarios
  BY OthersSame DEF Inv
<1>c. DefaultRole \in Role /\ None \notin User \cup Email \cup Role \cup Identity
  BY AccountsAssumption
\* The steps that only move the request.
<1>q. ASSUME KeepRows, UNCHANGED oauthVars, Requests' PROVE Inv'
  BY <1>q, QuietStep
<1>d. ASSUME KeepRows, UNCHANGED oauthVars, Done(r) PROVE Inv'
  BY <1>a, <1>d, <1>q, Quiet, DoneMoves
<1>g. ASSUME KeepRows, UNCHANGED oauthVars, NEW label \in Pc \ {"idle"}, Goto(r, label),
             Knows([req[r] EXCEPT !.pc = label])
      PROVE  Inv'
  BY <1>a, <1>g, <1>q, Quiet, GotoMoves
<1>m. ASSUME KeepRows, NEW q \in RequestState, q.pc # "idle", Knows(q),
             req' = [req EXCEPT ![r] = q], met' = met
      PROVE  Lasting /\ Requests' /\ RowsTyped' /\ EmailTyped'
  BY <1>a, <1>m, Quiet, OneMoves
<1>1. ASSUME LoginLink(r) PROVE Inv'
  <2>0. req[r].pc = "loginLink" /\ KeepRows /\ UNCHANGED oauthVars
    BY <1>1 DEF LoginLink
  <2>1. CASE Goto(r, "loginEmail")
    BY <1>a, <1>g, <2>0, <2>1 DEF Knows, RequestState, Pc
  <2>2. CASE ~Goto(r, "loginEmail")
    <3>1. PICK k \in Link : /\ Visible(links[k].user) /\ links[k].identity = req[r].item
                            /\ req' = [req EXCEPT ![r].pc = "loginRow", ![r].user = links[k].user]
                            /\ met' = met
      BY <1>1, <2>2 DEF LoginLink, Rows
    <3> DEFINE q == [req[r] EXCEPT !.pc = "loginRow", !.user = links[k].user]
    <3>2. links[k].user \in User
      BY <1>a, <1>c, <2>0, <3>1 DEF OAuthTyped, LinkRow, Knows
    <3>3. q \in RequestState /\ q.pc = "loginRow"
      <4>1. "loginRow" \in Pc
        BY DEF Pc
      <4>2. q \in RequestState
        BY <1>a, <3>2, <4>1, StateWithUser
      <4>3. QED BY <1>a, <4>2 DEF RequestState
    <3>4. req' = [req EXCEPT ![r] = q]
      BY <1>a, <3>1
    <3>5. Knows(q)
      BY <1>a, <2>0, <3>2 DEF Knows, RequestState
    <3> HIDE DEF q
    <3>6. QED BY <1>m, <1>q, <2>0, <3>1, <3>3, <3>4, <3>5
  <2>3. QED BY <2>1, <2>2
<1>2. ASSUME LoginEmail(r) PROVE Inv'
  <2>0. req[r].pc = "loginEmail" /\ KeepRows /\ UNCHANGED oauthVars
    BY <1>2 DEF LoginEmail
  <2>1. CASE Goto(r, "loginRole")
    BY <1>a, <1>g, <2>0, <2>1 DEF Knows, RequestState, Pc
  <2>2. CASE ~Goto(r, "loginRole")
    <3>1. PICK u \in User : /\ req' = [req EXCEPT ![r].pc = "loginRow", ![r].user = u]
                            /\ met' = met
      BY <1>2, <2>2 DEF LoginEmail
    <3> DEFINE q == [req[r] EXCEPT !.pc = "loginRow", !.user = u]
    <3>2. q \in RequestState /\ q.pc = "loginRow"
      <4>1. "loginRow" \in Pc
        BY DEF Pc
      <4>2. q \in RequestState
        BY <1>a, <4>1, StateWithUser
      <4>3. QED BY <1>a, <4>2 DEF RequestState
    <3>3. req' = [req EXCEPT ![r] = q]
      BY <1>a, <3>1
    <3>4. Knows(q)
      BY <1>a, <2>0 DEF Knows, RequestState
    <3> HIDE DEF q
    <3>5. QED BY <1>m, <1>q, <2>0, <3>1, <3>2, <3>3, <3>4
  <2>3. QED BY <2>1, <2>2
\* A new user's role is there, or is inserted now.
<1>n. ASSUME KeepRows, req[r].pc \in {"loginRole", "loginNewRole"},
             req' = [req EXCEPT ![r].pc = "loginRow", ![r].fresh = TRUE], met' = met
      PROVE  Lasting /\ Requests' /\ RowsTyped' /\ EmailTyped'
  <2> DEFINE q == [req[r] EXCEPT !.pc = "loginRow", !.fresh = TRUE]
  <2>1. "loginRow" \in Pc
    BY DEF Pc
  <2>2. q \in RequestState
    BY <1>a, <2>1, StateFresh
  <2>3. req' = [req EXCEPT ![r] = q] /\ q.pc # "idle"
    BY <1>a, <1>n DEF RequestState
  <2>4. Knows(q)
    BY <1>a, <1>n DEF Knows, RequestState
  <2> HIDE DEF q
  <2>5. QED BY <1>m, <1>n, <2>2, <2>3, <2>4
<1>3. ASSUME LoginRole(r) PROVE Inv'
  <2>0. req[r].pc = "loginRole" /\ KeepRows /\ UNCHANGED oauthVars
    BY <1>3 DEF LoginRole
  <2>1. CASE Goto(r, "loginNewRole")
    BY <1>a, <1>g, <2>0, <2>1 DEF Knows, RequestState, Pc
  <2>2. CASE ~Goto(r, "loginNewRole")
    BY <1>3, <1>n, <1>q, <2>0, <2>2 DEF LoginRole
  <2>3. QED BY <2>1, <2>2
<1>4. ASSUME LoginNewRole(r) PROVE Inv'
  <2>0. /\ req[r].pc = "loginNewRole" /\ KeepRows /\ links' = links
        /\ roles' = roles \cup {DefaultRole}
    BY <1>4 DEF LoginNewRole
  <2>1. OAuthTyped'
    BY <1>a, <1>c, <2>0 DEF OAuthTyped
  <2>2. CASE Done(r)
    BY <1>a, <1>b, <2>0, <2>1, <2>2, Quiet, DoneMoves DEF Inv
  <2>3. CASE ~Done(r)
    BY <1>4, <1>b, <1>n, <2>0, <2>1, <2>3 DEF LoginNewRole, Inv
  <2>4. QED BY <2>2, <2>3
<1>5. ASSUME LoginRow(r) PROVE Inv'
  <2>0. req[r].pc = "loginRow" /\ KeepRows /\ UNCHANGED oauthVars
    BY <1>5 DEF LoginRow
  <2>1. PICK label \in {"loginInsert", "loginCommit"} : Goto(r, label)
    BY <1>5 DEF LoginRow
  <2>2. Knows([req[r] EXCEPT !.pc = label])
    BY <1>a, <2>0 DEF Knows, RequestState
  <2>3. label \in Pc \ {"idle"}
    BY DEF Pc
  <2>4. QED BY <1>g, <2>0, <2>1, <2>2, <2>3
<1>6. ASSUME LoginCommit(r) PROVE Inv'
  <2> DEFINE i == req[r].item
             e == req[r].email
  <2>0. /\ req[r].pc \in {"loginInsert", "loginCommit"} /\ roles' = roles
        /\ i \in Identity /\ e \in Email /\ e # None
        /\ req[r].fresh \/ req[r].user \in User
    BY <1>6, <1>a DEF LoginCommit, Knows, RequestState
  <2>c. ASSUME NEW u \in User,
               IF At(r, "loginInsert") THEN Insert(r, i, u) ELSE UNCHANGED links,
               req' = [req EXCEPT ![r] = [Idle EXCEPT !.pc = "sessionBegin", !.user = u]],
               met' = met, Lasting
        PROVE  OAuthTyped' /\ Requests'
    <3>1. roles' \subseteq Role
      BY <1>a, <2>0 DEF OAuthTyped
    <3>2. OAuthTyped'
      BY <1>a, <2>0, <2>c, <3>1, InsertTyped DEF OAuthTyped
    <3> DEFINE q == [Idle EXCEPT !.pc = "sessionBegin", !.user = u]
    <3>3. q \in RequestState
      BY IdleOK DEF Idle, RequestState, Pc
    <3>4. Knows(q) /\ q.pc # "idle"
      BY DEF Knows, Idle
    <3> HIDE DEF q
    <3>5. req' = [req EXCEPT ![r] = q]
      BY <2>c DEF q
    <3>6. QED BY <1>a, <2>c, <3>2, <3>3, <3>4, <3>5, OneMoves
  <2>1. CASE KeepRows /\ Done(r) /\ UNCHANGED links
    BY <1>d, <2>0, <2>1 DEF oauthVars
  <2>2. CASE /\ ~req[r].fresh /\ KeepRows
             /\ IF At(r, "loginInsert") THEN Insert(r, i, req[r].user) ELSE UNCHANGED links
             /\ req' = [req EXCEPT ![r] = [Idle EXCEPT !.pc = "sessionBegin", !.user = req[r].user]]
             /\ met' = met
    <3>1. Lasting /\ RowsTyped' /\ EmailTyped'
      BY <2>2, Quiet
    <3>2. QED BY <1>b, <2>0, <2>2, <2>c, <3>1 DEF Inv
  <2>3. ASSUME NEW u \in User,
               Put(u, NewUser(e, DefaultRole)),
               IF At(r, "loginInsert") THEN Insert(r, i, u) ELSE UNCHANGED links,
               req' = [req EXCEPT ![r] = [Idle EXCEPT !.pc = "sessionBegin", !.user = u]],
               met' = met
        PROVE  Inv'
    <3> DEFINE row == NewUser(e, DefaultRole)
    <3>1. row \in UserRow /\ row.email # None /\ row.role # None
      BY <1>c, <2>0, UserOpened
    <3> HIDE DEF row
    <3>2. RowsTyped' /\ \A v \in User : Exists(v) => Exists(v)'
      BY <1>a, <2>3, <3>1, PutRows DEF row
    <3>3. EmailTyped' /\ Lasting
      BY <1>a, <3>2, SameEmail DEF Lasting
    <3>4. QED BY <1>b, <2>3, <2>c, <3>2, <3>3 DEF Inv
  <2>4. QED BY <1>6, <2>1, <2>2, <2>3 DEF LoginCommit
<1>7. ASSUME SessionBegin(r) PROVE Inv'
  <2> DEFINE q == [req[r] EXCEPT !.pc = "sessionUser", !.tx = TRUE]
  <2>1. "sessionUser" \in Pc
    BY DEF Pc
  <2>2. q \in RequestState
    BY <1>a, <2>1, StateMoved
  <2>3. req' = [req EXCEPT ![r] = q] /\ met' = met /\ q.pc = "sessionUser"
    BY <1>a, <1>7 DEF SessionBegin, Enter, RequestState
  <2> HIDE DEF q
  <2>4. Knows(q)
    BY <2>3 DEF Knows
  <2>5. QED BY <1>7, <1>m, <1>q, <2>2, <2>3, <2>4 DEF SessionBegin
<1>8. ASSUME SessionUser(r) PROVE Inv'
  BY <1>8, <1>d DEF SessionUser
<1>9. ASSUME LinkUser(r) PROVE Inv'
  <2>0. req[r].pc = "linkUser" /\ KeepRows /\ UNCHANGED oauthVars
    BY <1>9 DEF LinkUser
  <2>1. CASE Goto(r, "linkRow")
    BY <1>a, <1>g, <2>0, <2>1 DEF Knows, RequestState, Pc
  <2>2. QED BY <1>9, <1>d, <2>1 DEF LinkUser
<1>10. ASSUME LinkRowLookup(r) PROVE Inv'
  <2>0. req[r].pc = "linkRow" /\ KeepRows /\ UNCHANGED oauthVars
    BY <1>10 DEF LinkRowLookup
  <2>1. CASE Goto(r, "linkInsert")
    BY <1>a, <1>g, <2>0, <2>1 DEF Knows, RequestState, Pc
  <2>2. QED BY <1>10, <1>d, <2>1 DEF LinkRowLookup
<1>11. ASSUME LinkInsert(r) PROVE Inv'
  <2>1. /\ req[r].item \in Identity /\ req[r].user \in User /\ roles' = roles /\ KeepRows
        /\ Insert(r, req[r].item, req[r].user) /\ Done(r)
    BY <1>11, <1>a DEF LinkInsert, Knows
  <2>2. OAuthTyped'
    BY <1>a, <2>1, InsertTyped DEF OAuthTyped
  <2>3. QED BY <1>a, <1>b, <2>1, <2>2, Quiet, DoneMoves DEF Inv
<1>12. ASSUME UnlinkFind(r) PROVE Inv'
  <2>0. req[r].pc = "unlink" /\ KeepRows /\ UNCHANGED oauthVars
    BY <1>12 DEF UnlinkFind
  <2>1. CASE Goto(r, "unlinkDelete")
    BY <1>a, <1>g, <2>0, <2>1 DEF Knows, RequestState, Pc
  <2>2. QED BY <1>12, <1>d, <2>1 DEF UnlinkFind
<1>13. ASSUME UnlinkDelete(r) PROVE Inv'
  <2>1. /\ links' = [k \in Link |-> IF links[k].user = req[r].user THEN NoLink ELSE links[k]]
        /\ roles' = roles /\ KeepRows /\ Done(r)
    BY <1>13 DEF UnlinkDelete
  <2>2. NoLink \in LinkRow /\ NoLink.user = None /\ NoLink.identity = None
    BY DEF NoLink, LinkRow
  <2>3. OAuthTyped'
    BY <1>a, <2>1, <2>2 DEF OAuthTyped
  <2>4. QED BY <1>a, <1>b, <2>1, <2>3, Quiet, DoneMoves DEF Inv
<1>14. QED
  BY <1>1, <1>2, <1>3, <1>4, <1>5, <1>6, <1>7, <1>8, <1>9, <1>10, <1>11, <1>12, <1>13 DEF OAuthStep

-----------------------------------------------------------------------------
(* Re-authentication.                                                      *)

LEMMA ReAuthStartInv ==
    ASSUME Inv, NEW r \in Request, ReAuthStart(r), UNCHANGED <<emailVars, oauthVars, scenario>>
    PROVE  Inv'
<1> USE AccountsAssumption
<1>q. KeepRows /\ UNCHANGED reauthVars
  BY DEF ReAuthStart, Reauthenticate, Protected
<1>r. Lasting /\ Requests
  BY <1>q, Quiet DEF Inv
<1>1. ASSUME NEW u \in User, Reauthenticate(r, u)
      PROVE  Requests'
  <2> DEFINE q == [Idle EXCEPT !.pc = "reauthPassword", !.by = u, !.user = u]
  <2>1. q \in RequestState
    BY IdleOK DEF Idle, RequestState, Pc
  <2>2. Knows(q) /\ q.pc # "idle"
    BY DEF Knows, Idle
  <2>3. Start(r, q)
    BY <1>1 DEF Reauthenticate, Call, Idle
  <2>4. QED BY <1>r, <2>1, <2>2, <2>3, StartMoves
<1>2. ASSUME NEW by \in User, NEW c \in Claim, NEW t \in Token, Protected(r, by, c, t)
      PROVE  Requests'
  <2> DEFINE q == [Idle EXCEPT !.pc = "guardFind", !.by = by, !.email = c.email, !.item = t]
  <2>1. q \in RequestState
    BY IdleOK DEF Idle, RequestState, Pc, Claim
  <2>2. Exists(by)
    BY <1>2 DEF Protected, AuthGuard, Visible
  <2>3. Knows(q) /\ q.pc # "idle"
    BY <2>2 DEF Knows, Idle
  <2>4. Start(r, q)
    BY <1>2 DEF Protected
  <2>5. QED BY <1>r, <2>1, <2>3, <2>4, StartMoves
<1>3. Requests'
  BY <1>1, <1>2 DEF ReAuthStart
<1>4. QED BY <1>q, <1>3, QuietStep

\* What a row of a token becomes.
LEMMA TokensTyped ==
    ASSUME ReAuthTyped, NEW r \in Request, NEW ts
    PROVE  /\ Revoked(ts) \in [Token -> TokenRow]
           /\ Pass(r, reauth) \in [Token -> TokenRow]
           /\ Pass(r, Revoked(ts)) \in [Token -> TokenRow]
<1>1. \A row \in TokenRow, b \in BOOLEAN :
         [row EXCEPT !.revoked = b] \in TokenRow /\ [row EXCEPT !.passed = TRUE] \in TokenRow
  BY DEF TokenRow
<1>2. \A row \in TokenRow : row.revoked \in BOOLEAN
  BY DEF TokenRow
<1>3. Revoked(ts) \in [Token -> TokenRow]
  <2>1. \A t \in Token : (reauth[t].revoked \/ t \in ts) \in BOOLEAN
    OBVIOUS
  <2>2. \A t \in Token : [reauth[t] EXCEPT !.revoked = reauth[t].revoked \/ t \in ts] \in TokenRow
    BY <1>1, <2>1 DEF ReAuthTyped
  <2>3. QED BY <2>2 DEF Revoked
<1>4. ASSUME NEW rows \in [Token -> TokenRow] PROVE Pass(r, rows) \in [Token -> TokenRow]
  BY <1>1 DEF Pass
<1>5. QED BY <1>3, <1>4 DEF ReAuthTyped

LEMMA ReAuthStepInv ==
    ASSUME Inv, NEW r \in Request, ReAuthStep(r), UNCHANGED <<emailVars, oauthVars, scenario>>
    PROVE  Inv'
<1> USE DEF At
<1>a. /\ req \in [Request -> RequestState] /\ req[r] \in RequestState /\ Knows(req[r])
      /\ Requests /\ RowsTyped /\ EmailTyped /\ ReAuthTyped
  BY DEF Inv, Requests
<1>b. OAuthTyped' /\ scenario' \in Scenarios
  BY OthersSame DEF Inv
<1>k. ASSUME KeepRows, ReAuthTyped', Requests' PROVE Inv'
  BY <1>b, <1>k, Quiet DEF Inv
<1>d. ASSUME KeepRows, ReAuthTyped', Done(r) PROVE Inv'
  BY <1>a, <1>d, <1>k, Quiet, DoneMoves
<1>g. ASSUME KeepRows, ReAuthTyped', NEW label \in Pc \ {"idle"}, Goto(r, label),
             Knows([req[r] EXCEPT !.pc = label])
      PROVE  Inv'
  BY <1>a, <1>g, <1>k, Quiet, GotoMoves
<1>m. ASSUME KeepRows, ReAuthTyped', NEW q \in RequestState, q.pc # "idle", Knows(q),
             req' = [req EXCEPT ![r] = q], met' = met
      PROVE  Inv'
  BY <1>a, <1>k, <1>m, Quiet, OneMoves
<1>t. UNCHANGED reauthVars => ReAuthTyped'
  BY <1>a, OthersSame
<1>1. ASSUME ReauthPassword(r) PROVE Inv'
  <2>0. KeepRows /\ UNCHANGED reauthVars
    BY <1>1 DEF ReauthPassword
  <2>1. CASE Goto(r, "reauthRevoke")
    BY <1>a, <1>g, <1>t, <2>0, <2>1 DEF Knows, RequestState, Pc
  <2>2. QED BY <1>1, <1>d, <1>t, <2>0, <2>1 DEF ReauthPassword
<1>2. ASSUME ReauthRevoke(r) PROVE Inv'
  <2>1. KeepRows /\ passwords' = passwords /\ Goto(r, "reauthInsert")
        /\ reauth' = Revoked({t \in Token : reauth[t].user = req[r].by})
    BY <1>2 DEF ReauthRevoke
  <2>2. ReAuthTyped'
    BY <1>a, <2>1, TokensTyped DEF ReAuthTyped
  <2>3. "reauthInsert" \in Pc \ {"idle"} /\ Knows([req[r] EXCEPT !.pc = "reauthInsert"])
    BY <1>a DEF Knows, RequestState, Pc
  <2>4. QED BY <1>g, <2>1, <2>2, <2>3
<1>3. ASSUME ReauthInsert(r) PROVE Inv'
  <2>1. PICK t \in FreshTokens :
          reauth' = [reauth EXCEPT ![t] = [NoToken EXCEPT !.user = req[r].by, !.raced = r \in met]]
    BY <1>3 DEF ReauthInsert
  <2> DEFINE row == [NoToken EXCEPT !.user = req[r].by, !.raced = r \in met]
  <2>2. row \in TokenRow
    <3>1. req[r].by \in User \cup {None} /\ (r \in met) \in BOOLEAN
      BY <1>a DEF RequestState
    <3>2. \A u \in User \cup {None}, b \in BOOLEAN : [NoToken EXCEPT !.user = u, !.raced = b] \in TokenRow
      BY DEF NoToken, TokenRow
    <3>3. QED BY <3>1, <3>2
  <2>3. reauth' = [reauth EXCEPT ![t] = row] /\ passwords' = passwords
    BY <1>3, <2>1 DEF ReauthInsert
  <2> HIDE DEF row
  <2>4. ReAuthTyped'
    BY <1>a, <2>2, <2>3 DEF ReAuthTyped
  <2>5. QED BY <1>3, <1>d, <2>4 DEF ReauthInsert
<1>4. ASSUME GuardFind(r) PROVE Inv'
  <2>0. req[r].pc = "guardFind" /\ KeepRows /\ UNCHANGED reauthVars
    BY <1>4 DEF GuardFind
  <2>1. CASE Goto(r, "guardList")
    BY <1>a, <1>g, <1>t, <2>0, <2>1 DEF Knows, RequestState, Pc
  <2>2. QED BY <1>4, <1>d, <1>t, <2>0, <2>1 DEF GuardFind
<1>5. ASSUME GuardList(r) PROVE Inv'
  <2>0. req[r].pc = "guardList" /\ KeepRows /\ passwords' = passwords
    BY <1>5 DEF GuardList
  <2>1. CASE reauth' = Pass(r, reauth) /\ Goto(r, "pwdBegin")
    <3>1. ReAuthTyped'
      BY <1>a, <2>0, <2>1, TokensTyped DEF ReAuthTyped
    <3>2. "pwdBegin" \in Pc \ {"idle"} /\ Knows([req[r] EXCEPT !.pc = "pwdBegin"])
      BY <1>a, <2>0 DEF Knows, RequestState, Pc
    <3>3. QED BY <1>g, <2>0, <2>1, <3>1, <3>2
  <2>2. CASE req' = [req EXCEPT ![r].pc = "guardSave", ![r].rows = Unrevoked] /\ UNCHANGED <<met, reauth>>
    <3> DEFINE q == [req[r] EXCEPT !.pc = "guardSave", !.rows = Unrevoked]
    <3>1. q \in RequestState /\ q.pc = "guardSave"
      <4>1. "guardSave" \in Pc /\ Unrevoked \in SUBSET Token
        BY DEF Pc, Unrevoked
      <4>2. q \in RequestState
        BY <1>a, <4>1, StateWithRows
      <4>3. QED BY <1>a, <4>2 DEF RequestState
    <3>2. Knows(q) /\ req' = [req EXCEPT ![r] = q]
      BY <1>a, <2>0, <2>2 DEF Knows, RequestState
    <3> HIDE DEF q
    <3>3. ReAuthTyped'
      BY <1>t, <2>0, <2>2 DEF reauthVars
    <3>4. QED BY <1>m, <2>0, <2>2, <3>1, <3>2, <3>3
  <2>3. QED BY <1>5, <2>1, <2>2 DEF GuardList
<1>6. ASSUME GuardSave(r) PROVE Inv'
  <2>0. /\ req[r].pc = "guardSave" /\ KeepRows /\ passwords' = passwords /\ met' = met
        /\ req' = [req EXCEPT ![r].pc = "pwdBegin", ![r].rows = {}]
        /\ reauth' = Pass(r, Revoked(req[r].rows))
    BY <1>6 DEF GuardSave
  <2> DEFINE q == [req[r] EXCEPT !.pc = "pwdBegin", !.rows = {}]
  <2>1. q \in RequestState /\ q.pc = "pwdBegin"
    <3>1. "pwdBegin" \in Pc
      BY DEF Pc
    <3>2. q \in RequestState
      BY <1>a, <3>1, StateWithRows
    <3>3. QED BY <1>a, <3>2 DEF RequestState
  <2>2. Knows(q) /\ req' = [req EXCEPT ![r] = q]
    BY <1>a, <2>0 DEF Knows, RequestState
  <2> HIDE DEF q
  <2>3. ReAuthTyped'
    BY <1>a, <2>0, TokensTyped DEF ReAuthTyped
  <2>4. QED BY <1>m, <2>0, <2>1, <2>2, <2>3
<1>7. ASSUME PwdBegin(r) PROVE Inv'
  <2>0. req[r].pc = "pwdBegin" /\ KeepRows /\ ReAuthTyped'
    BY <1>7, <1>t DEF PwdBegin
  <2>1. CASE Done(r)
    BY <1>d, <2>0, <2>1
  <2>2. CASE ~Done(r)
    <3> DEFINE q == [req[r] EXCEPT !.pc = "pwdCredential", !.tx = TRUE]
    <3>1. q \in RequestState /\ q.pc = "pwdCredential"
      <4>1. "pwdCredential" \in Pc
        BY DEF Pc
      <4>2. q \in RequestState
        BY <1>a, <4>1, StateMoved
      <4>3. QED BY <1>a, <4>2 DEF RequestState
    <3>2. Knows(q)
      BY <1>a, <2>0 DEF Knows, RequestState
    <3>3. req' = [req EXCEPT ![r] = q] /\ met' = met
      BY <1>7, <1>a, <2>2 DEF PwdBegin, Enter
    <3> HIDE DEF q
    <3>4. QED BY <1>m, <2>0, <3>1, <3>2, <3>3
  <2>3. QED BY <2>1, <2>2
\* The account found for the address.
<1>u. ASSUME KeepRows, UNCHANGED reauthVars, NEW label \in {"pwdWrite", "pwdNew"}, NEW v \in User,
             req[r].pc \in {"pwdCredential", "pwdUser"},
             req' = [req EXCEPT ![r].pc = label, ![r].user = v], met' = met
      PROVE  Inv'
  <2> DEFINE q == [req[r] EXCEPT !.pc = label, !.user = v]
  <2>1. q \in RequestState /\ q.pc = label
    <3>1. label \in Pc
      BY DEF Pc
    <3>2. q \in RequestState
      BY <1>a, <3>1, StateWithUser
    <3>3. QED BY <1>a, <3>2 DEF RequestState
  <2>2. Knows(q) /\ req' = [req EXCEPT ![r] = q] /\ label # "idle"
    BY <1>a, <1>u DEF Knows, RequestState
  <2> HIDE DEF q
  <2>3. QED BY <1>m, <1>t, <1>u, <2>1, <2>2
<1>8. ASSUME PwdCredential(r) PROVE Inv'
  <2>0. req[r].pc = "pwdCredential" /\ KeepRows /\ UNCHANGED reauthVars
    BY <1>8 DEF PwdCredential
  <2>1. CASE Goto(r, "pwdUser")
    BY <1>a, <1>g, <1>t, <2>0, <2>1 DEF Knows, RequestState, Pc
  <2>2. CASE ~Goto(r, "pwdUser")
    <3>1. PICK v \in User : req' = [req EXCEPT ![r].pc = "pwdWrite", ![r].user = v] /\ met' = met
      BY <1>8, <2>2 DEF PwdCredential, OwnerOf
    <3>2. QED BY <1>u, <2>0, <3>1
  <2>3. QED BY <2>1, <2>2
<1>9. ASSUME PwdUser(r) PROVE Inv'
  <2>0. req[r].pc = "pwdUser" /\ KeepRows /\ UNCHANGED reauthVars
    BY <1>9 DEF PwdUser
  <2>1. CASE Done(r)
    BY <1>d, <1>t, <2>0, <2>1
  <2>2. CASE ~Done(r)
    <3>1. PICK v \in User : req' = [req EXCEPT ![r].pc = "pwdNew", ![r].user = v] /\ met' = met
      BY <1>9, <2>2 DEF PwdUser, OwnerOf
    <3>2. QED BY <1>u, <2>0, <3>1
  <2>3. QED BY <2>1, <2>2
<1>10. ASSUME PwdNew(r) PROVE Inv'
  <2>0. req[r].pc = "pwdNew" /\ KeepRows /\ UNCHANGED reauthVars
    BY <1>10 DEF PwdNew
  <2>1. CASE Done(r)
    BY <1>d, <1>t, <2>0, <2>1
  <2>2. CASE ~Done(r)
    <3> DEFINE q == [req[r] EXCEPT !.pc = "pwdWrite", !.fresh = TRUE]
    <3>1. q \in RequestState /\ q.pc = "pwdWrite"
      <4>1. "pwdWrite" \in Pc
        BY DEF Pc
      <4>2. q \in RequestState
        BY <1>a, <4>1, StateFresh
      <4>3. QED BY <1>a, <4>2 DEF RequestState
    <3>2. Knows(q)
      BY <1>a, <2>0 DEF Knows, RequestState
    <3>3. req' = [req EXCEPT ![r] = q] /\ met' = met
      BY <1>10, <1>a, <2>2 DEF PwdNew
    <3> HIDE DEF q
    <3>4. QED BY <1>m, <1>t, <2>0, <3>1, <3>2, <3>3
  <2>3. QED BY <2>1, <2>2
<1>11. ASSUME PwdWrite(r) PROVE Inv'
  <2> DEFINE by == req[r].by
  <2>0. by \in User /\ Exists(by) /\ Done(r) /\ reauth' = reauth
    BY <1>11, <1>a DEF PwdWrite, Knows
  <2>1. CASE KeepRows /\ passwords' = passwords
    BY <1>d, <1>t, <2>0, <2>1 DEF reauthVars
  <2>2. ASSUME NEW n \in FreshSecrets(by), Put(by, [users[by] EXCEPT !.secret = n]),
               passwords' = [passwords EXCEPT ![req[r].user] = by]
        PROVE  Inv'
    <3> DEFINE row == [users[by] EXCEPT !.secret = n]
    <3>1. row \in UserRow /\ row.email # None /\ row.role # None
      BY <1>a, <2>0 DEF RowsTyped, UserRow, Exists, FreshSecrets
    <3> HIDE DEF row
    <3>2. RowsTyped' /\ \A v \in User : Exists(v) => Exists(v)'
      BY <1>a, <2>0, <2>2, <3>1, PutRows DEF row
    <3>3. EmailTyped' /\ Lasting
      BY <1>a, <3>2, SameEmail DEF Lasting
    <3>4. ReAuthTyped'
      BY <1>a, <2>0, <2>2 DEF ReAuthTyped
    <3>5. QED BY <1>a, <1>b, <2>0, <3>2, <3>3, <3>4, DoneMoves DEF Inv
  <2>3. QED BY <1>11, <2>1, <2>2 DEF PwdWrite
<1>12. QED
  BY <1>1, <1>2, <1>3, <1>4, <1>5, <1>6, <1>7, <1>8, <1>9, <1>10, <1>11 DEF ReAuthStep

-----------------------------------------------------------------------------
(* The administrator's handlers.                                           *)

LEMMA RoleStartInv ==
    ASSUME Inv, NEW r \in Request, NEW by \in User, NEW u \in User, NEW role \in Role,
           ChangeRole(r, by, u, role) \/ Remove(r, by, u),
           UNCHANGED <<emailVars, oauthVars, reauthVars, scenario>>
    PROVE  Inv'
<1> USE AccountsAssumption
<1>q. KeepRows /\ Lasting /\ Requests
  BY Quiet DEF ChangeRole, Remove, Inv
<1>1. ASSUME ChangeRole(r, by, u, role) PROVE Requests'
  <2> DEFINE q == [Idle EXCEPT !.pc = "changeRole", !.role = role, !.by = by, !.user = u]
  <2>1. q \in RequestState
    BY IdleOK DEF Idle, RequestState, Pc
  <2>2. Knows(q) /\ q.pc # "idle"
    BY DEF Knows, Idle
  <2>3. Start(r, q)
    BY <1>1 DEF ChangeRole, Call, Idle
  <2>4. QED BY <1>q, <2>1, <2>2, <2>3, StartMoves
<1>2. ASSUME Remove(r, by, u) PROVE Requests'
  <2> DEFINE q == [Idle EXCEPT !.pc = "remove", !.by = by, !.user = u]
  <2>1. q \in RequestState
    BY IdleOK DEF Idle, RequestState, Pc
  <2>2. Knows(q) /\ q.pc # "idle"
    BY DEF Knows, Idle
  <2>3. Start(r, q)
    BY <1>2 DEF Remove, Call, Idle
  <2>4. QED BY <1>q, <2>1, <2>2, <2>3, StartMoves
<1>3. QED BY <1>q, <1>1, <1>2, QuietStep

LEMMA RoleStepInv ==
    ASSUME Inv, NEW r \in Request, RoleStep(r),
           UNCHANGED <<emailVars, oauthVars, reauthVars, scenario>>
    PROVE  Inv'
<1> USE DEF At
<1>a. /\ req \in [Request -> RequestState] /\ req[r] \in RequestState /\ Knows(req[r])
      /\ Requests /\ RowsTyped /\ EmailTyped
  BY DEF Inv, Requests
<1>o. OAuthTyped' /\ ReAuthTyped' /\ scenario' \in Scenarios
  BY OthersSame DEF Inv
<1>p. ASSUME NEW u \in User, NEW row \in UserRow, row.email # None, row.role # None,
             Put(u, row), Done(r)
      PROVE  Inv'
  <2>1. RowsTyped' /\ \A v \in User : Exists(v) => Exists(v)'
    BY <1>a, <1>p, PutRows
  <2>2. EmailTyped' /\ Lasting
    BY <1>a, <2>1, SameEmail DEF Lasting
  <2>3. QED BY <1>a, <1>o, <1>p, <2>1, <2>2, DoneMoves DEF Inv
<1>d. ASSUME KeepRows, Done(r) PROVE Inv'
  BY <1>a, <1>d, Quiet, DoneMoves, QuietStep
<1>1. ASSUME ChangeRoleFind(r) PROVE Inv'
  <2>0. req[r].pc = "changeRole" /\ KeepRows
    BY <1>1 DEF ChangeRoleFind
  <2>1. CASE Done(r)
    BY <1>d, <2>0, <2>1
  <2>2. CASE ~Done(r)
    <3> DEFINE row == users[req[r].user]
               q == [req[r] EXCEPT !.pc = "roleSave", !.seen = row]
    <3>1. req[r].user \in User /\ Exists(req[r].user) /\ req' = [req EXCEPT ![r] = q] /\ met' = met
      BY <1>1, <1>a, <2>0, <2>2 DEF ChangeRoleFind, Knows, Visible
    <3>2. row \in UserRow /\ row.email # None /\ row.role # None
      BY <1>a, <3>1 DEF RowsTyped, Exists
    <3>3. q \in RequestState /\ q.pc = "roleSave" /\ q.seen = row
      <4>1. "roleSave" \in Pc
        BY DEF Pc
      <4>2. q \in RequestState
        BY <1>a, <3>2, <4>1, StateWithSeen
      <4>3. QED BY <1>a, <4>2 DEF RequestState
    <3>4. Knows(q)
      BY <1>a, <2>0, <3>1, <3>2, <3>3 DEF Knows, RequestState
    <3> HIDE DEF q
    <3>5. Requests'
      BY <1>a, <2>0, <3>1, <3>3, <3>4, Quiet, OneMoves
    <3>6. QED BY <2>0, <3>5, QuietStep
  <2>3. QED BY <2>1, <2>2
<1>2. ASSUME RoleSave(r) PROVE Inv'
  <2> DEFINE u == req[r].user
             seen == req[r].seen
             row == [users[u] EXCEPT !.role = req[r].role, !.email = seen.email, !.secret = seen.secret]
  <2>0. /\ u \in User /\ seen \in UserRow /\ seen.email # None /\ req[r].role \in Role
        /\ req[r].role # None /\ users[u] \in UserRow
    BY <1>2, <1>a DEF RoleSave, Knows, RequestState, RowsTyped
  <2>1. row \in UserRow /\ row.email # None /\ row.role # None
    BY <2>0 DEF UserRow
  <2>2. (KeepRows \/ Put(u, row)) /\ Done(r)
    BY <1>2 DEF RoleSave
  <2> HIDE DEF row, u
  <2>3. QED BY <1>d, <1>p, <2>0, <2>1, <2>2
<1>3. ASSUME RemoveRow(r) PROVE Inv'
  <2> DEFINE u == req[r].user
             row == [users[u] EXCEPT !.deleted = TRUE]
  <2>0. u \in User
    BY <1>3, <1>a DEF RemoveRow, Knows
  <2>1. CASE KeepRows /\ Exit
    BY <1>a, <2>1, ExitMoves, QuietStep
  <2>2. CASE Visible(u) /\ Put(u, row) /\ Done(r)
    <3>1. row \in UserRow /\ row.email # None /\ row.role # None
      BY <1>a, <2>0, <2>2 DEF RowsTyped, UserRow, Visible, Exists
    <3> HIDE DEF row, u
    <3>2. QED BY <1>p, <2>0, <2>2, <3>1
  <2>3. QED BY <1>3, <2>1, <2>2 DEF RemoveRow
<1>4. QED BY <1>1, <1>2, <1>3 DEF RoleStep

-----------------------------------------------------------------------------
(* The theorem.                                                            *)

LEMMA InitInv == Init => Inv
<1> SUFFICES ASSUME Init PROVE Inv
  OBVIOUS
<1> USE AccountsAssumption
<1>0. /\ scenario \in Scenarios /\ scenario.first \in [User -> Email \cup {None}]
      /\ scenario.past \in [User -> SUBSET Email]
      /\ \A u \in User : scenario.first[u] = None => scenario.past[u] = {}
  BY DEF Init, RowsInit, Scenario
<1>1. NoUser \in UserRow /\ NoUser.email = None /\ NoUser.role = None
  BY DEF NoUser, UserRow
<1>2. /\ users \in [User -> UserRow]
      /\ \A u \in User : (users[u].role = None) = (users[u].email = None)
      /\ \A u \in User : users[u].email = scenario.first[u]
  <2>1. \A u \in User : scenario.first[u] # None =>
          /\ NewUser(scenario.first[u], FirstRole[u]) \in UserRow
          /\ NewUser(scenario.first[u], FirstRole[u]).email = scenario.first[u]
          /\ NewUser(scenario.first[u], FirstRole[u]).role # None
    BY <1>0, UserOpened
  <2>2. users = [u \in User |-> IF scenario.first[u] = None THEN NoUser
                                ELSE NewUser(scenario.first[u], FirstRole[u])]
    BY DEF Init, RowsInit
  <2>3. QED BY <1>1, <2>1, <2>2
<1>3. access \in [User -> SUBSET Claim]
  <2>1. ASSUME NEW u \in User, NEW e \in scenario.past[u] \cup {users[u].email}
        PROVE  ClaimsOf([users[u] EXCEPT !.email = e]) \subseteq Claim
    <3>1. e \in Email \cup {None} /\ users[u] \in UserRow
      BY <1>0, <1>2 DEF UserRow
    <3>2. e # None => users[u].role \in Role
      BY <1>0, <1>2, <3>1 DEF UserRow
    <3>3. QED BY <3>1, <3>2 DEF ClaimsOf, Claim, UserRow
  <2> DEFINE signed(u) == {ClaimsOf([users[u] EXCEPT !.email = e]) :
                             e \in scenario.past[u] \cup {users[u].email}}
             claims(u) == UNION signed(u)
  <2>2. ASSUME NEW u \in User PROVE claims(u) \in SUBSET Claim
    <3> DEFINE before == scenario.past[u] \cup {users[u].email}
               claim(e) == ClaimsOf([users[u] EXCEPT !.email = e])
    <3>0. \A e \in before : claim(e) \subseteq Claim
      BY <2>1
    <3>1. \A s \in signed(u) : s \subseteq Claim
      <4>1. signed(u) = {claim(e) : e \in before}
        OBVIOUS
      <4> HIDE DEF claim, before, signed
      <4>2. QED BY <3>0, <4>1
    <3> HIDE DEF signed
    <3>2. QED BY <3>1
  <2>3. access = [u \in User |-> claims(u)]
    BY DEF Init, RowsInit
  <2> HIDE DEF claims
  <2>4. QED BY <2>2, <2>3
<1>4. RowsTyped
  BY <1>2, <1>3 DEF RowsTyped
<1>5. req = [r \in Request |-> Idle] /\ met = {}
  BY DEF Init, RowsInit
<1>6. Requests
  BY <1>5, IdleOK DEF Requests, At, Busy
<1>7. EmailTyped
  <2>1. NoChange \in ChangeRow /\ NoChange.user = None /\ NoLog \in LogRow /\ NoLog.user = None
    BY DEF NoChange, ChangeRow, NoLog, LogRow
  <2>2. QED BY <2>1 DEF Init, EmailInit, EmailTyped, Stored, Logged
<1>8. OAuthTyped
  BY DEF Init, OAuthInit, OAuthTyped, NoLink, LinkRow
<1>9. ReAuthTyped
  BY DEF Init, ReAuthInit, ReAuthTyped, NoToken, TokenRow
<1>10. QED BY <1>0, <1>4, <1>6, <1>7, <1>8, <1>9 DEF Inv

LEMMA NextInv == Inv /\ [Next]_vars => Inv'
<1> SUFFICES ASSUME Inv, [Next]_vars PROVE Inv'
  OBVIOUS
<1>1. CASE UNCHANGED vars
  <2>1. KeepRows /\ req' = req /\ met' = met /\ scenario' = scenario
        /\ UNCHANGED emailVars /\ UNCHANGED oauthVars /\ UNCHANGED reauthVars
    BY <1>1 DEF vars, rowVars, KeepRows
  <2>2. Lasting
    BY <2>1, Quiet
  <2>3. \A r \in Request : Knows(req[r])'
    <3>1. \A r \in Request : Knows(req[r])
      BY DEF Inv, Requests
    <3>2. \A u \in User : Exists(u)' = Exists(u)
      BY <2>1, SameRows DEF Inv
    <3>3. (\A c \in Change : Stored(c)' = Stored(c)) /\ (\A l \in Log : Logged(l)' = Logged(l))
      BY <2>1 DEF emailVars, Stored, Logged
    <3>4. QED BY <2>1, <3>1, <3>2, <3>3 DEF Knows
  <2>4. Requests'
    BY <2>1, <2>3 DEF Inv, Requests, Busy, At
  <2>5. QED BY <2>1, <2>4, QuietStep
<1>2. ASSUME Next PROVE Inv'
  <2>1. PICK r \in Request : Begin(r) \/ Step(r)
    BY <1>2 DEF Next
  <2>2. scenario' = scenario
    BY <1>2 DEF Next
  <2>3. ASSUME Begin(r) PROVE Inv'
    <3>1. CASE EmailStart(r) /\ UNCHANGED <<oauthVars, reauthVars>>
      BY <2>2, <3>1, EmailStartInv
    <3>2. CASE OAuthStart(r) /\ UNCHANGED <<emailVars, reauthVars>>
      BY <2>2, <3>2, OAuthStartInv
    <3>3. CASE ReAuthStart(r) /\ UNCHANGED <<emailVars, oauthVars>>
      BY <2>2, <3>3, ReAuthStartInv
    <3>4. ASSUME NEW by \in User, NEW u \in User, NEW role \in Role,
                 ChangeRole(r, by, u, role) \/ Remove(r, by, u),
                 UNCHANGED <<emailVars, oauthVars, reauthVars>>
          PROVE  Inv'
      BY <2>2, <3>4, RoleStartInv
    <3>5. DefaultRole \in Role
      BY AccountsAssumption
    <3>6. QED BY <2>3, <3>1, <3>2, <3>3, <3>4, <3>5 DEF Begin
  <2>4. ASSUME Step(r) PROVE Inv'
    BY <2>2, <2>4, EmailStepInv, OAuthStepInv, ReAuthStepInv, RoleStepInv DEF Step
  <2>5. QED BY <2>1, <2>3, <2>4
<1>3. QED BY <1>1, <1>2

\* Whatever is called, whatever fails and whichever requests overlap: rows are
\* whole or absent, a request in flight knows the rows it is going to write, and
\* a request that has ended, failed or been lost has left nothing behind.
THEOREM TypeCorrect == Spec => []TypeOK
<1>1. Inv => TypeOK
  BY InvType
<1>2. QED BY InitInv, NextInv, <1>1, PTL DEF Spec

-----------------------------------------------------------------------------
(* The connections of the pool.                                            *)

InTransaction == Waiting \cup Unaided

\* A request holds a connection from BEGIN to COMMIT, and at no other step.
Placed(q) == q.tx <=> q.pc \in InTransaction

PoolInv == Cardinality(Holding) <= PoolSize /\ \A r \in Request : Placed(req[r])

\* A step of r, which takes a connection for its transaction only from the pool.
Takes(r) ==
    /\ \A p \in Request \ {r} : req'[p] = req[p]
    /\ Placed(req[r])'
    /\ req[r].tx' => req[r].tx \/ Free

LEMMA InitPool == Init => PoolInv
<1> SUFFICES ASSUME Init PROVE PoolInv
  OBVIOUS
<1>1. req = [r \in Request |-> Idle]
  BY DEF Init, RowsInit
<1>2. Holding = {}
  BY <1>1 DEF Holding, Idle
<1>3. \A r \in Request : Placed(req[r])
  BY <1>1 DEF Placed, Idle, InTransaction, Waiting, Unaided
<1>4. QED BY <1>2, <1>3, FS_EmptySet, AccountsAssumption DEF PoolInv

LEMMA EmailTakes ==
    ASSUME req \in [Request -> RequestState], NEW r \in Request, Placed(req[r]),
           EmailStart(r) \/ EmailStep(r)
    PROVE  Takes(r) \/ Exit
<1> USE DEF Takes, Placed, InTransaction, Waiting, Unaided, At, RequestState
<1>1. ASSUME NEW by \in User, NEW u \in User, NEW e \in Email \cup {None}, Update(r, by, u, e)
      PROVE  Takes(r)
  BY <1>1 DEF Update, Call, Start, Idle
<1>2. ASSUME NEW q \in Change, Confirm(r, q) PROVE Takes(r)
  BY <1>2 DEF Confirm, Start, Idle
<1>3. ASSUME NEW l \in Log, Rollback(r, l) PROVE Takes(r)
  BY <1>3 DEF Rollback, Start, Idle
<1>4. ASSUME UpdateFind(r) PROVE Takes(r) \/ Exit
  BY <1>4 DEF UpdateFind
<1>5. ASSUME UpdateCheck(r) PROVE Takes(r)
  BY <1>5 DEF UpdateCheck, Goto, Done, Idle
<1>6. ASSUME UpdateWrite(r) \/ UpdateCommit(r) \/ RollbackWrite(r) \/ ConfirmMail(r) PROVE Takes(r)
  BY <1>6 DEF UpdateWrite, UpdateCommit, RollbackWrite, ConfirmMail, Done, Idle
<1>7. ASSUME UpdateMail(r) PROVE Takes(r)
  BY <1>7 DEF UpdateMail, Done, Idle
<1>8. ASSUME ConfirmBegin(r) PROVE Takes(r)
  BY <1>8 DEF ConfirmBegin, Enter
<1>9. ASSUME ConfirmUser(r) PROVE Takes(r)
  BY <1>9 DEF ConfirmUser, Goto, Done, Idle
<1>10. ASSUME ConfirmWrite(r) PROVE Takes(r)
  BY <1>10 DEF ConfirmWrite, Done, Idle
<1> HIDE DEF Takes
<1>11. QED
  BY <1>1, <1>2, <1>3, <1>4, <1>5, <1>6, <1>7, <1>8, <1>9, <1>10 DEF EmailStart, EmailStep

LEMMA OAuthTakes ==
    ASSUME req \in [Request -> RequestState], NEW r \in Request, Placed(req[r]),
           OAuthStart(r) \/ OAuthStep(r)
    PROVE  Takes(r)
<1> USE DEF Takes, Placed, InTransaction, Waiting, Unaided, At, RequestState
<1>1. ASSUME NEW i \in Identity, NEW e \in Email, OauthLogin(r, i, e) PROVE Takes(r)
  BY <1>1 DEF OauthLogin, Start, Idle
<1>2. ASSUME NEW u \in User, NEW i \in Identity, LinkProvider(r, u, i) PROVE Takes(r)
  BY <1>2 DEF LinkProvider, Start, Idle
<1>3. ASSUME NEW u \in User, UnlinkProvider(r, u) PROVE Takes(r)
  BY <1>3 DEF UnlinkProvider, Call, Start, Idle
<1>4. ASSUME LoginLink(r) PROVE Takes(r)
  BY <1>4 DEF LoginLink, Goto
<1>5. ASSUME LoginEmail(r) PROVE Takes(r)
  BY <1>5 DEF LoginEmail, Goto
<1>6. ASSUME LoginRole(r) \/ LoginNewRole(r) PROVE Takes(r)
  BY <1>6 DEF LoginRole, LoginNewRole, Goto, Done, Idle
<1>7. ASSUME LoginRow(r) PROVE Takes(r)
  BY <1>7 DEF LoginRow, Goto
<1>8. ASSUME LoginCommit(r) PROVE Takes(r)
  <2>1. ASSUME NEW u, req' = [req EXCEPT ![r] = [Idle EXCEPT !.pc = "sessionBegin", !.user = u]]
        PROVE  Takes(r)
    BY <2>1 DEF Idle
  <2>2. ASSUME Done(r) PROVE Takes(r)
    BY <2>2 DEF Done, Idle
  <2> HIDE DEF Takes
  <2>3. QED BY <1>8, <2>1, <2>2 DEF LoginCommit
<1>9. ASSUME SessionBegin(r) PROVE Takes(r)
  BY <1>9 DEF SessionBegin, Enter
<1>10. ASSUME SessionUser(r) \/ LinkInsert(r) \/ UnlinkDelete(r) PROVE Takes(r)
  BY <1>10 DEF SessionUser, LinkInsert, UnlinkDelete, Done, Idle
<1>11. ASSUME LinkUser(r) \/ LinkRowLookup(r) \/ UnlinkFind(r) PROVE Takes(r)
  BY <1>11 DEF LinkUser, LinkRowLookup, UnlinkFind, Goto, Done, Idle
<1> HIDE DEF Takes
<1>12. QED
  BY <1>1, <1>2, <1>3, <1>4, <1>5, <1>6, <1>7, <1>8, <1>9, <1>10, <1>11 DEF OAuthStart, OAuthStep

LEMMA ReAuthTakes ==
    ASSUME req \in [Request -> RequestState], NEW r \in Request, Placed(req[r]),
           ReAuthStart(r) \/ ReAuthStep(r)
    PROVE  Takes(r)
<1> USE DEF Takes, Placed, InTransaction, Waiting, Unaided, At, RequestState
<1>1. ASSUME NEW u \in User, Reauthenticate(r, u) PROVE Takes(r)
  BY <1>1 DEF Reauthenticate, Call, Start, Idle
<1>2. ASSUME NEW by \in User, NEW c \in Claim, NEW t \in Token, Protected(r, by, c, t) PROVE Takes(r)
  BY <1>2 DEF Protected, Start, Idle
<1>3. ASSUME ReauthPassword(r) \/ ReauthRevoke(r) \/ ReauthInsert(r) PROVE Takes(r)
  BY <1>3 DEF ReauthPassword, ReauthRevoke, ReauthInsert, Goto, Done, Idle
<1>4. ASSUME GuardFind(r) \/ GuardList(r) \/ GuardSave(r) PROVE Takes(r)
  BY <1>4 DEF GuardFind, GuardList, GuardSave, Goto, Done, Idle
<1>5. ASSUME PwdBegin(r) PROVE Takes(r)
  BY <1>5 DEF PwdBegin, Enter, Done, Idle
<1>6. ASSUME PwdCredential(r) PROVE Takes(r)
  BY <1>6 DEF PwdCredential, Goto
<1>7. ASSUME PwdUser(r) \/ PwdNew(r) \/ PwdWrite(r) PROVE Takes(r)
  BY <1>7 DEF PwdUser, PwdNew, PwdWrite, Done, Idle
<1> HIDE DEF Takes
<1>8. QED BY <1>1, <1>2, <1>3, <1>4, <1>5, <1>6, <1>7 DEF ReAuthStart, ReAuthStep

LEMMA RoleTakes ==
    ASSUME req \in [Request -> RequestState], NEW r \in Request, Placed(req[r]),
           \/ \E by, u \in User, role \in Role : ChangeRole(r, by, u, role)
           \/ \E by, u \in User : Remove(r, by, u)
           \/ RoleStep(r)
    PROVE  Takes(r) \/ Exit
<1> USE DEF Takes, Placed, InTransaction, Waiting, Unaided, At, RequestState
<1>1. ASSUME NEW by \in User, NEW u \in User, NEW role \in Role, ChangeRole(r, by, u, role)
      PROVE  Takes(r)
  BY <1>1 DEF ChangeRole, Call, Start, Idle
<1>2. ASSUME NEW by \in User, NEW u \in User, Remove(r, by, u) PROVE Takes(r)
  BY <1>2 DEF Remove, Call, Start, Idle
<1>3. ASSUME ChangeRoleFind(r) \/ RoleSave(r) \/ RemoveRow(r) PROVE Takes(r) \/ Exit
  BY <1>3 DEF ChangeRoleFind, RoleSave, RemoveRow, Done, Idle
<1> HIDE DEF Takes
<1>4. QED BY <1>1, <1>2, <1>3 DEF RoleStep

LEMMA NextPool == Inv /\ PoolInv /\ [Next]_vars => PoolInv'
<1> SUFFICES ASSUME Inv, PoolInv, [Next]_vars PROVE PoolInv'
  OBVIOUS
<1>0. /\ req \in [Request -> RequestState] /\ \A r \in Request : Placed(req[r])
      /\ IsFiniteSet(Holding) /\ Cardinality(Holding) <= PoolSize /\ PoolSize \in Nat
  <2>1. Holding \in SUBSET Request
    BY DEF Holding
  <2>2. QED BY <2>1, FS_Subset, AccountsAssumption DEF Inv, Requests, PoolInv
<1>1. CASE Exit
  <2>1. \A r \in Request : req'[r] = Idle
    BY <1>1 DEF Exit
  <2>2. Holding' = {}
    BY <2>1 DEF Holding, Idle
  <2>3. \A r \in Request : Placed(req[r])'
    BY <2>1 DEF Placed, Idle, InTransaction, Waiting, Unaided
  <2>4. QED BY <1>0, <2>2, <2>3, FS_EmptySet DEF PoolInv
<1>2. ASSUME NEW r \in Request, Takes(r) PROVE PoolInv'
  <2>1. \A p \in Request : Placed(req[p])'
    BY <1>0, <1>2 DEF Takes, Placed
  <2>2. CASE req[r].tx \/ ~req[r].tx'
    <3>1. Holding' \in SUBSET Holding
      BY <1>2, <2>2 DEF Takes, Holding
    <3>2. Cardinality(Holding') <= Cardinality(Holding) /\ Cardinality(Holding') \in Nat
      BY <1>0, <3>1, FS_Subset, FS_CardinalityType
    <3>3. QED BY <1>0, <2>1, <3>2, FS_CardinalityType DEF PoolInv
  <2>3. CASE ~req[r].tx /\ Free
    <3>1. Holding' \in SUBSET (Holding \cup {r})
      BY <1>2 DEF Takes, Holding
    <3>2. /\ IsFiniteSet(Holding \cup {r})
          /\ Cardinality(Holding \cup {r}) <= PoolSize /\ Cardinality(Holding \cup {r}) \in Nat
      BY <1>0, <2>3, FS_AddElement, FS_CardinalityType DEF Free
    <3>3. Cardinality(Holding') <= Cardinality(Holding \cup {r}) /\ Cardinality(Holding') \in Nat
      BY <3>1, <3>2, FS_Subset, FS_CardinalityType
    <3>4. QED BY <1>0, <2>1, <3>2, <3>3 DEF PoolInv
  <2>4. QED BY <1>2, <2>2, <2>3 DEF Takes
<1>3. CASE Next
  <2>1. PICK r \in Request : Begin(r) \/ Step(r)
    BY <1>3 DEF Next
  <2>2. Takes(r) \/ Exit
    BY <1>0, <2>1, EmailTakes, OAuthTakes, ReAuthTakes, RoleTakes DEF Begin, Step
  <2>3. QED BY <1>1, <1>2, <2>2
<1>4. CASE UNCHANGED vars
  BY <1>4 DEF vars, rowVars, PoolInv, Holding, Placed
<1>5. QED BY <1>3, <1>4

LEMMA PoolServed == Inv /\ PoolInv => PoolServes
<1> SUFFICES ASSUME Inv, PoolInv PROVE PoolServes
  OBVIOUS
<1>1. ASSUME NEW b \in Busy, ~Wedged PROVE \E r \in Busy : Free \/ req[r].pc \in Unaided
  <2>1. CASE Free
    BY <1>1, <2>1
  <2>2. CASE ~Free
    <3>1. PICK r \in Holding : req[r].pc \notin Waiting
      BY <1>1, <2>2 DEF Wedged
    <3>2. req[r].pc \in Unaided /\ r \in Request
      BY <3>1 DEF PoolInv, Placed, Holding, InTransaction
    <3>3. r \in Busy
      BY <3>2 DEF Busy, At, Unaided
    <3>4. QED BY <3>2, <3>3
  <2>3. QED BY <2>1, <2>2
<1>2. QED BY <1>1 DEF PoolServes, PoolInv

\* However a request ends its connection goes back: the pool is never overdrawn,
\* and unless every holder waits for another connection some request can go on.
THEOREM PoolNeverLost == Spec => []PoolServes
<1>1. Init => Inv /\ PoolInv
  BY InitInv, InitPool
<1>2. Inv /\ PoolInv /\ [Next]_vars => (Inv /\ PoolInv)'
  BY NextInv, NextPool
<1>3. Inv /\ PoolInv => PoolServes
  BY PoolServed
<1>4. QED BY <1>1, <1>2, <1>3, PTL DEF Spec

-----------------------------------------------------------------------------
(* The pool that is wedged, and the pool that never is.                    *)

\* A step of r that neither takes a connection nor gives one back.
Aside(r) ==
    /\ r \notin Holding /\ r \notin Holding'
    /\ \A p \in Request \ {r} : req'[p] = req[p]

LEMMA WedgedHolder ==
    ASSUME Wedged, NEW r \in Request, Placed(req[r])
    PROVE  req[r].pc \notin Unaided
BY DEF Wedged, Holding, Placed, InTransaction, Waiting, Unaided

LEMMA WedgedStart == ASSUME Wedged, NEW r \in Request PROVE ~Begin(r)
<1> USE DEF Wedged, Start, Call
<1>1. ~EmailStart(r)
  BY DEF EmailStart, Update, Confirm, Rollback
<1>2. ~OAuthStart(r)
  BY DEF OAuthStart, OauthLogin, LinkProvider, UnlinkProvider
<1>3. ~ReAuthStart(r)
  BY DEF ReAuthStart, Reauthenticate, Protected
<1>4. \A by, u \in User, role \in Role : ~ChangeRole(r, by, u, role) /\ ~Remove(r, by, u)
  BY DEF ChangeRole, Remove
<1>5. \A by, u \in User : ~Remove(r, by, u)
  BY DEF Remove
<1>6. QED BY <1>1, <1>2, <1>3, <1>4, <1>5 DEF Begin

LEMMA EndsAside ==
    ASSUME req \in [Request -> RequestState], NEW r \in Request, ~req[r].tx, Done(r)
    PROVE  Aside(r)
BY DEF Done, Aside, Holding, Idle

LEMMA WedgedStep ==
    ASSUME req \in [Request -> RequestState], Wedged, NEW r \in Request, Placed(req[r]), Step(r)
    PROVE  Aside(r)
<1>1. ~Free /\ req[r].pc \notin Unaided
  BY WedgedHolder DEF Wedged
<1>2. CASE EmailStep(r)
  <2>1. ConfirmMail(r)
    BY <1>1, <1>2 DEF EmailStep, UpdateFind, UpdateCheck, UpdateWrite, UpdateMail, UpdateCommit,
       ConfirmBegin, ConfirmUser, ConfirmWrite, RollbackWrite, Enter, At, Unaided
  <2>2. ~req[r].tx /\ Done(r)
    BY <2>1 DEF ConfirmMail, At, Placed, InTransaction, Waiting, Unaided
  <2>3. QED BY <2>2, EndsAside
<1>3. CASE OAuthStep(r)
  BY <1>1, <1>3 DEF OAuthStep, LoginLink, LoginEmail, LoginRole, LoginNewRole, LoginRow, LoginCommit,
     SessionBegin, SessionUser, LinkUser, LinkRowLookup, LinkInsert, UnlinkFind, UnlinkDelete,
     Enter, At, Unaided
<1>4. CASE ReAuthStep(r)
  <2>1. PwdBegin(r) /\ Done(r)
    BY <1>1, <1>4 DEF ReAuthStep, ReauthPassword, ReauthRevoke, ReauthInsert, GuardFind, GuardList,
       GuardSave, PwdBegin, PwdCredential, PwdUser, PwdNew, PwdWrite, Enter, At, Unaided
  <2>2. ~req[r].tx
    BY <2>1 DEF PwdBegin, At, Placed, InTransaction, Waiting, Unaided
  <2>3. QED BY <2>1, <2>2, EndsAside
<1>5. CASE RoleStep(r)
  BY <1>1, <1>5 DEF RoleStep, ChangeRoleFind, RoleSave, RemoveRow
<1>6. QED BY <1>2, <1>3, <1>4, <1>5 DEF Step

LEMMA NextWedged == Inv /\ PoolInv /\ Wedged /\ [Next]_vars => Wedged'
<1> SUFFICES ASSUME Inv, PoolInv, Wedged, [Next]_vars PROVE Wedged'
  OBVIOUS
<1>1. ASSUME NEW r \in Request, Step(r) PROVE Wedged'
  <2>1. Aside(r)
    BY <1>1, WedgedStep DEF Inv, Requests, PoolInv
  <2>2. Holding' = Holding
    BY <2>1 DEF Aside, Holding
  <2>3. \A p \in Holding : req'[p] = req[p]
    BY <2>1 DEF Aside, Holding
  <2>4. QED BY <2>2, <2>3 DEF Wedged, Free
<1>2. CASE UNCHANGED vars
  BY <1>2 DEF vars, rowVars, Wedged, Free, Holding
<1>3. QED BY <1>1, <1>2, WedgedStart DEF Next

\* Once every connection is held by a request that waits for a second one, it
\* stays so: whatever the other requests still do, none of them gives one back,
\* and no handler whose lost promise would end the process gets that far.
THEOREM WedgedForEver == Spec => [](Wedged => []Wedged)
<1>1. Init => Inv /\ PoolInv
  BY InitInv, InitPool
<1>2. Inv /\ PoolInv /\ [Next]_vars => (Inv /\ PoolInv)'
  BY NextInv, NextPool
<1>3. Inv /\ PoolInv /\ Wedged /\ [Next]_vars => Wedged'
  BY NextWedged
<1>4. QED BY <1>1, <1>2, <1>3, PTL DEF Spec

\* With more connections than requests in flight there is always one that is
\* free: no query of a handler, in a transaction or not, waits for one.
THEOREM LargePoolServes == Cardinality(Request) < PoolSize => (Spec => []Free)
<1> SUFFICES ASSUME Cardinality(Request) < PoolSize PROVE Spec => []Free
  OBVIOUS
<1>1. Free
  <2>1. Holding \in SUBSET Request /\ IsFiniteSet(Request) /\ PoolSize \in Nat
    BY AccountsAssumption DEF Holding
  <2>2. /\ Cardinality(Holding) <= Cardinality(Request)
        /\ Cardinality(Holding) \in Nat /\ Cardinality(Request) \in Nat
    BY <2>1, FS_Subset, FS_CardinalityType
  <2>3. QED BY <2>1, <2>2 DEF Free
<1>2. QED BY <1>1, PTL

-----------------------------------------------------------------------------
(* The steps a handler has left.                                           *)

\* The queries a request still runs, at most, from the one it is waiting for.
Left(label) ==
    CASE label = "idle" -> 0
      [] label \in {"updateWrite", "updateCommit", "confirmMail", "rollbackWrite", "roleSave", "remove",
                    "sessionUser", "linkInsert", "unlinkDelete", "reauthInsert", "pwdWrite"} -> 1
      [] label \in {"updateMail", "confirmWrite", "changeRole", "sessionBegin", "linkRow", "unlink",
                    "reauthRevoke", "pwdNew"} -> 2
      [] label \in {"updateCheck", "confirmUser", "loginInsert", "loginCommit", "linkUser",
                    "reauthPassword", "pwdUser"} -> 3
      [] label \in {"update", "confirmBegin", "loginRow", "pwdCredential"} -> 4
      [] label \in {"loginNewRole", "pwdBegin"} -> 5
      [] label \in {"loginRole", "guardSave"} -> 6
      [] label \in {"loginEmail", "guardList"} -> 7
      [] label \in {"loginLink", "guardFind"} -> 8

Descends(r) == Left(req'[r].pc) < Left(req[r].pc)

\* A step of a handler brings its end nearer, and it starts with eight at most.
Forward == \A r \in Request : /\ Step(r) => Descends(r)
                             /\ Begin(r) => Left(req'[r].pc) <= 8

LEMMA LeftIs == \A label \in Pc : Left(label) \in 0..8 /\ (label # "idle" => Left(label) # 0)
<1>1. Left("idle") = 0
  BY DEF Left
<1>2. Left("updateWrite") = 1 /\ Left("updateCommit") = 1 /\ Left("confirmMail") = 1 /\
      Left("rollbackWrite") = 1 /\ Left("roleSave") = 1 /\ Left("remove") = 1 /\
      Left("sessionUser") = 1 /\ Left("linkInsert") = 1 /\ Left("unlinkDelete") = 1 /\
      Left("reauthInsert") = 1 /\ Left("pwdWrite") = 1
  BY DEF Left
<1>3. Left("updateMail") = 2 /\ Left("confirmWrite") = 2 /\ Left("changeRole") = 2 /\
      Left("sessionBegin") = 2 /\ Left("linkRow") = 2 /\ Left("unlink") = 2 /\
      Left("reauthRevoke") = 2 /\ Left("pwdNew") = 2
  BY DEF Left
<1>4. Left("updateCheck") = 3 /\ Left("confirmUser") = 3 /\ Left("loginInsert") = 3 /\
      Left("loginCommit") = 3 /\ Left("linkUser") = 3 /\ Left("reauthPassword") = 3 /\
      Left("pwdUser") = 3
  BY DEF Left
<1>5. Left("update") = 4 /\ Left("confirmBegin") = 4 /\ Left("loginRow") = 4 /\
      Left("pwdCredential") = 4 /\ Left("loginNewRole") = 5 /\ Left("pwdBegin") = 5 /\
      Left("loginRole") = 6 /\ Left("guardSave") = 6 /\ Left("loginEmail") = 7 /\
      Left("guardList") = 7 /\ Left("loginLink") = 8 /\ Left("guardFind") = 8
  BY DEF Left
<1>6. QED BY <1>1, <1>2, <1>3, <1>4, <1>5 DEF Pc

LEMMA MoveDescends ==
    ASSUME NEW r \in Request, NEW from, NEW to, At(r, from), req'[r].pc = to, Left(to) < Left(from)
    PROVE  Descends(r)
BY DEF At, Descends

LEMMA DoneDescends ==
    ASSUME req \in [Request -> RequestState], NEW r \in Request, Done(r) \/ Exit, ~At(r, "idle")
    PROVE  Descends(r)
<1>1. req'[r].pc = "idle" /\ req[r].pc \in Pc
  BY DEF Done, Exit, Idle, RequestState
<1>2. Left("idle") = 0 /\ Left(req[r].pc) \in Nat \ {0}
  <2>1. Left("idle") = 0
    BY DEF Left
  <2>2. QED BY <1>1, <2>1, LeftIs DEF At
<1>3. QED BY <1>1, <1>2 DEF Descends

LEMMA EmailDescends ==
    ASSUME req \in [Request -> RequestState], NEW r \in Request, EmailStep(r)
    PROVE  Descends(r)
<1>1. CASE UpdateFind(r)
  <2>1. At(r, "update") /\ (Exit \/ req'[r].pc = "updateCheck")
    BY <1>1 DEF UpdateFind, At, RequestState
  <2>2. Left("updateCheck") < Left("update")
    BY DEF Left
  <2>3. QED BY <2>1, <2>2, MoveDescends, DoneDescends DEF At
<1>2. CASE UpdateCheck(r)
  <2>1. At(r, "updateCheck") /\ (Done(r) \/ req'[r].pc = "updateWrite" \/ req'[r].pc = "updateMail")
    BY <1>2 DEF UpdateCheck, Goto, At, RequestState
  <2>2. Left("updateWrite") < Left("updateCheck")
    BY DEF Left
  <2>3. Left("updateMail") < Left("updateCheck")
    BY DEF Left
  <2>4. QED BY <2>1, <2>2, <2>3, MoveDescends, DoneDescends DEF At
<1>3. CASE UpdateWrite(r) \/ UpdateCommit(r) \/ ConfirmMail(r) \/ RollbackWrite(r)
  BY <1>3, DoneDescends DEF UpdateWrite, UpdateCommit, ConfirmMail, RollbackWrite, At
<1>4. CASE UpdateMail(r)
  <2>1. At(r, "updateMail") /\ (Done(r) \/ req'[r].pc = "updateCommit")
    BY <1>4 DEF UpdateMail, At, RequestState
  <2>2. Left("updateCommit") < Left("updateMail")
    BY DEF Left
  <2>3. QED BY <2>1, <2>2, MoveDescends, DoneDescends DEF At
<1>5. CASE ConfirmBegin(r)
  <2>1. At(r, "confirmBegin") /\ (req'[r].pc = "confirmUser")
    BY <1>5 DEF ConfirmBegin, Enter, At, RequestState
  <2>2. Left("confirmUser") < Left("confirmBegin")
    BY DEF Left
  <2>3. QED BY <2>1, <2>2, MoveDescends
<1>6. CASE ConfirmUser(r)
  <2>1. At(r, "confirmUser") /\ (Done(r) \/ req'[r].pc = "confirmWrite")
    BY <1>6 DEF ConfirmUser, Goto, At, RequestState
  <2>2. Left("confirmWrite") < Left("confirmUser")
    BY DEF Left
  <2>3. QED BY <2>1, <2>2, MoveDescends, DoneDescends DEF At
<1>7. CASE ConfirmWrite(r)
  <2>1. At(r, "confirmWrite") /\ (Done(r) \/ req'[r].pc = "confirmMail")
    BY <1>7 DEF ConfirmWrite, At, RequestState
  <2>2. Left("confirmMail") < Left("confirmWrite")
    BY DEF Left
  <2>3. QED BY <2>1, <2>2, MoveDescends, DoneDescends DEF At
<1>8. QED BY <1>1, <1>2, <1>3, <1>4, <1>5, <1>6, <1>7 DEF EmailStep

LEMMA OAuthDescends ==
    ASSUME req \in [Request -> RequestState], NEW r \in Request, OAuthStep(r)
    PROVE  Descends(r)
<1>1. CASE LoginLink(r)
  <2>1. At(r, "loginLink") /\ (req'[r].pc = "loginRow" \/ req'[r].pc = "loginEmail")
    BY <1>1 DEF LoginLink, Goto, At, RequestState
  <2>2. Left("loginRow") < Left("loginLink")
    BY DEF Left
  <2>3. Left("loginEmail") < Left("loginLink")
    BY DEF Left
  <2>4. QED BY <2>1, <2>2, <2>3, MoveDescends
<1>2. CASE LoginEmail(r)
  <2>1. At(r, "loginEmail") /\ (req'[r].pc = "loginRow" \/ req'[r].pc = "loginRole")
    BY <1>2 DEF LoginEmail, Goto, At, RequestState
  <2>2. Left("loginRow") < Left("loginEmail")
    BY DEF Left
  <2>3. Left("loginRole") < Left("loginEmail")
    BY DEF Left
  <2>4. QED BY <2>1, <2>2, <2>3, MoveDescends
<1>3. CASE LoginRole(r)
  <2>1. At(r, "loginRole") /\ (req'[r].pc = "loginRow" \/ req'[r].pc = "loginNewRole")
    BY <1>3 DEF LoginRole, Goto, At, RequestState
  <2>2. Left("loginRow") < Left("loginRole")
    BY DEF Left
  <2>3. Left("loginNewRole") < Left("loginRole")
    BY DEF Left
  <2>4. QED BY <2>1, <2>2, <2>3, MoveDescends
<1>4. CASE LoginNewRole(r)
  <2>1. At(r, "loginNewRole") /\ (Done(r) \/ req'[r].pc = "loginRow")
    BY <1>4 DEF LoginNewRole, At, RequestState
  <2>2. Left("loginRow") < Left("loginNewRole")
    BY DEF Left
  <2>3. QED BY <2>1, <2>2, MoveDescends, DoneDescends DEF At
<1>5. CASE LoginRow(r)
  <2>1. At(r, "loginRow") /\ (req'[r].pc = "loginInsert" \/ req'[r].pc = "loginCommit")
    BY <1>5 DEF LoginRow, Goto, At, RequestState
  <2>2. Left("loginInsert") < Left("loginRow")
    BY DEF Left
  <2>3. Left("loginCommit") < Left("loginRow")
    BY DEF Left
  <2>4. QED BY <2>1, <2>2, <2>3, MoveDescends
<1>6. CASE LoginCommit(r)
  <2>1. req[r].pc \in {"loginInsert", "loginCommit"}
    BY <1>6 DEF LoginCommit
  <2>2. Left("sessionBegin") < Left("loginInsert") /\ Left("sessionBegin") < Left("loginCommit")
    BY DEF Left
  <2>3. ASSUME NEW u, req' = [req EXCEPT ![r] = [Idle EXCEPT !.pc = "sessionBegin", !.user = u]]
        PROVE  Descends(r)
    <3>1. req'[r].pc = "sessionBegin"
      BY <2>3 DEF Idle
    <3>2. QED BY <2>1, <2>2, <3>1 DEF Descends
  <2>4. ASSUME Done(r) PROVE Descends(r)
    BY <2>1, <2>4, DoneDescends DEF At
  <2>5. QED BY <1>6, <2>3, <2>4 DEF LoginCommit
<1>7. CASE SessionBegin(r)
  <2>1. At(r, "sessionBegin") /\ (req'[r].pc = "sessionUser")
    BY <1>7 DEF SessionBegin, Enter, At, RequestState
  <2>2. Left("sessionUser") < Left("sessionBegin")
    BY DEF Left
  <2>3. QED BY <2>1, <2>2, MoveDescends
<1>8. CASE SessionUser(r) \/ LinkInsert(r) \/ UnlinkDelete(r)
  BY <1>8, DoneDescends DEF SessionUser, LinkInsert, UnlinkDelete, At
<1>9. CASE LinkUser(r)
  <2>1. At(r, "linkUser") /\ (Done(r) \/ req'[r].pc = "linkRow")
    BY <1>9 DEF LinkUser, Goto, At, RequestState
  <2>2. Left("linkRow") < Left("linkUser")
    BY DEF Left
  <2>3. QED BY <2>1, <2>2, MoveDescends, DoneDescends DEF At
<1>10. CASE LinkRowLookup(r)
  <2>1. At(r, "linkRow") /\ (Done(r) \/ req'[r].pc = "linkInsert")
    BY <1>10 DEF LinkRowLookup, Goto, At, RequestState
  <2>2. Left("linkInsert") < Left("linkRow")
    BY DEF Left
  <2>3. QED BY <2>1, <2>2, MoveDescends, DoneDescends DEF At
<1>11. CASE UnlinkFind(r)
  <2>1. At(r, "unlink") /\ (Done(r) \/ req'[r].pc = "unlinkDelete")
    BY <1>11 DEF UnlinkFind, Goto, At, RequestState
  <2>2. Left("unlinkDelete") < Left("unlink")
    BY DEF Left
  <2>3. QED BY <2>1, <2>2, MoveDescends, DoneDescends DEF At
<1>12. QED BY <1>1, <1>2, <1>3, <1>4, <1>5, <1>6, <1>7, <1>8, <1>9, <1>10, <1>11 DEF OAuthStep

LEMMA ReAuthDescends ==
    ASSUME req \in [Request -> RequestState], NEW r \in Request, ReAuthStep(r)
    PROVE  Descends(r)
<1>1. CASE ReauthPassword(r)
  <2>1. At(r, "reauthPassword") /\ (Done(r) \/ req'[r].pc = "reauthRevoke")
    BY <1>1 DEF ReauthPassword, Goto, At, RequestState
  <2>2. Left("reauthRevoke") < Left("reauthPassword")
    BY DEF Left
  <2>3. QED BY <2>1, <2>2, MoveDescends, DoneDescends DEF At
<1>2. CASE ReauthRevoke(r)
  <2>1. At(r, "reauthRevoke") /\ (req'[r].pc = "reauthInsert")
    BY <1>2 DEF ReauthRevoke, Goto, At, RequestState
  <2>2. Left("reauthInsert") < Left("reauthRevoke")
    BY DEF Left
  <2>3. QED BY <2>1, <2>2, MoveDescends
<1>3. CASE ReauthInsert(r) \/ PwdWrite(r)
  BY <1>3, DoneDescends DEF ReauthInsert, PwdWrite, At
<1>4. CASE GuardFind(r)
  <2>1. At(r, "guardFind") /\ (Done(r) \/ req'[r].pc = "guardList")
    BY <1>4 DEF GuardFind, Goto, At, RequestState
  <2>2. Left("guardList") < Left("guardFind")
    BY DEF Left
  <2>3. QED BY <2>1, <2>2, MoveDescends, DoneDescends DEF At
<1>5. CASE GuardList(r)
  <2>1. At(r, "guardList") /\ (req'[r].pc = "guardSave" \/ req'[r].pc = "pwdBegin")
    BY <1>5 DEF GuardList, Goto, At, RequestState
  <2>2. Left("guardSave") < Left("guardList")
    BY DEF Left
  <2>3. Left("pwdBegin") < Left("guardList")
    BY DEF Left
  <2>4. QED BY <2>1, <2>2, <2>3, MoveDescends
<1>6. CASE GuardSave(r)
  <2>1. At(r, "guardSave") /\ (req'[r].pc = "pwdBegin")
    BY <1>6 DEF GuardSave, At, RequestState
  <2>2. Left("pwdBegin") < Left("guardSave")
    BY DEF Left
  <2>3. QED BY <2>1, <2>2, MoveDescends
<1>7. CASE PwdBegin(r)
  <2>1. At(r, "pwdBegin") /\ (Done(r) \/ req'[r].pc = "pwdCredential")
    BY <1>7 DEF PwdBegin, Enter, At, RequestState
  <2>2. Left("pwdCredential") < Left("pwdBegin")
    BY DEF Left
  <2>3. QED BY <2>1, <2>2, MoveDescends, DoneDescends DEF At
<1>8. CASE PwdCredential(r)
  <2>1. At(r, "pwdCredential") /\ (req'[r].pc = "pwdUser" \/ req'[r].pc = "pwdWrite")
    BY <1>8 DEF PwdCredential, Goto, At, RequestState
  <2>2. Left("pwdUser") < Left("pwdCredential")
    BY DEF Left
  <2>3. Left("pwdWrite") < Left("pwdCredential")
    BY DEF Left
  <2>4. QED BY <2>1, <2>2, <2>3, MoveDescends
<1>9. CASE PwdUser(r)
  <2>1. At(r, "pwdUser") /\ (Done(r) \/ req'[r].pc = "pwdNew")
    BY <1>9 DEF PwdUser, At, RequestState
  <2>2. Left("pwdNew") < Left("pwdUser")
    BY DEF Left
  <2>3. QED BY <2>1, <2>2, MoveDescends, DoneDescends DEF At
<1>10. CASE PwdNew(r)
  <2>1. At(r, "pwdNew") /\ (Done(r) \/ req'[r].pc = "pwdWrite")
    BY <1>10 DEF PwdNew, At, RequestState
  <2>2. Left("pwdWrite") < Left("pwdNew")
    BY DEF Left
  <2>3. QED BY <2>1, <2>2, MoveDescends, DoneDescends DEF At
<1>11. QED BY <1>1, <1>2, <1>3, <1>4, <1>5, <1>6, <1>7, <1>8, <1>9, <1>10 DEF ReAuthStep

LEMMA RoleDescends ==
    ASSUME req \in [Request -> RequestState], NEW r \in Request, RoleStep(r)
    PROVE  Descends(r)
<1>1. CASE ChangeRoleFind(r)
  <2>1. At(r, "changeRole") /\ (Done(r) \/ req'[r].pc = "roleSave")
    BY <1>1 DEF ChangeRoleFind, At, RequestState
  <2>2. Left("roleSave") < Left("changeRole")
    BY DEF Left
  <2>3. QED BY <2>1, <2>2, MoveDescends, DoneDescends DEF At
<1>2. CASE RoleSave(r) \/ RemoveRow(r)
  BY <1>2, DoneDescends DEF RoleSave, RemoveRow, At
<1>3. QED BY <1>1, <1>2 DEF RoleStep

LEMMA NextForward == Inv /\ [Next]_vars => Forward
<1>1. ASSUME Inv, [Next]_vars, NEW r \in Request, Step(r) PROVE Descends(r)
  BY <1>1, EmailDescends, OAuthDescends, ReAuthDescends, RoleDescends DEF Step, Inv, Requests
<1>2. ASSUME Inv, [Next]_vars, NEW r \in Request, Begin(r) PROVE Left(req'[r].pc) <= 8
  <2>1. req'[r].pc \in Pc
    BY <1>2, NextInv DEF Inv, Requests, RequestState
  <2>2. QED BY <2>1, LeftIs
<1>3. QED BY <1>1, <1>2 DEF Forward

\* No handler goes back: whatever it finds, each of its steps leaves it with fewer,
\* and it has eight at most when it starts: a request that never ends is one whose
\* next query never gets its connection.
THEOREM StepsDescend == Spec => [][Forward]_vars
BY InitInv, NextInv, NextForward, PTL DEF Spec

=============================================================================
