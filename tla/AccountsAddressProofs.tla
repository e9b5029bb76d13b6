------------------------- MODULE AccountsAddressProofs -------------------------
(***************************************************************************)
(* Accounts implements AddressLedger, and a change of address is confirmed *)
(* once unless two confirmations of it overlap: the addresses a request    *)
(* has read or found in a row are ones that were confirmed for its user.   *)
(* And a request that writes a row is one of its user or of an admin, or   *)
(* has come from its mail; one that sets a password, from its address.     *)
(***************************************************************************)
EXTENDS AccountsRaceProofs

-----------------------------------------------------------------------------
(* The invariant.                                                          *)

ConfirmPc == {"confirmBegin", "confirmUser", "confirmWrite"}

Confirms(u, e) == e \in Confirmed[u]

\* Addresses of rows.
RowsConfirmed ==
    /\ \A u, v \in User : Exists(u) /\ users[u].email = users[v].email => u = v
    /\ \A u \in User : IF Exists(u) THEN Confirms(u, users[u].email) ELSE users[u].born = None
    /\ \A q \in Change : Stored(q) => Confirms(changes[q].user, changes[q].old)
    /\ \A l \in Log : Logged(l) => Confirms(logs[l].user, logs[l].old)

\* Addresses requests know, and the rows they are about.
AddressKnown(r) ==
    /\ req[r].pc \in {"updateCheck", "updateWrite", "updateMail", "updateCommit", "roleSave"}
          => Confirms(req[r].user, req[r].seen.email)
    /\ At(r, "updateWrite") => req[r].email = req[r].seen.email
    /\ At(r, "updateCommit") => ~Stored(req[r].item)
    /\ req[r].pc \in ConfirmPc => changes[req[r].item].user = req[r].user
    /\ At(r, "rollbackWrite") => logs[req[r].item].user = req[r].user

OwnRows == \A p, r \in Request : p # r /\ At(p, "updateCommit") /\ At(r, "updateCommit")
                                   => req[p].item # req[r].item

AddressInv == RowsConfirmed /\ OwnRows /\ \A r \in Request : AddressKnown(r)

\* A log is of a change that is used, and a request that has found its change
\* unused while there is a log of it now has met the one that made the log.
LogsUsed == \A l \in Log :
    IF Logged(l)
    THEN logs[l].change \in Change /\ Stored(logs[l].change) /\ changes[logs[l].change].used
    ELSE logs[l].change = None

ConfirmsMet(r) ==
    req[r].pc \in ConfirmPc =>
        \A l \in Log : Logged(l) /\ logs[l].change = req[r].item => logs[l].raced /\ r \in met

OnceInv == LogsUsed /\ SecondConfirmationOnlyByRace /\ \A r \in Request : ConfirmsMet(r)

-----------------------------------------------------------------------------
(* What the mapping makes of the rows.                                     *)

LEMMA ConfirmedMembers ==
    ASSUME NEW u \in User, NEW e
    PROVE  Confirms(u, e) <=> \/ e = users[u].born /\ e # None
                              \/ \E q \in Change : /\ changes[q].user = u /\ changes[q].used
                                                   /\ e = changes[q].new
BY DEF Confirms, Confirmed

LEMMA OfferedMembers ==
    ASSUME NEW u \in User, NEW x
    PROVE  x \in Offered[u] <=> \E q \in Change : /\ changes[q].user = u
                                                  /\ x = <<changes[q].old, changes[q].new>>
BY DEF Offered

LEMMA SameMapped ==
    ASSUME UNCHANGED <<users, changes>>
    PROVE  Address' = Address /\ Confirmed' = Confirmed /\ Offered' = Offered
BY DEF Address, Confirmed, Offered

\* A row that is written, with the address it was opened with.
LEMMA PutMapped ==
    ASSUME Inv, NEW u \in User, NEW row \in UserRow, Put(u, row)
    PROVE  /\ Address' = [Address EXCEPT ![u] = row.email]
           /\ users'[u] = row /\ \A v \in User \ {u} : users'[v] = users[v]
<1>1. users' = [users EXCEPT ![u] = row] /\ users \in [User -> UserRow]
  BY DEF Put, Inv, RowsTyped
<1>2. QED BY <1>1 DEF Address

LEMMA SameConfirmed ==
    ASSUME \A v \in User : users'[v].born = users[v].born, changes' = changes
    PROVE  Confirmed' = Confirmed /\ Offered' = Offered
<1>1. \A v \in User : ({users[v].born} \ {None})' = {users[v].born} \ {None}
  OBVIOUS
<1>2. QED BY <1>1 DEF Confirmed, Offered

\* The invariant of the requests, when rows last and the one that acts knows
\* what it has to.
LEMMA RequestsAddress ==
    ASSUME Inv, AddressInv, NEW r \in Request, Acts(r),
           \A u \in User, e \in Email : Confirms(u, e) => Confirms(u, e)',
           \A q \in Change : Stored(q) => changes'[q].user = changes[q].user,
           \A l \in Log : Logged(l) => logs'[l].user = logs[l].user,
           \A q \in Change : Stored(q)' => Stored(q) \/ (At(r, "updateCommit") /\ q = req[r].item),
           RowsConfirmed', AddressKnown(r)',
           At(r, "updateCommit")' => \A p \in Request \ {r} : req[p].item # req'[r].item
    PROVE  AddressInv'
<1>1. \A p \in Request \ {r} : req'[p] = req[p] \/ req'[p].pc = "idle"
  BY DEF Acts, Exit, Idle
<1>2. ASSUME NEW p \in Request \ {r} PROVE AddressKnown(p)'
  <2>1. CASE req'[p].pc = "idle"
    BY <2>1 DEF AddressKnown, At, ConfirmPc
  <2>2. CASE req'[p] = req[p]
    <3>1. AddressKnown(p) /\ Knows(req[p]) /\ req[p] \in RequestState
      BY DEF AddressInv, Inv, Requests
    <3>2. req[p].pc \in {"updateCheck", "updateWrite", "updateMail", "updateCommit", "roleSave"}
            => Confirms(req[p].user, req[p].seen.email)'
      <4>1. req[p].pc \in {"updateCheck", "updateWrite", "updateMail", "updateCommit", "roleSave"}
              => req[p].user \in User /\ req[p].seen.email \in Email
        BY <3>1 DEF Knows, RequestState, UserRow
      <4>2. QED BY <2>2, <3>1, <4>1 DEF AddressKnown
    <3>3. At(p, "updateCommit") => ~Stored(req[p].item)'
      <4>1. At(p, "updateCommit") => req[p].item \in Change /\ ~Stored(req[p].item)
        BY <3>1 DEF AddressKnown, Knows, At
      <4>2. At(p, "updateCommit") /\ At(r, "updateCommit") => req[p].item # req[r].item
        BY DEF AddressInv, OwnRows
      <4>3. QED BY <2>2, <4>1, <4>2 DEF Stored
    <3>4. req[p].pc \in ConfirmPc => changes'[req[p].item].user = req[p].user
      <4>1. req[p].pc \in ConfirmPc => req[p].item \in Change /\ Stored(req[p].item)
        BY <3>1 DEF Knows, ConfirmPc
      <4>2. QED BY <3>1, <4>1 DEF AddressKnown
    <3>5. At(p, "rollbackWrite") => logs'[req[p].item].user = req[p].user
      <4>1. At(p, "rollbackWrite") => req[p].item \in Log /\ Logged(req[p].item)
        BY <3>1 DEF Knows, At
      <4>2. QED BY <3>1, <4>1 DEF AddressKnown
    <3>6. QED BY <2>2, <3>1, <3>2, <3>3, <3>4, <3>5 DEF AddressKnown, At
  <2>3. QED BY <1>1, <2>1, <2>2
<1>3. OwnRows'
  <2>1. ASSUME NEW p \in Request, NEW q \in Request, p # q,
               At(p, "updateCommit")', At(q, "updateCommit")'
        PROVE  req'[p].item # req'[q].item
    <3>1. CASE p = r \/ q = r
      BY <1>1, <2>1, <3>1 DEF At
    <3>2. CASE p # r /\ q # r
      BY <1>1, <2>1, <3>2 DEF AddressInv, OwnRows, At
    <3>3. QED BY <3>1, <3>2
  <2>2. QED BY <2>1 DEF OwnRows
<1>4. QED BY <1>2, <1>3 DEF AddressInv

\* The steps that write neither a user nor a change nor a log.
LEMMA QuietAddress ==
    ASSUME Inv, AddressInv, NEW r \in Request, Acts(r), UNCHANGED <<users, changes, logs>>,
           AddressKnown(r)',
           At(r, "updateCommit")' => \A p \in Request \ {r} : req[p].item # req'[r].item
    PROVE  AddressInv' /\ UNCHANGED <<Address, Confirmed, Offered>>
<1>1. UNCHANGED <<Address, Confirmed, Offered>>
  BY SameMapped
<1>2. \A u, e : Confirms(u, e)' = Confirms(u, e)
  BY <1>1 DEF Confirms
<1>3. RowsConfirmed'
  BY <1>1 DEF AddressInv, RowsConfirmed, Confirms, Exists, Stored, Logged
<1>4. QED BY <1>1, <1>2, <1>3, RequestsAddress DEF Stored

\* A user is given an address confirmed for it that nobody has, or keeps its own.
LEMMA AddressReturned ==
    ASSUME Inv, AddressInv, NEW u \in User, Exists(u), NEW row \in UserRow,
           row.email # None, row.born = users[u].born,
           Confirms(u, row.email), ~Taken(row.email, u), Put(u, row), changes' = changes,
           \A l \in Log : logs'[l].user = logs[l].user /\ logs'[l].old = logs[l].old
    PROVE  Ledger!Next /\ RowsConfirmed' /\ Confirmed' = Confirmed
<1>1. /\ Address' = [Address EXCEPT ![u] = row.email]
      /\ users'[u] = row /\ \A v \in User \ {u} : users'[v] = users[v]
  BY PutMapped
<1>2. Confirmed' = Confirmed /\ Offered' = Offered
  BY <1>1, SameConfirmed
<1>3. row.email \in Email
  BY DEF UserRow
<1>4. ASSUME NEW v \in User, NEW w \in User, users'[v].email # None,
             users'[v].email = users'[w].email
      PROVE  v = w
  BY <1>1, <1>4 DEF AddressInv, RowsConfirmed, Taken, Exists
<1>5. Ledger!Return(u, row.email)
  <2>1. Ledger!Apart(Address')
    BY <1>4 DEF Ledger!Apart, Address
  <2>2. QED BY <1>1, <1>2, <2>1 DEF Ledger!Return, Ledger!Have, Confirms
<1>6. RowsConfirmed'
  <2>1. \A v, e : Confirms(v, e)' = Confirms(v, e)
    BY <1>2 DEF Confirms
  <2>2. \A v \in User : IF Exists(v)' THEN Confirms(v, users[v].email)' ELSE users'[v].born = None
    BY <1>1, <2>1 DEF AddressInv, RowsConfirmed, Exists
  <2>3. QED BY <1>4, <2>1, <2>2 DEF AddressInv, RowsConfirmed, Exists, Stored, Logged
<1>7. QED BY <1>2, <1>3, <1>5, <1>6 DEF Ledger!Next

\* The states in which a request knows an address or a row of EmailChange.
AddressPc == {"updateCheck", "updateWrite", "updateMail", "updateCommit", "roleSave",
              "rollbackWrite"} \cup ConfirmPc

LEMMA NotKnown == ASSUME NEW r \in Request, req'[r].pc \notin AddressPc PROVE AddressKnown(r)'
BY DEF AddressPc, AddressKnown, At

Mapped == Ledger!Next \/ UNCHANGED <<Address, Confirmed, Offered>>

\* A request that has ended knows nothing.
LEMMA DoneKnows ==
    ASSUME Inv, NEW r \in Request, Done(r) \/ Exit
    PROVE  AddressKnown(r)' /\ ~At(r, "updateCommit")'
<1>1. req'[r].pc = "idle"
  BY DEF Inv, Requests, Done, Exit, Idle
<1>2. QED BY <1>1 DEF AddressKnown, At, ConfirmPc

\* A step that ends the request and gives a user an address.
LEMMA ReturnStep ==
    ASSUME Inv, AddressInv, NEW r \in Request, Acts(r), Done(r),
           NEW u \in User, Exists(u), NEW row \in UserRow,
           row.email # None, row.born = users[u].born,
           Confirms(u, row.email), ~Taken(row.email, u), Put(u, row), changes' = changes,
           \A l \in Log : logs'[l].user = logs[l].user /\ logs'[l].old = logs[l].old
    PROVE  AddressInv' /\ Mapped
<1>1. Ledger!Next /\ RowsConfirmed' /\ Confirmed' = Confirmed
  BY AddressReturned
<1>2. \A v, e : Confirms(v, e)' = Confirms(v, e)
  BY <1>1 DEF Confirms
<1>3. QED BY <1>1, <1>2, DoneKnows, RequestsAddress DEF Mapped, Stored

\* A step that ends the request and writes nothing of these rows.
LEMMA DoneStep ==
    ASSUME Inv, AddressInv, NEW r \in Request, Acts(r), Done(r) \/ Exit,
           UNCHANGED <<users, changes, logs>>
    PROVE  AddressInv' /\ Mapped
BY DoneKnows, QuietAddress DEF Mapped

LEMMA EmailAddress ==
    ASSUME Inv, AddressInv, NEW r \in Request, Acts(r), EmailStart(r) \/ EmailStep(r)
    PROVE  AddressInv' /\ Mapped
<1> USE DEF At
<1>a. /\ req \in [Request -> RequestState] /\ req[r] \in RequestState /\ Knows(req[r])
      /\ AddressKnown(r) /\ RowsTyped /\ EmailTyped
  BY DEF Inv, Requests, AddressInv
<1>q. ASSUME UNCHANGED <<users, changes, logs>>, AddressKnown(r)', req'[r].pc # "updateCommit"
      PROVE  AddressInv' /\ Mapped
  BY <1>q, QuietAddress DEF Mapped
<1>d. ASSUME UNCHANGED <<users, changes, logs>>, Done(r) \/ Exit PROVE AddressInv' /\ Mapped
  BY <1>d, DoneStep
<1>1. ASSUME NEW by \in User, NEW u \in User, NEW e \in Email \cup {None}, Update(r, by, u, e)
      PROVE  AddressInv' /\ Mapped
  <2> DEFINE q == [Idle EXCEPT !.pc = "update", !.email = e, !.by = by, !.user = u]
  <2>1. Start(r, q) /\ UNCHANGED <<users, changes, logs>>
    BY <1>1 DEF Update, Call, Idle, KeepRows, emailVars
  <2>2. req'[r] = q
    BY <2>1, StartActs
  <2>3. req'[r].pc = "update"
    BY <2>2 DEF Idle
  <2>4. QED BY <1>q, <2>1, <2>3, NotKnown DEF AddressPc, ConfirmPc
<1>2. ASSUME NEW c \in Change, Confirm(r, c) PROVE AddressInv' /\ Mapped
  <2> DEFINE q == [Idle EXCEPT !.pc = "confirmBegin", !.user = changes[c].user, !.item = c]
  <2>1. Start(r, q) /\ UNCHANGED <<users, changes, logs>>
    BY <1>2 DEF Confirm, KeepRows, emailVars
  <2>2. req'[r] = q
    BY <2>1, StartActs
  <2>3. req'[r].pc = "confirmBegin" /\ req'[r].user = changes[c].user /\ req'[r].item = c
    BY <2>2 DEF Idle
  <2>4. AddressKnown(r)'
    BY <2>1, <2>3 DEF AddressKnown
  <2>5. QED BY <1>q, <2>1, <2>3, <2>4
<1>3. ASSUME NEW l \in Log, Rollback(r, l) PROVE AddressInv' /\ Mapped
  <2> DEFINE v == logs[l].user
             q == [Idle EXCEPT !.pc = "rollbackWrite", !.user = v, !.item = l, !.seen = users[v]]
  <2>1. Start(r, q) /\ UNCHANGED <<users, changes, logs>>
    BY <1>3 DEF Rollback, KeepRows, emailVars
  <2>2. req'[r] = q
    BY <2>1, StartActs
  <2>3. req'[r].pc = "rollbackWrite" /\ req'[r].user = v /\ req'[r].item = l
    BY <2>2 DEF Idle
  <2>4. AddressKnown(r)'
    BY <2>1, <2>3 DEF AddressKnown, ConfirmPc
  <2>5. QED BY <1>q, <2>1, <2>3, <2>4
<1>4. ASSUME UpdateFind(r) PROVE AddressInv' /\ Mapped
  <2>1. UNCHANGED <<users, changes, logs>>
    BY <1>4 DEF UpdateFind, KeepRows, emailVars
  <2>2. CASE ~Exit
    <3> DEFINE u == req[r].user
               q == [req[r] EXCEPT !.pc = "updateCheck", !.seen = users[u]]
    <3>1. req'[r] = q /\ Exists(u) /\ u \in User
      BY <1>4, <1>a, <2>2 DEF UpdateFind, Visible, Knows
    <3>2. req'[r].pc = "updateCheck" /\ req'[r].user = u /\ req'[r].seen = users[u]
      BY <1>a, <3>1 DEF RequestState
    <3>3. Confirms(u, users[u].email)'
      BY <2>1, <3>1, SameMapped DEF AddressInv, RowsConfirmed, Confirms
    <3>4. AddressKnown(r)'
      BY <2>1, <3>2, <3>3 DEF AddressKnown, ConfirmPc
    <3>5. QED BY <1>q, <2>1, <3>2, <3>4
  <2>3. QED BY <1>d, <2>1, <2>2
<1>5. ASSUME UpdateCheck(r) PROVE AddressInv' /\ Mapped
  <2>1. UNCHANGED <<users, changes, logs>> /\ req[r].pc = "updateCheck"
    BY <1>5 DEF UpdateCheck, KeepRows, emailVars
  <2>2. CASE ~Done(r)
    <3>1. PICK label \in {"updateWrite", "updateMail"} :
            Goto(r, label) /\ (label = "updateWrite" => req[r].seen.email = req[r].email)
      BY <1>5, <2>2 DEF UpdateCheck
    <3>2. req'[r].pc = label /\ req'[r] = [req[r] EXCEPT !.pc = label]
      BY <2>1, <3>1, GotoActs
    <3>3. req'[r].seen = req[r].seen /\ req'[r].user = req[r].user /\ req'[r].email = req[r].email
      BY <1>a, <3>2 DEF RequestState
    <3>4. \A v, e : Confirms(v, e)' = Confirms(v, e)
      BY <2>1, SameMapped DEF Confirms
    <3>5. AddressKnown(r)'
      BY <1>a, <2>1, <3>1, <3>2, <3>3, <3>4 DEF AddressKnown, ConfirmPc
    <3>6. QED BY <1>q, <2>1, <3>2, <3>5
  <2>3. QED BY <1>d, <2>1, <2>2
<1>6. ASSUME UpdateWrite(r) PROVE AddressInv' /\ Mapped
  <2> DEFINE u == req[r].user
             row == [users[u] EXCEPT !.email = req[r].email]
  <2>1. /\ At(r, "updateWrite") /\ Done(r) /\ UNCHANGED <<changes, logs>>
        /\ KeepRows \/ (~Taken(req[r].email, u) /\ Put(u, row))
    BY <1>6 DEF UpdateWrite, emailVars
  <2>2. /\ u \in User /\ Exists(u) /\ users[u] \in UserRow
        /\ req[r].email \in Email /\ req[r].email # None /\ Confirms(u, req[r].email)
    BY <1>a, <2>1 DEF Knows, RowsTyped, AddressKnown, RequestState
  <2>3. row \in UserRow /\ row.email = req[r].email /\ row.born = users[u].born
    BY <2>2 DEF UserRow
  <2> HIDE DEF row, u
  <2>4. CASE KeepRows
    BY <1>d, <2>1, <2>4 DEF KeepRows
  <2>5. CASE ~Taken(req[r].email, u) /\ Put(u, row)
    BY <2>1, <2>2, <2>3, <2>5, ReturnStep
  <2>6. QED BY <2>1, <2>4, <2>5
<1>7. ASSUME UpdateMail(r) PROVE AddressInv' /\ Mapped
  <2>1. UNCHANGED <<users, changes, logs>> /\ req[r].pc = "updateMail"
    BY <1>7 DEF UpdateMail, KeepRows
  <2>2. CASE ~Done(r)
    <3>1. PICK c \in FreshChanges :
            req' = [req EXCEPT ![r].pc = "updateCommit", ![r].tx = TRUE, ![r].item = c]
      BY <1>7, <2>2 DEF UpdateMail
    <3>2. c \in Change /\ ~Stored(c) /\ \A p \in Request : req[p].item # c
      BY DEF FreshChanges
    <3>3. req'[r] = [req[r] EXCEPT !.pc = "updateCommit", !.tx = TRUE, !.item = c]
      BY <1>a, <3>1
    <3>4. /\ req'[r].pc = "updateCommit" /\ req'[r].item = c /\ req'[r].user = req[r].user
          /\ req'[r].seen = req[r].seen
      BY <1>a, <3>3 DEF RequestState
    <3>5. \A v, e : Confirms(v, e)' = Confirms(v, e)
      BY <2>1, SameMapped DEF Confirms
    <3>6. AddressKnown(r)'
      BY <1>a, <2>1, <3>2, <3>4, <3>5 DEF AddressKnown, ConfirmPc, Stored
    <3>7. QED BY <2>1, <3>2, <3>4, <3>6, QuietAddress DEF Mapped
  <2>3. QED BY <1>d, <2>1, <2>2
<1>8. ASSUME UpdateCommit(r) PROVE AddressInv' /\ Mapped
  <2> DEFINE u == req[r].user
             c == req[r].item
             old == req[r].seen.email
             new == req[r].email
             row == [NoChange EXCEPT !.user = u, !.old = old, !.new = new]
  <2>1. /\ At(r, "updateCommit") /\ Done(r) /\ UNCHANGED <<users, logs>>
        /\ changes' = [changes EXCEPT ![c] = row]
    BY <1>8 DEF UpdateCommit, KeepRows
  <2>2. /\ u \in User /\ c \in Change /\ old \in Email /\ new \in Email /\ u # None
        /\ Confirms(u, old) /\ ~Stored(c)
    BY <1>a, <2>1, AccountsAssumption DEF Knows, RequestState, UserRow, AddressKnown
  <2>3. row.user = u /\ row.old = old /\ row.new = new /\ row.used = FALSE
    BY DEF NoChange
  <2> HIDE DEF row, u, c, old, new
  <2>4. changes'[c] = row /\ \A q \in Change \ {c} : changes'[q] = changes[q]
    BY <1>a, <2>1, <2>2 DEF EmailTyped
  <2>5. \A v \in User : changes[c].user # v
    BY <2>2, AccountsAssumption DEF Stored
  <2>6. ASSUME NEW v \in User
        PROVE  {changes'[q].new : q \in {p \in Change : changes'[p].user = v /\ changes'[p].used}}
             = {changes[q].new : q \in {p \in Change : changes[p].user = v /\ changes[p].used}}
    <3>1. \A q \in Change : (changes'[q].user = v /\ changes'[q].used)
                              <=> (changes[q].user = v /\ changes[q].used)
      BY <2>3, <2>4, <2>5
    <3>2. \A q \in Change : changes[q].user = v => changes'[q] = changes[q]
      BY <2>4, <2>5
    <3>3. QED BY <3>1, <3>2
  <2>7. Confirmed' = Confirmed
    BY <2>1, <2>6 DEF Confirmed
  <2>8. Address' = Address
    BY <2>1 DEF Address
  <2>9. Offered' = [Offered EXCEPT ![u] = @ \cup {<<old, new>>}]
    <3>1. ASSUME NEW v \in User \ {u} PROVE Offered'[v] = Offered[v]
      BY <2>2, <2>3, <2>4, <2>5 DEF Offered
    <3>2. Offered'[u] = Offered[u] \cup {<<old, new>>}
      <4>1. ASSUME NEW x \in Offered'[u] PROVE x \in Offered[u] \cup {<<old, new>>}
        BY <2>2, <2>3, <2>4, <4>1 DEF Offered
      <4>2. ASSUME NEW x \in Offered[u] PROVE x \in Offered'[u]
        <5>1. PICK q \in Change : changes[q].user = u /\ x = <<changes[q].old, changes[q].new>>
          BY <2>2, <4>2 DEF Offered
        <5>2. changes'[q] = changes[q]
          BY <2>2, <2>4, <2>5, <5>1
        <5>3. QED BY <2>2, <5>1, <5>2 DEF Offered
      <4>3. <<old, new>> \in Offered'[u]
        BY <2>2, <2>3, <2>4 DEF Offered
      <4>4. QED BY <4>1, <4>2, <4>3
    <3>3. Offered' \in [User -> {Offered'[v] : v \in User}] /\ Offered \in [User -> {Offered[v] : v \in User}]
      BY DEF Offered
    <3>4. QED BY <2>2, <3>1, <3>2, <3>3
  <2>10. Ledger!Offer(u, old, new)
    BY <2>2, <2>7, <2>8, <2>9 DEF Ledger!Offer, Confirms
  <2>11. Mapped
    BY <2>2, <2>10 DEF Mapped, Ledger!Next
  <2>12. \A v, e : Confirms(v, e)' = Confirms(v, e)
    BY <2>7 DEF Confirms
  <2>13. RowsConfirmed'
    BY <2>1, <2>2, <2>3, <2>4, <2>12 DEF AddressInv, RowsConfirmed, Exists, Stored, Logged
  <2>14. \A q \in Change : /\ Stored(q) => changes'[q].user = changes[q].user
                           /\ Stored(q)' => Stored(q) \/ (At(r, "updateCommit") /\ q = req[r].item)
    BY <2>1, <2>2, <2>4 DEF Stored, c
  <2>15. QED BY <2>1, <2>11, <2>12, <2>13, <2>14, DoneKnows, RequestsAddress
<1>9. ASSUME ConfirmBegin(r) \/ ConfirmUser(r) PROVE AddressInv' /\ Mapped
  <2>1. UNCHANGED <<users, changes, logs>> /\ req[r].pc \in ConfirmPc
    BY <1>9 DEF ConfirmBegin, ConfirmUser, KeepRows, emailVars, ConfirmPc
  <2>2. CASE ~Done(r)
    <3>1. /\ req'[r].pc \in ConfirmPc /\ req'[r].item = req[r].item /\ req'[r].user = req[r].user
      BY <1>9, <1>a, <2>2 DEF ConfirmBegin, ConfirmUser, Enter, Goto, RequestState, ConfirmPc
    <3>2. AddressKnown(r)' /\ req'[r].pc # "updateCommit"
      BY <1>a, <2>1, <3>1 DEF AddressKnown, ConfirmPc
    <3>3. QED BY <1>q, <2>1, <3>2
  <2>3. QED BY <1>d, <2>1, <2>2
<1>10. ASSUME ConfirmWrite(r) PROVE AddressInv' /\ Mapped
  <2> DEFINE u == req[r].user
             c == req[r].item
             old == changes[c].old
             new == changes[c].new
             row == [users[u] EXCEPT !.email = new]
  <2>1. /\ u \in User /\ Exists(u) /\ c \in Change /\ Stored(c) /\ changes[c].user = u
        /\ users[u] \in UserRow /\ changes[c] \in ChangeRow /\ new # None /\ old # None
    BY <1>a, <1>10 DEF ConfirmWrite, Knows, RowsTyped, EmailTyped, AddressKnown, ConfirmPc
  <2>2. CASE Taken(new, u)
    BY <1>10, <1>d, <2>2 DEF ConfirmWrite, KeepRows
  <2>3. CASE ~Taken(new, u)
    <3>1. PICK l \in FreshLogs :
            /\ logs' = [logs EXCEPT ![l] = [NoLog EXCEPT !.user = u, !.old = old,
                                                 !.change = c, !.raced = r \in met]]
            /\ req' = [req EXCEPT ![r].pc = "confirmMail", ![r].tx = FALSE, ![r].item = l]
            /\ Put(u, row) /\ changes' = [changes EXCEPT ![c].used = TRUE]
      BY <1>10, <2>3 DEF ConfirmWrite
    <3>2. l \in Log /\ ~Logged(l)
      BY DEF FreshLogs
    <3>3. logs'[l].user = u /\ logs'[l].old = old /\ \A m \in Log \ {l} : logs'[m] = logs[m]
      BY <1>a, <3>1, <3>2 DEF EmailTyped, NoLog
    <3>4. row \in UserRow /\ row.email = new /\ row.born = users[u].born /\ new \in Email /\ old \in Email
      BY <2>1 DEF UserRow, ChangeRow
    <3>5. /\ changes'[c].user = u /\ changes'[c].old = old /\ changes'[c].new = new /\ changes'[c].used
          /\ \A q \in Change \ {c} : changes'[q] = changes[q]
      BY <1>a, <2>1, <3>1 DEF EmailTyped, ChangeRow
    <3> HIDE DEF row, u, c, old, new
    <3>6. /\ Address' = [Address EXCEPT ![u] = new]
          /\ users'[u] = row /\ \A v \in User \ {u} : users'[v] = users[v]
      BY <2>1, <3>1, <3>4, PutMapped
    <3>7. \A v \in User : users'[v].born = users[v].born
      BY <3>4, <3>6
    <3>8. ASSUME NEW v \in User, NEW e
          PROVE  Confirms(v, e)' <=> Confirms(v, e) \/ (v = u /\ e = new)
      <4>1. Confirms(v, e)' <=> \/ e = users'[v].born /\ e # None
                                \/ \E q \in Change : /\ changes'[q].user = v /\ changes'[q].used
                                                     /\ e = changes'[q].new
        BY DEF Confirms, Confirmed
      <4>2. (\E q \in Change : changes'[q].user = v /\ changes'[q].used /\ e = changes'[q].new)
              <=> \/ \E q \in Change : changes[q].user = v /\ changes[q].used /\ e = changes[q].new
                  \/ v = u /\ e = new
        BY <2>1, <3>5 DEF new
      <4>3. QED BY <3>7, <4>1, <4>2, ConfirmedMembers
    <3>9. Confirmed' = [Confirmed EXCEPT ![u] = @ \cup {new}]
      <4>1. \A v \in User : Confirmed'[v] = IF v = u THEN Confirmed[v] \cup {new} ELSE Confirmed[v]
        <5>1. ASSUME NEW v \in User, NEW e
              PROVE  e \in Confirmed'[v] <=> e \in Confirmed[v] \/ (v = u /\ e = new)
          BY <3>8 DEF Confirms
        <5>2. QED BY <5>1
      <4>2. Confirmed' = [v \in User |-> Confirmed'[v]] /\ Confirmed = [v \in User |-> Confirmed[v]]
        BY DEF Confirmed
      <4>3. QED BY <4>1, <4>2
    <3>10. Offered' = Offered
      <4>1. \A q \in Change : /\ changes'[q].user = changes[q].user /\ changes'[q].old = changes[q].old
                              /\ changes'[q].new = changes[q].new
        BY <2>1, <3>5 DEF old, new
      <4>2. QED BY <4>1 DEF Offered
    <3>11. <<old, new>> \in Offered[u]
      BY <2>1, OfferedMembers DEF old, new
    <3>12. ASSUME NEW v \in User, NEW w \in User, users'[v].email # None,
                  users'[v].email = users'[w].email
           PROVE  v = w
      BY <2>3, <3>4, <3>6, <3>12 DEF AddressInv, RowsConfirmed, Taken, Exists
    <3>13. Ledger!Confirm(u, old, new)
      <4>1. Ledger!Apart(Address')
        BY <3>12 DEF Ledger!Apart, Address
      <4>2. QED BY <3>6, <3>9, <3>10, <3>11, <4>1 DEF Ledger!Confirm, Ledger!Have
    <3>14. Mapped
      BY <2>1, <3>4, <3>13 DEF Mapped, Ledger!Next
    <3>15. RowsConfirmed'
      <4>1. \A v \in User : IF Exists(v)' THEN Confirms(v, users[v].email)' ELSE users'[v].born = None
        BY <2>1, <3>4, <3>6, <3>8 DEF AddressInv, RowsConfirmed, Exists
      <4>2. \A q \in Change : Stored(q)' => Stored(q) /\ changes'[q].user = changes[q].user
                                              /\ changes'[q].old = changes[q].old
        BY <2>1, <3>5 DEF Stored, old
      <4>3. \A q \in Change : Stored(q)' => Confirms(changes[q].user, changes[q].old)'
        <5>1. \A q \in Change : Stored(q) => changes[q].user \in User
          BY <1>a DEF EmailTyped, Stored, ChangeRow
        <5>2. QED BY <3>8, <4>2, <5>1 DEF AddressInv, RowsConfirmed
      <4>4. \A m \in Log : Logged(m)' => Confirms(logs[m].user, logs[m].old)'
        <5>1. \A m \in Log : Logged(m) => logs[m].user \in User
          BY <1>a DEF EmailTyped, Logged, LogRow
        <5>2. Confirms(u, old)
          BY <2>1 DEF AddressInv, RowsConfirmed, old
        <5>3. QED BY <2>1, <3>3, <3>8, <5>1, <5>2 DEF AddressInv, RowsConfirmed, Logged
      <4>5. QED BY <3>12, <4>1, <4>3, <4>4 DEF RowsConfirmed, Exists
    <3>16. AddressKnown(r)' /\ ~At(r, "updateCommit")'
      <4>1. req'[r] = [req[r] EXCEPT !.pc = "confirmMail", !.tx = FALSE, !.item = l]
        BY <1>a, <3>1
      <4>2. req'[r].pc = "confirmMail"
        BY <1>a, <4>1 DEF RequestState
      <4>3. QED BY <4>2, NotKnown DEF AddressPc, ConfirmPc
    <3>17. \A q \in Change : /\ Stored(q) => changes'[q].user = changes[q].user
                             /\ Stored(q)' => Stored(q)
      BY <2>1, <3>5 DEF Stored
    <3>18. \A m \in Log : Logged(m) => logs'[m].user = logs[m].user
      BY <3>2, <3>3
    <3>19. QED BY <3>8, <3>14, <3>15, <3>16, <3>17, <3>18, RequestsAddress
  <2>4. QED BY <2>2, <2>3
<1>11. ASSUME ConfirmMail(r) PROVE AddressInv' /\ Mapped
  BY <1>11, <1>d DEF ConfirmMail, KeepRows
<1>12. ASSUME RollbackWrite(r) PROVE AddressInv' /\ Mapped
  <2> DEFINE l == req[r].item
             u == req[r].user
             row == GivenBack(r)
  <2>1. /\ At(r, "rollbackWrite") /\ Done(r) /\ changes' = changes
        /\ \/ KeepRows /\ logs' = logs
           \/ ~Taken(logs[l].old, u) /\ Put(u, row) /\ logs' = [logs EXCEPT ![l].revoked = TRUE]
    BY <1>12 DEF RollbackWrite
  <2>2. /\ u \in User /\ Exists(u) /\ users[u] \in UserRow /\ l \in Log /\ Logged(l)
        /\ logs[l].user = u /\ logs[l] \in LogRow /\ logs[l].old # None /\ req[r].seen \in UserRow
        /\ req[r].seen.role # None
    BY <1>a, <2>1 DEF Knows, RowsTyped, EmailTyped, AddressKnown, RequestState
  <2>3. row = [users[u] EXCEPT !.email = logs[l].old, !.role = req[r].seen.role, !.deleted = FALSE]
    BY DEF GivenBack
  <2>4. logs[l].old \in Email /\ req[r].seen.role \in Role
    BY <2>2 DEF LogRow, UserRow
  <2> HIDE DEF row, u, l
  <2>5. row \in UserRow /\ row.email = logs[l].old /\ row.born = users[u].born
    <3>1. row \in UserRow
      BY <2>2, <2>3, <2>4, RowGivenBack
    <3>2. QED BY <2>2, <2>3, <3>1 DEF UserRow
  <2>6. Confirms(u, logs[l].old)
    BY <2>2 DEF AddressInv, RowsConfirmed
  <2>7. CASE KeepRows /\ logs' = logs
    BY <1>d, <2>1, <2>7 DEF KeepRows
  <2>8. CASE ~Taken(logs[l].old, u) /\ Put(u, row) /\ logs' = [logs EXCEPT ![l].revoked = TRUE]
    <3>1. \A m \in Log : logs'[m].user = logs[m].user /\ logs'[m].old = logs[m].old
      BY <1>a, <2>2, <2>8 DEF EmailTyped, LogRow
    <3>2. QED BY <2>1, <2>2, <2>5, <2>6, <2>8, <3>1, ReturnStep
  <2>9. QED BY <2>1, <2>7, <2>8
<1>13. QED
  BY <1>1, <1>2, <1>3, <1>4, <1>5, <1>6, <1>7, <1>8, <1>9, <1>10, <1>11, <1>12
  DEF EmailStart, EmailStep

\* Only EmailChange and changeRole come to the states that know an address.
LEMMA OthersOff ==
    ASSUME Inv, NEW r \in Request,
           \/ OAuthStart(r) \/ OAuthStep(r) \/ ReAuthStart(r) \/ ReAuthStep(r)
           \/ \E by, u \in User : Remove(r, by, u) \/ \E role \in Role : ChangeRole(r, by, u, role)
    PROVE  req'[r].pc \notin AddressPc
<1> DEFINE Off == req'[r].pc \notin AddressPc
<1>a. req \in [Request -> RequestState] /\ req[r] \in RequestState
  BY DEF Inv, Requests
<1>d. ASSUME Done(r) \/ Exit PROVE Off
  BY <1>a, <1>d DEF Done, Exit, Idle, AddressPc, ConfirmPc
<1>1. ASSUME OAuthStart(r) PROVE Off
  BY <1>a, <1>1, ZenonT(30) DEF OAuthStart, OauthLogin, LinkProvider, UnlinkProvider, Call, Start, Idle,
     AddressPc, ConfirmPc
<1>2. ASSUME ReAuthStart(r) PROVE Off
  BY <1>a, <1>2 DEF ReAuthStart, Reauthenticate, Protected, Call, Start, Idle, AddressPc, ConfirmPc
<1>3. ASSUME \E by, u \in User : Remove(r, by, u) \/ \E role \in Role : ChangeRole(r, by, u, role)
      PROVE  Off
  BY <1>a, <1>3, ZenonT(30) DEF Remove, ChangeRole, Call, Start, Idle, AddressPc, ConfirmPc
<1>4. ASSUME LoginLink(r) \/ LoginEmail(r) \/ LoginRole(r) \/ LoginNewRole(r) \/ LoginRow(r)
      PROVE  Off
  BY <1>a, <1>d, <1>4 DEF LoginLink, LoginEmail, LoginRole, LoginNewRole, LoginRow, Goto,
     RequestState, AddressPc, ConfirmPc
<1>5. ASSUME LoginCommit(r) \/ SessionBegin(r) \/ SessionUser(r) PROVE Off
  <2>1. CASE \E u : req' = [req EXCEPT ![r] = [Idle EXCEPT !.pc = "sessionBegin", !.user = u]]
    <3>1. PICK u : req'[r] = [Idle EXCEPT !.pc = "sessionBegin", !.user = u]
      BY <1>a, <2>1
    <3>2. QED BY <3>1 DEF Idle, AddressPc, ConfirmPc
  <2>2. CASE LoginCommit(r)
    BY <1>d, <2>1, <2>2 DEF LoginCommit
  <2>3. CASE SessionBegin(r)
    BY <1>a, <2>3 DEF SessionBegin, Enter, RequestState, AddressPc, ConfirmPc
  <2>4. QED BY <1>5, <1>d, <2>2, <2>3 DEF SessionUser
<1>6. ASSUME LinkUser(r) \/ LinkRowLookup(r) \/ LinkInsert(r) \/ UnlinkFind(r) \/ UnlinkDelete(r)
      PROVE  Off
  BY <1>a, <1>d, <1>6 DEF LinkUser, LinkRowLookup, LinkInsert, UnlinkFind, UnlinkDelete, Goto,
     RequestState, AddressPc, ConfirmPc
<1>7. ASSUME \/ ReauthPassword(r) \/ ReauthRevoke(r) \/ ReauthInsert(r)
             \/ GuardFind(r) \/ GuardList(r) \/ GuardSave(r)
      PROVE  Off
  BY <1>a, <1>d, <1>7 DEF ReauthPassword, ReauthRevoke, ReauthInsert, GuardFind, GuardList,
     GuardSave, Goto, RequestState, AddressPc, ConfirmPc
<1>8. ASSUME PwdBegin(r) \/ PwdCredential(r) \/ PwdUser(r) \/ PwdNew(r) \/ PwdWrite(r)
      PROVE  Off
  BY <1>a, <1>d, <1>8 DEF PwdBegin, Enter, PwdCredential, PwdUser, PwdNew, PwdWrite, Goto,
     RequestState, AddressPc, ConfirmPc
<1>9. QED
  BY <1>1, <1>2, <1>3, <1>4, <1>5, <1>6, <1>7, <1>8 DEF OAuthStep, ReAuthStep

LEMMA OthersNotKnown ==
    ASSUME Inv, NEW r \in Request,
           \/ OAuthStart(r) \/ OAuthStep(r) \/ ReAuthStart(r) \/ ReAuthStep(r)
           \/ \E by, u \in User : Remove(r, by, u) \/ \E role \in Role : ChangeRole(r, by, u, role)
    PROVE  AddressKnown(r)' /\ ~At(r, "updateCommit")'
BY OthersOff, NotKnown DEF AddressPc, At

LEMMA OAuthAddress ==
    ASSUME Inv, AddressInv, NEW r \in Request, Acts(r), OAuthStart(r) \/ OAuthStep(r),
           UNCHANGED emailVars
    PROVE  AddressInv' /\ Mapped
<1>o. AddressKnown(r)' /\ ~At(r, "updateCommit")' /\ changes' = changes /\ logs' = logs
  BY OthersNotKnown DEF emailVars
<1>q. ASSUME KeepRows PROVE AddressInv' /\ Mapped
  BY <1>o, <1>q, QuietAddress DEF Mapped, KeepRows
<1>1. CASE LoginCommit(r)
  <2> DEFINE e == req[r].email
  <2>1. e \in Email /\ e # None
    <3>1. e \in Email \cup {None} /\ Knows(req[r]) /\ req[r].pc \in {"loginInsert", "loginCommit"}
      BY <1>1 DEF LoginCommit, Inv, Requests, RequestState
    <3>2. QED BY <3>1 DEF Knows
  <2>2. ASSUME NEW u \in User, ~Exists(u), ~ \E v \in User : Exists(v) /\ users[v].email = e,
               Put(u, NewUser(e, DefaultRole))
        PROVE  AddressInv' /\ Mapped
    <3> DEFINE row == NewUser(e, DefaultRole)
    <3>1. row \in UserRow /\ row.email = e /\ row.born = e
      <4>1. row \in UserRow /\ row.email = e
        BY <2>1, AccountsAssumption, UserOpened
      <4>2. row.born = e
        BY DEF NewUser, NoUser
      <4>3. QED BY <4>1, <4>2
    <3> HIDE DEF row, e
    <3>2. /\ Address' = [Address EXCEPT ![u] = e]
          /\ users'[u] = row /\ \A v \in User \ {u} : users'[v] = users[v]
      BY <2>2, <3>1, PutMapped DEF row
    <3>3. \A q \in Change : changes[q].user # u
      BY <2>2, AccountsAssumption DEF Inv, EmailTyped, Stored
    <3>4. ASSUME NEW v \in User, NEW x
          PROVE  Confirms(v, x)' <=> IF v = u THEN x = e ELSE Confirms(v, x)
      <4>1. Confirms(v, x)' <=> \/ x = users'[v].born /\ x # None
                                \/ \E q \in Change : /\ changes[q].user = v /\ changes[q].used
                                                     /\ x = changes[q].new
        BY <1>o DEF Confirms, Confirmed
      <4>2. CASE v = u
        BY <2>1, <3>1, <3>2, <3>3, <4>1, <4>2
      <4>3. CASE v # u
        BY <3>2, <4>1, <4>3, ConfirmedMembers
      <4>4. QED BY <4>2, <4>3
    <3>5. Confirmed' = [Confirmed EXCEPT ![u] = {e}]
      <4>1. ASSUME NEW v \in User, NEW x
            PROVE  x \in Confirmed'[v] <=> IF v = u THEN x = e ELSE x \in Confirmed[v]
        BY <3>4 DEF Confirms
      <4>2. \A v \in User : Confirmed'[v] = IF v = u THEN {e} ELSE Confirmed[v]
        BY <4>1
      <4>3. Confirmed' = [v \in User |-> Confirmed'[v]] /\ Confirmed = [v \in User |-> Confirmed[v]]
        BY DEF Confirmed
      <4>4. QED BY <4>2, <4>3
    <3>6. Offered' = Offered
      BY <1>o DEF Offered
    <3>7. ASSUME NEW v \in User, NEW w \in User, users'[v].email # None,
                 users'[v].email = users'[w].email
          PROVE  v = w
      BY <2>2, <3>1, <3>2, <3>7 DEF AddressInv, RowsConfirmed, Exists
    <3>8. Ledger!Open(u, e)
      <4>1. Ledger!Apart(Address')
        BY <3>7 DEF Ledger!Apart, Address
      <4>2. Address[u] = None
        BY <2>2 DEF Address, Exists
      <4>3. QED BY <3>2, <3>5, <3>6, <4>1, <4>2 DEF Ledger!Open, Ledger!Have
    <3>9. Mapped
      BY <2>1, <3>8 DEF Mapped, Ledger!Next
    <3>10. \A v \in User, x \in Email : Confirms(v, x) => Confirms(v, x)'
      <4>1. \A x \in Email : ~Confirms(u, x)
        BY <2>2, <3>3, ConfirmedMembers DEF AddressInv, RowsConfirmed
      <4>2. QED BY <3>4, <4>1
    <3>11. RowsConfirmed'
      <4>1. \A v \in User : IF Exists(v)' THEN Confirms(v, users[v].email)' ELSE users'[v].born = None
        BY <2>1, <3>1, <3>2, <3>4 DEF AddressInv, RowsConfirmed, Exists
      <4>2. \A q \in Change : Stored(q)' => Confirms(changes[q].user, changes[q].old)'
        <5>1. \A q \in Change : Stored(q) => changes[q].user \in User \ {u}
          BY <3>3 DEF Inv, EmailTyped, Stored, ChangeRow
        <5>2. QED BY <1>o, <3>4, <5>1 DEF AddressInv, RowsConfirmed, Stored
      <4>3. \A m \in Log : Logged(m)' => Confirms(logs[m].user, logs[m].old)'
        <5>1. \A m \in Log : Logged(m) => logs[m].user \in User \ {u}
          BY <2>2 DEF Inv, EmailTyped, Logged, LogRow
        <5>2. QED BY <1>o, <3>4, <5>1 DEF AddressInv, RowsConfirmed, Logged
      <4>4. QED BY <3>7, <4>1, <4>2, <4>3 DEF RowsConfirmed, Exists
    <3>12. QED BY <1>o, <3>9, <3>10, <3>11, RequestsAddress DEF Stored
  <2>3. QED BY <1>1, <1>q, <2>2 DEF LoginCommit
<1>2. QED
  BY <1>q, <1>1, GuardsAssumption
  DEF OAuthStart, OAuthStep, OauthLogin, LinkProvider, UnlinkProvider, LoginLink, LoginEmail,
      LoginRole, LoginNewRole, LoginRow, SessionBegin, SessionUser, LinkUser, LinkRowLookup,
      LinkInsert, UnlinkFind, UnlinkDelete

LEMMA ReAuthAddress ==
    ASSUME Inv, AddressInv, NEW r \in Request, Acts(r), ReAuthStart(r) \/ ReAuthStep(r),
           UNCHANGED emailVars
    PROVE  AddressInv' /\ Mapped
<1>o. AddressKnown(r)' /\ ~At(r, "updateCommit")' /\ changes' = changes /\ logs' = logs
  BY OthersNotKnown DEF emailVars
<1>q. ASSUME KeepRows PROVE AddressInv' /\ Mapped
  BY <1>o, <1>q, QuietAddress DEF Mapped, KeepRows
<1>1. CASE PwdWrite(r) /\ ~KeepRows
  <2> DEFINE u == req[r].by
  <2>1. PICK n \in FreshSecrets(u) : Put(u, [users[u] EXCEPT !.secret = n])
    BY <1>1 DEF PwdWrite
  <2> DEFINE row == [users[u] EXCEPT !.secret = n]
  <2>2. Done(r) /\ At(r, "pwdWrite")
    BY <1>1 DEF PwdWrite
  <2>3. u \in User /\ Exists(u) /\ users[u] \in UserRow /\ n \in 0..MaxSecret
    BY <2>2 DEF Inv, Requests, Knows, RowsTyped, At, FreshSecrets
  <2>4. row \in UserRow /\ row.email = users[u].email /\ row.born = users[u].born
    BY <2>3 DEF UserRow
  <2> HIDE DEF u
  <2>5. Confirms(u, users[u].email) /\ ~Taken(users[u].email, u) /\ users[u].email # None
    BY <2>3 DEF AddressInv, RowsConfirmed, Taken, Exists
  <2> HIDE DEF row
  <2>6. Put(u, row)
    BY <2>1 DEF row
  <2>7. Confirms(u, row.email) /\ ~Taken(row.email, u) /\ row.email # None
    BY <2>4, <2>5
  <2>8. \A l \in Log : logs'[l].user = logs[l].user /\ logs'[l].old = logs[l].old
    BY <1>o
  <2>9. QED BY <1>o, <2>2, <2>3, <2>4, <2>6, <2>7, <2>8, ReturnStep
<1>2. QED
  BY <1>q, <1>1
  DEF ReAuthStart, ReAuthStep, Reauthenticate, Protected, ReauthPassword, ReauthRevoke,
      ReauthInsert, GuardFind, GuardList, GuardSave, PwdBegin, PwdCredential, PwdUser, PwdNew,
      PwdWrite

LEMMA RoleAddress ==
    ASSUME Inv, AddressInv, NEW r \in Request, Acts(r), UNCHANGED emailVars,
           \/ RoleStep(r)
           \/ \E by, u \in User : Remove(r, by, u) \/ \E role \in Role : ChangeRole(r, by, u, role)
    PROVE  AddressInv' /\ Mapped
<1> USE DEF At
<1>a. /\ req \in [Request -> RequestState] /\ req[r] \in RequestState /\ Knows(req[r])
      /\ AddressKnown(r) /\ RowsTyped
  BY DEF Inv, Requests, AddressInv
<1>o. changes' = changes /\ logs' = logs
  BY DEF emailVars
<1>d. ASSUME KeepRows, Done(r) \/ Exit PROVE AddressInv' /\ Mapped
  BY <1>d, <1>o, DoneStep DEF KeepRows
<1>p. ASSUME NEW u \in User, NEW row \in UserRow, Exists(u), Put(u, row), Done(r), row.email # None,
             row.born = users[u].born, Confirms(u, row.email), ~Taken(row.email, u)
      PROVE  AddressInv' /\ Mapped
  BY <1>o, <1>p, ReturnStep
<1>1. ASSUME \E by, u \in User : Remove(r, by, u) \/ \E role \in Role : ChangeRole(r, by, u, role)
      PROVE  AddressInv' /\ Mapped
  <2>1. KeepRows
    BY <1>1 DEF Remove, ChangeRole
  <2>2. AddressKnown(r)' /\ ~At(r, "updateCommit")'
    BY <1>1, OthersNotKnown
  <2>3. QED BY <1>o, <2>1, <2>2, QuietAddress DEF Mapped, KeepRows
<1>2. ASSUME ChangeRoleFind(r) PROVE AddressInv' /\ Mapped
  <2>1. CASE ~Done(r)
    <3> DEFINE u == req[r].user
               q == [req[r] EXCEPT !.pc = "roleSave", !.seen = users[u]]
    <3>1. req'[r] = q /\ Exists(u) /\ u \in User /\ KeepRows
      BY <1>2, <1>a, <2>1 DEF ChangeRoleFind, Visible, Knows
    <3>2. req'[r].pc = "roleSave" /\ req'[r].user = u /\ req'[r].seen = users[u]
      BY <1>a, <3>1 DEF RequestState
    <3>3. Confirms(u, users[u].email)'
      BY <1>o, <3>1, SameMapped DEF AddressInv, RowsConfirmed, Confirms, KeepRows
    <3>4. AddressKnown(r)'
      BY <3>1, <3>2, <3>3 DEF AddressKnown, ConfirmPc, KeepRows
    <3>5. QED BY <1>o, <3>1, <3>2, <3>4, QuietAddress DEF Mapped, KeepRows
  <2>2. QED BY <1>2, <1>d, <2>1 DEF ChangeRoleFind
<1>3. ASSUME RoleSave(r) PROVE AddressInv' /\ Mapped
  <2> DEFINE u == req[r].user
             seen == req[r].seen
             row == [users[u] EXCEPT !.role = req[r].role, !.email = seen.email, !.secret = seen.secret]
  <2>1. req[r].pc = "roleSave" /\ Done(r) /\ (KeepRows \/ (~Taken(seen.email, u) /\ Put(u, row)))
    BY <1>3 DEF RoleSave
  <2>2. /\ u \in User /\ Exists(u) /\ users[u] \in UserRow /\ req[r].role \in Role
        /\ seen \in UserRow /\ seen.email # None
    BY <1>a, <2>1 DEF Knows, RowsTyped, RequestState
  <2>3. row \in UserRow /\ row.email = seen.email /\ row.born = users[u].born
    BY <2>2 DEF UserRow
  <2>4. Confirms(u, seen.email)
    BY <1>a, <2>1 DEF AddressKnown
  <2> HIDE DEF row, u, seen
  <2>5. QED BY <1>d, <1>p, <2>1, <2>2, <2>3, <2>4
<1>4. ASSUME RemoveRow(r) PROVE AddressInv' /\ Mapped
  <2> DEFINE u == req[r].user
             row == [users[u] EXCEPT !.deleted = TRUE]
  <2>1. CASE ~Visible(u)
    BY <1>4, <1>d, <2>1 DEF RemoveRow
  <2>2. CASE Visible(u)
    <3>1. req[r].pc = "remove" /\ Done(r) /\ Put(u, row)
      BY <1>4, <2>2 DEF RemoveRow
    <3>2. u \in User /\ Exists(u) /\ users[u] \in UserRow
      BY <1>a, <2>2, <3>1 DEF Knows, RowsTyped, Visible
    <3>3. row \in UserRow /\ row.email = users[u].email /\ row.born = users[u].born
      BY <3>2 DEF UserRow
    <3> HIDE DEF row, u
    <3>4. Confirms(u, users[u].email) /\ ~Taken(users[u].email, u) /\ users[u].email # None
      BY <3>2 DEF AddressInv, RowsConfirmed, Taken, Exists
    <3>5. QED BY <1>p, <3>1, <3>2, <3>3, <3>4
  <2>3. QED BY <2>1, <2>2
<1>5. QED BY <1>1, <1>2, <1>3, <1>4 DEF RoleStep

-----------------------------------------------------------------------------
(* The refinement.                                                         *)

LEMMA InitAddress == Init => AddressInv /\ Ledger!Init
<1> SUFFICES ASSUME Init PROVE AddressInv /\ Ledger!Init
  OBVIOUS
<1> USE AccountsAssumption
<1>1. Inv
  BY InitInv
<1>2. /\ \A q \in Change : changes[q] = NoChange
      /\ \A l \in Log : logs[l] = NoLog
      /\ \A r \in Request : req[r] = Idle
  BY DEF Init, EmailInit, RowsInit
<1>3. \A u \in User : users[u].email = scenario.first[u] /\ users[u].born = users[u].email
  <2>1. \A u \in User : users[u] = IF scenario.first[u] = None THEN NoUser
                                   ELSE NewUser(scenario.first[u], FirstRole[u])
    BY DEF Init, RowsInit
  <2>2. \A e, role : NewUser(e, role).email = e /\ NewUser(e, role).born = e
    BY DEF NewUser, NoUser
  <2>3. NoUser.email = None /\ NoUser.born = None
    BY DEF NoUser
  <2>4. QED BY <2>1, <2>2, <2>3
<1>4. \A u, v \in User : Exists(u) /\ users[u].email = users[v].email => u = v
  <2>1. scenario \in Scenarios
    BY DEF Init, RowsInit
  <2>2. QED BY <1>3, <2>1 DEF Exists
<1>5. \A q \in Change : ~Stored(q) /\ ~changes[q].used
  BY <1>2 DEF Stored, NoChange
<1>6. \A l \in Log : ~Logged(l)
  BY <1>2 DEF Logged, NoLog
<1>7. \A u \in User : \A e : Confirms(u, e) <=> e = users[u].email /\ e # None
  BY <1>3, <1>5, ConfirmedMembers
<1>8. RowsConfirmed
  BY <1>3, <1>4, <1>5, <1>6, <1>7 DEF RowsConfirmed, Exists
<1>9. AddressInv
  BY <1>2, <1>8 DEF AddressInv, AddressKnown, OwnRows, At, Idle, ConfirmPc
<1>10. Ledger!Init
  <2>1. Address \in [User -> Email \cup {None}]
    BY <1>1 DEF Address, Inv, RowsTyped, UserRow
  <2>2. Ledger!Apart(Address)
    BY <1>4 DEF Ledger!Apart, Address, Exists
  <2>3. Confirmed = [u \in User |-> {Address[u]} \ {None}]
    <3>1. \A u \in User : \A e : e \in Confirmed[u] <=> e \in {Address[u]} \ {None}
      BY <1>7 DEF Confirms, Address
    <3>2. \A u \in User : Confirmed[u] = {Address[u]} \ {None}
      BY <3>1
    <3>3. Confirmed = [u \in User |-> Confirmed[u]]
      BY DEF Confirmed
    <3>4. QED BY <3>2, <3>3
  <2>4. Offered = [u \in User |-> {}]
    <3>1. \A u \in User : \A x : x \notin Offered[u]
      BY <1>5, OfferedMembers, <1>1 DEF Stored
    <3>2. \A u \in User : Offered[u] = {}
      BY <3>1
    <3>3. Offered = [u \in User |-> Offered[u]]
      BY DEF Offered
    <3>4. QED BY <3>2, <3>3
  <2>5. QED BY <2>1, <2>2, <2>3, <2>4 DEF Ledger!Init
<1>11. QED BY <1>9, <1>10

LEMMA NextAddress == AllInv /\ AddressInv /\ [Next]_vars => AddressInv' /\ Mapped
<1> SUFFICES ASSUME AllInv, AddressInv, [Next]_vars PROVE AddressInv' /\ Mapped
  OBVIOUS
<1>i. Inv /\ RaceInv
  BY DEF AllInv
<1>1. CASE UNCHANGED vars
  <2>1. UNCHANGED <<users, changes, logs, req>>
    BY <1>1 DEF vars, rowVars, emailVars
  <2>2. UNCHANGED <<Address, Confirmed, Offered>>
    BY <2>1, SameMapped
  <2>3. \A v, e : Confirms(v, e)' = Confirms(v, e)
    BY <2>2 DEF Confirms
  <2>4. RowsConfirmed' /\ OwnRows'
    BY <2>1, <2>3 DEF AddressInv, RowsConfirmed, OwnRows, Exists, Stored, Logged, At
  <2>5. \A r \in Request : AddressKnown(r)'
    BY <2>1, <2>3 DEF AddressInv, AddressKnown, Stored, At
  <2>6. QED BY <2>2, <2>4, <2>5 DEF AddressInv, Mapped
<1>2. ASSUME NEW r \in Request, Begin(r) \/ Step(r) PROVE AddressInv' /\ Mapped
  <2>a. Acts(r)
    BY <1>i, <1>2, NextTurns DEF Turns
  <2>1. CASE EmailStart(r) \/ EmailStep(r)
    BY <1>i, <1>2, <2>a, <2>1, EmailAddress
  <2>2. CASE (OAuthStart(r) \/ OAuthStep(r)) /\ UNCHANGED emailVars
    BY <1>i, <1>2, <2>a, <2>2, OAuthAddress
  <2>3. CASE (ReAuthStart(r) \/ ReAuthStep(r)) /\ UNCHANGED emailVars
    BY <1>i, <1>2, <2>a, <2>3, ReAuthAddress
  <2>4. CASE /\ UNCHANGED emailVars
             /\ \/ RoleStep(r)
                \/ \E by, u \in User : Remove(r, by, u) \/ \E role \in Role : ChangeRole(r, by, u, role)
    BY <1>i, <1>2, <2>a, <2>4, RoleAddress
  <2>5. QED BY <1>i, <1>2, <2>a, <2>1, <2>2, <2>3, <2>4 DEF Begin, Step
<1>3. QED BY <1>1, <1>2 DEF Next

-----------------------------------------------------------------------------
(* One confirmation.                                                       *)

\* A step that inserts no log.
LEMMA OnceKept ==
    ASSUME OnceInv, NEW r \in Request, Acts(r), ConfirmsMet(r)',
           \A q \in Change : Stored(q) /\ changes[q].used => Stored(q)' /\ changes'[q].used,
           \A l \in Log : /\ logs'[l].user = logs[l].user /\ logs'[l].change = logs[l].change
                          /\ logs'[l].raced = logs[l].raced
    PROVE  OnceInv'
<1>1. \A p \in Request \ {r} : req'[p].pc = "idle" \/ (req'[p] = req[p] /\ (p \in met => p \in met'))
  BY DEF Acts, Exit, Idle
<1>2. \A l \in Log : Logged(l)' = Logged(l)
  BY DEF Logged
<1>3. LogsUsed'
  BY <1>2 DEF OnceInv, LogsUsed
<1>4. SecondConfirmationOnlyByRace'
  BY <1>2 DEF OnceInv, SecondConfirmationOnlyByRace
<1>5. ASSUME NEW p \in Request \ {r} PROVE ConfirmsMet(p)'
  <2>1. CASE req'[p].pc = "idle"
    BY <2>1 DEF ConfirmsMet, ConfirmPc
  <2>2. CASE req'[p] = req[p] /\ (p \in met => p \in met')
    <3>1. ConfirmsMet(p)
      BY DEF OnceInv
    <3>2. QED BY <1>2, <2>2, <3>1 DEF ConfirmsMet
  <2>3. QED BY <1>1, <2>1, <2>2
<1>6. QED BY <1>3, <1>4, <1>5 DEF OnceInv

\* A step that leaves changes and logs and goes to no confirmation.
LEMMA OnceQuiet ==
    ASSUME OnceInv, NEW r \in Request, Acts(r), UNCHANGED <<changes, logs>>,
           req'[r].pc \notin ConfirmPc
    PROVE  OnceInv'
<1>1. ConfirmsMet(r)'
  BY DEF ConfirmsMet
<1>2. \A q \in Change : Stored(q)' = Stored(q)
  BY DEF Stored
<1>3. QED BY <1>1, <1>2, OnceKept

LEMMA DoneOff == ASSUME Inv, NEW r \in Request, Done(r) \/ Exit PROVE req'[r].pc \notin ConfirmPc
BY DEF Inv, Requests, Done, Exit, Idle, ConfirmPc

LEMMA EmailOnce ==
    ASSUME AllInv, AddressInv, OnceInv, NEW r \in Request, Acts(r), EmailStart(r) \/ EmailStep(r)
    PROVE  OnceInv'
<1> USE DEF At
<1>a. /\ Inv /\ Alone /\ req \in [Request -> RequestState] /\ req[r] \in RequestState
      /\ Knows(req[r]) /\ AddressKnown(r) /\ EmailTyped /\ LogsUsed /\ ConfirmsMet(r)
  BY DEF AllInv, RaceInv, Inv, Requests, AddressInv, OnceInv
<1>q. ASSUME UNCHANGED <<changes, logs>>, req'[r].pc \notin ConfirmPc PROVE OnceInv'
  BY <1>q, OnceQuiet
<1>1. ASSUME NEW by \in User, NEW u \in User, NEW e \in Email \cup {None}, Update(r, by, u, e)
      PROVE  OnceInv'
  <2> DEFINE q == [Idle EXCEPT !.pc = "update", !.email = e, !.by = by, !.user = u]
  <2>1. Start(r, q) /\ UNCHANGED <<changes, logs>>
    BY <1>1 DEF Update, Call, Idle, emailVars
  <2>2. req'[r].pc = "update"
    <3>1. req'[r] = q
      BY <1>a, <2>1, StartActs
    <3>2. QED BY <3>1 DEF Idle
  <2>3. QED BY <1>q, <2>1, <2>2 DEF ConfirmPc
<1>2. ASSUME NEW c \in Change, Confirm(r, c) PROVE OnceInv'
  <2> DEFINE q == [Idle EXCEPT !.pc = "confirmBegin", !.user = changes[c].user, !.item = c]
  <2>1. Start(r, q) /\ UNCHANGED <<changes, logs>> /\ ~changes[c].used
    BY <1>2 DEF Confirm, emailVars
  <2>2. req'[r].item = c
    <3>1. req'[r] = q
      BY <1>a, <2>1, StartActs
    <3>2. QED BY <3>1 DEF Idle
  <2>3. \A l \in Log : Logged(l) => logs[l].change # c
    BY <1>a, <2>1 DEF LogsUsed
  <2>4. ConfirmsMet(r)'
    BY <2>1, <2>2, <2>3 DEF ConfirmsMet, Logged
  <2>5. QED BY <2>1, <2>4, OnceKept DEF Stored
<1>3. ASSUME NEW l \in Log, Rollback(r, l) PROVE OnceInv'
  <2> DEFINE v == logs[l].user
             q == [Idle EXCEPT !.pc = "rollbackWrite", !.user = v, !.item = l, !.seen = users[v]]
  <2>1. Start(r, q) /\ UNCHANGED <<changes, logs>>
    BY <1>3 DEF Rollback, emailVars
  <2>2. req'[r].pc = "rollbackWrite"
    <3>1. req'[r] = q
      BY <1>a, <2>1, StartActs
    <3>2. QED BY <3>1 DEF Idle
  <2>3. QED BY <1>q, <2>1, <2>2 DEF ConfirmPc
<1>4. ASSUME UpdateFind(r) \/ UpdateCheck(r) \/ UpdateWrite(r) \/ UpdateMail(r) \/ ConfirmMail(r)
      PROVE  OnceInv'
  <2>1. UNCHANGED <<changes, logs>>
    BY <1>4 DEF UpdateFind, UpdateCheck, UpdateWrite, UpdateMail, ConfirmMail, emailVars
  <2>2. req'[r].pc \notin ConfirmPc
    <3>1. CASE Done(r) \/ Exit
      BY <1>a, <3>1, DoneOff
    <3>2. CASE ~(Done(r) \/ Exit)
      BY <1>4, <1>a, <3>2 DEF UpdateFind, UpdateCheck, UpdateWrite, UpdateMail, ConfirmMail, Goto,
         RequestState, ConfirmPc
    <3>3. QED BY <3>1, <3>2
  <2>3. QED BY <1>q, <2>1, <2>2
<1>5. ASSUME UpdateCommit(r) PROVE OnceInv'
  <2> DEFINE c == req[r].item
  <2>1. ~Stored(c) /\ c \in Change
    BY <1>5, <1>a DEF UpdateCommit, Knows, AddressKnown
  <2>2. \A q \in Change \ {c} : changes'[q] = changes[q]
    BY <1>5, <1>a DEF UpdateCommit, EmailTyped
  <2>3. \A q \in Change : Stored(q) /\ changes[q].used => Stored(q)' /\ changes'[q].used
    BY <2>1, <2>2 DEF Stored
  <2>4. logs' = logs /\ Done(r)
    BY <1>5 DEF UpdateCommit
  <2>5. ConfirmsMet(r)'
    BY <1>a, <2>4, DoneOff DEF ConfirmsMet
  <2>6. QED BY <2>3, <2>4, <2>5, OnceKept
<1>6. ASSUME ConfirmBegin(r) \/ ConfirmUser(r) PROVE OnceInv'
  <2>1. UNCHANGED <<changes, logs>> /\ req[r].pc \in ConfirmPc
    BY <1>6 DEF ConfirmBegin, ConfirmUser, emailVars, ConfirmPc
  <2>2. CASE Done(r)
    BY <1>a, <1>q, <2>1, <2>2, DoneOff
  <2>3. CASE ~Done(r)
    <3>1. req'[r].item = req[r].item /\ met' = met
      BY <1>6, <1>a, <2>3 DEF ConfirmBegin, ConfirmUser, Enter, Goto, RequestState
    <3>2. ConfirmsMet(r)'
      BY <1>a, <2>1, <3>1 DEF ConfirmsMet, Logged
    <3>3. QED BY <2>1, <3>2, OnceKept DEF Stored
  <2>4. QED BY <2>2, <2>3
<1>7. ASSUME RollbackWrite(r) PROVE OnceInv'
  <2>1. changes' = changes /\ Done(r)
    BY <1>7 DEF RollbackWrite
  <2>2. \A l \in Log : /\ logs'[l].user = logs[l].user /\ logs'[l].change = logs[l].change
                       /\ logs'[l].raced = logs[l].raced
    BY <1>7, <1>a DEF RollbackWrite, EmailTyped, LogRow
  <2>3. ConfirmsMet(r)'
    BY <1>a, <2>1, DoneOff DEF ConfirmsMet
  <2>4. QED BY <2>1, <2>2, <2>3, OnceKept DEF Stored
<1>8. ASSUME ConfirmWrite(r) PROVE OnceInv'
  <2> DEFINE u == req[r].user
             c == req[r].item
             old == changes[c].old
             new == changes[c].new
  <2>1. /\ c \in Change /\ Stored(c) /\ changes[c] \in ChangeRow /\ req[r].pc = "confirmWrite"
        /\ u \in User
    BY <1>a, <1>8 DEF ConfirmWrite, Knows, EmailTyped
  <2>2. CASE Taken(new, u)
    BY <1>8, <1>a, <1>q, <2>2, DoneOff DEF ConfirmWrite
  <2>3. CASE ~Taken(new, u)
    <3>1. PICK l \in FreshLogs :
            /\ logs' = [logs EXCEPT ![l] = [NoLog EXCEPT !.user = u, !.old = old,
                                                 !.change = c, !.raced = r \in met]]
            /\ req' = [req EXCEPT ![r].pc = "confirmMail", ![r].tx = FALSE, ![r].item = l]
            /\ changes' = [changes EXCEPT ![c].used = TRUE] /\ met' = met
      BY <1>8, <2>3 DEF ConfirmWrite
    <3>2. l \in Log /\ ~Logged(l)
      BY DEF FreshLogs
    <3>3. /\ logs'[l].change = c /\ logs'[l].raced = (r \in met) /\ logs'[l].user = u
          /\ \A m \in Log \ {l} : logs'[m] = logs[m]
      BY <1>a, <3>1, <3>2 DEF EmailTyped, NoLog
    <3>4. /\ changes'[c].user = changes[c].user /\ changes'[c].used
          /\ \A q \in Change \ {c} : changes'[q] = changes[q]
      BY <1>a, <2>1, <3>1 DEF EmailTyped, ChangeRow
    <3>5. \A m \in Log \ {l} : Logged(m)' = Logged(m)
      BY <3>3 DEF Logged
    <3>6. req'[r].pc = "confirmMail" /\ \A p \in Request \ {r} : req'[p] = req[p]
      <4>1. req'[r] = [req[r] EXCEPT !.pc = "confirmMail", !.tx = FALSE, !.item = l]
        BY <1>a, <3>1
      <4>2. QED BY <1>a, <3>1, <4>1 DEF RequestState
    <3> HIDE DEF u, old, new, c
    <3>7. \A m \in Log : Logged(m) /\ logs[m].change = c => logs[m].raced /\ r \in met
      BY <1>a, <2>1 DEF ConfirmsMet, ConfirmPc, c
    <3>8. LogsUsed'
      <4>1. \A q \in Change : Stored(q) => Stored(q)' /\ (changes[q].used => changes'[q].used)
        BY <3>4 DEF Stored
      <4>2. c \in Change /\ changes'[c].user # None /\ changes'[c].used /\ Logged(l)'
        BY <2>1, <3>3, <3>4, AccountsAssumption DEF Logged, Stored
      <4>3. \A m \in Log \ {l} : logs'[m] = logs[m] /\ Logged(m)' = Logged(m)
        BY <3>3, <3>5
      <4>4. ASSUME NEW m \in Log \ {l}
            PROVE  IF Logged(m)' THEN LET q == logs'[m].change IN
                                      q \in Change /\ changes'[q].user # None /\ changes'[q].used
                                 ELSE logs'[m].change = None
        BY <1>a, <4>1, <4>3 DEF LogsUsed, Stored
      <4>5. QED BY <3>3, <4>2, <4>4 DEF LogsUsed, Stored
    <3>9. SecondConfirmationOnlyByRace'
      <4>1. SecondConfirmationOnlyByRace
        BY DEF OnceInv
      <4>2. ASSUME NEW m \in Log, NEW n \in Log, m # n, Logged(m)', logs'[m].change = logs'[n].change
            PROVE  logs'[m].raced /\ logs'[n].raced
        <5>1. CASE m = l
          <6>1. logs[n].change = c
            BY <3>3, <4>2, <5>1
          <6>2. Logged(n)
            BY <1>a, <2>1, <6>1, AccountsAssumption DEF LogsUsed
          <6>3. QED BY <3>3, <3>7, <4>2, <5>1, <6>1, <6>2
        <5>2. CASE n = l
          BY <3>3, <3>5, <3>7, <4>2, <5>2
        <5>3. CASE m # l /\ n # l
          BY <3>3, <3>5, <4>1, <4>2, <5>3 DEF SecondConfirmationOnlyByRace
        <5>4. QED BY <5>1, <5>2, <5>3
      <4>3. QED BY <4>2 DEF SecondConfirmationOnlyByRace
    <3>10. ASSUME NEW p \in Request \ {r} PROVE ConfirmsMet(p)'
      <4>1. ASSUME req[p].pc \in ConfirmPc PROVE p \in met /\ r \in met
        BY <1>a, <2>1, <4>1 DEF Alone, Busy, ConfirmPc
      <4>2. ConfirmsMet(p)
        BY DEF OnceInv
      <4>3. QED BY <3>1, <3>3, <3>5, <3>6, <4>1, <4>2 DEF ConfirmsMet
    <3>11. ConfirmsMet(r)'
      BY <3>6 DEF ConfirmsMet, ConfirmPc
    <3>12. QED BY <3>8, <3>9, <3>10, <3>11 DEF OnceInv
  <2>4. QED BY <2>2, <2>3
<1>9. QED
  BY <1>1, <1>2, <1>3, <1>4, <1>5, <1>6, <1>7, <1>8 DEF EmailStart, EmailStep

LEMMA InitOnce == Init => OnceInv
<1> SUFFICES ASSUME Init PROVE OnceInv
  OBVIOUS
<1>1. /\ \A l \in Log : logs[l] = NoLog
      /\ \A r \in Request : req[r] = Idle
  BY DEF Init, EmailInit, RowsInit
<1>2. \A l \in Log : ~Logged(l) /\ logs[l].change = None
  BY <1>1 DEF Logged, NoLog
<1>3. QED
  BY <1>1, <1>2 DEF OnceInv, LogsUsed, SecondConfirmationOnlyByRace, ConfirmsMet, ConfirmPc, Idle

LEMMA NextOnce == AllInv /\ AddressInv /\ OnceInv /\ [Next]_vars => OnceInv'
<1> SUFFICES ASSUME AllInv, AddressInv, OnceInv, [Next]_vars PROVE OnceInv'
  OBVIOUS
<1>i. Inv /\ RaceInv
  BY DEF AllInv
<1>1. CASE UNCHANGED vars
  <2>1. UNCHANGED <<changes, logs, req, met>>
    BY <1>1 DEF vars, rowVars, emailVars
  <2>2. QED
    BY <2>1 DEF OnceInv, LogsUsed, SecondConfirmationOnlyByRace, ConfirmsMet, Logged, Stored
<1>2. ASSUME NEW r \in Request, Begin(r) \/ Step(r) PROVE OnceInv'
  <2>a. Acts(r)
    BY <1>i, <1>2, NextTurns DEF Turns
  <2>1. CASE EmailStart(r) \/ EmailStep(r)
    BY <2>a, <2>1, EmailOnce
  <2>2. CASE UNCHANGED emailVars /\ ~RoleStep(r) /\ ~(EmailStart(r) \/ EmailStep(r))
    <3>1. req'[r].pc \notin AddressPc
      BY <1>i, <1>2, <2>2, OthersOff DEF Begin, Step
    <3>2. QED BY <2>a, <2>2, <3>1, OnceQuiet DEF AddressPc, emailVars
  <2>3. CASE UNCHANGED emailVars /\ RoleStep(r)
    <3>1. req'[r].pc \notin ConfirmPc
      <4>1. CASE Done(r) \/ Exit
        BY <1>i, <4>1, DoneOff
      <4>2. CASE ~(Done(r) \/ Exit)
        BY <1>i, <2>3, <4>2
        DEF RoleStep, ChangeRoleFind, RoleSave, RemoveRow, Inv, Requests, RequestState, ConfirmPc
      <4>3. QED BY <4>1, <4>2
    <3>2. QED BY <2>a, <2>3, <3>1, OnceQuiet DEF emailVars
  <2>4. QED BY <1>2, <2>1, <2>2, <2>3 DEF Begin, Step
<1>3. QED BY <1>1, <1>2 DEF Next

-----------------------------------------------------------------------------
(* The theorems.                                                           *)

LEMMA AlwaysAddress == Spec => [](AllInv /\ AddressInv /\ OnceInv)
BY InitAll, InitAddress, InitOnce, NextAll, NextAddress, NextOnce, PTL DEF Spec

\* Refinement: whatever requests overlap and whatever rows they write back,
\* every behaviour is, on the addresses, a behaviour of AddressLedger.
THEOREM LedgerRefined == Spec => AddressSpec
<1>1. AllInv /\ AddressInv /\ [Next]_vars => [Ledger!Next]_<<Address, Confirmed, Offered>>
  BY NextAddress DEF Mapped
<1>2. QED BY AlwaysAddress, InitAddress, <1>1, PTL DEF Spec, AddressSpec, Ledger!Spec

\* A change of address is confirmed once, unless two confirmations of it overlap.
THEOREM OneConfirmation == Spec => []SecondConfirmationOnlyByRace
<1>1. OnceInv => SecondConfirmationOnlyByRace
  BY DEF OnceInv
<1>2. QED BY AlwaysAddress, <1>1, PTL

-----------------------------------------------------------------------------
(* For whom a request acts.                                                *)

Admin(u) == \E c \in access[u] : c.role = SuperAdmin \/ "all" \in Grants[c.role]
HasHad(u, e) == \E c \in access[u] : c.email = e

UserPc == {"update", "updateCheck", "updateWrite", "updateMail", "updateCommit",
           "changeRole", "roleSave", "remove"}
MailPc == ConfirmPc \cup {"rollbackWrite"}
FoundPc == {"pwdNew", "pwdWrite"}
PwdPc == {"guardFind", "guardList", "guardSave", "pwdBegin", "pwdCredential", "pwdUser"}
           \cup FoundPc

RightsKnown(r) ==
    /\ req[r].pc \in UserPc
         => req[r].by \in User /\ (req[r].by = req[r].user \/ Admin(req[r].by))
    /\ req[r].pc \in MailPc => req[r].by = None
    /\ req[r].pc \in PwdPc => req[r].by \in User /\ HasHad(req[r].by, req[r].email)
    /\ req[r].pc \in FoundPc => req[r].user \in User /\ HasHad(req[r].user, req[r].email)

\* There is a token of every row: what has been had stays had.
Signed == \A u \in User : ClaimsOf(users[u]) \subseteq access[u]

RightsInv == Signed /\ PasswordFollowsAddress /\ \A r \in Request : RightsKnown(r)

Writes == KeepRows \/ \E u \in User : \E row : Put(u, row)

LEMMA RightsLast ==
    ASSUME Inv, Signed, Writes
    PROVE  /\ Signed' /\ \A u \in User : access[u] \subseteq access'[u]
           /\ \A u \in User : Admin(u) => Admin(u)'
           /\ \A u \in User : \A e : HasHad(u, e) => HasHad(u, e)'
<1>1. access \in [User -> SUBSET Claim] /\ users \in [User -> UserRow]
  BY DEF Inv, RowsTyped
<1>2. CASE KeepRows
  BY <1>2 DEF KeepRows, Signed, Admin, HasHad
<1>3. ASSUME NEW u \in User, NEW row, Put(u, row)
      PROVE  Signed' /\ \A v \in User : access[v] \subseteq access'[v]
  <2>1. /\ users'[u] = row /\ access'[u] = access[u] \cup ClaimsOf(row)
        /\ \A v \in User \ {u} : users'[v] = users[v] /\ access'[v] = access[v]
    BY <1>1, <1>3 DEF Put
  <2>2. ASSUME NEW v \in User PROVE ClaimsOf(users'[v]) \subseteq access'[v]
    BY <2>1 DEF Signed
  <2>3. QED BY <2>1, <2>2 DEF Signed
<1>4. Signed' /\ \A v \in User : access[v] \subseteq access'[v]
  BY <1>2, <1>3 DEF Writes, KeepRows, Signed
<1>5. QED BY <1>4 DEF Admin, HasHad

\* A step that sets no password.
LEMMA RightsKept ==
    ASSUME Inv, RightsInv, Writes, NEW r \in Request, Acts(r), passwords' = passwords,
           RightsKnown(r)'
    PROVE  RightsInv'
<1>1. /\ Signed' /\ \A u \in User : access[u] \subseteq access'[u]
      /\ \A u \in User : Admin(u) => Admin(u)'
      /\ \A u \in User : \A e : HasHad(u, e) => HasHad(u, e)'
  BY RightsLast DEF RightsInv
<1>2. \A p \in Request \ {r} : req'[p] = req[p] \/ req'[p].pc = "idle"
  BY DEF Acts, Exit, Idle
<1>3. ASSUME NEW p \in Request \ {r} PROVE RightsKnown(p)'
  <2>1. RightsKnown(p)
    BY DEF RightsInv
  <2>2. CASE req'[p] = req[p]
    BY <1>1, <2>1, <2>2 DEF RightsKnown
  <2>3. CASE req'[p].pc = "idle"
    BY <2>3 DEF RightsKnown, UserPc, MailPc, ConfirmPc, PwdPc, FoundPc
  <2>4. QED BY <1>2, <2>2, <2>3
<1>4. PasswordFollowsAddress'
  BY <1>1 DEF RightsInv, PasswordFollowsAddress
<1>5. QED BY <1>1, <1>3, <1>4 DEF RightsInv

LEMMA DoneRights == ASSUME Inv, NEW r \in Request, Done(r) \/ Exit PROVE RightsKnown(r)'
<1>1. req'[r].pc = "idle"
  BY DEF Inv, Requests, Done, Exit, Idle
<1>2. QED BY <1>1 DEF RightsKnown, UserPc, MailPc, ConfirmPc, PwdPc, FoundPc

LEMMA OffRights ==
    ASSUME NEW r \in Request, req'[r].pc \notin UserPc \cup MailPc \cup PwdPc
    PROVE  RightsKnown(r)'
BY DEF RightsKnown, PwdPc

\* A request that goes on, for the same user and with the same address.
LEMMA OnRights ==
    ASSUME Inv, RightsInv, KeepRows, NEW r \in Request,
           req'[r].by = req[r].by, req'[r].user = req[r].user, req'[r].email = req[r].email,
           req'[r].pc \in UserPc => req[r].pc \in UserPc,
           req'[r].pc \in MailPc => req[r].pc \in MailPc,
           req'[r].pc \in PwdPc => req[r].pc \in PwdPc,
           req'[r].pc \in FoundPc => req[r].pc \in FoundPc
    PROVE  RightsKnown(r)'
<1>1. RightsKnown(r)
  BY DEF RightsInv
<1>2. access' = access
  BY DEF KeepRows
<1>3. /\ \A u : Admin(u)' = Admin(u)
      /\ \A u, e : HasHad(u, e)' = HasHad(u, e)
  BY <1>2 DEF Admin, HasHad
<1>4. QED BY <1>1, <1>3 DEF RightsKnown

\* What the guards have let a request on the row of a user through for.
LEMMA CallRights ==
    ASSUME NEW r \in Request, NEW by \in User, NEW u \in User, NEW e, NEW state,
           Call(r, e, by, u, state), e.allowSelf \/ e.superadminOnly
    PROVE  by = u \/ Admin(by)
BY DEF Call, Passes, UserSelfOrAdminGuard, SuperadminGuard, Admin

LEMMA EmailRights ==
    ASSUME Inv, RightsInv, NEW r \in Request, EmailStart(r) \/ EmailStep(r)
    PROVE  RightsKnown(r)' /\ Writes
<1> USE DEF At
<1>a. req \in [Request -> RequestState] /\ req[r] \in RequestState /\ Knows(req[r])
  BY DEF Inv, Requests
<1>d. ASSUME Done(r) \/ Exit PROVE RightsKnown(r)'
  BY <1>d, DoneRights
<1>1. ASSUME NEW by \in User, NEW u \in User, NEW e \in Email \cup {None}, Update(r, by, u, e)
      PROVE  RightsKnown(r)' /\ Writes
  <2> DEFINE state == [Idle EXCEPT !.pc = "update", !.email = e]
             q == [state EXCEPT !.by = by, !.user = u]
  <2>1. Call(r, UpdateEndpoint, by, u, state) /\ KeepRows
    BY <1>1 DEF Update
  <2>2. by = u \/ Admin(by)
    <3>1. UpdateEndpoint.allowSelf
      BY DEF UpdateEndpoint, Plain
    <3> HIDE DEF state
    <3>2. QED BY <2>1, <3>1, CallRights
  <2>3. req'[r] = q
    <3>1. Start(r, q)
      BY <2>1 DEF Call
    <3>2. QED BY <3>1, StartActs
  <2>4. req'[r].pc = "update" /\ req'[r].by = by /\ req'[r].user = u
    BY <2>3 DEF Idle
  <2>5. Admin(by) => Admin(by)'
    BY <2>1 DEF KeepRows, Admin
  <2>6. QED BY <2>1, <2>2, <2>4, <2>5 DEF RightsKnown, UserPc, MailPc, ConfirmPc, PwdPc, FoundPc, Writes
<1>2. ASSUME NEW c \in Change, Confirm(r, c) PROVE RightsKnown(r)' /\ Writes
  <2> DEFINE q == [Idle EXCEPT !.pc = "confirmBegin", !.user = changes[c].user, !.item = c]
  <2>1. Start(r, q) /\ KeepRows
    BY <1>2 DEF Confirm
  <2>2. req'[r] = q
    BY <2>1, StartActs
  <2>3. req'[r].pc = "confirmBegin" /\ req'[r].by = None
    BY <2>2 DEF Idle
  <2>4. QED BY <2>1, <2>3 DEF RightsKnown, UserPc, MailPc, ConfirmPc, PwdPc, FoundPc, Writes
<1>3. ASSUME NEW l \in Log, Rollback(r, l) PROVE RightsKnown(r)' /\ Writes
  <2> DEFINE v == logs[l].user
             q == [Idle EXCEPT !.pc = "rollbackWrite", !.user = v, !.item = l, !.seen = users[v]]
  <2>1. Start(r, q) /\ KeepRows
    BY <1>3 DEF Rollback
  <2>2. req'[r] = q
    BY <2>1, StartActs
  <2>3. req'[r].pc = "rollbackWrite" /\ req'[r].by = None
    BY <2>2 DEF Idle
  <2>4. QED BY <2>1, <2>3 DEF RightsKnown, UserPc, MailPc, ConfirmPc, PwdPc, FoundPc, Writes
<1>4. ASSUME \/ UpdateFind(r) \/ UpdateCheck(r) \/ UpdateMail(r) \/ ConfirmBegin(r)
             \/ ConfirmUser(r) \/ ConfirmMail(r)
      PROVE  RightsKnown(r)' /\ Writes
  <2>1. KeepRows
    BY <1>4 DEF UpdateFind, UpdateCheck, UpdateMail, ConfirmBegin, ConfirmUser, ConfirmMail
  <2>2. CASE ~(Done(r) \/ Exit)
    <3>1. req'[r].by = req[r].by /\ req'[r].user = req[r].user /\ req'[r].email = req[r].email
      BY <1>a, <1>4, <2>2 DEF UpdateFind, UpdateCheck, UpdateMail, ConfirmBegin, ConfirmUser,
         ConfirmMail, Goto, Enter, RequestState
    <3>2. \/ req[r].pc \in UserPc /\ req'[r].pc \in UserPc
          \/ req[r].pc \in MailPc /\ req'[r].pc \in MailPc
      BY <1>a, <1>4, <2>2 DEF UpdateFind, UpdateCheck, UpdateMail, ConfirmBegin, ConfirmUser,
         ConfirmMail, Goto, Enter, RequestState, UserPc, MailPc, ConfirmPc
    <3>3. \A pc : (pc \in UserPc => pc \notin MailPc \cup PwdPc) /\ (pc \in MailPc => pc \notin PwdPc)
                    /\ (pc \in FoundPc => pc \in PwdPc)
      BY DEF UserPc, MailPc, ConfirmPc, PwdPc, FoundPc
    <3>4. QED BY <2>1, <3>1, <3>2, <3>3, OnRights DEF Writes
  <2>3. QED BY <1>d, <2>1, <2>2 DEF Writes
<1>5. ASSUME UpdateWrite(r) \/ UpdateCommit(r) \/ RollbackWrite(r) PROVE RightsKnown(r)' /\ Writes
  <2>1. req[r].pc \in {"updateWrite", "rollbackWrite"} => req[r].user \in User
    BY <1>a DEF Knows
  <2>2. Done(r) /\ Writes
    BY <1>5, <2>1 DEF UpdateWrite, UpdateCommit, RollbackWrite, Writes
  <2>3. QED BY <1>d, <2>2
<1>6. ASSUME ConfirmWrite(r) PROVE RightsKnown(r)' /\ Writes
  <2>1. req[r].user \in User
    BY <1>6, <1>a DEF ConfirmWrite, Knows
  <2>2. Writes
    BY <1>6, <2>1 DEF ConfirmWrite, Writes
  <2>3. CASE ~Done(r)
    <3>1. PICK l : req' = [req EXCEPT ![r].pc = "confirmMail", ![r].tx = FALSE, ![r].item = l]
      BY <1>6, <2>3 DEF ConfirmWrite
    <3>2. req'[r].pc = "confirmMail"
      BY <1>a, <3>1 DEF RequestState
    <3>3. QED BY <2>2, <3>2, OffRights DEF UserPc, MailPc, ConfirmPc, PwdPc, FoundPc
  <2>4. QED BY <1>d, <2>2, <2>3
<1>7. QED BY <1>1, <1>2, <1>3, <1>4, <1>5, <1>6 DEF EmailStart, EmailStep

LEMMA RoleRights ==
    ASSUME Inv, RightsInv, NEW r \in Request,
           \/ RoleStep(r)
           \/ \E by, u \in User : Remove(r, by, u) \/ \E role \in Role : ChangeRole(r, by, u, role)
    PROVE  RightsKnown(r)' /\ Writes
<1> USE DEF At
<1>a. req \in [Request -> RequestState] /\ req[r] \in RequestState /\ Knows(req[r])
  BY DEF Inv, Requests
<1>c. ASSUME NEW by \in User, NEW u \in User, NEW e, NEW state, Call(r, e, by, u, state), KeepRows,
             e.allowSelf \/ e.superadminOnly, state.pc \in UserPc,
             state.pc = [state EXCEPT !.by = by, !.user = u].pc,
             by = [state EXCEPT !.by = by, !.user = u].by,
             u = [state EXCEPT !.by = by, !.user = u].user
      PROVE  RightsKnown(r)' /\ Writes
  <2>1. by = u \/ Admin(by)
    BY <1>c, CallRights
  <2>2. req'[r] = [state EXCEPT !.by = by, !.user = u]
    BY <1>c, StartActs DEF Call
  <2>3. req'[r].pc \in UserPc /\ req'[r].by = by /\ req'[r].user = u
    BY <1>c, <2>2
  <2>4. Admin(by) => Admin(by)'
    BY <1>c DEF KeepRows, Admin
  <2>5. QED
    BY <1>c, <2>1, <2>3, <2>4 DEF RightsKnown, UserPc, MailPc, ConfirmPc, PwdPc, FoundPc, Writes
<1>1. ASSUME NEW by \in User, NEW u \in User, NEW role \in Role, ChangeRole(r, by, u, role)
      PROVE  RightsKnown(r)' /\ Writes
  <2> DEFINE state == [Idle EXCEPT !.pc = "changeRole", !.role = role]
  <2>1. Call(r, ChangeRoleEndpoint, by, u, state) /\ KeepRows
    BY <1>1 DEF ChangeRole
  <2>2. /\ state.pc = "changeRole" /\ state.pc = [state EXCEPT !.by = by, !.user = u].pc
        /\ by = [state EXCEPT !.by = by, !.user = u].by
        /\ u = [state EXCEPT !.by = by, !.user = u].user
    BY DEF Idle
  <2>3. ChangeRoleEndpoint.superadminOnly
    BY DEF ChangeRoleEndpoint, Plain
  <2> HIDE DEF state
  <2>4. QED BY <1>c, <2>1, <2>2, <2>3 DEF UserPc
<1>2. ASSUME NEW by \in User, NEW u \in User, Remove(r, by, u) PROVE RightsKnown(r)' /\ Writes
  <2> DEFINE state == [Idle EXCEPT !.pc = "remove"]
  <2>1. Call(r, RemoveEndpoint, by, u, state) /\ KeepRows
    BY <1>2 DEF Remove
  <2>2. /\ state.pc = "remove" /\ state.pc = [state EXCEPT !.by = by, !.user = u].pc
        /\ by = [state EXCEPT !.by = by, !.user = u].by
        /\ u = [state EXCEPT !.by = by, !.user = u].user
    BY DEF Idle
  <2>3. RemoveEndpoint.allowSelf
    BY DEF RemoveEndpoint, Plain
  <2> HIDE DEF state
  <2>4. QED BY <1>c, <2>1, <2>2, <2>3 DEF UserPc
<1>3. ASSUME ChangeRoleFind(r) PROVE RightsKnown(r)' /\ Writes
  <2>1. KeepRows /\ req[r].pc = "changeRole"
    BY <1>3 DEF ChangeRoleFind
  <2>2. CASE ~Done(r)
    <3>1. /\ req'[r].by = req[r].by /\ req'[r].user = req[r].user /\ req'[r].email = req[r].email
          /\ req'[r].pc = "roleSave"
      BY <1>a, <1>3, <2>2 DEF ChangeRoleFind, RequestState
    <3>2. QED BY <2>1, <3>1, OnRights DEF Writes, UserPc, MailPc, ConfirmPc, PwdPc, FoundPc
  <2>3. QED BY <2>1, <2>2, DoneRights DEF Writes
<1>4. ASSUME RoleSave(r) \/ RemoveRow(r) PROVE RightsKnown(r)' /\ Writes
  <2>1. req[r].pc \in {"roleSave", "remove"} => req[r].user \in User
    BY <1>a DEF Knows
  <2>2. (Done(r) \/ Exit) /\ Writes
    BY <1>4, <2>1 DEF RoleSave, RemoveRow, Writes
  <2>3. QED BY <2>2, DoneRights
<1>5. QED BY <1>1, <1>2, <1>3, <1>4 DEF RoleStep

LEMMA OAuthRights ==
    ASSUME Inv, NEW r \in Request, OAuthStart(r) \/ OAuthStep(r)
    PROVE  RightsKnown(r)' /\ Writes
<1>1. Writes
  BY DEF OAuthStart, OAuthStep, OauthLogin, LinkProvider, UnlinkProvider, LoginLink, LoginEmail,
     LoginRole, LoginNewRole, LoginRow, LoginCommit, SessionBegin, SessionUser, LinkUser,
     LinkRowLookup, LinkInsert, UnlinkFind, UnlinkDelete, Writes
<1>2. req'[r].pc \notin AddressPc
  BY OthersOff
<1> DEFINE Off == req'[r].pc \notin UserPc \cup MailPc \cup PwdPc
<1>a. req \in [Request -> RequestState] /\ req[r] \in RequestState
  BY DEF Inv, Requests
<1>d. ASSUME Done(r) PROVE Off
  BY <1>a, <1>d DEF Done, Idle, UserPc, MailPc, ConfirmPc, PwdPc, FoundPc
<1>3. ASSUME OAuthStart(r) PROVE Off
  <2>1. req'[r].pc \in {"loginLink", "linkUser", "unlink"}
    BY <1>a, <1>3 DEF OAuthStart, OauthLogin, LinkProvider, UnlinkProvider, Call, Start, Idle
  <2>2. QED BY <2>1 DEF UserPc, MailPc, ConfirmPc, PwdPc, FoundPc
<1>4. ASSUME LoginLink(r) \/ LoginEmail(r) \/ LoginRole(r) \/ LoginNewRole(r) \/ LoginRow(r)
      PROVE  Off
  BY <1>a, <1>d, <1>4 DEF LoginLink, LoginEmail, LoginRole, LoginNewRole, LoginRow, Goto,
     RequestState, UserPc, MailPc, ConfirmPc, PwdPc, FoundPc
<1>5. ASSUME LoginCommit(r) \/ SessionBegin(r) \/ SessionUser(r) PROVE Off
  <2>1. CASE \E u : req' = [req EXCEPT ![r] = [Idle EXCEPT !.pc = "sessionBegin", !.user = u]]
    <3>1. PICK u : req'[r] = [Idle EXCEPT !.pc = "sessionBegin", !.user = u]
      BY <1>a, <2>1
    <3>2. QED BY <3>1 DEF Idle, UserPc, MailPc, ConfirmPc, PwdPc, FoundPc
  <2>2. CASE LoginCommit(r)
    BY <1>d, <2>1, <2>2 DEF LoginCommit
  <2>3. CASE SessionBegin(r)
    BY <1>a, <2>3 DEF SessionBegin, Enter, RequestState, UserPc, MailPc, ConfirmPc, PwdPc, FoundPc
  <2>4. QED BY <1>5, <1>d, <2>2, <2>3 DEF SessionUser
<1>6. ASSUME LinkUser(r) \/ LinkRowLookup(r) \/ LinkInsert(r) \/ UnlinkFind(r) \/ UnlinkDelete(r)
      PROVE  Off
  BY <1>a, <1>d, <1>6 DEF LinkUser, LinkRowLookup, LinkInsert, UnlinkFind, UnlinkDelete, Goto,
     RequestState, UserPc, MailPc, ConfirmPc, PwdPc, FoundPc
<1>7. Off
  BY <1>3, <1>4, <1>5, <1>6 DEF OAuthStep
<1>8. QED BY <1>1, <1>7, OffRights

\* resetPasswordLogged: the account it finds has the address of the token.
LEMMA ReAuthRights ==
    ASSUME Inv, RightsInv, NEW r \in Request, ReAuthStart(r) \/ ReAuthStep(r)
    PROVE  RightsKnown(r)' /\ Writes
<1> USE DEF At
<1>a. /\ req \in [Request -> RequestState] /\ req[r] \in RequestState /\ Knows(req[r])
      /\ RightsKnown(r)
  BY DEF Inv, Requests, RightsInv
<1>d. ASSUME Done(r) PROVE RightsKnown(r)'
  BY <1>d, DoneRights
<1>1. ASSUME NEW u \in User, Reauthenticate(r, u) PROVE RightsKnown(r)' /\ Writes
  <2>1. KeepRows
    BY <1>1 DEF Reauthenticate
  <2>2. req'[r].pc \notin UserPc \cup MailPc \cup PwdPc
    BY <1>a, <1>1 DEF Reauthenticate, Call, Start, Idle, UserPc, MailPc, ConfirmPc, PwdPc, FoundPc
  <2>3. QED BY <2>1, <2>2, OffRights DEF Writes
<1>2. ASSUME NEW by \in User, NEW c \in Claim, NEW t \in Token, Protected(r, by, c, t)
      PROVE  RightsKnown(r)' /\ Writes
  <2> DEFINE q == [Idle EXCEPT !.pc = "guardFind", !.by = by, !.email = c.email, !.item = t]
  <2>1. Start(r, q) /\ KeepRows /\ c \in access[by]
    BY <1>2 DEF Protected, AuthGuard
  <2>2. req'[r] = q
    BY <2>1, StartActs
  <2>3. req'[r].pc = "guardFind" /\ req'[r].by = by /\ req'[r].email = c.email
    BY <2>2 DEF Idle
  <2>4. HasHad(by, c.email)'
    BY <2>1 DEF HasHad, KeepRows
  <2>5. QED BY <2>1, <2>3, <2>4 DEF RightsKnown, UserPc, MailPc, ConfirmPc, PwdPc, FoundPc, Writes
<1>3. ASSUME ReauthPassword(r) \/ ReauthRevoke(r) \/ ReauthInsert(r) PROVE RightsKnown(r)' /\ Writes
  <2>1. KeepRows
    BY <1>3 DEF ReauthPassword, ReauthRevoke, ReauthInsert
  <2>2. CASE ~Done(r)
    <3>1. req'[r].pc \notin UserPc \cup MailPc \cup PwdPc
      BY <1>3, <1>a, <2>2 DEF ReauthPassword, ReauthRevoke, ReauthInsert, Goto, RequestState,
         UserPc, MailPc, ConfirmPc, PwdPc, FoundPc
    <3>2. QED BY <2>1, <3>1, OffRights DEF Writes
  <2>3. QED BY <1>d, <2>1, <2>2 DEF Writes
<1>4. ASSUME GuardFind(r) \/ GuardList(r) \/ GuardSave(r) \/ PwdBegin(r) \/ PwdNew(r)
      PROVE  RightsKnown(r)' /\ Writes
  <2>1. KeepRows
    BY <1>4 DEF GuardFind, GuardList, GuardSave, PwdBegin, PwdNew
  <2>2. CASE ~Done(r)
    <3>1. req'[r].by = req[r].by /\ req'[r].user = req[r].user /\ req'[r].email = req[r].email
      BY <1>a, <1>4, <2>2 DEF GuardFind, GuardList, GuardSave, PwdBegin, PwdNew, Goto, Enter,
         RequestState
    <3>2. /\ req[r].pc \in PwdPc /\ req'[r].pc \in PwdPc
          /\ req'[r].pc \in FoundPc => req[r].pc \in FoundPc
      BY <1>a, <1>4, <2>2 DEF GuardFind, GuardList, GuardSave, PwdBegin, PwdNew, Goto, Enter,
         RequestState, PwdPc, FoundPc
    <3>3. \A pc : pc \in PwdPc => pc \notin UserPc \cup MailPc
      BY DEF UserPc, MailPc, ConfirmPc, PwdPc, FoundPc
    <3>4. QED BY <2>1, <3>1, <3>2, <3>3, OnRights DEF Writes
  <2>3. QED BY <1>d, <2>1, <2>2 DEF Writes
<1>5. ASSUME PwdCredential(r) \/ PwdUser(r) PROVE RightsKnown(r)' /\ Writes
  <2>1. KeepRows /\ req[r].pc \in PwdPc
    BY <1>5 DEF PwdCredential, PwdUser, PwdPc, FoundPc
  <2>2. CASE Done(r)
    BY <1>d, <2>1, <2>2 DEF Writes
  <2>3. CASE Goto(r, "pwdUser")
    <3>1. /\ req'[r].by = req[r].by /\ req'[r].user = req[r].user /\ req'[r].email = req[r].email
          /\ req'[r].pc = "pwdUser"
      BY <1>a, <2>3 DEF Goto, RequestState
    <3>2. QED BY <2>1, <3>1, OnRights DEF UserPc, MailPc, ConfirmPc, PwdPc, FoundPc, Writes
  <2>4. CASE ~Done(r) /\ ~Goto(r, "pwdUser")
    <3>1. PICK v \in OwnerOf(req[r].email), label \in FoundPc :
            req' = [req EXCEPT ![r].pc = label, ![r].user = v]
      BY <1>5, <2>4 DEF PwdCredential, PwdUser, FoundPc
    <3>2. v \in User /\ users[v].email = req[r].email /\ users[v].email # None
      BY DEF OwnerOf, Visible, Exists
    <3>3. HasHad(v, req[r].email)
      <4>1. ClaimsOf(users[v]) \subseteq access[v]
        BY <3>2 DEF RightsInv, Signed
      <4>2. QED BY <3>2, <4>1 DEF ClaimsOf, HasHad
    <3>4. HasHad(req[r].by, req[r].email) /\ req[r].by \in User
      BY <1>a, <2>1 DEF RightsKnown
    <3>5. req'[r].by = req[r].by /\ req'[r].user = v /\ req'[r].email = req[r].email /\ req'[r].pc = label
      BY <1>a, <3>1 DEF RequestState
    <3>6. \A u, e : HasHad(u, e)' = HasHad(u, e)
      BY <2>1 DEF KeepRows, HasHad
    <3>7. label \notin UserPc \cup MailPc
      BY DEF UserPc, MailPc, ConfirmPc, FoundPc
    <3>8. QED BY <2>1, <3>2, <3>3, <3>4, <3>5, <3>6, <3>7 DEF RightsKnown, Writes
  <2>5. QED BY <2>2, <2>3, <2>4
<1>6. ASSUME PwdWrite(r) PROVE RightsKnown(r)' /\ Writes
  <2>1. req[r].by \in User
    BY <1>6, <1>a DEF PwdWrite, Knows
  <2>2. Done(r) /\ Writes
    BY <1>6, <2>1 DEF PwdWrite, Writes
  <2>3. QED BY <1>d, <2>2
<1>7. QED BY <1>1, <1>2, <1>3, <1>4, <1>5, <1>6 DEF ReAuthStart, ReAuthStep

LEMMA PasswordSet ==
    ASSUME Inv, RightsInv, NEW r \in Request, Acts(r), PwdWrite(r)
    PROVE  RightsInv'
<1>1. RightsKnown(r)' /\ Writes
  BY ReAuthRights DEF ReAuthStep
<1>2. CASE passwords' = passwords
  BY <1>1, <1>2, RightsKept
<1>3. CASE passwords' # passwords
  <2> DEFINE v == req[r].user
             by == req[r].by
  <2>1. passwords' = [passwords EXCEPT ![v] = by] /\ At(r, "pwdWrite")
    BY <1>3 DEF PwdWrite
  <2>2. /\ v \in User /\ HasHad(v, req[r].email) /\ by \in User /\ HasHad(by, req[r].email)
    BY <2>1 DEF RightsInv, RightsKnown, At, PwdPc, FoundPc
  <2>3. /\ Signed' /\ \A u \in User : access[u] \subseteq access'[u]
        /\ \A u \in User : Admin(u) => Admin(u)'
        /\ \A u \in User : \A e : HasHad(u, e) => HasHad(u, e)'
    BY <1>1, RightsLast DEF RightsInv
  <2>4. passwords \in [User -> User \cup {None}]
    BY DEF Inv, ReAuthTyped
  <2> HIDE DEF v, by
  <2>5. PasswordFollowsAddress'
    <3>1. ASSUME NEW u \in User, NEW w \in User, u # w, passwords'[w] = u
          PROVE  \E c \in access'[u], d \in access'[w] : c.email = d.email
      <4>1. CASE w = v
        <5>1. u = by
          BY <2>1, <2>2, <2>4, <3>1, <4>1
        <5>2. QED BY <2>2, <2>3, <4>1, <5>1 DEF HasHad
      <4>2. CASE w # v
        <5>1. passwords[w] = u
          BY <2>1, <2>4, <3>1, <4>2
        <5>2. QED BY <2>3, <3>1, <5>1 DEF RightsInv, PasswordFollowsAddress
      <4>3. QED BY <4>1, <4>2
    <3>2. QED BY <3>1 DEF PasswordFollowsAddress
  <2>6. ASSUME NEW p \in Request PROVE RightsKnown(p)'
    <3>1. CASE p = r
      BY <1>1, <3>1
    <3>2. CASE p # r
      <4>1. RightsKnown(p) /\ (req'[p] = req[p] \/ req'[p].pc = "idle")
        BY <3>2 DEF RightsInv, Acts, Exit, Idle
      <4>2. CASE req'[p] = req[p]
        BY <2>3, <4>1, <4>2 DEF RightsKnown
      <4>3. CASE req'[p].pc = "idle"
        BY <4>3 DEF RightsKnown, UserPc, MailPc, ConfirmPc, PwdPc, FoundPc
      <4>4. QED BY <4>1, <4>2, <4>3
    <3>3. QED BY <3>1, <3>2
  <2>7. QED BY <2>3, <2>5, <2>6 DEF RightsInv
<1>4. QED BY <1>2, <1>3

LEMMA InitRights == Init => RightsInv
<1> SUFFICES ASSUME Init PROVE RightsInv
  OBVIOUS
<1>1. \A r \in Request : req[r] = Idle
  BY DEF Init, RowsInit
<1>2. \A r \in Request : RightsKnown(r)
  BY <1>1 DEF RightsKnown, UserPc, MailPc, ConfirmPc, PwdPc, FoundPc, Idle
<1>3. \A v \in User : passwords[v] = v \/ passwords[v] = None
  BY DEF Init, ReAuthInit
<1>4. PasswordFollowsAddress
  BY <1>3, AccountsAssumption DEF PasswordFollowsAddress
<1>5. Signed
  <2>1. Inv
    BY InitInv
  <2>2. ASSUME NEW u \in User PROVE ClaimsOf(users[u]) \subseteq access[u]
    <3> DEFINE signed == {ClaimsOf([users[u] EXCEPT !.email = e]) :
                            e \in scenario.past[u] \cup {users[u].email}}
    <3>1. access[u] = UNION signed
      BY DEF Init, RowsInit
    <3>2. [users[u] EXCEPT !.email = users[u].email] = users[u]
      BY <2>1 DEF Inv, RowsTyped, UserRow
    <3>3. ClaimsOf(users[u]) \in signed
      BY <3>2
    <3> HIDE DEF signed
    <3>4. QED BY <3>1, <3>3
  <2>3. QED BY <2>2 DEF Signed
<1>6. QED BY <1>2, <1>4, <1>5 DEF RightsInv

LEMMA NextRights == AllInv /\ RightsInv /\ [Next]_vars => RightsInv'
<1> SUFFICES ASSUME AllInv, RightsInv, [Next]_vars PROVE RightsInv'
  OBVIOUS
<1>i. Inv /\ RaceInv
  BY DEF AllInv
<1>1. CASE UNCHANGED vars
  <2>1. UNCHANGED <<users, access, req, passwords>>
    BY <1>1 DEF vars, rowVars, reauthVars
  <2>2. QED BY <2>1 DEF RightsInv, Signed, PasswordFollowsAddress, RightsKnown, Admin, HasHad
<1>2. ASSUME NEW r \in Request, Begin(r) \/ Step(r) PROVE RightsInv'
  <2>a. Acts(r)
    BY <1>i, <1>2, NextTurns DEF Turns
  <2>1. CASE PwdWrite(r)
    BY <1>i, <2>a, <2>1, PasswordSet
  <2>2. CASE passwords' = passwords
    <3>1. RightsKnown(r)' /\ Writes
      BY <1>i, <1>2, EmailRights, OAuthRights, ReAuthRights, RoleRights DEF Begin, Step
    <3>2. QED BY <1>i, <2>a, <2>2, <3>1, RightsKept
  <2>3. ASSUME ~PwdWrite(r) PROVE passwords' = passwords
    <3>1. CASE UNCHANGED reauthVars
      BY <3>1 DEF reauthVars
    <3>2. CASE ReAuthStart(r) \/ ReAuthStep(r)
      BY <2>3, <3>2 DEF ReAuthStart, ReAuthStep, Reauthenticate, Protected, ReauthPassword,
         ReauthRevoke, ReauthInsert, GuardFind, GuardList, GuardSave, PwdBegin, PwdCredential,
         PwdUser, PwdNew, reauthVars
    <3>3. QED BY <1>2, <3>1, <3>2 DEF Begin, Step
  <2>4. QED BY <2>1, <2>2, <2>3
<1>3. QED BY <1>1, <1>2 DEF Next

LEMMA AlwaysRights == Spec => [](AllInv /\ RightsInv)
BY InitAll, InitRights, NextAll, NextRights, PTL DEF Spec

\* A password set from another account: the two have had one address.
THEOREM PasswordSetByAddress == Spec => []PasswordFollowsAddress
<1>1. RightsInv => PasswordFollowsAddress
  BY DEF RightsInv
<1>2. QED BY AlwaysRights, <1>1, PTL

LEMMA OthersByAdmin ==
    ASSUME Inv, RightsInv, NEW r \in Request, Begin(r) \/ Step(r),
           NEW u \in User, Exists(u), users'[u] # users[u]
    PROVE  req'[r] # req[r] /\ (req[r].by \in {None, u} \/ Admin(req[r].by))
<1> USE DEF At
<1>a. /\ req \in [Request -> RequestState] /\ req[r] \in RequestState
      /\ RightsKnown(r) /\ users \in [User -> UserRow]
  BY DEF Inv, Requests, RightsInv, RowsTyped
<1>k. ~KeepRows
  BY DEF KeepRows
<1>p. ASSUME NEW v, NEW row, Put(v, row) PROVE u = v
  BY <1>a, <1>p DEF Put
<1>d. ASSUME Done(r), req[r].pc # "idle" PROVE req'[r] # req[r]
  BY <1>a, <1>d DEF Done, Idle
<1>1. CASE UpdateWrite(r) \/ RoleSave(r) \/ RemoveRow(r)
  <2>1. req[r].pc \in {"updateWrite", "roleSave", "remove"} /\ Done(r) /\ \E row : Put(req[r].user, row)
    BY <1>1, <1>k DEF UpdateWrite, RoleSave, RemoveRow
  <2>2. u = req[r].user
    BY <1>p, <2>1
  <2>3. QED BY <1>a, <1>d, <2>1, <2>2 DEF RightsKnown, UserPc
<1>2. CASE RollbackWrite(r)
  <2>1. req[r].pc = "rollbackWrite" /\ Done(r)
    BY <1>2 DEF RollbackWrite
  <2>2. QED BY <1>a, <1>d, <2>1 DEF RightsKnown, MailPc
<1>3. CASE ConfirmWrite(r)
  <2>1. req[r].pc = "confirmWrite"
    BY <1>3 DEF ConfirmWrite
  <2>2. PICK l : req' = [req EXCEPT ![r].pc = "confirmMail", ![r].tx = FALSE, ![r].item = l]
    BY <1>3, <1>k DEF ConfirmWrite
  <2>3. req'[r].pc = "confirmMail"
    BY <1>a, <2>2 DEF RequestState
  <2>4. QED BY <1>a, <2>1, <2>3 DEF RightsKnown, MailPc, ConfirmPc
<1>4. CASE PwdWrite(r)
  <2>1. req[r].pc = "pwdWrite" /\ Done(r) /\ \E row : Put(req[r].by, row)
    BY <1>4, <1>k DEF PwdWrite
  <2>2. QED BY <1>d, <1>p, <2>1
<1>5. CASE LoginCommit(r)
  <2>1. PICK v \in User : ~Exists(v) /\ \E row : Put(v, row)
    BY <1>5, <1>k DEF LoginCommit
  <2>2. QED BY <1>p, <2>1
<1>6. QED
  BY <1>k, <1>1, <1>2, <1>3, <1>4, <1>5
  DEF Begin, Step, EmailStart, EmailStep, OAuthStart, OAuthStep, ReAuthStart, ReAuthStep, RoleStep,
      Update, Confirm, Rollback, UpdateFind, UpdateCheck, UpdateMail, UpdateCommit, ConfirmBegin,
      ConfirmUser, ConfirmMail, OauthLogin, LinkProvider, UnlinkProvider, LoginLink, LoginEmail,
      LoginRole, LoginNewRole, LoginRow, SessionBegin, SessionUser, LinkUser, LinkRowLookup,
      LinkInsert, UnlinkFind, UnlinkDelete, Reauthenticate, Protected, ReauthPassword, ReauthRevoke,
      ReauthInsert, GuardFind, GuardList, GuardSave, PwdBegin, PwdCredential, PwdUser, PwdNew,
      ChangeRole, ChangeRoleFind, Remove

\* A row changes only for its user or one who has had every permission, though the
\* guards decided before the first of the steps that change it, by older claims.
THEOREM OnlyAdminsWriteOthers == Spec => OthersOnlyByAdmin
<1>1. ASSUME AllInv, RightsInv, [Next]_vars
      PROVE  [\A u \in User : Exists(u) /\ users'[u] # users[u] =>
         \E r \in Request :
            /\ req'[r] # req[r]
            /\ \/ req[r].by \in {None, u}
               \/ \E c \in access[req[r].by] : c.role = SuperAdmin \/ "all" \in Grants[c.role]]_vars
  <2>1. CASE UNCHANGED vars
    BY <2>1
  <2>2. CASE Next
    <3>1. PICK r \in Request : Begin(r) \/ Step(r)
      BY <2>2 DEF Next
    <3>2. \A u \in User : Exists(u) /\ users'[u] # users[u]
            => req'[r] # req[r] /\ (req[r].by \in {None, u} \/ Admin(req[r].by))
      BY <1>1, <3>1, OthersByAdmin DEF AllInv
    <3>3. QED BY <3>2 DEF Admin
  <2>3. QED BY <1>1, <2>1, <2>2
<1>2. AllInv /\ RightsInv /\ [Next]_vars =>
        [\A u \in User : Exists(u) /\ users'[u] # users[u] =>
         \E r \in Request :
            /\ req'[r] # req[r]
            /\ \/ req[r].by \in {None, u}
               \/ \E c \in access[req[r].by] : c.role = SuperAdmin \/ "all" \in Grants[c.role]]_vars
  BY <1>1
<1>3. QED BY AlwaysRights, <1>2, PTL DEF Spec, OthersOnlyByAdmin

=============================================================================
