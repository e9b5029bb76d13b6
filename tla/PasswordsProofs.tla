---------------------------- MODULE PasswordsProofs ----------------------------
(***************************************************************************)
(* Theorems of Passwords, for any number of accounts, links, sessions and  *)
(* requests: what a change of password and a link achieve, wherever the    *)
(* requests that overlap are and wherever their chains are cut.            *)
(***************************************************************************)
EXTENDS Passwords, FiniteSetTheorems, TLAPS

-----------------------------------------------------------------------------
(* The invariant.                                                          *)

Known(u) == accounts[u].status # "absent"
Row(l) == links[l].state # "absent"
Opened(g) == grants[g].state # "absent"

RowsTyped ==
    /\ accounts \in [User -> AccountRow] /\ links \in [Link -> LinkRow]
    /\ grants \in [Grant -> GrantRow]
    /\ mailed \subseteq Kind \X Link /\ access \subseteq AccessToken

\* What is stored belongs to a stored account; a session to a verified one, unless
\* a provider vouched for its user; a second factor to a verified one, since a
\* guard stood before it.
Owned ==
    /\ \A l \in Link : Row(l) => links[l].user \in User /\ Known(links[l].user)
    /\ \A g \in Grant : Opened(g) =>
         /\ grants[g].user \in User /\ Known(grants[g].user)
         /\ \/ accounts[grants[g].user].status = "active"
            \/ grants[g].provider
    /\ \A u \in User : accounts[u].factor # "none" => accounts[u].status = "active"

\* The statuses and rows a request relies on; q is its state.
Holds(q) ==
    /\ q \in RequestState
    /\ q.pc # "idle" => q.user \in User
    /\ q.pc = "commitRegister" => q.link \in Link /\ ~Known(q.user)
    /\ q.pc \in {"activate", "markUsed", "checkFactor", "issueProvider", "updateCredential",
                 "commitPassword", "mailChange"} => Known(q.user)
    /\ q.pc \in {"activate", "markUsed", "mailLink"} => q.link \in Link /\ Row(q.link)
    /\ q.pc \in {"updateCredential", "commitPassword"} /\ q.link # None => Row(q.link)
    /\ q.pc \in {"askFactor", "issue", "saveFactor"} => accounts[q.user].status = "active"
    /\ q.pc \in {"askFactor", "checkFactor", "issue"} => q.password = q.secret
    /\ q.pc \in {"rotate", "signAccess"} =>
         q.grant \in Grant /\ Opened(q.grant) /\ grants[q.grant].user = q.user
    /\ q.pc = "signAccess" => q.password = grants[q.grant].password

OneRegistration ==
    \A p, r \in Request, u \in User : RegistersUser(p, u) /\ RegistersUser(r, u) => p = r

Inv == /\ RowsTyped /\ Owned /\ OneRegistration
       /\ req \in [Request -> RequestState] /\ \A r \in Request : Holds(req[r])

\* Password and secret are replaced together.
InStep ==
    /\ \A u \in User : accounts[u].password = accounts[u].secret
    /\ \A a \in access : a.password \in {0, a.secret}

\* A link that has set a password is used, and a slot that is going to set one
\* with it has not done so.
Resetting(r, l) == req[r].pc \in {"updateCredential", "commitPassword"} /\ req[r].link = l

LinkUses ==
    \A l \in Link :
        /\ IsFiniteSet(links[l].by) /\ links[l].uses = Cardinality(links[l].by)
        /\ links[l].by # {} => links[l].state = "used"
        /\ \A r \in Request : Resetting(r, l) => r \notin links[l].by

-----------------------------------------------------------------------------
(* Records.                                                                *)

LEMMA IdleOK == Idle \in RequestState /\ Idle.pc = "idle" /\ Idle.link = None
BY DEF Idle, RequestState, Pc

\* The state of a request that begins.
LEMMA Begun ==
    ASSUME NEW label \in Pc, NEW u \in User, NEW l \in Link \cup {None},
           NEW g \in Grant \cup {None}, NEW p \in Nat, NEW s \in Nat
    PROVE  LET q == [Idle EXCEPT !.pc = label, !.user = u, !.link = l, !.grant = g,
                                 !.password = p, !.secret = s]
           IN  /\ q \in RequestState /\ q.pc = label /\ q.user = u /\ q.link = l
               /\ q.grant = g /\ q.password = p /\ q.secret = s
BY DEF Idle, RequestState

LEMMA Moved ==
    ASSUME NEW q \in RequestState, NEW label \in Pc
    PROVE  LET n == [q EXCEPT !.pc = label]
           IN  /\ n \in RequestState /\ n.pc = label /\ n.user = q.user /\ n.link = q.link
               /\ n.grant = q.grant /\ n.password = q.password /\ n.secret = q.secret
               /\ n.rows = q.rows
BY DEF RequestState

\* A link that is stored.
LEMMA Stored ==
    ASSUME NEW u \in User
    PROVE  LET n == [NoLink EXCEPT !.state = "fresh", !.user = u]
           IN  /\ n \in LinkRow /\ n.state = "fresh" /\ n.user = u
               /\ n.by = {} /\ n.uses = 0
BY DEF NoLink, LinkRow

LEMMA Signed ==
    ASSUME Inv, NEW u \in User, NEW n \in Nat, NEW p \in Nat,
           Delivers([user |-> u, secret |-> n, password |-> p])
    PROVE  access' \subseteq AccessToken
<1>1. [user |-> u, secret |-> n, password |-> p] \in AccessToken
  BY DEF AccessToken
<1>2. QED BY <1>1 DEF Delivers, Inv, RowsTyped

-----------------------------------------------------------------------------
(* One request acts at a time.                                             *)

\* A grant a refresh is about.
InUse(g) == \E p \in Request : req[p].grant = g

\* What the step of r leaves to the others: statuses do not go back, rows do not
\* go away, the place of a session in use is not taken, and only a registration
\* makes an account known.
Lasting(r) ==
    /\ \A u \in User :
         /\ Known(u) => Known(u)'
         /\ accounts[u].status = "active" => accounts'[u].status = "active"
         /\ Known(u)' => Known(u) \/ RegistersUser(r, u)
    /\ \A l \in Link : Row(l) => Row(l)'
    /\ \A g \in Grant : Opened(g) => Opened(g)'
    /\ \A g \in Grant : InUse(g) => /\ grants'[g].user = grants[g].user
                                    /\ grants'[g].password = grants[g].password

\* Another request is where it was; a session it was to end may have gone.
SameButRows(q, p) ==
    /\ p.pc = q.pc /\ p.user = q.user /\ p.link = q.link /\ p.grant = q.grant
    /\ p.password = q.password /\ p.secret = q.secret

Others(r) == /\ req' \in [Request -> RequestState]
             /\ \A p \in Request \ {r} : SameButRows(req[p], req'[p]) \/ req'[p] = Idle

LEMMA OthersHold ==
    ASSUME Inv, NEW r \in Request, RowsTyped', Owned', Lasting(r), Others(r), Holds(req[r])',
           \A u \in User, p \in Request \ {r} : RegistersUser(r, u)' => ~RegistersUser(p, u)
    PROVE  Inv'
<1>1. ASSUME NEW p \in Request \ {r} PROVE Holds(req[p])'
  <2>1. CASE req'[p] = Idle
    BY <2>1, IdleOK DEF Holds
  <2>2. CASE SameButRows(req[p], req'[p])
    <3>1. Holds(req[p])
      BY DEF Inv
    <3>2. req[p].pc = "commitRegister" => ~RegistersUser(r, req[p].user)
      BY <3>1 DEF Inv, OneRegistration, RegistersUser, At, Holds
    <3>3. QED
      BY <2>2, <3>1, <3>2, PasswordsAssumption
      DEF Others, Holds, SameButRows, Lasting, InUse, RequestState
  <2>3. QED BY <2>1, <2>2 DEF Others
<1>2. ASSUME NEW p \in Request, NEW q \in Request, NEW u \in User, RegistersUser(p, u)',
             RegistersUser(q, u)'
      PROVE  p = q
  <2>1. \A o \in Request \ {r} : RegistersUser(o, u)' => RegistersUser(o, u)
    BY IdleOK DEF Others, SameButRows, RegistersUser, At
  <2>2. CASE p # r /\ q # r
    BY <1>2, <2>1, <2>2 DEF Inv, OneRegistration
  <2>3. CASE p = r \/ q = r
    BY <1>2, <2>1, <2>3
  <2>4. QED BY <2>2, <2>3
<1>3. OneRegistration'
  BY <1>2 DEF OneRegistration
<1>4. QED BY <1>1, <1>3 DEF Inv, Others

\* The state of r becomes q, and nobody else's changes.
LEMMA Takes ==
    ASSUME Inv, NEW r \in Request, NEW q \in RequestState, req' = [req EXCEPT ![r] = q]
    PROVE  /\ req'[r] = q
           /\ \A p \in Request \ {r} : req'[p] = req[p]
           /\ Others(r)
BY DEF Inv, Others, SameButRows

\* A step that writes none of the rows.
LEMMA Unwritten ==
    ASSUME Inv, NEW r \in Request, UNCHANGED <<accounts, links, grants>>
    PROVE  Owned' /\ Lasting(r)
BY DEF Inv, Owned, Lasting, Known, Row, Opened, RowsTyped

LEMMA TakesInv ==
    ASSUME Inv, NEW r \in Request, NEW q \in RequestState, req' = [req EXCEPT ![r] = q],
           UNCHANGED <<accounts, links, grants, mailed, access>>, Holds(req[r])',
           q.pc # "commitRegister"
    PROVE  Inv'
<1>1. RowsTyped'
  BY DEF Inv, RowsTyped
<1>2. \A u \in User : ~RegistersUser(r, u)'
  BY Takes DEF RegistersUser, At
<1>3. QED BY <1>1, <1>2, Unwritten, Takes, OthersHold

\* A request ends, having written rows or not.
LEMMA EndsInv ==
    ASSUME Inv, NEW r \in Request, Done(r), RowsTyped', Owned', Lasting(r)
    PROVE  Inv'
<1>1. req'[r] = Idle /\ Others(r)
  BY IdleOK, Takes DEF Done
<1>2. Holds(req[r])'
  BY <1>1, IdleOK DEF Holds
<1>3. \A u \in User : ~RegistersUser(r, u)'
  BY <1>1, IdleOK DEF RegistersUser, At
<1>4. QED BY <1>1, <1>2, <1>3, OthersHold

-----------------------------------------------------------------------------
(* The steps that begin a request.                                         *)

LEMMA InsertLinkInv ==
    ASSUME Inv, NEW r \in Request, NEW u \in User, InsertLink(r, u)
    PROVE  Inv'
<1> DEFINE row == [NoLink EXCEPT !.state = "fresh", !.user = u]
<1>1. PICK l \in FreeLinks : links' = [links EXCEPT ![l] = row] /\ Carries(r, u, l, "mailLink")
  BY DEF InsertLink
<1> DEFINE q == [Idle EXCEPT !.pc = "mailLink", !.user = u, !.link = l]
<1>2. /\ q \in RequestState /\ q.pc = "mailLink" /\ q.user = u
      /\ q.link = l /\ l \in Link
  BY DEF Idle, RequestState, Pc, FreeLinks
<1>3. Known(u) /\ row \in LinkRow /\ row.state = "fresh" /\ row.user = u
  BY Stored DEF InsertLink, Known
<1>4. req' = [req EXCEPT ![r] = q] /\ links' = [links EXCEPT ![l] = row]
  BY <1>1 DEF Carries
<1> HIDE DEF q, row
<1>5. UNCHANGED <<accounts, grants, mailed, access>>
  BY DEF InsertLink
<1>6. RowsTyped'
  BY <1>2, <1>3, <1>4, <1>5 DEF Inv, RowsTyped
<1>7. Owned' /\ Lasting(r)
  BY <1>2, <1>3, <1>4, <1>5 DEF Inv, RowsTyped, Owned, Lasting, Known, Row, Opened
<1>8. req'[r] = q /\ Others(r)
  BY <1>2, <1>4, Takes
<1>9. Holds(req[r])'
  BY <1>2, <1>3, <1>4, <1>8 DEF Holds, Row, Inv, RowsTyped
<1>10. \A v \in User : ~RegistersUser(r, v)'
  BY <1>2, <1>8 DEF RegistersUser, At
<1>11. QED BY <1>6, <1>7, <1>8, <1>9, <1>10, OthersHold

LEMMA StartInv ==
    ASSUME Inv, InStep, NEW r \in Request, Start(r)
    PROVE  Inv'
<1>1. ASSUME NEW u \in User, Register(r, u)
      PROVE  Inv'
  <2> DEFINE q == [Idle EXCEPT !.pc = "insertUser", !.user = u]
  <2>1. /\ q \in RequestState
        /\ q.pc = "insertUser" /\ q.user \in User
    BY <1>1, PasswordsAssumption DEF Idle, RequestState, Pc, Inv, RowsTyped, AccountRow
  <2>2. req' = [req EXCEPT ![r] = q] /\ UNCHANGED <<accounts, links, grants, mailed, access>>
    BY <1>1 DEF Register, Begin
  <2> HIDE DEF q
  <2>3. req'[r] = q
    BY <2>1, <2>2, Takes
  <2>4. Holds(req[r])'
    BY <1>1, <2>1, <2>2, <2>3, PasswordsAssumption
    DEF Register, Holds, Inv, Owned, InStep, Known, Row, Opened, Opens, Live
  <2>5. QED BY <2>1, <2>2, <2>4, TakesInv
<1>2. ASSUME NEW u \in User, SignIn(r, u)
      PROVE  Inv'
  <2> DEFINE q == [Idle EXCEPT !.pc = "askFactor", !.user = u,
                      !.password = accounts[u].password, !.secret = accounts[u].secret]
  <2>1. /\ q \in RequestState
        /\ q.pc = "askFactor" /\ q.user = u /\ q.password = accounts[u].password
        /\ q.secret = accounts[u].secret
    BY <1>2, PasswordsAssumption DEF Idle, RequestState, Pc, Inv, RowsTyped, AccountRow
  <2>2. req' = [req EXCEPT ![r] = q] /\ UNCHANGED <<accounts, links, grants, mailed, access>>
    BY <1>2 DEF SignIn, Reads
  <2> HIDE DEF q
  <2>3. req'[r] = q
    BY <2>1, <2>2, Takes
  <2>4. Holds(req[r])'
    BY <1>2, <2>1, <2>2, <2>3, PasswordsAssumption
    DEF SignIn, Holds, Inv, Owned, InStep, Known, Row, Opened, Opens, Live
  <2>5. QED BY <2>1, <2>2, <2>4, TakesInv
<1>3. ASSUME NEW u \in User, Verify2fa(r, u)
      PROVE  Inv'
  <2> DEFINE q == [Idle EXCEPT !.pc = "checkFactor", !.user = u,
                      !.password = accounts[u].password, !.secret = accounts[u].secret]
  <2>1. /\ q \in RequestState
        /\ q.pc = "checkFactor" /\ q.user = u /\ q.password = accounts[u].password
        /\ q.secret = accounts[u].secret
    BY <1>3, PasswordsAssumption DEF Idle, RequestState, Pc, Inv, RowsTyped, AccountRow
  <2>2. req' = [req EXCEPT ![r] = q] /\ UNCHANGED <<accounts, links, grants, mailed, access>>
    BY <1>3 DEF Verify2fa, Reads
  <2> HIDE DEF q
  <2>3. req'[r] = q
    BY <2>1, <2>2, Takes
  <2>4. Holds(req[r])'
    BY <1>3, <2>1, <2>2, <2>3, PasswordsAssumption
    DEF Verify2fa, Holds, Inv, Owned, InStep, Known, Row, Opened, Opens, Live
  <2>5. QED BY <2>1, <2>2, <2>4, TakesInv
<1>4. ASSUME NEW u \in User, LoginWithOauth(r, u)
      PROVE  Inv'
  <2> DEFINE q == [Idle EXCEPT !.pc = "issueProvider", !.user = u,
                      !.password = accounts[u].password, !.secret = accounts[u].secret]
  <2>1. /\ q \in RequestState
        /\ q.pc = "issueProvider" /\ q.user = u /\ q.password = accounts[u].password
        /\ q.secret = accounts[u].secret
    BY <1>4, PasswordsAssumption DEF Idle, RequestState, Pc, Inv, RowsTyped, AccountRow
  <2>2. req' = [req EXCEPT ![r] = q] /\ UNCHANGED <<accounts, links, grants, mailed, access>>
    BY <1>4 DEF LoginWithOauth, Reads
  <2> HIDE DEF q
  <2>3. req'[r] = q
    BY <2>1, <2>2, Takes
  <2>4. Holds(req[r])'
    BY <1>4, <2>1, <2>2, <2>3, PasswordsAssumption
    DEF LoginWithOauth, Holds, Inv, Owned, InStep, Known, Row, Opened, Opens, Live
  <2>5. QED BY <2>1, <2>2, <2>4, TakesInv
<1>5. ASSUME NEW l \in Link, OpenVerification(r, l)
      PROVE  Inv'
  <2> DEFINE q == [Idle EXCEPT !.pc = "activate", !.user = links[l].user, !.link = l]
  <2>1. /\ q \in RequestState
        /\ q.pc = "activate" /\ q.user = links[l].user /\ q.link = l
    BY <1>5, PasswordsAssumption DEF Idle, RequestState, Pc, Inv, RowsTyped, AccountRow, LinkRow
  <2>2. req' = [req EXCEPT ![r] = q] /\ UNCHANGED <<accounts, links, grants, mailed, access>>
    BY <1>5 DEF OpenVerification, Carries
  <2> HIDE DEF q
  <2>3. req'[r] = q
    BY <2>1, <2>2, Takes
  <2>4. Holds(req[r])'
    BY <1>5, <2>1, <2>2, <2>3, PasswordsAssumption
    DEF OpenVerification, Holds, Inv, Owned, InStep, Known, Row, Opened, Opens, Live
  <2>5. QED BY <2>1, <2>2, <2>4, TakesInv
<1>6. ASSUME NEW l \in Link, OpenReset(r, l)
      PROVE  Inv'
  <2> DEFINE q == [Idle EXCEPT !.pc = "updateCredential", !.user = links[l].user, !.link = l]
  <2>1. /\ q \in RequestState
        /\ q.pc = "updateCredential" /\ q.user = links[l].user /\ q.link = l
    BY <1>6, PasswordsAssumption DEF Idle, RequestState, Pc, Inv, RowsTyped, AccountRow, LinkRow
  <2>2. req' = [req EXCEPT ![r] = q] /\ UNCHANGED <<accounts, links, grants, mailed, access>>
    BY <1>6 DEF OpenReset, Carries
  <2> HIDE DEF q
  <2>3. req'[r] = q
    BY <2>1, <2>2, Takes
  <2>4. Holds(req[r])'
    BY <1>6, <2>1, <2>2, <2>3, PasswordsAssumption
    DEF OpenReset, Holds, Inv, Owned, InStep, Known, Row, Opened, Opens, Live
  <2>5. QED BY <2>1, <2>2, <2>4, TakesInv
<1>7. ASSUME NEW g \in Grant, OpenRefresh(r, g)
      PROVE  Inv'
  <2> DEFINE q == [Idle EXCEPT !.pc = "rotate", !.user = grants[g].user, !.grant = g]
  <2>1. /\ q \in RequestState
        /\ q.pc = "rotate" /\ q.user = grants[g].user /\ q.grant = g
    BY <1>7, PasswordsAssumption DEF Idle, RequestState, Pc, Inv, RowsTyped, AccountRow, GrantRow
  <2>2. req' = [req EXCEPT ![r] = q] /\ UNCHANGED <<accounts, links, grants, mailed, access>>
    BY <1>7 DEF OpenRefresh
  <2> HIDE DEF q
  <2>3. req'[r] = q
    BY <2>1, <2>2, Takes
  <2>4. Holds(req[r])'
    BY <1>7, <2>1, <2>2, <2>3, PasswordsAssumption
    DEF OpenRefresh, Holds, Inv, Owned, InStep, Known, Row, Opened, Opens, Live
  <2>5. QED BY <2>1, <2>2, <2>4, TakesInv
<1>8. ASSUME NEW a \in access, ChangePassword(r, a)
      PROVE  Inv'
  <2> DEFINE q == [Idle EXCEPT !.pc = "updateCredential", !.user = a.user]
  <2>1. /\ q \in RequestState
        /\ q.pc = "updateCredential" /\ q.user = a.user /\ q.link = None
        /\ a.user \in User
    BY <1>8, PasswordsAssumption DEF Idle, RequestState, Pc, Inv, RowsTyped, AccountRow, AccessToken
  <2>2. req' = [req EXCEPT ![r] = q] /\ UNCHANGED <<accounts, links, grants, mailed, access>>
    BY <1>8 DEF ChangePassword, Begin
  <2> HIDE DEF q
  <2>3. req'[r] = q
    BY <2>1, <2>2, Takes
  <2>4. Holds(req[r])'
    BY <1>8, <2>1, <2>2, <2>3, PasswordsAssumption
    DEF ChangePassword, Holds, Inv, Owned, InStep, Known, Row, Opened, Opens, Live, Accepts
  <2>5. QED BY <2>1, <2>2, <2>4, TakesInv
<1>9. ASSUME NEW a \in access, ChangeFactor(r, a)
      PROVE  Inv'
  <2> DEFINE q == [Idle EXCEPT !.pc = "saveFactor", !.user = a.user]
  <2>1. /\ q \in RequestState
        /\ q.pc = "saveFactor" /\ q.user = a.user /\ q.link = None
        /\ a.user \in User
    BY <1>9, PasswordsAssumption DEF Idle, RequestState, Pc, Inv, RowsTyped, AccountRow, AccessToken
  <2>2. req' = [req EXCEPT ![r] = q] /\ UNCHANGED <<accounts, links, grants, mailed, access>>
    BY <1>9 DEF ChangeFactor, Begin
  <2> HIDE DEF q
  <2>3. req'[r] = q
    BY <2>1, <2>2, Takes
  <2>4. Holds(req[r])'
    BY <1>9, <2>1, <2>2, <2>3, PasswordsAssumption
    DEF ChangeFactor, Holds, Inv, Owned, InStep, Known, Row, Opened, Opens, Live, Accepts
  <2>5. QED BY <2>1, <2>2, <2>4, TakesInv
<1>10. \A m \in mailed : m[2] \in Link
  BY DEF Inv, RowsTyped, Kind
<1>11. QED
  BY <1>1, <1>2, <1>3, <1>4, <1>5, <1>6, <1>7, <1>8, <1>9, <1>10, InsertLinkInv DEF Start

-----------------------------------------------------------------------------
(* The steps of a request under way.                                       *)

\* r goes on to label.
LEMMA Goes ==
    ASSUME Inv, NEW r \in Request, NEW label \in Pc, Goto(r, label)
    PROVE  /\ req'[r] \in RequestState /\ req'[r].pc = label
           /\ req'[r].user = req[r].user /\ req'[r].link = req[r].link
           /\ req'[r].grant = req[r].grant /\ req'[r].password = req[r].password
           /\ req'[r].secret = req[r].secret /\ req'[r].rows = req[r].rows
           /\ \A p \in Request \ {r} : req'[p] = req[p]
           /\ Others(r)
<1> DEFINE n == [req[r] EXCEPT !.pc = label]
<1>1. n \in RequestState /\ req' = [req EXCEPT ![r] = n]
  BY Moved DEF Inv, Goto
<1>2. /\ req'[r] = n /\ Others(r)
      /\ \A p \in Request \ {r} : req'[p] = req[p]
  BY <1>1, Takes
<1>3. /\ n.pc = label /\ n.user = req[r].user /\ n.link = req[r].link /\ n.grant = req[r].grant
      /\ n.password = req[r].password /\ n.secret = req[r].secret /\ n.rows = req[r].rows
  BY Moved DEF Inv
<1> HIDE DEF n
<1>4. QED BY <1>1, <1>2, <1>3

\* ... to a step that is no part of a registration.
LEMMA GoesInv ==
    ASSUME Inv, NEW r \in Request, NEW label \in Pc, Goto(r, label),
           RowsTyped', Owned', Lasting(r), Holds(req[r])',
           label # "commitRegister"
    PROVE  Inv'
<1>1. \A u \in User : ~RegistersUser(r, u)'
  BY Goes DEF RegistersUser, At
<1>2. QED BY <1>1, Goes, OthersHold

LEMMA RegisterStepInv ==
    ASSUME Inv, NEW r \in Request, InsertUser(r) \/ CommitRegister(r)
    PROVE  Inv'
<1>0. Holds(req[r]) /\ req[r] \in RequestState
  BY DEF Inv
<1>1. CASE InsertUser(r)
  <2>1. UNCHANGED <<accounts, links, grants, access>>
    BY <1>1 DEF InsertUser
  <2>2. ASSUME Done(r), mailed' = mailed
        PROVE  Inv'
    BY <2>1, <2>2, Unwritten, EndsInv DEF Inv, RowsTyped
  <2>3. ASSUME NEW l \in FreeLinks, accounts[req[r].user].status = "absent",
               req' = [req EXCEPT ![r].pc = "commitRegister", ![r].link = l],
               mailed' = mailed \cup {<<"verify", l>>}
        PROVE  Inv'
    <3> DEFINE q == [req[r] EXCEPT !.pc = "commitRegister", !.link = l]
    <3>1. /\ q \in RequestState /\ q.pc = "commitRegister" /\ q.user = req[r].user
          /\ q.link = l /\ l \in Link
      BY <1>0 DEF RequestState, Pc, FreeLinks
    <3>2. req' = [req EXCEPT ![r] = q]
      BY <2>3 DEF Inv
    <3> HIDE DEF q
    <3>3. req'[r] = q /\ Others(r) /\ \A p \in Request \ {r} : req'[p] = req[p]
      BY <3>1, <3>2, Takes
    <3>4. Holds(req[r])'
      BY <1>0, <1>1, <2>1, <2>3, <3>1, <3>3, PasswordsAssumption
      DEF Holds, InsertUser, At, Known
    <3>5. \A u \in User, p \in Request \ {r} : RegistersUser(r, u)' => ~RegistersUser(p, u)
      BY <1>1, <3>1, <3>3 DEF RegistersUser, InsertUser, At
    <3>6. RowsTyped'
      BY <2>1, <2>3, <3>1 DEF Inv, RowsTyped, Kind
    <3>7. QED BY <2>1, <3>3, <3>4, <3>5, <3>6, Unwritten, OthersHold
  <2>4. QED BY <1>1, <2>2, <2>3 DEF InsertUser
<1>2. CASE CommitRegister(r)
  <2> DEFINE u == req[r].user
  <2> DEFINE l == req[r].link
  <2> DEFINE row == [NoLink EXCEPT !.state = "fresh", !.user = u]
  <2>1. u \in User /\ l \in Link /\ ~Known(u) /\ RegistersUser(r, u)
    BY <1>0, <1>2 DEF Holds, CommitRegister, At, RegistersUser
  <2>2. row \in LinkRow /\ row.state = "fresh" /\ row.user = u
    BY <2>1, Stored
  <2> DEFINE new == [NoAccount EXCEPT !.status = "pending", !.password = 1, !.secret = 1]
  <2>a. new \in AccountRow /\ new.status = "pending" /\ new.factor = "none"
    BY DEF NoAccount, AccountRow
  <2> HIDE DEF row, new
  <2>3. /\ accounts' = [accounts EXCEPT ![u] = new]
        /\ links' = [links EXCEPT ![l] = row]
        /\ Done(r) /\ UNCHANGED <<grants, mailed, access>>
    BY <1>2 DEF CommitRegister, row, new
  <2> HIDE DEF u, l
  <2>4. RowsTyped'
    BY <2>1, <2>2, <2>a, <2>3 DEF Inv, RowsTyped
  <2>5. Owned'
    BY <2>1, <2>2, <2>a, <2>3 DEF Inv, RowsTyped, Owned, Known, Row, Opened
  <2>6. Lasting(r)
    BY <2>1, <2>2, <2>a, <2>3 DEF Lasting, InUse, Inv, RowsTyped, Owned, Known, Row, Opened
  <2>7. QED BY <2>3, <2>4, <2>5, <2>6, EndsInv
<1>3. QED BY <1>1, <1>2

LEMMA VerifyStepInv ==
    ASSUME Inv, NEW r \in Request, Activate(r) \/ MarkUsed(r)
    PROVE  Inv'
<1>0. Holds(req[r]) /\ req[r] \in RequestState
  BY DEF Inv
<1>1. CASE Activate(r)
  <2>1. Goto(r, "markUsed") /\ "markUsed" \in Pc
    BY <1>1 DEF Activate, Pc
  <2>2. RowsTyped'
    BY <1>1 DEF Activate, Inv, RowsTyped, AccountRow
  <2>3. Owned' /\ Lasting(r)
    BY <1>0, <1>1 DEF Activate, At, Holds, Lasting, Inv, RowsTyped, AccountRow, Owned, Known, Row,
                     Opened
  <2>4. Holds(req[r])'
    BY <1>0, <1>1, <2>1, <2>3, Goes DEF Holds, Activate, At, Lasting
  <2>5. QED BY <2>1, <2>2, <2>3, <2>4, GoesInv
<1>2. CASE MarkUsed(r)
  <2>1. RowsTyped'
    BY <1>2 DEF MarkUsed, Inv, RowsTyped, LinkRow
  <2>2. Owned' /\ Lasting(r)
    BY <1>0, <1>2 DEF MarkUsed, At, Holds, Lasting, Inv, RowsTyped, LinkRow, Owned, Known, Row,
                     Opened
  <2>3. QED BY <1>2, <2>1, <2>2, EndsInv DEF MarkUsed
<1>3. QED BY <1>1, <1>2

LEMMA MailLinkInv ==
    ASSUME Inv, NEW r \in Request, MailLink(r)
    PROVE  Inv'
<1>1. RowsTyped'
  BY DEF MailLink, At, Holds, Inv, RowsTyped, Kind
<1>2. QED BY <1>1, Unwritten, EndsInv DEF MailLink

\* A second factor is stored, or turned on, for an account that was active.
LEMMA SaveFactorInv ==
    ASSUME Inv, NEW r \in Request, SaveFactor(r)
    PROVE  Inv'
<1>1. req[r].user \in User /\ accounts[req[r].user].status = "active"
  BY DEF SaveFactor, At, Inv, Holds
<1>2. /\ accounts' \in [User -> AccountRow]
      /\ \A u \in User : /\ accounts'[u].status = accounts[u].status
                         /\ u # req[r].user => accounts'[u] = accounts[u]
  BY <1>1 DEF SaveFactor, Inv, RowsTyped, AccountRow
<1>3. Done(r) /\ UNCHANGED <<links, grants, mailed, access>>
  BY DEF SaveFactor
<1>4. RowsTyped'
  BY <1>2, <1>3 DEF Inv, RowsTyped
<1>5. Owned' /\ Lasting(r)
  BY <1>1, <1>2, <1>3 DEF Inv, RowsTyped, Owned, Lasting, Known, Row, Opened
<1>6. QED BY <1>3, <1>4, <1>5, EndsInv

\* Sessions change, and those in use stay whose they are.
GrantsMove ==
    /\ grants' \in [Grant -> GrantRow]
    /\ \A g \in Grant :
         /\ Opened(g) => Opened(g)'
         /\ Opened(g)' => /\ grants'[g].user \in User
                           /\ Known(grants'[g].user)
                           /\ \/ accounts[grants'[g].user].status = "active"
                              \/ grants'[g].provider
         /\ InUse(g) => /\ grants'[g].user = grants[g].user
                        /\ grants'[g].password = grants[g].password

LEMMA GrantsOwned ==
    ASSUME Inv, NEW r \in Request, GrantsMove, UNCHANGED <<accounts, links>>
    PROVE  Owned' /\ Lasting(r)
BY DEF GrantsMove, Inv, RowsTyped, Owned, Lasting, Known, Row, Opened

\* A sign-in opens a session in a free place.
LEMMA OpensGrantMoves ==
    ASSUME Inv, NEW r \in Request, NEW provider \in BOOLEAN, OpensGrant(r, provider),
           req[r].user \in User, Known(req[r].user), req[r].password \in Nat,
           accounts[req[r].user].status = "active" \/ provider
    PROVE  GrantsMove
<1> DEFINE row == [state |-> "live", user |-> req[r].user, password |-> req[r].password,
                   provider |-> provider, excused |-> Unseen(req[r].user, req[r].password)]
<1>1. PICK g \in FreeGrants : grants' = [grants EXCEPT ![g] = row]
  BY DEF OpensGrant
<1>2. row \in GrantRow
  BY DEF GrantRow, Unseen
<1>3. /\ row.state = "live" /\ row.user = req[r].user /\ row.password = req[r].password
      /\ row.provider = provider
  OBVIOUS
<1>4. g \in Grant /\ ~InUse(g)
  BY DEF FreeGrants, InUse
<1> HIDE DEF row
<1>5. /\ grants' \in [Grant -> GrantRow] /\ grants'[g] = row
      /\ \A k \in Grant \ {g} : grants'[k] = grants[k]
  BY <1>1, <1>2, <1>4 DEF Inv, RowsTyped
<1>6. QED BY <1>3, <1>4, <1>5 DEF GrantsMove, Inv, Owned, Opened

LEMMA SignInStepInv ==
    ASSUME Inv, NEW r \in Request,
           AskFactor(r) \/ CheckFactor(r) \/ Issue(r) \/ IssueProvider(r)
    PROVE  Inv'
<1>0. Holds(req[r]) /\ req[r] \in RequestState
  BY DEF Inv
<1>1. CASE AskFactor(r) \/ CheckFactor(r)
  <2>1. UNCHANGED <<accounts, links, grants, mailed, access>>
    BY <1>1 DEF AskFactor, CheckFactor
  <2>2. CASE Done(r)
    BY <2>1, <2>2, Unwritten, EndsInv DEF Inv, RowsTyped
  <2>3. CASE Goto(r, "issue")
    <3>1. /\ req[r].pc \in {"askFactor", "checkFactor"}
          /\ req[r].pc = "checkFactor" => accounts[req[r].user].factor # "none"
      BY <1>1 DEF AskFactor, CheckFactor, At
    <3>2. /\ req[r].user \in User /\ accounts[req[r].user].status = "active"
          /\ req[r].password = req[r].secret
      BY <1>0, <3>1 DEF Holds, Inv, Owned
    <3>3. Holds(req[r])'
      BY <2>1, <2>3, <3>2, Goes DEF Holds, Pc
    <3>4. QED BY <2>1, <2>3, <3>3, Unwritten, GoesInv DEF Inv, RowsTyped, Pc
  <2>4. QED BY <1>1, <2>2, <2>3 DEF AskFactor, CheckFactor
<1>2. CASE Issue(r)
  <2>1. /\ req[r].user \in User /\ accounts[req[r].user].status = "active"
        /\ Known(req[r].user) /\ req[r].password \in Nat /\ req[r].secret \in Nat
    BY <1>0, <1>2 DEF Issue, At, Holds, RequestState, Known
  <2>2. GrantsMove
    BY <1>2, <2>1, OpensGrantMoves DEF Issue
  <2>3. access' \subseteq AccessToken
    BY <1>2, <2>1, Signed DEF Issue
  <2>4. Done(r) /\ UNCHANGED <<accounts, links, mailed>>
    BY <1>2 DEF Issue
  <2>5. RowsTyped'
    BY <2>2, <2>3, <2>4 DEF GrantsMove, Inv, RowsTyped
  <2>6. QED BY <2>2, <2>4, <2>5, GrantsOwned, EndsInv
<1>3. CASE IssueProvider(r)
  <2>1. req[r].user \in User /\ Known(req[r].user) /\ req[r].password \in Nat
    BY <1>0, <1>3 DEF IssueProvider, At, Holds, RequestState
  <2>2. GrantsMove
    BY <1>3, <2>1, OpensGrantMoves DEF IssueProvider
  <2>3. Done(r) /\ UNCHANGED <<accounts, links, mailed, access>>
    BY <1>3 DEF IssueProvider
  <2>4. RowsTyped'
    BY <2>2, <2>3 DEF GrantsMove, Inv, RowsTyped
  <2>5. QED BY <2>2, <2>3, <2>4, GrantsOwned, EndsInv
<1>4. QED BY <1>1, <1>2, <1>3

LEMMA RefreshStepInv ==
    ASSUME Inv, NEW r \in Request, Rotate(r) \/ SignAccess(r)
    PROVE  Inv'
<1>0. Holds(req[r]) /\ req[r] \in RequestState
  BY DEF Inv
<1>1. CASE Rotate(r)
  <2> DEFINE g == req[r].grant
  <2> DEFINE q == [req[r] EXCEPT !.pc = "signAccess", !.password = grants[g].password,
                                 !.secret = accounts[req[r].user].secret]
  <2>1. /\ g \in Grant /\ Opened(g) /\ grants[g].user = req[r].user
        /\ req[r].user \in User
    BY <1>0, <1>1 DEF Rotate, At, Holds
  <2>2. /\ q \in RequestState /\ q.pc = "signAccess" /\ q.user = req[r].user /\ q.grant = g
        /\ q.password = grants[g].password
    BY <1>0, <2>1 DEF RequestState, Pc, Inv, RowsTyped, AccountRow, GrantRow
  <2>3. req' = [req EXCEPT ![r] = q]
    BY <1>1 DEF Rotate, Inv
  <2>4. grants' = [grants EXCEPT ![g].state = "rotating"]
    BY <1>1 DEF Rotate
  <2>5. UNCHANGED <<accounts, links, mailed, access>>
    BY <1>1 DEF Rotate
  <2> HIDE DEF q, g
  <2>6. GrantsMove
    BY <2>1, <2>4 DEF GrantsMove, Inv, RowsTyped, Owned, Opened, GrantRow
  <2>7. RowsTyped'
    BY <2>5, <2>6 DEF GrantsMove, Inv, RowsTyped
  <2>8. req'[r] = q /\ Others(r)
    BY <2>2, <2>3, Takes
  <2>a. InUse(g)
    BY DEF InUse, g
  <2>9. Holds(req[r])'
    BY <2>1, <2>2, <2>6, <2>8, <2>a DEF Holds, GrantsMove
  <2>10. \A v \in User : ~RegistersUser(r, v)'
    BY <2>2, <2>8 DEF RegistersUser, At
  <2>11. QED BY <2>5, <2>6, <2>7, <2>8, <2>9, <2>10, GrantsOwned, OthersHold
<1>2. CASE SignAccess(r)
  <2> DEFINE g == req[r].grant
  <2>1. /\ g \in Grant /\ Opened(g) /\ req[r].user \in User
        /\ req[r].password \in Nat /\ req[r].secret \in Nat
    BY <1>0, <1>2 DEF SignAccess, At, Holds, RequestState
  <2>2. grants' = [grants EXCEPT ![g].state = "live",
                                 ![g].excused = @ \/ Unseen(req[r].user, req[r].password)]
    BY <1>2 DEF SignAccess
  <2>3. GrantsMove
    BY <2>1, <2>2 DEF GrantsMove, Inv, RowsTyped, Owned, Opened, GrantRow
  <2>4. access' \subseteq AccessToken /\ UNCHANGED <<accounts, links, mailed>>
    BY <1>2, <2>1, Signed, 0 \in Nat DEF SignAccess
  <2>5. RowsTyped'
    BY <2>3, <2>4 DEF GrantsMove, Inv, RowsTyped
  <2>6. req'[r] = Idle /\ Others(r)
    <3>1. \A p \in Request \ {r} :
             /\ req'[p] = [req[p] EXCEPT !.rows = @ \ {g}]
             /\ req'[p] \in RequestState /\ SameButRows(req[p], req'[p])
      BY <1>2 DEF SignAccess, Inv, RequestState, SameButRows
    <3>2. req' = [q \in Request |-> req'[q]] /\ req'[r] = Idle
      BY <1>2 DEF SignAccess
    <3>3. QED BY <3>1, <3>2, IdleOK DEF Others
  <2>7. Holds(req[r])'
    BY <2>6, IdleOK DEF Holds
  <2>8. \A v \in User : ~RegistersUser(r, v)'
    BY <2>6, IdleOK DEF RegistersUser, At
  <2>9. QED BY <2>3, <2>4, <2>5, <2>6, <2>7, <2>8, GrantsOwned, OthersHold
<1>3. QED BY <1>1, <1>2

LEMMA ChangeStepInv ==
    ASSUME Inv, NEW r \in Request,
           UpdateCredential(r) \/ CommitPassword(r) \/ SelectGrants(r) \/ RevokeGrants(r)
    PROVE  Inv'
<1>0. Holds(req[r]) /\ req[r] \in RequestState
  BY DEF Inv
<1>1. CASE UpdateCredential(r)
  <2>1. Goto(r, "commitPassword") /\ "commitPassword" \in Pc
    BY <1>1 DEF UpdateCredential, Pc
  <2>2. UNCHANGED <<accounts, links, grants, mailed, access>>
    BY <1>1 DEF UpdateCredential
  <2>3. Holds(req[r])'
    BY <1>0, <1>1, <2>1, <2>2, Goes DEF Holds, UpdateCredential, At, Known, Row
  <2>4. QED BY <2>1, <2>2, <2>3, Unwritten, GoesInv DEF Inv, RowsTyped
<1>2. CASE CommitPassword(r)
  <2> DEFINE u == req[r].user
  <2> DEFINE l == req[r].link
  <2>1. u \in User /\ Known(u) /\ (l # None => l \in Link /\ Row(l))
    BY <1>0, <1>2 DEF Holds, CommitPassword, At, RequestState
  <2>2. /\ accounts' = [accounts EXCEPT ![u].password = @ + 1, ![u].secret = @ + 1]
        /\ links' = IF l = None THEN links
                    ELSE [links EXCEPT ![l].state = "used", ![l].by = @ \cup {r}, ![l].uses = @ + 1]
        /\ Goto(r, "mailChange") /\ UNCHANGED <<grants, mailed, access>>
    BY <1>2 DEF CommitPassword
  <2> HIDE DEF u, l
  <2>3. /\ accounts' \in [User -> AccountRow]
        /\ \A v \in User : /\ accounts'[v].status = accounts[v].status
                           /\ accounts'[v].factor = accounts[v].factor
    BY <2>1, <2>2 DEF Inv, RowsTyped, AccountRow
  <2>4. /\ links' \in [Link -> LinkRow]
        /\ \A k \in Link : /\ links'[k].user = links[k].user
                           /\ Row(k)' <=> Row(k)
    BY <2>1, <2>2 DEF Inv, RowsTyped, LinkRow, Row
  <2>5. RowsTyped'
    BY <2>2, <2>3, <2>4 DEF Inv, RowsTyped
  <2>6. Owned' /\ Lasting(r)
    BY <2>2, <2>3, <2>4, SMTT(30) DEF Inv, RowsTyped, Owned, Lasting, Known, Opened
  <2>7. Holds(req[r])'
    BY <1>0, <2>1, <2>2, <2>3, Goes DEF Holds, Known, Pc, u
  <2>8. QED BY <2>2, <2>5, <2>6, <2>7, GoesInv DEF Pc
<1>3. CASE SelectGrants(r)
  <2> DEFINE q == [req[r] EXCEPT !.pc = "revokeGrants",
                       !.rows = {g \in Grant : Live(g) /\ grants[g].user = req[r].user}]
  <2>1. /\ q \in RequestState /\ q.pc = "revokeGrants" /\ q.user = req[r].user
    BY <1>0 DEF RequestState, Pc
  <2>2. /\ req' = [req EXCEPT ![r] = q]
        /\ UNCHANGED <<accounts, links, grants, mailed, access>>
    BY <1>3 DEF SelectGrants, Inv
  <2> HIDE DEF q
  <2>3. Holds(req[r])'
    BY <1>0, <1>3, <2>1, <2>2, Takes DEF Holds, SelectGrants, At
  <2>4. QED BY <2>1, <2>2, <2>3, TakesInv
<1>4. CASE RevokeGrants(r)
  <2>1. GrantsMove
    BY <1>4 DEF RevokeGrants, GrantsMove, Live, Inv, RowsTyped, Owned, Opened, GrantRow
  <2>2. Done(r) /\ UNCHANGED <<accounts, links, mailed, access>>
    BY <1>4 DEF RevokeGrants
  <2>3. RowsTyped'
    BY <2>1, <2>2 DEF GrantsMove, Inv, RowsTyped
  <2>4. QED BY <2>1, <2>2, <2>3, GrantsOwned, EndsInv
<1>5. QED BY <1>1, <1>2, <1>3, <1>4

-----------------------------------------------------------------------------
(* Failures, restarts, time.                                               *)

LEMMA Excused ==
    ASSUME Inv, NEW S, grants' = Excuse(S), UNCHANGED accounts
    PROVE  /\ GrantsMove
           /\ \A g \in Grant : /\ grants'[g].state = grants[g].state
                               /\ grants'[g].user = grants[g].user
                               /\ grants'[g].password = grants[g].password
                               /\ grants'[g].provider = grants[g].provider
                               /\ grants'[g].excused <=> grants[g].excused \/ g \in S
<1>1. grants \in [Grant -> GrantRow]
  BY DEF Inv, RowsTyped
<1>2. /\ grants' \in [Grant -> GrantRow]
      /\ \A g \in Grant : /\ grants'[g].state = grants[g].state
                          /\ grants'[g].user = grants[g].user
                          /\ grants'[g].password = grants[g].password
                          /\ grants'[g].provider = grants[g].provider
                          /\ grants'[g].excused <=> grants[g].excused \/ g \in S
  BY <1>1 DEF Excuse, GrantRow
<1>3. GrantsMove
  BY <1>2 DEF GrantsMove, Inv, Owned, Opened
<1>4. QED BY <1>2, <1>3

LEMMA FaultInv ==
    ASSUME Inv, (\E r \in Request : Fail(r)) \/ Crash
    PROVE  Inv'
<1>1. ASSUME NEW r \in Request, Fail(r) PROVE Inv'
  <2>1. Done(r) /\ UNCHANGED <<accounts, links, mailed, access>> /\ grants' = Excuse(Cut(r))
    BY <1>1 DEF Fail
  <2>2. GrantsMove
    BY <2>1, Excused
  <2>3. RowsTyped'
    BY <2>1, <2>2 DEF GrantsMove, Inv, RowsTyped
  <2>4. QED BY <2>1, <2>2, <2>3, GrantsOwned, EndsInv
<1>2. ASSUME Crash PROVE Inv'
  <2>1. PICK r \in Request : ~At(r, "idle")
    BY <1>2 DEF Crash
  <2>2. /\ req' = [q \in Request |-> Idle] /\ UNCHANGED <<accounts, links, mailed, access>>
        /\ grants' = Excuse(UNION {Cut(q) : q \in Request})
    BY <1>2 DEF Crash
  <2>3. GrantsMove
    BY <2>2, Excused
  <2>4. RowsTyped'
    BY <2>2, <2>3 DEF GrantsMove, Inv, RowsTyped
  <2>5. Others(r) /\ req'[r] = Idle
    BY <2>2, IdleOK DEF Others
  <2>6. Holds(req[r])' /\ \A u \in User : ~RegistersUser(r, u)'
    BY <2>5, IdleOK DEF Holds, RegistersUser, At
  <2>7. QED BY <2>2, <2>3, <2>4, <2>5, <2>6, GrantsOwned, OthersHold
<1>3. QED BY <1>1, <1>2

LEMMA QuietInv ==
    ASSUME Inv, (\E l \in Link : Expire(l)) \/ (\E a \in access : ExpireAccess(a)) \/ UNCHANGED vars
    PROVE  Inv'
<1>1. UNCHANGED <<accounts, grants, mailed, req>>
  BY DEF Expire, ExpireAccess, vars
<1>2. /\ links' \in [Link -> LinkRow]
      /\ \A l \in Link : (Row(l)' <=> Row(l)) /\ links'[l].user = links[l].user
  BY DEF Expire, ExpireAccess, vars, Inv, RowsTyped, LinkRow, Row
<1>3. access' \subseteq AccessToken
  BY DEF Expire, ExpireAccess, vars, Inv, RowsTyped
<1>4. RowsTyped' /\ Owned' /\ OneRegistration'
  BY <1>1, <1>2, <1>3 DEF Inv, RowsTyped, Owned, OneRegistration, RegistersUser, At, Known, Opened
<1>5. ASSUME NEW r \in Request PROVE Holds(req[r])'
  BY <1>1, <1>2, PasswordsAssumption DEF Inv, Holds, Known, Opened, RequestState
<1>6. QED BY <1>1, <1>4, <1>5 DEF Inv

\* What a request that begins leaves alone, and the link it comes to carry.
LEMMA Starts ==
    ASSUME Inv, NEW r \in Request, Start(r)
    PROVE  /\ UNCHANGED <<accounts, grants, mailed, access>> /\ req[r].pc = "idle"
           /\ \A p \in Request \ {r} : req'[p] = req[p]
           /\ links' = links \/ \E u \in User : InsertLink(r, u)
           /\ \/ req'[r].link = None /\ req'[r].pc # "commitRegister"
              \/ \E l \in Link : OpenReset(r, l) \/ OpenVerification(r, l)
              \/ \E u \in User : InsertLink(r, u)
<1>0. req \in [Request -> RequestState]
  BY DEF Inv
<1>1. \A u \in User : Register(r, u) =>
        /\ UNCHANGED <<accounts, links, grants, mailed, access>> /\ req[r].pc = "idle"
        /\ \A p \in Request \ {r} : req'[p] = req[p]
        /\ req'[r].link = None /\ req'[r].pc # "commitRegister"
  BY <1>0 DEF Register, Begin, Idle, At
<1>2. \A u \in User : SignIn(r, u) \/ Verify2fa(r, u) \/ LoginWithOauth(r, u) =>
        /\ UNCHANGED <<accounts, links, grants, mailed, access>> /\ req[r].pc = "idle"
        /\ \A p \in Request \ {r} : req'[p] = req[p]
        /\ req'[r].link = None /\ req'[r].pc # "commitRegister"
  <2>1. ASSUME NEW u \in User, NEW label, label # "commitRegister", Reads(r, u, label)
        PROVE  /\ \A p \in Request \ {r} : req'[p] = req[p]
               /\ req'[r].link = None /\ req'[r].pc # "commitRegister"
    BY <1>0, <2>1 DEF Reads, Idle
  <2>2. QED BY <2>1 DEF SignIn, Verify2fa, LoginWithOauth, At
<1>3. \A a \in access : ChangePassword(r, a) \/ ChangeFactor(r, a) =>
        /\ UNCHANGED <<accounts, links, grants, mailed, access>> /\ req[r].pc = "idle"
        /\ \A p \in Request \ {r} : req'[p] = req[p]
        /\ req'[r].link = None /\ req'[r].pc # "commitRegister"
  BY <1>0 DEF ChangePassword, ChangeFactor, Begin, Idle, At
<1>4. \A g \in Grant : OpenRefresh(r, g) =>
        /\ UNCHANGED <<accounts, links, grants, mailed, access>> /\ req[r].pc = "idle"
        /\ \A p \in Request \ {r} : req'[p] = req[p]
        /\ req'[r].link = None /\ req'[r].pc # "commitRegister"
  BY <1>0 DEF OpenRefresh, Idle, At
<1>5. \A l \in Link : OpenReset(r, l) \/ OpenVerification(r, l) =>
        /\ UNCHANGED <<accounts, links, grants, mailed, access>> /\ req[r].pc = "idle"
        /\ \A p \in Request \ {r} : req'[p] = req[p]
  BY <1>0 DEF OpenReset, OpenVerification, Carries, At
<1>6. \A u \in User : InsertLink(r, u) =>
        /\ UNCHANGED <<accounts, grants, mailed, access>> /\ req[r].pc = "idle"
        /\ \A p \in Request \ {r} : req'[p] = req[p]
  BY <1>0 DEF InsertLink, Carries, At
<1>7. \A m \in mailed : m[2] \in Link
  BY DEF Inv, RowsTyped, Kind
<1>8. \/ \E u \in User : Register(r, u)
      \/ \E u \in User : SignIn(r, u) \/ Verify2fa(r, u) \/ LoginWithOauth(r, u)
      \/ \E a \in access : ChangePassword(r, a) \/ ChangeFactor(r, a)
      \/ \E g \in Grant : OpenRefresh(r, g)
      \/ \E l \in Link : OpenReset(r, l) \/ OpenVerification(r, l)
      \/ \E u \in User : InsertLink(r, u)
  BY <1>7 DEF Start
<1>9. QED BY <1>1, <1>2, <1>3, <1>4, <1>5, <1>6, <1>8

LEMMA NextInv == Inv /\ InStep /\ [Next]_vars => Inv'
<1> SUFFICES ASSUME Inv, InStep, [Next]_vars PROVE Inv'
  OBVIOUS
<1>1. ASSUME NEW r \in Request, Step(r) PROVE Inv'
  BY <1>1, RegisterStepInv, VerifyStepInv, MailLinkInv, SaveFactorInv, SignInStepInv,
     RefreshStepInv, ChangeStepInv DEF Step
<1>2. QED BY <1>1, StartInv, FaultInv, QuietInv DEF Next

-----------------------------------------------------------------------------
(* Types.                                                                  *)

\* Password and secret are written by the same commits.
LEMMA NextInStep == Inv /\ InStep /\ [Next]_vars => InStep'
<1> SUFFICES ASSUME Inv, InStep, [Next]_vars PROVE InStep'
  OBVIOUS
<1>1. ASSUME UNCHANGED <<accounts, access>> PROVE InStep'
  BY <1>1 DEF InStep
<1>2. ASSUME NEW r \in Request, CommitRegister(r) PROVE InStep'
  BY <1>2 DEF CommitRegister, InStep, Inv, RowsTyped
<1>3. ASSUME NEW r \in Request, Activate(r) PROVE InStep'
  BY <1>3 DEF Activate, InStep, Inv, RowsTyped, AccountRow
<1>4. ASSUME NEW r \in Request, CommitPassword(r) PROVE InStep'
  BY <1>4 DEF CommitPassword, InStep, Inv, RowsTyped, AccountRow
<1>5. ASSUME NEW r \in Request, SaveFactor(r) PROVE InStep'
  BY <1>5 DEF SaveFactor, InStep, Inv, RowsTyped, AccountRow
<1>6. ASSUME NEW r \in Request, Issue(r) PROVE InStep'
  <2>1. req[r].password = req[r].secret
    BY <1>6 DEF Issue, At, Inv, Holds
  <2>2. UNCHANGED accounts
    BY <1>6 DEF Issue
  <2>3. \A a \in access' : a \in access \/ a.password = a.secret
    BY <1>6, <2>1 DEF Issue, Delivers
  <2>4. QED BY <2>2, <2>3 DEF InStep
<1>7. ASSUME NEW r \in Request, SignAccess(r) PROVE InStep'
  <2>1. UNCHANGED accounts
    BY <1>7 DEF SignAccess
  <2>2. \A a \in access' : a \in access \/ a.password = 0
    BY <1>7 DEF SignAccess, Delivers
  <2>3. QED BY <2>1, <2>2 DEF InStep
<1>8. ASSUME NEW a \in access, ExpireAccess(a) PROVE InStep'
  BY <1>8 DEF ExpireAccess, InStep
<1>9. ASSUME NEW r \in Request, Step(r) PROVE InStep'
  BY <1>1, <1>2, <1>3, <1>4, <1>5, <1>6, <1>7, <1>9
  DEF Step, InsertUser, MarkUsed, MailLink, AskFactor, CheckFactor, IssueProvider, Rotate,
      UpdateCredential, SelectGrants, RevokeGrants
<1>10. QED BY <1>1, <1>8, <1>9, Starts DEF Next, Fail, Crash, Expire, vars

LEMMA InitInv == Init => Inv /\ InStep /\ LinkUses /\ ResetMailIsStored /\ StaleGrantExplained
<1> SUFFICES ASSUME Init PROVE Inv /\ InStep /\ LinkUses /\ ResetMailIsStored /\ StaleGrantExplained
  OBVIOUS
<1>1. RowsTyped
  BY DEF Init, RowsTyped, NoAccount, NoLink, NoGrant, AccountRow, LinkRow, GrantRow
<1>2. Owned /\ ResetMailIsStored /\ StaleGrantExplained
  BY DEF Init, Owned, Row, Opened, NoLink, NoGrant, NoAccount, ResetMailIsStored, StaleGrantExplained, Live
<1>3. req \in [Request -> RequestState] /\ \A r \in Request : req[r] = Idle
  BY IdleOK DEF Init
<1>4. OneRegistration /\ \A r \in Request : Holds(req[r])
  BY <1>3, IdleOK DEF Holds, OneRegistration, RegistersUser, At
<1>5. InStep
  BY DEF Init, InStep, NoAccount
<1>6. \A l \in Link : links[l].by = {} /\ links[l].uses = 0
  BY DEF Init, NoLink
<1>7. LinkUses
  BY <1>3, <1>6, IdleOK, FS_EmptySet DEF LinkUses
<1>8. QED BY <1>1, <1>2, <1>3, <1>4, <1>5, <1>7 DEF Inv

LEMMA Safe == Spec => [](Inv /\ InStep)
<1>1. Init => Inv /\ InStep
  BY InitInv
<1>2. Inv /\ InStep /\ [Next]_vars => (Inv /\ InStep)'
  BY NextInv, NextInStep
<1>3. QED BY <1>1, <1>2, PTL DEF Spec

\* Rows and requests have their shapes, and links and sessions belong to stored
\* accounts, whichever request or fault comes between an account and its rows.
THEOREM TypeCorrect == Spec => []TypeOK
<1>1. Inv => TypeOK
  BY DEF Inv, RowsTyped, Owned, Known, Row, Opened, TypeOK
<1>2. QED BY <1>1, Safe, PTL

\* Sessions are only opened for verified addresses, or for users a provider
\* vouched for: a login's reading of the status stays true until it commits, and
\* verify2fa, which reads none, needs a factor only an active account has.
THEOREM SessionsAreVerified == Spec => []GrantOnlyVerified
<1>1. Inv => GrantOnlyVerified
  BY DEF Inv, Owned, Opened, Live, GrantOnlyVerified
<1>2. QED BY <1>1, Safe, PTL

\* An access token the guard accepts comes from a sign-in that read the account
\* under the current password, unless a refresh signed it.
THEOREM AccessFollows == Spec => []AccessFollowsPassword
<1>1. Inv /\ InStep => AccessFollowsPassword
  <2> SUFFICES ASSUME Inv, InStep, NEW a \in access, a.secret = accounts[a.user].secret
               PROVE  a.password \in {0, accounts[a.user].password}
    BY DEF AccessFollowsPassword, Accepts
  <2>1. a.user \in User
    BY DEF Inv, RowsTyped, AccessToken
  <2>2. QED BY <2>1 DEF InStep
<1>2. QED BY <1>1, Safe, PTL

-----------------------------------------------------------------------------
(* Links.                                                                  *)

\* What LinkUses says of one link.
UsedBy(l) ==
    /\ IsFiniteSet(links[l].by) /\ links[l].uses = Cardinality(links[l].by)
    /\ links[l].by # {} => links[l].state = "used"
    /\ \A r \in Request : Resetting(r, l) => r \notin links[l].by

\* A row nobody writes, opened by no request unless it is fresh.
LEMMA UntouchedLink ==
    ASSUME NEW l \in Link, UsedBy(l), links'[l] = links[l],
           \A p \in Request : Resetting(p, l)' => Resetting(p, l) \/ links[l].state = "fresh"
    PROVE  UsedBy(l)'
BY DEF UsedBy

\* A link that is stored has set no password.
LEMMA FreshLink ==
    ASSUME NEW l \in Link, links'[l].by = {}, links'[l].uses = 0
    PROVE  UsedBy(l)'
BY FS_EmptySet DEF UsedBy

\* No step but an OpenReset, and no fault, brings a request to the use of a link.
LEMMA StillResetting ==
    ASSUME Inv, NEW l \in Link, NEW p \in Request, Resetting(p, l)',
           (\E r \in Request : Step(r) \/ Fail(r)) \/ Crash \/ UNCHANGED req
    PROVE  Resetting(p, l)
<1>0. /\ req \in [Request -> RequestState] /\ l # None
      /\ req'[p].pc \in {"updateCredential", "commitPassword"} /\ req'[p].link = l
  BY PasswordsAssumption DEF Inv, Resetting
<1>1. ASSUME NEW r \in Request, Step(r) PROVE Resetting(p, l)
  <2>1. CASE Done(r)
    BY <1>0, <2>1 DEF Done, Idle, Resetting
  <2>2. CASE \E label \in Pc : Goto(r, label) /\ label \notin {"updateCredential", "commitPassword"}
    BY <1>0, <2>2, Goes DEF Resetting
  <2>3. CASE UpdateCredential(r)
    BY <1>0, <2>3 DEF UpdateCredential, Goto, At, Resetting
  <2>4. CASE InsertUser(r)
    <3>1. CASE \E k \in FreeLinks :
                  req' = [req EXCEPT ![r].pc = "commitRegister", ![r].link = k]
      BY <1>0, <3>1 DEF Resetting
    <3>2. QED BY <2>1, <2>4, <3>1 DEF InsertUser
  <2>5. CASE AskFactor(r) \/ CheckFactor(r)
    BY <2>1, <2>2, <2>5 DEF AskFactor, CheckFactor, Pc
  <2>6. CASE Rotate(r)
    BY <1>0, <2>6 DEF Rotate, Resetting
  <2>7. CASE SignAccess(r)
    <3>1. req'[p] = IF p = r THEN Idle ELSE [req[p] EXCEPT !.rows = @ \ {req[r].grant}]
      BY <2>7 DEF SignAccess
    <3>2. p # r
      BY <1>0, <3>1 DEF Idle
    <3>3. QED BY <1>0, <3>1, <3>2 DEF Resetting, RequestState
  <2>8. CASE SelectGrants(r)
    BY <1>0, <2>8 DEF SelectGrants, Resetting
  <2>9. QED
    BY <1>1, <2>1, <2>2, <2>3, <2>4, <2>5, <2>6, <2>7, <2>8
    DEF Step, CommitRegister, Activate, MarkUsed, MailLink, SaveFactor, Issue, IssueProvider,
        CommitPassword, RevokeGrants, Pc
<1>2. ASSUME NEW r \in Request, Fail(r) PROVE Resetting(p, l)
  BY <1>0, <1>2 DEF Fail, Done, Idle, Resetting
<1>3. Crash \/ UNCHANGED req => Resetting(p, l)
  BY <1>0 DEF Crash, Idle, Resetting
<1>4. QED BY <1>1, <1>2, <1>3

\* The requests that are about to use a link were about to before, unless they
\* have just found it fresh.
LEMMA NewlyResetting ==
    ASSUME Inv, Next, NEW l \in Link, NEW p \in Request, Resetting(p, l)'
    PROVE  Resetting(p, l) \/ links[l].state = "fresh"
<1>0. /\ req \in [Request -> RequestState] /\ l # None
      /\ req'[p].pc \in {"updateCredential", "commitPassword"} /\ req'[p].link = l
  BY PasswordsAssumption DEF Inv, Resetting
<1>1. ASSUME NEW r \in Request, Start(r) PROVE Resetting(p, l) \/ links[l].state = "fresh"
  <2>1. ASSUME NEW k \in Link, OpenReset(r, k) PROVE Resetting(p, l) \/ links[l].state = "fresh"
    BY <1>0, <2>1 DEF OpenReset, Carries, Opens, Idle, Resetting
  <2>2. ASSUME NEW k \in Link, OpenVerification(r, k) PROVE Resetting(p, l)
    BY <1>0, <2>2 DEF OpenVerification, Carries, Idle, Resetting
  <2>3. ASSUME NEW u \in User, InsertLink(r, u) PROVE Resetting(p, l)
    BY <1>0, <2>3 DEF InsertLink, Carries, Idle, Resetting
  <2>4. CASE p # r \/ req'[r].link = None
    BY <1>0, <1>1, <2>4, Starts DEF Resetting
  <2>5. QED BY <1>1, <2>1, <2>2, <2>3, <2>4, Starts
<1>2. QED BY <1>1, StillResetting DEF Next, Expire, ExpireAccess

LEMMA NextLinkUses == Inv /\ InStep /\ LinkUses /\ [Next]_vars => LinkUses'
<1> SUFFICES ASSUME Inv, LinkUses, Next, NEW l \in Link PROVE UsedBy(l)'
  BY DEF LinkUses, UsedBy, vars, Resetting
<1>0. UsedBy(l) /\ links \in [Link -> LinkRow]
  BY DEF LinkUses, UsedBy, Inv, RowsTyped
<1>1. ASSUME links'[l] = links[l] PROVE UsedBy(l)'
  BY <1>0, <1>1, NewlyResetting, UntouchedLink
<1>2. ASSUME NEW r \in Request, CommitRegister(r) PROVE UsedBy(l)'
  <2>1. CASE req[r].link = l
    BY <1>0, <1>2, <2>1, FreshLink DEF CommitRegister, NoLink
  <2>2. CASE req[r].link # l
    BY <1>0, <1>1, <1>2, <2>2 DEF CommitRegister
  <2>3. QED BY <2>1, <2>2
<1>3. ASSUME NEW r \in Request, NEW u \in User, InsertLink(r, u) PROVE UsedBy(l)'
  <2>1. PICK k \in FreeLinks :
          links' = [links EXCEPT ![k] = [NoLink EXCEPT !.state = "fresh", !.user = u]]
    BY <1>3 DEF InsertLink
  <2>2. CASE k = l
    BY <1>0, <2>1, <2>2, FreshLink DEF NoLink
  <2>3. CASE k # l
    BY <1>0, <1>1, <2>1, <2>3
  <2>4. QED BY <2>2, <2>3
<1>4. ASSUME NEW r \in Request, MarkUsed(r) PROVE UsedBy(l)'
  <2>1. /\ links'[l].by = links[l].by /\ links'[l].uses = links[l].uses
        /\ links[l].state = "used" => links'[l].state = "used"
    BY <1>0, <1>4 DEF MarkUsed, LinkRow
  <2>2. \A p \in Request : Resetting(p, l)' => p \notin links[l].by
    BY <1>0, NewlyResetting DEF UsedBy
  <2>3. QED BY <1>0, <2>1, <2>2 DEF UsedBy
<1>5. ASSUME NEW r \in Request, CommitPassword(r) PROVE UsedBy(l)'
  <2>1. CASE req[r].link # l
    BY <1>0, <1>1, <1>5, <2>1 DEF CommitPassword
  <2>2. CASE req[r].link = l
    <3>1. l # None /\ Resetting(r, l)
      BY <1>5, <2>2, PasswordsAssumption DEF CommitPassword, At, Resetting
    <3>2. /\ links'[l].state = "used" /\ links'[l].by = links[l].by \cup {r}
          /\ links'[l].uses = links[l].uses + 1
      BY <1>0, <1>5, <2>2, <3>1 DEF CommitPassword, LinkRow
    <3>3. r \notin links[l].by
      BY <1>0, <3>1 DEF UsedBy
    <3>4. /\ IsFiniteSet(links'[l].by)
          /\ links'[l].uses = Cardinality(links'[l].by)
      <4>1. IsFiniteSet(links[l].by) /\ links[l].uses = Cardinality(links[l].by)
        BY <1>0 DEF UsedBy
      <4>2. /\ IsFiniteSet(links[l].by \cup {r})
            /\ Cardinality(links[l].by \cup {r}) = Cardinality(links[l].by) + 1
        BY <3>3, <4>1, FS_AddElement
      <4>3. QED BY <3>2, <4>1, <4>2
    <3>5. ASSUME NEW p \in Request, Resetting(p, l)' PROVE p \notin links'[l].by
      <4>1. p # r
        BY <1>5, <3>5, Goes DEF CommitPassword, Pc, Resetting
      <4>2. p \notin links[l].by
        BY <1>0, <3>5, NewlyResetting DEF UsedBy
      <4>3. QED BY <3>2, <4>1, <4>2
    <3>6. QED BY <3>2, <3>4, <3>5 DEF UsedBy
  <2>3. QED BY <2>1, <2>2
<1>6. ASSUME NEW k \in Link, Expire(k) PROVE UsedBy(l)'
  <2>1. /\ links'[l].by = links[l].by /\ links'[l].uses = links[l].uses
        /\ links[l].state = "used" => links'[l].state = "used"
        /\ req' = req
    BY <1>0, <1>6 DEF Expire, LinkRow
  <2>2. QED BY <1>0, <2>1 DEF UsedBy, Resetting
<1>7. ASSUME NEW r \in Request, Start(r) PROVE UsedBy(l)'
  BY <1>1, <1>3, <1>7, Starts
<1>8. ASSUME NEW r \in Request, Step(r) PROVE UsedBy(l)'
  BY <1>1, <1>2, <1>4, <1>5, <1>8
  DEF Step, InsertUser, Activate, MailLink, AskFactor, CheckFactor, Issue, IssueProvider,
      SaveFactor, Rotate, SignAccess, UpdateCredential, SelectGrants, RevokeGrants
<1>9. QED BY <1>1, <1>6, <1>7, <1>8 DEF Next, Fail, Crash, ExpireAccess

\* A link sets a password once per request that found it unused, whoever else
\* uses, marks or stores links meanwhile.
THEOREM OneReset == Spec => []OneResetPerRequest
<1>1. Init => Inv /\ InStep /\ LinkUses
  BY InitInv
<1>2. Inv /\ InStep /\ LinkUses /\ [Next]_vars => (Inv /\ InStep /\ LinkUses)'
  BY NextInv, NextInStep, NextLinkUses
<1>3. LinkUses => OneResetPerRequest
  BY DEF LinkUses, OneResetPerRequest
<1>4. QED BY <1>1, <1>2, <1>3, PTL DEF Spec

LEMMA NextMailed == Inv /\ InStep /\ ResetMailIsStored /\ [Next]_vars => ResetMailIsStored'
<1> SUFFICES ASSUME Inv, ResetMailIsStored, [Next]_vars,
                    NEW l \in Link, <<"reset", l>> \in mailed'
             PROVE  links'[l].state # "absent"
  BY DEF ResetMailIsStored
<1>0. links \in [Link -> LinkRow]
  BY DEF Inv, RowsTyped
<1>1. Row(l) => Row(l)'
  <2>1. ASSUME NEW r \in Request, Start(r) PROVE Row(l) => Row(l)'
    <3>1. ASSUME NEW u \in User, InsertLink(r, u) PROVE Row(l) => Row(l)'
      BY <1>0, <3>1 DEF InsertLink, NoLink, Row
    <3>2. QED BY <2>1, <3>1, Starts DEF Row
  <2>2. ASSUME NEW r \in Request, CommitRegister(r) PROVE Row(l) => Row(l)'
    BY <1>0, <2>2 DEF CommitRegister, NoLink, Row
  <2>3. ASSUME NEW k \in Link, Expire(k) PROVE Row(l) => Row(l)'
    BY <1>0, <2>3 DEF Expire, LinkRow, Row
  <2>4. ASSUME NEW r \in Request, MarkUsed(r) \/ CommitPassword(r) PROVE Row(l) => Row(l)'
    BY <1>0, <2>4 DEF MarkUsed, CommitPassword, LinkRow, Row
  <2>5. ASSUME NEW r \in Request, Step(r) PROVE Row(l) => Row(l)'
    BY <2>2, <2>4, <2>5
    DEF Step, InsertUser, Activate, MailLink, AskFactor, CheckFactor, Issue, IssueProvider,
        SaveFactor, Rotate, SignAccess, UpdateCredential, SelectGrants, RevokeGrants, Row
  <2>6. QED BY <2>1, <2>3, <2>5 DEF Next, Fail, Crash, ExpireAccess, Row, vars
<1>2. CASE \E r \in Request : MailLink(r)
  <2>1. PICK r \in Request : MailLink(r)
    BY <1>2
  <2>2. Row(req[r].link)
    BY <2>1 DEF MailLink, At, Inv, Holds
  <2>3. <<"reset", l>> \in mailed \/ req[r].link = l
    BY <2>1 DEF MailLink
  <2>4. QED BY <1>1, <2>2, <2>3 DEF ResetMailIsStored, Row
<1>3. CASE ~ \E r \in Request : MailLink(r)
  <2>1. ASSUME NEW r \in Request, InsertUser(r) PROVE <<"reset", l>> \in mailed
    BY <2>1 DEF InsertUser
  <2>2. ASSUME NEW r \in Request, Step(r) PROVE <<"reset", l>> \in mailed
    BY <1>3, <2>1, <2>2
    DEF Step, CommitRegister, Activate, MarkUsed, AskFactor, CheckFactor, Issue, IssueProvider,
        SaveFactor, Rotate, SignAccess, UpdateCredential, CommitPassword, SelectGrants, RevokeGrants
  <2>3. <<"reset", l>> \in mailed
    BY <2>2, Starts DEF Next, Fail, Crash, Expire, ExpireAccess, vars
  <2>4. QED BY <1>1, <2>3 DEF ResetMailIsStored, Row
<1>4. QED BY <1>2, <1>3

\* The mail with a reset link is sent after its row has committed.
THEOREM ResetStoredFirst == Spec => []ResetMailIsStored
<1>1. Init => Inv /\ InStep /\ ResetMailIsStored
  BY InitInv
<1>2. Inv /\ InStep /\ ResetMailIsStored /\ [Next]_vars => (Inv /\ InStep /\ ResetMailIsStored)'
  BY NextInv, NextInStep, NextMailed
<1>3. QED BY <1>1, <1>2, PTL DEF Spec

-----------------------------------------------------------------------------
(* Sessions and the password they were opened with.                        *)

\* What StaleGrantExplained says of one session.
Explained(g) ==
    Live(g) /\ Stale(g) => grants[g].excused \/ \E r \in Request : WillEnd(r, g)

\* A session whose explanation is as good as it was: the witness, if there is
\* one, still has it to end, or it has been excused.
LEMMA StillExplained ==
    ASSUME NEW g \in Grant, Explained(g),
           Live(g)' => /\ Live(g) /\ (Stale(g)' => Stale(g))
                       /\ grants[g].excused => grants'[g].excused,
           Live(g)' => \A p \in Request : WillEnd(p, g) => WillEnd(p, g)' \/ grants'[g].excused
    PROVE  Explained(g)'
BY DEF Explained

\* ... when neither it nor its account changes, nor any request that will end it.
LEMMA SameExplained ==
    ASSUME Inv, NEW g \in Grant, Explained(g), grants'[g] = grants[g], UNCHANGED accounts,
           NEW r \in Request, \A p \in Request \ {r} : req'[p] = req[p],
           ~WillEnd(r, g) \/ WillEnd(r, g)'
    PROVE  Explained(g)'
<1>1. \A p \in Request : WillEnd(p, g) => WillEnd(p, g)'
  BY DEF WillEnd, At
<1>2. QED BY <1>1, StillExplained DEF Live, Stale

\* A token inserted on the strength of a password that is no longer current is
\* excused, or a logout that is still to read the rows will find it.
LEMMA InsertedExplained ==
    ASSUME Inv, NEW r \in Request, NEW g \in Grant, UNCHANGED accounts,
           req[r].pc \in {"issue", "issueProvider", "signAccess"},
           grants'[g].user = req[r].user, grants'[g].password = req[r].password,
           Unseen(req[r].user, req[r].password) => grants'[g].excused,
           \A p \in Request \ {r} : SameButRows(req[p], req'[p])
    PROVE  Explained(g)'
<1> SUFFICES ASSUME Stale(g)', ~grants'[g].excused
             PROVE  \E p \in Request : WillEnd(p, g)'
  BY DEF Explained
<1>1. PICK p \in Request : req[p].user = req[r].user /\ req[p].pc = "mailChange"
  BY DEF Unseen, Stale, At
<1>2. p # r
  BY <1>1
<1>3. WillEnd(p, g)'
  BY <1>1, <1>2 DEF WillEnd, SameButRows, At
<1>4. QED BY <1>3

LEMMA StartExplained ==
    ASSUME Inv, NEW r \in Request, Start(r), NEW g \in Grant, Explained(g)
    PROVE  Explained(g)'
<1>1. ~WillEnd(r, g)
  BY Starts DEF WillEnd, At
<1>2. QED BY <1>1, Starts, SameExplained

LEMMA StepExplained ==
    ASSUME Inv, NEW r \in Request, Step(r), NEW g \in Grant, Explained(g)
    PROVE  Explained(g)'
<1>0. /\ req \in [Request -> RequestState] /\ grants \in [Grant -> GrantRow]
      /\ accounts \in [User -> AccountRow]
      /\ Holds(req[r])
      /\ Live(g) => grants[g].user \in User /\ Known(grants[g].user)
  BY DEF Inv, RowsTyped, Owned, Opened, Live
<1>1. CASE ~(CommitRegister(r) \/ Activate(r) \/ SaveFactor(r) \/ Issue(r) \/ IssueProvider(r)
             \/ Rotate(r) \/ SignAccess(r) \/ CommitPassword(r) \/ SelectGrants(r)
             \/ RevokeGrants(r))
  <2>1. /\ UNCHANGED <<accounts, grants>> /\ req[r].pc \notin {"mailChange", "revokeGrants"}
        /\ \A p \in Request \ {r} : req'[p] = req[p]
    BY <1>0, <1>1 DEF Step, InsertUser, MarkUsed, MailLink, AskFactor, CheckFactor,
                      UpdateCredential, Goto, Done, At
  <2>2. ~WillEnd(r, g)
    BY <2>1 DEF WillEnd, At
  <2>3. QED BY <2>1, <2>2, SameExplained
<1>2. CASE CommitRegister(r) \/ Activate(r) \/ SaveFactor(r)
  <2>1. /\ grants' = grants /\ req[r].pc \in {"commitRegister", "activate", "saveFactor"}
        /\ \A p \in Request \ {r} : req'[p] = req[p]
    BY <1>0, <1>2 DEF CommitRegister, Activate, SaveFactor, Goto, Done, At
  <2>2. Live(g) => accounts'[grants[g].user].password = accounts[grants[g].user].password
    BY <1>0, <1>2 DEF CommitRegister, Activate, SaveFactor, At, Holds, Known, AccountRow
  <2>3. \A p \in Request : WillEnd(p, g) => WillEnd(p, g)'
    BY <2>1 DEF WillEnd, At
  <2>4. QED BY <2>1, <2>2, <2>3, StillExplained DEF Live, Stale
<1>3. CASE Issue(r) \/ IssueProvider(r)
  <2>1. PICK b \in BOOLEAN : OpensGrant(r, b)
    BY <1>3 DEF Issue, IssueProvider
  <2>2. PICK k \in FreeGrants :
          grants' = [grants EXCEPT ![k] =
            [state |-> "live", user |-> req[r].user, password |-> req[r].password,
             provider |-> b, excused |-> Unseen(req[r].user, req[r].password)]]
    BY <2>1 DEF OpensGrant
  <2>3. /\ UNCHANGED accounts /\ req[r].pc \in {"issue", "issueProvider"}
        /\ \A p \in Request \ {r} : req'[p] = req[p] /\ SameButRows(req[p], req'[p])
    BY <1>0, <1>3 DEF Issue, IssueProvider, Done, At, SameButRows
  <2>4. CASE k = g
    BY <1>0, <2>2, <2>3, <2>4, InsertedExplained
  <2>5. CASE k # g
    BY <1>0, <2>2, <2>3, <2>5, SameExplained DEF WillEnd, At
  <2>6. QED BY <2>4, <2>5
<1>4. CASE Rotate(r)
  <2>1. /\ UNCHANGED accounts /\ req[r].pc = "rotate"
        /\ \A p \in Request \ {r} : req'[p] = req[p]
        /\ grants' = [grants EXCEPT ![req[r].grant].state = "rotating"]
    BY <1>0, <1>4 DEF Rotate, At
  <2>2. CASE req[r].grant = g
    BY <1>0, <2>1, <2>2 DEF Explained, Live, GrantRow
  <2>3. CASE req[r].grant # g
    BY <1>0, <2>1, <2>3, SameExplained DEF WillEnd, At
  <2>4. QED BY <2>2, <2>3
<1>5. CASE SignAccess(r)
  <2> DEFINE k == req[r].grant
  <2>1. /\ UNCHANGED accounts /\ req[r].pc = "signAccess"
        /\ grants' = [grants EXCEPT ![k].state = "live",
                                    ![k].excused = @ \/ Unseen(req[r].user, req[r].password)]
    BY <1>5 DEF SignAccess, At
  <2>2. \A p \in Request \ {r} :
           SameButRows(req[p], req'[p]) /\ req'[p].rows = req[p].rows \ {k}
    BY <1>0, <1>5 DEF SignAccess, SameButRows, RequestState
  <2>3. /\ k \in Grant /\ grants[k].user = req[r].user /\ grants[k].password = req[r].password
    BY <1>0, <2>1 DEF Holds
  <2> HIDE DEF k
  <2>4. CASE k = g
    <3>1. /\ grants'[g].user = grants[g].user /\ grants'[g].password = grants[g].password
          /\ Unseen(req[r].user, req[r].password) => grants'[g].excused
      BY <1>0, <2>1, <2>4 DEF GrantRow
    <3>2. QED BY <2>1, <2>2, <2>3, <2>4, <3>1, InsertedExplained
  <2>5. CASE k # g
    <3>1. grants'[g] = grants[g]
      BY <1>0, <2>1, <2>5
    <3>2. \A p \in Request : WillEnd(p, g) => WillEnd(p, g)'
      BY <2>1, <2>2, <2>5, <3>1 DEF WillEnd, At, SameButRows
    <3>3. QED BY <2>1, <3>1, <3>2, StillExplained DEF Live, Stale
  <2>6. QED BY <2>4, <2>5
<1>6. CASE CommitPassword(r)
  <2>1. /\ grants' = grants /\ req[r].pc = "commitPassword"
        /\ accounts' = [accounts EXCEPT ![req[r].user].password = @ + 1,
                                        ![req[r].user].secret = @ + 1]
        /\ \A p \in Request \ {r} : req'[p] = req[p]
        /\ req'[r].pc = "mailChange" /\ req'[r].user = req[r].user
    BY <1>6, Goes DEF CommitPassword, At, Pc
  <2>2. CASE Live(g) /\ grants[g].user = req[r].user
    BY <2>1, <2>2 DEF Explained, WillEnd, At
  <2>3. CASE ~Live(g)
    BY <2>1, <2>3 DEF Explained, Live
  <2>4. CASE Live(g) /\ grants[g].user # req[r].user
    <3>1. accounts'[grants[g].user].password = accounts[grants[g].user].password
      BY <1>0, <2>1, <2>4
    <3>2. \A p \in Request : WillEnd(p, g) => WillEnd(p, g)'
      BY <2>1 DEF WillEnd, At
    <3>3. QED BY <2>1, <3>1, <3>2, StillExplained DEF Live, Stale
  <2>5. QED BY <2>2, <2>3, <2>4
<1>7. CASE SelectGrants(r)
  <2>1. /\ UNCHANGED <<accounts, grants>> /\ req[r].pc = "mailChange"
        /\ \A p \in Request \ {r} : req'[p] = req[p]
        /\ req'[r].pc = "revokeGrants" /\ req'[r].user = req[r].user
        /\ req'[r].rows = {k \in Grant : Live(k) /\ grants[k].user = req[r].user}
    BY <1>0, <1>7 DEF SelectGrants, At, RequestState
  <2>2. CASE Live(g)
    BY <2>1, <2>2, SameExplained DEF WillEnd, At
  <2>3. CASE ~Live(g)
    BY <2>1, <2>3 DEF Explained, Live
  <2>4. QED BY <2>2, <2>3
<1>8. CASE RevokeGrants(r)
  <2>1. /\ UNCHANGED accounts /\ req[r].pc = "revokeGrants"
        /\ \A p \in Request \ {r} : req'[p] = req[p]
        /\ grants'[g] = IF g \in req[r].rows /\ Live(g) THEN [grants[g] EXCEPT !.state = "ended"]
                                                         ELSE grants[g]
    BY <1>0, <1>8 DEF RevokeGrants, At, Done
  <2>2. CASE g \in req[r].rows /\ Live(g)
    BY <1>0, <2>1, <2>2 DEF Explained, Live, GrantRow
  <2>3. CASE ~Live(g)
    BY <2>1, <2>3 DEF Explained, Live
  <2>4. CASE g \notin req[r].rows
    BY <2>1, <2>4, SameExplained DEF WillEnd, At
  <2>5. QED BY <2>2, <2>3, <2>4
<1>9. QED BY <1>1, <1>2, <1>3, <1>4, <1>5, <1>6, <1>7, <1>8

\* A change that is cut short excuses the sessions it would have ended.
LEMMA FaultExplained ==
    ASSUME Inv, NEW S \in SUBSET Request, grants' = Excuse(UNION {Cut(r) : r \in S}),
           UNCHANGED accounts, \A p \in Request \ S : req'[p] = req[p],
           NEW g \in Grant, Explained(g)
    PROVE  Explained(g)'
<1>1. /\ grants'[g].state = grants[g].state /\ grants'[g].user = grants[g].user
      /\ grants'[g].password = grants[g].password
      /\ grants'[g].excused <=> grants[g].excused \/ g \in UNION {Cut(r) : r \in S}
  BY Excused
<1>2. \A p \in S : Live(g) /\ WillEnd(p, g) => g \in Cut(p)
  BY DEF WillEnd, Cut, Live, At
<1>3. \A p \in Request \ S : WillEnd(p, g) => WillEnd(p, g)'
  BY <1>1 DEF WillEnd, At
<1>4. QED BY <1>1, <1>2, <1>3, StillExplained DEF Live, Stale

LEMMA NextExplained ==
    Inv /\ InStep /\ StaleGrantExplained /\ [Next]_vars => StaleGrantExplained'
<1> SUFFICES ASSUME Inv, Next, NEW g \in Grant, Explained(g) PROVE Explained(g)'
  BY DEF StaleGrantExplained, Explained, vars, Live, Stale, WillEnd, At
<1>1. ASSUME NEW r \in Request, Fail(r) PROVE Explained(g)'
  <2>1. grants' = Excuse(UNION {Cut(q) : q \in {r}})
    BY <1>1, UNION {Cut(q) : q \in {r}} = Cut(r) DEF Fail
  <2>2. UNCHANGED accounts /\ \A p \in Request \ {r} : req'[p] = req[p]
    BY <1>1 DEF Fail, Done, Inv
  <2>3. QED BY <2>1, <2>2, FaultExplained
<1>2. CASE Crash
  BY <1>2, FaultExplained DEF Crash
<1>3. CASE UNCHANGED <<accounts, grants, req>>
  BY <1>3 DEF Explained, Live, Stale, WillEnd, At
<1>4. QED
  BY <1>1, <1>2, <1>3, StartExplained, StepExplained DEF Next, Expire, ExpireAccess

\* A session whose sign-in read the account under an earlier password is there
\* only when its token was inserted by a request that overlapped the change, the
\* change was cut short between its COMMIT and its logout, or the logout is about
\* to end it - be the sign-in a login, a verify2fa or a provider's.
THEOREM StaleExplained == Spec => []StaleGrantExplained
<1>1. Init => Inv /\ InStep /\ StaleGrantExplained
  BY InitInv
<1>2. Inv /\ InStep /\ StaleGrantExplained /\ [Next]_vars
         => (Inv /\ InStep /\ StaleGrantExplained)'
  BY NextInv, NextInStep, NextExplained
<1>3. QED BY <1>1, <1>2, PTL DEF Spec

-----------------------------------------------------------------------------
(* The links implement OneTimeCodes.                                       *)

\* The link a registration has mailed and not committed is no one else's, so the
\* row its COMMIT writes is a new one.
Reserves(r) == At(r, "commitRegister")

Reserved ==
    \A r \in Request : Reserves(r) =>
        ~Row(req[r].link) /\ \A p \in Request \ {r} : req[p].link # req[r].link

\* A link a request comes to hold is free, or stored.
LEMMA NewlyLinked ==
    ASSUME Inv, [Next]_vars, NEW r \in Request
    PROVE  \/ req'[r].link = None /\ ~Reserves(r)'
           \/ req'[r].link = req[r].link /\ (Reserves(r)' => Reserves(r))
           \/ /\ req'[r].link \in FreeLinks
              /\ \A p \in Request \ {r} : req'[p] = req[p]
           \/ req'[r].link \in Link /\ Row(req'[r].link) /\ ~Reserves(r)'
<1>0. req \in [Request -> RequestState]
  BY DEF Inv
<1> DEFINE Result ==
      \/ req'[r].link = None /\ ~Reserves(r)'
      \/ req'[r].link = req[r].link /\ (Reserves(r)' => Reserves(r))
      \/ req'[r].link \in FreeLinks /\ \A p \in Request \ {r} : req'[p] = req[p]
      \/ req'[r].link \in Link /\ Row(req'[r].link) /\ ~Reserves(r)'
<1> USE DEF Reserves, At
<1>1. ASSUME NEW q \in Request, Done(q) PROVE Result
  BY <1>0, <1>1 DEF Done, Idle
<1>2. ASSUME NEW q \in Request, NEW label \in Pc, Goto(q, label), label # "commitRegister"
      PROVE  Result
  BY <1>0, <1>2, Goes
<1>3. ASSUME NEW q \in Request, Start(q) PROVE Result
  <2>1. ASSUME NEW u \in User, InsertLink(q, u) PROVE Result
    BY <1>0, <2>1 DEF InsertLink, Carries, Idle
  <2>2. ASSUME NEW k \in Link, OpenVerification(q, k) PROVE Result
    BY <1>0, <2>2 DEF OpenVerification, Carries, Opens, Row, Idle
  <2>3. ASSUME NEW k \in Link, OpenReset(q, k) PROVE Result
    BY <1>0, <2>3 DEF OpenReset, Carries, Opens, Row, Idle
  <2>4. CASE r # q \/ (req'[q].link = None /\ req'[q].pc # "commitRegister")
    BY <1>3, <2>4, Starts
  <2> HIDE DEF Result
  <2>5. QED BY <1>3, <2>1, <2>2, <2>3, <2>4, Starts
<1>4. ASSUME NEW q \in Request, InsertUser(q) PROVE Result
  <2>1. CASE \E k \in FreeLinks : req' = [req EXCEPT ![q].pc = "commitRegister", ![q].link = k]
    BY <1>0, <2>1
  <2>2. QED BY <1>1, <1>4, <2>1 DEF InsertUser
<1>5. ASSUME NEW q \in Request, AskFactor(q) \/ CheckFactor(q) PROVE Result
  BY <1>1, <1>2, <1>5 DEF AskFactor, CheckFactor, Pc
<1>6. ASSUME NEW q \in Request, Rotate(q) \/ SelectGrants(q) PROVE Result
  <2>1. CASE Rotate(q)
    BY <1>0, <2>1 DEF Rotate, RequestState
  <2>2. CASE SelectGrants(q)
    BY <1>0, <2>2 DEF SelectGrants, RequestState
  <2>3. QED BY <1>6, <2>1, <2>2
<1>7. ASSUME NEW q \in Request, SignAccess(q) PROVE Result
  <2>1. req'[r] = IF r = q THEN Idle ELSE [req[r] EXCEPT !.rows = @ \ {req[q].grant}]
    BY <1>7 DEF SignAccess
  <2>2. CASE r = q
    BY <2>1, <2>2 DEF Idle
  <2>3. CASE r # q
    BY <1>0, <2>1, <2>3 DEF RequestState
  <2>4. QED BY <2>2, <2>3
<1>8. ASSUME NEW q \in Request, Step(q) PROVE Result
  <2>1. ASSUME UpdateCredential(q) \/ CommitPassword(q) \/ Activate(q) PROVE Result
    BY <1>2, <2>1 DEF UpdateCredential, CommitPassword, Activate, Pc
  <2> HIDE DEF Result
  <2>2. QED
    BY <1>1, <1>4, <1>5, <1>6, <1>7, <1>8, <2>1
    DEF Step, CommitRegister, MarkUsed, MailLink, SaveFactor, Issue, IssueProvider, RevokeGrants
<1>9. ASSUME Crash PROVE Result
  BY <1>9 DEF Crash, Idle
<1>10. ASSUME UNCHANGED req PROVE Result
  BY <1>10
<1> HIDE DEF Result
<1>11. ASSUME NEW q \in Request, Fail(q) PROVE Result
  BY <1>1, <1>11 DEF Fail
<1>12. ASSUME Next PROVE Result
  BY <1>3, <1>8, <1>9, <1>10, <1>11, <1>12 DEF Next, Expire, ExpireAccess
<1>13. Result
  BY <1>10, <1>12 DEF vars
<1>14. QED BY <1>13 DEF Result

\* The links a step stores are those of a registration or of a reset request.
LEMMA NewlyStored ==
    ASSUME Inv, [Next]_vars, NEW l \in Link, Row(l)', ~Row(l)
    PROVE  \E q \in Request : \/ CommitRegister(q) /\ l = req[q].link
                              \/ l \in FreeLinks /\ \E u \in User : InsertLink(q, u)
<1>0. links \in [Link -> LinkRow]
  BY DEF Inv, RowsTyped
<1>1. ASSUME NEW q \in Request, NEW u \in User, InsertLink(q, u) PROVE l \in FreeLinks
  BY <1>0, <1>1 DEF InsertLink, Row
<1>2. ASSUME NEW q \in Request, CommitRegister(q) PROVE l = req[q].link
  BY <1>0, <1>2 DEF CommitRegister, Row
<1>3. ASSUME NEW k \in Link, Expire(k) PROVE FALSE
  BY <1>0, <1>3 DEF Expire, Row
<1>4. ASSUME NEW q \in Request, MarkUsed(q) PROVE FALSE
  <2>1. req[q].link \in Link /\ Row(req[q].link)
    BY <1>4 DEF MarkUsed, At, Inv, Holds
  <2>2. QED BY <1>0, <1>4, <2>1 DEF MarkUsed, Row
<1>5. ASSUME NEW q \in Request, CommitPassword(q) PROVE FALSE
  <2>1. req[q].link # None => req[q].link \in Link /\ Row(req[q].link)
    BY <1>5 DEF CommitPassword, At, Inv, Holds, RequestState
  <2>2. QED BY <1>0, <1>5, <2>1 DEF CommitPassword, Row, LinkRow
<1>6. links' # links
  BY DEF Row
<1>7. ASSUME NEW q \in Request, Step(q) PROVE CommitRegister(q)
  BY <1>4, <1>5, <1>6, <1>7
  DEF Step, InsertUser, Activate, MailLink, AskFactor, CheckFactor, Issue, IssueProvider,
      SaveFactor, Rotate, SignAccess, UpdateCredential, SelectGrants, RevokeGrants
<1>8. QED
  BY <1>1, <1>2, <1>3, <1>6, <1>7, Starts DEF Next, Fail, Crash, ExpireAccess, vars

LEMMA NextReserved == Inv /\ Reserved /\ [Next]_vars => Reserved'
<1> SUFFICES ASSUME Inv, Reserved, [Next]_vars, NEW r \in Request, Reserves(r)'
             PROVE  links'[req'[r].link].state = "absent" /\ \A p \in Request \ {r} : req'[p].link # req'[r].link
  BY DEF Reserved, Row
<1> DEFINE l == req'[r].link
<1>0. /\ req \in [Request -> RequestState]
      /\ \A q \in Request : Reserves(q) => req[q].link \in Link /\ ~Row(req[q].link)
      /\ \A q \in Request, p \in Request : Reserves(q) /\ p # q => req[p].link # req[q].link
      /\ \A k \in FreeLinks : k \in Link /\ ~Row(k) /\ \A p \in Request : req[p].link # k
      /\ None \notin Link
  BY PasswordsAssumption DEF Inv, Holds, Reserved, Reserves, At, FreeLinks, Row
<1>1. CASE l = req[r].link /\ Reserves(r)
  <2>1. l \in Link /\ ~Row(l)
    BY <1>0, <1>1
  <2>2. links'[l].state = "absent"
    <3>1. ASSUME NEW q \in Request, CommitRegister(q), l = req[q].link PROVE FALSE
      <4>1. Reserves(q)
        BY <3>1 DEF CommitRegister, At, Reserves
      <4>2. q = r
        BY <1>0, <1>1, <3>1, <4>1
      <4>3. QED BY <1>0, <3>1, <4>2 DEF CommitRegister, Done, Idle, Reserves
    <3>2. PICK k \in Link : k = l /\ ~Row(k)
      BY <2>1 DEF Row
    <3>3. Row(k)' => \E q \in Request : \/ CommitRegister(q) /\ k = req[q].link
                                        \/ k \in FreeLinks /\ \E u \in User : InsertLink(q, u)
      BY <3>2, NewlyStored
    <3>4. QED BY <1>0, <1>1, <3>1, <3>2, <3>3 DEF Row
  <2>3. ASSUME NEW p \in Request \ {r} PROVE req'[p].link # l
    BY <1>0, <1>1, <2>1, NewlyLinked
  <2>4. QED BY <2>2, <2>3
<1>2. CASE l \in FreeLinks /\ \A p \in Request \ {r} : req'[p] = req[p]
  <2>1. PICK k \in FreeLinks : k = l
    BY <1>2
  <2>2. ~Row(k)'
    <3>1. ASSUME NEW q \in Request, NEW u \in User, InsertLink(q, u) PROVE q = r /\ ~Reserves(r)'
      <4>1. req[q].pc = "idle" /\ req'[q].pc = "mailLink"
        BY <1>0, <3>1 DEF InsertLink, Carries, At, Idle
      <4>2. QED BY <1>2, <4>1 DEF Reserves, At
    <3>2. QED BY <1>0, <2>1, <3>1, NewlyStored
  <2>3. QED BY <1>0, <1>2, <2>1, <2>2 DEF Row
<1>3. QED BY <1>1, <1>2, NewlyLinked

Status == [l \in Link |->
             CASE links[l].state = "fresh" -> "good"
               [] links[l].state = "absent" -> "absent"
               [] OTHER -> "over"]
Uses == [l \in Link |-> links[l].uses]

\* The pairs that are held, by request and link.
LEMMA HeldPairs ==
    ASSUME Inv, Inv'
    PROVE  /\ Held = {x \in Request \X Link : Resetting(x[1], x[2])}
           /\ Held' = {x \in Request \X Link : Resetting(x[1], x[2])'}
<1>1. /\ \A r \in Request : req[r].link \in Link \cup {None}
      /\ \A r \in Request : req'[r].link \in Link \cup {None}
      /\ None \notin Link
  BY PasswordsAssumption DEF Inv, RequestState
<1>2. Held = {x \in Request \X Link : Resetting(x[1], x[2])}
  BY <1>1 DEF Held, Resetting
<1>3. Held' = {x \in Request \X Link : Resetting(x[1], x[2])'}
  BY <1>1 DEF Held, Resetting
<1>4. QED BY <1>2, <1>3

\* A step that keeps states and uses, and brings no one to the use of a link,
\* is a stutter of the codes, or drops some.
LEMMA QuietCodes ==
    ASSUME Inv, Inv', UNCHANGED <<Status, Uses>>,
           \A p \in Request, l \in Link : Resetting(p, l)' => Resetting(p, l)
    PROVE  Codes!Next
<1>1. Held' \subseteq Held
  BY HeldPairs
<1>2. PICK S \in SUBSET Held : Held' = Held \ S
  <2>1. (Held \ Held') \in SUBSET Held /\ Held' = Held \ (Held \ Held')
    BY <1>1
  <2>2. QED BY <2>1
<1>3. Codes!Drop(S)
  BY <1>2 DEF Codes!Drop, Status, Uses
<1>4. QED BY <1>3 DEF Codes!Next

\* r does not use a link after its step, and the others do what they did.
LEMMA HeldByOthers ==
    ASSUME NEW r \in Request, \A p \in Request \ {r} : req'[p] = req[p],
           req'[r].pc \notin {"updateCredential", "commitPassword"} \/ req'[r].link = None
    PROVE  /\ Held' = Held \ {<<r, req[r].link>>}
           /\ req[r].pc \notin {"updateCredential", "commitPassword"} \/ req[r].link = None
                => Held' = Held
BY DEF Held

LEMMA Issues ==
    ASSUME Inv, NEW l \in Link, NEW row \in LinkRow, ~Row(l), links[l].uses = 0,
           row.state = "fresh", row.uses = 0,
           links' = [links EXCEPT ![l] = row], Held' = Held
    PROVE  Codes!Next
<1>1. Status[l] = "absent"
  BY DEF Status, Row
<1>2. Status' = [Status EXCEPT ![l] = "good"]
  BY DEF Status, Inv, RowsTyped
<1>3. Uses' = Uses
  BY DEF Uses, Inv, RowsTyped
<1>4. Codes!Issue(l)
  BY <1>1, <1>2, <1>3 DEF Codes!Issue, Status, Uses
<1>5. QED BY <1>4 DEF Codes!Next

\* A row that is not there has no uses.
LEMMA AbsentUnused ==
    ASSUME LinkUses, NEW l \in Link, ~Row(l)
    PROVE  links[l].uses = 0
BY FS_EmptySet DEF LinkUses, Row

LEMMA NextCodes ==
    ASSUME Inv, Inv', LinkUses, Reserved, [Next]_vars
    PROVE  Codes!Next \/ UNCHANGED <<Status, Held, Uses>>
<1>0. /\ req \in [Request -> RequestState] /\ links \in [Link -> LinkRow] /\ None \notin Link
      /\ \A r \in Request : Holds(req[r])
  BY PasswordsAssumption DEF Inv, RowsTyped
<1>1. ASSUME UNCHANGED links, (\E r \in Request : Step(r) \/ Fail(r)) \/ Crash \/ UNCHANGED req
      PROVE  Codes!Next
  <2>1. UNCHANGED <<Status, Uses>>
    BY <1>1 DEF Status, Uses
  <2>2. QED BY <1>1, <2>1, StillResetting, QuietCodes
<1>2. ASSUME NEW r \in Request, NEW l \in Link, OpenReset(r, l) PROVE Codes!Next
  <2>1. UNCHANGED <<Status, Uses>>
    BY <1>2 DEF OpenReset, Status, Uses
  <2>2. \A p \in Request \ {r} : req'[p] = req[p]
    BY <1>0, <1>2 DEF OpenReset, Carries
  <2>3. /\ links[l].state = "fresh" /\ req[r].pc = "idle"
        /\ req'[r].pc = "updateCredential" /\ req'[r].link = l
    BY <1>0, <1>2 DEF OpenReset, Carries, Opens, Idle, At
  <2>4. Status[l] = "good" /\ \A k \in Link : <<r, k>> \notin Held
    BY <2>3 DEF Status, Held
  <2>5. Held' = Held \cup {<<r, l>>}
    BY <1>0, <2>2, <2>3 DEF Held
  <2>6. Codes!Take(r, l)
    BY <2>1, <2>4, <2>5 DEF Codes!Take, Status, Uses
  <2>7. QED BY <2>6 DEF Codes!Next
<1>3. ASSUME NEW r \in Request, CommitRegister(r) PROVE Codes!Next
  <2>1. PICK l \in Link, u \in User : l = req[r].link /\ u = req[r].user /\ ~Row(l)
    BY <1>0, <1>3 DEF CommitRegister, At, Holds, Reserved, Reserves
  <2> DEFINE row == [NoLink EXCEPT !.state = "fresh", !.user = u]
  <2>2. row \in LinkRow /\ row.state = "fresh" /\ row.uses = 0
    <3>1. row \in LinkRow /\ row.state = "fresh"
      BY <2>1, Stored
    <3>2. row.uses = 0
      BY DEF NoLink
    <3>3. QED BY <3>1, <3>2
  <2>3. links' = [links EXCEPT ![l] = row]
    BY <1>3, <2>1 DEF CommitRegister
  <2>4. Held' = Held
    BY <1>0, <1>3, HeldByOthers DEF CommitRegister, Done, Idle, At
  <2> HIDE DEF row
  <2>5. QED BY <2>1, <2>2, <2>3, <2>4, AbsentUnused, Issues
<1>4. ASSUME NEW r \in Request, NEW u \in User, InsertLink(r, u) PROVE Codes!Next
  <2> DEFINE row == [NoLink EXCEPT !.state = "fresh", !.user = u]
  <2>1. PICK l \in FreeLinks : links' = [links EXCEPT ![l] = row] /\ Carries(r, u, l, "mailLink")
    BY <1>4 DEF InsertLink
  <2>2. row \in LinkRow /\ row.state = "fresh" /\ row.uses = 0
    <3>1. row \in LinkRow /\ row.state = "fresh"
      BY Stored
    <3>2. row.uses = 0
      BY DEF NoLink
    <3>3. QED BY <3>1, <3>2
  <2>3. l \in Link /\ ~Row(l)
    BY DEF FreeLinks, Row
  <2>4. Held' = Held
    <3>1. req[r].pc = "idle" /\ req'[r].pc = "mailLink" /\ \A p \in Request \ {r} : req'[p] = req[p]
      BY <1>0, <1>4, <2>1 DEF InsertLink, Carries, At, Idle
    <3>2. QED BY <3>1, HeldByOthers
  <2> HIDE DEF row
  <2>5. QED BY <2>1, <2>2, <2>3, <2>4, AbsentUnused, Issues
<1>5. ASSUME NEW r \in Request, MarkUsed(r) PROVE Codes!Next
  <2>1. PICK l \in Link : l = req[r].link /\ Row(l)
    BY <1>0, <1>5 DEF MarkUsed, At, Holds
  <2>2. links' = [links EXCEPT ![l].state = "used"]
    BY <1>5, <2>1 DEF MarkUsed
  <2>3. Status' = [k \in Link |-> IF k \in {l} THEN "over" ELSE Status[k]]
    BY <1>0, <2>2 DEF Status, LinkRow
  <2>4. Uses' = Uses
    BY <1>0, <2>2 DEF Uses, LinkRow
  <2>5. Held' = Held
    <3>1. req[r].pc = "markUsed" /\ req'[r].pc = "idle" /\ \A p \in Request \ {r} : req'[p] = req[p]
      BY <1>0, <1>5 DEF MarkUsed, Done, Idle, At
    <3>2. QED BY <3>1, HeldByOthers
  <2>6. {l} \in SUBSET Link /\ \A k \in {l} : Status[k] # "absent"
    BY <1>0, <2>1 DEF Row, Status, LinkRow
  <2>7. Codes!Close({l})
    BY <2>3, <2>4, <2>5, <2>6 DEF Codes!Close, Status, Uses
  <2>8. QED BY <2>6, <2>7 DEF Codes!Next
<1>6. ASSUME NEW r \in Request, CommitPassword(r), req[r].link # None PROVE Codes!Next
  <2>1. PICK l \in Link : l = req[r].link /\ Row(l)
    BY <1>0, <1>6 DEF CommitPassword, At, Holds, RequestState
  <2>2. links' = [links EXCEPT ![l].state = "used", ![l].by = @ \cup {r}, ![l].uses = @ + 1]
    BY <1>6, <2>1 DEF CommitPassword
  <2>3. /\ links'[l].state = "used" /\ links'[l].uses = links[l].uses + 1
        /\ \A k \in Link \ {l} : links'[k] = links[k]
    BY <1>0, <2>2 DEF LinkRow
  <2>4. Status' = [Status EXCEPT ![l] = "over"]
    BY <2>3 DEF Status
  <2>5. Uses' = [Uses EXCEPT ![l] = Uses[l] + 1]
    BY <2>3 DEF Uses
  <2>6. <<r, l>> \in Held /\ Held' = Held \ {<<r, l>>}
    <3>1. req[r].pc = "commitPassword" /\ req'[r].pc = "mailChange" /\ \A p \in Request \ {r} : req'[p] = req[p]
      BY <1>0, <1>6 DEF CommitPassword, Goto, At, RequestState
    <3>2. Held' = Held \ {<<r, l>>}
      BY <2>1, <3>1, HeldByOthers
    <3>3. QED BY <1>6, <2>1, <3>1, <3>2 DEF Held
  <2>7. Codes!Admit(r, l)
    BY <2>4, <2>5, <2>6 DEF Codes!Admit, Status, Uses
  <2>8. QED BY <2>7 DEF Codes!Next
<1>7. ASSUME NEW l \in Link, Expire(l) PROVE Codes!Next
  <2>1. links[l].state = "fresh" /\ links' = [links EXCEPT ![l].state = "expired"] /\ req' = req
    BY <1>7 DEF Expire
  <2>2. Status' = [k \in Link |-> IF k \in {l} THEN "over" ELSE Status[k]]
    BY <1>0, <2>1 DEF Status, LinkRow
  <2>3. Uses' = Uses
    BY <1>0, <2>1 DEF Uses, LinkRow
  <2>4. Held' = Held
    BY <2>1 DEF Held
  <2>5. {l} \in SUBSET Link /\ \A k \in {l} : Status[k] # "absent"
    BY <2>1 DEF Status
  <2>6. Codes!Close({l})
    BY <2>2, <2>3, <2>4, <2>5 DEF Codes!Close, Status, Uses
  <2>7. QED BY <2>5, <2>6 DEF Codes!Next
<1>8. ASSUME NEW r \in Request, Start(r) PROVE Codes!Next
  <2>1. CASE UNCHANGED links /\ ~ \E l \in Link : OpenReset(r, l)
    <3>1. UNCHANGED <<Status, Uses>>
      BY <2>1 DEF Status, Uses
    <3>2. \A l \in Link : OpenVerification(r, l) => req'[r].pc = "activate"
      BY <1>0 DEF OpenVerification, Carries, Idle
    <3>3. \A u \in User : InsertLink(r, u) => req'[r].pc = "mailLink"
      BY <1>0 DEF InsertLink, Carries, Idle
    <3>4. req'[r].pc \in {"activate", "mailLink"} \/ req'[r].link = None
      BY <1>8, <2>1, <3>2, <3>3, Starts
    <3>5. \A p \in Request, l \in Link : Resetting(p, l)' => Resetting(p, l)
      BY <1>0, <1>8, <3>4, Starts DEF Resetting
    <3>6. QED BY <3>1, <3>5, QuietCodes
  <2>2. QED BY <1>2, <1>4, <1>8, <2>1, Starts
<1>9. ASSUME NEW r \in Request, Step(r) PROVE Codes!Next
  BY <1>1, <1>3, <1>5, <1>6, <1>9
  DEF Step, InsertUser, Activate, MailLink, AskFactor, CheckFactor, Issue, IssueProvider,
      SaveFactor, Rotate, SignAccess, UpdateCredential, CommitPassword, SelectGrants, RevokeGrants
<1>10. CASE UNCHANGED vars
  BY <1>10 DEF vars, Status, Uses, Held
<1>11. QED
  BY <1>1, <1>7, <1>8, <1>9, <1>10 DEF Next, Fail, Crash, ExpireAccess

\* Refinement: the links that set passwords are one-time codes, however
\* registrations, verifications and resets interleave, fail and are cut short.
THEOREM CodesRefined == Spec => CodesSpec
<1>1. ASSUME Init PROVE Reserved /\ Codes!Init
  <2>1. Held = {} /\ Reserved
    BY <1>1 DEF Init, Held, Reserved, Reserves, At, Idle
  <2>2. QED BY <1>1, <2>1 DEF Init, NoLink, Codes!Init
<1>2. Init => Inv /\ InStep /\ LinkUses
  BY InitInv
<1>3. Inv /\ InStep /\ LinkUses /\ Reserved /\ [Next]_vars => (Inv /\ InStep /\ LinkUses /\ Reserved)'
  BY NextInv, NextInStep, NextLinkUses, NextReserved
<1>4. QED
  BY <1>1, <1>2, <1>3, NextCodes, PTL
  DEF Spec, CodesSpec, Codes!Spec, Codes!codes, Status, Uses

================================================================================
