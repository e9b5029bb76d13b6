-------------------------- MODULE AccountsRaceProofs --------------------------
(***************************************************************************)
(* What Accounts keeps as long as requests do not overlap: the properties  *)
(* that end in "unless they overlapped" hold because a request no other    *)
(* one has met is the only one in flight, so what it has read is still     *)
(* so when it writes.                                                      *)
(***************************************************************************)
EXTENDS AccountsProofs

-----------------------------------------------------------------------------
(* The invariant.                                                          *)

Alone == \A r \in Busy : r \notin met => Busy = {r}

\* What a request has read, and still is so when no other one has met it.
Untouched(r) ==
    /\ req[r].pc \in {"guardList", "guardSave"} => req[r].item \in Unrevoked
    /\ At(r, "reauthInsert") => \A t \in Unrevoked : reauth[t].user # req[r].by
    /\ req[r].pc \in {"linkInsert", "loginInsert"} => Rows(req[r].item) = {}
    /\ req[r].told => req[r].pc \in {"linkUser", "linkRow"} /\ Rows(req[r].item) # {}
    /\ req[r].pc \in {"roleSave", "updateCheck", "updateWrite"} => req[r].seen = users[req[r].user]
    /\ At(r, "updateWrite") => req[r].email = req[r].seen.email
    /\ At(r, "rollbackWrite") => req[r].seen = users[req[r].user] /\ ~req[r].seen.deleted

\* What ReAuthGuard knows of its token, overlapped or not.
GuardKnows(r) ==
    /\ req[r].pc \in {"guardFind", "guardList", "guardSave"}
          => req[r].item \in Token /\ Given(req[r].item)
    /\ At(r, "guardSave") => req[r].item \in req[r].rows \/ reauth[req[r].item].revoked

RaceInv == Alone /\ \A r \in Request : r \notin met => Untouched(r)

TokenInv == PassedTokenIsRevoked /\ OneLiveTokenUnlessRaced /\ \A r \in Request : GuardKnows(r)

AllInv == Inv /\ RaceInv /\ TokenInv /\ LinkOnlyByRace

-----------------------------------------------------------------------------
(* One request acts at a time.                                             *)

Acts(r) ==
    \/ Exit
    \/ /\ \A p \in Request \ {r} : req'[p] = req[p]
       /\ \/ At(r, "idle") /\ met' = IF Busy = {} THEN met ELSE met \cup Busy \cup {r}
          \/ ~At(r, "idle") /\ met' = met
          \/ ~At(r, "idle") /\ met' = met \ {r} /\ req'[r] = Idle

LEMMA DoneActs ==
    ASSUME Inv, NEW r \in Request, ~At(r, "idle"), Done(r)
    PROVE  Acts(r) /\ req'[r] = Idle
BY DEF Inv, Requests, Done, Acts

LEMMA GotoActs ==
    ASSUME Inv, NEW r \in Request, ~At(r, "idle"), NEW label, Goto(r, label)
    PROVE  /\ Acts(r) /\ met' = met /\ req'[r] = [req[r] EXCEPT !.pc = label]
           /\ req'[r].pc = label /\ req'[r].told = req[r].told
BY DEF Inv, Requests, RequestState, Goto, Acts

LEMMA StartActs ==
    ASSUME Inv, NEW r \in Request, NEW q, Start(r, q)
    PROVE  Acts(r) /\ req'[r] = q
BY DEF Inv, Requests, Start, Acts

LEMMA ExitActs == ASSUME NEW r \in Request, Exit PROVE Acts(r) /\ req'[r] = Idle
BY DEF Exit, Acts

\* The others are idle, or have met the one that acts.
LEMMA OthersMet ==
    ASSUME Inv, Alone, NEW r \in Request, Acts(r)
    PROVE  Alone' /\ \A p \in Request \ {r} : p \in met' \/ At(p, "idle")'
<1>1. CASE Exit
  BY <1>1 DEF Exit, Alone, Busy, At, Idle
<1>2. CASE ~Exit
  <2>1. \A p \in Request \ {r} : req'[p] = req[p]
    BY <1>2 DEF Acts
  <2>2. Busy' \ {r} = Busy \ {r}
    BY <2>1 DEF Busy, At
  <2>3. CASE At(r, "idle") /\ Busy = {}
    BY <1>2, <2>1, <2>2, <2>3 DEF Acts, Alone, Busy, At
  <2>4. CASE At(r, "idle") /\ Busy # {}
    BY <1>2, <2>1, <2>2, <2>4 DEF Acts, Alone, Busy, At
  <2>5. CASE ~At(r, "idle")
    <3>1. r \in Busy /\ \A p \in Busy \ {r} : p \in met
      BY <2>5 DEF Alone, Busy
    <3>2. \A p \in Busy' \ {r} : p \in met'
      BY <1>2, <2>2, <2>5, <3>1 DEF Acts
    <3>3. r \in Busy' /\ r \notin met' => met' = met
      BY <1>2, <2>5 DEF Acts, Busy, At, Idle
    <3>4. r \in Busy' /\ r \notin met' => Busy' = {r}
      BY <2>2, <3>1, <3>3 DEF Alone
    <3>5. Alone'
      BY <3>2, <3>4 DEF Alone
    <3>6. QED BY <3>2, <3>5 DEF Busy
  <2>6. QED BY <2>3, <2>4, <2>5
<1>3. QED BY <1>1, <1>2

LEMMA IdleUntouched == ASSUME NEW r \in Request, req'[r] = Idle PROVE Untouched(r)'
BY DEF Untouched, Idle, At

\* So only the one that acts matters.
LEMMA RaceStep ==
    ASSUME Inv, RaceInv, Inv', NEW r \in Request, Acts(r), r \notin met' => Untouched(r)'
    PROVE  RaceInv'
<1>1. Alone' /\ \A p \in Request \ {r} : p \in met' \/ At(p, "idle")'
  BY OthersMet DEF RaceInv
<1>2. ASSUME NEW p \in Request \ {r}, p \notin met' PROVE Untouched(p)'
  <2>1. req'[p] = Idle
    BY <1>1, <1>2 DEF Inv, Requests, At
  <2>2. QED BY <2>1, IdleUntouched
<1>3. QED BY <1>1, <1>2 DEF RaceInv

\* A request that has read nothing yet that has to stay.
Watched == {"guardList", "guardSave", "reauthInsert", "linkInsert", "loginInsert",
            "roleSave", "updateCheck", "updateWrite", "rollbackWrite"}

LEMMA Unwatched ==
    ASSUME NEW r \in Request, req'[r].pc \notin Watched, ~req'[r].told
    PROVE  Untouched(r)'
BY DEF Watched, Untouched, At

\* What a request of the acting kind does to its state.
Turns(r) == Acts(r) /\ (r \notin met' => Untouched(r)')

LEMMA DoneTurns == ASSUME Inv, NEW r \in Request, ~At(r, "idle"), Done(r) PROVE Turns(r)
BY DoneActs, IdleUntouched DEF Turns

LEMMA ExitTurns == ASSUME NEW r \in Request, Exit PROVE Turns(r)
BY ExitActs, IdleUntouched DEF Turns

LEMMA StartTurns ==
    ASSUME Inv, NEW r \in Request, NEW q, Start(r, q), q.pc \notin Watched, ~q.told
    PROVE  Turns(r)
BY StartActs, Unwatched DEF Turns

\* A request that goes on to a state nothing has to be known of.
LEMMA StepTurns ==
    ASSUME Inv, RaceInv, NEW r \in Request, ~At(r, "idle"),
           req[r].pc # "linkRow", req[r].pc # "linkUser",
           NEW q, req' = [req EXCEPT ![r] = q], met' = met,
           q.pc \notin Watched, q.told = req[r].told
    PROVE  Turns(r)
<1>1. req'[r] = q /\ Acts(r)
  BY DEF Inv, Requests, Acts
<1>2. r \notin met' => ~req[r].told
  BY DEF RaceInv, Untouched
<1>3. QED BY <1>1, <1>2, Unwatched DEF Turns

-----------------------------------------------------------------------------
(* The handlers, one by one.                                               *)

LEMMA EmailTurns ==
    ASSUME Inv, RaceInv, NEW r \in Request, EmailStart(r) \/ EmailStep(r), UNCHANGED oauthVars
    PROVE  Turns(r)
<1> USE DEF At
<1>a. req \in [Request -> RequestState] /\ req[r] \in RequestState
  BY DEF Inv, Requests
<1>u. r \notin met => Untouched(r)
  BY DEF RaceInv
<1>1. ASSUME NEW by \in User, NEW u \in User, NEW e \in Email \cup {None}, Update(r, by, u, e)
      PROVE  Turns(r)
  <2> DEFINE q == [Idle EXCEPT !.pc = "update", !.email = e, !.by = by, !.user = u]
  <2>1. Start(r, q)
    BY <1>1 DEF Update, Call, Idle
  <2>2. q.pc \notin Watched /\ ~q.told
    BY DEF Idle, Watched
  <2>3. QED BY <2>1, <2>2, StartTurns
<1>2. ASSUME NEW c \in Change, Confirm(r, c) PROVE Turns(r)
  <2> DEFINE q == [Idle EXCEPT !.pc = "confirmBegin", !.user = changes[c].user, !.item = c]
  <2>1. Start(r, q)
    BY <1>2 DEF Confirm
  <2>2. q.pc \notin Watched /\ ~q.told
    BY DEF Idle, Watched
  <2>3. QED BY <2>1, <2>2, StartTurns
<1>3. ASSUME NEW l \in Log, Rollback(r, l) PROVE Turns(r)
  <2> DEFINE v == logs[l].user
             q == [Idle EXCEPT !.pc = "rollbackWrite", !.user = v, !.item = l, !.seen = users[v]]
  <2>1. Start(r, q) /\ ~users[v].deleted /\ users' = users
    BY <1>3 DEF Rollback, Visible, KeepRows
  <2>2. /\ q.pc = "rollbackWrite" /\ ~q.told /\ q.user = v /\ q.seen = users[v]
    BY DEF Idle
  <2>3. Acts(r) /\ req'[r] = q
    BY <2>1, StartActs
  <2> HIDE DEF q
  <2>4. QED BY <2>1, <2>2, <2>3 DEF Turns, Untouched
<1>4. ASSUME UpdateFind(r) PROVE Turns(r)
  <2>1. CASE Exit
    BY <2>1, ExitTurns
  <2>2. CASE ~Exit
    <3> DEFINE q == [req[r] EXCEPT !.pc = "updateCheck", !.seen = users[req[r].user]]
    <3>1. /\ req' = [req EXCEPT ![r] = q] /\ met' = met /\ users' = users
          /\ req[r].pc = "update"
      BY <1>4, <2>2 DEF UpdateFind, KeepRows
    <3>2. /\ q.pc = "updateCheck" /\ q.told = req[r].told /\ q.user = req[r].user
          /\ q.seen = users[req[r].user]
      BY <1>a DEF RequestState
    <3> HIDE DEF q
    <3>3. req'[r] = q /\ Acts(r)
      BY <1>a, <3>1 DEF Acts
    <3>4. QED BY <1>u, <3>1, <3>2, <3>3 DEF Turns, Untouched
  <2>3. QED BY <2>1, <2>2
<1>5. ASSUME UpdateCheck(r) PROVE Turns(r)
  <2>0. req[r].pc = "updateCheck" /\ users' = users
    BY <1>5 DEF UpdateCheck, KeepRows
  <2>1. CASE Done(r)
    BY <2>0, <2>1, DoneTurns
  <2>2. CASE ~Done(r)
    <3>1. PICK label \in {"updateWrite", "updateMail"} :
            Goto(r, label) /\ (label = "updateWrite" => req[r].seen.email = req[r].email)
      BY <1>5, <2>2 DEF UpdateCheck
    <3>2. /\ Acts(r) /\ met' = met /\ req'[r].pc = label /\ req'[r].told = req[r].told
          /\ req'[r] = [req[r] EXCEPT !.pc = label]
      BY <2>0, <3>1, GotoActs
    <3>3. req'[r].seen = req[r].seen /\ req'[r].user = req[r].user /\ req'[r].email = req[r].email
      BY <1>a, <3>2 DEF RequestState
    <3>4. QED BY <1>u, <2>0, <3>1, <3>2, <3>3 DEF Turns, Untouched
  <2>3. QED BY <2>1, <2>2
<1>6. ASSUME UpdateWrite(r) \/ UpdateCommit(r) \/ ConfirmMail(r) \/ RollbackWrite(r) PROVE Turns(r)
  BY <1>6, DoneTurns DEF UpdateWrite, UpdateCommit, ConfirmMail, RollbackWrite
<1>7. ASSUME UpdateMail(r) PROVE Turns(r)
  <2>0. req[r].pc = "updateMail"
    BY <1>7 DEF UpdateMail
  <2>1. CASE Done(r)
    BY <2>0, <2>1, DoneTurns
  <2>2. CASE ~Done(r)
    <3>1. PICK c \in FreshChanges :
            req' = [req EXCEPT ![r].pc = "updateCommit", ![r].tx = TRUE, ![r].item = c] /\ met' = met
      BY <1>7, <2>2 DEF UpdateMail
    <3> DEFINE q == [req[r] EXCEPT !.pc = "updateCommit", !.tx = TRUE, !.item = c]
    <3>2. q.pc \notin Watched /\ q.told = req[r].told /\ req' = [req EXCEPT ![r] = q]
      BY <1>a, <3>1 DEF RequestState, Watched
    <3> HIDE DEF q
    <3>3. QED BY <2>0, <3>1, <3>2, StepTurns
  <2>3. QED BY <2>1, <2>2
<1>8. ASSUME ConfirmBegin(r) PROVE Turns(r)
  <2> DEFINE q == [req[r] EXCEPT !.pc = "confirmUser", !.tx = TRUE]
  <2>1. q.pc \notin Watched /\ q.told = req[r].told
    BY <1>a DEF RequestState, Watched
  <2>2. req[r].pc = "confirmBegin" /\ req' = [req EXCEPT ![r] = q] /\ met' = met
    BY <1>8, <1>a DEF ConfirmBegin, Enter
  <2> HIDE DEF q
  <2>3. QED BY <2>1, <2>2, StepTurns
<1>9. ASSUME ConfirmUser(r) PROVE Turns(r)
  <2>0. req[r].pc = "confirmUser"
    BY <1>9 DEF ConfirmUser
  <2>1. CASE Done(r)
    BY <2>0, <2>1, DoneTurns
  <2>2. CASE Goto(r, "confirmWrite")
    <3>1. Acts(r) /\ met' = met /\ req'[r].pc = "confirmWrite" /\ req'[r].told = req[r].told
      BY <2>0, <2>2, GotoActs
    <3>2. QED BY <1>u, <2>0, <3>1, Unwatched DEF Turns, Untouched, Watched
  <2>3. QED BY <1>9, <2>1, <2>2 DEF ConfirmUser
<1>10. ASSUME ConfirmWrite(r) PROVE Turns(r)
  <2>0. req[r].pc = "confirmWrite"
    BY <1>10 DEF ConfirmWrite
  <2>1. CASE Done(r)
    BY <2>0, <2>1, DoneTurns
  <2>2. CASE ~Done(r)
    <3>1. PICK l : req' = [req EXCEPT ![r].pc = "confirmMail", ![r].tx = FALSE, ![r].item = l]
                   /\ met' = met
      BY <1>10, <2>2 DEF ConfirmWrite
    <3> DEFINE q == [req[r] EXCEPT !.pc = "confirmMail", !.tx = FALSE, !.item = l]
    <3>2. q.pc \notin Watched /\ q.told = req[r].told /\ req' = [req EXCEPT ![r] = q]
      BY <1>a, <3>1 DEF RequestState, Watched
    <3> HIDE DEF q
    <3>3. QED BY <2>0, <3>1, <3>2, StepTurns
  <2>3. QED BY <2>1, <2>2
<1>11. QED
  BY <1>1, <1>2, <1>3, <1>4, <1>5, <1>6, <1>7, <1>8, <1>9, <1>10 DEF EmailStart, EmailStep

LEMMA OAuthTurns ==
    ASSUME Inv, RaceInv, NEW r \in Request, OAuthStart(r) \/ OAuthStep(r)
    PROVE  Turns(r)
<1> USE DEF At
<1>a. req \in [Request -> RequestState] /\ req[r] \in RequestState
  BY DEF Inv, Requests
<1>u. r \notin met => Untouched(r)
  BY DEF RaceInv
\* A step that only goes on.
<1>g. ASSUME NEW label \in Pc \ Watched, Goto(r, label),
             req[r].pc \notin {"idle", "linkUser", "linkRow"}
      PROVE  Turns(r)
  <2>1. Acts(r) /\ met' = met /\ req'[r].pc = label /\ req'[r].told = req[r].told
    BY <1>g, GotoActs
  <2>2. QED BY <1>g, <1>u, <2>1, Unwatched DEF Turns, Untouched
\* A step that goes on with a user or as a new one.
<1>m. ASSUME NEW q, req' = [req EXCEPT ![r] = q], met' = met, q.pc \notin Watched,
             q.told = req[r].told \/ ~q.told, req[r].pc \notin {"idle", "linkUser", "linkRow"}
      PROVE  Turns(r)
  <2>1. req'[r] = q /\ Acts(r)
    BY <1>a, <1>m DEF Acts
  <2>2. QED BY <1>m, <1>u, <2>1, Unwatched DEF Turns, Untouched
<1>1. ASSUME NEW i \in Identity, NEW e \in Email, OauthLogin(r, i, e) PROVE Turns(r)
  <2> DEFINE q == [Idle EXCEPT !.pc = "loginLink", !.tx = TRUE, !.item = i, !.email = e]
  <2>1. Start(r, q) /\ q.pc \notin Watched /\ ~q.told
    BY <1>1 DEF OauthLogin, Idle, Watched
  <2>2. QED BY <2>1, StartTurns
<1>2. ASSUME NEW u \in User, NEW i \in Identity, LinkProvider(r, u, i) PROVE Turns(r)
  <2>1. PICK told \in BOOLEAN :
          /\ told => Rows(i) # {}
          /\ Start(r, [Idle EXCEPT !.pc = "linkUser", !.user = u, !.item = i, !.told = told])
    BY <1>2 DEF LinkProvider
  <2> DEFINE q == [Idle EXCEPT !.pc = "linkUser", !.user = u, !.item = i, !.told = told]
  <2>2. q.pc = "linkUser" /\ q.told = told /\ q.item = i
    BY DEF Idle
  <2>3. Acts(r) /\ req'[r] = q
    BY <2>1, StartActs
  <2>4. Rows(i)' = Rows(i)
    BY <1>2 DEF LinkProvider, oauthVars, Rows
  <2> HIDE DEF q
  <2>5. QED BY <2>1, <2>2, <2>3, <2>4 DEF Turns, Untouched
<1>3. ASSUME NEW u \in User, UnlinkProvider(r, u) PROVE Turns(r)
  <2> DEFINE q == [Idle EXCEPT !.pc = "unlink", !.by = u, !.user = u]
  <2>1. Start(r, q)
    BY <1>3 DEF UnlinkProvider, Call, Idle
  <2>2. q.pc \notin Watched /\ ~q.told
    BY DEF Idle, Watched
  <2>3. QED BY <2>1, <2>2, StartTurns
<1>4. ASSUME LoginLink(r) PROVE Turns(r)
  <2>0. req[r].pc = "loginLink"
    BY <1>4 DEF LoginLink
  <2>1. CASE Goto(r, "loginEmail")
    BY <1>g, <2>0, <2>1 DEF Pc, Watched
  <2>2. CASE ~Goto(r, "loginEmail")
    <3>1. PICK k \in Link : req' = [req EXCEPT ![r].pc = "loginRow", ![r].user = links[k].user]
                            /\ met' = met
      BY <1>4, <2>2 DEF LoginLink, Rows
    <3> DEFINE q == [req[r] EXCEPT !.pc = "loginRow", !.user = links[k].user]
    <3>2. q.pc \notin Watched /\ q.told = req[r].told /\ req' = [req EXCEPT ![r] = q]
      BY <1>a, <3>1 DEF RequestState, Watched
    <3> HIDE DEF q
    <3>3. QED BY <1>m, <2>0, <3>1, <3>2
  <2>3. QED BY <2>1, <2>2
<1>5. ASSUME LoginEmail(r) PROVE Turns(r)
  <2>0. req[r].pc = "loginEmail"
    BY <1>5 DEF LoginEmail
  <2>1. CASE Goto(r, "loginRole")
    BY <1>g, <2>0, <2>1 DEF Pc, Watched
  <2>2. CASE ~Goto(r, "loginRole")
    <3>1. PICK u \in User : req' = [req EXCEPT ![r].pc = "loginRow", ![r].user = u] /\ met' = met
      BY <1>5, <2>2 DEF LoginEmail
    <3> DEFINE q == [req[r] EXCEPT !.pc = "loginRow", !.user = u]
    <3>2. q.pc \notin Watched /\ q.told = req[r].told /\ req' = [req EXCEPT ![r] = q]
      BY <1>a, <3>1 DEF RequestState, Watched
    <3> HIDE DEF q
    <3>3. QED BY <1>m, <2>0, <3>1, <3>2
  <2>3. QED BY <2>1, <2>2
<1>n. ASSUME req[r].pc \in {"loginRole", "loginNewRole"},
             req' = [req EXCEPT ![r].pc = "loginRow", ![r].fresh = TRUE], met' = met
      PROVE  Turns(r)
  <2> DEFINE q == [req[r] EXCEPT !.pc = "loginRow", !.fresh = TRUE]
  <2>1. q.pc \notin Watched /\ q.told = req[r].told /\ req' = [req EXCEPT ![r] = q]
    BY <1>a, <1>n DEF RequestState, Watched
  <2> HIDE DEF q
  <2>2. QED BY <1>m, <1>n, <2>1
<1>6. ASSUME LoginRole(r) PROVE Turns(r)
  <2>0. req[r].pc = "loginRole"
    BY <1>6 DEF LoginRole
  <2>1. CASE Goto(r, "loginNewRole")
    BY <1>g, <2>0, <2>1 DEF Pc, Watched
  <2>2. QED BY <1>6, <1>n, <2>0, <2>1 DEF LoginRole
<1>7. ASSUME LoginNewRole(r) PROVE Turns(r)
  <2>0. req[r].pc = "loginNewRole"
    BY <1>7 DEF LoginNewRole
  <2>1. CASE Done(r)
    BY <2>0, <2>1, DoneTurns
  <2>2. QED BY <1>7, <1>n, <2>0, <2>1 DEF LoginNewRole
<1>8. ASSUME LoginRow(r) PROVE Turns(r)
  <2>0. req[r].pc = "loginRow" /\ UNCHANGED links
    BY <1>8 DEF LoginRow, oauthVars
  <2>1. PICK label \in {"loginInsert", "loginCommit"} :
          Goto(r, label) /\ (label = "loginInsert" => Rows(req[r].item) = {})
    BY <1>8 DEF LoginRow
  <2>2. /\ Acts(r) /\ met' = met /\ req'[r].pc = label /\ req'[r].told = req[r].told
        /\ req'[r] = [req[r] EXCEPT !.pc = label]
    BY <2>0, <2>1, GotoActs
  <2>3. req'[r].item = req[r].item
    BY <1>a, <2>2 DEF RequestState
  <2>4. Rows(req[r].item)' = Rows(req[r].item)
    BY <2>0, <2>3 DEF Rows
  <2>5. QED BY <1>u, <2>0, <2>1, <2>2, <2>3, <2>4 DEF Turns, Untouched
<1>9. ASSUME LoginCommit(r) PROVE Turns(r)
  <2>0. req[r].pc \in {"loginInsert", "loginCommit"}
    BY <1>9 DEF LoginCommit
  <2>1. CASE Done(r)
    BY <2>0, <2>1, DoneTurns
  <2>2. CASE ~Done(r)
    <3>1. PICK u : req' = [req EXCEPT ![r] = [Idle EXCEPT !.pc = "sessionBegin", !.user = u]]
                   /\ met' = met
      BY <1>9, <2>2 DEF LoginCommit
    <3> DEFINE q == [Idle EXCEPT !.pc = "sessionBegin", !.user = u]
    <3>2. q.pc \notin Watched /\ ~q.told
      BY DEF Idle, Watched
    <3>3. QED BY <1>m, <2>0, <3>1, <3>2
  <2>3. QED BY <2>1, <2>2
<1>10. ASSUME SessionBegin(r) PROVE Turns(r)
  <2> DEFINE q == [req[r] EXCEPT !.pc = "sessionUser", !.tx = TRUE]
  <2>1. q.pc \notin Watched /\ q.told = req[r].told
    BY <1>a DEF RequestState, Watched
  <2>2. req[r].pc = "sessionBegin" /\ req' = [req EXCEPT ![r] = q] /\ met' = met
    BY <1>10, <1>a DEF SessionBegin, Enter
  <2> HIDE DEF q
  <2>3. QED BY <1>m, <2>1, <2>2
<1>11. ASSUME SessionUser(r) \/ LinkInsert(r) \/ UnlinkDelete(r) PROVE Turns(r)
  BY <1>11, DoneTurns DEF SessionUser, LinkInsert, UnlinkDelete
\* The requests that link keep what they were told.
<1>l. ASSUME NEW label \in {"linkRow", "linkInsert"}, Goto(r, label), UNCHANGED links,
             req[r].pc \in {"linkUser", "linkRow"},
             label = "linkInsert" => Rows(req[r].item) = {}
      PROVE  Turns(r)
  <2>1. /\ Acts(r) /\ met' = met /\ req'[r].pc = label /\ req'[r].told = req[r].told
        /\ req'[r] = [req[r] EXCEPT !.pc = label]
    BY <1>l, GotoActs
  <2>2. req'[r].item = req[r].item
    BY <1>a, <2>1 DEF RequestState
  <2>3. Rows(req[r].item)' = Rows(req[r].item)
    BY <1>l, <2>2 DEF Rows
  <2>4. QED BY <1>l, <1>u, <2>1, <2>2, <2>3 DEF Turns, Untouched
<1>12. ASSUME LinkUser(r) PROVE Turns(r)
  BY <1>12, <1>l, DoneTurns DEF LinkUser, oauthVars
<1>13. ASSUME LinkRowLookup(r) PROVE Turns(r)
  BY <1>13, <1>l, DoneTurns DEF LinkRowLookup, oauthVars
<1>14. ASSUME UnlinkFind(r) PROVE Turns(r)
  <2>0. req[r].pc = "unlink"
    BY <1>14 DEF UnlinkFind
  <2>1. CASE Goto(r, "unlinkDelete")
    BY <1>g, <2>0, <2>1 DEF Pc, Watched
  <2>2. QED BY <1>14, <2>0, <2>1, DoneTurns DEF UnlinkFind
<1>15. QED
  BY <1>1, <1>2, <1>3, <1>4, <1>5, <1>6, <1>7, <1>8, <1>9, <1>10, <1>11, <1>12, <1>13, <1>14
  DEF OAuthStart, OAuthStep

LEMMA ReAuthTurns ==
    ASSUME Inv, RaceInv, NEW r \in Request, ReAuthStart(r) \/ ReAuthStep(r)
    PROVE  Turns(r)
<1> USE DEF At
<1>a. req \in [Request -> RequestState] /\ req[r] \in RequestState
  BY DEF Inv, Requests
<1>u. r \notin met => Untouched(r)
  BY DEF RaceInv
<1>g. ASSUME NEW label \in Pc \ Watched, Goto(r, label),
             req[r].pc \notin {"idle", "linkUser", "linkRow"}
      PROVE  Turns(r)
  <2>1. Acts(r) /\ met' = met /\ req'[r].pc = label /\ req'[r].told = req[r].told
    BY <1>g, GotoActs
  <2>2. QED BY <1>g, <1>u, <2>1, Unwatched DEF Turns, Untouched
<1>1. ASSUME NEW u \in User, Reauthenticate(r, u) PROVE Turns(r)
  <2> DEFINE q == [Idle EXCEPT !.pc = "reauthPassword", !.by = u, !.user = u]
  <2>1. Start(r, q)
    BY <1>1 DEF Reauthenticate, Call, Idle
  <2>2. q.pc \notin Watched /\ ~q.told
    BY DEF Idle, Watched
  <2>3. QED BY <2>1, <2>2, StartTurns
<1>2. ASSUME NEW by \in User, NEW c \in Claim, NEW t \in Token, Protected(r, by, c, t)
      PROVE  Turns(r)
  <2> DEFINE q == [Idle EXCEPT !.pc = "guardFind", !.by = by, !.email = c.email, !.item = t]
  <2>1. Start(r, q) /\ q.pc \notin Watched /\ ~q.told
    BY <1>2 DEF Protected, Idle, Watched
  <2>2. QED BY <2>1, StartTurns
<1>3. ASSUME ReauthPassword(r) PROVE Turns(r)
  <2>0. req[r].pc = "reauthPassword"
    BY <1>3 DEF ReauthPassword
  <2>1. CASE Goto(r, "reauthRevoke")
    BY <1>g, <2>0, <2>1 DEF Pc, Watched
  <2>2. QED BY <1>3, <2>0, <2>1, DoneTurns DEF ReauthPassword
<1>4. ASSUME ReauthRevoke(r) PROVE Turns(r)
  <2>0. /\ req[r].pc = "reauthRevoke" /\ Goto(r, "reauthInsert")
        /\ reauth' = Revoked({t \in Token : reauth[t].user = req[r].by})
    BY <1>4 DEF ReauthRevoke
  <2>1. /\ Acts(r) /\ met' = met /\ req'[r].pc = "reauthInsert" /\ req'[r].told = req[r].told
        /\ req'[r] = [req[r] EXCEPT !.pc = "reauthInsert"]
    BY <2>0, GotoActs
  <2>2. req'[r].by = req[r].by
    BY <1>a, <2>1 DEF RequestState
  <2>3. \A t \in Token : /\ reauth'[t].user = reauth[t].user
                         /\ reauth[t].user = req[r].by => reauth'[t].revoked
    BY <2>0 DEF Revoked, Inv, ReAuthTyped, TokenRow
  <2>4. \A t \in Unrevoked' : reauth'[t].user # req[r].by
    BY <2>3 DEF Unrevoked
  <2>5. QED BY <1>u, <2>0, <2>1, <2>2, <2>4 DEF Turns, Untouched
<1>5. ASSUME ReauthInsert(r) \/ PwdWrite(r) PROVE Turns(r)
  BY <1>5, DoneTurns DEF ReauthInsert, PwdWrite
<1>6. ASSUME GuardFind(r) PROVE Turns(r)
  <2>0. req[r].pc = "guardFind" /\ UNCHANGED reauth
    BY <1>6 DEF GuardFind, reauthVars
  <2>1. CASE Done(r)
    BY <2>0, <2>1, DoneTurns
  <2>2. CASE ~Done(r)
    <3>1. req[r].item \in Unrevoked /\ Goto(r, "guardList")
      BY <1>6, <2>2 DEF GuardFind
    <3>2. /\ Acts(r) /\ met' = met /\ req'[r].pc = "guardList" /\ req'[r].told = req[r].told
          /\ req'[r] = [req[r] EXCEPT !.pc = "guardList"]
      BY <2>0, <3>1, GotoActs
    <3>3. req'[r].item = req[r].item
      BY <1>a, <3>2 DEF RequestState
    <3>4. Unrevoked' = Unrevoked
      BY <2>0 DEF Unrevoked, Given
    <3>5. QED BY <1>u, <2>0, <3>1, <3>2, <3>3, <3>4 DEF Turns, Untouched
  <2>3. QED BY <2>1, <2>2
<1>7. ASSUME GuardList(r) PROVE Turns(r)
  <2>0. req[r].pc = "guardList"
    BY <1>7 DEF GuardList
  <2>1. CASE Goto(r, "pwdBegin")
    BY <1>g, <2>0, <2>1 DEF Pc, Watched
  <2>2. CASE ~Goto(r, "pwdBegin")
    <3> DEFINE q == [req[r] EXCEPT !.pc = "guardSave", !.rows = Unrevoked]
    <3>1. req' = [req EXCEPT ![r] = q] /\ met' = met /\ reauth' = reauth
      BY <1>7, <1>a, <2>2 DEF GuardList
    <3>2. q.pc = "guardSave" /\ q.told = req[r].told /\ q.item = req[r].item
      BY <1>a DEF RequestState
    <3> HIDE DEF q
    <3>3. req'[r] = q /\ Acts(r)
      BY <1>a, <2>0, <3>1 DEF Acts
    <3>4. Unrevoked' = Unrevoked
      BY <3>1 DEF Unrevoked, Given
    <3>5. QED BY <1>u, <2>0, <3>1, <3>2, <3>3, <3>4 DEF Turns, Untouched
  <2>3. QED BY <2>1, <2>2
\* The steps that go on with what they have found.
<1>m. ASSUME NEW q, req' = [req EXCEPT ![r] = q], met' = met, q.pc \notin Watched,
             q.told = req[r].told, req[r].pc \notin {"idle", "linkUser", "linkRow"}
      PROVE  Turns(r)
  BY <1>m, StepTurns
<1>8. ASSUME GuardSave(r) PROVE Turns(r)
  <2> DEFINE q == [req[r] EXCEPT !.pc = "pwdBegin", !.rows = {}]
  <2>1. q.pc \notin Watched /\ q.told = req[r].told
    BY <1>a DEF RequestState, Watched
  <2>2. req[r].pc = "guardSave" /\ req' = [req EXCEPT ![r] = q] /\ met' = met
    BY <1>8, <1>a DEF GuardSave
  <2> HIDE DEF q
  <2>3. QED BY <1>m, <2>1, <2>2
<1>9. ASSUME PwdBegin(r) PROVE Turns(r)
  <2>0. req[r].pc = "pwdBegin"
    BY <1>9 DEF PwdBegin
  <2>1. CASE Done(r)
    BY <2>0, <2>1, DoneTurns
  <2>2. CASE ~Done(r)
    <3> DEFINE q == [req[r] EXCEPT !.pc = "pwdCredential", !.tx = TRUE]
    <3>1. q.pc \notin Watched /\ q.told = req[r].told
      BY <1>a DEF RequestState, Watched
    <3>2. req' = [req EXCEPT ![r] = q] /\ met' = met
      BY <1>9, <1>a, <2>2 DEF PwdBegin, Enter
    <3> HIDE DEF q
    <3>3. QED BY <1>m, <2>0, <3>1, <3>2
  <2>3. QED BY <2>1, <2>2
<1>w. ASSUME NEW label \in {"pwdWrite", "pwdNew"}, NEW v \in User,
             req[r].pc \in {"pwdCredential", "pwdUser"},
             req' = [req EXCEPT ![r].pc = label, ![r].user = v], met' = met
      PROVE  Turns(r)
  <2> DEFINE q == [req[r] EXCEPT !.pc = label, !.user = v]
  <2>1. q.pc \notin Watched /\ q.told = req[r].told /\ req' = [req EXCEPT ![r] = q]
    BY <1>a, <1>w DEF RequestState, Watched
  <2> HIDE DEF q
  <2>2. QED BY <1>m, <1>w, <2>1
<1>10. ASSUME PwdCredential(r) PROVE Turns(r)
  <2>0. req[r].pc = "pwdCredential"
    BY <1>10 DEF PwdCredential
  <2>1. CASE Goto(r, "pwdUser")
    BY <1>g, <2>0, <2>1 DEF Pc, Watched
  <2>2. CASE ~Goto(r, "pwdUser")
    <3>1. PICK v \in User : req' = [req EXCEPT ![r].pc = "pwdWrite", ![r].user = v] /\ met' = met
      BY <1>10, <2>2 DEF PwdCredential, OwnerOf
    <3>2. QED BY <1>w, <2>0, <3>1
  <2>3. QED BY <2>1, <2>2
<1>11. ASSUME PwdUser(r) PROVE Turns(r)
  <2>0. req[r].pc = "pwdUser"
    BY <1>11 DEF PwdUser
  <2>1. CASE Done(r)
    BY <2>0, <2>1, DoneTurns
  <2>2. CASE ~Done(r)
    <3>1. PICK v \in User : req' = [req EXCEPT ![r].pc = "pwdNew", ![r].user = v] /\ met' = met
      BY <1>11, <2>2 DEF PwdUser, OwnerOf
    <3>2. QED BY <1>w, <2>0, <3>1
  <2>3. QED BY <2>1, <2>2
<1>12. ASSUME PwdNew(r) PROVE Turns(r)
  <2>0. req[r].pc = "pwdNew"
    BY <1>12 DEF PwdNew
  <2>1. CASE Done(r)
    BY <2>0, <2>1, DoneTurns
  <2>2. CASE ~Done(r)
    <3> DEFINE q == [req[r] EXCEPT !.pc = "pwdWrite", !.fresh = TRUE]
    <3>1. q.pc \notin Watched /\ q.told = req[r].told
      BY <1>a DEF RequestState, Watched
    <3>2. req' = [req EXCEPT ![r] = q] /\ met' = met
      BY <1>12, <1>a, <2>2 DEF PwdNew
    <3> HIDE DEF q
    <3>3. QED BY <1>m, <2>0, <3>1, <3>2
  <2>3. QED BY <2>1, <2>2
<1>13. QED
  BY <1>1, <1>2, <1>3, <1>4, <1>5, <1>6, <1>7, <1>8, <1>9, <1>10, <1>11, <1>12
  DEF ReAuthStart, ReAuthStep

LEMMA RoleTurns ==
    ASSUME Inv, RaceInv, NEW r \in Request,
           \/ RoleStep(r)
           \/ \E by, u \in User : Remove(r, by, u) \/ \E role \in Role : ChangeRole(r, by, u, role)
    PROVE  Turns(r)
<1> USE DEF At
<1>a. req \in [Request -> RequestState] /\ req[r] \in RequestState
  BY DEF Inv, Requests
<1>u. r \notin met => Untouched(r)
  BY DEF RaceInv
<1>1. ASSUME NEW by \in User, NEW u \in User, NEW role \in Role, ChangeRole(r, by, u, role)
      PROVE  Turns(r)
  <2> DEFINE q == [Idle EXCEPT !.pc = "changeRole", !.role = role, !.by = by, !.user = u]
  <2>1. Start(r, q)
    BY <1>1 DEF ChangeRole, Call, Idle
  <2>2. q.pc \notin Watched /\ ~q.told
    BY DEF Idle, Watched
  <2>3. QED BY <2>1, <2>2, StartTurns
<1>2. ASSUME NEW by \in User, NEW u \in User, Remove(r, by, u) PROVE Turns(r)
  <2> DEFINE q == [Idle EXCEPT !.pc = "remove", !.by = by, !.user = u]
  <2>1. Start(r, q)
    BY <1>2 DEF Remove, Call, Idle
  <2>2. q.pc \notin Watched /\ ~q.told
    BY DEF Idle, Watched
  <2>3. QED BY <2>1, <2>2, StartTurns
<1>3. ASSUME ChangeRoleFind(r) PROVE Turns(r)
  <2>0. req[r].pc = "changeRole" /\ users' = users
    BY <1>3 DEF ChangeRoleFind, KeepRows
  <2>1. CASE Done(r)
    BY <2>0, <2>1, DoneTurns
  <2>2. CASE ~Done(r)
    <3> DEFINE q == [req[r] EXCEPT !.pc = "roleSave", !.seen = users[req[r].user]]
    <3>1. req' = [req EXCEPT ![r] = q] /\ met' = met
      BY <1>3, <1>a, <2>2 DEF ChangeRoleFind
    <3>2. /\ q.pc = "roleSave" /\ q.told = req[r].told /\ q.user = req[r].user
          /\ q.seen = users[req[r].user]
      BY <1>a DEF RequestState
    <3> HIDE DEF q
    <3>3. req'[r] = q /\ Acts(r)
      BY <1>a, <2>0, <3>1 DEF Acts
    <3>4. QED BY <1>u, <2>0, <3>1, <3>2, <3>3 DEF Turns, Untouched
  <2>3. QED BY <2>1, <2>2
<1>4. ASSUME RoleSave(r) \/ RemoveRow(r) PROVE Turns(r)
  BY <1>4, DoneTurns, ExitTurns DEF RoleSave, RemoveRow
<1>5. QED BY <1>1, <1>2, <1>3, <1>4 DEF RoleStep

LEMMA NextTurns ==
    ASSUME Inv, RaceInv, NEW r \in Request, Begin(r) \/ Step(r)
    PROVE  Turns(r)
BY EmailTurns, OAuthTurns, ReAuthTurns, RoleTurns DEF Begin, Step

-----------------------------------------------------------------------------
(* The tokens.                                                             *)

\* A step that leaves the tokens, and at most goes on to a request's first step.
LEMMA TokensKept ==
    ASSUME Inv, TokenInv, NEW r \in Request, Turns(r), UNCHANGED reauth,
           req'[r].pc \notin {"guardFind", "guardList", "guardSave"}
    PROVE  TokenInv'
<1>1. PassedTokenIsRevoked' /\ OneLiveTokenUnlessRaced'
  BY DEF TokenInv, PassedTokenIsRevoked, OneLiveTokenUnlessRaced, Unrevoked, Given
<1>2. \A p \in Request : req'[p] = req[p] \/ req'[p].pc \notin {"guardFind", "guardList", "guardSave"}
  BY DEF Turns, Acts, Exit, Idle
<1>3. \A p \in Request : GuardKnows(p)'
  BY <1>2 DEF TokenInv, GuardKnows, Given, At
<1>4. QED BY <1>1, <1>3 DEF TokenInv

\* A step that may revoke tokens and let the one of r pass.
LEMMA TokensRevoked ==
    ASSUME Inv, TokenInv, NEW r \in Request, Turns(r), ~Exit,
           reauth' \in [Token -> TokenRow],
           \A t \in Token : /\ reauth'[t].user = reauth[t].user
                            /\ reauth'[t].raced = reauth[t].raced
                            /\ reauth[t].revoked => reauth'[t].revoked
                            /\ reauth'[t].passed => reauth[t].passed \/ reauth'[t].revoked,
           GuardKnows(r)'
    PROVE  TokenInv'
<1>1. PassedTokenIsRevoked' /\ OneLiveTokenUnlessRaced'
  BY DEF TokenInv, PassedTokenIsRevoked, OneLiveTokenUnlessRaced, Unrevoked, Given
<1>2. \A p \in Request \ {r} : req'[p] = req[p]
  BY DEF Turns, Acts
<1>3. \A p \in Request \ {r} : GuardKnows(p)'
  BY <1>2 DEF TokenInv, GuardKnows, Given, At
<1>4. QED BY <1>1, <1>3 DEF TokenInv

LEMMA RowRevoked ==
    ASSUME NEW row \in TokenRow, NEW b \in BOOLEAN
    PROVE  /\ [row EXCEPT !.revoked = b].user = row.user
           /\ [row EXCEPT !.revoked = b].raced = row.raced
           /\ [row EXCEPT !.revoked = b].passed = row.passed
           /\ [row EXCEPT !.revoked = b].revoked = b
BY DEF TokenRow

LEMMA RowPassed ==
    ASSUME NEW row \in TokenRow
    PROVE  /\ [row EXCEPT !.passed = TRUE].user = row.user
           /\ [row EXCEPT !.passed = TRUE].raced = row.raced
           /\ [row EXCEPT !.passed = TRUE].revoked = row.revoked
BY DEF TokenRow

LEMMA TokenStep ==
    ASSUME Inv, RaceInv, TokenInv, NEW r \in Request, Turns(r), ReAuthStart(r) \/ ReAuthStep(r)
    PROVE  TokenInv'
<1> USE DEF At
<1>a. /\ req \in [Request -> RequestState] /\ req[r] \in RequestState
      /\ reauth \in [Token -> TokenRow] /\ ReAuthTyped
  BY DEF Inv, Requests, ReAuthTyped
<1>k. GuardKnows(r)
  BY DEF TokenInv
<1>v. ASSUME NEW ts
      PROVE  \A t \in Token : /\ Revoked(ts)[t].user = reauth[t].user
                              /\ Revoked(ts)[t].raced = reauth[t].raced
                              /\ Revoked(ts)[t].passed = reauth[t].passed
                              /\ reauth[t].revoked \/ t \in ts => Revoked(ts)[t].revoked
  <2> SUFFICES ASSUME NEW t \in Token
               PROVE  /\ Revoked(ts)[t].user = reauth[t].user
                      /\ Revoked(ts)[t].raced = reauth[t].raced
                      /\ Revoked(ts)[t].passed = reauth[t].passed
                      /\ reauth[t].revoked \/ t \in ts => Revoked(ts)[t].revoked
    OBVIOUS
  <2>1. PICK b \in BOOLEAN : b = (reauth[t].revoked \/ t \in ts)
    OBVIOUS
  <2>2. Revoked(ts)[t] = [reauth[t] EXCEPT !.revoked = b] /\ reauth[t] \in TokenRow
    BY <1>a, <2>1 DEF Revoked
  <2>3. QED BY <2>1, <2>2, RowRevoked
<1>p. ASSUME NEW rows \in [Token -> TokenRow]
      PROVE  \A t \in Token : /\ Pass(r, rows)[t].user = rows[t].user
                              /\ Pass(r, rows)[t].raced = rows[t].raced
                              /\ Pass(r, rows)[t].revoked = rows[t].revoked
                              /\ t # req[r].item => Pass(r, rows)[t].passed = rows[t].passed
  <2>1. \A t \in Token : Pass(r, rows)[t] = IF t = req[r].item THEN [rows[t] EXCEPT !.passed = TRUE]
                                            ELSE rows[t]
    BY DEF Pass
  <2>2. QED BY <2>1, RowPassed
\* The steps that only move the request.
<1>q. ASSUME UNCHANGED reauth, req'[r].pc \notin {"guardFind", "guardList", "guardSave"}
      PROVE  TokenInv'
  BY <1>q, TokensKept
<1>d. ASSUME UNCHANGED reauth, Done(r) PROVE TokenInv'
  BY <1>d, <1>q, <1>a DEF Done, Idle
<1>s. ASSUME UNCHANGED reauth, ~Exit, GuardKnows(r)' PROVE TokenInv'
  BY <1>a, <1>s, TokensRevoked
<1>1. ASSUME NEW u \in User, Reauthenticate(r, u) PROVE TokenInv'
  <2> DEFINE q == [Idle EXCEPT !.pc = "reauthPassword", !.by = u, !.user = u]
  <2>1. Start(r, q) /\ UNCHANGED reauth
    BY <1>1 DEF Reauthenticate, Call, Idle, reauthVars
  <2>2. req'[r].pc = "reauthPassword"
    <3>1. req'[r] = q
      BY <2>1, StartActs
    <3>2. QED BY <3>1 DEF Idle
  <2>3. QED BY <1>q, <2>1, <2>2
<1>2. ASSUME NEW by \in User, NEW c \in Claim, NEW t \in Token, Protected(r, by, c, t)
      PROVE  TokenInv'
  <2> DEFINE q == [Idle EXCEPT !.pc = "guardFind", !.by = by, !.email = c.email, !.item = t]
  <2>1. Start(r, q) /\ UNCHANGED reauth /\ Given(t)
    BY <1>2 DEF Protected, reauthVars
  <2>2. req'[r].pc = "guardFind" /\ req'[r].item = t
    <3>1. req'[r] = q
      BY <2>1, StartActs
    <3>2. QED BY <3>1 DEF Idle
  <2>3. GuardKnows(r)' /\ ~Exit
    BY <2>1, <2>2 DEF GuardKnows, Given, Exit, Idle
  <2>4. QED BY <1>s, <2>1, <2>3
<1>3. ASSUME ReauthPassword(r) PROVE TokenInv'
  <2>1. UNCHANGED reauth /\ ~At(r, "idle")
    BY <1>3 DEF ReauthPassword, reauthVars
  <2>2. CASE Goto(r, "reauthRevoke")
    <3>1. req'[r].pc = "reauthRevoke"
      BY <2>1, <2>2, GotoActs
    <3>2. QED BY <1>q, <2>1, <3>1
  <2>3. QED BY <1>3, <1>d, <2>1, <2>2 DEF ReauthPassword
<1>4. ASSUME ReauthRevoke(r) PROVE TokenInv'
  <2> DEFINE ts == {t \in Token : reauth[t].user = req[r].by}
  <2>1. reauth' = Revoked(ts) /\ Goto(r, "reauthInsert") /\ ~At(r, "idle")
    BY <1>4 DEF ReauthRevoke
  <2>2. req'[r].pc = "reauthInsert"
    BY <2>1, GotoActs
  <2>3. GuardKnows(r)' /\ ~Exit
    BY <2>2 DEF GuardKnows, Exit, Idle
  <2> HIDE DEF ts
  <2>4. reauth' \in [Token -> TokenRow]
    BY <1>a, <2>1, TokensTyped
  <2>5. \A t \in Token : /\ reauth'[t].user = reauth[t].user
                         /\ reauth'[t].raced = reauth[t].raced
                         /\ reauth[t].revoked => reauth'[t].revoked
                         /\ reauth'[t].passed => reauth[t].passed \/ reauth'[t].revoked
    <3>1. \A t \in Token : /\ Revoked(ts)[t].user = reauth[t].user
                           /\ Revoked(ts)[t].raced = reauth[t].raced
                           /\ Revoked(ts)[t].passed = reauth[t].passed
                           /\ reauth[t].revoked => Revoked(ts)[t].revoked
      BY <1>v
    <3>2. \A t \in Token : reauth[t].passed => reauth[t].revoked
      BY DEF TokenInv, PassedTokenIsRevoked
    <3>3. QED BY <2>1, <3>1, <3>2
  <2>6. QED BY <2>3, <2>4, <2>5, TokensRevoked
<1>5. ASSUME ReauthInsert(r) PROVE TokenInv'
  <2> DEFINE row == [NoToken EXCEPT !.user = req[r].by, !.raced = r \in met]
  <2>1. PICK t \in Token : ~Given(t) /\ reauth' = [reauth EXCEPT ![t] = row]
    BY <1>5 DEF ReauthInsert, FreshTokens
  <2>2. row.user = req[r].by /\ row.raced = (r \in met) /\ ~row.passed /\ ~row.revoked
    BY DEF NoToken
  <2>3. At(r, "reauthInsert") /\ Done(r)
    BY <1>5 DEF ReauthInsert
  <2> HIDE DEF row
  <2>4. PassedTokenIsRevoked'
    BY <1>a, <2>1, <2>2 DEF TokenInv, PassedTokenIsRevoked
  <2>5. r \notin met => \A s \in Unrevoked : reauth[s].user # req[r].by
    BY <2>3 DEF RaceInv, Untouched
  <2>6. ASSUME NEW s \in Unrevoked', s # t
        PROVE  s \in Unrevoked /\ reauth'[s] = reauth[s]
    <3>1. s \in Token /\ Given(s)' /\ ~reauth'[s].revoked
      BY DEF Unrevoked
    <3>2. reauth'[s] = reauth[s]
      BY <1>a, <2>1, <2>6, <3>1
    <3>3. Given(s) /\ ~reauth[s].revoked
      BY <3>1, <3>2, Zenon DEF Given
    <3>4. QED BY <3>1, <3>2, <3>3 DEF Unrevoked
  <2>7. reauth'[t] = row
    BY <1>a, <2>1
  <2>8. OneLiveTokenUnlessRaced'
    <3>1. ASSUME NEW s \in Unrevoked', NEW x \in Unrevoked', s # x, reauth'[s].user = reauth'[x].user
          PROVE  reauth'[s].raced \/ reauth'[x].raced
      <4>1. CASE s = t
        BY <2>2, <2>5, <2>6, <2>7, <3>1, <4>1
      <4>2. CASE x = t
        BY <2>2, <2>5, <2>6, <2>7, <3>1, <4>2
      <4>3. CASE s # t /\ x # t
        BY <2>6, <3>1, <4>3 DEF TokenInv, OneLiveTokenUnlessRaced
      <4>4. QED BY <4>1, <4>2, <4>3
    <3>2. QED BY <3>1 DEF OneLiveTokenUnlessRaced
  <2>9. \A p \in Request : GuardKnows(p)'
    <3>1. \A p \in Request \ {r} : req'[p] = req[p]
      BY <2>3, <1>a DEF Done
    <3>2. req'[r].pc = "idle"
      BY <2>3, <1>a DEF Done, Idle
    <3>3. \A s \in Token : Given(s) => Given(s)' /\ reauth'[s] = reauth[s]
      BY <1>a, <2>1 DEF Given
    <3>4. ASSUME NEW p \in Request \ {r} PROVE GuardKnows(p)'
      <4>1. GuardKnows(p) /\ req'[p] = req[p]
        BY <3>1 DEF TokenInv
      <4>2. QED BY <3>3, <4>1 DEF GuardKnows
    <3>5. GuardKnows(r)'
      BY <3>2 DEF GuardKnows
    <3>6. QED BY <3>4, <3>5
  <2>10. QED BY <2>4, <2>8, <2>9 DEF TokenInv
<1>6. ASSUME GuardFind(r) PROVE TokenInv'
  <2>1. UNCHANGED reauth /\ At(r, "guardFind")
    BY <1>6 DEF GuardFind, reauthVars
  <2>2. CASE Done(r)
    BY <1>d, <2>1, <2>2
  <2>3. CASE ~Done(r)
    <3>1. Goto(r, "guardList")
      BY <1>6, <2>3 DEF GuardFind
    <3>2. req'[r].pc = "guardList" /\ req'[r] = [req[r] EXCEPT !.pc = "guardList"]
      BY <2>1, <3>1, GotoActs
    <3>3. req'[r].item = req[r].item
      BY <1>a, <3>2 DEF RequestState
    <3>4. GuardKnows(r)' /\ ~Exit
      BY <1>k, <2>1, <3>2, <3>3 DEF GuardKnows, Given, Exit, Idle
    <3>5. QED BY <1>s, <2>1, <3>4
  <2>4. QED BY <2>2, <2>3
<1>7. ASSUME GuardList(r) PROVE TokenInv'
  <2>0. At(r, "guardList") /\ req[r].item \in Token /\ Given(req[r].item)
    BY <1>7, <1>k DEF GuardList, GuardKnows
  <2>1. CASE Unrevoked = {} /\ reauth' = Pass(r, reauth) /\ Goto(r, "pwdBegin")
    <3>1. reauth[req[r].item].revoked
      BY <2>0, <2>1 DEF Unrevoked
    <3>2. GuardKnows(r)' /\ ~Exit
      <4>1. req'[r].pc = "pwdBegin"
        BY <2>0, <2>1, GotoActs
      <4>2. QED BY <4>1 DEF GuardKnows, Exit, Idle
    <3>3. QED BY <1>a, <1>p, <2>0, <2>1, <3>1, <3>2, TokensRevoked, TokensTyped
  <2>2. CASE /\ req' = [req EXCEPT ![r].pc = "guardSave", ![r].rows = Unrevoked]
             /\ UNCHANGED <<met, reauth>>
    <3>1. req'[r] = [req[r] EXCEPT !.pc = "guardSave", !.rows = Unrevoked]
      BY <1>a, <2>2
    <3>2. req'[r].pc = "guardSave" /\ req'[r].rows = Unrevoked /\ req'[r].item = req[r].item
      BY <1>a, <3>1 DEF RequestState
    <3>3. GuardKnows(r)' /\ ~Exit
      <4>1. req[r].item \in Unrevoked \/ reauth[req[r].item].revoked
        BY <2>0 DEF Unrevoked
      <4>2. GuardKnows(r)'
        BY <2>0, <2>2, <3>2, <4>1 DEF GuardKnows, Given
      <4>3. QED BY <3>2, <4>2 DEF Exit, Idle
    <3>4. QED BY <1>s, <2>2, <3>3
  <2>3. QED BY <1>7, <2>1, <2>2 DEF GuardList
<1>8. ASSUME GuardSave(r) PROVE TokenInv'
  <2> DEFINE ts == req[r].rows
  <2>0. /\ At(r, "guardSave") /\ req[r].item \in Token
        /\ req[r].item \in ts \/ reauth[req[r].item].revoked
        /\ reauth' = Pass(r, Revoked(ts))
        /\ req' = [req EXCEPT ![r].pc = "pwdBegin", ![r].rows = {}]
    BY <1>8, <1>k DEF GuardSave, GuardKnows
  <2>1. req'[r].pc = "pwdBegin"
    BY <1>a, <2>0 DEF RequestState
  <2>2. GuardKnows(r)' /\ ~Exit
    BY <2>1 DEF GuardKnows, Exit, Idle
  <2>3. Revoked(ts) \in [Token -> TokenRow] /\ reauth' \in [Token -> TokenRow]
    BY <1>a, <2>0, TokensTyped
  <2> HIDE DEF ts
  <2>4. \A t \in Token : /\ reauth'[t].user = reauth[t].user
                         /\ reauth'[t].raced = reauth[t].raced
                         /\ reauth[t].revoked => reauth'[t].revoked
                         /\ reauth'[t].passed => reauth[t].passed \/ reauth'[t].revoked
    <3> DEFINE rows == Revoked(ts)
    <3>1. \A t \in Token : /\ rows[t].user = reauth[t].user
                           /\ rows[t].raced = reauth[t].raced
                           /\ rows[t].passed = reauth[t].passed
                           /\ reauth[t].revoked \/ t \in ts => rows[t].revoked
      BY <1>v
    <3>2. rows \in [Token -> TokenRow] /\ reauth' = Pass(r, rows)
      BY <2>0, <2>3
    <3> HIDE DEF rows
    <3>3. \A t \in Token : /\ reauth'[t].user = rows[t].user
                           /\ reauth'[t].raced = rows[t].raced
                           /\ reauth'[t].revoked = rows[t].revoked
                           /\ t # req[r].item => reauth'[t].passed = rows[t].passed
      BY <1>p, <3>2
    <3>4. rows[req[r].item].revoked
      BY <2>0, <3>1
    <3>5. QED BY <2>0, <3>1, <3>3, <3>4
  <2>5. QED BY <2>2, <2>3, <2>4, TokensRevoked
<1>9. ASSUME PwdBegin(r) PROVE TokenInv'
  <2>1. UNCHANGED reauth /\ (Done(r) \/ Enter(r, "pwdCredential"))
    BY <1>9 DEF PwdBegin, reauthVars
  <2>2. CASE Enter(r, "pwdCredential")
    <3>1. req'[r].pc = "pwdCredential"
      BY <1>a, <2>2 DEF Enter, RequestState
    <3>2. QED BY <1>q, <2>1, <3>1
  <2>3. QED BY <1>d, <2>1, <2>2
<1>10. ASSUME PwdCredential(r) \/ PwdUser(r) \/ PwdNew(r) PROVE TokenInv'
  <2>1. UNCHANGED reauth /\ ~At(r, "idle")
    BY <1>10 DEF PwdCredential, PwdUser, PwdNew, reauthVars
  <2>2. CASE Done(r)
    BY <1>d, <2>1, <2>2
  <2>3. CASE ~Done(r)
    <3>1. req'[r].pc \in {"pwdUser", "pwdWrite", "pwdNew"}
      BY <1>10, <1>a, <2>3 DEF PwdCredential, PwdUser, PwdNew, Goto, RequestState
    <3>2. QED BY <1>q, <2>1, <3>1
  <2>4. QED BY <2>2, <2>3
<1>11. ASSUME PwdWrite(r) PROVE TokenInv'
  BY <1>11, <1>d DEF PwdWrite
<1>12. QED
  BY <1>1, <1>2, <1>3, <1>4, <1>5, <1>6, <1>7, <1>8, <1>9, <1>10, <1>11
  DEF ReAuthStart, ReAuthStep

\* Only the requests of ReAuthentication come to its guard.
LEMMA NotGuarded ==
    ASSUME Inv, NEW r \in Request,
           \/ EmailStart(r) \/ EmailStep(r) \/ OAuthStart(r) \/ OAuthStep(r) \/ RoleStep(r)
           \/ \E by, u \in User : Remove(r, by, u) \/ \E role \in Role : ChangeRole(r, by, u, role)
    PROVE  req'[r].pc \notin {"guardFind", "guardList", "guardSave"}
<1> DEFINE Off == req'[r].pc \notin {"guardFind", "guardList", "guardSave"}
<1>a. req \in [Request -> RequestState] /\ req[r] \in RequestState
  BY DEF Inv, Requests
<1>d. ASSUME Done(r) \/ Exit PROVE Off
  BY <1>a, <1>d DEF Done, Exit, Idle
<1>1. ASSUME EmailStart(r) PROVE Off
  BY <1>a, <1>1 DEF EmailStart, Update, Confirm, Rollback, Call, Start, Idle
<1>2. ASSUME OAuthStart(r) PROVE Off
  BY <1>a, <1>2 DEF OAuthStart, OauthLogin, LinkProvider, UnlinkProvider, Call, Start, Idle
<1>3. ASSUME \E by, u \in User : Remove(r, by, u) \/ \E role \in Role : ChangeRole(r, by, u, role)
      PROVE  Off
  BY <1>a, <1>3 DEF Remove, ChangeRole, Call, Start, Idle
<1>4. ASSUME UpdateFind(r) \/ UpdateCheck(r) \/ UpdateWrite(r) \/ UpdateMail(r) \/ UpdateCommit(r)
      PROVE  Off
  BY <1>a, <1>d, <1>4 DEF UpdateFind, UpdateCheck, UpdateWrite, UpdateMail, UpdateCommit, Goto,
     RequestState
<1>5. ASSUME ConfirmBegin(r) \/ ConfirmUser(r) \/ ConfirmWrite(r) \/ ConfirmMail(r) \/ RollbackWrite(r)
      PROVE  Off
  BY <1>a, <1>d, <1>5 DEF ConfirmBegin, Enter, ConfirmUser, ConfirmWrite, ConfirmMail, RollbackWrite,
     Goto, RequestState
<1>6. ASSUME LoginLink(r) \/ LoginEmail(r) \/ LoginRole(r) \/ LoginNewRole(r) \/ LoginRow(r)
      PROVE  Off
  BY <1>a, <1>d, <1>6 DEF LoginLink, LoginEmail, LoginRole, LoginNewRole, LoginRow, Goto, RequestState
<1>7. ASSUME LoginCommit(r) \/ SessionBegin(r) \/ SessionUser(r) PROVE Off
  <2>1. CASE \E u : req' = [req EXCEPT ![r] = [Idle EXCEPT !.pc = "sessionBegin", !.user = u]]
    <3>1. PICK u : req'[r] = [Idle EXCEPT !.pc = "sessionBegin", !.user = u]
      BY <1>a, <2>1
    <3>2. QED BY <3>1 DEF Idle
  <2>2. CASE LoginCommit(r)
    BY <1>d, <2>1, <2>2 DEF LoginCommit
  <2>3. CASE SessionBegin(r)
    BY <1>a, <2>3 DEF SessionBegin, Enter, RequestState
  <2>4. QED BY <1>7, <1>d, <2>2, <2>3 DEF SessionUser
<1>8. ASSUME LinkUser(r) \/ LinkRowLookup(r) \/ LinkInsert(r) \/ UnlinkFind(r) \/ UnlinkDelete(r)
      PROVE  Off
  BY <1>a, <1>d, <1>8 DEF LinkUser, LinkRowLookup, LinkInsert, UnlinkFind, UnlinkDelete, Goto,
     RequestState
<1>9. ASSUME RoleStep(r) PROVE Off
  BY <1>a, <1>d, <1>9 DEF RoleStep, ChangeRoleFind, RoleSave, RemoveRow, RequestState
<1>10. QED
  BY <1>1, <1>2, <1>3, <1>4, <1>5, <1>6, <1>7, <1>8, <1>9 DEF EmailStep, OAuthStep

-----------------------------------------------------------------------------
(* The rows of providers.                                                  *)

LEMMA InsertLink ==
    ASSUME Inv, RaceInv, LinkOnlyByRace, NEW r \in Request, NEW u,
           req[r].pc \in {"linkInsert", "loginInsert"}, Insert(r, req[r].item, u)
    PROVE  LinkOnlyByRace'
<1> DEFINE i == req[r].item
           row == [identity |-> i, user |-> u, raced |-> r \in met, told |-> req[r].told]
<1>1. PICK k \in Link : links' = [links EXCEPT ![k] = row]
  BY DEF Insert, FreeLinks
<1>2. row.identity = i /\ row.raced = (r \in met) /\ row.told = req[r].told
  OBVIOUS
<1>3. r \notin met => Rows(i) = {} /\ ~row.told
  BY DEF RaceInv, Untouched
<1> HIDE DEF row
<1>4. links'[k] = row /\ \A j \in Link \ {k} : links'[j] = links[j]
  BY <1>1 DEF Inv, OAuthTyped
<1>5. ASSUME NEW j \in Link \ {k}, links'[j].identity = i PROVE r \in met
  BY <1>3, <1>4, <1>5 DEF Rows
<1>6. ASSUME NEW j \in Link, NEW m \in Link, j # m, Linked(j)', links'[j].identity = links'[m].identity
      PROVE  links'[j].raced \/ links'[m].raced
  <2>1. CASE j = k
    BY <1>2, <1>4, <1>5, <1>6, <2>1
  <2>2. CASE m = k
    BY <1>2, <1>4, <1>5, <1>6, <2>2
  <2>3. CASE j # k /\ m # k
    BY <1>4, <1>6, <2>3 DEF LinkOnlyByRace, Linked
  <2>4. QED BY <2>1, <2>2, <2>3
<1>7. \A j \in Link : links'[j].told => links'[j].raced
  BY <1>2, <1>3, <1>4 DEF LinkOnlyByRace
<1>8. QED BY <1>6, <1>7 DEF LinkOnlyByRace

LEMMA LinkStep ==
    ASSUME Inv, RaceInv, LinkOnlyByRace, NEW r \in Request, OAuthStart(r) \/ OAuthStep(r)
    PROVE  LinkOnlyByRace'
<1>s. ASSUME UNCHANGED links PROVE LinkOnlyByRace'
  BY <1>s DEF LinkOnlyByRace, Linked
<1>1. CASE LoginCommit(r)
  <2>1. UNCHANGED links \/ (At(r, "loginInsert") /\ \E u : Insert(r, req[r].item, u))
    BY <1>1 DEF LoginCommit
  <2>2. CASE At(r, "loginInsert") /\ \E u : Insert(r, req[r].item, u)
    BY <2>2, InsertLink DEF At
  <2>3. QED BY <1>s, <2>1, <2>2
<1>2. CASE LinkInsert(r)
  BY <1>2, InsertLink DEF LinkInsert, At
<1>3. CASE UnlinkDelete(r)
  <2>1. \A k \in Link : links'[k] = NoLink \/ links'[k] = links[k]
    BY <1>3 DEF UnlinkDelete
  <2>2. NoLink.identity = None /\ ~NoLink.told
    BY DEF NoLink
  <2>3. QED BY <2>1, <2>2 DEF LinkOnlyByRace, Linked
<1>4. QED
  BY <1>s, <1>1, <1>2, <1>3
  DEF OAuthStart, OAuthStep, OauthLogin, LinkProvider, UnlinkProvider, LoginLink, LoginEmail,
      LoginRole, LoginNewRole, LoginRow, SessionBegin, SessionUser, LinkUser, LinkRowLookup,
      UnlinkFind, oauthVars

-----------------------------------------------------------------------------
(* The whole invariant.                                                    *)

LEMMA InitAll == Init => AllInv
<1> SUFFICES ASSUME Init PROVE AllInv
  OBVIOUS
<1>1. Inv
  BY InitInv
<1>2. req = [r \in Request |-> Idle]
  BY DEF Init, RowsInit
<1>3. \A r \in Request : Untouched(r) /\ GuardKnows(r) /\ At(r, "idle")
  BY <1>2 DEF Untouched, GuardKnows, At, Idle
<1>4. \A t \in Token : reauth[t] = NoToken
  BY DEF Init, ReAuthInit
<1>5. PassedTokenIsRevoked /\ OneLiveTokenUnlessRaced
  BY <1>4 DEF PassedTokenIsRevoked, OneLiveTokenUnlessRaced, Unrevoked, Given, NoToken
<1>6. LinkOnlyByRace
  BY DEF Init, OAuthInit, LinkOnlyByRace, Linked, NoLink
<1>7. QED BY <1>1, <1>3, <1>5, <1>6 DEF AllInv, RaceInv, Alone, Busy, TokenInv

LEMMA NextAll == AllInv /\ [Next]_vars => AllInv'
<1> SUFFICES ASSUME AllInv, [Next]_vars PROVE AllInv'
  OBVIOUS
<1>i. Inv /\ RaceInv /\ TokenInv /\ LinkOnlyByRace /\ Inv'
  BY NextInv DEF AllInv
<1>1. CASE UNCHANGED vars
  <2>1. /\ req' = req /\ met' = met /\ users' = users /\ links' = links /\ reauth' = reauth
        /\ passwords' = passwords
    BY <1>1 DEF vars, rowVars, oauthVars, reauthVars
  <2>2. RaceInv'
    <3>1. Unrevoked' = Unrevoked /\ Busy' = Busy
      BY <2>1 DEF Unrevoked, Given, Busy, At
    <3>2. \A r \in Request : Untouched(r)' = Untouched(r)
      BY <2>1, <3>1 DEF Untouched, At, Rows
    <3>3. QED BY <1>i, <2>1, <3>1, <3>2 DEF RaceInv, Alone
  <2>3. TokenInv'
    BY <1>i, <2>1 DEF TokenInv, PassedTokenIsRevoked, OneLiveTokenUnlessRaced, Unrevoked, Given,
       GuardKnows, At
  <2>4. LinkOnlyByRace'
    BY <1>i, <2>1 DEF LinkOnlyByRace, Linked
  <2>5. QED BY <1>i, <2>2, <2>3, <2>4 DEF AllInv
<1>2. ASSUME NEW r \in Request, Begin(r) \/ Step(r) PROVE AllInv'
  <2>1. Turns(r)
    BY <1>2, <1>i, NextTurns
  <2>2. RaceInv'
    BY <1>i, <2>1, RaceStep DEF Turns
  <2>a. ASSUME UNCHANGED reauth, req'[r].pc \notin {"guardFind", "guardList", "guardSave"}
        PROVE  TokenInv'
    BY <1>i, <2>1, <2>a, TokensKept
  <2>b. ASSUME UNCHANGED links PROVE LinkOnlyByRace'
    BY <1>i, <2>b DEF LinkOnlyByRace, Linked
  <2>3. CASE (EmailStart(r) \/ EmailStep(r)) /\ UNCHANGED <<oauthVars, reauthVars>>
    BY <1>i, <2>2, <2>3, <2>a, <2>b, NotGuarded DEF AllInv, oauthVars, reauthVars
  <2>4. CASE (OAuthStart(r) \/ OAuthStep(r)) /\ UNCHANGED <<emailVars, reauthVars>>
    BY <1>i, <2>2, <2>4, <2>a, LinkStep, NotGuarded DEF AllInv, reauthVars
  <2>5. CASE (ReAuthStart(r) \/ ReAuthStep(r)) /\ UNCHANGED <<emailVars, oauthVars>>
    BY <1>i, <2>1, <2>2, <2>5, <2>b, TokenStep DEF AllInv, oauthVars
  <2>6. CASE /\ \/ RoleStep(r)
                \/ \E by, u \in User : \/ Remove(r, by, u)
                                       \/ \E role \in Role : ChangeRole(r, by, u, role)
             /\ UNCHANGED <<emailVars, oauthVars, reauthVars>>
    BY <1>i, <2>2, <2>6, <2>a, <2>b, NotGuarded DEF AllInv, oauthVars, reauthVars
  <2>7. QED BY <1>2, <2>3, <2>4, <2>5, <2>6 DEF Begin, Step
<1>3. QED BY <1>1, <1>2 DEF Next

-----------------------------------------------------------------------------
(* The theorems.                                                           *)

LEMMA Always == Spec => []AllInv
BY InitAll, NextAll, PTL DEF Spec

\* A token that ReAuthGuard has let pass is revoked from then on, however many
\* requests carry it at the same time.
THEOREM PassedTokensRevoked == Spec => []PassedTokenIsRevoked
<1>1. AllInv => PassedTokenIsRevoked
  BY DEF AllInv, TokenInv
<1>2. QED BY Always, <1>1, PTL

\* One token, one request, unless another request overlaps the one that uses it.
THEOREM TokenPassesOnce == Spec => SecondPassOnlyByRace
<1>1. AllInv => [\A r \in Request : req[r].pc \in {"guardList", "guardSave"} /\ req'[r].pc = "pwdBegin"
                                       /\ reauth[req[r].item].passed => r \in met]_vars
  <2>1. ASSUME AllInv, NEW r \in Request, req[r].pc \in {"guardList", "guardSave"}, r \notin met
        PROVE  ~reauth[req[r].item].passed
    <3>1. req[r].item \in Token /\ ~reauth[req[r].item].revoked
      BY <2>1 DEF AllInv, RaceInv, Untouched, Unrevoked
    <3>2. QED BY <2>1, <3>1 DEF AllInv, TokenInv, PassedTokenIsRevoked
  <2>2. QED BY <2>1
<1>2. QED BY Always, <1>1, PTL DEF SecondPassOnlyByRace

\* reauthenticate leaves a user with the token it gives and no other one, unless
\* two calls overlap.
THEOREM OneLiveToken == Spec => []OneLiveTokenUnlessRaced
<1>1. AllInv => OneLiveTokenUnlessRaced
  BY DEF AllInv, TokenInv
<1>2. QED BY Always, <1>1, PTL

\* A provider's account is linked to one user, unless the requests overlap.
THEOREM OneLink == Spec => []LinkOnlyByRace
<1>1. AllInv => LinkOnlyByRace
  BY DEF AllInv
<1>2. QED BY Always, <1>1, PTL

\* What a step may do to the columns of a user.
Columns(u) ==
    /\ users'[u].email # users[u].email => Means({"confirmWrite", "rollbackWrite"})
    /\ users'[u].role # users[u].role => Means({"roleSave"})
    /\ users'[u].deleted # users[u].deleted => Means({"remove"})
    /\ users'[u].secret # users[u].secret => Means({"pwdWrite"})

LEMMA ColumnsStep ==
    ASSUME AllInv, [Next]_vars, NEW v \in User, Exists(v)
    PROVE  Columns(v)
<1>a. /\ req \in [Request -> RequestState] /\ users \in [User -> UserRow]
      /\ \A r \in Request : r \notin met => Untouched(r)
  BY DEF AllInv, Inv, Requests, RowsTyped, RaceInv
<1>s. ASSUME users'[v] = users[v] PROVE Columns(v)
  BY <1>s DEF Columns
<1>1. CASE UNCHANGED vars
  BY <1>s, <1>1 DEF vars, rowVars
<1>2. ASSUME NEW r \in Request, Begin(r) PROVE Columns(v)
  BY <1>s, <1>2, GuardsAssumption
  DEF Begin, EmailStart, Update, Confirm, Rollback, OAuthStart, OauthLogin, LinkProvider,
      UnlinkProvider, ReAuthStart, Reauthenticate, Protected, ChangeRole, Remove, KeepRows
<1>3. ASSUME NEW r \in Request, Step(r) PROVE Columns(v)
  <2>1. req[r] \in RequestState /\ (r \notin met => Untouched(r))
    BY <1>a
  <2>p. ASSUME NEW u \in User, NEW row, Put(u, row) PROVE users'[v] = IF v = u THEN row ELSE users[v]
    BY <1>a, <2>p DEF Put
  <2>k. ASSUME KeepRows PROVE Columns(v)
    BY <1>s, <2>k DEF KeepRows
\* The request that writes ends, so it is the one that means it.
  <2>m. ASSUME NEW labels, req'[r].pc # req[r].pc, req[r].pc \in labels \/ r \in met
        PROVE  Means(labels)
    BY <2>m DEF Means
  <2>d. ASSUME Done(r), ~At(r, "idle") PROVE req'[r].pc # req[r].pc
    BY <1>a, <2>d DEF Done, Idle, At
  <2>2. CASE UpdateWrite(r)
    <3> DEFINE u == req[r].user
               row == [users[u] EXCEPT !.email = req[r].email]
    <3>1. At(r, "updateWrite") /\ Done(r) /\ (KeepRows \/ Put(u, row))
      BY <2>2 DEF UpdateWrite
    <3>2. u \in User /\ users[u] \in UserRow
      BY <1>a, <3>1 DEF AllInv, Inv, Requests, Knows, At
    <3>3. row.role = users[u].role /\ row.deleted = users[u].deleted /\ row.secret = users[u].secret
          /\ row.email = req[r].email
      BY <3>2 DEF UserRow
    <3>4. r \notin met => row.email = users[u].email
      BY <2>1, <3>1, <3>3 DEF Untouched, At
    <3> HIDE DEF row
    <3>5. CASE Put(u, row)
      BY <2>d, <2>m, <2>p, <3>1, <3>2, <3>3, <3>4, <3>5 DEF Columns, At
    <3>6. QED BY <2>k, <3>1, <3>5
  <2>3. CASE ConfirmWrite(r)
    <3> DEFINE u == req[r].user
               row == [users[u] EXCEPT !.email = changes[req[r].item].new]
    <3>1. At(r, "confirmWrite") /\ (KeepRows \/ (Put(u, row) /\ req'[r].pc = "confirmMail"))
      BY <1>a, <2>3 DEF ConfirmWrite, RequestState
    <3>2. u \in User /\ users[u] \in UserRow
      BY <1>a, <3>1 DEF AllInv, Inv, Requests, Knows, At
    <3>3. row.role = users[u].role /\ row.deleted = users[u].deleted /\ row.secret = users[u].secret
      BY <3>2 DEF UserRow
    <3> HIDE DEF row
    <3>4. CASE Put(u, row) /\ req'[r].pc = "confirmMail"
      BY <2>m, <2>p, <3>1, <3>2, <3>3, <3>4 DEF Columns, At
    <3>5. QED BY <2>k, <3>1, <3>4
  <2>4. CASE RollbackWrite(r)
    <3> DEFINE u == req[r].user
               row == GivenBack(r)
    <3>1. At(r, "rollbackWrite") /\ Done(r) /\ (KeepRows \/ Put(u, row))
      BY <2>4 DEF RollbackWrite
    <3>2. u \in User /\ users[u] \in UserRow
      BY <1>a, <3>1 DEF AllInv, Inv, Requests, Knows, At
    <3>3. row.role = req[r].seen.role /\ row.deleted = FALSE /\ row.secret = users[u].secret
      BY <3>2 DEF GivenBack, UserRow
    <3>4. r \notin met => row.role = users[u].role /\ row.deleted = users[u].deleted
      <4>1. r \notin met => req[r].seen = users[u] /\ ~users[u].deleted
        BY <2>1, <3>1 DEF Untouched, At
      <4>2. users[u].deleted \in BOOLEAN
        BY <3>2 DEF UserRow
      <4>3. QED BY <3>3, <4>1, <4>2
    <3> HIDE DEF row
    <3>5. CASE Put(u, row)
      BY <2>d, <2>m, <2>p, <3>1, <3>2, <3>3, <3>4, <3>5 DEF Columns, At
    <3>6. QED BY <2>k, <3>1, <3>5
  <2>5. CASE RoleSave(r)
    <3> DEFINE u == req[r].user
               seen == req[r].seen
               row == [users[u] EXCEPT !.role = req[r].role, !.email = seen.email,
                                       !.secret = seen.secret]
    <3>1. At(r, "roleSave") /\ Done(r) /\ (KeepRows \/ Put(u, row))
      BY <2>5 DEF RoleSave
    <3>2. u \in User /\ users[u] \in UserRow
      BY <1>a, <3>1 DEF AllInv, Inv, Requests, Knows, At
    <3>3. row.deleted = users[u].deleted /\ row.email = seen.email /\ row.secret = seen.secret
      BY <3>2 DEF UserRow
    <3>4. r \notin met => row.email = users[u].email /\ row.secret = users[u].secret
      BY <2>1, <3>1, <3>3 DEF Untouched, At
    <3> HIDE DEF row, seen, u
    <3>5. CASE Put(u, row)
      <4>1. users'[v] = IF v = u THEN row ELSE users[v]
        BY <2>p, <3>2, <3>5
      <4>2. Means({"roleSave"}) /\ (r \in met => \A labels : Means(labels))
        BY <2>d, <2>m, <3>1 DEF At
      <4>3. r \in met \/ (row.email = users[u].email /\ row.secret = users[u].secret)
        BY <3>4
      <4>4. r \in met => Columns(v)
        BY <4>2 DEF Columns
      <4>5. QED BY <1>s, <3>3, <4>1, <4>2, <4>3, <4>4 DEF Columns
    <3>6. QED BY <2>k, <3>1, <3>5
  <2>6. CASE RemoveRow(r)
    <3> DEFINE u == req[r].user
               row == [users[u] EXCEPT !.deleted = TRUE]
    <3>1. At(r, "remove") /\ (KeepRows \/ (Done(r) /\ Put(u, row)))
      BY <2>6 DEF RemoveRow
    <3>2. u \in User /\ users[u] \in UserRow
      BY <1>a, <3>1 DEF AllInv, Inv, Requests, Knows, At
    <3>3. row.role = users[u].role /\ row.email = users[u].email /\ row.secret = users[u].secret
      BY <3>2 DEF UserRow
    <3> HIDE DEF row
    <3>4. CASE Done(r) /\ Put(u, row)
      BY <2>d, <2>m, <2>p, <3>1, <3>2, <3>3, <3>4 DEF Columns, At
    <3>5. QED BY <2>k, <3>1, <3>4
  <2>7. CASE PwdWrite(r)
    <3> DEFINE u == req[r].by
    <3>1. At(r, "pwdWrite") /\ Done(r)
          /\ (KeepRows \/ \E n \in FreshSecrets(u) : Put(u, [users[u] EXCEPT !.secret = n]))
      BY <2>7 DEF PwdWrite
    <3>2. u \in User /\ users[u] \in UserRow
      BY <1>a, <3>1 DEF AllInv, Inv, Requests, Knows, At
    <3>3. ASSUME NEW n, Put(u, [users[u] EXCEPT !.secret = n]) PROVE Columns(v)
      <4> DEFINE row == [users[u] EXCEPT !.secret = n]
      <4>1. row.role = users[u].role /\ row.email = users[u].email /\ row.deleted = users[u].deleted
        BY <3>2 DEF UserRow
      <4> HIDE DEF row
      <4>2. Put(u, row)
        BY <3>3 DEF row
      <4>3. QED BY <2>d, <2>m, <2>p, <3>1, <3>2, <4>1, <4>2 DEF Columns, At
    <3>4. QED BY <2>k, <3>1, <3>3
  <2>8. CASE LoginCommit(r)
    <3>1. KeepRows \/ \E u \in User : ~Exists(u) /\ Put(u, NewUser(req[r].email, DefaultRole))
      BY <2>8 DEF LoginCommit
    <3>2. QED BY <1>s, <2>k, <2>p, <3>1
  <2>9. QED
    BY <1>3, <2>k, <2>2, <2>3, <2>4, <2>5, <2>6, <2>7, <2>8
    DEF Step, EmailStep, UpdateFind, UpdateCheck, UpdateMail, UpdateCommit, ConfirmBegin,
        ConfirmUser, ConfirmMail, OAuthStep, LoginLink, LoginEmail, LoginRole, LoginNewRole,
        LoginRow, SessionBegin, SessionUser, LinkUser, LinkRowLookup, LinkInsert, UnlinkFind,
        UnlinkDelete, ReAuthStep, ReauthPassword, ReauthRevoke, ReauthInsert, GuardFind, GuardList,
        GuardSave, PwdBegin, PwdCredential, PwdUser, PwdNew, RoleStep, ChangeRoleFind
<1>4. QED BY <1>1, <1>2, <1>3 DEF Next

\* No handler undoes what another has written to a user, unless they overlap:
\* changeRole, the rollback and update write columns they were not asked to
\* change, with the values they have read.
THEOREM ColumnsAreKept == Spec => ColumnsKept
<1>1. AllInv /\ [Next]_vars => \A u \in User : Exists(u) => Columns(u)
  BY ColumnsStep
<1>2. QED BY Always, <1>1, PTL DEF Spec, ColumnsKept, Columns

=============================================================================
