---------------------------- MODULE AttemptsProofs ----------------------------
(* Theorems about Attempts, for all limits, blocks, addresses and requests. *)
EXTENDS Attempts, FiniteSetTheorems, TLAPS

-----------------------------------------------------------------------------
(* calculateBlock.                                                         *)

LEMMA Counts ==
    /\ Cardinality({1}) = 1
    /\ Cardinality({1} \cup {2}) = 2
    /\ Cardinality(({1} \cup {2}) \cup {3}) = 3
  <1>1. IsFiniteSet({1}) /\ Cardinality({1}) = 1
    BY FS_Singleton
  <1>2. IsFiniteSet({1} \cup {2}) /\ Cardinality({1} \cup {2}) = 2
    <2>1. 2 \notin {1}
      OBVIOUS
    <2>2. QED
      BY <1>1, <2>1, FS_AddElement
  <1>3. Cardinality(({1} \cup {2}) \cup {3}) = 3
    <2>1. 3 \notin {1} \cup {2}
      OBVIOUS
    <2>2. QED
      BY <1>2, <2>1, FS_AddElement
  <1>4. QED
    BY <1>1, <1>2, <1>3

\* One of its four outcomes.
LEMMA BlockCases ==
    ASSUME now \in Nat, NEW n \in Nat
    PROVE  \/ n < Limits[1] /\ CalculateBlock(n) = 0
           \/ n >= Limits[1] /\ n < Limits[2] /\ CalculateBlock(n) = now + Blocks[1]
           \/ n >= Limits[2] /\ n < Limits[3] /\ CalculateBlock(n) = now + Blocks[2]
           \/ n >= Limits[3] /\ CalculateBlock(n) = now + Blocks[3]
  <1> DEFINE reached == {i \in 1..3 : n >= Limits[i]}
  <1>1. /\ Limits[1] \in Nat /\ Limits[2] \in Nat /\ Limits[3] \in Nat
        /\ Limits[1] < Limits[2] /\ Limits[2] < Limits[3]
    BY AttemptsAssumption
  <1>2. \A i \in 1..3 : i = 1 \/ i = 2 \/ i = 3
    OBVIOUS
  <1>3. CASE n < Limits[1]
    <2>1. reached = {}
      BY <1>1, <1>2, <1>3
    <2>2. QED
      BY <1>3, <2>1 DEF CalculateBlock
  <1>4. CASE n >= Limits[1] /\ n < Limits[2]
    <2>1. reached = {1}
      BY <1>1, <1>2, <1>4
    <2>2. Cardinality(reached) = 1
      BY <2>1, Counts
    <2>3. QED
      BY <1>4, <2>1, <2>2 DEF CalculateBlock
  <1>5. CASE n >= Limits[2] /\ n < Limits[3]
    <2>1. reached = {1} \cup {2}
      BY <1>1, <1>2, <1>5
    <2>2. Cardinality(reached) = 2
      BY <2>1, Counts
    <2>3. QED
      BY <1>5, <2>1, <2>2 DEF CalculateBlock
  <1>6. CASE n >= Limits[3]
    <2>1. reached = ({1} \cup {2}) \cup {3}
      BY <1>1, <1>2, <1>6
    <2>2. Cardinality(reached) = 3
      BY <2>1, Counts
    <2>3. QED
      BY <1>6, <2>1, <2>2 DEF CalculateBlock
  <1>7. QED
    BY <1>1, <1>3, <1>4, <1>5, <1>6

\* The block a count asks for, at most from now on.
Asks(attempts, until) ==
    /\ until # 0 <=> attempts >= Limits[1]
    /\ \A i \in 1..2 : attempts < Limits[i + 1] => until <= now + Blocks[i]
    /\ until <= now + Blocks[3]

LEMMA BlockAsked ==
    ASSUME now \in Nat, now > 0, NEW n \in Nat
    PROVE  CalculateBlock(n) \in Nat /\ Asks(n, CalculateBlock(n))
  <1>1. /\ Limits[1] \in Nat /\ Limits[2] \in Nat /\ Limits[3] \in Nat
        /\ Limits[1] < Limits[2] /\ Limits[2] < Limits[3]
        /\ Blocks[1] \in Nat /\ Blocks[2] \in Nat /\ Blocks[3] \in Nat
        /\ Blocks[1] < Blocks[2] /\ Blocks[2] < Blocks[3]
    BY AttemptsAssumption
  <1>2. CalculateBlock(n) \in Nat /\ (CalculateBlock(n) # 0 <=> n >= Limits[1])
    BY <1>1, BlockCases
  <1>3. n < Limits[2] => CalculateBlock(n) <= now + Blocks[1]
    BY <1>1, BlockCases
  <1>4. n < Limits[3] => CalculateBlock(n) <= now + Blocks[2]
    BY <1>1, BlockCases
  <1>5. CalculateBlock(n) <= now + Blocks[3]
    BY <1>1, BlockCases
  <1>6. \A i \in 1..2 : i = 1 \/ i = 2
    OBVIOUS
  <1>7. QED
    BY <1>1, <1>2, <1>3, <1>4, <1>5, <1>6 DEF Asks

\* A later failure asks for a block that ends no earlier.
LEMMA BlockGrows ==
    ASSUME now \in Nat, NEW n \in Nat, NEW until \in Nat, Asks(n, until)
    PROVE  CalculateBlock(n + 1) >= until
  <1>1. /\ Limits[1] \in Nat /\ Limits[2] \in Nat /\ Limits[3] \in Nat
        /\ Limits[1] < Limits[2] /\ Limits[2] < Limits[3]
        /\ Blocks[1] \in Nat /\ Blocks[2] \in Nat /\ Blocks[3] \in Nat
        /\ Blocks[1] < Blocks[2] /\ Blocks[2] < Blocks[3]
    BY AttemptsAssumption
  <1>2. /\ n < Limits[1] => until = 0
        /\ n < Limits[2] => until <= now + Blocks[1]
        /\ n < Limits[3] => until <= now + Blocks[2]
        /\ until <= now + Blocks[3]
    BY <1>1 DEF Asks
  <1>3. QED
    BY <1>1, <1>2, BlockCases

\* Time passes: what a count asked for is still within its bounds.
LEMMA AsksLater ==
    ASSUME now \in Nat, now' = now + 1, NEW n \in Nat, NEW until \in Nat, Asks(n, until)
    PROVE  Asks(n, until)'
  BY AttemptsAssumption DEF Asks

-----------------------------------------------------------------------------
(* Type correctness.                                                       *)

\* What a request keeps: an entity that counts a failure, has an id the sequence
\* has handed out or none, and was compared with the row of that id or none.
Holds(q) ==
    /\ q.pc # "idle" => q.email \in Email
    /\ q.pc \in {"save", "write"} => q.entity.attempts > 0 /\ q.entity.id <= lastId
    /\ q.pc = "write" => q.loaded = NoRow \/ (q.loaded.id = q.entity.id /\ q.entity.id # 0)

Inv ==
    /\ TypeOK
    /\ now > 0
    /\ \A e \in Email : rows[e].id = 0 => rows[e] = NoRow
    /\ \A r \in Request : Holds(req[r])

LEMMA Values == NoRow \in Row /\ Idle \in RequestState /\ Holds(Idle)
  BY DEF NoRow, Row, Idle, RequestState, Pc, Holds

LEMMA InvInit == ASSUME Init PROVE Inv
  BY Values DEF Init, Inv, TypeOK, NoRow, Row

\* A step that writes one row, or none, and ends the request.
LEMMA InvOfWrite ==
    ASSUME Inv, NEW r \in Request, NEW e \in Email, NEW row \in Row, Done(r),
           rows' = [rows EXCEPT ![e] = row],
           lastId' \in Nat, lastId <= lastId',
           failures' \in [Email -> Nat], mixed' \in [Email -> BOOLEAN], torn' \in [Email -> BOOLEAN],
           UNCHANGED now,
           row = NoRow \/ (row.id # 0 /\ row.id <= lastId' /\ row.attempts > 0)
    PROVE  Inv'
  <1>1. rows' \in [Email -> Row]
    BY DEF Inv, TypeOK
  <1>2. \A d \in Email : \/ rows'[d] = NoRow
                         \/ rows'[d].id # 0 /\ rows'[d].id <= lastId' /\ rows'[d].attempts > 0
    BY DEF Inv, TypeOK, Row
  <1>3. req' \in [Request -> RequestState]
    BY Values DEF Inv, TypeOK, Done
  <1>4. \A s \in Request : Holds(req[s])'
    BY Values DEF Inv, TypeOK, Done, Holds, RequestState, Row
  <1>5. QED
    BY <1>1, <1>2, <1>3, <1>4 DEF Inv, TypeOK, NoRow

\* A step that changes one request only.
LEMMA InvOfRequest ==
    ASSUME Inv, NEW r \in Request, NEW q \in RequestState, Holds(q),
           req' = [req EXCEPT ![r] = q],
           UNCHANGED <<rows, lastId, failures, mixed, torn, now>>
    PROVE  Inv'
  <1>1. req' \in [Request -> RequestState]
    BY DEF Inv, TypeOK
  <1>2. \A s \in Request : Holds(req[s])'
    BY DEF Inv, TypeOK, Holds
  <1>3. QED
    BY <1>1, <1>2 DEF Inv, TypeOK

LEMMA InvStep == ASSUME Inv, [Next]_vars PROVE Inv'
  <1>1. ASSUME NEW r \in Request, NEW e \in Email, SignIn(r, e) \/ Verify(r, e) PROVE Inv'
    <2>1. ASSUME NEW label \in {"password", "find", "reset"}, Enter(r, e, label) PROVE Inv'
      <3> DEFINE q == [Idle EXCEPT !.pc = label, !.email = e]
      <3>1. q \in RequestState /\ Holds(q)
        BY Values DEF RequestState, Pc, Holds, Idle
      <3>2. req' = [req EXCEPT ![r] = q]
        BY <2>1 DEF Enter
      <3>3. UNCHANGED <<rows, lastId, failures, mixed, torn, now>>
        BY <1>1 DEF SignIn, Verify
      <3> HIDE DEF q
      <3>4. QED
        BY <3>1, <3>2, <3>3, InvOfRequest
    <2>2. QED
      BY <1>1, <2>1 DEF SignIn, Verify
  <1>2. ASSUME NEW r \in Request, CheckPassword(r) PROVE Inv'
    <2>1. PICK label \in {"find", "reset"} : req' = [req EXCEPT ![r].pc = label]
      BY <1>2 DEF CheckPassword
    <2> DEFINE q == [req[r] EXCEPT !.pc = label]
    <2>2. q \in RequestState /\ Holds(q)
      BY <1>2 DEF CheckPassword, At, Inv, TypeOK, RequestState, Pc, Holds
    <2>3. req' = [req EXCEPT ![r] = q] /\ UNCHANGED <<rows, lastId, failures, mixed, torn, now>>
      BY <1>2, <2>1 DEF CheckPassword
    <2> HIDE DEF q
    <2>4. QED
      BY <2>2, <2>3, InvOfRequest
  <1>3. ASSUME NEW r \in Request, FindAttempt(r) PROVE Inv'
    <2> DEFINE row == rows[req[r].email]
               entity == [id |-> row.id, attempts |-> row.attempts + 1,
                          until |-> CalculateBlock(row.attempts + 1)]
               q == [req[r] EXCEPT !.pc = "save", !.entity = entity]
    <2>1. req[r].email \in Email /\ row \in Row /\ row.id <= lastId
      BY <1>3 DEF FindAttempt, At, Inv, TypeOK, Holds
    <2>2. entity \in Row /\ entity.attempts > 0
      BY <2>1, BlockAsked DEF Row, Inv, TypeOK
    <2>3. q \in RequestState /\ Holds(q)
      BY <2>1, <2>2 DEF Inv, TypeOK, RequestState, Pc, Holds
    <2>4. req' = [req EXCEPT ![r] = q] /\ UNCHANGED <<rows, lastId, failures, mixed, torn, now>>
      BY <1>3 DEF FindAttempt, Inv, TypeOK
    <2> HIDE DEF q
    <2>5. QED
      BY <2>3, <2>4, InvOfRequest
  <1>4. ASSUME NEW r \in Request, Reload(r) PROVE Inv'
    <2> DEFINE row == rows[req[r].email]
               loaded == IF row.id = req[r].entity.id THEN row ELSE NoRow
               q == [req[r] EXCEPT !.pc = "write", !.loaded = loaded]
    <2>1. req[r].email \in Email /\ row \in Row /\ (row.id = 0 => row = NoRow)
      BY <1>4 DEF Reload, At, Inv, TypeOK, Holds
    <2>2. loaded \in Row /\ (loaded = NoRow \/ (loaded.id = req[r].entity.id /\ req[r].entity.id # 0))
      <3>1. NoRow \in Row
        BY Values
      <3> HIDE DEF row
      <3>2. CASE row.id = req[r].entity.id
        BY <2>1, <3>2
      <3>3. CASE row.id # req[r].entity.id
        BY <3>1, <3>3
      <3>4. QED
        BY <3>2, <3>3
    <2> HIDE DEF loaded
    <2>3. q \in RequestState /\ Holds(q)
      BY <1>4, <2>1, <2>2 DEF Reload, At, Inv, TypeOK, RequestState, Pc, Holds
    <2>4. req' = [req EXCEPT ![r] = q] /\ UNCHANGED <<rows, lastId, failures, mixed, torn, now>>
      BY <1>4 DEF Reload, Inv, TypeOK, loaded
    <2> HIDE DEF q
    <2>5. QED
      BY <2>3, <2>4, InvOfRequest
  <1>5. ASSUME NEW r \in Request, NEW e \in Email, NEW row \in Row, Write(r, e, row)
        PROVE  /\ failures' \in [Email -> Nat]
               /\ mixed' \in [Email -> BOOLEAN]
               /\ torn' \in [Email -> BOOLEAN]
               /\ rows' = [rows EXCEPT ![e] = row]
    BY <1>5 DEF Write, Inv, TypeOK, Reading, Writing
  <1>6. ASSUME NEW r \in Request, Done(r), UNCHANGED <<rows, lastId, failures, mixed, torn, now>> PROVE Inv'
    BY <1>6, Values, InvOfRequest DEF Done
  <1>7. ASSUME NEW r \in Request, InsertAttempt(r) PROVE Inv'
    <2> DEFINE e == req[r].email
               entity == req[r].entity
               fresh == entity.id = 0
               row == [entity EXCEPT !.id = IF fresh THEN lastId + 1 ELSE @]
    <2>1. /\ e \in Email /\ entity \in Row /\ entity.attempts > 0 /\ entity.id <= lastId
          /\ lastId \in Nat
      BY <1>7 DEF InsertAttempt, At, Inv, TypeOK, Holds, RequestState
    <2>2. CASE rows[e] = NoRow
      <3>1. Write(r, e, row) /\ lastId' = (IF fresh THEN lastId + 1 ELSE lastId) /\ Done(r) /\ UNCHANGED now
        BY <1>7, <2>2 DEF InsertAttempt
      <3>2. row \in Row /\ row.id # 0 /\ row.id <= lastId' /\ row.attempts > 0 /\ lastId' \in Nat /\ lastId <= lastId'
        BY <2>1, <3>1 DEF Row
      <3> HIDE DEF row, e
      <3>3. QED
        BY <1>5, <2>1, <3>1, <3>2, InvOfWrite
    <2>3. CASE rows[e] # NoRow
      BY <1>6, <1>7, <2>3 DEF InsertAttempt
    <2>4. QED
      BY <2>2, <2>3
  <1>8. ASSUME NEW r \in Request, UpdateAttempt(r) PROVE Inv'
    <2> DEFINE e == req[r].email
               entity == req[r].entity
               loaded == req[r].loaded
               row == [rows[e] EXCEPT !.attempts = IF entity.attempts = loaded.attempts THEN @ ELSE entity.attempts,
                                      !.until = IF entity.until = loaded.until THEN @ ELSE entity.until]
    <2>1. /\ e \in Email /\ entity \in Row /\ entity.attempts > 0 /\ entity.id # 0
          /\ rows[e] \in Row /\ rows[e].id <= lastId /\ (rows[e].id # 0 <=> rows[e].attempts > 0)
          /\ lastId \in Nat
      BY <1>8 DEF UpdateAttempt, At, Inv, TypeOK, Holds, RequestState
    <2>2. CASE rows[e].id = entity.id
      <3>1. Write(r, e, row) /\ Done(r) /\ UNCHANGED <<lastId, now>>
        BY <1>8, <2>2 DEF UpdateAttempt
      <3>2. row \in Row /\ row.id # 0 /\ row.id <= lastId /\ row.attempts > 0
        BY <2>1, <2>2 DEF Row
      <3> HIDE DEF row, e
      <3>3. QED
        BY <1>5, <2>1, <3>1, <3>2, InvOfWrite
    <2>3. CASE rows[e].id # entity.id
      BY <1>6, <1>8, <2>3 DEF UpdateAttempt
    <2>4. QED
      BY <2>2, <2>3
  <1>9. ASSUME NEW r \in Request, Reset(r) PROVE Inv'
    <2>1. req[r].email \in Email
      BY <1>9 DEF Reset, At, Inv, Holds
    <2>2. /\ rows' = [rows EXCEPT ![req[r].email] = NoRow]
          /\ failures' \in [Email -> Nat] /\ mixed' \in [Email -> BOOLEAN] /\ torn' \in [Email -> BOOLEAN]
      BY <1>9, <2>1 DEF Reset, Inv, TypeOK, Reading, Writing
    <2>3. Done(r) /\ UNCHANGED now /\ lastId' \in Nat /\ lastId <= lastId'
      BY <1>9 DEF Reset, Inv, TypeOK
    <2>4. NoRow \in Row
      BY Values
    <2> HIDE DEF NoRow
    <2>5. QED
      BY <2>1, <2>2, <2>3, <2>4, InvOfWrite
  <1>10. ASSUME NEW r \in Request, Fail(r) PROVE Inv'
    BY <1>6, <1>10 DEF Fail
  <1>11. CASE Crash
    BY <1>11, Values DEF Crash, Inv, TypeOK, Holds
  <1>12. CASE Tick
    BY <1>12 DEF Tick, Inv, TypeOK, Holds
  <1>13. CASE UNCHANGED vars
    BY <1>13 DEF vars, Inv, TypeOK, Holds
  <1>14. QED
    BY <1>1, <1>2, <1>3, <1>4, <1>7, <1>8, <1>9, <1>10, <1>11, <1>12, <1>13 DEF Next, Step

\* Rows and requests always have the shape the code gives them: a row that
\* recordFailure has left counts a failure.
THEOREM TypeCorrect == Spec => []TypeOK
  <1>1. ASSUME Inv PROVE TypeOK
    BY <1>1 DEF Inv
  <1>2. QED
    BY <1>1, InvInit, InvStep, PTL DEF Spec

-----------------------------------------------------------------------------
(* Blocks match counts.                                                    *)

HasRead(r) == req[r].pc \in {"save", "write"}

\* Every entity a failure has computed asks for its own block, and what save()
\* has loaded is the row as it is, unless the address is torn.
MatchInv ==
    /\ \A e \in Email : ~torn[e] => Asks(rows[e].attempts, rows[e].until)
    /\ \A r \in Request : HasRead(r) => Asks(req[r].entity.attempts, req[r].entity.until)
    /\ \A r \in Request :
          At(r, "write") /\ ~torn[req[r].email] /\ req[r].loaded # NoRow => req[r].loaded = rows[req[r].email]

LEMMA NoneAsked == ASSUME now \in Nat PROVE Asks(NoRow.attempts, NoRow.until)
  BY AttemptsAssumption DEF NoRow, Asks

LEMMA MatchInit == ASSUME Init PROVE MatchInv
  BY NoneAsked DEF Init, MatchInv, HasRead, At, Idle

\* What save() does: nothing, or it writes a row - the entity, unless torn.
LEMMA SaveEffect ==
    ASSUME Inv, MatchInv, NEW r \in Request, InsertAttempt(r) \/ UpdateAttempt(r)
    PROVE  /\ At(r, "write") /\ Done(r) /\ UNCHANGED now
           /\ \/ UNCHANGED <<rows, failures, mixed, torn>>
              \/ \E row \in Row :
                    /\ Write(r, req[r].email, row)
                    /\ ~torn[req[r].email] => /\ row.attempts = req[r].entity.attempts
                                              /\ row.until = req[r].entity.until
  <1> DEFINE e == req[r].email
             entity == req[r].entity
             loaded == req[r].loaded
             Result ==
               \/ UNCHANGED <<rows, failures, mixed, torn>>
               \/ \E row \in Row :
                     /\ Write(r, e, row)
                     /\ ~torn[e] => row.attempts = entity.attempts /\ row.until = entity.until
  <1>1. At(r, "write") /\ Done(r) /\ UNCHANGED now
    BY DEF InsertAttempt, UpdateAttempt
  <1>2. e \in Email /\ entity \in Row /\ rows[e] \in Row /\ lastId \in Nat
    BY <1>1 DEF At, Inv, TypeOK, Holds, RequestState
  <1>3. CASE InsertAttempt(r)
    <2> DEFINE row == [entity EXCEPT !.id = IF entity.id = 0 THEN lastId + 1 ELSE @]
    <2>1. row \in Row /\ row.attempts = entity.attempts /\ row.until = entity.until
      BY <1>2 DEF Row
    <2>2. Write(r, e, row) \/ UNCHANGED <<rows, failures, mixed, torn>>
      BY <1>3 DEF InsertAttempt
    <2> HIDE DEF row
    <2>3. Result
      BY <2>1, <2>2
    <2>4. QED
      BY <1>1, <2>3
  <1>4. CASE UpdateAttempt(r)
    <2> DEFINE row == [rows[e] EXCEPT !.attempts = IF entity.attempts = loaded.attempts THEN @ ELSE entity.attempts,
                                      !.until = IF entity.until = loaded.until THEN @ ELSE entity.until]
    <2>1. row \in Row
      BY <1>2 DEF Row
    <2>2. ~torn[e] => loaded = rows[e]
      BY <1>1, <1>4 DEF UpdateAttempt, MatchInv
    <2>3. ~torn[e] => row.attempts = entity.attempts /\ row.until = entity.until
      BY <1>2, <2>2 DEF Row
    <2>4. Write(r, e, row) \/ UNCHANGED <<rows, failures, mixed, torn>>
      BY <1>4 DEF UpdateAttempt
    <2> HIDE DEF row
    <2>5. Result
      BY <2>1, <2>3, <2>4
    <2>6. QED
      BY <1>1, <2>5
  <1>5. QED
    BY <1>3, <1>4

\* Steps that read and write no row of auth_attempts.
Quiet ==
    /\ UNCHANGED <<rows, failures, mixed, torn, now>>
    /\ \A s \in Request : HasRead(s)' => req'[s] = req[s]

LEMMA QuietSteps ==
    ASSUME Inv,
           \/ \E r \in Request, e \in Email : SignIn(r, e) \/ Verify(r, e)
           \/ \E r \in Request : CheckPassword(r) \/ Fail(r)
           \/ Crash
           \/ UNCHANGED vars
    PROVE  Quiet
  <1>1. ASSUME NEW r \in Request, NEW e \in Email, SignIn(r, e) \/ Verify(r, e) PROVE Quiet
    <2>1. PICK label \in {"password", "find", "reset"} : Enter(r, e, label)
      BY <1>1 DEF SignIn, Verify
    <2>2. req'[r].pc = label /\ \A s \in Request \ {r} : req'[s] = req[s]
      BY <2>1 DEF Enter, Idle, Inv, TypeOK
    <2>3. QED
      BY <1>1, <2>2 DEF SignIn, Verify, Quiet, HasRead
  <1>2. ASSUME NEW r \in Request, CheckPassword(r) PROVE Quiet
    <2>1. PICK label \in {"find", "reset"} : req' = [req EXCEPT ![r].pc = label]
      BY <1>2 DEF CheckPassword
    <2>2. req'[r].pc = label /\ \A s \in Request \ {r} : req'[s] = req[s]
      BY <2>1 DEF Inv, TypeOK, RequestState
    <2>3. QED
      BY <1>2, <2>2 DEF CheckPassword, Quiet, HasRead
  <1>3. ASSUME NEW r \in Request, Fail(r) PROVE Quiet
    BY <1>3 DEF Fail, Done, Idle, Quiet, HasRead, Inv, TypeOK
  <1>4. CASE Crash
    BY <1>4 DEF Crash, Idle, Quiet, HasRead
  <1>5. CASE UNCHANGED vars
    BY <1>5 DEF vars, Quiet
  <1>6. QED
    BY <1>1, <1>2, <1>3, <1>4, <1>5

\* recordFailure's findOne.
LEMMA FindEffect ==
    ASSUME Inv, NEW r \in Request, FindAttempt(r)
    PROVE  /\ UNCHANGED <<rows, failures, mixed, torn, now>>
           /\ rows[req[r].email] \in Row /\ req[r].email \in Email
           /\ req'[r].pc = "save" /\ req'[r].email = req[r].email
           /\ req'[r].entity.attempts = rows[req[r].email].attempts + 1
           /\ req'[r].entity.until = CalculateBlock(rows[req[r].email].attempts + 1)
           /\ \A s \in Request \ {r} : req'[s] = req[s]
  BY DEF FindAttempt, At, Inv, TypeOK, Holds, RequestState

\* save()'s own read.
LEMMA ReloadEffect ==
    ASSUME Inv, NEW r \in Request, Reload(r)
    PROVE  /\ UNCHANGED <<rows, failures, mixed, torn, now>>
           /\ At(r, "save") /\ req[r].email \in Email
           /\ req'[r].pc = "write" /\ req'[r].email = req[r].email /\ req'[r].entity = req[r].entity
           /\ req'[r].loaded = IF rows[req[r].email].id = req[r].entity.id THEN rows[req[r].email] ELSE NoRow
           /\ \A s \in Request \ {r} : req'[s] = req[s]
  BY DEF Reload, At, Inv, TypeOK, Holds, RequestState

LEMMA DoneEffect ==
    ASSUME Inv, NEW r \in Request, Done(r)
    PROVE  req'[r].pc = "idle" /\ \A s \in Request \ {r} : req'[s] = req[s]
  BY DEF Done, Idle, Inv, TypeOK

LEMMA MatchStep == ASSUME Inv, MatchInv, [Next]_vars PROVE MatchInv'
  <1>1. CASE Quiet
    BY <1>1 DEF Quiet, MatchInv, Asks, HasRead, At
  <1>2. ASSUME NEW r \in Request, FindAttempt(r) PROVE MatchInv'
    <2> DEFINE n == rows[req[r].email].attempts + 1
    <2>1. /\ req'[r].pc = "save" /\ req'[r].entity.attempts = n /\ req'[r].entity.until = CalculateBlock(n)
          /\ n \in Nat
          /\ UNCHANGED <<rows, torn, now>>
          /\ \A s \in Request \ {r} : req'[s] = req[s]
      <3>1. rows[req[r].email].attempts \in Nat /\ rows[req[r].email].until \in Nat
        BY <1>2, FindEffect DEF Row
      <3>2. QED
        BY <1>2, <3>1, FindEffect
    <2>2. Asks(n, CalculateBlock(n))
      <3> HIDE DEF n
      <3>1. QED
        BY <2>1, BlockAsked DEF Inv, TypeOK
    <2>3. Asks(req'[r].entity.attempts, req'[r].entity.until)
      BY <2>1, <2>2
    <2>4. QED
      BY <2>1, <2>3 DEF MatchInv, Asks, HasRead, At
  <1>3. ASSUME NEW r \in Request, Reload(r) PROVE MatchInv'
    BY <1>3, ReloadEffect DEF MatchInv, Asks, HasRead, At
  <1>4. ASSUME NEW r \in Request, InsertAttempt(r) \/ UpdateAttempt(r) PROVE MatchInv'
    <2> DEFINE e == req[r].email
    <2>1. At(r, "write") /\ UNCHANGED now /\ req'[r].pc = "idle" /\ \A s \in Request \ {r} : req'[s] = req[s]
      BY <1>4, SaveEffect, DoneEffect
    <2>2. CASE UNCHANGED <<rows, failures, mixed, torn>>
      BY <2>1, <2>2 DEF MatchInv, Asks, HasRead, At
    <2>3. ASSUME NEW row \in Row, Write(r, e, row),
                 ~torn[e] => row.attempts = req[r].entity.attempts /\ row.until = req[r].entity.until
          PROVE  MatchInv'
      <3>1. /\ rows'[e] = row /\ \A d \in Email \ {e} : rows'[d] = rows[d] /\ torn'[d] = torn[d]
            /\ torn'[e] = (torn[e] \/ Writing(r, e))
            /\ e \in Email
        BY <2>1, <2>3 DEF Write, At, Inv, TypeOK, Holds
      <3>2. ~torn[e] => Asks(row.attempts, row.until)
        BY <2>1, <2>3 DEF MatchInv, HasRead, At
      <3>3. \A d \in Email : ~torn'[d] => Asks(rows'[d].attempts, rows'[d].until)
        BY <3>1, <3>2 DEF MatchInv
      <3>4. \A s \in Request : HasRead(s)' => Asks(req'[s].entity.attempts, req'[s].entity.until)
        BY <2>1 DEF MatchInv, HasRead
      <3>5. ASSUME NEW s \in Request, At(s, "write")', ~torn'[req'[s].email], req'[s].loaded # NoRow
            PROVE  req'[s].loaded = rows'[req'[s].email]
        <4>1. s # r /\ req'[s] = req[s] /\ At(s, "write") /\ req[s].email \in Email
          BY <2>1, <3>5 DEF At, Inv, Holds
        <4>2. req[s].email # e
          BY <3>1, <3>5, <4>1 DEF Writing
        <4>3. QED
          BY <3>1, <3>5, <4>1, <4>2 DEF MatchInv
      <3>6. QED
        BY <2>1, <3>3, <3>4, <3>5 DEF MatchInv, Asks
    <2>4. QED
      BY <1>4, <2>2, <2>3, SaveEffect
  <1>5. ASSUME NEW r \in Request, Reset(r) PROVE MatchInv'
    <2> DEFINE e == req[r].email
    <2>1. UNCHANGED now /\ req'[r].pc = "idle" /\ \A s \in Request \ {r} : req'[s] = req[s]
      BY <1>5, DoneEffect DEF Reset
    <2>2. /\ rows'[e] = NoRow /\ \A d \in Email \ {e} : rows'[d] = rows[d] /\ torn'[d] = torn[d]
          /\ torn'[e] = Writing(r, e)
          /\ e \in Email
      BY <1>5 DEF Reset, At, Inv, TypeOK, Holds
    <2>3. \A d \in Email : ~torn'[d] => Asks(rows'[d].attempts, rows'[d].until)
      BY <2>2, NoneAsked DEF MatchInv, Inv, TypeOK
    <2>4. \A s \in Request : HasRead(s)' => Asks(req'[s].entity.attempts, req'[s].entity.until)
      BY <2>1 DEF MatchInv, HasRead
    <2>5. ASSUME NEW s \in Request, At(s, "write")', ~torn'[req'[s].email], req'[s].loaded # NoRow
          PROVE  req'[s].loaded = rows'[req'[s].email]
      <3>1. s # r /\ req'[s] = req[s] /\ At(s, "write") /\ req[s].email \in Email
        BY <2>1, <2>5 DEF At, Inv, Holds
      <3>2. req[s].email # e
        BY <2>2, <2>5, <3>1 DEF Writing
      <3>3. QED
        BY <2>2, <2>5, <3>1, <3>2 DEF MatchInv
    <2>6. QED
      BY <2>1, <2>3, <2>4, <2>5 DEF MatchInv, Asks
  <1>6. CASE Tick
    <2>1. UNCHANGED <<rows, torn, req>> /\ now \in Nat /\ now' = now + 1
      BY <1>6 DEF Tick, Inv, TypeOK
    <2>2. \A e \in Email : ~torn[e] => Asks(rows[e].attempts, rows[e].until)'
      BY <2>1, AsksLater DEF MatchInv, Inv, TypeOK, Row
    <2>3. \A r \in Request : HasRead(r) => Asks(req[r].entity.attempts, req[r].entity.until)'
      BY <2>1, AsksLater DEF MatchInv, Inv, TypeOK, Row, RequestState
    <2>4. QED
      BY <2>1, <2>2, <2>3 DEF MatchInv, HasRead, At
  <1>7. QED
    BY <1>1, <1>2, <1>3, <1>4, <1>5, <1>6, QuietSteps DEF Next, Step

\* BlockMatchesCount: however recordFailure, its save() and reset interleave, the
\* block of an address is the one calculateBlock gives its count, unless two
\* saves straddled each other.
THEOREM BlockSafe == Spec => []BlockMatchesCount
  <1>1. ASSUME MatchInv PROVE BlockMatchesCount
    BY <1>1 DEF MatchInv, BlockMatchesCount, Asks
  <1>2. QED
    BY <1>1, InvInit, InvStep, MatchInit, MatchStep, PTL DEF Spec

-----------------------------------------------------------------------------
(* Counts are exact, and blocks only grow, where reads and saves do not        *)
(* overlap.                                                                    *)

\* What a request has read of an address that is not mixed is the row as it is,
\* with one failure more and a block that ends no earlier.
CountInv ==
    /\ \A e \in Email : torn[e] => mixed[e]
    /\ CountIsExact
    /\ \A r \in Request :
          HasRead(r) /\ ~mixed[req[r].email] =>
             /\ req[r].entity.attempts = rows[req[r].email].attempts + 1
             /\ req[r].entity.until >= rows[req[r].email].until

LEMMA CountInit == ASSUME Init PROVE CountInv
  BY DEF Init, CountInv, CountIsExact, HasRead, Idle, NoRow

LEMMA CountStep == ASSUME Inv, MatchInv, CountInv, [Next]_vars PROVE CountInv'
  <1>1. CASE Quiet
    BY <1>1 DEF Quiet, CountInv, CountIsExact, HasRead
  <1>2. ASSUME NEW r \in Request, FindAttempt(r) PROVE CountInv'
    <2> DEFINE row == rows[req[r].email]
    <2>1. /\ UNCHANGED <<rows, failures, mixed, torn>>
          /\ row.attempts \in Nat /\ row.until \in Nat /\ req[r].email \in Email
          /\ req'[r].email = req[r].email
          /\ req'[r].entity.attempts = row.attempts + 1
          /\ req'[r].entity.until = CalculateBlock(row.attempts + 1)
          /\ \A s \in Request \ {r} : req'[s] = req[s]
      <3>1. rows[req[r].email].attempts \in Nat /\ rows[req[r].email].until \in Nat
        BY <1>2, FindEffect DEF Row
      <3>2. QED
        BY <1>2, <3>1, FindEffect
    <2>2. ~torn[req[r].email] => CalculateBlock(row.attempts + 1) >= row.until
      <3>1. ~torn[req[r].email] => Asks(row.attempts, row.until)
        BY <2>1 DEF MatchInv
      <3> HIDE DEF row
      <3>2. QED
        BY <2>1, <3>1, BlockGrows DEF Inv, TypeOK
    <2>3. QED
      BY <2>1, <2>2 DEF CountInv, CountIsExact, HasRead
  <1>3. ASSUME NEW r \in Request, Reload(r) PROVE CountInv'
    BY <1>3, ReloadEffect DEF CountInv, CountIsExact, HasRead, At
  <1>4. ASSUME NEW r \in Request, InsertAttempt(r) \/ UpdateAttempt(r) PROVE CountInv'
    <2> DEFINE e == req[r].email
    <2>1. At(r, "write") /\ req'[r].pc = "idle" /\ \A s \in Request \ {r} : req'[s] = req[s]
      BY <1>4, SaveEffect, DoneEffect
    <2>2. CASE UNCHANGED <<rows, failures, mixed, torn>>
      BY <2>1, <2>2 DEF CountInv, CountIsExact, HasRead
    <2>3. ASSUME NEW row \in Row, Write(r, e, row),
                 ~torn[e] => row.attempts = req[r].entity.attempts /\ row.until = req[r].entity.until
          PROVE  CountInv'
      <3>1. /\ rows'[e] = row /\ failures'[e] = failures[e] + 1
            /\ mixed'[e] = (mixed[e] \/ Reading(r, e)) /\ torn'[e] = (torn[e] \/ Writing(r, e))
            /\ \A d \in Email \ {e} : /\ rows'[d] = rows[d] /\ failures'[d] = failures[d]
                                      /\ mixed'[d] = mixed[d] /\ torn'[d] = torn[d]
            /\ e \in Email
        BY <2>1, <2>3 DEF Write, At, Inv, TypeOK, Holds
      <3>2. Writing(r, e) => Reading(r, e)
        BY DEF Writing, Reading, At
      <3>3. ~mixed[e] => row.attempts = failures[e] + 1
        BY <2>1, <2>3, <3>1 DEF CountInv, CountIsExact, HasRead, At
      <3>4. ASSUME NEW s \in Request, HasRead(s)', ~mixed'[req'[s].email]
            PROVE  /\ req'[s].entity.attempts = rows'[req'[s].email].attempts + 1
                   /\ req'[s].entity.until >= rows'[req'[s].email].until
        <4>1. s # r /\ req'[s] = req[s] /\ HasRead(s) /\ req[s].email \in Email
          BY <2>1, <3>4 DEF HasRead, Inv, Holds
        <4>2. req[s].email # e
          BY <3>1, <3>4, <4>1 DEF Reading, HasRead
        <4>3. QED
          BY <3>1, <3>4, <4>1, <4>2 DEF CountInv
      <3>5. (\A d \in Email : torn[d] => mixed[d])' /\ CountIsExact'
        BY <3>1, <3>2, <3>3 DEF CountInv, CountIsExact
      <3>6. QED
        BY <3>4, <3>5 DEF CountInv
    <2>4. QED
      BY <1>4, <2>2, <2>3, SaveEffect
  <1>5. ASSUME NEW r \in Request, Reset(r) PROVE CountInv'
    <2> DEFINE e == req[r].email
    <2>1. req'[r].pc = "idle" /\ \A s \in Request \ {r} : req'[s] = req[s]
      BY <1>5, DoneEffect DEF Reset
    <2>2. /\ rows'[e].attempts = 0 /\ failures'[e] = 0
          /\ mixed'[e] = Reading(r, e) /\ torn'[e] = Writing(r, e)
          /\ \A d \in Email \ {e} : /\ rows'[d] = rows[d] /\ failures'[d] = failures[d]
                                    /\ mixed'[d] = mixed[d] /\ torn'[d] = torn[d]
          /\ e \in Email
      BY <1>5 DEF Reset, At, Inv, TypeOK, Holds, NoRow
    <2>3. Writing(r, e) => Reading(r, e)
      BY DEF Writing, Reading, At
    <2>4. ASSUME NEW s \in Request, HasRead(s)', ~mixed'[req'[s].email]
          PROVE  /\ req'[s].entity.attempts = rows'[req'[s].email].attempts + 1
                 /\ req'[s].entity.until >= rows'[req'[s].email].until
      <3>1. s # r /\ req'[s] = req[s] /\ HasRead(s) /\ req[s].email \in Email
        BY <2>1, <2>4 DEF HasRead, Inv, Holds
      <3>2. req[s].email # e
        BY <2>2, <2>4, <3>1 DEF Reading, HasRead
      <3>3. QED
        BY <2>2, <2>4, <3>1, <3>2 DEF CountInv
    <2>5. (\A d \in Email : torn[d] => mixed[d])' /\ CountIsExact'
      BY <2>2, <2>3 DEF CountInv, CountIsExact
    <2>6. QED
      BY <2>4, <2>5 DEF CountInv
  <1>6. CASE Tick
    BY <1>6 DEF Tick, CountInv, CountIsExact, HasRead
  <1>7. QED
    BY <1>1, <1>2, <1>3, <1>4, <1>5, <1>6, QuietSteps DEF Next, Step

\* CountIsExact: unless a save or reset falls between the read and the save of
\* another, the row counts the failures saved since the last reset.
THEOREM CountSafe == Spec => []CountIsExact
  BY InvInit, InvStep, MatchInit, MatchStep, CountInit, CountStep, PTL DEF Spec, CountInv

\* A step that changes the row of a blocked address resets it, or blocks it for
\* at least as long.
LEMMA HoldStep ==
    ASSUME Inv, MatchInv, CountInv, [Next]_vars,
           NEW e \in Email, Blocked(e), rows[e] # rows'[e]
    PROVE  rows'[e] = NoRow \/ rows'[e].until >= rows[e].until \/ mixed[e]
  <1>1. CASE Quiet \/ Tick
    BY <1>1 DEF Quiet, Tick
  <1>2. ASSUME NEW r \in Request, FindAttempt(r) \/ Reload(r) PROVE FALSE
    BY <1>2, FindEffect, ReloadEffect
  <1>3. ASSUME NEW r \in Request, InsertAttempt(r) \/ UpdateAttempt(r)
        PROVE  rows'[e].until >= rows[e].until \/ mixed[e]
    <2>1. PICK row \in Row :
            /\ At(r, "write")
            /\ Write(r, req[r].email, row)
            /\ ~torn[req[r].email] => row.until = req[r].entity.until
      BY <1>3, SaveEffect
    <2>2. e = req[r].email /\ rows'[e] = row
      BY <2>1 DEF Write, Inv, TypeOK
    <2>3. QED
      BY <2>1, <2>2 DEF CountInv, HasRead, At
  <1>4. ASSUME NEW r \in Request, Reset(r) PROVE rows'[e] = NoRow
    BY <1>4 DEF Reset, Inv, TypeOK
  <1>5. QED
    BY <1>1, <1>2, <1>3, <1>4, QuietSteps DEF Next, Step

\* BlockHolds: no failure shortens a block it has not read, whether it comes
\* past the guard from before or by verify2fa.
THEOREM HoldSafe == Spec => BlockHolds
  <1>1. ASSUME Inv, MatchInv, CountInv, [Next]_vars
        PROVE  [\A e \in Email : Blocked(e) /\ rows[e] # rows'[e] =>
                   \/ rows'[e] = NoRow
                   \/ rows'[e].until >= rows[e].until
                   \/ mixed[e]]_vars
    BY <1>1, HoldStep
  <1>2. QED
    BY <1>1, InvInit, InvStep, MatchInit, MatchStep, CountInit, CountStep, PTL DEF Spec, BlockHolds

=============================================================================
