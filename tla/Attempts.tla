------------------------------ MODULE Attempts ------------------------------
(***************************************************************************)
(* The count of failed sign-ins and the block it leads to: AttemptsService *)
(* (src/modules/auth/attempts), BruteForceGuard, and the handlers that use *)
(* them, login and verify2fa.  The count lives in one row per address; a   *)
(* failure reads it, adds one and saves the entity it read, without a      *)
(* transaction.                                                            *)
(***************************************************************************)
EXTENDS Naturals, FiniteSets

CONSTANTS
    Email,        \* the addresses clients send
    Request,      \* slots for the requests in flight at one time
    None,         \* the absent value
    Limits,       \* failures that lead to a block: <<5, 10, 15>>, scaled down
    Blocks,       \* how long each lasts: <<5 min, 30 min, 1 day>>, scaled down
    MaxAttempts,  \* bound on the failures counted in a row
    MaxRows,      \* bound on the rows inserted
    MaxClock      \* bound on the clock

ASSUME AttemptsAssumption ==
    /\ Limits \in [1..3 -> Nat \ {0}] /\ Limits[1] < Limits[2] /\ Limits[2] < Limits[3]
    /\ Blocks \in [1..3 -> Nat \ {0}] /\ Blocks[1] < Blocks[2] /\ Blocks[2] < Blocks[3]
    /\ MaxAttempts \in Nat /\ MaxRows \in Nat /\ MaxClock \in Nat

VARIABLES
    rows,      \* auth_attempts: id (0: no row), attempts, blockedUntil (0: null)
    lastId,    \* the last id the sequence has handed out
    failures,  \* history: failures saved for an address since it was last reset
    mixed,     \* history: addresses whose row was saved or reset between
               \* another request's read and its save
    torn,      \* history: or even between that save's reload and its UPDATE
    now,
    req        \* the requests in flight

vars == <<rows, lastId, failures, mixed, torn, now, req>>

-----------------------------------------------------------------------------
Row == [id : Nat, attempts : Nat, until : Nat]
NoRow == [id |-> 0, attempts |-> 0, until |-> 0]

Pc == {"idle", "password", "find", "save", "write", "reset"}

\* entity is the row a failure has read and changed, id 0 when there was none;
\* loaded is the row with its id that save() has read to compare it with.
RequestState == [pc : Pc, email : Email \cup {None}, entity : Row, loaded : Row]
Idle == [pc |-> "idle", email |-> None, entity |-> NoRow, loaded |-> NoRow]

At(r, label) == req[r].pc = label

\* Faulty: a limit is passed, not reached.
CalculateBlockAfter(n) ==
    LET passed == {i \in 1..3 : n > Limits[i]}
    IN  IF passed = {} THEN 0 ELSE now + Blocks[Cardinality(passed)]

\* Faulty: only the failure that reaches a limit blocks.
CalculateBlockAt(n) ==
    IF \E i \in 1..3 : n = Limits[i] THEN now + Blocks[CHOOSE i \in 1..3 : n = Limits[i]] ELSE 0

\* calculateBlock: the block of the highest limit reached, null below the first.
CalculateBlock(n) ==
    LET reached == {i \in 1..3 : n >= Limits[i]}
    IN  IF reached = {} THEN 0 ELSE now + Blocks[Cardinality(reached)]

\* BruteForceGuard: blockedUntil lies in the future.
Blocked(e) == rows[e].until # 0 /\ rows[e].until > now

\* Another request has read the row of e and not saved it.
Reading(r, e) == \E other \in Request \ {r} : req[other].pc \in {"save", "write"} /\ req[other].email = e
Writing(r, e) == \E other \in Request \ {r} : At(other, "write") /\ req[other].email = e

-----------------------------------------------------------------------------
Init ==
    /\ rows = [e \in Email |-> NoRow]
    /\ lastId = 0
    /\ failures = [e \in Email |-> 0]
    /\ mixed = [e \in Email |-> FALSE]
    /\ torn = [e \in Email |-> FALSE]
    /\ now = 1
    /\ req = [r \in Request |-> Idle]

Enter(r, e, label) == req' = [req EXCEPT ![r] = [Idle EXCEPT !.pc = label, !.email = e]]
Done(r) == req' = [req EXCEPT ![r] = Idle]

\* login behind the guard, up to bcrypt.compare; a refusal changes nothing.
SignIn(r, e) ==
    /\ At(r, "idle")
    /\ ~Blocked(e)
    /\ Enter(r, e, "password")
    /\ UNCHANGED <<rows, lastId, failures, mixed, torn, now>>

\* verify2fa has no guard: it comes to a wrong or a right code directly.
Verify(r, e) ==
    /\ At(r, "idle")
    /\ Enter(r, e, "find") \/ Enter(r, e, "reset")
    /\ UNCHANGED <<rows, lastId, failures, mixed, torn, now>>

\* The password is wrong, or right and the login goes on to its reset.
CheckPassword(r) ==
    /\ At(r, "password")
    /\ req' = [req EXCEPT ![r].pc = "find"] \/ req' = [req EXCEPT ![r].pc = "reset"]
    /\ UNCHANGED <<rows, lastId, failures, mixed, torn, now>>

\* Faulty: a new row has the column's default, 0.
FindAttemptFromZero(r) ==
    LET row == rows[req[r].email]
        n == IF row = NoRow THEN 0 ELSE row.attempts + 1
    IN
    /\ At(r, "find")
    /\ row.attempts < MaxAttempts
    /\ req' = [req EXCEPT ![r].pc = "save",
                          ![r].entity = [id |-> row.id, attempts |-> n, until |-> CalculateBlock(n)]]
    /\ UNCHANGED <<rows, lastId, failures, mixed, torn, now>>

\* recordFailure reads the row and computes the new count and block.
FindAttempt(r) ==
    LET row == rows[req[r].email] IN
    /\ At(r, "find")
    /\ row.attempts < MaxAttempts
    /\ req' = [req EXCEPT ![r].pc = "save",
                          ![r].entity = [id |-> row.id, attempts |-> row.attempts + 1,
                                         until |-> CalculateBlock(row.attempts + 1)]]
    /\ UNCHANGED <<rows, lastId, failures, mixed, torn, now>>

\* save() reads the row with the entity's id again, before its transaction.
Reload(r) ==
    LET row == rows[req[r].email] IN
    /\ At(r, "save")
    /\ req' = [req EXCEPT ![r].pc = "write",
                          ![r].loaded = IF row.id = req[r].entity.id THEN row ELSE NoRow]
    /\ UNCHANGED <<rows, lastId, failures, mixed, torn, now>>

\* Writing row for e counts the failure; what another request has read is stale.
Write(r, e, row) ==
    /\ rows' = [rows EXCEPT ![e] = row]
    /\ failures' = [failures EXCEPT ![e] = @ + 1]
    /\ mixed' = [mixed EXCEPT ![e] = @ \/ Reading(r, e)]
    /\ torn' = [torn EXCEPT ![e] = @ \/ Writing(r, e)]

\* A new entity, or one whose row is gone, is inserted, with the id it has; if
\* another row has the address by then, the INSERT fails.
InsertAttempt(r) ==
    LET e == req[r].email
        entity == req[r].entity
        fresh == entity.id = 0
    IN
    /\ At(r, "write") /\ req[r].loaded = NoRow
    /\ \/ /\ rows[e] = NoRow
          /\ fresh => lastId < MaxRows
          /\ Write(r, e, [entity EXCEPT !.id = IF fresh THEN lastId + 1 ELSE @])
          /\ lastId' = IF fresh THEN lastId + 1 ELSE lastId
       \/ /\ rows[e] # NoRow
          /\ UNCHANGED <<rows, lastId, failures, mixed, torn>>
    /\ Done(r)
    /\ UNCHANGED now

\* Otherwise the columns that differ from the reloaded row are updated, where
\* the row with that id still is.
UpdateAttempt(r) ==
    LET e == req[r].email
        entity == req[r].entity
        loaded == req[r].loaded
        row == rows[e]
    IN
    /\ At(r, "write") /\ loaded # NoRow
    /\ IF row.id # entity.id THEN UNCHANGED <<rows, failures, mixed, torn>>
       ELSE Write(r, e,
              [row EXCEPT !.attempts = IF entity.attempts = loaded.attempts THEN @ ELSE entity.attempts,
                          !.until = IF entity.until = loaded.until THEN @ ELSE entity.until])
    /\ Done(r)
    /\ UNCHANGED <<lastId, now>>

\* Faulty: the block is lifted, the count stays.
ResetBlockOnly(r) ==
    LET e == req[r].email IN
    /\ At(r, "reset")
    /\ rows' = [rows EXCEPT ![e].until = 0]
    /\ failures' = [failures EXCEPT ![e] = 0]
    /\ mixed' = [mixed EXCEPT ![e] = Reading(r, e)]
    /\ torn' = [torn EXCEPT ![e] = Writing(r, e)]
    /\ Done(r)
    /\ UNCHANGED <<lastId, now>>

\* A completed login deletes the row.
Reset(r) ==
    LET e == req[r].email IN
    /\ At(r, "reset")
    /\ rows' = [rows EXCEPT ![e] = NoRow]
    /\ failures' = [failures EXCEPT ![e] = 0]
    /\ mixed' = [mixed EXCEPT ![e] = Reading(r, e)]
    /\ torn' = [torn EXCEPT ![e] = Writing(r, e)]
    /\ Done(r)
    /\ UNCHANGED <<lastId, now>>

\* A statement of r fails, or the login ends before its reset.
Fail(r) ==
    /\ ~At(r, "idle")
    /\ Done(r)
    /\ UNCHANGED <<rows, lastId, failures, mixed, torn, now>>

Crash ==
    /\ \E r \in Request : ~At(r, "idle")
    /\ req' = [r \in Request |-> Idle]
    /\ UNCHANGED <<rows, lastId, failures, mixed, torn, now>>

Tick ==
    /\ now < MaxClock
    /\ now' = now + 1
    /\ UNCHANGED <<rows, lastId, failures, mixed, torn, req>>

Step(r) ==
    \/ CheckPassword(r) \/ FindAttempt(r) \/ Reload(r)
    \/ InsertAttempt(r) \/ UpdateAttempt(r) \/ Reset(r)

Next ==
    \/ \E r \in Request, e \in Email : SignIn(r, e) \/ Verify(r, e)
    \/ \E r \in Request : Step(r) \/ Fail(r)
    \/ Crash
    \/ Tick

Spec == Init /\ [][Next]_vars

-----------------------------------------------------------------------------
(* Properties.                                                             *)

\* Rows and requests have the shape the table and the handlers give them; a
\* row that is there counts a failure at least, and its id has been handed out.
TypeOK ==
    /\ rows \in [Email -> Row]
    /\ lastId \in Nat
    /\ failures \in [Email -> Nat]
    /\ mixed \in [Email -> BOOLEAN]
    /\ torn \in [Email -> BOOLEAN]
    /\ now \in Nat
    /\ req \in [Request -> RequestState]
    /\ \A e \in Email : /\ rows[e].id # 0 <=> rows[e].attempts > 0
                        /\ rows[e].id <= lastId

\* The count is exact unless saves overlapped: then the row holds as many
\* failures as were saved since the last reset, whatever failed or crashed.
CountIsExact == \A e \in Email : ~mixed[e] => rows[e].attempts = failures[e]

\* Whatever reads and saves overlap, the block in a row is the one its count
\* asks for - an address below the first limit is not blocked, one at a limit
\* for no longer than that limit's time from now - unless the UPDATE of one
\* save falls between the reload and the UPDATE of another.
BlockMatchesCount ==
    \A e \in Email : ~torn[e] =>
        /\ rows[e].until # 0 <=> rows[e].attempts >= Limits[1]
        /\ \A i \in 1..2 : rows[e].attempts < Limits[i + 1] => rows[e].until <= now + Blocks[i]

\* A blocked address stays blocked until its time, unless a login resets it: no
\* failure that goes on being counted - sign-ins past the guard already, codes
\* of verify2fa, which has none - shortens the block, unless it has read the
\* row before another failure changed it.
BlockHolds ==
    [][\A e \in Email : Blocked(e) /\ rows[e] # rows'[e] =>
          \/ rows'[e] = NoRow
          \/ rows'[e].until >= rows[e].until
          \/ mixed[e]]_vars

=============================================================================
