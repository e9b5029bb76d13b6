---------------------------- MODULE RecoveryCodes ----------------------------
(***************************************************************************)
(* The recovery codes of one account: generate, called by its endpoint and *)
(* by confirm2fa once it has switched the second factor on, and useCode,   *)
(* called by verify2fa (src/modules/users/security-recovery-codes,         *)
(* src/modules/auth/auth.service).  No statement shares a transaction with *)
(* another.  One code stands for the ten of a set.                         *)
(***************************************************************************)
EXTENDS Naturals, FiniteSets

CONSTANTS
    Request,        \* slots for the requests in flight at one time
    MaxGenerations  \* bound on the sets of codes generated

ASSUME RecoveryCodesAssumption == MaxGenerations \in Nat

VARIABLES
    enabled,   \* user_security.twoFactorEnabled
    codes,     \* user_security_recovery_codes, by set
    crowded,   \* history: two deletions were under way at one time
    bare,      \* history: a generation was cut before its codes were stored
    req        \* the requests in flight

vars == <<enabled, codes, crowded, bare, req>>

-----------------------------------------------------------------------------
Generation == 1..MaxGenerations

\* by is a history variable: the slots a code has let in, and uses how often.
CodeRow == [state : {"absent", "unused", "used", "deleted"}, by : SUBSET Request, uses : Nat]
NoCode == [state |-> "absent", by |-> {}, uses |-> 0]

Pc == {"idle", "enable", "checkEnabled", "deleteCodes", "insertCodes", "saveCode"}

RequestState == [pc : Pc, code : Generation \cup {0}]
Idle == [pc |-> "idle", code |-> 0]

At(r, label) == req[r].pc = label
Stored == {g \in Generation : codes[g].state \in {"unused", "used"}}
Unused == {g \in Generation : codes[g].state = "unused"}
Absent == {g \in Generation : codes[g].state = "absent"}

Init ==
    /\ enabled = FALSE
    /\ codes = [g \in Generation |-> NoCode]
    /\ crowded = FALSE
    /\ bare = FALSE
    /\ req = [r \in Request |-> Idle]

Goto(r, label) == req' = [req EXCEPT ![r].pc = label]
Done(r) == req' = [req EXCEPT ![r] = Idle]

\* confirm2fa has checked the code it was given.
StartConfirm(r) ==
    /\ At(r, "idle")
    /\ Goto(r, "enable")
    /\ UNCHANGED <<enabled, codes, crowded, bare>>

\* Faulty: confirm2fa ends with the switch.
EnableOnly(r) ==
    /\ At(r, "enable")
    /\ enabled' = TRUE
    /\ Done(r)
    /\ UNCHANGED <<codes, crowded, bare>>

\* confirm2fa saves user_security and goes on to generate.
Enable(r) ==
    /\ At(r, "enable")
    /\ enabled' = TRUE
    /\ Goto(r, "checkEnabled")
    /\ UNCHANGED <<codes, crowded, bare>>

StartGenerate(r) ==
    /\ At(r, "idle")
    /\ Goto(r, "checkEnabled")
    /\ UNCHANGED <<enabled, codes, crowded, bare>>

\* TWO_FACTOR_NOT_ENABLED ends the request.
CheckEnabled(r) ==
    /\ At(r, "checkEnabled")
    /\ IF enabled THEN Goto(r, "deleteCodes") ELSE Done(r)
    /\ UNCHANGED <<enabled, codes, crowded, bare>>

\* Faulty: the old codes stay.
DeleteNone(r) ==
    /\ At(r, "deleteCodes")
    /\ crowded' = \E other \in Request : At(other, "insertCodes")
    /\ Goto(r, "insertCodes")
    /\ UNCHANGED <<enabled, codes, bare>>

\* The codes of the account are deleted, used or not.
DeleteCodes(r) ==
    /\ At(r, "deleteCodes")
    /\ codes' = [g \in Generation |-> IF g \in Stored THEN [codes[g] EXCEPT !.state = "deleted"]
                                                      ELSE codes[g]]
    /\ crowded' = \E other \in Request : At(other, "insertCodes")
    /\ Goto(r, "insertCodes")
    /\ UNCHANGED <<enabled, bare>>

\* A new set is saved and shown.
InsertCodes(r) ==
    /\ At(r, "insertCodes")
    /\ \E g \in Absent :
          /\ \A h \in Absent : g <= h
          /\ codes' = [codes EXCEPT ![g].state = "unused"]
    /\ bare' = FALSE
    /\ Done(r)
    /\ UNCHANGED <<enabled, crowded>>

\* Faulty: any code will do.
FindCodeAny(r, g) ==
    /\ At(r, "idle")
    /\ g \notin Stored
    /\ req' = [req EXCEPT ![r] = [pc |-> "saveCode", code |-> g]]
    /\ UNCHANGED <<enabled, codes, crowded, bare>>

\* Faulty: used is not looked at.
FindCodeUsed(r, g) ==
    /\ At(r, "idle")
    /\ g \in Stored
    /\ req' = [req EXCEPT ![r] = [pc |-> "saveCode", code |-> g]]
    /\ UNCHANGED <<enabled, codes, crowded, bare>>

\* useCode finds the code unused; verify2fa comes here whether or not a second
\* factor is on.
FindCode(r, g) ==
    /\ At(r, "idle")
    /\ g \in Unused
    /\ req' = [req EXCEPT ![r] = [pc |-> "saveCode", code |-> g]]
    /\ UNCHANGED <<enabled, codes, crowded, bare>>

\* The entity is saved as used: save() inserts the row again if it has been
\* deleted, unless the deletion falls between its reload and its UPDATE.
SaveCode(r) ==
    LET g == req[r].code IN
    /\ At(r, "saveCode")
    /\ \E state \in {"used"} \cup ({codes[g].state} \cap {"deleted"}) :
          codes' = [codes EXCEPT ![g] = [state |-> state, by |-> @.by \cup {r}, uses |-> @.uses + 1]]
    /\ Done(r)
    /\ UNCHANGED <<enabled, crowded, bare>>

\* disable2fa, or an enable2fa that overlaps: the codes stay.
Disable ==
    /\ enabled
    /\ enabled' = FALSE
    /\ UNCHANGED <<codes, crowded, bare, req>>

\* The generation r owes an enabled second factor.
Owes(r) == req[r].pc \in {"checkEnabled", "deleteCodes", "insertCodes"}

\* A statement of r throws.
Fail(r) ==
    /\ ~At(r, "idle")
    /\ bare' = (bare \/ Owes(r))
    /\ Done(r)
    /\ UNCHANGED <<enabled, codes, crowded>>

Crash ==
    /\ \E r \in Request : ~At(r, "idle")
    /\ bare' = (bare \/ \E r \in Request : Owes(r))
    /\ req' = [r \in Request |-> Idle]
    /\ UNCHANGED <<enabled, codes, crowded>>

Next ==
    \/ \E r \in Request :
          \/ StartConfirm(r) \/ Enable(r) \/ StartGenerate(r) \/ CheckEnabled(r)
          \/ DeleteCodes(r) \/ InsertCodes(r)
          \/ \E g \in Generation : FindCode(r, g)
          \/ SaveCode(r) \/ Fail(r)
    \/ Disable
    \/ Crash

Spec == Init /\ [][Next]_vars

-----------------------------------------------------------------------------
(* Properties.                                                             *)

\* Rows and requests have the shape the table and the handlers give them; a
\* code that has let someone in, or is about to, is one that was generated.
TypeOK ==
    /\ enabled \in BOOLEAN
    /\ codes \in [Generation -> CodeRow]
    /\ crowded \in BOOLEAN
    /\ bare \in BOOLEAN
    /\ req \in [Request -> RequestState]
    /\ \A g \in Generation : codes[g].state = "absent" => codes[g] = NoCode
    /\ \A r \in Request : At(r, "saveCode") => req[r].code \in Generation \ Absent

\* A code lets one slot in once, whatever is generated, deleted and inserted
\* again meanwhile: it is used twice only by requests that overlap.
OneUsePerRequest == \A g \in Generation : codes[g].uses = Cardinality(codes[g].by)

\* Codes of one set are good at a time, unless two generations overlapped
\* after their deletions.
OneSetOfCodes == ~crowded => \A g, h \in Unused : g = h

\* A second factor that is on has codes stored, used up or not, or a request is
\* about to store them, or was cut short on its way there.
EnabledHasCodes == enabled => Stored # {} \/ bare \/ \E r \in Request : Owes(r)

\* The codes a request has found unused and not saved as used yet.
Held == {<<r, req[r].code>> : r \in {q \in Request : At(q, "saveCode")}}

\* The abstract specification the table implements.
Codes == INSTANCE OneTimeCodes WITH
    Code <- Generation, Client <- Request,
    status <- [g \in Generation |->
                 CASE codes[g].state = "absent" -> "absent"
                   [] codes[g].state = "unused" -> "good"
                   [] OTHER -> "over"],
    holds <- Held,
    admitted <- [g \in Generation |-> codes[g].uses]

\* However a set of codes is deleted while one of them is being used - and
\* inserted again by its save() - the table moves only as one-time codes do: a
\* code once used or deleted is found good by no one again.
CodesSpec == Codes!Spec

=============================================================================
