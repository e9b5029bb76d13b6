------------------------- MODULE RecoveryCodesProofs -------------------------
(* Theorems about RecoveryCodes, for every number of requests and of sets. *)
EXTENDS RecoveryCodes, FiniteSetTheorems, TLAPS

\* Every disjunct of Next, for the proofs by cases below.
LEMMA NextCases ==
    ASSUME Next
    PROVE  \/ \E r \in Request :
                 \/ StartConfirm(r) \/ Enable(r) \/ StartGenerate(r) \/ CheckEnabled(r)
                 \/ DeleteCodes(r) \/ InsertCodes(r)
                 \/ \E g \in Generation : FindCode(r, g)
                 \/ SaveCode(r) \/ Fail(r)
           \/ Disable
           \/ Crash
  BY Zenon DEF Next

-----------------------------------------------------------------------------
(* Type correctness.  TypeOK is inductive.                                 *)

LEMMA TypeInit == ASSUME Init PROVE TypeOK
  BY DEF Init, TypeOK, CodeRow, NoCode, RequestState, Idle, Pc, At

\* The tables and requests keep their shape; a code a request holds stays
\* generated, because no step makes a row absent.
LEMMA TypeStep == ASSUME TypeOK, [Next]_vars PROVE TypeOK'
  <1> USE DEF TypeOK, CodeRow, NoCode, RequestState, Idle, Pc, At, Goto, Done, Absent, Stored, Unused
  <1>1. ASSUME NEW r \in Request, StartConfirm(r) \/ Enable(r) \/ StartGenerate(r) \/ CheckEnabled(r)
        PROVE  TypeOK'
    <2>1. UNCHANGED <<codes, crowded, bare>> /\ enabled' \in BOOLEAN
      BY <1>1 DEF StartConfirm, Enable, StartGenerate, CheckEnabled
    <2>2. PICK state \in RequestState : req' = [req EXCEPT ![r] = state] /\ state.pc # "saveCode"
      BY <1>1 DEF StartConfirm, Enable, StartGenerate, CheckEnabled
    <2>3. req' \in [Request -> RequestState]
      BY <2>2
    <2>4. \A s \in Request : At(s, "saveCode")' => req'[s].code \in Generation \ Absent
      BY <2>2
    <2>5. QED
      BY <2>1, <2>3, <2>4
  <1>2. ASSUME NEW r \in Request, DeleteCodes(r) PROVE TypeOK'
    <2>1. UNCHANGED <<enabled, bare>> /\ crowded' \in BOOLEAN
      BY <1>2 DEF DeleteCodes
    <2>2. codes' \in [Generation -> CodeRow] /\ \A g \in Generation : codes'[g].state = "absent" => codes'[g] = NoCode
      BY <1>2, ZenonT(30) DEF DeleteCodes
    <2>3. Absent' = Absent
      BY <1>2 DEF DeleteCodes
    <2>4. req' \in [Request -> RequestState]
      BY <1>2 DEF DeleteCodes
    <2>5. \A s \in Request : At(s, "saveCode")' => req'[s].code \in Generation \ Absent'
      BY <1>2, <2>3 DEF DeleteCodes
    <2>6. QED
      BY <2>1, <2>2, <2>4, <2>5
  <1>3. ASSUME NEW r \in Request, InsertCodes(r) PROVE TypeOK'
    <2>1. UNCHANGED <<enabled, crowded>> /\ bare' \in BOOLEAN
      BY <1>3 DEF InsertCodes
    <2>2. PICK g \in Absent : codes' = [codes EXCEPT ![g].state = "unused"]
      BY <1>3 DEF InsertCodes
    <2>3. codes' \in [Generation -> CodeRow] /\ \A h \in Generation : codes'[h].state = "absent" => codes'[h] = NoCode
      <3>1. [codes[g] EXCEPT !.state = "unused"] \in CodeRow
        BY <2>2
      <3>2. codes' = [codes EXCEPT ![g] = [codes[g] EXCEPT !.state = "unused"]]
        BY <2>2
      <3> HIDE DEF CodeRow
      <3>3. codes' \in [Generation -> CodeRow]
        BY <2>2, <3>1, <3>2
      <3> USE DEF CodeRow
      <3>4. \A h \in Generation : codes'[h].state = "absent" => codes'[h] = NoCode
        BY <2>2
      <3>5. QED
        BY <3>3, <3>4
    <2>4. Absent' \subseteq Absent
      BY <2>2
    <2>5. req' \in [Request -> RequestState]
      BY <1>3 DEF InsertCodes
    <2>6. \A s \in Request : At(s, "saveCode")' => req'[s].code \in Generation \ Absent'
      BY <1>3, <2>4 DEF InsertCodes
    <2>7. QED
      BY <2>1, <2>3, <2>5, <2>6
  <1>4. ASSUME NEW r \in Request, NEW g \in Generation, FindCode(r, g) PROVE TypeOK'
    BY <1>4 DEF FindCode
  <1>5. ASSUME NEW r \in Request, SaveCode(r) PROVE TypeOK'
    <2> DEFINE g == req[r].code
    <2>1. PICK state \in {"used", "deleted"} :
            codes' = [codes EXCEPT ![g] = [state |-> state, by |-> @.by \cup {r}, uses |-> @.uses + 1]]
      BY <1>5 DEF SaveCode
    <2>2. codes' \in [Generation -> CodeRow] /\ \A h \in Generation : codes'[h].state = "absent" => codes'[h] = NoCode
      <3>1. g \in Generation
        BY <1>5 DEF SaveCode
      <3>2. [state |-> state, by |-> codes[g].by \cup {r}, uses |-> codes[g].uses + 1] \in CodeRow
        BY <2>1, <3>1
      <3>3. QED
        BY <2>1, <3>1, <3>2
    <2>3. Absent' \subseteq Absent
      BY <2>1
    <2>4. req' \in [Request -> RequestState]
      BY <1>5 DEF SaveCode
    <2>5. \A s \in Request : At(s, "saveCode")' => req'[s].code \in Generation \ Absent'
      BY <1>5, <2>3 DEF SaveCode
    <2>6. QED
      BY <1>5, <2>2, <2>4, <2>5 DEF SaveCode
  <1>6. ASSUME NEW r \in Request, Fail(r) PROVE TypeOK'
    BY <1>6 DEF Fail
  <1>7. CASE Disable
    BY <1>7 DEF Disable
  <1>8. CASE Crash
    BY <1>8 DEF Crash
  <1>9. CASE UNCHANGED vars
    BY <1>9 DEF vars
  <1>10. QED
    BY <1>1, <1>2, <1>3, <1>4, <1>5, <1>6, <1>7, <1>8, <1>9, NextCases

\* The tables and the requests always have the shape the code gives them.
THEOREM TypeCorrect == Spec => []TypeOK
  BY TypeInit, TypeStep, PTL DEF Spec

-----------------------------------------------------------------------------
(* A code lets a slot in once.                                             *)

\* A code no one has used has let no one in, and a request that is about to
\* mark a code has not been let in by it: a row that was used is never unused
\* again, although SaveCode may insert it again.
UseInv ==
    /\ \A g \in Generation : IsFiniteSet(codes[g].by) /\ codes[g].uses = Cardinality(codes[g].by)
    /\ \A g \in Unused : codes[g].by = {}
    /\ \A r \in Request : At(r, "saveCode") => r \notin codes[req[r].code].by

LEMMA UseInit == ASSUME Init PROVE UseInv
  <1>1. IsFiniteSet({}) /\ Cardinality({}) = 0
    BY FS_EmptySet
  <1>2. QED
    BY <1>1 DEF Init, UseInv, NoCode, Unused, At, Idle

LEMMA UseStep == ASSUME TypeOK, UseInv, [Next]_vars PROVE UseInv'
  <1> USE DEF TypeOK, UseInv, CodeRow, NoCode, RequestState, Idle, Pc, At, Goto, Done, Absent, Stored, Unused
  <1>1. ASSUME NEW r \in Request, StartConfirm(r) \/ Enable(r) \/ StartGenerate(r) \/ CheckEnabled(r)
        PROVE  UseInv'
    BY <1>1 DEF StartConfirm, Enable, StartGenerate, CheckEnabled
  <1>2. ASSUME NEW r \in Request, DeleteCodes(r) PROVE UseInv'
    BY <1>2 DEF DeleteCodes
  <1>3. ASSUME NEW r \in Request, InsertCodes(r) PROVE UseInv'
    BY <1>3 DEF InsertCodes
  <1>4. ASSUME NEW r \in Request, NEW g \in Generation, FindCode(r, g) PROVE UseInv'
    BY <1>4 DEF FindCode
  <1>5. ASSUME NEW r \in Request, SaveCode(r) PROVE UseInv'
    <2> DEFINE g == req[r].code
    <2>1. g \in Generation /\ r \notin codes[g].by /\ IsFiniteSet(codes[g].by)
      BY <1>5 DEF SaveCode
    <2>2. IsFiniteSet(codes[g].by \cup {r}) /\ Cardinality(codes[g].by \cup {r}) = codes[g].uses + 1
      <3> HIDE DEF g, TypeOK, UseInv
      <3>1. codes[g].uses = Cardinality(codes[g].by)
        BY <2>1 DEF UseInv
      <3>2. QED
        BY <2>1, <3>1, FS_AddElement
    <2>3. PICK state \in {"used", "deleted"} :
            codes' = [codes EXCEPT ![g] = [state |-> state, by |-> @.by \cup {r}, uses |-> @.uses + 1]]
      BY <1>5 DEF SaveCode
    <2>4. \A h \in Generation : IsFiniteSet(codes'[h].by) /\ codes'[h].uses = Cardinality(codes'[h].by)
      BY <2>1, <2>2, <2>3
    <2>5. \A h \in Unused' : codes'[h].by = {}
      BY <2>1, <2>3
    <2>6. \A s \in Request : At(s, "saveCode")' => s \notin codes'[req'[s].code].by
      BY <1>5, <2>1, <2>3 DEF SaveCode
    <2>7. QED
      BY <2>4, <2>5, <2>6
  <1>6. ASSUME NEW r \in Request, Fail(r) PROVE UseInv'
    BY <1>6 DEF Fail
  <1>7. CASE Disable
    BY <1>7 DEF Disable
  <1>8. CASE Crash
    BY <1>8 DEF Crash
  <1>9. CASE UNCHANGED vars
    BY <1>9 DEF vars
  <1>10. QED
    BY <1>1, <1>2, <1>3, <1>4, <1>5, <1>6, <1>7, <1>8, <1>9, NextCases

\* OneUsePerRequest: however useCode, generate and confirm2fa interleave, a
\* recovery code lets in each request slot at most once.
THEOREM UseSafe == Spec => []OneUsePerRequest
  <1>1. ASSUME UseInv PROVE OneUsePerRequest
    BY <1>1 DEF UseInv, OneUsePerRequest
  <1>2. QED
    BY <1>1, TypeInit, TypeStep, UseInit, UseStep, PTL DEF Spec

-----------------------------------------------------------------------------
(* One set of codes at a time.                                             *)

\* A generation past its DELETE, if no other was when it deleted, is the only
\* one, and finds no code unused.
SetInv ==
    ~crowded => /\ \A g, h \in Unused : g = h
                /\ \A r, s \in Request : At(r, "insertCodes") /\ At(s, "insertCodes") => r = s
                /\ \A r \in Request : At(r, "insertCodes") => Unused = {}

LEMMA SetInit == ASSUME Init PROVE SetInv
  BY DEF Init, SetInv, NoCode, Unused, At, Idle

LEMMA SetStep == ASSUME TypeOK, SetInv, [Next]_vars PROVE SetInv'
  <1> USE DEF TypeOK, SetInv, CodeRow, NoCode, RequestState, Idle, Pc, At, Goto, Done, Absent, Stored, Unused
  <1>1. ASSUME NEW r \in Request, StartConfirm(r) \/ Enable(r) \/ StartGenerate(r) \/ CheckEnabled(r)
        PROVE  SetInv'
    <2>1. UNCHANGED <<codes, crowded>>
      BY <1>1 DEF StartConfirm, Enable, StartGenerate, CheckEnabled
    <2>2. \A s \in Request : At(s, "insertCodes")' => At(s, "insertCodes")
      BY <1>1 DEF StartConfirm, Enable, StartGenerate, CheckEnabled
    <2>3. QED
      BY <2>1, <2>2
  <1>2. ASSUME NEW r \in Request, DeleteCodes(r) PROVE SetInv'
    <2>1. Unused' = {}
      BY <1>2 DEF DeleteCodes
    <2>2. ASSUME ~crowded', NEW s \in Request, At(s, "insertCodes")' PROVE s = r
      BY <1>2, <2>2 DEF DeleteCodes
    <2>3. QED
      BY <2>1, <2>2
  <1>3. ASSUME NEW r \in Request, InsertCodes(r) PROVE SetInv'
    <2>1. PICK g \in Absent : codes' = [codes EXCEPT ![g].state = "unused"]
      BY <1>3 DEF InsertCodes
    <2>2. Unused' = Unused \cup {g}
      BY <2>1
    <2>3. ASSUME ~crowded PROVE Unused = {} /\ \A s \in Request : ~At(s, "insertCodes")'
      BY <1>3, <2>3 DEF InsertCodes
    <2>4. QED
      BY <1>3, <2>2, <2>3 DEF InsertCodes
  <1>4. ASSUME NEW r \in Request, NEW g \in Generation, FindCode(r, g) PROVE SetInv'
    BY <1>4 DEF FindCode
  <1>5. ASSUME NEW r \in Request, SaveCode(r) PROVE SetInv'
    <2>1. Unused' \subseteq Unused
      BY <1>5 DEF SaveCode
    <2>2. QED
      BY <1>5, <2>1 DEF SaveCode
  <1>6. ASSUME NEW r \in Request, Fail(r) PROVE SetInv'
    BY <1>6 DEF Fail
  <1>7. CASE Disable
    BY <1>7 DEF Disable
  <1>8. CASE Crash
    BY <1>8 DEF Crash
  <1>9. CASE UNCHANGED vars
    BY <1>9 DEF vars
  <1>10. QED
    BY <1>1, <1>2, <1>3, <1>4, <1>5, <1>6, <1>7, <1>8, <1>9, NextCases

\* OneSetOfCodes: unless two generations were past their DELETE together, the
\* unused codes are those of one set.
THEOREM SetSafe == Spec => []OneSetOfCodes
  <1>1. ASSUME SetInv PROVE OneSetOfCodes
    BY <1>1 DEF SetInv, OneSetOfCodes
  <1>2. QED
    BY <1>1, TypeInit, TypeStep, SetInit, SetStep, PTL DEF Spec

-----------------------------------------------------------------------------
(* Codes for a second factor that is on.                                   *)

LEMMA EnabledInit == ASSUME Init PROVE EnabledHasCodes
  BY DEF Init, EnabledHasCodes

\* EnabledHasCodes is inductive: what a request owes is carried from one
\* program counter to the next, or recorded as cut, until its INSERT.
LEMMA EnabledStep == ASSUME TypeOK, EnabledHasCodes, [Next]_vars PROVE EnabledHasCodes'
  <1> USE DEF TypeOK, EnabledHasCodes, CodeRow, NoCode, RequestState, Idle, Pc, At, Goto, Done, Absent, Stored, Owes
  <1>1. ASSUME NEW r \in Request, StartConfirm(r) \/ StartGenerate(r) PROVE EnabledHasCodes'
    BY <1>1 DEF StartConfirm, StartGenerate
  <1>2. ASSUME NEW r \in Request, Enable(r) \/ CheckEnabled(r) PROVE EnabledHasCodes'
    BY <1>2 DEF Enable, CheckEnabled
  <1>3. ASSUME NEW r \in Request, DeleteCodes(r) PROVE EnabledHasCodes'
    BY <1>3 DEF DeleteCodes
  <1>4. ASSUME NEW r \in Request, InsertCodes(r) PROVE EnabledHasCodes'
    <2>1. PICK g \in Absent : codes' = [codes EXCEPT ![g].state = "unused"]
      BY <1>4 DEF InsertCodes
    <2>2. g \in Stored'
      BY <2>1
    <2>3. QED
      BY <2>2
  <1>5. ASSUME NEW r \in Request, NEW g \in Generation, FindCode(r, g) PROVE EnabledHasCodes'
    BY <1>5 DEF FindCode, Unused
  <1>6. ASSUME NEW r \in Request, SaveCode(r) PROVE EnabledHasCodes'
    <2>1. Stored \subseteq Stored'
      BY <1>6 DEF SaveCode
    <2>2. \A s \in Request : Owes(s) => Owes(s)'
      BY <1>6 DEF SaveCode
    <2>3. QED
      BY <1>6, <2>1, <2>2 DEF SaveCode
  <1>7. ASSUME NEW r \in Request, Fail(r) PROVE EnabledHasCodes'
    BY <1>7 DEF Fail
  <1>8. CASE Disable
    BY <1>8 DEF Disable
  <1>9. CASE Crash
    BY <1>9 DEF Crash
  <1>10. CASE UNCHANGED vars
    BY <1>10 DEF vars
  <1>11. QED
    BY <1>1, <1>2, <1>3, <1>4, <1>5, <1>6, <1>7, <1>8, <1>9, <1>10, NextCases

\* EnabledHasCodes: a second factor is on without stored codes only while, or
\* because, the generation that confirm2fa or the endpoint began has not ended.
THEOREM EnabledSafe == Spec => []EnabledHasCodes
  BY TypeInit, TypeStep, EnabledInit, EnabledStep, PTL DEF Spec

-----------------------------------------------------------------------------
(* The table implements OneTimeCodes.                                      *)

Status == [g \in Generation |->
             CASE codes[g].state = "absent" -> "absent"
               [] codes[g].state = "unused" -> "good"
               [] OTHER -> "over"]
Uses == [g \in Generation |-> codes[g].uses]

\* A step of r that takes no code leaves the others' codes alone; r may drop its own.
LEMMA HeldByOthers ==
    ASSUME NEW r \in Request, \A s \in Request \ {r} : req'[s] = req[s], ~At(r, "saveCode")'
    PROVE  /\ Held' = Held \ {<<r, req[r].code>>}
           /\ ~At(r, "saveCode") => Held' = Held
  BY DEF Held, At

\* Taking no code and writing no row is a stutter of the codes, or drops a code.
LEMMA QuietCodes ==
    ASSUME TypeOK, NEW r \in Request, UNCHANGED codes,
           \A s \in Request \ {r} : req'[s] = req[s], ~At(r, "saveCode")'
    PROVE  Codes!Next \/ UNCHANGED <<Status, Held, Uses>>
  <1>1. UNCHANGED <<Status, Uses>>
    BY DEF Status, Uses
  <1>2. PICK S \in SUBSET Held : Held' = Held \ S
    <2>1. CASE At(r, "saveCode")
      <3>1. {<<r, req[r].code>>} \in SUBSET Held
        BY <2>1 DEF Held
      <3>2. QED
        BY <3>1, HeldByOthers
    <2>2. CASE ~At(r, "saveCode")
      <3>1. {} \in SUBSET Held /\ Held' = Held \ {}
        BY <2>2, HeldByOthers
      <3>2. QED
        BY <3>1
    <2>3. QED
      BY <2>1, <2>2
  <1>3. Codes!Drop(S)
    BY <1>1, <1>2 DEF Codes!Drop, Status, Uses
  <1>4. QED
    BY <1>3 DEF Codes!Next

LEMMA NextCodes == ASSUME TypeOK, [Next]_vars PROVE Codes!Next \/ UNCHANGED <<Status, Held, Uses>>
  <1>1. ASSUME NEW r \in Request, StartConfirm(r) \/ Enable(r) \/ StartGenerate(r) \/ CheckEnabled(r) \/ Fail(r)
        PROVE  Codes!Next \/ UNCHANGED <<Status, Held, Uses>>
    <2>1. UNCHANGED codes
      BY <1>1 DEF StartConfirm, Enable, StartGenerate, CheckEnabled, Fail
    <2>2. (\A s \in Request \ {r} : req'[s] = req[s]) /\ ~At(r, "saveCode")'
      BY <1>1 DEF StartConfirm, Enable, StartGenerate, CheckEnabled, Fail, Goto, Done, Idle, At,
         TypeOK, RequestState
    <2>3. QED
      BY <2>1, <2>2, QuietCodes
  \* A deletion closes every code it finds, also those already used.
  <1>2. ASSUME NEW r \in Request, DeleteCodes(r) PROVE Codes!Next
    <2>a. PICK S \in SUBSET Generation : S = Stored
      BY DEF Stored
    <2>1. Status' = [g \in Generation |-> IF g \in S THEN "over" ELSE Status[g]]
      BY <1>2, <2>a DEF DeleteCodes, Status, Stored, TypeOK, CodeRow
    <2>2. Uses' = Uses
      BY <1>2 DEF DeleteCodes, Uses, TypeOK, CodeRow
    <2>3. ~At(r, "saveCode") /\ ~At(r, "saveCode")' /\ \A s \in Request \ {r} : req'[s] = req[s]
      BY <1>2 DEF DeleteCodes, Goto, At, TypeOK, RequestState
    <2>4. Held' = Held
      BY <2>3, HeldByOthers
    <2>5. \A g \in S : Status[g] # "absent"
      BY <2>a DEF Stored, Status
    <2>6. Codes!Close(S)
      BY <2>1, <2>2, <2>4, <2>5 DEF Codes!Close, Status, Uses
    <2>7. QED
      BY <2>6 DEF Codes!Next
  <1>3. ASSUME NEW r \in Request, InsertCodes(r) PROVE Codes!Next
    <2>1. PICK g \in Absent : codes' = [codes EXCEPT ![g].state = "unused"]
      BY <1>3 DEF InsertCodes
    <2>2. g \in Generation /\ Status[g] = "absent"
      BY <2>1 DEF Absent, Status
    <2>3. Status' = [Status EXCEPT ![g] = "good"]
      BY <2>1, <2>2 DEF Status, TypeOK, CodeRow
    <2>4. Uses' = Uses
      BY <2>1, <2>2 DEF Uses, TypeOK, CodeRow
    <2>5. ~At(r, "saveCode") /\ ~At(r, "saveCode")' /\ \A s \in Request \ {r} : req'[s] = req[s]
      BY <1>3 DEF InsertCodes, Done, Idle, At, TypeOK
    <2>6. Held' = Held
      BY <2>5, HeldByOthers
    <2>7. Codes!Issue(g)
      BY <2>2, <2>3, <2>4, <2>6 DEF Codes!Issue, Status, Uses
    <2>8. QED
      BY <2>2, <2>7 DEF Codes!Next
  <1>4. ASSUME NEW r \in Request, NEW g \in Generation, FindCode(r, g) PROVE Codes!Next
    <2>1. Status[g] = "good" /\ UNCHANGED <<Status, Uses>>
      BY <1>4 DEF FindCode, Unused, Status, Uses
    <2>2. \A h \in Generation : <<r, h>> \notin Held
      BY <1>4 DEF FindCode, Held, At
    <2>3. Held' = Held \cup {<<r, g>>}
      BY <1>4 DEF FindCode, Held, At, TypeOK
    <2>4. Codes!Take(r, g)
      BY <2>1, <2>2, <2>3 DEF Codes!Take, Status, Uses
    <2>5. QED
      BY <2>4 DEF Codes!Next
  \* Whatever has become of the row, it is used or deleted after the save.
  <1>5. ASSUME NEW r \in Request, SaveCode(r) PROVE Codes!Next
    <2>1. PICK g \in Generation : g = req[r].code /\ At(r, "saveCode") /\ <<r, g>> \in Held
      BY <1>5 DEF SaveCode, TypeOK, Held
    <2>2. PICK state \in {"used", "deleted"} :
            codes' = [codes EXCEPT ![g] = [state |-> state, by |-> @.by \cup {r}, uses |-> @.uses + 1]]
      BY <1>5, <2>1 DEF SaveCode
    <2>3. Status' = [Status EXCEPT ![g] = "over"]
      BY <2>1, <2>2 DEF Status, TypeOK
    <2>4. Uses' = [Uses EXCEPT ![g] = Uses[g] + 1]
      BY <2>1, <2>2 DEF Uses, TypeOK
    <2>5. ~At(r, "saveCode")' /\ \A s \in Request \ {r} : req'[s] = req[s]
      BY <1>5 DEF SaveCode, Done, Idle, At, TypeOK
    <2>6. Held' = Held \ {<<r, g>>}
      BY <2>1, <2>5, HeldByOthers
    <2>7. Codes!Admit(r, g)
      BY <2>1, <2>3, <2>4, <2>6 DEF Codes!Admit, Status, Uses
    <2>8. QED
      BY <2>1, <2>7 DEF Codes!Next
  <1>6. CASE Disable \/ UNCHANGED vars
    BY <1>6 DEF Disable, vars, Status, Uses, Held, At
  <1>7. CASE Crash
    <2>1. UNCHANGED <<Status, Uses>> /\ Held' = Held \ Held
      BY <1>7 DEF Crash, Status, Uses, Held, At, Idle
    <2>2. Codes!Drop(Held)
      BY <2>1 DEF Codes!Drop, Status, Uses
    <2>3. QED
      BY <2>2 DEF Codes!Next
  <1>8. QED
    BY <1>1, <1>2, <1>3, <1>4, <1>5, <1>6, <1>7, NextCases

\* Refinement: the recovery codes of an account are one-time codes, although
\* using one, deleting the set and storing a new one are separate statements.
THEOREM CodesRefined == Spec => CodesSpec
  <1>1. ASSUME Init PROVE Codes!Init
    <2>1. Held = {}
      BY <1>1 DEF Init, Held, At, Idle
    <2>2. QED
      BY <1>1, <2>1 DEF Init, NoCode, Codes!Init
  <1>2. QED
    BY <1>1, TypeInit, TypeStep, NextCodes, PTL
    DEF Spec, CodesSpec, Codes!Spec, Codes!codes, Status, Uses

=============================================================================
