--------------------------- MODULE TwoFactorProofs ---------------------------
(* Theorems about TwoFactor, for every number of requests, codes and secrets. *)
EXTENDS TwoFactor, FiniteSetTheorems, TLAPS

-----------------------------------------------------------------------------
(* Type correctness.  TypeOK is inductive.                                 *)

LEMMA Values ==
    /\ NoData \in Data
    /\ NoSecurity \in Security
    /\ NoOtp \in OtpRow
    /\ Idle \in RequestState
  BY TwoFactorAssumption DEF NoData, Data, NoSecurity, Security, Type, NoOtp, OtpRow, Idle, RequestState, Pc, Op

LEMMA TypeInit == ASSUME Init PROVE TypeOK
  BY Values DEF Init, TypeOK, At, Idle

\* What a request that saves an OTP has found.
Found(q, rows) == q.pc = "saveOtp" => q.otp \in Otp /\ rows[q.otp].state # "absent"

\* A step of one request keeps the types if its new locals have theirs and no
\* row of the OTPs goes away.
LEMMA TypeOfStep ==
    ASSUME TypeOK,
           NEW r \in Request, NEW q \in RequestState,
           req' = [req EXCEPT ![r] = q],
           otps' \in [Otp -> OtpRow],
           \A o \in Otp : otps[o].state # "absent" => otps'[o].state # "absent",
           Found(q, otps'),
           security' \in Security, qr' \subseteq Secret, torn' \in BOOLEAN, doubled' \in BOOLEAN
    PROVE  TypeOK'
  <1>1. req' \in [Request -> RequestState]
    BY DEF TypeOK
  <1>2. ASSUME NEW s \in Request, At(s, "saveOtp")'
        PROVE  req'[s].otp \in Otp /\ otps'[req'[s].otp].state # "absent"
    BY <1>2 DEF TypeOK, At, Found
  <1>3. QED
    BY <1>1, <1>2 DEF TypeOK

LEMMA ConfirmedType ==
    ASSUME NEW sec \in Security, sec.type = "totp" => sec.data.secret \in Secret
    PROVE  Confirmed(sec) \in Security
  <1>1. ASSUME sec.type = "totp" PROVE [sec.data EXCEPT !.kind = "totp"] \in Data
    BY <1>1 DEF Security, Data
  <1>2. [kind |-> "email", secret |-> 0] \in Data
    BY DEF Data
  <1>3. QED
    BY <1>1, <1>2 DEF Confirmed, Security

\* A handler begins with an entity that is consistent, whatever row it has read:
\* each sets the columns it does not rely on.
LEMMA StartType ==
    ASSUME TypeOK, NEW r \in Request, Start(r)
    PROVE  \E q \in RequestState :
              /\ req' = [req EXCEPT ![r] = q]
              /\ q.pc # "saveOtp" /\ Consistent(q.sec)
              /\ UNCHANGED <<security, otps, qr, torn, doubled>>
  <1>1. CASE Login(r)
    <2>1. [Idle EXCEPT !.pc = "invalidate", !.op = "login"] \in RequestState
      BY Values DEF Idle, RequestState, Pc, Op
    <2>2. QED
      BY <1>1, <2>1 DEF Login, Idle, Consistent, NoSecurity
  <1>2. CASE EnableTotp(r)
    <2>1. PICK s \in Secret :
            req' = [req EXCEPT ![r] =
               [Idle EXCEPT !.pc = "reload", !.op = "enable",
                            !.sec = [enabled |-> FALSE, type |-> "totp",
                                     data |-> [kind |-> "pending", secret |-> s]]]]
      BY <1>2 DEF EnableTotp
    <2>2. [kind |-> "pending", secret |-> s] \in Data
      BY DEF Data
    <2>3. [enabled |-> FALSE, type |-> "totp", data |-> [kind |-> "pending", secret |-> s]] \in Security
      BY <2>2 DEF Security, Type
    <2>4. [Idle EXCEPT !.pc = "reload", !.op = "enable",
                       !.sec = [enabled |-> FALSE, type |-> "totp",
                                data |-> [kind |-> "pending", secret |-> s]]] \in RequestState
      BY Values, <2>3 DEF Idle, RequestState, Pc, Op
    <2>5. QED
      BY <1>2, <2>1, <2>4 DEF EnableTotp, Idle, Consistent
  <1>3. CASE EnableEmail(r)
    <2>1. [security EXCEPT !.enabled = FALSE, !.type = "email"] \in Security
      BY DEF TypeOK, Security, Type
    <2>2. [Idle EXCEPT !.pc = "invalidate", !.op = "enable",
                       !.sec = [security EXCEPT !.enabled = FALSE, !.type = "email"]] \in RequestState
      BY Values, <2>1 DEF Idle, RequestState, Pc, Op
    <2>3. QED
      BY <1>3, <2>2 DEF EnableEmail, Idle, Consistent, TypeOK, Security
  <1>4. CASE Disable(r)
    <2>1. [Idle EXCEPT !.pc = "reload", !.op = "disable"] \in RequestState
      BY Values DEF Idle, RequestState, Pc, Op
    <2>2. QED
      BY <1>4, <2>1 DEF Disable, Idle, Consistent, NoSecurity
  <1>5. CASE ConfirmTotp(r)
    <2>1. Confirmed(security) \in Security
      BY <1>5, ConfirmedType DEF TypeOK, ConfirmTotp
    <2>2. [Idle EXCEPT !.pc = "reload", !.op = "confirm", !.sec = Confirmed(security)] \in RequestState
      BY Values, <2>1 DEF Idle, RequestState, Pc, Op
    <2>3. Consistent(Confirmed(security))
      BY <1>5 DEF ConfirmTotp, Consistent, Confirmed, TypeOK, Security, Data
    <2>4. QED
      BY <1>5, <2>2, <2>3 DEF ConfirmTotp, Idle
  <1>6. ASSUME NEW op \in {"verify", "confirm"}, NEW code \in Known, CheckOtp(r, op, code)
        PROVE  \E q \in RequestState :
                  /\ req' = [req EXCEPT ![r] = q]
                  /\ q.pc # "saveOtp" /\ Consistent(q.sec)
                  /\ UNCHANGED <<security, otps, qr, torn, doubled>>
    <2> DEFINE sec == IF op = "confirm" THEN Confirmed(security) ELSE NoSecurity
    <2>1. sec \in Security
      BY <1>6, Values, ConfirmedType DEF TypeOK, CheckOtp
    <2>2. code \in Otp \cup {0}
      BY DEF Known, Unused
    <2> HIDE DEF sec
    <2>3. [Idle EXCEPT !.pc = "findOtp", !.op = op, !.code = code, !.sec = sec] \in RequestState
      BY Values, <2>1, <2>2 DEF Idle, RequestState, Pc, Op
    <2>4. Consistent(sec)
      BY <1>6 DEF sec, CheckOtp, Consistent, Confirmed, NoSecurity
    <2>5. req' = [req EXCEPT ![r] = [Idle EXCEPT !.pc = "findOtp", !.op = op, !.code = code, !.sec = sec]]
      BY <1>6 DEF sec, CheckOtp
    <2>6. QED
      BY <1>6, <2>3, <2>4, <2>5 DEF CheckOtp, Idle
  <1>7. QED
    BY <1>1, <1>2, <1>3, <1>4, <1>5, <1>6 DEF Start

LEMMA GotoType ==
    ASSUME TypeOK, NEW r \in Request, NEW label \in Pc, Goto(r, label)
    PROVE  \E q \in RequestState :
              req' = [req EXCEPT ![r] = q] /\ q.pc = label /\ q.sec = req[r].sec
  <1>1. [req[r] EXCEPT !.pc = label] \in RequestState
    BY DEF TypeOK, RequestState
  <1>2. req' = [req EXCEPT ![r] = [req[r] EXCEPT !.pc = label]]
    BY DEF Goto
  <1>3. [req[r] EXCEPT !.pc = label].pc = label /\ [req[r] EXCEPT !.pc = label].sec = req[r].sec
    BY DEF TypeOK, RequestState
  <1>4. QED
    BY <1>1, <1>2, <1>3

LEMMA DoneType ==
    ASSUME NEW r \in Request, Done(r)
    PROVE  /\ req' = [req EXCEPT ![r] = Idle]
           /\ Idle \in RequestState /\ Idle.pc = "idle" /\ Idle.sec = NoSecurity
  BY Values DEF Done, Idle

LEMMA ConfirmType ==
    ASSUME TypeOK, NEW r \in Request, Confirm(r)
    PROVE  \E q \in RequestState :
              req' = [req EXCEPT ![r] = q] /\ q.pc = "reload" /\ q.sec = req[r].sec
  <1>1. [Idle EXCEPT !.pc = "reload", !.op = "confirm", !.sec = req[r].sec] \in RequestState
    BY Values DEF TypeOK, Idle, RequestState, Pc, Op
  <1>2. QED
    BY <1>1 DEF Confirm, Idle

LEMMA TypeStep == ASSUME TypeOK, [Next]_vars PROVE TypeOK'
  <1>1. ASSUME NEW r \in Request, Start(r) PROVE TypeOK'
    BY <1>1, StartType, TypeOfStep DEF TypeOK, Found
  <1>2. ASSUME NEW r \in Request, Invalidate(r) PROVE TypeOK'
    <2>1. otps' \in [Otp -> OtpRow] /\ \A o \in Otp : otps[o].state # "absent" => otps'[o].state # "absent"
      BY <1>2 DEF Invalidate, TypeOK, OtpRow
    <2>2. Goto(r, "insertOtp") /\ "insertOtp" \in Pc
      BY <1>2 DEF Invalidate, Pc
    <2>3. UNCHANGED <<security, qr, torn>> /\ doubled' \in BOOLEAN
      BY <1>2 DEF Invalidate
    <2>4. QED
      BY <2>1, <2>2, <2>3, GotoType, TypeOfStep DEF TypeOK, Found
  <1>3. ASSUME NEW r \in Request, InsertOtp(r) PROVE TypeOK'
    <2>1. PICK o \in Otp : otps' = [otps EXCEPT ![o].state = "unused"]
      BY <1>3 DEF InsertOtp
    <2>2. otps' \in [Otp -> OtpRow] /\ \A p \in Otp : otps[p].state # "absent" => otps'[p].state # "absent"
      BY <2>1 DEF TypeOK, OtpRow
    <2>3. UNCHANGED <<security, qr, torn>> /\ doubled' \in BOOLEAN
      BY <1>3 DEF InsertOtp, TypeOK
    <2>4. Goto(r, "reload") \/ Done(r)
      BY <1>3 DEF InsertOtp
    <2>5. \E q \in RequestState : req' = [req EXCEPT ![r] = q] /\ q.pc # "saveOtp"
      BY <2>4, GotoType, DoneType DEF Pc
    <2>6. QED
      BY <2>2, <2>3, <2>5, TypeOfStep DEF TypeOK, Found
  <1>4. ASSUME NEW r \in Request, FindOtp(r) PROVE TypeOK'
    <2>1. UNCHANGED <<security, qr, torn, doubled>>
      BY <1>4 DEF FindOtp
    <2>2. CASE Done(r) /\ UNCHANGED otps
      BY <2>1, <2>2, DoneType, TypeOfStep DEF TypeOK, Found
    <2>3. ASSUME NEW o \in Candidate, Done(r),
                 \/ otps' = [otps EXCEPT ![o].failed = @ + 1]
                 \/ otps' = [otps EXCEPT ![o].wrong = IF @ < MaxTries THEN @ + 1 ELSE @]
          PROVE  TypeOK'
      <3>1. o \in Otp
        BY DEF Candidate, Unused
      <3>2. otps' \in [Otp -> OtpRow] /\ \A p \in Otp : otps[p].state # "absent" => otps'[p].state # "absent"
        BY <2>3, <3>1 DEF TypeOK, OtpRow
      <3>3. QED
        BY <2>1, <2>3, <3>2, DoneType, TypeOfStep DEF TypeOK, Found
    <2>4. ASSUME NEW o \in Candidate, UNCHANGED otps,
                 req' = [req EXCEPT ![r].pc = "saveOtp", ![r].otp = o, ![r].failed = otps[o].failed + 1]
          PROVE  TypeOK'
      <3> DEFINE q == [req[r] EXCEPT !.pc = "saveOtp", !.otp = o, !.failed = otps[o].failed + 1]
      <3>1. o \in Otp /\ otps[o].state # "absent"
        BY DEF Candidate, Unused
      <3>2. otps[o].failed + 1 \in Nat
        BY <3>1 DEF TypeOK, OtpRow
      <3>3. q \in RequestState
        BY <3>1, <3>2 DEF TypeOK, RequestState, Pc
      <3>4. req' = [req EXCEPT ![r] = q]
        BY <2>4 DEF TypeOK
      <3>5. Found(q, otps')
        BY <2>4, <3>1 DEF Found, TypeOK, RequestState
      <3> HIDE DEF q
      <3>6. QED
        BY <2>1, <2>4, <3>3, <3>4, <3>5, TypeOfStep DEF TypeOK
    <2>5. QED
      BY <1>4, <2>2, <2>3, <2>4 DEF FindOtp
  <1>5. ASSUME NEW r \in Request, SaveOtp(r) PROVE TypeOK'
    <2> DEFINE o == req[r].otp
    <2>1. o \in Otp /\ req[r].failed \in Nat
      BY <1>5 DEF SaveOtp, TypeOK, RequestState
    <2>2. otps' = [otps EXCEPT ![o].state = "over", ![o].failed = req[r].failed,
                               ![o].by = @ \cup {r}, ![o].uses = @ + 1]
      BY <1>5 DEF SaveOtp
    <2> DEFINE row == [state |-> "over", failed |-> req[r].failed, wrong |-> otps[o].wrong,
                       by |-> otps[o].by \cup {r}, uses |-> otps[o].uses + 1]
    <2>3. row \in OtpRow /\ otps' = [otps EXCEPT ![o] = row]
      <3>1. otps[o] \in OtpRow
        BY <2>1 DEF TypeOK
      <3>2. otps[o].by \cup {r} \in SUBSET Request
        BY <3>1 DEF OtpRow
      <3>3. row \in OtpRow
        BY <2>1, <3>1, <3>2 DEF OtpRow
      <3>4. otps' = [otps EXCEPT ![o] = row]
        BY <2>1, <2>2, <3>1 DEF TypeOK, OtpRow
      <3>5. QED
        BY <3>3, <3>4
    <2>4. otps' \in [Otp -> OtpRow]
      <3> HIDE DEF row, o
      <3>1. QED
        BY <2>3 DEF TypeOK
    <2>5. \A p \in Otp : otps[p].state # "absent" => otps'[p].state # "absent"
      BY <2>1, <2>2 DEF TypeOK, OtpRow
    <2>6. UNCHANGED <<security, qr, torn, doubled>> /\ (Confirm(r) \/ Done(r))
      BY <1>5 DEF SaveOtp
    <2>7. \E q \in RequestState : req' = [req EXCEPT ![r] = q] /\ q.pc # "saveOtp"
      BY <2>6, ConfirmType, DoneType
    <2>8. QED
      BY <2>4, <2>5, <2>6, <2>7, TypeOfStep DEF TypeOK, Found
  <1>6. ASSUME NEW r \in Request, Reload(r) PROVE TypeOK'
    <2> DEFINE q == [req[r] EXCEPT !.pc = "write", !.loaded = security]
    <2>1. q \in RequestState
      BY DEF TypeOK, RequestState, Pc
    <2>2. req' = [req EXCEPT ![r] = q] /\ q.pc = "write"
      BY <1>6 DEF Reload, TypeOK, RequestState
    <2> HIDE DEF q
    <2>3. UNCHANGED <<security, otps, qr, torn, doubled>>
      BY <1>6 DEF Reload
    <2>4. QED
      BY <2>1, <2>2, <2>3, TypeOfStep DEF TypeOK, Found
  <1>7. ASSUME NEW r \in Request, Write(r) PROVE TypeOK'
    <2>1. security' \in Security
      BY <1>7 DEF Write, TypeOK, Security, RequestState
    <2>2. qr' \subseteq Secret
      BY <1>7 DEF Write, TypeOK, Security, RequestState, Data
    <2>3. UNCHANGED <<otps, doubled>> /\ torn' \in BOOLEAN /\ Done(r)
      BY <1>7 DEF Write
    <2>4. QED
      BY <2>1, <2>2, <2>3, DoneType, TypeOfStep DEF TypeOK, Found
  <1>8. ASSUME NEW r \in Request, Fail(r) PROVE TypeOK'
    BY <1>8, DoneType, TypeOfStep DEF TypeOK, Found, Fail
  <1>9. CASE Crash
    BY <1>9, Values DEF Crash, TypeOK, At, Idle
  <1>10. ASSUME NEW o \in Otp, Expire(o) PROVE TypeOK'
    BY <1>10 DEF Expire, TypeOK, OtpRow, At
  <1>11. CASE UNCHANGED vars
    BY <1>11 DEF vars, TypeOK, At
  <1>12. QED
    BY <1>1, <1>2, <1>3, <1>4, <1>5, <1>6, <1>7, <1>8, <1>9, <1>10, <1>11 DEF Next, Step

\* The tables and the requests always have the shape the code gives them, and a
\* request that saves an OTP saves one that is stored.
THEOREM TypeCorrect == Spec => []TypeOK
  BY TypeInit, TypeStep, PTL DEF Spec

-----------------------------------------------------------------------------
(* Steps, as the invariants below see them.                                *)

\* The entity of user_security a handler is to save is the one it began with.
LEMMA EntityKept ==
    ASSUME TypeOK, NEW r \in Request, Step(r) \/ Fail(r)
    PROVE  \E q \in RequestState :
              req' = [req EXCEPT ![r] = q] /\ q.sec \in {req[r].sec, NoSecurity}
  <1>1. CASE Done(r)
    BY <1>1, DoneType
  <1>2. ASSUME NEW label \in Pc, Goto(r, label)
        PROVE  \E q \in RequestState : req' = [req EXCEPT ![r] = q] /\ q.sec \in {req[r].sec, NoSecurity}
    BY <1>2, GotoType
  <1>3. CASE Confirm(r)
    BY <1>3, ConfirmType
  <1>4. CASE Reload(r)
    <2> DEFINE q == [req[r] EXCEPT !.pc = "write", !.loaded = security]
    <2>1. q \in RequestState /\ q.sec = req[r].sec
      BY DEF TypeOK, RequestState, Pc
    <2>2. req' = [req EXCEPT ![r] = q]
      BY <1>4 DEF Reload, TypeOK, RequestState
    <2> HIDE DEF q
    <2>3. QED
      BY <2>1, <2>2
  <1>5. ASSUME NEW o \in Candidate,
               req' = [req EXCEPT ![r].pc = "saveOtp", ![r].otp = o, ![r].failed = otps[o].failed + 1]
        PROVE  \E q \in RequestState : req' = [req EXCEPT ![r] = q] /\ q.sec \in {req[r].sec, NoSecurity}
    <2> DEFINE q == [req[r] EXCEPT !.pc = "saveOtp", !.otp = o, !.failed = otps[o].failed + 1]
    <2>1. o \in Otp /\ otps[o].failed + 1 \in Nat
      BY DEF Candidate, Unused, TypeOK, OtpRow
    <2>2. q \in RequestState /\ q.sec = req[r].sec
      BY <2>1 DEF TypeOK, RequestState, Pc
    <2>3. req' = [req EXCEPT ![r] = q]
      BY <1>5 DEF TypeOK
    <2> HIDE DEF q
    <2>4. QED
      BY <2>2, <2>3
  <1>6. CASE Invalidate(r) \/ InsertOtp(r)
    BY <1>6, <1>1, <1>2 DEF Invalidate, InsertOtp, Pc
  <1>7. CASE FindOtp(r)
    BY <1>7, <1>1, <1>5 DEF FindOtp
  <1>8. CASE SaveOtp(r) \/ Write(r) \/ Fail(r)
    BY <1>8, <1>1, <1>3 DEF SaveOtp, Write, Fail
  <1>9. QED
    BY <1>4, <1>6, <1>7, <1>8 DEF Step

\* verifyOtps, before its save(): counts change, and a code that matches is one
\* that was not used.
LEMMA FindEffect ==
    ASSUME TypeOK, NEW r \in Request, FindOtp(r)
    PROVE  /\ UNCHANGED doubled
           /\ \A p \in Otp : /\ otps'[p].by = otps[p].by /\ otps'[p].uses = otps[p].uses
                             /\ otps'[p].state = otps[p].state
           /\ \A s \in Request \ {r} : req'[s] = req[s]
           /\ req'[r].pc \in {"idle", "saveOtp"}
           /\ req'[r].pc = "saveOtp" => req'[r].otp \in Candidate
  <1> DEFINE Effect ==
        /\ \A p \in Otp : /\ otps'[p].by = otps[p].by /\ otps'[p].uses = otps[p].uses
                          /\ otps'[p].state = otps[p].state
        /\ \A s \in Request \ {r} : req'[s] = req[s]
        /\ req'[r].pc \in {"idle", "saveOtp"}
        /\ req'[r].pc = "saveOtp" => req'[r].otp \in Candidate
  <1>1. ASSUME Done(r), UNCHANGED otps PROVE Effect
    BY <1>1 DEF Done, Idle, TypeOK
  <1>2. ASSUME NEW o \in Candidate, Done(r), otps' = [otps EXCEPT ![o].failed = @ + 1]
        PROVE  Effect
    BY <1>2 DEF Done, Idle, TypeOK, OtpRow
  <1>3. ASSUME NEW o \in Candidate, Done(r),
               otps' = [otps EXCEPT ![o].wrong = IF @ < MaxTries THEN @ + 1 ELSE @]
        PROVE  Effect
    BY <1>3 DEF Done, Idle, TypeOK, OtpRow
  <1>4. ASSUME NEW o \in Candidate, UNCHANGED otps,
               req' = [req EXCEPT ![r].pc = "saveOtp", ![r].otp = o, ![r].failed = otps[o].failed + 1]
        PROVE  Effect
    BY <1>4 DEF TypeOK, RequestState
  <1> HIDE DEF Effect
  <1>5. Effect
    BY <1>1, <1>2, <1>3, <1>4 DEF FindOtp
  <1>6. QED
    BY <1>5 DEF Effect, FindOtp

\* ... and its save().
LEMMA SaveEffect ==
    ASSUME TypeOK, NEW r \in Request, SaveOtp(r)
    PROVE  /\ UNCHANGED doubled
           /\ req[r].otp \in Otp
           /\ otps'[req[r].otp].by = otps[req[r].otp].by \cup {r}
           /\ otps'[req[r].otp].uses = otps[req[r].otp].uses + 1
           /\ otps'[req[r].otp].state = "over"
           /\ \A p \in Otp \ {req[r].otp} : otps'[p] = otps[p]
           /\ \A s \in Request \ {r} : req'[s] = req[s]
           /\ req'[r].pc \in {"idle", "reload"}
  <1>1. req[r].otp \in Otp
    BY DEF SaveOtp, TypeOK
  <1>2. /\ otps'[req[r].otp].by = otps[req[r].otp].by \cup {r}
        /\ otps'[req[r].otp].uses = otps[req[r].otp].uses + 1
        /\ otps'[req[r].otp].state = "over"
        /\ \A p \in Otp \ {req[r].otp} : otps'[p] = otps[p]
    BY <1>1 DEF SaveOtp, TypeOK, OtpRow
  <1>3. CASE Done(r)
    BY <1>1, <1>2, <1>3 DEF Done, Idle, TypeOK, SaveOtp
  <1>4. CASE Confirm(r)
    <2>1. /\ \A s \in Request \ {r} : req'[s] = req[s]
          /\ req'[r].pc = "reload"
      BY <1>4 DEF Confirm, Idle, TypeOK
    <2>2. QED
      BY <1>1, <1>2, <2>1 DEF SaveOtp
  <1>5. QED
    BY <1>3, <1>4 DEF SaveOtp

-----------------------------------------------------------------------------
(* The second factor's state.                                              *)

\* Entities on their way to a save() are consistent too.
SecurityInv == SecurityConsistent /\ \A r \in Request : Consistent(req[r].sec)

LEMMA NoSecurityConsistent == Consistent(NoSecurity)
  BY DEF Consistent, NoSecurity

LEMMA SecurityInit == ASSUME Init PROVE SecurityInv
  BY NoSecurityConsistent DEF Init, SecurityInv, SecurityConsistent, Idle

\* A save() that no other overtook leaves exactly its entity.
LEMMA WriteSaves ==
    ASSUME TypeOK, NEW r \in Request, Write(r), ~torn'
    PROVE  security' = req[r].sec
  <1>1. req[r].loaded = security /\ req[r].sec \in Security /\ security \in Security
    BY DEF Write, TypeOK, RequestState
  <1>2. security' = [f \in DOMAIN security |-> req[r].sec[f]]
    BY <1>1 DEF Write
  <1>3. QED
    BY <1>1, <1>2 DEF Security

LEMMA SecurityStep == ASSUME TypeOK, SecurityInv, [Next]_vars PROVE SecurityInv'
  <1> USE DEF SecurityInv, SecurityConsistent
  <1>1. ASSUME NEW r \in Request, Start(r) PROVE SecurityInv'
    BY <1>1, StartType DEF TypeOK, Consistent
  <1>2. ASSUME NEW r \in Request, Step(r) \/ Fail(r) PROVE SecurityInv'
    <2>1. \A s \in Request : Consistent(req[s].sec)'
      BY <1>2, EntityKept, NoSecurityConsistent DEF TypeOK, Consistent
    <2>2. CASE Write(r)
      BY <2>1, <2>2, WriteSaves DEF Consistent
    <2>3. CASE UNCHANGED <<security, torn>>
      BY <2>1, <2>3 DEF Consistent
    <2>4. QED
      BY <1>2, <2>2, <2>3 DEF Step, Fail, Invalidate, InsertOtp, FindOtp, SaveOtp, Reload
  <1>3. CASE Crash
    BY <1>3, NoSecurityConsistent DEF Crash, Idle, Consistent
  <1>4. ASSUME NEW o \in Otp, Expire(o) PROVE SecurityInv'
    BY <1>4 DEF Expire, Consistent
  <1>5. CASE UNCHANGED vars
    BY <1>5 DEF vars, Consistent
  <1>6. QED
    BY <1>1, <1>2, <1>3, <1>4, <1>5 DEF Next

\* SecurityConsistent: unless a save() was overtaken after its reload, a second
\* factor that enable2fa, confirm2fa and disable2fa leave on has been confirmed.
THEOREM SecuritySafe == Spec => []SecurityConsistent
  BY TypeInit, TypeStep, SecurityInit, SecurityStep, PTL DEF Spec, SecurityInv

-----------------------------------------------------------------------------
(* One OTP at a time.                                                      *)

\* Unless two createOtp overlapped, no code is good while one is to be inserted.
OtpInv ==
    ~doubled => /\ \A o, p \in Unused : o = p
                /\ (\E r \in Request : At(r, "insertOtp")) => Unused = {}

LEMMA OtpInit == ASSUME Init PROVE OtpInv
  BY DEF Init, OtpInv, Unused, NoOtp, At, Idle

LEMMA OtpStep == ASSUME TypeOK, OtpInv, [Next]_vars PROVE OtpInv'
  <1>1. ASSUME UNCHANGED doubled, Unused' \subseteq Unused,
               \A s \in Request : At(s, "insertOtp")' => At(s, "insertOtp")
        PROVE  OtpInv'
    BY <1>1 DEF OtpInv
  <1>2. ASSUME NEW r \in Request, Login(r) \/ EnableTotp(r) \/ EnableEmail(r) \/ Disable(r) \/ ConfirmTotp(r)
        PROVE  OtpInv'
    <2>1. \A s \in Request : At(s, "insertOtp")' => At(s, "insertOtp")
      BY <1>2 DEF Login, EnableTotp, EnableEmail, Disable, ConfirmTotp, At, TypeOK, Idle
    <2>2. UNCHANGED <<otps, doubled>>
      BY <1>2 DEF Login, EnableTotp, EnableEmail, Disable, ConfirmTotp
    <2>3. QED
      BY <1>1, <2>1, <2>2 DEF Unused
  <1>3. ASSUME NEW r \in Request, NEW op \in {"verify", "confirm"}, NEW code \in Known, CheckOtp(r, op, code)
        PROVE  OtpInv'
    BY <1>1, <1>3 DEF CheckOtp, At, TypeOK, Idle, Unused
  <1>4. ASSUME NEW r \in Request, Invalidate(r) PROVE OtpInv'
    <2>1. Unused' = {}
      BY <1>4 DEF Invalidate, Unused, TypeOK, OtpRow
    <2>2. QED
      BY <2>1 DEF OtpInv
  <1>5. ASSUME NEW r \in Request, InsertOtp(r) PROVE OtpInv'
    <2>1. PICK o \in Otp : otps' = [otps EXCEPT ![o].state = "unused"]
      BY <1>5 DEF InsertOtp
    <2>2. Unused' = Unused \cup {o}
      BY <2>1 DEF Unused, TypeOK, OtpRow
    <2>3. ASSUME ~doubled' PROVE ~doubled /\ Unused = {} /\ \A s \in Request : ~At(s, "insertOtp")'
      <3>1. ~doubled /\ ~Others(r, "insertOtp") /\ At(r, "insertOtp")
        BY <1>5, <2>3 DEF InsertOtp
      <3>2. Unused = {}
        BY <3>1 DEF OtpInv
      <3>3. \A s \in Request \ {r} : req'[s] = req[s]
        BY <1>5 DEF InsertOtp, Goto, Done, TypeOK
      <3>4. ~At(r, "insertOtp")'
        BY <1>5 DEF InsertOtp, Goto, Done, TypeOK, At, Idle, RequestState
      <3>5. QED
        BY <3>1, <3>2, <3>3, <3>4 DEF Others, At
    <2>4. QED
      BY <2>2, <2>3 DEF OtpInv
  <1>6. ASSUME NEW r \in Request, FindOtp(r) \/ SaveOtp(r) PROVE OtpInv'
    <2>1. UNCHANGED doubled /\ Unused' \subseteq Unused
      BY <1>6, FindEffect, SaveEffect DEF Unused
    <2>2. \A s \in Request : At(s, "insertOtp")' => At(s, "insertOtp")
      BY <1>6, FindEffect, SaveEffect DEF At
    <2>3. QED
      BY <1>1, <2>1, <2>2
  <1>7. ASSUME NEW r \in Request, Reload(r) \/ Write(r) \/ Fail(r) PROVE OtpInv'
    <2>1. UNCHANGED <<otps, doubled>>
      BY <1>7 DEF Reload, Write, Fail
    <2>2. \A s \in Request : At(s, "insertOtp")' => At(s, "insertOtp")
      BY <1>7 DEF Reload, Write, Fail, Done, Idle, At, TypeOK, RequestState
    <2>3. QED
      BY <1>1, <2>1, <2>2 DEF Unused
  <1>8. CASE Crash
    BY <1>1, <1>8 DEF Crash, At, Idle, Unused
  <1>9. ASSUME NEW o \in Otp, Expire(o) PROVE OtpInv'
    <2>1. Unused' \subseteq Unused
      BY <1>9 DEF Expire, Unused, TypeOK, OtpRow
    <2>2. QED
      BY <1>1, <1>9, <2>1 DEF Expire, At
  <1>10. CASE UNCHANGED vars
    BY <1>1, <1>10 DEF vars, At, Unused
  <1>11. QED
    BY <1>2, <1>3, <1>4, <1>5, <1>6, <1>7, <1>8, <1>9, <1>10 DEF Next, Start, Step

\* OneOtpAtATime: unless two logins or enable2fa were between the two statements
\* of createOtp together, the account has one good code.
THEOREM OtpSafe == Spec => []OneOtpAtATime
  <1>1. ASSUME OtpInv PROVE OneOtpAtATime
    BY <1>1 DEF OtpInv, OneOtpAtATime
  <1>2. QED
    BY <1>1, TypeInit, TypeStep, OtpInit, OtpStep, PTL DEF Spec

-----------------------------------------------------------------------------
(* A code lets a slot in once.                                             *)

\* What is in the table: a code that is not over has let no one in.
RowsInv ==
    \A o \in Otp : /\ IsFiniteSet(otps[o].by) /\ otps[o].uses = Cardinality(otps[o].by)
                   /\ otps[o].state # "over" => otps[o].by = {}

\* A request about to save a code has not been let in by it.
UseInv ==
    /\ RowsInv
    /\ \A r \in Request : At(r, "saveOtp") => r \notin otps[req[r].otp].by

LEMMA UseInit == ASSUME Init PROVE UseInv
  <1>1. IsFiniteSet({}) /\ Cardinality({}) = 0
    BY FS_EmptySet
  <1>2. QED
    BY <1>1 DEF Init, UseInv, RowsInv, NoOtp, At, Idle

LEMMA UseStep == ASSUME TypeOK, UseInv, [Next]_vars PROVE UseInv'
  <1>1. ASSUME \A o \in Otp : /\ otps'[o].by = otps[o].by /\ otps'[o].uses = otps[o].uses
                              /\ otps'[o].state # "over" => otps[o].state # "over",
               \A s \in Request : At(s, "saveOtp")' =>
                    req'[s].otp \in Otp /\ s \notin otps[req'[s].otp].by
        PROVE  UseInv'
    BY <1>1 DEF UseInv, RowsInv
  <1>2. \A s \in Request : At(s, "saveOtp") => req[s].otp \in Otp /\ s \notin otps[req[s].otp].by
    BY DEF TypeOK, UseInv
  <1>3. ASSUME NEW r \in Request, Start(r) PROVE UseInv'
    BY <1>1, <1>2, <1>3, StartType DEF TypeOK, At
  <1>4. ASSUME NEW r \in Request, Invalidate(r) PROVE UseInv'
    <2>1. \A o \in Otp : /\ otps'[o].by = otps[o].by /\ otps'[o].uses = otps[o].uses
                         /\ otps'[o].state # "over" => otps[o].state # "over"
      BY <1>4 DEF Invalidate, TypeOK, OtpRow
    <2>2. \A s \in Request : At(s, "saveOtp")' => At(s, "saveOtp") /\ req'[s].otp = req[s].otp
      BY <1>4 DEF Invalidate, Goto, TypeOK, RequestState, At
    <2>3. QED
      BY <1>1, <1>2, <2>1, <2>2
  <1>5. ASSUME NEW r \in Request, InsertOtp(r) PROVE UseInv'
    <2>1. PICK o \in Otp : First(o, FreeOtps) /\ otps' = [otps EXCEPT ![o].state = "unused"]
      BY <1>5 DEF InsertOtp
    <2>2. \A p \in Otp : /\ otps'[p].by = otps[p].by /\ otps'[p].uses = otps[p].uses
                         /\ otps'[p].state # "over" => otps[p].state # "over"
      BY <2>1 DEF TypeOK, OtpRow, First, FreeOtps
    <2>3. \A s \in Request : At(s, "saveOtp")' => At(s, "saveOtp") /\ req'[s].otp = req[s].otp
      BY <1>5 DEF InsertOtp, Goto, Done, Idle, TypeOK, RequestState, At
    <2>4. QED
      BY <1>1, <1>2, <2>2, <2>3
  <1>6. ASSUME NEW r \in Request, FindOtp(r) PROVE UseInv'
    <2>1. \A o \in Candidate : o \in Otp /\ otps[o].by = {}
      BY DEF Candidate, Unused, UseInv, RowsInv
    <2>2. QED
      BY <1>1, <1>2, <1>6, <2>1, FindEffect DEF At
  <1>7. ASSUME NEW r \in Request, SaveOtp(r) PROVE UseInv'
    <2> DEFINE o == req[r].otp
    <2>1. o \in Otp /\ r \notin otps[o].by
      BY <1>2, <1>7 DEF SaveOtp
    <2>2. IsFiniteSet(otps[o].by) /\ otps[o].uses = Cardinality(otps[o].by)
      BY <2>1 DEF UseInv, RowsInv
    <2>3. IsFiniteSet(otps[o].by \cup {r}) /\ Cardinality(otps[o].by \cup {r}) = otps[o].uses + 1
      BY <2>1, <2>2, FS_AddElement
    <2>4. RowsInv'
      <3>1. /\ otps'[o].by = otps[o].by \cup {r} /\ otps'[o].uses = otps[o].uses + 1
            /\ otps'[o].state = "over"
            /\ \A p \in Otp \ {o} : otps'[p] = otps[p]
        BY <1>7, SaveEffect
      <3> HIDE DEF o
      <3>2. QED
        BY <2>1, <2>3, <3>1 DEF UseInv, RowsInv
    <2>5. \A s \in Request : At(s, "saveOtp")' => s # r /\ At(s, "saveOtp") /\ req'[s].otp = req[s].otp
      BY <1>7, SaveEffect DEF At
    <2>6. QED
      BY <1>2, <1>7, <2>1, <2>4, <2>5, SaveEffect DEF UseInv
  <1>8. ASSUME NEW r \in Request, Reload(r) \/ Write(r) \/ Fail(r) PROVE UseInv'
    <2>1. UNCHANGED otps
      BY <1>8 DEF Reload, Write, Fail
    <2>2. \A s \in Request : At(s, "saveOtp")' => At(s, "saveOtp") /\ req'[s].otp = req[s].otp
      BY <1>8 DEF Reload, Write, Fail, Done, Idle, TypeOK, RequestState, At
    <2>3. QED
      BY <1>1, <1>2, <2>1, <2>2
  <1>9. CASE Crash
    BY <1>1, <1>9 DEF Crash, At, Idle
  <1>10. ASSUME NEW o \in Otp, Expire(o) PROVE UseInv'
    <2>1. \A p \in Otp : /\ otps'[p].by = otps[p].by /\ otps'[p].uses = otps[p].uses
                         /\ otps'[p].state # "over" => otps[p].state # "over"
      BY <1>10 DEF Expire, TypeOK, OtpRow
    <2>2. QED
      BY <1>1, <1>2, <1>10, <2>1 DEF Expire, At
  <1>11. CASE UNCHANGED vars
    BY <1>1, <1>2, <1>11 DEF vars, At
  <1>12. QED
    BY <1>3, <1>4, <1>5, <1>6, <1>7, <1>8, <1>9, <1>10, <1>11 DEF Next, Step

\* OneUsePerRequest: however logins, confirmations and new codes interleave, a
\* one-time code lets in each request slot at most once.
THEOREM UseSafe == Spec => []OneUsePerRequest
  <1>1. ASSUME UseInv PROVE OneUsePerRequest
    BY <1>1 DEF UseInv, RowsInv, OneUsePerRequest
  <1>2. QED
    BY <1>1, TypeInit, TypeStep, UseInit, UseStep, PTL DEF Spec

-----------------------------------------------------------------------------
(* The table of OTPs implements OneTimeCodes.                              *)

Status == [o \in Otp |-> IF otps[o].state = "unused" THEN "good" ELSE otps[o].state]
Uses == [o \in Otp |-> otps[o].uses]

\* A step of r that takes no OTP leaves the others' alone; r may drop its own.
LEMMA HeldByOthers ==
    ASSUME NEW r \in Request, \A s \in Request \ {r} : req'[s] = req[s], ~At(r, "saveOtp")'
    PROVE  /\ Held' = Held \ {<<r, req[r].otp>>}
           /\ ~At(r, "saveOtp") => Held' = Held
  BY DEF Held, At

\* A step that takes no OTP and keeps states and uses is a stutter of the
\* codes, or drops an OTP.
LEMMA QuietCodes ==
    ASSUME NEW r \in Request, UNCHANGED <<Status, Uses>>,
           \A s \in Request \ {r} : req'[s] = req[s], ~At(r, "saveOtp")'
    PROVE  Codes!Next
  <1>1. PICK S \in SUBSET Held : Held' = Held \ S
    <2>1. CASE At(r, "saveOtp")
      <3>1. {<<r, req[r].otp>>} \in SUBSET Held
        BY <2>1 DEF Held
      <3>2. QED
        BY <3>1, HeldByOthers
    <2>2. CASE ~At(r, "saveOtp")
      <3>1. {} \in SUBSET Held /\ Held' = Held \ {}
        BY <2>2, HeldByOthers
      <3>2. QED
        BY <3>1
    <2>3. QED
      BY <2>1, <2>2
  <1>2. Codes!Drop(S)
    BY <1>1 DEF Codes!Drop, Status, Uses
  <1>3. QED
    BY <1>2 DEF Codes!Next

\* Closing OTPs that exist.
LEMMA ClosesCodes ==
    ASSUME TypeOK, NEW S \in SUBSET Otp, \A o \in S : otps[o].state # "absent",
           otps' = [o \in Otp |-> IF o \in S THEN [otps[o] EXCEPT !.state = "over"] ELSE otps[o]],
           Held' = Held
    PROVE  Codes!Next
  <1>1. Status' = [o \in Otp |-> IF o \in S THEN "over" ELSE Status[o]]
    BY DEF Status, TypeOK, OtpRow
  <1>2. Uses' = Uses
    BY DEF Uses, TypeOK, OtpRow
  <1>3. \A o \in S : Status[o] # "absent"
    BY DEF Status
  <1>4. Codes!Close(S)
    BY <1>1, <1>2, <1>3 DEF Codes!Close, Status, Uses
  <1>5. QED
    BY <1>4 DEF Codes!Next

LEMMA NextCodes == ASSUME TypeOK, [Next]_vars PROVE Codes!Next \/ UNCHANGED <<Status, Held, Uses>>
  <1>1. ASSUME NEW r \in Request, Start(r) PROVE Codes!Next
    <2>1. UNCHANGED <<Status, Uses>> /\ (\A s \in Request \ {r} : req'[s] = req[s])
          /\ ~At(r, "saveOtp")'
      BY <1>1, StartType DEF TypeOK, At, Status, Uses
    <2>2. QED
      BY <2>1, QuietCodes
  <1>2. ASSUME NEW r \in Request, Invalidate(r) PROVE Codes!Next
    <2>1. ~At(r, "saveOtp") /\ ~At(r, "saveOtp")' /\ \A s \in Request \ {r} : req'[s] = req[s]
      BY <1>2 DEF Invalidate, Goto, At, TypeOK, RequestState
    <2>2. Held' = Held
      BY <2>1, HeldByOthers
    <2>3. Unused \in SUBSET Otp /\ \A o \in Unused : otps[o].state # "absent"
      BY DEF Unused
    <2>4. QED
      BY <1>2, <2>2, <2>3, ClosesCodes DEF Invalidate
  <1>3. ASSUME NEW r \in Request, InsertOtp(r) PROVE Codes!Next
    <2>1. PICK o \in Otp : First(o, FreeOtps) /\ otps' = [otps EXCEPT ![o].state = "unused"]
      BY <1>3 DEF InsertOtp
    <2>2. Status[o] = "absent"
      BY <2>1 DEF First, FreeOtps, Status
    <2>3. Status' = [Status EXCEPT ![o] = "good"]
      BY <2>1 DEF Status, TypeOK, OtpRow
    <2>4. Uses' = Uses
      BY <2>1 DEF Uses, TypeOK, OtpRow
    <2>5. ~At(r, "saveOtp") /\ ~At(r, "saveOtp")' /\ \A s \in Request \ {r} : req'[s] = req[s]
      BY <1>3 DEF InsertOtp, Goto, Done, Idle, At, TypeOK, RequestState
    <2>6. Held' = Held
      BY <2>5, HeldByOthers
    <2>7. Codes!Issue(o)
      BY <2>2, <2>3, <2>4, <2>6 DEF Codes!Issue, Status, Uses
    <2>8. QED
      BY <2>7 DEF Codes!Next
  <1>4. ASSUME NEW r \in Request, FindOtp(r) PROVE Codes!Next
    <2>1. UNCHANGED <<Status, Uses>>
      <3>1. \A p \in Otp : otps'[p].uses = otps[p].uses /\ otps'[p].state = otps[p].state
        BY <1>4, FindEffect
      <3>2. QED
        BY <3>1 DEF Status, Uses
    <2>2. (\A s \in Request \ {r} : req'[s] = req[s]) /\ At(r, "findOtp")
      BY <1>4, FindEffect DEF FindOtp
    <2>3. CASE ~At(r, "saveOtp")'
      BY <2>1, <2>2, <2>3, QuietCodes
    <2>4. CASE At(r, "saveOtp")'
      <3>1. PICK o \in Candidate : o = req'[r].otp
        BY <1>4, <2>4, FindEffect DEF At
      <3>2. o \in Otp /\ Status[o] = "good"
        BY <3>1 DEF Candidate, Unused, Status
      <3>3. \A p \in Otp : <<r, p>> \notin Held
        BY <2>2 DEF Held, At
      <3>4. Held' = Held \cup {<<r, o>>}
        BY <2>2, <2>4, <3>1 DEF Held, At
      <3>5. Codes!Take(r, o)
        BY <2>1, <3>2, <3>3, <3>4 DEF Codes!Take, Status, Uses
      <3>6. QED
        BY <3>2, <3>5 DEF Codes!Next
    <2>5. QED
      BY <2>3, <2>4
  <1>5. ASSUME NEW r \in Request, SaveOtp(r) PROVE Codes!Next
    <2>1. PICK o \in Otp : o = req[r].otp /\ <<r, o>> \in Held
      <3>1. req[r].otp \in Otp
        BY <1>5, SaveEffect
      <3>2. <<r, req[r].otp>> \in Held
        BY <1>5 DEF SaveOtp, Held
      <3>3. QED BY <3>1, <3>2
    <2>2. /\ otps'[o].uses = otps[o].uses + 1
          /\ otps'[o].state = "over"
          /\ \A p \in Otp \ {o} : otps'[p] = otps[p]
      BY <1>5, <2>1, SaveEffect
    <2>3. ~At(r, "saveOtp")' /\ \A s \in Request \ {r} : req'[s] = req[s]
      BY <1>5, SaveEffect DEF At
    <2>4. Held' = Held \ {<<r, o>>}
      BY <2>1, <2>3, HeldByOthers
    <2>5. Status' = [Status EXCEPT ![o] = "over"]
      BY <2>1, <2>2 DEF Status
    <2>6. Uses' = [Uses EXCEPT ![o] = Uses[o] + 1]
      BY <2>1, <2>2 DEF Uses
    <2>7. Codes!Admit(r, o)
      BY <2>1, <2>4, <2>5, <2>6 DEF Codes!Admit, Status, Uses
    <2>8. QED
      BY <2>1, <2>7 DEF Codes!Next
  <1>6. ASSUME NEW r \in Request, Reload(r) \/ Write(r) \/ Fail(r) PROVE Codes!Next
    <2>1. UNCHANGED <<Status, Uses>>
      BY <1>6 DEF Reload, Write, Fail, Status, Uses
    <2>2. ~At(r, "saveOtp")' /\ \A s \in Request \ {r} : req'[s] = req[s]
      BY <1>6 DEF Reload, Write, Fail, Done, Idle, At, TypeOK, RequestState
    <2>3. QED
      BY <2>1, <2>2, QuietCodes
  <1>7. CASE Crash
    <2>1. UNCHANGED <<Status, Uses>> /\ Held' = Held \ Held
      BY <1>7 DEF Crash, Status, Uses, Held, At, Idle
    <2>2. Codes!Drop(Held)
      BY <2>1 DEF Codes!Drop, Status, Uses
    <2>3. QED
      BY <2>2 DEF Codes!Next
  <1>8. ASSUME NEW o \in Otp, Expire(o) PROVE Codes!Next
    <2>1. otps' = [p \in Otp |-> IF p \in {o} THEN [otps[p] EXCEPT !.state = "over"] ELSE otps[p]]
      BY <1>8 DEF Expire, TypeOK
    <2>2. {o} \in SUBSET Otp /\ \A p \in {o} : otps[p].state # "absent"
      BY <1>8 DEF Expire, First, Unused
    <2>3. Held' = Held
      BY <1>8 DEF Expire, Held, At
    <2>4. QED
      BY <2>1, <2>2, <2>3, ClosesCodes
  <1>9. CASE UNCHANGED vars
    BY <1>9 DEF vars, Status, Uses, Held, At
  <1>10. QED
    BY <1>1, <1>2, <1>3, <1>4, <1>5, <1>6, <1>7, <1>8, <1>9 DEF Next, Step

\* Refinement: the OTPs of an account are one-time codes, although finding one
\* and saving it as used are separate statements.
THEOREM CodesRefined == Spec => CodesSpec
  <1>1. ASSUME Init PROVE Codes!Init
    <2>1. Held = {}
      BY <1>1 DEF Init, Held, At, Idle
    <2>2. QED
      BY <1>1, <2>1 DEF Init, NoOtp, Codes!Init
  <1>2. QED
    BY <1>1, TypeInit, TypeStep, NextCodes, PTL
    DEF Spec, CodesSpec, Codes!Spec, Codes!codes, Status, Uses

-----------------------------------------------------------------------------
(* The limit of failed attempts.                                           *)

\* The count reaches the table only with the code it closes.
CountInv == \A o \in Otp : otps[o].state # "over" => otps[o].failed = 0

\* No failed attempt is stored with a code that is good, and the limit is out of
\* the reach of the next one.
NothingCounted == \A o \in Unused : otps[o].failed = 0 /\ otps[o].failed + 1 < Limit

LEMMA NothingIsCounted == ASSUME CountInv PROVE NothingCounted
  BY TwoFactorAssumption DEF CountInv, NothingCounted, Unused

LEMMA CountStep == ASSUME TypeOK, CountInv, [Next]_vars PROVE CountInv'
  <1>1. ASSUME \A o \in Otp : /\ otps'[o].state # "over" => otps[o].state # "over"
                              /\ otps'[o].failed = otps[o].failed \/ otps'[o].state = "over"
        PROVE  CountInv'
    BY <1>1 DEF CountInv
  <1>2. CASE UNCHANGED otps
    BY <1>2 DEF CountInv
  <1>3. ASSUME NEW r \in Request, Invalidate(r) PROVE CountInv'
    <2>1. \A o \in Otp : otps'[o] = IF o \in Unused THEN [otps[o] EXCEPT !.state = "over"] ELSE otps[o]
      BY <1>3 DEF Invalidate
    <2>2. \A o \in Unused : otps'[o].state = "over"
      BY <2>1 DEF Unused, TypeOK, OtpRow
    <2>3. QED
      BY <1>1, <2>1, <2>2
  <1>4. ASSUME NEW r \in Request, InsertOtp(r) PROVE CountInv'
    <2>1. PICK o \in FreeOtps : otps' = [otps EXCEPT ![o].state = "unused"]
      BY <1>4 DEF InsertOtp, First
    <2>2. /\ otps'[o].failed = otps[o].failed /\ otps[o].state = "absent"
          /\ \A p \in Otp \ {o} : otps'[p] = otps[p]
      BY <2>1 DEF FreeOtps, TypeOK, OtpRow
    <2>3. QED
      BY <1>1, <2>2
  <1>5. ASSUME NEW r \in Request, FindOtp(r) PROVE CountInv'
    <2>1. ASSUME NEW o \in Candidate, otps[o].failed + 1 >= Limit PROVE FALSE
      BY <2>1, NothingIsCounted, TwoFactorAssumption DEF Candidate, NothingCounted
    <2>2. ASSUME NEW o \in Candidate,
                 otps' = [otps EXCEPT ![o].wrong = IF @ < MaxTries THEN @ + 1 ELSE @]
          PROVE  CountInv'
      <3>1. /\ otps'[o].failed = otps[o].failed /\ otps'[o].state = otps[o].state
            /\ \A p \in Otp \ {o} : otps'[p] = otps[p]
        BY <2>2 DEF Candidate, Unused, TypeOK, OtpRow
      <3>2. QED
        BY <1>1, <3>1
    <2>3. QED
      BY <1>2, <1>5, <2>1, <2>2 DEF FindOtp
  <1>6. ASSUME NEW r \in Request, SaveOtp(r) PROVE CountInv'
    BY <1>1, <1>6, SaveEffect
  <1>7. ASSUME NEW o \in Otp, Expire(o) PROVE CountInv'
    <2>1. otps'[o].state = "over" /\ \A p \in Otp \ {o} : otps'[p] = otps[p]
      BY <1>7 DEF Expire, TypeOK, OtpRow
    <2>2. otps[o].state = "unused"
      BY <1>7 DEF Expire, First, Unused
    <2>3. QED
      BY <1>1, <2>1, <2>2
  <1>8. ASSUME NEW r \in Request, Start(r) \/ Reload(r) \/ Write(r) \/ Fail(r) PROVE CountInv'
    <2>1. UNCHANGED otps
      BY <1>8, StartType DEF Reload, Write, Fail
    <2>2. QED
      BY <1>2, <2>1
  <1>9. CASE Crash \/ UNCHANGED vars
    BY <1>2, <1>9 DEF Crash, vars
  <1>10. QED
    BY <1>3, <1>4, <1>5, <1>6, <1>7, <1>8, <1>9 DEF Next, Step

\* verifyOtps counts a wrong code on the entity it throws away, and saves the count
\* only with the code that was right: whatever the limit above one, no number of
\* wrong codes brings a good code to it, and the branch that refuses is dead.
THEOREM LimitNeverReached == Spec => []NothingCounted
  <1>1. ASSUME Init PROVE CountInv
    BY <1>1 DEF Init, CountInv, NoOtp
  <1>2. QED
    BY <1>1, TypeInit, TypeStep, CountStep, NothingIsCounted, PTL DEF Spec

=============================================================================
