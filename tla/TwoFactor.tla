------------------------------ MODULE TwoFactor ------------------------------
(***************************************************************************)
(* The second factor of one account: enable2fa, confirm2fa, verify2fa,     *)
(* disable2fa and the one-time codes a login mails (src/modules/auth/      *)
(* auth.service), OtpsService, TotpService and SecurityService             *)
(* (src/modules/users/security).  Nothing here runs in a transaction:      *)
(* every statement commits by itself.  The recovery codes that confirm2fa  *)
(* goes on to generate, and verify2fa to look for, are RecoveryCodes'.     *)
(***************************************************************************)
EXTENDS Naturals, FiniteSets

CONSTANTS
    Request,    \* slots for the requests in flight at one time
    MaxOtps,    \* bound on the rows of user_security_two_factor_otps
    MaxSecrets, \* bound on the TOTP secrets generated
    Limit,      \* failedAttempts that close a code: 5, scaled down
    MaxTries    \* bound on the wrong codes counted against an OTP

ASSUME TwoFactorAssumption ==
    /\ MaxOtps \in Nat /\ MaxSecrets \in Nat
    /\ Limit \in Nat \ {0, 1} /\ MaxTries \in Nat

VARIABLES
    security,  \* the row of user_security: enabled, type, data
    otps,      \* user_security_two_factor_otps, by id; the code of row o is o
    qr,        \* the TOTP secrets clients have been shown
    torn,      \* history: the row of user_security was last written by a save()
               \* whose reload another save() had overtaken
    doubled,   \* history: two createOtp calls overlapped since the last invalidation
    req        \* the requests in flight

vars == <<security, otps, qr, torn, doubled, req>>

-----------------------------------------------------------------------------
Otp == 1..MaxOtps
Secret == 1..MaxSecrets

Type == {"none", "totp", "email"}

\* twoFactorData: null, a secret to confirm, a confirmed one, or an address.
Data == [kind : {"pending", "totp"}, secret : Secret] \cup [kind : {"null", "email"}, secret : {0}]
NoData == [kind |-> "null", secret |-> 0]

Security == [enabled : BOOLEAN, type : Type, data : Data]
NoSecurity == [enabled |-> FALSE, type |-> "none", data |-> NoData]

\* A code that is "used" or has expired is over.  by, uses and wrong are history
\* variables: the slots the code has let in and how often, and the wrong codes
\* compared with it.
OtpRow == [state : {"absent", "unused", "over"}, failed : Nat, wrong : Nat,
           by : SUBSET Request, uses : Nat]
NoOtp == [state |-> "absent", failed |-> 0, wrong |-> 0, by |-> {}, uses |-> 0]

Pc == {"idle", "invalidate", "insertOtp", "findOtp", "saveOtp", "reload", "write"}

Op == {"none", "login", "enable", "verify", "confirm", "disable"}

\* code is the OTP presented, 0 for a code that is none; sec the entity of
\* user_security the handler has read and changed; loaded the row save() has
\* read to compare it with; otp and failed the entity verifyOtps has changed.
RequestState == [pc : Pc, op : Op, sec : Security, loaded : Security,
                 code : Otp \cup {0}, otp : Otp \cup {0}, failed : Nat]
Idle == [pc |-> "idle", op |-> "none", sec |-> NoSecurity, loaded |-> NoSecurity,
         code |-> 0, otp |-> 0, failed |-> 0]

At(r, label) == req[r].pc = label
Others(r, label) == \E other \in Request \ {r} : At(other, label)

Unused == {o \in Otp : otps[o].state = "unused"}

\* The code verifyOtps looks at: the newest row that is not used.  Rows expire in
\* the order of their insertion, so when that one has, all have.
Candidate == {o \in Unused : \A p \in Unused : p <= o}

FreeOtps == {o \in Otp : otps[o].state = "absent"}
\* Ids are taken in order.
First(x, S) == x \in S /\ \A y \in S : x <= y

\* A secret is new: in no row, request or QR code.
FreeSecrets == {s \in Secret : /\ s \notin qr
                               /\ security.data.secret # s
                               /\ \A r \in Request : s \notin {req[r].sec.data.secret, req[r].loaded.data.secret}}

\* What clients may present where an OTP is asked for: one that is used up is
\* as good as a wrong one.
Known == Unused \cup {0}

Init ==
    /\ security = NoSecurity
    /\ otps = [o \in Otp |-> NoOtp]
    /\ qr = {}
    /\ torn = FALSE /\ doubled = FALSE
    /\ req = [r \in Request |-> Idle]

Goto(r, label) == req' = [req EXCEPT ![r].pc = label]
Done(r) == req' = [req EXCEPT ![r] = Idle]

-----------------------------------------------------------------------------
(* The handlers, up to their first write.                                  *)

\* __Validate2FAUser of a user whose second factor is a mailed code.
Login(r) ==
    /\ At(r, "idle")
    /\ security.enabled /\ security.type = "email"
    /\ req' = [req EXCEPT ![r] = [Idle EXCEPT !.pc = "invalidate", !.op = "login"]]
    /\ UNCHANGED <<security, otps, qr, torn, doubled>>

EnableTotp(r) ==
    /\ At(r, "idle")
    /\ ~security.enabled
    /\ \E s \in Secret :
          /\ First(s, FreeSecrets)
          /\ req' = [req EXCEPT ![r] =
               [Idle EXCEPT !.pc = "reload", !.op = "enable",
                            !.sec = [enabled |-> FALSE, type |-> "totp",
                                     data |-> [kind |-> "pending", secret |-> s]]]]
    /\ UNCHANGED <<security, otps, qr, torn, doubled>>

\* enableOtps leaves twoFactorData as it is.
EnableEmail(r) ==
    /\ At(r, "idle")
    /\ ~security.enabled
    /\ req' = [req EXCEPT ![r] =
         [Idle EXCEPT !.pc = "invalidate", !.op = "enable",
                      !.sec = [security EXCEPT !.enabled = FALSE, !.type = "email"]]]
    /\ UNCHANGED <<security, otps, qr, torn, doubled>>

\* Faulty: the data stays.
DisableKeepsData(r) ==
    /\ At(r, "idle")
    /\ security.enabled
    /\ req' = [req EXCEPT ![r] = [Idle EXCEPT !.pc = "reload", !.op = "disable",
                                             !.sec = [security EXCEPT !.enabled = FALSE, !.type = "none"]]]
    /\ UNCHANGED <<security, otps, qr, torn, doubled>>

Disable(r) ==
    /\ At(r, "idle")
    /\ security.enabled
    /\ req' = [req EXCEPT ![r] = [Idle EXCEPT !.pc = "reload", !.op = "disable"]]
    /\ UNCHANGED <<security, otps, qr, torn, doubled>>

\* What confirm2fa makes of the row it has read, when the code is valid.
Confirmed(sec) == [enabled |-> TRUE, type |-> sec.type,
                   data |-> IF sec.type = "totp" THEN [sec.data EXCEPT !.kind = "totp"]
                                                 ELSE [kind |-> "email", secret |-> 0]]

\* verify2fa and confirm2fa read user_security and branch on its type.
CheckOtp(r, op, code) ==
    /\ At(r, "idle")
    /\ security.type = "email"
    /\ req' = [req EXCEPT ![r] =
         [Idle EXCEPT !.pc = "findOtp", !.op = op, !.code = code,
                      !.sec = IF op = "confirm" THEN Confirmed(security) ELSE NoSecurity]]
    /\ UNCHANGED <<security, otps, qr, torn, doubled>>

\* The TOTP secret in the row is one a client was shown, and its code is valid;
\* a row without a secret makes the handler throw.
ConfirmTotp(r) ==
    /\ At(r, "idle")
    /\ security.type = "totp" /\ security.data.secret \in qr
    /\ req' = [req EXCEPT ![r] = [Idle EXCEPT !.pc = "reload", !.op = "confirm",
                                             !.sec = Confirmed(security)]]
    /\ UNCHANGED <<security, otps, qr, torn, doubled>>

-----------------------------------------------------------------------------
(* One-time codes.                                                         *)

\* Faulty: what was not used stays good.
InvalidateNone(r) ==
    /\ At(r, "invalidate")
    /\ doubled' = FALSE
    /\ Goto(r, "insertOtp")
    /\ UNCHANGED <<security, otps, qr, torn>>

\* createOtp: what was not used is now, ...
Invalidate(r) ==
    /\ At(r, "invalidate")
    /\ otps' = [o \in Otp |-> IF o \in Unused THEN [otps[o] EXCEPT !.state = "over"] ELSE otps[o]]
    /\ doubled' = FALSE
    /\ Goto(r, "insertOtp")
    /\ UNCHANGED <<security, qr, torn>>

\* ... and a new code is inserted; its mail is not awaited.
InsertOtp(r) ==
    /\ At(r, "insertOtp")
    /\ \E o \in Otp : First(o, FreeOtps) /\ otps' = [otps EXCEPT ![o].state = "unused"]
    /\ doubled' = (doubled \/ Others(r, "insertOtp"))
    /\ IF req[r].op = "enable" THEN Goto(r, "reload") ELSE Done(r)
    /\ UNCHANGED <<security, qr, torn>>

Confirm(r) == req' = [req EXCEPT ![r] = [Idle EXCEPT !.pc = "reload", !.op = "confirm", !.sec = req[r].sec]]

\* Faulty: the limit and the code are not looked at.
FindOtpAny(r) ==
    /\ At(r, "findOtp")
    /\ req' = [req EXCEPT ![r].pc = "saveOtp",
                          ![r].otp = IF Unused = {} THEN 0 ELSE CHOOSE o \in Unused : TRUE]
    /\ UNCHANGED <<security, otps, qr, torn, doubled>>

\* verifyOtps: the newest code not used yet.  At the limit the count is saved
\* and the handler throws; a wrong code is counted on the entity only.
FindOtp(r) ==
    /\ At(r, "findOtp")
    /\ \/ /\ Candidate = {}
          /\ Done(r)
          /\ UNCHANGED otps
       \/ \E o \in Candidate :
          \/ /\ otps[o].failed + 1 >= Limit
             /\ otps' = [otps EXCEPT ![o].failed = @ + 1]
             /\ Done(r)
          \/ /\ otps[o].failed + 1 < Limit /\ req[r].code # o
             /\ otps' = [otps EXCEPT ![o].wrong = IF @ < MaxTries THEN @ + 1 ELSE @]
             /\ Done(r)
          \/ /\ otps[o].failed + 1 < Limit /\ req[r].code = o
             /\ req' = [req EXCEPT ![r].pc = "saveOtp", ![r].otp = o, ![r].failed = otps[o].failed + 1]
             /\ UNCHANGED otps
    /\ UNCHANGED <<security, qr, torn, doubled>>

\* Faulty: used is not set.
SaveOtpUnused(r) ==
    /\ At(r, "saveOtp")
    /\ otps' = [otps EXCEPT ![req[r].otp].by = @ \cup {r}, ![req[r].otp].uses = @ + 1]
    /\ IF req[r].op = "confirm" THEN Confirm(r) ELSE Done(r)
    /\ UNCHANGED <<security, qr, torn, doubled>>

\* The code is saved as used, with the count, and lets the client in.
SaveOtp(r) ==
    LET o == req[r].otp IN
    /\ At(r, "saveOtp")
    /\ otps' = [otps EXCEPT ![o].state = "over", ![o].failed = req[r].failed,
                            ![o].by = @ \cup {r}, ![o].uses = @ + 1]
    /\ IF req[r].op = "confirm" THEN Confirm(r) ELSE Done(r)
    /\ UNCHANGED <<security, qr, torn, doubled>>

-----------------------------------------------------------------------------
(* The row of user_security.                                               *)

\* save() reads the row again, ...
Reload(r) ==
    /\ At(r, "reload")
    /\ req' = [req EXCEPT ![r].pc = "write", ![r].loaded = security]
    /\ UNCHANGED <<security, otps, qr, torn, doubled>>

\* ... and updates the columns that differ; a new secret's QR code may be shown.
Write(r) ==
    LET entity == req[r].sec
        loaded == req[r].loaded
    IN
    /\ At(r, "write")
    /\ security' = [f \in DOMAIN security |-> IF entity[f] = loaded[f] THEN security[f] ELSE entity[f]]
    /\ torn' = (loaded # security)
    /\ qr' = IF entity.data.kind = "pending" THEN qr \cup {entity.data.secret} ELSE qr
    /\ Done(r)
    /\ UNCHANGED <<otps, doubled>>

-----------------------------------------------------------------------------
(* The environment.                                                        *)

Fail(r) ==
    /\ ~At(r, "idle")
    /\ Done(r)
    /\ UNCHANGED <<security, otps, qr, torn, doubled>>

Crash ==
    /\ \E r \in Request : ~At(r, "idle")
    /\ req' = [r \in Request |-> Idle]
    /\ UNCHANGED <<security, otps, qr, torn, doubled>>

Expire(o) ==
    /\ First(o, Unused)
    /\ otps' = [otps EXCEPT ![o].state = "over"]
    /\ UNCHANGED <<security, qr, torn, doubled, req>>

Start(r) ==
    \/ Login(r) \/ EnableTotp(r) \/ EnableEmail(r) \/ Disable(r)
    \/ ConfirmTotp(r)
    \/ \E op \in {"verify", "confirm"} : \E code \in Known : CheckOtp(r, op, code)

Step(r) ==
    \/ Invalidate(r) \/ InsertOtp(r) \/ FindOtp(r) \/ SaveOtp(r)
    \/ Reload(r) \/ Write(r)

Next ==
    \/ \E r \in Request : Start(r) \/ Step(r) \/ Fail(r)
    \/ Crash
    \/ \E o \in Otp : Expire(o)

Spec == Init /\ [][Next]_vars

-----------------------------------------------------------------------------
(* Properties.                                                             *)

\* Rows and requests have the shape the tables and handlers give them, and a
\* request about to save an OTP has found one.
TypeOK ==
    /\ security \in Security
    /\ otps \in [Otp -> OtpRow]
    /\ qr \subseteq Secret
    /\ torn \in BOOLEAN
    /\ doubled \in BOOLEAN
    /\ req \in [Request -> RequestState]
    /\ \A r \in Request :
          At(r, "saveOtp") => req[r].otp \in Otp /\ otps[req[r].otp].state # "absent"

\* On only with confirmed data, and off without a type only without data.
Consistent(sec) ==
    /\ sec.enabled => sec.data.kind = sec.type
    /\ sec.type = "none" => sec.data = NoData

\* A second factor that is on is one its user has confirmed with a code, and
\* one that was turned off has left nothing - however enable, confirm and
\* disable overlap, except for a save() that another overtook after its reload.
SecurityConsistent == ~torn => Consistent(security)

\* A one-time code lets one slot in once: it is used twice only by requests that
\* overlap, each having found it unused before another saved it.
OneUsePerRequest == \A o \in Otp : otps[o].uses = Cardinality(otps[o].by)

\* One OTP is good at a time, unless two calls of createOtp overlapped.
OneOtpAtATime == ~doubled => \A o, p \in Unused : o = p

\* OTP_FAILED_ATTEMPTS ("The limit of authentication attempts with two-factor
\* authentication has been exceeded"): a code against which Limit wrong ones
\* have been tried lets no one in.
LimitHolds == \A o \in Otp : otps[o].uses > 0 => otps[o].wrong < Limit

\* The OTPs a request has found good and not saved as used yet.
Held == {<<r, req[r].otp>> : r \in {q \in Request : At(q, "saveOtp")}}

\* The abstract specification the table implements.
Codes == INSTANCE OneTimeCodes WITH
    Code <- Otp, Client <- Request,
    status <- [o \in Otp |-> IF otps[o].state = "unused" THEN "good" ELSE otps[o].state],
    holds <- Held,
    admitted <- [o \in Otp |-> otps[o].uses]

\* Whatever is mailed, tried, expires and fails meanwhile, the table moves only
\* as one-time codes do: an OTP lets in only a request that found it good, and
\* no request that comes after it was used, replaced or has expired.
CodesSpec == Codes!Spec

=============================================================================
