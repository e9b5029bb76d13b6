# A verification model of the authentication backend

TLA+ modules for the service in `src/` (NestJS, TypeORM 0.3, PostgreSQL), the
TLC configurations that check them on small instances, and TLAPS proofs about
the session core, passwords and mailed links, failed attempts, the second factor
and the accounts. Paths
below are relative to `src/modules/` of the service unless they say otherwise;
`PROJECT.json` maps every definition to the lines it models.

## 1. The system

One Node process serves HTTP requests. A handler is an async function: it runs
without interruption from one `await` to the next, and every other request may
run in between. All state that matters is in PostgreSQL tables, reached through
TypeORM repositories, at READ COMMITTED (the default; nothing sets another
level). Some handlers open a transaction (`dataSource.transaction`), pass its
manager to the services they call, and some of those services query through
their own repository all the same, outside the transaction. Nothing is retried;
a failed await throws out of the handler.

| component | state | operations | interacts with |
|---|---|---|---|
| sessions (`auth/auth.service.ts`, `auth/sessions`) | `auth_sessions`: user, device, isActive; `user_sessions`: history | login reuses or inserts the row; logout, logoutDevice, logoutAll end it | refresh tokens, users |
| refresh tokens (`auth/refresh-tokens`) | `auth_refresh_tokens`: hash of a JWT, session, revoked, expiresAt | create, revoke one (a refresh), revoke those of a session or a user | sessions |
| passwords, links (`auth/auth.service.ts`, `users/tokens`, `users/credentials`, `users/users.service.ts`) | `users`: status, user_secret; `user_account_credentials`; `user_tokens`: one-time links | register, verifyEmail, resetPassword, resetPasswordToken, resetPasswordLogged | mail, sessions (logoutAll) |
| attempts (`auth/attempts`, `auth/guards/brute-force.guard.ts`) | `auth_attempts`: count and blockedUntil per address | recordFailure, reset, the guard | login, verify2fa |
| two-factor (`users/security`, `users/security-recovery-codes`) | `user_security`, OTPs, recovery codes | enable, confirm, verify, disable, generate and use codes | login, attempts, mail |
| re-authentication (`auth/re-auth`, `auth/guards/re-auth.guard.ts`) | `auth_reauth_tokens` | reauthenticate, consumeToken | credentials |
| OAuth accounts (`users/oauth`, `auth/oauth`) | `user_account_oauth` | login, link, unlink | users, roles, sessions |
| e-mail change (`users/email-change-request`, `users/email-log-changes`) | requests and a log with a rollback token | create, changeEmail, rollbackEmail | users, mail |
| users, roles (`users/users.service.ts`, `roles`) | `users`, `roles` | create, update, changeRole, remove; getNameRoleOrCreate | all |
| guards (`auth/guards`) | none: the claims of an access token, as old as the token | AuthGuard, PermissionGuard, SuperadminGuard, UserSelfOrAdminGuard | users, roles |
| connection pool (`app.module.ts`, `pg`) | connections held | a query takes one for itself, a transaction from BEGIN to COMMIT | all |
| audit log, mail, password policy, dynamic queries, identity types, i18n, configuration | rows nothing reads back, or none | | |

What is hard here, and what makes each component correct:

* **Reads used after an await.** `revokeRefreshToken` reads, tests and updates a
  token in separate statements; `revokeTokenWithUserId` reads the tokens to
  revoke through its own repository; `recordFailure` reads, counts and saves;
  OTPs, recovery codes, links and re-authentication tokens are tested and marked
  used apart. Correct means: what such a check promises holds for requests that
  come one after the other, and where requests overlap the damage is bounded in
  a way that can be stated.
* **Work outside the transaction, and chains of commits.** A refresh commits the
  revocation before it inserts the new token; a change of password commits, then
  sends a mail, then ends the sessions; a verification link is mailed before its
  row is committed. Correct means: wherever the chain is cut, by a failing
  statement or mail or by a restart, no state is reached that the next requests
  take for something else.
* **Keys and boundaries.** A refresh JWT is determined by session and second; the
  limits of attempts; expiry of rows and JWTs.
* **Waiting.** Transactions hold row locks and a pooled connection across awaits,
  and some of them wait for a second connection: as many such transactions as the
  pool has connections wait for each other for ever (no pool size and no timeout
  is configured, so ten of them).
* **Rows written back.** TypeORM's `save()` of a row read earlier reloads the row
  and writes every selected column that has come to differ: changeRole, the
  rollback of an address and a plain update write back what other requests have
  changed since.
* **Promises nobody awaits.** `remove` and `update` call `findOne` without `await`;
  its rejection, for a user who is gone, ends the process and every request with it.

## 2. The modules

| module | models | about |
|---|---|---|
| `AuthSessions` | login from the validated user on, refresh, the three logouts | one action per awaited SQL statement |
| `OneTimeCodes` | (abstract) what links, OTPs and recovery codes promise | codes are issued, taken while good, admit their takers, are closed |
| `RefreshLedger` | (abstract) what the token table promises | tokens are issued, exchanged once dead, revoked |
| `AuthSessionsProofs` | | theorems |
| `Passwords` | register, verifyEmail, the two ways to change a password, with login, verify2fa, loginWithOauth and refresh | |
| `PasswordsProofs` | | theorems |
| `Attempts` | failed attempts and the guard | |
| `TwoFactor` | enable, confirm, verify, disable; one-time codes | |
| `RecoveryCodes` | generate and use recovery codes | |
| `AttemptsProofs`, `TwoFactorProofs`, `RecoveryCodesProofs` | | theorems |
| `AccountRows` | what the handlers on an account share: the users table, requests, the pool | extended by the next four |
| `Guards` | what stands before a handler | operators over claims and rows |
| `EmailChange` | update, confirmation and rollback of an address | |
| `OAuthAccounts` | login, link and unlink of a provider | |
| `ReAuthentication` | reauthenticate, the guard, the change of password behind it | |
| `Accounts` | changeRole and remove, and all of these on one table and one pool | the specification that is checked and proved about |
| `AddressLedger` | (abstract) what the change of an address promises | accounts are opened, offered, given and given back addresses |
| `AccountsProofs`, `AccountsRaceProofs`, `AccountsAddressProofs` | | theorems |
| `MC...` | | instances for TLC: symmetry and tuples a .cfg cannot write |

### 2.1 AuthSessions

State: the three tables as functions from primary keys to rows (`"absent"` where
no row has the key yet; keys are taken in order, as a sequence hands them out),
the JWTs that reached a client, a clock in whole seconds, and per request in
flight a program counter and the locals it keeps across awaits.

Actions and code, in order:

* **login** `FindSession` (the history INSERT, `createAuthSession`'s findOne) -
  `Reactivate` (an `UPDATE` that is *not* passed the manager, so it commits by
  itself) or `InsertSession` - `CommitLogin` (the JWT, the INSERT of the token,
  COMMIT: session, token and history row appear together) - `Respond`.
  `loginWithOauth` (auth.service.ts:955-1016) repeats these statements.
* **refresh** `FindToken` (findOne by hash, any row that has it; refusals) -
  `RevokeOne` (`UPDATE ... WHERE id`, which waits for a row lock and does not look
  at `revoked` again; JWT verification) - `FindUser` - `InsertToken`, which
  commits by itself: a refresh has no transaction.
* **logout**, **logoutDevice** (whichever user's session `findBySessionId` or
  `findByDeviceId` returns) `SelectRows`: one UPDATE by session.
  **logoutAll** `RevokeRows` reads the tokens outside the transaction,
  `SelectSessions` saves them and reads the sessions, `CommitLogout`.
* **environment** `Fail`: any awaited statement throws and its transaction rolls
  back (a deadlock victim is one case); `Crash`: the process dies and every open
  transaction rolls back; `Tick`.

Abstractions: `CommitLogout` takes the locks of the session rows and commits in
one step (taking a lock no one else holds commutes with everything up to COMMIT);
audit rows, mail and the reset of attempts after COMMIT are awaits that can only
fail, so they are part of `Respond`/`Fail`. A role or address inside a JWT is left
out: a JWT's identity is session and iat. Removal of a user (a soft delete that
cascades to nothing) is in Accounts. `SessionId`, `TokenId` bound the rows an
instance can insert.

History variables: a token's `parent` and `by` (the row a refresh replaced, the
slot that did), `raced` (a logout overlapped the request that issued it, or an
ancestor).

### 2.2 Passwords

Accounts (status, the number of the current password, of the current
`user_secret`, what is stored of a second factor), links, one *grant* per sign-in
(a session with its chain of refresh tokens), what mails carried, access tokens,
requests.

* **registration** `Register`, `InsertUser` (waits for a concurrent INSERT of the
  address; inserts the link and mails it inside the transaction),
  `CommitRegister`; `OpenVerification`, `Activate`, `MarkUsed` (three commits).
* **reset and change** `InsertLink`, `MailLink`; `OpenReset` or `ChangePassword`,
  `UpdateCredential` (waits for the row), `CommitPassword`, `SelectGrants` (after
  the mail), `RevokeGrants`. Any link opens at any endpoint that takes one:
  `findOneByToken` does not look at the type. `Expire` may come for a fresh link at
  any time.
* **sign-ins**, three ways to a session. `SignIn` (login: password and status are
  looked at), `AskFactor` (with a second factor on, the login ends here), `Issue`.
  `Verify2fa` - a later request of its own, for any user and whatever login came
  before - reads the row and looks at neither password nor status; `CheckFactor`
  needs something stored that a code can match (a factor that is enabled, or being
  enabled, or recovery codes left by disable2fa); then `Issue`. `LoginWithOauth`
  finds an account by its provider or its address whatever its status, and
  `IssueProvider` opens a session without an access token. `loginById` is called by
  nobody.
* **refresh** `OpenRefresh`, `Rotate`, `SignAccess`.
* **the second factor**, as far as sign-ins can tell: `ChangeFactor` (any of the three
  handlers, behind the guard), `SaveFactor`.

`excused` marks a session that a change of password could not end: it was opened
or rotated after `logoutAll` had read what to end, by a request that had read the
account under the old password, or the change failed or died before its `logoutAll`
committed. A verify2fa that begins after a change of password opens a session by the
code alone, even if the login that asked for it was accepted on the old password:
the code has it so, and `password` of a grant is the one the account had when *the
request that opened it* read the row. What is promised is that no request keeps, of
what it read before the change, anything that works after it.

`provider` marks a session a provider vouched for: `GrantOnlyVerified` says it is
the only kind an account that is not verified can have.

Left to AuthSessions: two refreshes of one token, devices, JWT identity. Left to
TwoFactor and RecoveryCodes: whether a code is right. Left to Accounts: accounts a
provider's login creates (active, without credentials), re-authentication before a
change, removal. Left out: bcrypt and the password policy; suspended and inactive
accounts, a status no code sets. The places of sessions that are over are used again
(`FreeGrants`), so that one grant serves a long sequence of sign-ins.

### 2.3 Attempts

The row of an address; requests between `findEmail`, `save()`'s reload (TypeORM
reads the row with the entity's id before its transaction) and the UPDATE of the
columns that differ from the reload, or the INSERT when the row was absent or is
gone. A request that passed the guard keeps going when the address is blocked
meanwhile, and `verify2fa` has no guard. `mixed` and `torn` record overlaps:
another request's read, or even its reload, is older than a save or reset.

### 2.4 TwoFactor

State: the row of `user_security` (enabled, type, data), the OTPs of the account
(unused, or over: used or expired), the TOTP secrets a client has been shown,
and per request its entity and what `save()` has loaded. `Login` and
`EnableEmail` go through createOtp's two statements (`Invalidate`, `InsertOtp`);
`CheckOtp` (verify2fa or confirm2fa of a mailed code) through verifyOtps'
(`FindOtp`, `SaveOtp`); `EnableTotp`, `EnableEmail`, `ConfirmTotp`, a confirmed
OTP and `Disable` end in `save()`: `Reload`, then `Write` of the columns that
differ. A TOTP code that verify2fa accepts changes nothing and is left out, like
the arithmetic behind it, the SMS branch (refused, or never valid) and the INSERT
of a missing row. What a verified code goes on to open is the login of
AuthSessions; what a wrong one counts is in Attempts. `torn` says that the row
was last written by a save() that another had overtaken after its reload;
`doubled` that two createOtp overlapped since the last invalidation.

### 2.5 RecoveryCodes

The sets of codes of an account; one code stands for the ten of a set, which are
inserted, and deleted, together. `StartConfirm`, `Enable` (confirm2fa's save) and
`StartGenerate` lead to `CheckEnabled`, `DeleteCodes` and `InsertCodes`;
`FindCode` and `SaveCode` are useCode. `SaveCode` inserts the row again when it
was deleted meanwhile: save() finds no row with the entity's id and INSERTs.
`crowded` and `bare` record what the properties except: two generations past
their DELETE at one time, and a generation cut before its INSERT.

### 2.6 Accounts

`AccountRows` holds the state the handlers compete for. A user is a row with an
address, a role, a deletion mark and the number of its `user_secret`. `access[u]`
has the claims of every access token that can have been signed for `u`: login and
refresh, which sign them, are open whenever the row is there, so every row a user
has had has left its claims. A request is the list of its steps between awaits: a
query needs a free connection and gives it back, a transaction keeps its own
(`tx`) until COMMIT, and what it writes becomes visible with COMMIT. `Start`,
`Goto`, `Enter` (BEGIN), `Done` and `Exit` (the process ends) are the moves of a
request. `met` is a history variable: the requests in flight that another one has
overlapped.

* **Guards** `AuthGuard` looks up the secret and the user, `PermissionGuard`,
  `UserSelfOrAdminGuard` and `SuperadminGuard` decide by the claims. `Call` is a
  guarded request's first query. The guard compares the role, an object, with the
  name `super_admin`, so only the permission `all` makes an admin there.
* **EmailChange** `Update` - `UpdateFind` - `UpdateCheck` (the address of another
  is refused; whether it changes is decided by the row read before) - `UpdateWrite`
  or `UpdateMail` (BEGIN, INSERT, the mail with the link to the *old* address) -
  `UpdateCommit`. `Confirm` (the request is tested outside the transaction) -
  `ConfirmBegin` - `ConfirmUser` (on a second connection) - `ConfirmWrite` (log,
  address, used flag) - `ConfirmMail` (the way back, mailed to the old address
  after COMMIT, may fail). `Rollback` - `RollbackWrite` (log, and the whole user
  that was read: address, role, deletion mark).
* **OAuthAccounts** `OauthLogin` - `LoginLink` - `LoginEmail` - `LoginRole` /
  `LoginNewRole` (getNameRoleOrCreate) - `LoginRow` (on a second connection) -
  `LoginCommit` - `SessionBegin` - `SessionUser`; the rows of its session are
  AuthSessions'. `LinkProvider` - `LinkUser` - `LinkRowLookup` - `LinkInsert`: a
  provider that is another's is answered and the handler goes on. `UnlinkFind` -
  `UnlinkDelete`.
* **ReAuthentication** `Reauthenticate` - `ReauthPassword` - `ReauthRevoke` -
  `ReauthInsert`. `Protected` - `GuardFind` - `GuardList` - `GuardSave`: the guard
  passes on `user.id`, which the claims do not have, so its queries are without a
  user. Behind it resetPasswordLogged: `PwdBegin` - `PwdCredential` (the account
  that has the *address in the token*) - `PwdUser` - `PwdNew` - `PwdWrite` (the
  password of the account found, the secret of the one that asked).
* **Accounts** `ChangeRole` - `ChangeRoleFind` - `RoleSave` (address and secret are
  written back as read); `Remove` - `RemoveRow`.

Abstractions. `save()` is one step, its reload included; a statement that would
wait for an uncommitted INSERT finds it committed or not at all. Expiry of links
and tokens is a refusal that may always come instead. Two look-ups of the same
address in update are one, since the first only refuses what the second would.
enable2fa, the other handler behind the re-authentication guard, is TwoFactor's.
Access tokens without a user, the header or cookie they come in, the user's
status and the columns other than those above are left out. The link flow begun
without a token (`base-oauth.guard.ts:41-44` puts no user into the state, and
findOne of an undefined id finds the first user) is left out.

`AddressLedger` is the promise: addresses are unique; an account only has an
address it was opened with or one confirmed for it; an address is confirmed by a
link that went to one confirmed before. `Accounts!Address`, `Confirmed` and
`Offered` are the mapping.

`OneTimeCodes` is the promise of three tables, those of links (Passwords), OTPs
(TwoFactor) and recovery codes (RecoveryCodes): a code is issued once and closed
for good; a client takes a code only while it is good; whoever has taken it is
admitted at most once by having taken it, and then nobody who comes later is. Each
of the modules instantiates it as `Codes`, with `Held`, the requests past the
SELECT that found the code good and not past the statement that uses it. That
these are two statements is in the promise, so two requests may use one code; that
a code, whatever deletes it, expires it, stores it again or rolls back, is found good
by nobody after its use is what `CodesSpec` says.

Operators under a comment `Faulty:` are mutated forms of the definition that
follows, a bug that could plausibly be in that code: the property named for it in
`PROJECT.json` is violated when the definition is replaced, which shows that the
property depends on the code.

## 3. Runs

| run | module, instance | shows |
|---|---|---|
| `sessions_safety` | AuthSessions: 1 user, 2 devices and sessions, 3 tokens, 2 requests, one second | type, exchange, delivery, history, logout under concurrency, refinement of the ledger |
| `sessions_serial` | 2 users on 1 device, 3 sessions, 3 tokens, 1 request at a time, clock to 3 | what holds without overlap: `LiveImpliesActive`, `OneSessionPerDevice` (each user has one session per device), `GlobalLogoutIsExact` |
| `sessions_liveness` | 1 session, 2 tokens, 2 requests, `FairSpec` | every request ends |
| `global_logout` | two requests | *violated*: `LiveImpliesActive` when a refresh or login overlaps a logout |
| `double_refresh` | two requests | *violated*: `AtMostOneExchange` |
| `passwords` | 1 account, 2 links, 1 grant, 2 requests, 3 passwords, 1 access token at a time | the invariants of Passwords, the refinement of OneTimeCodes |
| `attempts` | 1 address, 2 requests, limits 3, 5, 6, blocks 1, 2, 3, clock to 5 | count and block |
| `two_factor` | 2 requests, 2 OTPs, 2 secrets, limit 2 | state of the second factor, one code at a time, the refinement of OneTimeCodes |
| `otp_limit` | 1 request, wrong codes counted to 2 | *violated*: `LimitHolds` |
| `recovery_codes` | 3 requests, 3 sets | one set, codes for whoever is enabled, the refinement of OneTimeCodes |
| `accounts` | 2 users, 3 addresses, 2 requests, 2 connections, 7 scenarios | types, the refinement of AddressLedger, who writes and sets what, one confirmation, link, token and pass unless requests overlap, no one stuck but in an exhausted pool, connections neither lost nor overdrawn |
| `reauth_user` | 2 users, 2 tokens, 2 requests | *violated*: `PassedWithOwnToken` |

Why these bounds suffice. The races are between two requests; a third changes
nothing that a second, which may run any number of requests one after the other
while the first waits, cannot. Three tokens allow a login, a refresh and a second
refresh or login; two sessions allow a logout of all to end one and miss another.
With 0 as the last second all JWTs of a session are equal (the hardest case for
look-ups by hash); the serial run has expiring JWTs (1 s) and rows (2 s). In
Passwords three passwords allow a reset while another is under way; `MCPasswords`
follows the states in which clients hold one access token or none (`FewTokens`):
another of the same account opens nothing that one does not, and any may expire and
be replaced. Its view (`Seen`) takes states for one that differ only in the history of
an ended session or in the slots that used a link, which no guard and no property of
the run looks at. In Attempts the distances between limits (3, 5, 6) have a
failure below the first, one between, and one past the second; five ticks outlast
the longest block. Two OTPs are one invalidated and one good, or two that
overlapping createOtp leave; two secrets are an enable overlapping another. Three
sets and requests let a code be found, its set be deleted by one generation and
another set be stored by a second before it is saved. User ids, links, grants and
requests are symmetric where a SYMMETRY is declared; session and token keys are not
(they are ordered).

In Accounts a scenario says which handlers are called, how many rows of each kind
can be inserted, and with which addresses, present and past, the users start; the
seven pair every two kinds of handler that write a common row: changes of address
with removal, with changeRole and with the change of a password, re-authentication
alone, with an address that has passed from one user to another (`Moved`) and
without, OAuth accounts with removal and with passwords. Two users are one whose
row it is and another who may be an admin or hold the address; three addresses let
one be changed twice; two changes and two logs are two confirmations of one change
or a second change before a rollback. Two connections are exhausted by two
transactions that each wait for a second, which is the deadlock of ten with ten.
`MaxSecret` 1 bounds a user to one change of password.

Deadlock is checked in every run but the two of Accounts: elsewhere the
environment can always act, and the bounds leave room for a tick or a new request
in every state. In Accounts the pool really can be exhausted for ever, which
`StuckOnlyIfWedged` states, and a behaviour ends when its scenario's rows are used.

Fairness. `FairSpec` assumes `SF_vars(Step(r))` for every request: the event loop
resumes a handler whose promise is settled, and PostgreSQL queues the waiters for
a row, so a statement that is enabled again and again is not passed over for
ever. No fairness is assumed of clients, failures, crashes or the clock.

### Disagreements found

* `CHANGELOG.md:124` "Global logout (revoke all active refresh tokens)." A token
  inserted by an overlapping refresh or login stays usable on an inactive
  session; refresh never looks at the session's `isActive`. What does hold,
  `LiveOnInactiveOnlyIfRaced`, is checked and proved.
* `CHANGELOG.md:34` says a token is revoked when it is refreshed. Two refreshes
  that both read it before either updates it both succeed. What does hold,
  `OneExchangePerRequest` and `LedgerSpec`, is checked and proved, and that without
  overlap it is exchanged once is proved (`SerialExchange`).
* `src/i18n/locales/en/errors.json:10` "The limit of authentication attempts with
  two-factor authentication has been exceeded" is never answered: a wrong code is
  counted on the entity and not saved, so the stored count stays 0, as
  `LimitNeverReached` proves for every limit above one.
* `ROADMAP.md:69-71` "Re-authentication required for critical actions". The guard
  asks for `user.id` (`re-auth.guard.ts:39`), which no claims have: a request passes
  with a token given to another user. What does hold, that such a token is revoked
  and passes once, is checked and proved.

Met while reading, and not stated as a run: verify2fa and a provider's login do not
look at the status of the account, nor verify2fa at the login that sent its user
there, so a login accepted on a password that was changed since can be completed with
the code (2.2); a refresh in the second in which the
presented JWT was signed signs the same string again (`iat` counts whole seconds), so
the JWT that was exchanged has a live row again, and, as the look-up by hash may find
either row, "Token revoked" (`src/i18n/locales/en/errors.json:6`) may be answered for
one that is not; that rows are exchanged properly all the same is checked where all
JWTs of a session are equal (`sessions_safety`). `ROADMAP.md:24` "Edit / delete users
only if super admin or global permission" - users may edit and delete themselves,
and a super_admin whose role lacks `all` is refused by UserSelfOrAdminGuard;
`email-change-request.service.ts:107` builds its link from `FRONTEND_URL`, elsewhere
`URL_FRONTEND`; an update of a user that leaves the address out always fails, for
the look-up without an address finds anybody.

## 4. Theorems

For every number of users, devices, sessions, tokens and requests, from
`ConstantsAssumption` alone (`None` is none of the values; the TTLs are numbers):

* `TypeCorrect`: `Spec => []TypeOK`. `TypeOK` alone is not inductive: a request
  that is about to insert a token must hold a session that is stored, or is being
  inserted by its own transaction. `Inv` adds `Holds(req[r])`, what a request
  keeps in its locals at each program counter.
* `RotationSafe`: adds that a refresh past its UPDATE holds a token that is
  revoked (`RotationInv`).
* `ExchangeSafe`: `ExchangeInv` adds that a slot about to exchange a token has not
  exchanged it: when it read the row the row was live, and by `RotationInv` a
  parent never is.
* `LedgerRefined`: the token table implements `RefreshLedger`. Every action maps
  to an Issue, an Exchange, a Revoke of some rows, or a stutter. `RotationInv` is
  needed where a refresh inserts.
* `DeliveredSafe`: `DeliveredInv` adds that a request that is to respond holds a
  stored token.
* `LogoutSafe`: `RaceInv` relates `raced` to the requests in flight: a login or
  refresh whose session is ended under it is raced from then on.
* `SerialSafe` and `SerialExchange`: if no two slots exist, `LiveImpliesActive` and
  `AtMostOneExchange`. `SerialInv` is the race invariant with nothing raced.
* `SerialGlobalLogout`: with the same hypothesis, the COMMIT of a logoutAll ends every
  session of its user, revokes every token of them and leaves the rows of all others
  as they are (`GlobalLogoutIsExact`). `ExactInv` adds what the handler has read
  before it commits (`ReadExactly`): no token it holds is another user's, and at
  `commitLogout` no active session of the user is missing from those due; that no
  live token is missing either is in `SerialInv`. Nothing else runs in between, which
  is what the hypothesis is for; `global_logout` shows the token that is missed when
  something does.
* `SerialDevice`: with the same hypothesis, `OneSessionPerDevice` - one row per user
  and device; two users of one device have one each. `DeviceInv` adds
  that a login about to insert a session has seen that its user has none on the
  device; `SessionMoves` says which steps store a row, `InsertingMoves` which bring
  a request there. Two overlapping first logins falsify it, hence the hypothesis.
* `HistoryExact`: `HistoryInv` adds that the token rows logins inserted are finitely
  many (`TokenId` need not be finite), and each COMMIT of a login adds one row to
  them and one to the history (`LoginRowsMove`); no other step adds either.

`AttemptsProofs`, for every `Limits` and `Blocks` in increasing order
(`AttemptsAssumption`):

* `TypeCorrect`, from `Inv`: a request about to save holds an entity that counts a
  failure and has an id that was handed out, and compares it with its own row.
* `BlockSafe`: `MatchInv` - every entity asks for its own block (`BlockAsked`, by
  the four cases of calculateBlock), and what save() has loaded is the row as it
  is unless torn, so that an untorn save writes the whole entity.
* `CountSafe` and `HoldSafe`: `CountInv` - what a request has read of an address
  that is not mixed is the row as it is, with one failure more and, because blocks
  grow with the count (`BlockGrows`), a block that ends no earlier.

`TwoFactorProofs`, for any number of requests, codes and secrets: `TypeCorrect`;
`SecuritySafe` (handlers begin with a consistent entity whatever row they read,
and an untorn save leaves exactly its entity); `OtpSafe` (no code is good while
one is about to be inserted); `LimitNeverReached` (`CountInv`: a count is stored only
by the statement that closes the code, so a good one has none, and by
`TwoFactorAssumption` the limit is above the first); `UseSafe` (a code that is not over has let no one
in). `RecoveryCodesProofs`: `TypeCorrect`; `UseSafe` (a used code may be inserted
again, but never as unused); `SetSafe`; `EnabledSafe` (inductive as it stands).
`CodesRefined`, in both modules, maps every step to a step of `OneTimeCodes` or to a
stutter: the SELECT that finds a good code is a Take, the save of it as used an
Admit, an invalidation, expiry or deletion a Close, a failure or a restart a Drop.
The refinement rests on the type invariants alone, for a code that admits is closed
by the same statement.

`PasswordsProofs`, for any number of accounts, links, sessions and requests:

* `TypeCorrect` and `SessionsAreVerified`, from `Inv`: `Holds(req[r])`, the statuses
  and rows a request relies on at each step, which the steps of others leave (rows
  do not go away, statuses do not go back, the place of a session a refresh is about
  is not taken: `Lasting`); `Owned`, with the fact verify2fa rests on, that only an
  account that is active has anything stored of a second factor; and
  `OneRegistration`, because only the one registration of an address that has
  inserted it makes it known.
* `AccessFollows`: `InStep` - password and secret change by the same COMMIT, so a
  secret that is current comes with a password that is; and a sign-in has read the
  two together (`Holds`).
* `OneReset`: `LinkUses` adds that a link that has set a password is used, and that a
  slot about to use it has not used it: it found it fresh (`NewlyResetting`).
* `CodesRefined`: the links implement `OneTimeCodes`. Besides `Inv` and `LinkUses` it
  needs `Reserved`: the link a registration has mailed and not committed yet is no
  other request's and has no row, so that its COMMIT issues a code and never
  reopens one. `NewlyLinked` and `NewlyStored` say where links in locals and rows
  come from.
* `ResetStoredFirst`: rows of links do not go away.
* `StaleExplained`: inductive with `Inv`, one session at a time (`Explained`): the
  token of a sign-in or refresh that has lost a race is found by a logout still to read
  (`InsertedExplained`), every other step keeps the explanation or excuses the session.

For Accounts, for any number of users, addresses, rows and requests and every size
of the pool, from `AccountsAssumption` and `GuardsAssumption`:

* `TypeCorrect` (AccountsProofs). `Inv` adds `Knows`: a request that is to write a
  row knows that it is there, and what it writes is whole. Rows of users, changes
  and logs do not go away (`Lasting`), so this survives the steps of others.
* `PoolNeverLost` (AccountsProofs): `PoolInv` - a request holds a connection at the
  steps between BEGIN and COMMIT and at no others (`Placed`), and every step takes
  one only from a pool that has one (`Takes`). So when none is free, either every
  holder is at a query outside its transaction (`Wedged`), or one of them is at a
  step that needs no second connection.
* `WedgedForEver` (AccountsProofs): `Wedged` is for ever. No request starts, because
  its first query needs a connection; a holder could only go on with a second one;
  and the requests that still end without a query (`ConfirmMail`, a refused
  `PwdBegin`) hold none to give back (`Aside`). So the pool is lost to the process
  until it is restarted from outside, for which no handler provides.
* `LargePoolServes` (AccountsProofs): with more connections than requests in flight
  one is always free, so the wedge needs at least as many requests as connections.
* `StepsDescend` (AccountsProofs): `Left` counts the steps a handler has left at each
  of its queries, and every step of its own lowers it, from eight at most. It is the
  part of termination a prover without fairness can do: a request on an account that
  never ends waits for a connection.
* The five theorems of AccountsRaceProofs rest on `RaceInv`: a request that is not
  in `met` is the only one in flight (`Alone`), so what it has read is still so
  (`Untouched`): the tokens and links it found, the row it is going to write back.
  One lemma per module shows that every step is a turn of one request (`Turns`).
  `PassedTokensRevoked` does not need it: a token in the list read by the guard is
  revoked when the list is saved, and one that is not was revoked before.
* `LedgerRefined` (AccountsAddressProofs): `AddressInv` - every address in a row, a
  change, a log or the locals of a request was confirmed for the user it is of - and
  then every action opens, offers, confirms or returns an address, or leaves the
  three mapped variables. changeRole's write-back and a rollback are returns.
* `OneConfirmation`: `OnceInv` - a request that found its change unused while there
  is a log of it now has met the one that made the log, which is raced.
* `PasswordSetByAddress` and `OnlyAdminsWriteOthers`: `RightsInv` - there is a claim
  of every row (`Signed`), claims last, and each request was let in by one.

Proved and not checked by a passing run of their own: `RotationRevokesParent`, which
`LedgerSpec` implies; `AtMostOneExchange` without overlap (with it, `double_refresh`
refutes it); `WedgedForEver`, `LargePoolServes`, `StepsDescend` and
`LimitNeverReached`; and `OneUsePerRequest` (TwoFactor, RecoveryCodes) and
`OneResetPerRequest` (Passwords): that a slot uses a code once is what `CodesSpec` says
of a client.

Only model-checked: `EveryRequestEnds` (fairness is outside the prover) and
`StuckOnlyIfWedged` (ENABLED), which adds to `PoolNeverLost` that a request with the
connection its step needs can indeed take it.

## 5. What is left

Modelled in the order of their weight: `AuthSessions`, `Passwords`, `Attempts`,
`TwoFactor` and `RecoveryCodes`, `Accounts`. What could come next: the normalisation
and parsing of permissions (`common/utils`) as operators against a reference
definition; liveness of Accounts in a pool larger than the requests, of which
`StepsDescend` and `LargePoolServes` are the part without fairness; a theorem that a
login with TOTP or an OTP opens a session only after its code admitted it, which needs
TwoFactor composed with AuthSessions.

Not modelled, and why: mail templates and transport, i18n, configuration, audit
rows, identity types (nothing reads their state back); the dynamic query builder
and the password policy (string formatting over one row); the throttler (a
library).
