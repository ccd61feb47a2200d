# clerk-type-app: specification and verification

TLA+ models of the authentication server in `packages/auth-provider`, of the rate limiter in
`packages/node` and of the passkey list in `packages/react`, checked by TLC on small
instances, and proved by TLAPS for every instance but for liveness (section *Proofs*).
`PROJECT.json` ties each definition to the lines it models and lists runs, mutants, hazards,
findings and theorems.

## The system

A library of TypeScript modules for Node: every operation is a function that is handed its stores
and secrets. There are no threads. What makes it hard is that nearly every store is asynchronous:
an operation runs without interruption between two `await`s and any other request may run at each
of them. The database (`db/migrations`) and the stores an application supplies are outside; the
in-memory stores in the repository are the reference for what a store does, and their methods are
single synchronous runs.

### Inventory

| Component (files) | State | Operations | What is hard | What makes it correct |
|---|---|---|---|---|
| Sessions (`session-management`, `remote-logout`) | session records, index refresh hash → session, spent hashes | create, refresh, revoke one / all / family, remote logout | five awaits between finding a token unspent and rotating it; eviction loop; process death | one live token per session, a replay ends the family, no session reopens |
| Session limits (`concurrent-session-limit`, `session-fixation`) | registry in process memory, ordered by age | check, enforce and register, regenerate, remove | called synchronously here, asynchronously by sessions; two limits at once; limit 0 | limits kept, oldest evicted, the old id dies |
| Single-use links (`magic-link`, `password-reset`, `email-verification` and their flows) | used-token map, signed claims | create, verify, act | whole seconds against milliseconds; the work after the link is spent | one effect per link |
| Sensitive operations (`double-opt-in`, `sensitive-operations-flow`, `resend-policy`) | the same map; when each mail was sent last, and how many | request, confirm, execute | link spent before the operation runs; policy asked before the mail server is awaited and told after | runs at most once, for its user and context; mails as many as requests overlap |
| Device grant (`device-authorization`) | two maps: device code → entry, user code → device code | create, approve, deny, poll | colliding user codes; polling pace; expiry in between | one decision, one token, for the approving user |
| Membership (`membership-management`, `seat-management`) | memberships | add, remove, change role | checks on a list read before the write | seats, last owner |
| Invitations (`invitations`) | invitations, memberships | create, accept, revoke | acceptance is five awaits over two stores | one invitation, one membership |
| Approval, permissions (`member-approval`, `rbac`) | none | pure transitions | – | only pending memberships are decided |
| Login (`registration-login`, `suspicious-activity`) | counters, locks, users, codes, sessions | register, login | parallel guesses between check and record; factors spent before the session is refused | lockout after 10 failures |
| Attempt counters (`account-lockout`, `brute-force`, `rate-limit`, `ip-rate-limit`, `node/rate-limit`) | sliding windows | check, record, clear | boundaries of the window; a lock that expires with its count | never more than the limit in a window |
| Backup codes (`backup-codes`, `mfa-backup-enforcement`) | hashes per user | add, verify and consume | read – slow hash – write back | a code works once |
| One-time codes (`sms-otp`, `sms-mfa`, `phone-verification`) | code per phone, send counter | send, verify | failed send deletes a newer code; double verification | a code works once, 3 per hour |
| Authenticator app (`totp`, `totp-authenticator`) | pending and confirmed secret | start, confirm, verify, disable | confirm racing disable | a disabled factor stays disabled |
| Passkeys (`passkeys` …) | credentials, challenges, counters | register, authenticate, rename, revoke | challenge never cleared; counter written back late | an assertion pays once |
| OAuth/OIDC (`oauth-oidc-provider`, `authorization-code-*`, `client-credentials`, `refresh-token`) | spent codes and tokens | authorize, exchange, refresh, introspect | code spent before its other checks; tokens verified twice; keys rotate | a code is exchanged once, by its client |
| Signing keys (`key-rotation`, `secure-key-storage`) | two newest keys | rotate, verify | token outliving its key | a live token verifies |
| Teams, organizations (`team-*`, `organization-*`, `user-management`, `soft-delete`) | rows with parents, slugs, deletion marks | create, update, delete | unique slugs by check-then-create; parents | no cycles, no two live slugs |
| Provisioning (`user-provisioning`, `group-sync`, `directory-sync`, `jit-provisioning`) | users, groups, memberships | push, sync, remove | find-then-create; announced before done | one user per external id |
| SCIM (`scim-server`, `scim-bulk`, `scim-webhook`) | through provisioning | REST, bulk, receive | references between operations, failOnErrors | stops where it must |
| Webhooks, billing (`realtime-webhook`, `billing-integration`) | none | deliver with retries | lost answers, order of subscribers | at least once |
| SSO, logout (`sp-/idp-initiated-sso`, `single-logout`, `saml-*`) | sessions at both sides, by index | assert, receive, ask to log out, answer | messages lost, repeated and reordered by the browser | an answered logout holds |
| Social login (`social-login`), just-in-time users (`jit-provisioning`) | users, links of provider accounts, links to confirm | callback, confirm, provision | find, then create, then link, over three tables | a provider's account is one user's |
| Erasure (`gdpr`) | everything of a user | export, erase | crash or login between two deletions | nothing is left |
| Browser client (`packages/react`) | lists, loading and error flags | reload, register, revoke | answers out of order, lost answers | the list settles to the server's |
| Node middleware (`packages/node`) | rate limiter | verify request | a list pruned at every request | never more than the limit in a window |
| Passwords, crypto helpers, cookies, CSRF, branding, templates, analytics, audit, compliance tables, domain rules | none or append-only | pure | – | – |

Calls between components: sessions use the limiter (check, `removeSession` as `onRevoke`); login
uses counters, factors, limits and sessions; invitations call `addMember`, which calls the seat
check; links are redeemed by the flows; SCIM, directory sync and JIT call provisioning, which
delivers webhooks; remote logout reaches the registry, and the store only if given one.

## Modules

| Module | Models | Kind |
|---|---|---|
| `Maps` | `Map.set`, `delete`, `get` as operators on functions | library |
| `Lists` | `Array.filter` by the places that are kept | library |
| `Runtime` | the clock of the process, which the synchronous components read | part |
| `SessionStore` | `createMemorySessionStore`: one action per method | part |
| `SessionRegistry` | the registry operators of `concurrent-session-limit.ts` | part |
| `SessionManagement` | composes both: the asynchronous operations of `session-management.ts` and remote logout | detailed |
| `SessionLifecycle` | what the store promises: a session is absent, active or closed, has one credential while active, and a credential enters service once | abstract |
| `ConcurrentSessionLimit` | the limiter's synchronous entry points | detailed |
| `SingleUseToken` | the four kinds of signed link, used-token map, flows | detailed |
| `SensitiveOperations` | the mail that asks for a confirmation, under the resend policy | detailed |
| `AttemptWindows` | the counters of one key: middleware, window, brute force | detailed |
| `TokenEndpoint` | authorization codes, refresh tokens and the keys that sign them | detailed |
| `DeviceAuthorization`, `DeviceGrant` | the two-map store and its entry points; the grant they implement | detailed, abstract |
| `Membership` | memberships and invitations of one organization | detailed |
| `AccountLockout` | the lockout entry of one account, as operators | part |
| `BackupCodes`, `SmsChallenge` | the stores of two factors, with the read–await–write of their callers | part |
| `Login` | composes the three: `login`, `sendLoginSmsOtp`, `generateAndStoreBackupCodes` for one account | detailed |
| `Directory` | users and groups as SCIM, bulk requests, events and directory synchronization write them, and what the subscriber hears | detailed |
| `Accounts` | users, provider accounts and pending links, as registration, social login and just-in-time provisioning write them | detailed |
| `Erasure` | what is stored of one user: the requests that write it, and the erasure | detailed |
| `Passkeys` | challenges, credentials and counters of one user | detailed |
| `PasskeyList` | the browser's hook over requests answered in any order | detailed |
| `SingleSignOn` | assertions and single logout between a provider and a service | detailed |
| `MCSynchronous` | limiter, links, device grant, token endpoint, counters and mails beside each other under one clock | instance |
| `MCAccounts` | the five modules about one user's account beside each other | instance |
| `MC…` | the instance TLC checks: symmetry, constants that a `.cfg` cannot write | instance |
| `…Proofs` | the theorems; `RegistryProofs` the lemmas about lists and the registry | proof |

How the models are made:

* A request is a slot `c` of `Calls`; `call[c]` holds the local variables the code keeps across an
  `await`, `pc` names the await it waits at. A step is what runs up to the next await. Synchronous
  entry points (limiter, links, device codes) are one step.
* A rejection that changes nothing ends the request, or is no step at all where the request had
  done nothing yet. `Abort` is a store that rejects or a process that dies, at any await.
* A refresh token stands for its hash and a random value is a fresh one of a finite set. The one
  exception is the 40-bit user code of the device grant, which may repeat as nothing in the code
  prevents it.
* History variables (`owner`, `delivered`, `spends`, `tokens`, `redemptions`, `acted`, `admitted`,
  `hadOwner`, `staleWrite`, …) are read by properties and by no guard, but for the freshness of
  values and the bounds.
* Operators named in a comment "A plausible bug" are the mutants of `PROJECT.json`; no action uses
  them.

### Sessions

`createSession` reads the registry once (`CreateCheck`), revokes and unregisters each victim in
turn (`CreateEvictRevoke`, `CreateEvictRemove`), stores the record (`CreateInsert`) and registers it
(`CreateRegister`). `refreshSession` asks whether the token is spent (`RefreshReplay`,
`RefreshNotUsed`), reads the record and checks revocation, expiry and device (`RefreshLookup`), marks
the token spent (`RefreshMarkUsed`) and rotates (`RefreshRotate`). `Features` switches parts of the
environment on, so that a run has only what its question needs: `abort`, `bare_revoke` (revocation
without the registry's hook), `revoke_user`, `logout`, `skip_binding`.

*SessionRaces* (2 sessions, 4 tokens, 2 requests, everything but time on): `LateRequestNeverRenews`
and `LifecycleSpec`, the refinement of `SessionLifecycle`.
`LostOnlyByDoubleSpend` says exactly when a client holds a token that is neither live, spent nor
revoked: if one token of that session has paid twice. Two requests are the smallest number that can
race; a second session is what an eviction or a family needs; four tokens allow the first to be
spent twice and both results to be used.
*SessionLimits* (2 users, 1 organization, 4 sessions, limits of 1): k overlapping sign-ins exceed a
limit by at most k − 1, and every renewable session is registered or in the hands of the request
that is creating or revoking it.
*SessionReplay* runs under `FairSpec`: weak fairness of each request's own steps, as a promise that
is awaited settles and the event loop resumes its continuation; requests themselves, time and
revocations are not fair, and `Abort` is off because a dead request ends nothing. A presented spent
token leads to its session being revoked. Here a token's lifetime is zero ticks, so the clock's one
tick expires sessions.
*DoubleSpend* finds one token paying for two renewals (finding).

Also read off the code and not worth a run each: a renewal reports a whole new lifetime and leaves
`expiresAt` alone (PRD "Sliding window"); remote logout without a store empties the registry and
leaves all sessions renewable (PRD "Invalidate all sessions endpoint"); two sign-ins at once exceed
the limit, which `ActiveWithinSlack` bounds.

### Limiter

The registry is a sequence, oldest first, as the code sorts by `createdAt`. *Synchronous* has two users,
an organization with two sessions and one with none: `WithinLimits`, `EvictsOldestWhenFull` (an evicted
session is the oldest of its user or organization, and a sign-in that evicts fills what it made room in) and
`OldIdDies` (after a login, refused or not, the id from before is not registered). Four ids fill both limits
and ask for one more. A re-login may evict one session too many, because the code counts the old session
while it evicts; the second half of `EvictsOldestWhenFull` is therefore about sign-ins.

### Links

Time runs in ticks, `Second` ticks to a second; an expiry is rounded down to a second when signed,
compared in whole seconds when verified and in ticks when the used-token map forgets it.
The four kinds differ in what is asked of a link and what it pays for: only a magic link may be bound to a
device, and that is checked before it is spent; a confirmation is spent even if it turns out to be for another
user, address or operation (`ConfirmationMismatch`). *Synchronous* (two ticks to a second, two links of any
kind, two flows, flows that fail, 5 ticks): one effect until the expiry second begins. *SingleUseLastSecond*
finds a second effect within that second (finding).

`SensitiveOperations` is the request for a confirmation: the policy is asked, the mail sent, and the sending
recorded when the mail server has answered. `MailsWithinOverlap`: within the base delay as many mails as
requests overlapped, and no more. The count behind the growing delay is never reset or let decay
(`resend-policy.ts:50`), so that an operation confirmed often enough waits the maximum for good.

### Counters

`AttemptWindows` is a list of times under three policies, fixed in `Init`. The middleware checks and counts
in one step, so `WindowHolds`: no window, wherever it is laid, has more than the limit in it. In
`rate-limit.ts` and `ip-rate-limit.ts` the caller counts an attempt some time after the check. There the
limit is exceeded by attempts in flight, and the wait a refusal then announces is too short, as it is the
time at which the oldest attempt leaves; `RetryAfterSuffices` (who waits as long as told is let in) is about
refusals at the limit, and about the doubling delay of `brute-force.ts`. In *Synchronous*: a window of 4 ticks of
half a second, so that a wait has to be rounded, 2 in a window, 5 in all.

### Device grant

*Synchronous* (2 device codes, 2 user codes, 2 users, 4 ticks): `CodesMatchDevices` relates the two maps in
both directions (`CodeFindsItsDevice`, `DeviceIsFoundByItsCode`), the second unless the code was drawn
again while a request held it; `PatientClientNeverSlowed` compares the interval the server keeps
with the one it told; `GrantSpec` is the refinement of `DeviceGrant`. An approval by the empty
subject is part of the model: the code stores it and then refuses every poll.

### Token endpoint

A code or token is its claims and the key that signed it, numbered in the order of issue: `issued` grows
and the number is the `jti`. A deployment is fixed in `Init`: a secret of its own (`own`), a key set beside
such a secret (`beside`), or a key set whose current key is the secret (`current`), rotating refresh
tokens or not. `ExchangeAuthorizationCode` spends the code and issues a refresh token signed with
`options.secret` that names no key; `BurnCode` is an exchange refused after the code is spent (another
client or redirect URI). `ExchangeRefreshToken` verifies with the key the token names, the current one if
it names none, spends the token and under rotation issues another, signed with the current key.
`RotateIfNeeded` makes a key when the current one is old enough and keeps two.

`PaysOnceBeforeExpiry`: no code or refresh token pays twice before its last second, as the stores of spent
ones remember them until their expiry. `OneCredentialPerGrant`: one authorization never has two
credentials that stand. `KeyOutlivesToken`: two keys are enough, because a key is replaced only after
`RotationInterval`, which `TokenAssumption` takes to exceed a refresh token's life by a second (90 and 30
days in the code). Follows from the model and not a property, since no document speaks of it: the refresh
token of a code exchange names no key, so under `current` it stops verifying at the next rotation, and
under `beside` it never verifies. In *Synchronous*: 4 tokens, 3 keys, 8 ticks of half a second.

### Membership and invitations

One organization. Each awaited store operation is a step; the store refuses a second membership of a
user, as the schema's unique constraint does. *MemberRaces* (3 users, 3 memberships ever, 1
invitation, 2 requests, one seat): `SeatsWithinOverlap` (k − 1 over the limit at most),
`AdmissionsWithinOverlap` (an invitation pays for at most k memberships, unless an acceptance died
between creating the membership and marking it), `AcceptedAdmitted`, and
`OwnerLostOnlyByStaleWrite`: the last owner goes only by a request that wrote after another had
changed the owners. Three users are one more than two requests can admit. Expiry is asked of pending
invitations only. *OwnerRace* finds the organization without owner (finding).

### Login

One account. `login` reads the lockout entry once, before anything else (`LoginBegin`), and records the
failure at the end of whichever check fails (`Fail`); in between it awaits the password, then TOTP,
then SMS (`Proceed` goes on to the next, or succeeds and clears the count). A backup code stands in
for either factor and is read, hashed and written back (`BackupRead`, `BackupVerified`); an SMS code is
read and deleted (`SmsRead`, `SmsConsume`, `SmsExpire`). `sendLoginSmsOtp` looks at its rate limit,
stores the code, sends it, and deletes the stored code if sending failed (`SendUndo`). The outcome of a
password or TOTP check is open, and which factors the account has is fixed in `Init`, as enrolment
is another component's.

*LoginRaces* (2 requests, 2 backup codes, 2 SMS codes, 2 attempts, a lock of 2 ticks, 1 send in 2
ticks, 2 ticks): `GuessesPerLock` (each login that passed the lock before it closed may guess once
more), `LockKeepsItsTime`, `BackupCodesAccountedFor` and `NewestCodeStands`. The last two hold except
after a *stale* write, one over a value the writer had not read; `staleHashes` and `staleDelete` name
exactly those, so any other loss of a code is a violation. Two attempts and two requests reach the
lock with a guess still in flight; two ticks let the lock end and a code expire.
*BackupCodeTwice* finds two overlapping logins paid for with one backup code (finding).

### Directory

One organization's users and groups behind their four writers. A request carries a sequence of
operations and its way of entry, `via`: `"scim"` (`handleScimRequest`), `"bulk"` (`processBulkRequest`),
`"event"` (`processScimWebhook`) or `"sync"` (`runDirectorySync`). `Enter`, `After` and `Failed` are their
loops: a synchronization skips a user that fails, a bulk request counts errors up to `failOnErrors`, the
others end. The operations are shared, as in the code: `provisionUser` is `ProvisionByExternalId`,
`ProvisionByEmail`, `CreateUser` and `ProvisionUpdate`; `deprovisionUser` is `AnnounceRemoval` and
`RemoveUser`; `syncGroups` is the group actions. Where the entries differ, the model differs: the
SCIM server and a synchronization announce a deletion before they delete, the others after
(`TellsFirst`); a PUT through the SCIM server is announced to nobody; a PUT in a bulk request writes back
the address and external id it had read (`PutUser`); references between the operations of a request skip
the look at `active` (`Resolved`). What they refer to differs as well (`Names`): a bulk request knows a user by
the reference its operation gave (`bulkId`, which the model takes to be the external id it pushes), a
synchronization by the external id and the address the user was *stored* with, so that a user found by address
is known by an external id its source did not give. The groups of a synchronization are one list, of which
those not given are removed (`GivenGroups`); `GroupSync` in a bulk request is modelled with a list of one group.
The members a PATCH names are stored as they come, ids or not (`scim-server.ts:161`), so `TypeOK` says of a
group's members only that some request named them or that they are users. The two stores are the caller's interfaces; they are modelled as the
in-memory store of `tests/directory-sync.test.ts` answers, except that a lookup finds any user that
matches rather than the one indexed last. A check and a deletion that does nothing to what is gone are one
step, and the organization has one subscriber, whose `told[u]` is whether the last event says active.

*DirectoryRaces* (2 requests of 13 kinds, 3 users, 2 groups, 3 addresses of which 2 are allowed, from a
store with one user, active or deleted): `OnePerExternalId` holds for every external id that two requests
were never busy with at once and no PUT wrote; where they overlap, provisionUser does create two, as nothing in it
or in the store's interface prevents it. `PictureTrue` holds for every user that no request has half done or
left half done; the run shows that these excuses are the only ones. `SyncKeepsListed` needs the source's users
without external id, who are recognised by address alone, and a second request that moves users in between.
Two requests suffice as a bulk request is a sequence of up to three operations; three requests were
searched to depth 20 without a violation. Deadlock is not checked, as requests are bounded.

Read off the code, with no property of their own: a PUT through the SCIM server that deactivates a user is never
announced (`scim-server.ts:301`); a bulk operation whose delivery rejects is answered twice, as success and as
error (`scim-bulk.ts:286`, `:545`); `provisionUser` that finds a user by external id gives it an address that
another user may hold (`user-provisioning.ts:116`); a member of a group that failed in a synchronization, if
only by its delivery, is dropped from the group (`directory-sync.ts:105`).

### Accounts

The tables `users` and `oauth_accounts` and the links waiting for confirmation, with what the schema makes
unique: an address, a provider's account. A callback (`CallbackBegin` to `CreateLink`) looks for the account's
link, then for a user by address, then creates a user, then the link; a confirmation takes the pending link and
looks again (`ConfirmTake`, `ConfirmFindAgain`); an assertion provisions by name, then by address
(`ProvisionBegin` …); `register` looks for a password, hashes, and sets or creates. The strategy for accounts
whose address is known is fixed in `Init`; `prompt_user` is what `automatic` does for an address that is not
verified, and left out of the run. `DeleteUser` is the hard deletion, by which the user's links go with the row.

`OneUserPerAccount`: whatever came in between, a user who was let in as the owner of a provider's account still
has its link, or is gone. The unique row is what holds it: a callback whose account was linked meanwhile is
rejected. `PasswordsWithinOverlap`: `register` sets the password of a user that exists as often as requests
overlapped, not more, as one that comes later finds it set. Read off the code: the address that a provider gives
counts as verified (`social-login.ts:386`, `const oauthEmailVerified = true`), where `PRD.md:506` wants it
verified on both sides; no state distinguishes the two here, so there is no run about it.

### Erasure

One user, of whom the stores hold backup codes, an authenticator's secret and pending secret, a password, a
phone code, an activity record, a session, passkeys and the row. Each request of the other components that
stores one of them is a check and, an await later, a write (`Begin`, `Write`); erasing is `EraseFind` (with the
sessions, which are ended in the same step), the list of passkeys, their deletion one by one, and the stages.
A login stores its activity and session, and the backup codes that are left when it was paid with one. All of
`eraseUserData`'s stores are optional (`gdpr.ts:199`); the model gives it every one, as what a caller withholds it
cannot erase. Any request may die anywhere. `NothingOutlivesTheRow`: once the row is gone nothing is left but what a request
stored that overlapped an erasure. That is why the row goes last: an erasure that died halfway can be
repeated. The property names what does remain: what such an overlapping request wrote, what was stored with a
session such a request opened, and a password set by a reset link mailed before, which
`resetPasswordWithToken` writes without asking whether the user exists (`password-reset-flow.ts:164`).

### Passkeys

One user's credentials and challenges. A library verifies signatures; it is modelled by what the code relies on: a
response answers the challenge expected, and a counter is above the stored one or both are zero. The challenge store
forgets nothing, so a response can be sent again. `AssertionPaysOnce`: with an authenticator that counts, an
assertion is accepted once as long as its key is stored, unless a request wrote the counter over one it had not
read. That excuse is real: `finishAuthentication` reads the counter, awaits and writes it
(`passkeys.ts:310`), so that two requests with one assertion both pass; `PRD.md:1303` lists the check as to be done.
`paid` starts anew when a key is stored again: a registration response sent again after the key was
revoked stores it again with the counter it was made with. Signatures are counted from that counter (`passkeys.ts:178` stores
it as it comes, mostly 0), which shifts all counts of a key alike. An assertion counts as accepted when its counter is
written, though the caller hears of it one await later (`updateLastUsed`): a request that dies in between has
been paid for here, which makes the property stronger than its words.

`PasskeyList` is the hook `usePasskeys`. Its requests are answered in any order, or fail before or after the
server acted. `ListSettles`: with nothing in flight and no error shown, the page shows the keys of the account, if
the list asked for last was applied last; where it was not, the older list stays, as no request is numbered or
cancelled.

### Single sign-on

The sessions of one user at a provider and a service, both built from this code, by index. `AssertSession` and
`SendAssertion` are the provider's response, `ReceiveAssertion` and `OpenSession` the service's; logout goes in
both directions as `Ask…`, `ReceiveAt…`, `InvalidateSession`, `Answer`. Messages are kept and may be received
again, in any order, or never. Both sides send logout requests for sessions they know of; the handlers do not
authenticate who sent one (`single-logout.ts:179` looks the issuer up and no more), and a request nobody here would send
could end a session early, never keep one. `AnsweredLogoutHolds`: a side that answered a logout has ended the sessions it
covers and has none of them later, but for one the service opened by an assertion it acted on after the logout
had come. An assertion is as good the second time until it expires, since nothing remembers those used, and
`InResponseTo` is compared with nothing (`PRD.md:1294`, open in the list of things to do). `invalidateSession`
rejecting is a logout without an answer.

## Runs

| Run | Bounds | Result |
|---|---|---|
| SessionRaces | 1 user, 2 sessions, 4 tokens, 2 requests, 1 device | passes, 140 040 states |
| SessionLimits | 2 users, 1 organization, 4 sessions, 2 requests | passes |
| SessionReplay | 2 sessions, 3 tokens, 2 requests, 1 tick, fair | passes, 133 118 states |
| DoubleSpend | as SessionRaces | violated, as the finding says |
| Synchronous | limiter: 2 users, 2 organizations, 4 ids; links: 2 and 2 flows; devices: 2, 2 codes, 2 users; tokens: 4, 3 keys; 5 attempts, 2 in a window; 2 mail requests | passes, 562 536 states |
| Accounts | 2 requests each; 2 users, 2 addresses, 1 provider account; 1 passkey to erase; 2 passkeys, 2 challenges, 2 signatures; 4 lists; 2 session indexes, 2 logouts | passes, 1 297 009 states |
| SingleUseLastSecond | 2 links, 2 flows | violated, as the finding says |
| MemberRaces, OwnerRace | 3 users, 2 requests; 2 users | passes, 227 720 states; violated |
| LoginRaces, BackupCodeTwice | 2 requests, 2 codes of each kind, 2 ticks | passes, 1 285 930 states; violated |
| DirectoryRaces | 2 requests of 13 kinds, 3 users, 2 groups, 2 external ids each | passes, 653 931 states |

*Synchronous* joins components that share nothing but the process and its clock, *Accounts* five that share
no store: a behaviour follows one of them (`focus`) while the others stay as they started, since a product of
their states would answer nothing more. Symmetry is used for ids, users, tokens and requests, which no
definition tells apart, and not in the liveness run. `CHECK_DEADLOCK FALSE` stands where every id has been
drawn, the clock has reached its bound, or requests are bounded, and only there. Where a run of races lists no
type invariant, the type invariant is a theorem; so is `IndexMatchesRecord`. In *Accounts* two requests are again
the smallest number that races, two users with two addresses let a provider's account change its address to
another user's, and two signatures of one key are needed for the older to come late.

## Proofs

Each `…Proofs` module gives inductive invariants, a lemma for each action or group of actions, and the theorems.
Every invariant and every safety property of a passing run is a theorem, for all values of the constants; what is left to TLC
is liveness and the four runs that find a violation.

Assumptions are the named `ASSUME`s of the components, which TLC evaluates on each run: bounds are naturals, `NULL`
and `NoOrg` are no ids, the slots for requests (`Calls`, `AccountCalls`, `Requests`) are finitely many, and a limit is
given for each organization. `Directory` assumes what its interfaces say of requests: a push says active or
not, a synchronization consists of users and groups, an event has no PUT (`scim-webhook.ts` knows create, update,
delete); and that the user store starts with one user at most for an external id.

`RegistryProofs` has no theorem of its own: it holds what `Lists` and `SessionRegistry` need. `Keep` (a filter) keeps
order and ends (`Kept`, `KeptSorted`, `KeptEnd`), the registry's operators keep ids distinct (`Removing`,
`Registering`), and eviction leaves room for one more (`OverflowLeavesRoom`, `EvictionMakesRoom`). The library's induction theorems have an operator
as a parameter and cannot be used; that a set of naturals has a least element (`Least`) follows from `WFMin`,
which takes a set, and serves in their place. Where proofs need it, lists are filtered by `Keep`, a function
over the places kept, instead of the recursive `SelectSeq`.

* `SessionManagementProofs`. `TypeCorrect`, `OneLiveToken` (`IndexMatchesRecord`),
  `SpentTokensLeaveTheIndex` (`SpentTokenNotLive`, when no request dies) and `ImplementsLifecycle`.
  `IndexMatchesRecord` alone is not inductive: a rotation by a request that began before another
  rotated must be known to index a hash nobody has, which needs the freshness of the tokens drawn by
  requests in flight (pairwise different, in no map) and that what a request has looked up still exists.
  `LateRequestsRefused` (`LateRequestNeverRenews`): `InTime` says that a session a request has accepted was live when
  the request began. `TokensNotLost` (`LostOnlyByDoubleSpend`): `LostInv` adds that a request about to renew holds the
  hash that the record has, or one that another request has spent meanwhile, or one of a session already
  spent twice. `LimiterCountsAll` (`SessionsAccountedFor`) and `ExcessBounded` (`ActiveWithinSlack`) have the hypothesis `InStep`,
  that no request dies and remote logout has its store, because otherwise the code leaves sessions
  unregistered (a process that dies between `insert` and `register`); the run *SessionLimits* is one of that kind.
  That k requests exceed a limit by k − 1 at most is not a matter of counting, as requests that evict have
  checked at different times: `Covered` ranks them by the time of their check, and gives each the set of sessions that
  its check left; all that is live is among these and those it still has to evict.
* `LimitsProofs`. `LimiterTyped`, `LimitsHold` (`WithinLimits`), and of each step `OldestGoFirst` (`EvictsOldestWhenFull`) and
  `LoginEndsOldId` (`OldIdDies`). The limiter's invariant adds that ids are distinct, without which the number of
  entries is not the number of sessions. `WindowTyped`, `WindowNeverOverrun` (`WindowHolds`) and `RetryAfterEnough`
  (`RetryAfterSuffices`): `WindowInv` adds that what the middleware keeps is the end of all it let through, the rest having left the window, and
  that the promise given with a refusal covers the attempts that stand. `ResendTyped` and `OneMailEach`
  (`MailsWithinOverlap`): `ResendInv` says that some assignment of senders to mails exists under which nobody
  sent twice within the base delay; as many senders as requests bound the mails.
* `CredentialsProofs`. `OneEffect` (`OneEffectBeforeExpiry`), for all four kinds of link. The strengthening says that a
  redeemed link whose expiry has not begun is in the used-token map with that expiry and has been
  redeemed once. `DevicesTyped`, `CodesLead`, `CodesFind` and both as `CodesMatch` (`CodesMatchDevices`), `ImplementsGrant`
  and `PatienceIsKept` (`PatientClientNeverSlowed`, by `Told`: what the client was told is what the entry says). The index
  is right in one direction for any codes; the refinement needs only that, and that an authorized
  request has a subject. `PaysOnce` (`PaysOnceBeforeExpiry`), `OneCredential` (`OneCredentialPerGrant`) and
  `KeysOutlive` (`KeyOutlivesToken`): the invariant says that a store remembers a used token until its
  expiry, that a grant has one unused token unless one of it was used twice, and that a token names the
  current key, or the one before and was signed before it was replaced, or has expired. The arithmetic of
  whole seconds is lemmas of its own. `SynchronousTyped` (`MCSynchronous.TypeOK`) takes all that runs on one clock together.
* `MembershipProofs`. `TypeCorrect`, `Seats` (`SeatsWithinOverlap`), `Admissions`
  (`AdmissionsWithinOverlap`), `AcceptedWereAdmitted` (`AcceptedAdmitted`) and `OwnerLoss` (`OwnerLostOnlyByStaleWrite`). For the seats the invariant
  counts memberships together with the requests that have passed the check; for the owners it says
  that a request about to take an owner away, and not stale, leaves another.
* `LoginProofs`. `TypeCorrect`, `Guesses` (`GuessesPerLock`), `BackupCodesKept` (`BackupCodesAccountedFor`),
  `NewestCode` (`NewestCodeStands`) and `LockStays` (`LockKeepsItsTime`). Below the limit the entry
  counts every guess; once it locks, the guesses and the logins in flight together are bounded, and no
  login joins them. For the backup codes one needs that a code not yet shown has never paid and that
  a request has seen shown codes only.
* `AccountsProofs`, over the five modules of `MCAccounts`. `TablesTyped` and `LinksHold` (`OneUserPerAccount`):
  `LinksInv` adds that a callback that has found a link knows its user, and that the link stays as long as the
  user's row, as ids are never given out again. `PasswordsHold` (`PasswordsWithinOverlap`): passwords set and calls about to set one are
  counted together, and once one is set no call joins them. `ErasureTyped` and `ErasureIsComplete` (`NothingOutlivesTheRow`): the
  invariant `ErasureInv` says what an erasure in its nth stage has behind it: of what the stages before deleted,
  and of the passkeys it has listed and passed, only overlapping writes are held; and that a request in flight
  during an erasure, or begun without the row, is marked as overlapping. `LogoutHolds` (`AnsweredLogoutHolds`): `SsoInv` adds that a handler
  that has ended its sessions and not yet answered covers none that exist, but for those opened again.
  `PasskeysTyped` and `AcceptedOnce` (`AssertionPaysOnce`): `CounterCoversPaid` says that the stored counter has reached that of every
  accepted assertion, so that a second look refuses it, and `Checked` that a request that has looked holds an assertion above the
  counter it saw, or both are zero. `HookTyped` and `ListComesRight` (`ListSettles`): `Picture` says of the answer to the list asked
  for last, still on its way, what `ListSettles` says of the page. `AccountsTyped` (`MCAccounts.TypeOK`).
* `DirectoryProofs`. Its next-state relation has some thirty actions. They are proved once to be of three shapes
  (`StepsAre`): a request that neither writes nor tells of a user (`CalmStep`), one that writes its user (`UserStep`) and one that tells of it
  (`TellStep`), each with what may be known of it afterwards; every invariant is then proved from the shapes. `DirectoryTyped`
  (`TypeOK`): `TypeInv` has the locals a request keeps at each await. `ListedAreKept` (`SyncKeepsListed`): `OwnInv` says that those a
  synchronization has pushed still match its source and are not among those it is to remove. `PictureHolds` (`PictureTrue`):
  `PictureInv` says what an event that is due will say, and that a user two requests have half done is excused.
  `OneUserPerId` (`OnePerExternalId`): `IdsInv` says that two requests are not busy with one id unless it is contested, so that
  what one of them found (or did not find) before an await is still so when it acts on it.

Only model-checked: `ReplayEndsFamily`, as liveness under fairness needs `ENABLED`, which the prover does not support. That a
renewal that begins late is refused, that the store refines the life cycle, and every other safety property it
rests on are theorems.

## Plan

In order; each step adds a module, its instance, its mutants and its theorems.

1. The IP and brute-force windows in front of `Login`, composed; the suspicious-activity report. `WindowInv` is proved for one key
   and carries over.
2. Organizations (slugs, soft deletion) and teams beside `Membership`; then `Erasure` over a user's memberships too.
3. `InStep` weakened: with requests that die, `ExcessBounded` for the sessions that were registered.

Independent small components share a run where a product of their state spaces answers nothing more.

## Not modelled

Cryptography, token encoding, XML, password policy, formatting, branding, e-mail templates, analytics,
compliance tables, domain rules and rendering: pure functions whose values no property here tells apart, or output.
Approvals, permissions and custom domains are pure too; teams, organizations and billing reports are single writes
or requests, of which the plan lists those that race. External, and modelled by how the code uses them: the database's
unique constraints, the WebAuthn library, the authenticator, the browser that carries SAML messages, the mail and SMS
services. `PROJECT.json` gives the reason for each component.
