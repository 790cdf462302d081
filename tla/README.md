# Specifications of BrighterTools.Auth

TLA+ models of the session handling of BrighterTools.Auth, the TLC runs that check
them and the proofs that TLAPS checks. Paths are those of the repository; `CTX` is
`react/brightertools-auth-react/src/context/AuthContext.tsx` and `ORC` is
`src/BrighterTools.Auth/Services/DefaultAuthOrchestrator.cs`. Line numbers in the
modules refer to the file that the module's header names.

## The system

The library has two halves. The backend package composes services of a host
application: `DefaultAuthOrchestrator` looks users up, asks policies, issues and
rotates refresh tokens and links external logins, and every store it uses belongs to
the host. The React package keeps a session in the browser: a provider refreshes it
before it expires, shares it with the other tabs of the origin through `localStorage`,
and offers hooks and panels for signing up, signing in and managing an account.

| Part | State it keeps | Operations | What makes it correct | Module |
|---|---|---|---|---|
| Session provider (`CTX`, `services/tokenStorage.ts`) | per tab: React state, `sessionRef`, generation, call in flight; shared: `localStorage`; on the server: the refresh tokens | refresh under the Web Lock, `setSession`, login, logout, storage events, renders, effects, unmount | no answer restores a session that has ended; tabs that listen agree, and others catch up; no provider drops the answer that storage depends on; no tab signs the others out | `AuthProvider` |
| Its schedule (`CTX` 96-214) | refresh timer, `now` timer, retry index, `retryAt`, `failed` | timers, back-off, Retry-After, resume, renders | an expired session is not shown; somebody always attends to the session; retries are bounded; Retry-After is waited for, but by timers that line 157 leaves behind | `RefreshSchedule` |
| Hooks with an API call of their own (`hooks/`) | the request in flight | `useRefreshToken`, `useLogin` and its like, `useLogout` | as the provider | `AuthHooks` |
| Refresh tokens (`ORC` 121-333, 693-747) | rows of `IRefreshTokenStore`, sessions of `IAuthSessionStore` | issue, refresh, rotate, refuse, log out | a login has one usable token and ends for good; the session store is not behind the client | `RefreshTokens`, `LoginLines` |
| External logins (`ORC` 158-253, 489-529, `Defaults/PreventLastLoginProviderUnlinkPolicy.cs`) | accounts, links | sign up, provision, link, unlink | one owner per identity; no account left without a login method | `ExternalLogins` |
| Password login (`ORC` 121-153) | the password hash of the host's store | log in, upgrade the hash; the host's workflows change and remove passwords | a login never undoes a change of the password; outdated hashes are replaced | `PasswordLogin` |
| MFA enrolment (`ORC` 395-478) | the enrolment in `IMfaSecretStore`, recovery codes | begin, verify, challenge, disable | unless an enrolment begins or ends in the middle of a verification: only a verified secret is confirmed, what was disabled stays so, recovery codes fit | `Mfa` |
| Signup age gate (`ORC` 653-691, `SignupPanel.tsx` 133-182) | the date of birth and the confirmation in the form | one evaluation on each side | both count birthdays, and they agree but for the time zone | `AgeGate` |
| Tenant switch, onboarding, current session (`ORC` 275-300, 606-651, 749-776) | active tenant, onboarding state | the operations of the same names | what is persisted is consistent when a later step fails | partly, in `RefreshTokens` |
| Decisions: signup policy, options validator, provider validators, reCAPTCHA (`Defaults/`, `Options/`, `Services/`) | none | one evaluation each | agreement with the documented rule on every input | not modelled |
| HTTP adapter (`services/createAuthApi.ts`) | none | `post` with time-out and classification | every request settles, a failure is told from a refusal | partly, in `RefreshSchedule` |
| Signup panel (`components/SignupPanel.tsx`, `EmailVerificationField.tsx`) | form, challenge, busy flags | consent, e-mail verification, password and provider signup | only a proved address is shown as verified and sent; no flag stays set | `SignupPanel` |
| Login panel (`components/LoginPanel.tsx`, `hooks/usePasswordlessEmailLogin.ts`, `services/appleAuth.ts`, `microsoftAuth.ts`) | views, challenge, busy flags, the script element | log in by password, code, link and provider | flows of one kind run alone and end | `LoginPanel` |
| Account login methods (`components/AccountLoginMethodsManager.tsx`, `AccountLoginMethodsPanel.tsx`) | the account as loaded, e-mail challenge, form, busy flags | load, change and verify the address, set up, change and remove the password, link and unlink | success is shown over an account that has the change; no flag stays set | `AccountLoginMethods` |
| Invitation acceptance (`components/InvitationAcceptancePanel.tsx`) | the invitation as loaded, form, view, busy flag | load, accept, connect, switch account, decline | from the effect of a key on, its invitation is shown and a bound address kept; one operation at a time | `InvitationAcceptance` |
| Invitation management (`components/InvitationManagementPanel.tsx`) | rows, page, details, busy flags | search, page, invite, resend, cancel, remove, import, details | rows belong to the page that is counted; a reload shows its operation | `InvitationManagement` |
| Guards, forms, pages, texts, type declarations | none that outlives a render | rendering | - | not modelled |

How they interact. A tab's provider calls the backend through the HTTP adapter and
awaits the answer; meanwhile its own events, the other tabs and the server go on. The
tabs share storage, which is written at once and heard of later, and the Web Lock. The
backend awaits a store of the host at every step, so operations on one user
interleave and any of them can stop after any call.

What is hard: the answer of a request against everything that happened since; tokens
that can be used once, in several tabs; storage events and passive effects that arrive
late; timers that are cleared and armed in several places; check-then-act over stores
without a transaction; and steps that have succeeded before one that fails. `hazards`
in `PROJECT.json` lists each of them with its line and the properties that cover it.

## Modules

| Module | What it is |
|---|---|
| `AuthProvider` | Several tabs, their renders, effects and storage events, and the server's tokens. One action per stretch of JavaScript between two points where control is given up. |
| `AuthProvider_proofs` | Theorems about it. |
| `AuthHooks`, `AuthHooks_proofs` | Extends `AuthProvider` by the exported hooks, which call `setSession` at any moment; theorems about it. |
| `RefreshSchedule`, `RefreshSchedule_proofs` | The timers of one provider, in ticks, and theorems about them. |
| `RefreshTokens` | The orchestrator's operations on refresh tokens over the host's stores. |
| `LoginLines` | The abstract specification of rotating tokens: a login is a line with one usable head. |
| `RefreshTokens_proofs` | Theorems about `RefreshTokens`, and that it implements `LoginLines`. |
| `ExternalLogins`, `ExternalLogins_proofs` | Accounts and linked identities, and theorems about them. |
| `PasswordLogin` | The password login with its rehash, beside changes of the password. |
| `Mfa` | MFA enrolment over a store that is read and saved in separate calls. |
| `AgeGate` | The age gate of the signup panel and of the orchestrator, with calendars. |
| `OrchestratorConstants` | What the modules of the orchestrator are about, and what they assume of the host. |
| `Orchestrator` | These modules together: steps of all of them interleave. |
| `Orchestrator_proofs` | Theorems about `PasswordLogin`, `Mfa` and `AgeGate`, and the types of all parts together. |
| `MCOrchestrator` | `Orchestrator` for TLC: a behaviour is one of one part. |
| `SignupPanel`, `SignupPanel_proofs` | The signup panel, its handlers that await an answer and the challenges of the host, and theorems about them. |
| `LoginPanel`, `AccountLoginMethods`, `InvitationAcceptance`, `InvitationManagement` | The other panels, in the same way. |
| `PanelConstants` | What panels exchange with users and hosts. |
| `Panels` | The five panels together: steps of all of them interleave. |
| `Panels_proofs` | Theorems about them. |
| `MCPanels` | `Panels` for TLC: a behaviour is one of one panel. |
| other `MC...` | Symmetry and sample values for TLC. |

Operators whose name has a suffix (`SetSession_InMemory`, `Defer_SameDelay`, ...) are
variants of the definition before the underscore: each has the kind of mistake that a
change of the code could bring in, and makes a property of a passing run fail.

### AuthProvider

| Model | Code |
|---|---|
| `storage`, `Store`, `event` | `tokenStorage.ts`; a write that changes something queues a storage event in every other tab |
| `session`, `renderDue`, `effect` | React state as last set, a render that is due, the committed session whose effects have not run |
| `listening` | the effect of the first commit has added the `storage` listener (197-214) |
| `ref`, `mounted` | `sessionRef`, `mountedRef` |
| `call`, `about`, `valid` | the promise in `refreshInFlightRef`: queued for the lock or sent; `original` or `current`; whether the generation it captured (117) is still current |
| `reply`, `fate` | the answer on its way; what became of a token on the server: `live`, `rotated` while its replacement can still arrive, `ended`, or how the replacement was lost |
| `RefreshSession`, `RunGivesUp`, `RunAdopts`, `RunSends`, `LockRefused` | 114-133, 160-168 |
| `ServerRefreshes`, `AnswerLost`, `ServerEnds` | `RefreshAsync`, the network, expiry or revocation |
| `IgnoreAnswer`, `YieldToStorage`, `ApplyAnswer`, `TerminalAnswer`, `DeferAnswer` | 134-150, in this order |
| `Commit`, `RunEffect`, `OnStorage` | React's render, 185-188 and 197-214, 199-205 |
| `EventUnheard` | an event that finds no listener |
| `Login`, `Logout`, `Unmount`, `CloseTab`, `Mount` | 225-254, 215-222, the browser, 72-95 |

A session is an identity that stands for an access token and its refresh token. The
generation counter is the flag `valid`, because there is one call and it is only asked
whether the counter has moved. Every queued event is counted, since each moves it (201).
When a refresh starts is left open: any tab may start one when none is in flight.
`loading` is left out.

A provider reads storage while it renders (83) and listens once the effects of that commit
have run (212). What another tab writes in between goes unheard, and the state stays what it
was: `missed` marks such a tab until it hears an event, sets a session itself or finds out
with its next refresh. `TabsAgree` and `LogoutReachesTabs` say this of tabs that missed
nothing, and `RefreshCatchesUp` that a refresh brings the others back.

`fate` tells apart four ways in which a replacement gets lost: no running provider got the
answer (`lost`), the client took the new session for expired (`lapsed`, 136 and 144), a
storage event came before the answer and the generation moved (`overtaken`, 201 and 134), or a
provider dropped it for another reason (`dropped`). The first three happen and leave a spent
token in storage; `StoredTokenUsable` says that the fourth never does, whatever logins,
logouts, adoptions and writes of other tabs come during a request. `disturbed` is the history
variable behind `overtaken`: the tab heard a storage event during its call.

### AuthHooks

`HookStarts` to `HookLogoutEnds` are the requests of the hooks, from the call to
`setSession` with the result. Requests of a provider that unmounts are not followed.

### RefreshSchedule

A tick is some 5 to 10 s; a timer is the ticks it still has to run. What is due - a
render with its effects, a timer, the end of a request that timed out - happens before
the next tick. `life` is the time the access token has left, `timer` is
`refreshTimerRef`, `call` says whether a call is in flight and whether its generation
is current, `nowTimer` is the timer of the effect at 190-195. A render and its effects
are one step, the wait for the lock takes no time, and a request that fails takes at
least a tick; `AuthProvider` has these in full. `UnstableProps` says whether the host
passes a new `api`, callback or array in every render, which makes the effect of
185-188 run again. `defer` assigns `refreshTimerRef` without clearing it (157), so a timer
that was armed during the call, by the effect of a new session's render, goes on with nobody
to clear it: `loose` has the timers that were left behind so, `LooseTimerFires` what
their callback does, and `left` counts those of the present session. A delay above 2^31-1 ms fires at once (`SetTimeout`), except where
the code caps it (`Capped`).

### RefreshTokens and LoginLines

Every await is a point where other operations run and where the call may throw
(`Fail`). `LogIn` is any operation that ends in `CreateAuthResponseAsync` without a
current token; `RefreshAsync` presents a token some client has; `RefuseRevoked`,
`IssueOrRotate` and `SaveSession` are the steps that change a store. Claims, tenants
and access tokens change nothing and are part of the step that follows them. The
stores are the host's: `ConditionalRotate` says whether its `RotateAsync` replaces a
token only while that is active. `family` is a history variable: the token of the login
that a token descends from. `LoginLines` knows no operations, only lines that begin,
get a new head and end. The mapping takes the active token of a family as its head.

The modules of the orchestrator have names of their own (`LoginsInit`, `MfaNext`,
`GateInit`, ...), so that `Orchestrator` can extend all of them. They share neither state
nor calls: a step of `AllNext` is one of one part. For TLC `MCOrchestrator` chooses the part
at the start (`part`), so the state spaces add up and do not multiply; the theorems are
about `AllSpec`, where steps of all parts interleave and of which each behaviour of `MCSpec`
is one. `Panels` and `MCPanels` are built in the same way, with an INSTANCE of each of four
panels beside the signup panel it extends.

### ExternalLogins

An operation looks (`FindNobody`, `FindOwnOrNobody`, `ReadUser`, `ReadLinks`) and acts
later (`CreateUser`, `Link`, `Unlink`). The policies of signup and provisioning permit
or refuse; a refusal leaves nothing behind and is not a step. `EnabledProviders` of a
user are taken to be what the user can sign in with: the providers of its links, and
`OwnMethod` for a password or another method that needs no link. Any call may throw
(`Throw`); `abandoned` is a history variable, the accounts whose creation was cut short
by one between `CreateExternalUserAsync` and `LinkAsync`. Three constants say what the
host sees to: `UniqueLinks`, `SerialIdentities` and `SerialRemovals`.

### PasswordLogin

`VerifyPassword` reads the user and the hash (123-147), `UpdateHash` stores a hash of the
same password (142, 148), `PasswordEnds` issues the session or throws. A hash is a password
and a format: one only the legacy verifier knows and wants upgraded, one that requires a
rehash, or a current one. `SetPassword` and `RemovePassword` are the host's workflows that
the orchestrator calls; `chosen` is a history variable, what the user set last.
`ConditionalUpdate` says whether the host's `UpdatePasswordHashAsync` replaces only the hash
of the user it is given.

### Mfa

`BeginEnrollment` and `SaveBegun`, `VerifyEnrollment`, `Get` and `Confirm`, `Challenge` and
`Redeem`, and `Disable` are 395-478, cut at the awaits that change or read something. That a
code is checked against the stored secret, and that recovery codes are issued with the
verification in place of earlier ones, is what the host's `IMfaChallengeService` is taken to
do. It is also taken that the store has no enrolment to return after `DisableAsync`. A
confirmed enrolment that is begun anew is unconfirmed until it is verified, as the code has it.

Nothing keeps two changes of one user's MFA apart, in the code or in an interface of the
host, so all of them interleave. `VerifyMfaEnrollmentAsync` verifies a code (425), then reads
the enrolment (431) and saves it confirmed (434); an enrolment begun or disabled in between is
confirmed or brought back (`enrolled_unverified`). `tangled` is a history variable: the users
to whom that happened, until their enrolment is begun or disabled with no verification
under way. The invariants say that this is the only way: of all other users
`ConfirmedUnlessTangled`, `EnrollmentsNeverReturn` and `RecoveryCodesFit` hold, however many
operations overlap.

### AgeGate

The date of the browser and the date in UTC differ by a day at most and go on together.
`GetAge`, `ValidateAgeGate`, `EnterDateOfBirth` and `ConfirmMinimumAge` are
`SignupPanel.tsx` 133-182 and 431-467, `YearsBefore`, `BornEarlyEnough` and
`ValidateSignupAgeGate` are `ORC` 653-691. `Birthdays`, which the property compares them
with, counts them one by one. `MonthLength`, `DaysIn` and `Tomorrow` are the calendar.

### SignupPanel

| Model | Code |
|---|---|
| `consent`, `pending`, `showEmail`, `email`, `verified`, `challenge`, `busyAction`, `busyProvider`, `isSubmitting` | the React state of the panel (101-117) |
| `verifying`, `own` | `verifyingRef` of the verification field that is shown (Field 65) and the handlers that belong to it; a new field has a ref of its own (`Detach`) |
| `task` | the handlers that await an answer, with the address and challenge of the render they began in |
| `about`, `proved` | the host: the address a challenge was sent to, and the challenges whose code it accepted |
| `SendVerification`, `Resend`, `Verify`, `SubmitPasswordSignup`, `OpenPopup`, `GoogleCredential`, `FinishMicrosoft` | the handlers up to their first await |
| `BeginAnswered` to `ProviderFails` | what follows an await |

A handler reads what its render saw and writes into what is shown when its answer comes,
which can be another address, another form or none. The code that is typed, and the
automatic submission of a complete one, are part of `Verify`, which may happen whenever
the guards of the button and of the effect let it. Password rules and messages are left
out; the age gate is part of `consent`. A Google credential that arrives after its button
has gone is not modelled.

### The other panels

They are built in the same way: `task` has the handlers that await an answer, with what the
render they began in saw; an action up to the first await is enabled when its control is
shown and not disabled; an answer writes into whatever is shown by then.

`LoginPanel`: `due` says that the effect of a link's token (136-163) has to run, at first or
because something in its dependency list (163) has changed: a callback, the return url, the
tenant, `loginText` (a memo on `textOverrides`, 85), or the functions of
`usePasswordlessEmailLogin` and `setSession`, which follow the provider's `api` and
`storage`. `stable` says that none of them changes. If one does the token is sent again, and
the refusal of the second ends the session that the first brought
(`usePasswordlessEmailLogin.ts` 12); nothing in the repository says that it does not.
`script` is Apple's script
element, which outlives a flow. Password, code and provider logins have busy flags of their
own.

`AccountLoginMethods`: the manager (fields `details`, `challenge`, `setup`, `busyAction`,
`busyProvider`), the form of the panel it shows (`email`, `editing`) and the verification
field (`verifying`, `own`). Nearly every operation is a request that changes the host's
`account` and then a load of it (`Granted`, `LoadServed`, `Loaded`). The host's `version`
counts changes; it says whether what is shown has one.

`InvitationAcceptance`: the key and the current user are props that change under requests.
`ChangeKey` is the commit of a render with another key: what is shown is still the former
invitation, with its form enabled, and an operation sends the new key. The effect (117-127)
cancels the former load and begins one; `asked` is the key for which it ran, and until it
has (`Early`) there is time for one click, because React runs the effect before it renders
again (`Render`). `loads` are the keys whose details are on their way, and only an answer for
the key of the last effect is not cancelled. `ShownAsAsked` and `RestrictedAddressKept` hold
from the effect on; a request that is sent in that window is marked `early`, and can carry
the address of the former invitation. The adapter is taken to answer a load or refuse it: one that throws leaves
`loading` set, because the effect at 117-168 has no `catch`. A flow that logs in and then
connects goes on with the key it began with.

`InvitationManagement`: a load asks for a page and answers with the rows of it. Details are
answered into whatever row is expanded by then (250): the code has no guard, and details of
one invitation can be shown under another; nothing in the repository says otherwise, so
there is no run for it.

## Runs

| Run | Instance | What it shows |
|---|---|---|
| `tabs_with_locks` | 2 tabs, 2 sessions | with Web Locks: types, tabs that missed nothing agree, a refresh brings the others back, no provider drops the answer storage depends on, no resurrection, no false logout |
| `refreshes_settle` | 2 tabs, 1 session, fair | every refresh settles; a logout reaches every tab that missed no event |
| `hooks_restore` | 1 tab, 2 sessions | *violated*: `useRefreshToken` restores a session after a logout |
| `schedule` | lifetimes 8 and 11 ticks, 3 retries, Retry-After 0 or 5, 2 timers left behind at once, fair | expiry, bounded retries, Retry-After, nobody stranded, no early refresh; refreshes keep coming until the retries are used up |
| `schedule_rerendered` | the same, unstable props | *violated*: a render replaces the retry timer and the refresh starts before Retry-After |
| `orchestrator` | 3 operations, 2 users, 3 tokens, 3 MFA secrets, 2 passwords, 3 identities of 2 providers, no unique key; a conditional rotate and update, one operation per identity and one unlink per user at a time; dates of 3 years | one active token per login, the session store is not behind, `LoginLines` is implemented; one owner per identity, no account left behind, the last login method stays; passwords stay as chosen and outdated hashes go; but for verifications that another change overtook, confirmed secrets were verified, enrolments do not return and recovery codes fit; both age gates count birthdays and agree |
| `reuse_of_revoked` | 2 operations, 3 tokens | *violated*: the reuse of a revoked token leaves its family active |
| `enrolled_unverified` | 2 operations, 1 user, 3 secrets | *violated*: an enrolment begun during the verification of another is confirmed unverified |
| `unlinks_concurrent` | 2 operations, 1 account | *violated*: two overlapping unlinks remove both last methods |
| `panels` | 2 handlers at a time; 2 addresses, 2 challenges, 2 invitations (one bound to its address), 1 provider, 1 change of an account or of the list, 2 pages, 2 sends of a token; fair | an address shown as verified, or carried by a signup, was proved; operations that share a flag run alone; what is shown is what was asked for, and a bound address is kept, from the effect of a key on; success is shown over what was changed; no busy flag stays set |
| `signup_unproved` | the signup panel of it | *violated*: a signup can carry a challenge that was never proved |
| `apple_script` | the login panel of it | *violated*: a sign-in with Apple after a failed load of its script never ends |

The bounds. Two tabs are all that a property about a tab and "another one" needs; the
theorems hold for any number, and for providers that unmount and tabs that close in the
middle of a refresh, which the runs have in `refreshes_settle`. What holds without Web
Locks is proved and not run. Two sessions allow a login and a refresh, two logins, or a
stored session and its replacement: a tab holds an old token while another has the new one,
and is told so late, or not at all. When the sessions are used up the server issues no more
and the tabs go on with what they have; the theorems hold for any number. Three operations are a refresh,
its replay and a logout or a login between any of their steps; three tokens are a login
and two rotations, so that the one a late `SaveAsync` brings can be two behind, or two
logins and a rotation. Secrets and tokens are the same model values in `MCOrchestrator`,
which uses them in different parts, so that one symmetry serves both. Two Google identities
and one of Microsoft let the policy, which counts providers, differ from one that counts
links. Three secrets are an enrolment, one that replaces it and one that is begun while it
is confirmed. The age gate has a leap year between two others, minimum ages of one and two
years and the days at the ends of February and of the year. So a leap year is met as the year
of birth, as the present one and as neither; two leap years, whose days are the same, and
the centuries are left to the theorems, which hold for any years and days.
In `RefreshSchedule` a retry delay (1, 2, 4) can be shorter than a request (4 ticks), as
1 s and 5 s are shorter than 30 s, one Retry-After is longer than all of them,
and a token of 11 ticks outlives the longest timer (8), as one of a month does. `MaxLoose`
rules out a failure that would leave a third timer behind while two run: one is the timer of a
session, the second of a session that came while the first still runs. The new
session's timer has to outlast an obsolete call for `NeverStranded` (lifetime minus early
margin above the request time-out), as any token of more than two minutes does under the
default options; a shorter one is a hazard of line 115. Access tokens that live longer
than the cap plus the early margin are outside `FreshSessionLeftAlone`. In `SignupPanel`
two addresses and two challenges let an answer be about another address or challenge than
the form; two handlers at a time are what a property about a late answer needs, and the
theorems hold for any number. In `AccountLoginMethods` one address is enough for
`SuccessIsShown`, and one change to tell an account that has it from one that has not; an
account begins with a password and a verified address or with neither (the others come of
its operations). Two invitations, one bound to its address and one not, let forms and
answers be about another key. `SettledKeys` lets the host change the key while one request at
most is under way besides loads, and give or take one while there is none: what an answer
does depends on no key, so a second request adds nothing to the first. A token is
sent twice at most (`MaxSent`), which has every pair of answers.

Fairness. In `AuthProvider`, weak fairness of answers, renders, effects and storage
events: requests time out after 30 s and the event loop runs what is queued. Strong
fairness of a queued call: Web Locks are granted in the order of the requests, so a tab
gets its turn although others keep asking. Nothing is assumed of users. In
`RefreshSchedule`, time passes (strong fairness of `Tick`, which waits whenever something
is due) and timers, renders and requests that are due happen. In the panels, every
handler gets its answer: requests time out, popups are closed, and the browser settles the
load of a script, once. A handler that waits for a script that has failed before gets none,
because the browser sends no second event. The login panel models this; the signup panel and
the account manager (179-192) await the same promise, and their fairness leaves that case out. `BusyFlagsEnd` leaves it to
`apple_script`, and it is why the runs of the panels do not check for deadlock: with both
handlers waiting so, and no other form to open, nothing is left to do.

## Findings

1. `hooks/useRefreshToken.ts:9` sets whatever the answer brings. A refresh that was sent
   before a logout restores the session (`hooks_restore`);
   `docs/refresh-resilience.md:9` says that in-flight responses cannot. The same line ends
   the session when the answer is a transport failure, after which line 3 of that document
   keeps it; there is no run for that.
2. `CTX` 188: with props that change in every render the effect replaces the timer of a
   retry, and the next refresh does not wait for Retry-After (`schedule_rerendered`);
   line 3 of that document says that Retry-After takes precedence. Hosts can avoid it by
   passing stable props. What they cannot avoid is the timer that line 157 leaves behind: it
   fires when it was armed for, before Retry-After or soon after a new session, and makes one
   refresh more. The properties of `schedule` name it as their exception; it is the same
   disagreement, so it has no run of its own.
3. `ORC` 314 revokes the token that was used again, not its family
   (`reuse_of_revoked`); `Options/RefreshTokenOptions.cs:17` describes the latter. A host
   can do it in its `RevokeAsync`.
4. `ORC` 431: an MFA enrolment that is begun between the verification of another (425)
   and the reading of what is confirmed (431) is finalized although no code of it was
   verified (`enrolled_unverified`); `Abstractions/IAuthOrchestrator.cs:80` says "Verifies an
   MFA enrollment code and finalizes enrollment when valid." A `DisableAsync` between 431 and
   434 is undone in the same way.
5. `ORC` 513-527: overlapping unlinks remove a user's last login methods
   (`unlinks_concurrent`); the policy is described as preventing that. A host can handle
   one unlink per user at a time.
6. `SignupPanel.tsx:255`: the link for another code works while a code is being verified.
   The challenge of the answer that comes first stays in the form, the answer about the
   old code marks it as verified, and the signup carries it (`signup_unproved`), where
   `Dtos/PasswordSignupRequest.cs:49` calls it the one that proves ownership. The address
   was proved (`SignupAddressesWereProved`), so a host that checks the challenge refuses
   an honest signup.
7. `services/appleAuth.ts:27`: a sign-in with Apple looks for the script element of an
   earlier one and waits for its events. If that script failed to load, its `error` event
   has passed, so the promise never settles and the panel stays busy (`apple_script`), where
   line 30 means to report "Apple sign-in could not be loaded."

More that no run shows, because nothing in the repository states the opposite or
because they are of a kind with one above. `AccountLoginMethodsManager.tsx` 220 and 247 set
`setupEmailVerified` for whatever address the form has by then; `SetupIsVerified` of
`AccountLoginMethods` states what 148-152 of the panel and `authUi.ts:539` want, and the
model violates it with two addresses (`AccountEmails = {e1, e2}`, where `panels` has one), as
the signup panel violates `ChallengeProvesEmail`.
`InvitationManagementPanel.tsx` 250 can show details under another row, and its `load` clears
the message that an operation has just set (176), so success is seen in the rows alone;
`SuccessIsShown` is about these. `InvitationAcceptancePanel.tsx` 128 leaves the panel loading
when the adapter throws, and between the render with another key and its effect (117) the
panel sends the new key with the former invitation's form. `LoginPanel.tsx` 163 sends a
link's token again when a host passes a new `textOverrides`, and its refusal ends the
session. `CTX` 197-214 listens for storage events only after the first commit, so a tab can
go on with a session that another tab has ended meanwhile, until its next refresh.

## Proofs

All theorems hold for every value of the constants that satisfies the assumptions
(`ConstantsOK` of each module: nulls are not members, flags are Booleans).

**AuthProvider.** `TypeCorrect`. `RefreshNeverResurrects`: besides a login only
`ApplyAnswer`, `RunAdopts` and `YieldToStorage` write a session; the first needs storage
to be the session the request was about, which is one because a call that was sent is
about a session (`CallsOK`), and the others write what storage has. `TabsAlwaysAgree`: the
state alone is not inductive, because the effect writes `sessionRef` from a commit;
`ReactOK` says that what is still to be rendered or to run will bring `ref` to `session`,
and `HeardOK` that a tab with no event queued that missed none has storage as its state.
`StoredTokenAlwaysUsable`: a call that became obsolete with no storage event is not about the
stored session, because whatever made it obsolete wrote another one (`ObsoleteOK`), so what
it drops is not missed; `TokenInv` adds that a token somebody knows was issued
(`KnownOK`) and that an answer with a new token is about a rotated one, of which there is
one answer at most (`AnswersOK`). `RefreshesCatchUp`: storage never goes back to an
earlier session, so if what a tab still holds of one (`ref`, `effect`, `about`) is the stored
session, the tab shows it too (`OlderOK`); a call that finds storage as it was when it began
can therefore end without a write.
`WebLocksPreventFalseLogout` needs besides that at most
one request is out (`OneRequest`), which the lock gives: a token in storage that the
server refuses is then ended, or its replacement was lost, and not merely rotated.

**AuthHooks.** `HooksTypeCorrect`. `TabsAgreeWithHooks`: all that a hook does to the provider
is a call of `setSession`, after which state and storage agree again (`SetSessionAgrees`),
so the invariant of `TabsAlwaysAgree` survives with hooks in any tabs, and a hook's
`setSession` settles what its tab had missed.

**RefreshSchedule.** `TypeCorrect`. `ExpiredNeverShown`, whatever the host passes and however
long a token lives: while no render is due for the session or the clock, the display timer
does not outlast the session (`DisplayOK`), which holds each time the effect at 190-195 goes
round. The others say what they need of the host and the options. `RetriesAreBounded` needs
`HostIsStable` (the same props in every render) and `HostRetries` (`refreshRetryDelaysMs` is
not empty): a call that fails pays for the next one (`CountOK`), and a timer that runs beside
a call that counts belongs to a session just rendered (`ArmedOK`). So a session leaves one timer
behind at most: a call that counts finds its first timer only (`LeftOK`). With an empty list
that timer, beside a call that an older timer started for the same session, is one too
many. `RetriesAreNotEarly` adds `RetriesFit`, that `setTimeout` can hold the retry delays and
Retry-After; it is about the timer in `refreshTimerRef`, not about one left behind. `FreshSessionsAreLeftAlone` needs `RefreshesFit` alone, that it can hold the
delays of `scheduleRefresh`, which are not capped (182). `SessionsAreAttendedTo` needs this,
`HostIsStable`, and `TokensOutlastCalls`: the timer of a new session then still runs
when the obsolete call has timed out (`OutlastsOK`), so line 115 does not swallow it.

**RefreshTokens.** `TypeCorrect`. `SessionStoreCorrect`, for any store: a token that is
being saved is known to nobody but its operation, and a token that was replaced had been
delivered before (`TokenRowsOK`, `PositionsOK`), so a late `SaveAsync` cannot bring a
replaced one back. `FamiliesNeverFork` and `LoginsImplementLines`, when rotation is on and
`RotateAsync` is conditional: with `FamilyInv` a family has one active token, so each
step that creates or revokes a token is `Begin`, `Continue` or `End` of `LoginLines`, and
every other one leaves the heads alone.

**ExternalLogins.** `LoginsTypeCorrect` (an operation that links works for an account that
exists). `IdentitiesHaveOneOwner`, if the store is unique or operations on one identity do
not overlap: what was found is then still so at `Link` (`FindingsHold`).
`LastLoginMethodStays`, if unlinks of one user do not overlap: what `ReadUser` and
`ReadLinks` saw is still there, and one method that is not of the removed provider is
among it (`ReadingsHold`). `AccountsAreReachable`, from the same: an account that cannot
be entered is one that is being created or was abandoned, so the compensation a host has
to write after a failed `LinkAsync` is the only one there is.

**PasswordLogin** (in `Orchestrator_proofs`). `LoginsAlwaysUpgrade`: a login that is about to store a hash stores a
current one (`UpdatesOK`), and only current hashes are written meanwhile, so no outdated one
comes back. `ChosenPasswordStays`, if the host's update is conditional: the hash that is
written is of the password of the one that was read, and that one is still there.

**Mfa** (in `Orchestrator_proofs`), for operations of any number that interleave freely.
`MfaTypeCorrect`, with `OwnSecrets`: a secret belongs to the user it was handed out to.
`ConfirmedSecretsWereVerified`, `EnrollmentsStayPast` and `RecoveryCodesAlwaysFit` come from
one invariant: a secret that is not saved yet is known to its operation alone and not past
(`UnsavedOK`), and for each user who is not tangled (`SettledOK`) the stored secret is not
past and, once a verification of the user is under way or the enrolment confirmed, is the
verified one, with its recovery codes (`Proved`). An enrolment that is begun or disabled with
no verification under way starts afresh; one that is begun or disabled in the middle of one
takes the user out of the invariant, which is the case `enrolled_unverified` shows.

**AgeGate** (in `Orchestrator_proofs`), for any years, days, minimum ages and options; of the
constants `AgeConstantsOK` asks that days exist and that a minimum age is positive, as the
options validator does. The theorems rest on lemmas about the operators, which say of a day
that exists (`Day`): `BothCountAlike`, that going back by years and comparing dates, with the
day clamped to the length of the month, says the same as subtracting years and correcting;
`BirthdaysAreYears`, that an age is the number of birthdays, the one on 1 March of somebody
born on a 29 February included (by the cardinality of an interval of years); `AgesGrow`,
that nobody is younger on a later day; `TomorrowIsLater`. `AgesCountBirthdays` and
`GatesAlwaysAgree` follow once both clocks are known to show days that exist and to differ
by a day at most, for which `GateTypeOK` alone is not inductive: `Near` adds that they leave
the days a signup begins together (`GateInv`). `GateTypesCorrect` comes with it.

**Orchestrator.** `PartsRun`: a behaviour of `AllSpec` is one of each part, because a step of
one stutters in the others. So `OrchestratorTypesCorrect` has the types of the parts
together, for interleavings that TLC does not visit, and every theorem above about a part
carries over by `PartsRun`, with what it asks of the host: a conditional rotate and update,
one unlink per user at a time, a unique key or one operation per identity. Nothing is asked
for MFA.

**SignupPanel.** `TypeCorrect`, with `ChallengesBegun`: a challenge in the form or in a
request was begun, so the address it is about is one. `VerifiedAddressesWereProved` and
`SignupAddressesWereProved`, together: a signup takes its address from a form that says
verified, `CodeAccepted` writes the address of the challenge and not that of the form,
and what was proved stays so (`ProvedStays`); a popup carries no address
(`PopupsCarryNone`), so an external signup that follows one carries none either.
`FlowsNeverOverlap`: a flow has its flag set as long as it runs (`FlagsSet`).

**Panels.** All five panels together, for any number of handlers, addresses, invitations,
pages and changes (`PanelBoundsOK`: operations of the list have names that are no keys, there
is a page). A behaviour is one of each panel, as in `Orchestrator`, so each has an invariant
of its own:

- `LoginInv`: the flag of a flow that is under way is set, and it disables what starts another
  of its kind. It gives the login panel's part of `OperationsNeverOverlap`.
- `InvitationInv`: without an embedded login an operation that runs has `isSubmitting` set
  (`OperationsFlagged`); the form has the bound address as long as the details of a bound
  invitation are there (`FormKept`), because one answer sets both and the field of a bound
  address cannot be edited. Both are about what the effect of the key has asked for; a request
  between the commit of a key and its effect is marked, and the theorems leave it out. They give
  `RestrictedAddressesAreKept` and the invitation's part of `OperationsNeverOverlap` and
  `PanelsShowWhatWasAsked`.
- `ListInv`: a list that was served has the page that was asked for and the change its handler
  made (`ServedOK`), and `actionInvitationId` names the invitation that is acted upon
  (`ActingOK`); `AccountInv`: an account that was served has every change its handler made
  (`AccountServedOK`), and a request carries what its action needs (`ArgOK`), so that what
  the host makes of the account is one (`HostServes`). Only `Loaded` then takes a handler from
  what it was served to its end, hence the action property `ReportedChangesAreShown`.
- `FlagsAwaited`: a busy flag that is set has a handler, or a load,
  under way that takes it back as it ends. It is inductive beside `TypesOK`: whoever ends clears
  a flag that others may have set, and never leaves one that nobody clears; where a flag names
  what it stands for, so does the handler. `BusyFlagsAreAwaited` is what `BusyFlagsEnd` rests
  on, and the part of it a proof can reach: that the answer comes is fairness, and it does not
  for Apple's script that failed, which `FlagsAwaited` lets a handler wait for.

`PanelTypesCorrect` comes with these invariants; `SignupsStayProved` has the theorems of
`SignupPanel_proofs` for the composition. Where operations overlap, success, details and rows
are right because an answer carries what it is about; where they must not, because of a flag.

Model-checked only: liveness (`RefreshReturns`, `LogoutReachesTabs`, `RefreshKeepsComing`,
`BusyFlagsEnd`), because the prover has no rules for ENABLED and fairness. Every other
property of a passing run is stated by a theorem.
Proved and not run: the session store over a `RotateAsync` that is not conditional (the runs
have one that is), the steps of several parts or panels in one behaviour, and `FlagsAwaited`.

## Plan

1. `SessionFlow`: `AuthProvider` composed with `RefreshTokens`, tenants included, so that
   the server's side of `fate` is implemented and not assumed; a refinement. It takes in the
   tenant switch, which is persisted before a check that can fail (`ORC` 287), and a refresh
   with a tenant that joins one without (`CTX` 115).
2. Proofs: that the panels' operations implement an abstract account and an abstract list,
   as the orchestrator's implement `LoginLines`.
3. The decisions that have no state - signup policy, options validator, provider
   validators, reCAPTCHA, the classification of responses - as operators compared with
   reference definitions over all small inputs.

Not modelled, and not planned: rendering, texts, type declarations, the loading of
third-party scripts other than Apple's, and signature checks of libraries.
