# Verification of dotnet-web-api-startpack

TLA+ models of the authentication service under `src/` and of the browser
Workbench that drives it (`src/playground-ui`), TLC runs that check them on small
instances, and TLAPS proofs of what holds for every size. Run
`tlc -config X.cfg M` for a run (pairs in `PROJECT.json`) and `tlapm M.tla` for
a proof module.

## 1. Inventory

The repository holds a service and a single-page client, the Workbench, which the
service serves from `wwwroot/playground`. The service is an ASP.NET Core service over PostgreSQL (EF Core, READ COMMITTED,
no row locks on reads, no concurrency tokens on entities), optionally Redis, and
an SMTP server. Any number of requests run at once, on any number of instances;
shared state is the database, the Redis counters and the caches. Every `await`
between two database statements is a point where other requests run. The
Workbench runs in one thread per browser tab: every `await` in it is a point where
any event handler runs, and the closure that continues is the one of an older
render. Tabs of one origin share cookies, not session storage.

| Component | State | Operations | Talks to | Hard behaviour | What makes it correct |
|---|---|---|---|---|---|
| Refresh tokens (`Services/Tokens/RefreshTokenService.cs`) | `RefreshTokens` rows: hash, session, expiry, used, successor | `IssueAsync`, `RotateAsync`, `RevokeForSessionAsync` | Sessions, Users (stamp), execution strategy | overlapping rotations, stale reads, re-execution after a fault | replay detected until the cap, no token past the cap, one chain, nothing minted from an ended session |
| Sessions (`SessionService.cs`) | `Sessions` rows: stamp snapshot, login time, last activity, cap, revocation | create, revoke one, revoke all | Users, Refresh tokens | revocation against a rotation or a login in flight | a revocation is final and keeps its reason |
| Session queries (`SessionQueryService.cs`), logout, admin sessions | none of their own | revoke, revoke others, logout | Sessions, Refresh tokens | several statements, list before update | partial execution is safe |
| Users (`UserService.cs`), password reset | `Users` rows: hash, `SecurityStamp`, e-mail flags | change password, delete, unlink, reset | Sessions, one-time tokens, audit, e-mail | two statements outside a transaction | a stamp change ends the other sessions, never the current one |
| Cleanup (`ExpiredAuthArtifactCleanupService.cs`) | timer | delete batches, retire keys | all tables | races with every request, bounded batches | evidence of a replay is kept; every row leaves in the end |
| Login, lockout, MFA | failure counter, lock, TOTP step, recovery codes, tickets | login, complete MFA, enrol, confirm, disable, regenerate | Sessions, one-time tokens | lost updates, read-then-write of recovery codes | threshold locks, a code works once |
| One-time tokens | `VerificationTokens` rows | issue, consume (one conditional UPDATE) | mail, cleanup | consumption then a separate effect; cleanup deletes consumed rows | consumed at most once; consumed means done |
| Signing keys (`SigningKeyManager.cs`, `AccessTokenIssuer.cs`) | key ring, local and shared cache | sign, rotate, retire, resolve | cleanup, JWT bearer handler | rotation while signing, stale cache | one active key; a live token validates; a retired key stops |
| Passkeys (`PasskeyService.cs`, `browser-effects.ts`, `endpoint-guided-action.tsx`) | challenges, credentials with a signature counter | options, complete, remove; create, get, codecs in the browser | authenticator, sessions | aborts and retries between the statements of a completion, counter read then written, caller changed by another tab | one session per challenge; a passkey belongs to the user it was made for; the counter detects clones |
| Social sign-in, registration, accounts | provider accounts, users | authorize, callback, link, unlink, register | one-time tokens, providers | last-method checks, unique indexes | an account keeps a way in; one user per address |
| API keys, authorization, CSRF | `ApiKeys` rows; claims | create, revoke, authenticate, decide | Users | revocation while in use | a revoked or expired key authenticates nobody |
| Rate limiting | Redis window counters | acquire (atomic Lua) | Redis | window boundaries, counter without expiry | never above the limit per window; never locked for ever |
| E-mail, notifications, audit, metrics | bounded channel; append-only rows | enqueue, deliver, append | SMTP | full queue, failures swallowed | accepted mail is tried once, in order |
| Workbench: requests, vault, scenarios (`workbench-context.tsx`, `workbench-screen.tsx`, `domain.ts`, `identity-panel.tsx`) | mode, vault and its copy in session storage, one AbortController, spinner, response, toast | begin, abort, capture a reply, edit or clear the vault, select a mode, four scenarios, reload | the service, its cookies, the CSRF cookie | late and aborted replies, stale closures, another tab's cookies, storage denied | the newest request is shown; no session mixed; cleared secrets stay cleared; cookie tokens stay out of the page |
| Workbench: endpoint panel (`endpoint-detail.tsx` and its panels) | draft, tab, confirmation, memoised headers, live TOTP code | edit, confirm, send (also by keyboard), copy, format, compute codes | provider, clipboard | the keyboard bypasses `disabled`, stale memo, computation finishing late | one confirmation per request; the copy is the request; codes follow the secret |
| Workbench: catalogue (`catalog.ts`, `endpoint-catalog.tsx`, `routes/`) | URL filters, locale | filter, search, open, back | router | a scenario navigates with the filters of an older render | filters are the user's; the catalogue matches the service |
| Workbench: badges, toasts (`workbench-context.tsx`, `toast-region.tsx`) | origin, three probes; list of toasts | edit the origin, probe; push, dismiss | the probed services, timers | answers out of order, timers never cancelled | a badge tells its origin; errors stay |
| Static bundle (`scripts/sync-static.mjs`) | the built tree and the served tree | check, remove, make the directory, copy, read, write | the file system | interrupted between two statements | a finished run is reproducible |
| Load tests (`tests/load`) | a pool of sessions, one token per virtual user | log in, refresh, read the profile | the service | a lost answer to a refresh that took effect | a load run never trips reuse detection; silent users are visible |
| Pipeline, validation, configuration, health, deployment, crypto, UI component library | none relevant | | | | |

`PROJECT.json` lists every component with its status and, under `hazards`, each
place where the code is hard to test, with the properties that watch it or the
module planned for it.

## 2. Modules

| Module | Role |
|---|---|
| `RefreshRotation` | sessions, refresh tokens and the requests, faults and cleanup that touch them, for one user |
| `SessionLifecycle` | what the database promises about sessions and tokens, whatever runs: a session closes once and for good, a token is issued fresh in an open session, spent for one successor, and rows only leave |
| `MCRefreshRotation` | sets of request kinds and the symmetry for TLC |
| `RefreshRotationProofs` | TLAPS: `TypeOK` and the references of requests in flight |
| `RefreshRotationSafety` | TLAPS: the safety invariants |
| `RefreshRotationLifecycle` | TLAPS: ended sessions, the refinement of `SessionLifecycle`, one token when requests come one at a time |
| `SigningKeyRing` | the signing keys: issuing, bootstrap, rotation, retirement, resolution through two levels of cache |
| `MCSigningKeyRing` | kinds of request and symmetry for TLC |
| `SigningKeyRingProofs` | TLAPS: the inductive invariant of the ring and what follows from it |
| `WorkbenchCatalog` | the 45 entries of the Workbench as data, and the routes of the controllers |
| `WorkbenchDomain` | the pure functions of `domain.ts`: templates, drafts, paths, headers, reading and writing the vault's storage |
| `Workbench` | one tab of the Workbench composed with the service and its cookies |
| `MCWorkbench` | TLC instance of `Workbench` |
| `WorkbenchProofs` | TLAPS: types, the one controller, the newest response, the vault and its copy |
| `WorkbenchSecrets` | TLAPS: cleared secrets, pairs, tokens kept in cookies, the CSRF filter, `login_ready` |
| `WorkbenchPanel` | the page of one endpoint |
| `CatalogPage` | the list of operations with its headings and labels, its URL and the late navigation of a scenario |
| `ServiceBadges` | the API origin, its three probes, and the badges of the header and of the identity panel |
| `Toasts` | pushing, dismissing and timers |
| `StaticBundle` | `sync-static.mjs`, statement by statement, interrupted and run again |
| `LoadScenarios` | the virtual users of `mixed.js` and the sessions prepared for them |
| `BrowserCodecs` | Base32, base64url, TOTP arithmetic, WebAuthn options and credentials |
| `Passkeys` | both ceremonies, from the button through the authenticator to `PasskeyService` |
| `MCParts` | TLC instance of the seven parts that share no state; compares catalogue and codecs with their references |
| `PasskeysProofs` | TLAPS: the ceremonies |
| `PartsProofs` | TLAPS: `WorkbenchPanel`, `CatalogPage`, `ServiceBadges`, `Toasts`, `StaticBundle`, `LoadScenarios`, one section each |

`SigningKeyRing` shares no state with the others: an access token names a
session but its validation reads only the ring. `Workbench` has its own short
account of the service's sessions: what a browser can tell of them (which request
opened one, whether its refresh token is the newest, which cookies it set).

### How `RefreshRotation` follows the code

One element of `Calls` is one HTTP request; `call[c].pc` names the statement it
will execute next and the record holds what it has read (`at` the clock, `stamp`
the stamp it saw or drew, `listed` the sessions it listed, `dirty` the changes
its `DbContext` still tracks, `tries` the executions so far). Each action is the
code between two awaits on the database:

| Code | Actions |
|---|---|
| `SessionService.CreateAsync`, `RefreshTokenService.IssueAsync` | `OpenRead`, `OpenInsert`, `IssueToken` |
| `RefreshTokenService.RotateAsync` | `LookupReuse` or `LookupProceed` (all refusals are in `Verdict`), `CheckStamp`, `RotateCommit`, `ReuseCommit` |
| the execution strategy around it | `SaveFails`, `CommitFails`, `CommitAckLost` |
| `LogoutService`, `SessionQueryService.RevokeAsync` | `Logout`, `RevokeSession`, `RevokeOne`, `ExpireOne` |
| `RevokeAllOthersAsync`, `AdminSessionService`, `TotpService.DisableAsync` | `RevokeOthers`, `RevokeEvery`, `RevokeAll`, `ExpireListed` |
| `UserService.ChangePasswordAsync`, `PasswordResetService.ConfirmAsync` | `ChangePassword`, `Restamp`, `ResetPassword`, `SaveStamp`, `RevokeAll` |
| a request cancelled or failing between statements | `Abort` |
| `ExpiredAuthArtifactCleanupService` | `CleanupTokens`, `CleanupSessions`, `CleanupFails` |

A write follows EF Core: only modified columns, over whatever was committed
since the read, failing when the row is gone. `ended` is a history variable: the
sessions after whose end no new request may obtain a token (`Ended` says when).

Abstractions: a row is its identity, so a token's hash and value are not
modelled; timestamps that only record are Booleans; audit, metrics and access
tokens are left out because nothing here reads them. Reads are not failed
transiently (a read that is re-executed reads again), nor is the commit of the
reuse branch. Account deletion is not in this module.

### How `SigningKeyRing` follows the code

One element of `Tasks` is a request (`Issue`, `Jwks`) or an operator's command
(`Rotate`). Every use of `GetOrCreateActiveKeyAsync` is `Ensure`, `Create` and
`Reread`, ending at `pc = "got"` with the key found; `want` says what it was
wanted for, and what follows is `GotKid` (header built), `Sign`, `SignAgain` (the
kid no longer matches), `SignFails` (the private key cannot be unprotected; in
Development `RotateAsync` follows) or `Publish`. `RotateRead` and `RotateSave`
serve the command and the repair alike. `IndexAllows` is the partial unique index
and `Promoted` the single `SaveChanges`. `RetireRead`, `RetireSave` and
`RetireRemove` are `RetireElapsedKeysAsync`, one run per instance, and
`RetireFails` loses what was not yet done. `ResolveRead` and `ResolveStore` are
the two halves of a cache fill; `ResolveShared`, `LocalExpires` and
`SharedExpires` model HybridCache and Redis (external). A token is its kid, its
signer and its `exp`; tokens past `ValidateLifetime` are forgotten by `Tick`.

The code sets no limit on how long a rotation takes between reading the clock and
committing. The model names one, `RotationTime`, and lets time pass only within
it; a rotation that would exceed it fails (`Abort`), as a command timeout makes
it fail. One clock stands for the clocks of all instances. Emergency retirement
by SQL (the key-compromise runbook) is outside the code and not modelled: it is
meant to invalidate live tokens.

### How `Workbench` follows the code

`calls[c]` is one request with the closure that awaits it. `runRequest` is the
function up to its `await fetch` (the controller, the spinner, the headers of this
moment); `Serve` is the service, `Receive` the browser taking headers and
`Set-Cookie`, and `Deliver`, `Fails` and `Interrupted` are the three ways the
promise settles, each followed by what the caller does next (`ContinuePanel`,
`ContinueDemo`, `ContinueSessions`, `ContinueSocial`). `Finish` is the `finally`
block. A scenario of several requests is one flow per request, and all of them run
with the `runRequest` of the render the scenario began in: a later request reads the
mode of that render (`closure`) when it captures its reply, although the mode may
have changed since. (That render's vault too, but what these requests send takes
nothing from it.) Between these
steps the user opens a panel, sends, edits or clears the vault, selects a mode,
reloads (`Reload`), and another tab signs in (`OtherTabLogin`) or the access cookie
expires.

| Code | Definitions |
|---|---|
| `runRequest`, `captureResponseData`, `finally` | `runRequest`, `captureResponseData`, `Deliver`, `Fails`, `Interrupted`, `Finish` |
| `setMode`, `setVariable`, `clearVault`, the storage effects | the operators of the same names, `writeVaultValues`, `readMode` |
| scenarios of `workbench-screen.tsx` | `demoLogin`, `prepareSessions`, `useDemoApiKey`, `runSocial` |
| `AuthController`, `AuthTokenDelivery`, `CsrfProtectionFilter`, cookies | `ServeLogin` … `ServeOther`, `Delivered`, `CsrfRejected` |

A secret is a record of the variable, the session and the request that obtained
it; texts are left out. A CSRF token is valid for one session, and its key does
not rotate. Session storage is all there or denied.

### How the parts follow the code

`WorkbenchPanel` offers, in each state, exactly the controls the components render
and enable (`Controls`), and the keyboard reaches the handlers without them;
`Memoised` is the `useMemo` of the headers. The effect that computes the live code is
passive: after a capture its cleanup and restart come as a step of their own
(`EffectFollows`), and a computation for the former secret may finish in between;
clearing the vault is a click, whose effects run before any later callback.
`CatalogPage` keeps the `navigate` of
the render a scenario was started in. `ServiceBadges` keeps for each probe in
flight the origin it was sent to. `StaticBundle` has one action per awaited
statement, each of which may fail, be the last or be left half done (`Partly`); `cp`
merges into what the directory holds, so that the files of a former build stay
unless `rm` took them. `LoadScenarios` has one action
per iteration of a virtual user, whose request may succeed, be refused or be lost
after it took effect. In `Passkeys` the completion of a ceremony is four
statements (`ConsumeChallenge`, then `StorePasskey` or `ReadPasskey`, `SaveCount`,
`OpenSession`), any of which may be the last (`Stops`); the browser may give up on
it at any time (`CeremonyEnds`), and a client send the completion once more after
the first copy has ended at the service (`Retry`). Two copies of one completion that
overlap there are not modelled: the conditional `UPDATE` of PasskeyService.cs:299-307
lets one of them pass. Numbers stand for
challenges, users and keys, and travel through the code's own base64url.

## 3. Runs

| Run | Question |
|---|---|
| `rotation` | two overlapping requests on one session, under faults and abandonment: does anything outlive the cap, hide a replay, break a chain or mint from an ended session, and is `SessionLifecycle` implemented (refinement)? |
| `revocation` | two sessions, with revoke-all-others, password change and reset |
| `sequential` | one request at a time, with faults: at most one live token per session and, under fairness, does every session row leave? |
| `signing` | two tasks bootstrap, issue, rotate and, an unreadable key at hand, repair, against a retiring instance: does the retry ever mislabel a token, does one key stay active, do live tokens keep their key? |
| `key_cache` | two instances and the shared cache, with failing sweeps: is an elapsed key in the end resolved by none? |
| `workbench` | three overlapping requests of a tab (login scenario, refresh, logout) in two modes, storage allowed or denied: does a late reply, an abort or a reload mix sessions, show an old response, end the wrong spinner or lose the CSRF token? |
| `scenarios` | all four scenarios, MFA, API keys, hand edits and a second tab: does anything bring back a secret the user cleared? |
| `settles` | under fairness of the browser, does every request settle? |
| `parts` | the seven parts of `MCParts`, each explored by itself |
| `concurrent_refresh` | a comment on reuse detection that overlapping rotations break |
| `csrf_retry` | the README's automatic retry after a CSRF failure, which no code performs |
| `format_json` | the promise of an error toast for an invalid body, which formatting breaks |

The last three expect a violation and are explained under `findings`.

### Divergences met

Other statements of documents or comments that the code does not keep, each seen
in a model and reported here rather than by a run of its own:

* A rotation executed again after its commit was acknowledged by nobody finds the
  token spent and answers `ReuseDetected`, revoking the session
  (RefreshTokenService.cs:49).
* Reuse after a logout overwrites the reason and the time of the revocation, which
  Session.cs:70 says are those of the first (RefreshTokenService.cs:74).
* A password change abandoned between its two statements (UserService.cs:80-84)
  leaves the current session with a stamp the user never gets: it cannot refresh.
* The smallest grace period the validator admits (JwtOptionsValidator.cs:14) is
  less than `GraceCovers` needs when a rotation takes any time at all.
* A retired key stays in the local cache of the other instances, and a resolver
  that read it before the sweep stores it after (SigningKeyManager.cs:142-147).
* A token's `ExpiresAt` is its session's cap, so `TokenExpired`
  (RefreshTokenService.cs:94) always shadows `SessionExpired` (line 102), which the
  comment at 99-101 wants told apart.
* Two assertions of one passkey that overlap can move its stored counter back
  (PasskeyService.cs:161); `CounterBackOnlyByRace` says that nothing else can.
* A passkey is stored before its notification is sent: when that fails the client
  is told of an error although the passkey works.
* An empty path parameter turns `DELETE /sessions/{id}` into `DELETE /sessions`
  (domain.ts, path building).
* The scenario that prepares sessions announces `scenario_ready` when the login
  answered 202 with a ticket, because 202 is a success.
* A virtual user without a token sends nothing and so is missing from every
  threshold of the load tests; `SilentVuFailedACheck` says that it has at least
  failed a check before.
* A late probe of a former origin can overwrite the badge of the new one for good;
  `BadgesTellOrigin` holds only where the origin was not edited with probes in
  flight.
* A scenario that ends late navigates with the `search` of the render it began in and
  brings back filters the user has changed since; `FiltersChangeOneByOne` says that
  nothing else changes more than one.
* The headers of a panel are memoised without the CSRF cookie among their
  dependencies (endpoint-detail.tsx:68): in cookie mode the header shown and the
  command copied may be older than the cookie, which another tab or an expiry changes
  without a render. `CurlIsTheRequest` is about the other modes.

Bounds: one or two sessions, three or four tokens, one or two requests, a clock
of three or four instants with a cap of two or three and an inactivity window of
one or two, at most one retry and one stamp change. Two requests are enough for every
race here because each is between one reader that decides and one writer that
invalidates the decision; three tokens give a chain with a spent, a current and
a competing successor; the cap exceeds the window so that idle, expired and live
are all reached; `BatchSize = 1` makes each cleanup pass partial. `Room` keeps
enough unborn rows for every request that has begun, so no request is blocked by
the bound.

For the ring: three keys allow a bootstrap, a rotation and a competing one (two in
`key_cache`, where one is demoted and retired); the lifetime is one instant, the
grace period just above lifetime plus rotation time; the clock runs past one
retirement; two instances are enough for one to keep what the other removed.

For the Workbench: `MaxCalls = 3` in `workbench` gives a request that aborts one
and is overtaken by a third while the first is still at the service; two in
`scenarios`, where every scenario has at most two requests and the other tab is
the third actor, and in `settles`, since a request settles by its own steps and one
abort. `PanelEndpoints` are those that change the vault or the cookies. `parts`:
one destructive entry and one with a live code, two requests, an edited secret (a
second one, with a code of its own, is explored with no entry open, as the part
"codes", because that effect does not depend on the entry);
two origins and three checks, so that answers of two origins cross; four toasts,
two of them timed; two builds and two instants, so that files left over and a stale
stamp show; one
or two virtual users per scenario, a batch that does not divide the pool, three
rotations; two ceremonies beside an old key, so that two completions race for one
key or one user's caller changes under another's, with counting keys in cookie
mode and keys that do not count in the others.

Fairness of `SigningKeyRing`: weak for beginning a sweep (the timer) and strong
for its save, which may fail but not for ever; weak for storing a resolved key
and for the expiry of cache entries, which have a time to live. The removal after
the save needs none: it may always fail.

Fairness of `Workbench` (`Spec`): weak fairness of receiving or settling each
request, because a browser ends every fetch with a reply, an error or the abort;
nothing is assumed of the user, of the other tab or of the service's answer.

Fairness of `RefreshRotation` (`FairSpec`): weak fairness of the next statement
of each request (the thread pool and the database answer or fail) and of the
clock; strong fairness of the worker's two batches (its timer fires, and a pass
that fails is tried again at the next tick, not failing for ever). Nothing is
assumed about clients: no request has to begin.

## 4. Proofs

The constants are arbitrary sets and numbers satisfying `RotationAssumption` and
`ReasonAssumption`, `RingAssumption`, or the assumption named in the module of the
part; there is no bound on sessions, tokens, requests, retries, keys, tasks,
instances, toasts, builds or virtual users. `PasskeysAssumption` bounds ceremonies
and users by 255, because the model's challenges and handles are one byte.

* `TypeCorrect`: `TypeOK` is not inductive, because an action writes to the row
  its request names; `Typed` adds that a request in flight only names rows that
  were inserted and that its token is its session's (`CallsRefer`), and that
  token rows name inserted sessions (`TokensRefer`).
* `TokensBoundedByLogin`, `ReplayDetected`, `ChainsLinked`: over `Typed`, the
  invariant `Safe` says that caps never move and tokens have their session's row
  and cap (`Bounded`); that requests about to expire tokens only do so for
  sessions no longer live (`ExpiresOnlyEnded`); hence that all tokens of a live
  session expire exactly at its cap, so cleanup leaves the spent ones
  (`Detected`). `ExpiresOnlyEnded` is the key: without it a revocation could
  expire a spent token of a live session and the cleanup erase the evidence.
* `OneActiveKey`, `HeaderNamesSigner`, `KeysForward`, `LiveTokensVerify`, from
  `RingInv` under `RingAssumption`. One active key is inductive with the fact that
  a rotation's current key is a row (`TasksSound`): if it is no longer active
  another key is, and the index refuses the save. `LiveTokensVerify` also needs
  `GraceCovers` (grace > lifetime + skew + rotation time) and timing: what a task
  is about to sign was issued at most a rotation's length after the key's
  `RetiringAt` (`TaskSound`), so a token outlives that moment by its lifetime and
  that length at most (`TokensSound`), and a key is retired a whole grace period
  after it (`GraceKept`).
* `GoneForGood`: what `ElapsedKeysRejected` calls "for good". A retired key that is
  in no cache, and that no resolution in flight has read, comes back in no step:
  rows only move forward (`KeysForward`), the factory reads publishable rows only,
  and the caches fill from what was read or from each other. That such a state is
  reached is liveness and stays with TLC.
* `NoTokenAfterEnd`, from `Ends`. That a session has ended is not a fact about its
  row alone: a rotation that began before may still write its activity, and a
  password change may still write the stamp it drew. `EndedForGood` therefore gives
  one of four reasons that no step takes back (revoked, past its cap, idle with
  nobody about to touch it, or carrying a stamp that is `Dead`: not the user's and
  not drawn by a request in flight), `StampsFresh` says that a stamp is drawn once,
  and `LateStops` that a request that began after the end is still before the
  comparison of the stamps, which it will fail.
* `ImplementsLifecycle`: `KeepsLifecycle` is `SessionLifecycle` instantiated with
  `standing`, `status` and `owner`, computed from the rows. The simulation has one
  lemma per action; the step that is not obvious is the first token of a session,
  which must find it without any (`FirstTokens`).
* `OneTokenWhenSequential` assumes that there is one request at a time
  (`\A c, d \in Calls : c = d`), the configuration of the run `sequential`; the run
  `concurrent_refresh` shows that the statement is false without. It needs
  that what the request presented is unspent until its commit (`PresentedUnspent`),
  which a lost acknowledgement and the re-execution after it must not break.
* `OneSessionAlways`, `KeepsItsUserAlways`, from `PasskeysInv`: the options a prompt
  shows are those its challenge was stored with (`Prompted`), a completion carries
  the challenge of its own ceremony, an attestation its own key (`Carries`), so a
  completion past its challenge has spent it and no other can (`SpentOnce`), and
  the caller it was spent for is the user of the key (`KeyOfUser`). That a number is
  read back from base64url is the assumption `OneByteRoundTrip`, a statement
  without variables or constants over the 256 bytes that TLC evaluates completely
  in the run `parts`. `CounterAlwaysBackByRace`, an action property, from the same
  invariant: only `SaveCount` writes a stored counter, and it compares with the one
  read, so the counter falls only over another completion's save.
* `NoReplays`, `SilentFailed`, from `LoadInv`: what a virtual user holds is the newest
  token of its session, nothing yet, or the mark of a failure (`HeldNewest`); the
  pool is complete when the run begins (`PoolPrepared`), so no two users share a
  session.
* `ErrorsStayAlways`: an action property; it needs `ToastInv`, that ids are given
  once and that timers run only for neutral toasts.
* `BadgesTellAlways`, from `BadgesInv`: as long as no edit overtook a probe, all
  probes in flight are of the origin in the field, and a badge without one shows
  what that origin serves. `DocumentIsCounted`, about the catalogue's data alone, is
  evaluated by TLC.
* `BundleAlwaysReproducible`: an action property too, with a run of the script being past its
  first statement only when there is a build, and copying it into a directory that
  holds nothing, which is why no file of a former build is left over.
* `ConfirmedAlwaysOnceEach`, `ResponseAlwaysTakesTheTab`, `CurlAlwaysTheRequest`,
  `LiveCodeAlwaysFollows`, from `PanelInv`: a question stands only while it has not
  been answered (`Asked`); the responses seen or shown are older than the request on
  its way, so a new one differs from the acknowledged one (`Seen`); outside cookie
  mode the memoised headers are those of the vault (`Memo`); a computation that is
  alive is one of the secret whose effect runs, and an effect needs a secret in the
  vault (`Live`).
* `FiltersAlwaysOneByOne`, from `FiltersTyped`, that whatever URL is opened the
  filters in use are filters there are.
* `SpinnerAlways`, `PageTyped`, `LatestAlwaysWins`: `Steady` is the shape of the whole
  state with `SpinnerTracksRequest` and `RoomLeft`, the room a flow reserved for its
  second request, without which `latest` would leave the bound. `EveryStep` reduces
  the actions to what they do to the requests, the mode, the vault and the panel
  (`RunStep`, `ModeStep`, `VaultStep`, `PanelStep`); the proofs that follow split on
  these. The catalogue enters through `EntryPlain`, proved entry by entry.
* `VaultMirrorsAlways` and `ReadyAlwaysCarries`: over `Steady`, with storage that is
  denied holding nothing (`Mirrored`).
* `ClearedAlways`, `OnePairAlways`, from `Kept`. A cleared secret stays cleared because
  everything the vault holds was captured from a request that has settled (`Over`),
  and what is captured next belongs to the request being delivered, which has not.
  The replies of the service are reduced to five forms (`Answers`), each of which
  names only secrets minted for its own request, both tokens or neither.
* `CookieTokensAlwaysOut`, from `Apart`: wherever a token may travel (vault, draft,
  request, reply) it is of a session that is not kept in cookies and whose own
  login is answered, so that no later answer moves the session there (`May`); the
  refresh cookie is of a session that is (`InJar`).
* `MutationsAlwaysPass`, from `Guarded`: until another tab signs in the access and
  the CSRF cookie are of one session (`Bound`), every request that the service has
  not answered passes the filter, and the reply on its way leaves the cookies bound
  when it is stored, although the access cookie may expire before (`Stores`).
* `LoginReadyAlwaysTruthful`, an action property, from `Demo`: the awaited demo login
  asked for cookies exactly in cookie mode, its answer carries what it asked for,
  and once its cookies are stored only another tab's replace the refresh cookie.

Every property of a passing run is stated by a theorem, except three liveness
properties, which are model-checked only: `SessionsPurged`, `ElapsedKeysRejected` and
`EveryCallSettles`. Liveness under fairness is out of the prover's reach, like
ENABLED, recursive operators and induction over data. What the catalogue and the
codecs compute (`CatalogMatchesService`, `HeadingCounts`, `DocumentIsCounted`, the
codecs against their references) is evaluated by TLC as assumptions of `MCParts`,
completely where the data is fixed. The three violations are TLC's counterexamples.

## 5. Plan

In this order; each module is followed by its runs, mutants and, where useful,
proofs.

Each further module gets one passing run for its safety properties, one more
where liveness needs it, and a violation run only for a divergence that loses a
guarantee; related modules share a run where they compose.

1. `RefreshRotation`, `SessionLifecycle` and proofs — done.
2. `SigningKeyRing` and proofs — done.
3. `Workbench` with its catalogue, its domain functions and the service — done.
4. The parts: `WorkbenchPanel`, `CatalogPage`, `ServiceBadges`, `Toasts`,
   `StaticBundle`, `LoadScenarios`, `Passkeys` with `BrowserCodecs` — done, with
   proofs.
5. `OneTimeTokens`: issue, conditional consumption, separate effect, cleanup.
   Consumed once; nothing lost between consumption and effect.
6. `Lockout`: counter and lock under concurrent attempts.
7. Composition of login, password reset and rotation (account deletion too): a
   session never survives the reset that should have ended it.
8. `Mfa`: enrolment, time-step claim, recovery codes.
9. `RateWindows`: the two Lua algorithms against a reference count.
10. `ApiKeys`, authorization.
11. `Accounts`: registration, social linking, unlink, the last way in.
12. `EmailQueue`.

Theorems to add with them: consumption at most once in `OneTimeTokens`, a code
accepted at most once in `Mfa`.

## 6. Not modelled

The contents of cryptographic values, HTTP and JSON formatting, headers,
validation of one request body, mapping, logging, metrics, deployment and
seeding: they keep no state that another component's decision depends on, or are
pure functions of data a model checker cannot enumerate.
`SessionService.TouchAsync` and `MarkReauthenticatedAsync` have no caller.

Of the Workbench: the component library under `components/ui` (sidebar, chart,
combobox and others), most of it without a caller, and its hooks, which are
presentation; the document shell, build configuration and generated route tree;
texts in three languages; the copying of a vault value and the static account
cards of the identity panel. The authenticator, the providers' HTTP services, k6's
scheduling and the browser's own fetch and cookie store are external and modelled
from how the code uses them.

The components listed as planned in section 5 are service code whose hazards stand
in `PROJECT.json` with the module that will cover them.
