# Formal model of orbit-api-gateway

TLA+ modules, TLC runs and TLAPS proofs for the public REST edge of Orbit. Paths
below are relative to the repository root (`src/`).

## 1. Inventory

The gateway is one Go process. Fiber hands every request to a `net/http` mux, so
each request runs in its own goroutine. The process keeps a few maps in memory and
nothing on disk; users, organizations and tokens live in orbit-auth.

| Part | State | Operations | Interacts with | What is hard |
| --- | --- | --- | --- | --- |
| Ownership plane (`application/ownership.go`, `memory.Challenges`) | map address → (code, deadline) | `Challenge`, `VerifyChallenge` | identifier budget, clock, code generator | races on one challenge; clock and code read outside the lock; the deadline instant |
| Onboarding (`application/onboarding.go`, `memory.Claims`) | map key → result | `Claim` | the `Idempotency-Key` header | Get and Put are two critical sections; keys are built from user text |
| REST edge (`httpapi/`) | the response under construction | 28 limited routes: wrap, validate, call, render | every service | two limit checks per request, other requests in between; a check can fail half way |
| Rate limiting (`domain/ratelimit.go`, `application/ratelimit.go`, adapter) | buckets, in the library | `Allow` under class, IP, organization and identifier keys | Redis or memory limiter | shared buckets, outages, zero policies |
| Failure mapping (`auth/client.go`, `httpapi/response.go`) | none | gRPC code → kind → HTTP status | orbit-auth | upstream text must not leak |
| orbit-auth client (`auth/`) | the connection | 21 gRPC calls, one HTTP call | orbit-auth | no deadline on gRPC; 5 s on flags |
| Token and staff middleware, audit log (`httpapi/middleware.go`, `memory/audit.go`) | audit entries | `Dual`, `JWT`, `RequireStaff`, `AuditHook`, break-glass | handlers a deployment mounts behind them; `cmd/gateway` mounts none | order of middlewares; tokens that expire between them; two secrets |
| Lifecycle (`cmd/gateway/main.go`) | two listeners, the connection | start, listen, drain, close | everything | shutdown order and deadline; a listener that fails or comes up late |
| Installer (`assets/install.sh`) | the workstation's files | check, confirm, download, copy, clean profiles, hand over | GitHub | failure of one step; a kill in the middle; repeated runs |
| Static documents, JWK set | bytes | serve | – | – |

Correctness, per part:

- ownership: a challenge yields at most one proof, only in time; a newer challenge
  replaces the older; a right code in time is never lost;
- onboarding: an answer is never mixed from two claims; a retry after an answer is a
  replay; once no claim that missed is on its way to the cache, its entry stays;
- edge and limits: fail closed; no bucket overdrawn; one person, one identifier
  budget; refusals have no effect; headers tell the truth; every request ends or
  waits for orbit-auth;
- failure mapping: upstream text only with a client error;
- staff access: only an entitled caller reaches a handler, with one identity in
  every nesting; the audit log is complete, truthful and ahead of the answer;
- lifecycle: an edge that listens is fully wired; a failed start exposes nothing;
  a shutdown takes nothing from requests before its deadline, and always ends;
- installer: success means complete, whatever earlier runs left; nothing changes
  before the download is whole.

`PROJECT.json` lists every hazard with its line and the properties that cover it.

## 2. Modules

| Module | Models | Uses |
| --- | --- | --- |
| `OneTimeCode` | abstract: one live, once-redeemable ticket per address | – |
| `Ownership` | `Challenge`, `VerifyChallenge`, `memory.Challenges` | `OneTimeCode` (INSTANCE) |
| `OwnershipProofs` | theorems about `Ownership` | `Ownership` |
| `Failures` | error mappings as operators | – |
| `Routes` | the route table of `httpapi.New` and the policies, as data | – |
| `Edge` | how a request goes through the stages of its route | `Failures` |
| `EdgeProofs` | theorems about `Edge`, and one about it with the table of `Routes` | `Edge`, `Routes` |
| `Onboarding` | `Claim`, `memory.Claims` | – |
| `OnboardingProofs` | theorems about `Onboarding` | `Onboarding` |
| `Gateway` | ownership plane and OTP requests over the identifier budget they share, across restarts | `Ownership` (EXTENDS) |
| `GatewayProofs` | theorems about `Gateway` | `Gateway`, `OwnershipProofs` |
| `WallClock` | the ownership plane when the system clock is set | `Ownership` (EXTENDS) |
| `WallClockProofs` | theorems about `WallClock` | `WallClock`, `OwnershipProofs` |
| `StaffAccess` | `TokenAuth`, `AuditHook`, break-glass, `memory.AuditStore` | – |
| `StaffAccessProofs` | theorems about `StaffAccess` | `StaffAccess` |
| `Lifecycle` | `cmd/gateway/main.go` | – |
| `LifecycleProofs` | theorems about `Lifecycle` | `Lifecycle` |
| `Installer` | `assets/install.sh` | – |
| `InstallerProofs` | theorems about `Installer` | `Installer` |
| `MC*` | small instances for TLC | the above |

### Ownership

A call is cut wherever another goroutine can run: `StartChallenge` (normalise,
validate), `CheckIdentifierLimit`, `Mint` (code and deadline, no lock held), `Save`
(write lock); `StartVerify` (normalise, reject blanks, read the clock), `Confirm`
(load, decide, remove under one lock). `Tick` is the clock; `Restart` empties the
store and drops the requests in flight. A challenge carries a ghost identity, and
`minted`, `saved` and `proofs` are ghosts: no action's guard reads them, except the
bound on `minted`.

The limit check has all three outcomes in `Ownership`; which one happens is the
business of `Gateway` and `Edge`. Code generation is a free choice, so two challenges
with the same code are covered. The clock only ticks here; `WallClock` sets it.
`KeyFingerprint` is left out: it is a hash of values the proof record holds.

### Edge, Routes, Failures

`Routes` writes each handler as the sequence of its stages in source order: limit
checks (`class`, `ip`, `org`, `identifier`), validations (`bearer`, `json`, `email`),
and the one service call; `RouteTable` joins the routes without an account
(`PlainRoutes`) and those that carry a bearer token (`AccountRoutes`). `Edge` executes
any such table, which is why its theorems hold for every table and not only for this
one. The static documents, health and the JWK set are routes of one stage without a
budget: found, or not. One limit check, one validation, the upstream call and its
reply are steps of their own. `req`, `at`, `receipt` and `out` are the locals of a
goroutine: the request, the stage, the identifier budget of
`OTPReceipt`/`ChallengeReceipt`, the response with the headers set so far. `arrived`,
`id`, `admitted` and `served` are ghosts.

A request is a record of what its stages look at: client address (possibly empty,
as `clientIP` returns for an empty first `X-Forwarded-For` entry), organization id,
identifier and email spellings, whether there is a bearer token and whether the body
decodes. `hasLimiter` is fixed at start: `cmd/gateway` always wires a limiter, but
`httpapi.New` supports a service without one, and so do its tests.

External: orbit-rate-limiting (`HasToken`, `Minus1`, `Refill`: a bucket holds up to
its limit, regains tokens one by one, never goes below zero; the zero policy always
admits; an error may or may not have taken a token) and orbit-auth (any result or
code, or silence). Bucket names are the class names and the route templates without
`/api/v1`. A local service's call is one step in `Edge`; its inside is `Ownership`
and `Onboarding`.

### Onboarding

`Start` (validate), `Get` (hit: a marked copy), `Put` (store, unlock), `Respond`
(return and answer), `Restart`; other goroutines run in between, so a replay can be
answered before the fresh result it repeats, or without it when a crash comes in
between. `started` and `answers` are ghosts, and so is `known` in a job: whether the
key had been answered, and whether it was settled (cached, with no earlier miss still
on its way to `Put`), when the claim began. A string is the sequence of its
`:`-separated segments, so `token + ":" + uid` is concatenation and can coincide.
Email and display name default one by one (`ClaimDefaults`). The SHA-256 digest is
taken as injective. Status, groups and workspace are constants in the code and left
out.

### Gateway and WallClock: what `Ownership` is composed with

`Gateway` runs the actions of `Ownership` next to those of `RequestOTP`
(`RequestOTP`, `LimitOTP`, `DispatchOTP`) on one bucket per normalised identifier.
`LimitChallenge` is `CheckIdentifierLimit` with the outcome the bucket dictates:
admitted with a token, limited without, unavailable in an outage, which may or may
not have taken a token. `GRestart` empties the store and drops the requests in
flight; a Redis limiter keeps its buckets, the in-memory limiter of dev starts with
full ones. `dispatched`, `refills`, `asked` and `restarts` are ghosts. Only the
steps that concern a code are here; the rest of a request is `Edge`.

`WallClock` adds `SetClock` and the time that really passes. `Challenge` and
`VerifyChallenge` call `UTC()`, which drops Go's monotonic reading, so the deadline
is a wall-clock reading and moves against real time when the clock is set. Its ghosts
are moments (the real time, and how far the clock had been set back by then) of each
minting and of each reading of the clock, so that how late a proof is can be compared
with what was set back in between.

### StaffAccess

No binary in this repository mounts these middlewares, so a request carries its
chain (the layers around a handler, outermost first) and the properties quantify
over the chains of the instance. A layer is one step: `Dual`, `JWT`,
`RequireStaff` answer or hand a context of their own to the next layer;
`ServeAPIToken` is the second half of `Dual`, with either outcome of
`ValidateAPIToken` for an `oat_` token, an identity or an error; `AuditHook` goes
straight through and `RecordHook` is its second half, after the answer, with the
context it was given on the way in. `HandleStaffBreakGlass` records and `Grant`
answers. `Expire` lets a token run out at any point, also between two layers that
parse it. `Init` chooses the two secrets as `NewTokenAuth` and `WithStaffSecret`
leave them, and whether there is an audit store. `Restart` loses the log.
`sent`, `handled` and `vouched` are ghosts; `vouched` holds the requests that came with
a token genuine on arrival (signed with a configured secret and not expired) or that
orbit-auth returned an identity for.

A credential is a record of the claims the code reads; HMAC signatures are taken as
sound (`signedBy`). Time stamps, entry ids and the request path in an entry are left
out. `ListByOrg` is the set of positions in the log it selects, not a copy of the
entries.

### Lifecycle

`main` is one process that goes through the start-up checks in source order
(`Configure`, `CheckSecret`, `NewClient`, `WireLimiter`, `New`, `PublishKeys`,
`StartServers`), waits for a signal and runs the hooks of `OnShutdown` in order
under one deadline. The environment (`Env`) says how each check turns out. The two
listeners are processes of their own: they may bind, fail, or come up only when the
shutdown is already under way. A request of the edge accepts, calls orbit-auth on
the shared connection and ends. `late` is a ghost.

External: `observability.WaitForSignal`, `fiber` (`Shutdown` stops accepting, waits
for the requests in flight or the deadline, and returns at once when the server is
not listening) and grpc-go (`Close` fails the calls that are out).

### Installer

One action per command of the script that can end the run or change the machine.
Under `set -e` a failing command ends the script through its EXIT trap, except where
`|| true` masks it; `exec` and `Kill` end it without the trap. Writing over a file is
two steps, truncating and writing, so a kill in between leaves a partial binary or
profile. A profile is what the script can tell apart: absent, clean, with legacy
alias lines, with such lines but not writable, or with the user's own lines lost.

## 3. Runs

| Run | Bounds | Shows |
| --- | --- | --- |
| `ownership` | 2 goroutines, 1 address in 2 spellings, 2 codes, TTL 1, clock 0–2, 2 challenges, weak fairness | `TypeOK`, `OneProofPerChallenge`, `ProofWithinTTL`, refinement `ImplementsOneTimeCode`, liveness `RightCodeSettles` |
| `wall_clock` | the same with 1 spelling and 1 code; clock set anywhere in 0–2, back by 1 in all, 3 ticks of real time | `LateByNoMoreThanSetBack`, `ImplementsOneTimeCode` |
| `gateway` | 2 challenge and 1 OTP goroutine, 1 address in 2 spellings and a blank, limit 1, 1 refill, 1 restart, both limiters | `GTypeOK`, `CodesWithinBudget` |
| `edge_all` | all 33 routes, 1 goroutine, 2 requests, limits 1, weak fairness | `TypeOK`, `ServedOnlyIfAdmitted`, `RefusalIsFinal`, `SuccessShowsLastBudget`, `DetailOnlyOnClientErrors`, `MalformedSpendsNoOthersBudget`, liveness `AnsweredOrUpstream` |
| `edge_shared` | 4 routes, 2 goroutines, 3 requests, identifier limit 1, others 2, 1 refill | `IdentifierBudget`, `BudgetRespected` |
| `edge_outage` | the identifier routes | **violation** of `UnavailableHasNoHeaders` |
| `onboarding` | 2 goroutines, 6 inputs, 4 claims | `TypeOK`, `AnswersAreWhole`, `RetryIsReplay`, `SettledKeyStays` |
| `onboarding_race` | the same, 3 claims | **violation** of `ReplayReturnsFirst` |
| `onboarding_keys` | 2 inputs | **violation** of `NoForeignReplay` |
| `staff_access` | 23 requests (6 nestings with the credentials they tell apart), 4 configurations, 2 goroutines, 2 requests, weak fairness | `TypeOK`, `OnlyEntitledHandled`, `SameIdentityInEveryNesting`, `KnownCallerIsForbidden`, `AuditComplete`, `AuditTruthful`, `BreakGlassRecorded`, liveness `HandledIsRecorded` |
| `lifecycle` | every environment, 2 request goroutines, weak fairness | `TypeOK`, `ServesOnlyConfigured`, `FailedStartIsSilent`, `OrderlyShutdown`, liveness `SignalEndsProcess` |
| `installer` | 2 profiles, 2 releases, 2 runs | `TypeOK`, `SuccessIsComplete`, `NothingBeforeDownload` |

Why the bounds are enough: two goroutines are what a race on one entry takes, and two
challenges are what a replacement takes; TTL 1 on a clock of three ticks has an
instant before, at and after the deadline. In `wall_clock` real time runs one tick
longer than the TTL and the set-back together, so a proof that is too late even for a
clock that was set back would be reached. In `onboarding` a third claim retries what
two racing ones left, and a fourth comes after all of them. In `edge_all` the second request meets
every budget the first one emptied, so each route is admitted, refused and failed;
interleaving is left to `edge_shared`, where three requests on an identifier limit of
1 and other limits of 2, with one refill, overdraw a bucket if anything does. Limits
are scaled down; zero policies stay zero, and the identifier limit stays the smallest,
as in the code. In `gateway`, three goroutines on limit 1 compete for one token, and
one restart and one refill are each enough to hand out a second one. In `staff_access`
two requests are what it takes to compare one caller's identity in two nestings, to
mix up two entries of the log, and to meet a token that expired under another request.
`lifecycle` takes every combination of start-up outcomes; two requests give one that
is answered and one that is cut. Two runs of the installer are a failed or killed run
and its repetition; two releases tell whether the second run's binary is its own. The
proofs then lift every invariant and action property of the passing runs to every
bound. `CHECK_DEADLOCK FALSE` appears in the `Edge` and `Installer` runs only: their
bounded supply of requests and of runs is used up.

Fairness. `RightCodeSettles` assumes that a runnable goroutine runs: the critical
sections are straight-line code, so the mutex is always released. `AnsweredOrUpstream`
assumes the same, that the limiter answers or errs, and that the flags client's
timer fires; it assumes nothing of orbit-auth, and says so: a request may wait for
gRPC for ever, because the calls carry no deadline. `HandledIsRecorded` assumes that
goroutines run; orbit-auth need not answer. `SignalEndsProcess` assumes that `main`
runs, that a listener comes up or fails, and that the deadline's timer fires; it
assumes nothing of requests, clients or orbit-auth.

### What the violations show

- `edge_outage`: the limiter answers the class check and fails at the identifier
  check; the 503 still carries the class budget's headers. The contract test wants
  none, but its limiter fails from the start.
- `onboarding_race`: two claims with one `Idempotency-Key` both miss the cache; the
  replay returns the later result, not the first. `ReplayDiffersOnlyInRace` proves
  that one goroutine alone never meets this: it takes two claims that overlap.
- `onboarding_keys`: token `x:y` with UID `z` and token `x` with UID `y:z` derive
  one key. `ForeignReplayNeedsCollision` proves that only coinciding keys mix up
  callers: where a key equal to a claim's `token:uid` means the same token and UID, the
  claim is replayed only to its owner. That is a condition on header keys as well: an
  `Idempotency-Key` that spells another caller's `token:uid` also gives that caller a
  foreign replay.

Other disagreements between code and text met while modelling, which have no run:

- an expired challenge is refused but stays in memory until its address gets a new
  one; `openapi/openapi.yaml:183` says the code is stored "for 10 minutes";
- a clock that is set back lengthens a challenge's life beyond `ChallengeTTL`
  (`domain/ownership.go:10`); `wall_clock` bounds by how much;
- `middleware.go:23` promises 500 for every request when the secret is empty; with a
  staff secret set, requests are judged under that one (`middleware.go:66`);
- a staff token with neither `sub` nor `staff_subject` passes `RequireStaff`, and
  `AuditHook` records nothing without an actor (`middleware.go:197`), although
  "Every staff read and write lands in the same audit log"
  (`staff_audit_test.go:200`); `AuditComplete` is therefore about named callers;
- an edge that cannot bind its port is only logged (`main.go:106`), and the health
  port goes on answering;
- with arguments the installer ends in `exec`, and the EXIT trap that removes its
  temporary directory never runs (`install.sh:217`); `|| true` after `grep -v` also
  masks a failed write, and the profile is overwritten with the incomplete copy
  (`install.sh:201`).

Two exceptions are part of passing properties and worth knowing. `OrderlyShutdown`
excepts an edge whose listener comes up after its own `Shutdown` has returned: a
signal right after start-up reaches that state, and such an edge is not drained.
`AuditComplete` counts only the hooks inside an authenticating layer: a hook mounted
outside sees no identity and records nothing.

Every property of a passing run has a mutant: an operator (`Confirm_Keeps`,
`LimiterError_FailsOpen`, ...) defined before the definition it would replace and
used nowhere else; with it TLC finds the property violated.

## 4. Proofs

Every invariant and every action property of the passing runs is the conclusion of a
theorem, for all values of the constants that satisfy the named assumptions. Every
inductive invariant below also holds in every state TLC reaches on the run's instance.

### OwnershipProofs

For any sets of goroutines, names and codes and any bounds, from the assumptions named
in `Ownership`: `TypeCorrect`, `AtMostOneProof`, `ProofsInTime`, `Refinement`.

The inductive invariant comes in two parts, because half of it does not depend on how
the clock moves:

- `CInv` adds to `TypeOK` and `OneProofPerChallenge` the conjunct `Custody`: the
  identity of a challenge is in one place at a time, in the hands of one goroutine,
  stored under one name, or consumed. `OneProofPerChallenge` alone is not inductive:
  nothing in it keeps a stored challenge from having been consumed before.
- `IInv` adds `ClockRead` (an instant a goroutine holds is not in the future) and
  `ProofWithinTTL`, which need a clock that only ticks.

`Refinement` shows that the initial states map to initial states and each step to a
step of `OneTimeCode` or a stutter; `Custody` gives the freshness `Issue` asks for and
the unspentness `Redeem` asks for.

### WallClockProofs

- `OneProofWhateverTheClock`, `WRefinement`: setting the clock, ahead or back and at
  any moment, costs nothing of what `CInv` and `OneTimeCode` promise.
- `LateBounded`: a proof is granted late by no more than the clock was set back between
  its challenge's minting and the reading it was accepted on. The quantity
  `now - elapsed + back` never decreases: time moves both clocks, setting ahead moves only
  `now`, setting back moves `now` and `back` by the same amount (`ClockForward`).
  `Minted` and `Stored` carry the comparison (`Behind`) for each live challenge from
  its minting to the present (`NotLate`) and to the readings goroutines hold
  (`ReadNotLate`, which excepts a reading from before the minting).

### GatewayProofs

For any sets of goroutines (finite: `GoroutinesAssumption`), identifiers and codes, any
positive limit and any bounds:

- `OneTimeUnderBudget`: what is proved of `Ownership` holds of the composition. The
  lemma `Composition` is how: by construction each step of `Gateway` is a step of
  `Ownership` or leaves its state alone.
- `GTypeCorrect`, `OneBudgetAcrossRestarts`. `CodesWithinBudget` is not inductive: an
  admitted request makes its code only later. `Accounted` adds the tokens left and
  the goroutines that hold a permit (`Permits`, `OTPPermits`, counted with
  `Cardinality`) to the codes made; together they never exceed what the buckets of
  the identifier were given. A step moves one unit between these terms or drops it.
  A restart of the in-memory limiter grants a full bucket and drops all permits.

### EdgeProofs

For every route table, set of requests and limits that satisfy the assumptions named
in `Edge`. Two of them say what a response can be read from: `ChecksAssumption` (no
route asks a bucket twice, and the identifier's bucket is asked last) and
`NoHeadersAssumption` (absent headers are told apart from a budget); TLC evaluates
both on the table of `Routes`.

- `TypeCorrect`, `FailClosed`, `NoBucketOverdrawn`, `OneIdentifierBudget`. The
  inductive invariant `IInv` adds: `WaitsUpstream` (a goroutine that waits is at its
  last stage), `Passed` (each bucket of the stages behind a goroutine has admitted it)
  and `Conservation` (tokens left plus serials admitted never exceed limit plus
  refills). `FailClosed` follows from `Passed` at the last stage; `NoBucketOverdrawn`
  from `Conservation` with `FailClosed`; `OneIdentifierBudget` from it, since all
  spellings of a name lead to one key.
- `RefusalsFinal`, `SuccessTellsBudget`, `NoInternalDetail`. What a response says is
  fixed only when it is sent, so `AInv` adds what is known of a request on its way:
  `Serials` (serial numbers tell requests apart, and none is served or admitted under
  a number still to be given out), `WithinLimit`, and `Local` (the headers and the
  receipt so far are those of the last bucket behind the request, no bucket ahead has
  admitted it, and nothing is served of it before its call).
- `OthersBudgetsSpared`: a malformed request spends no budget of a third party (an
  identifier's, an organization's named in a body), on every table that puts its
  validations before those checks (`ValidatesFirst`). `RoutesValidate` shows that of
  the table of `httpapi.New`, so `GatewaySparesOthers` has no such hypothesis: it is
  about the gateway's own routes.

### OnboardingProofs

For any claims, any trimming of tokens and UIDs and any number of goroutines; the one
assumption besides the bound is `MissAssumption` (the cache's second return value tells
a miss from a result).

- `TypeCorrect`, `WholeAnswers`, `RetriesReplay`, `SettledKeys`. The properties speak of
  answers, but what a replay says is decided at `Get` and what a retry finds at `Put`,
  both earlier. So the inductive invariant says of a result, given or about to be, how
  it relates to the claims and to the cache (`ReturnOK`), of a goroutine before that
  what it relies on (`JobOK`: a retry finds its key cached and is never on its way to
  `Put`), and of an entry that it is a whole result of a claim on its key
  (`CachedFromClaim`). Every step but a restart moves `Forward`: it forgets no claim,
  empties no entry, and leaves a settled key settled and its entry alone.
- `ForeignReplayNeedsCollision` and `ReplayDiffersOnlyInRace` delimit two findings:
  each names a condition (no key coincides with another caller's `token:uid`; a single
  goroutine) under which the property that the corresponding run violates does hold.
  The second needs more state: between a goroutine's miss and its write nothing else
  writes (`MissesLast`), so results follow the cache (`ResultsFromCache`).

### StaffAccessProofs

For every nesting of the layers (`ChainsAssumption`: layers, then one handler), every
credential (`CredentialsAssumption`), configuration and number of requests:

- `TypeCorrect`, `EntitledOnly`, `OneIdentity`, `ForbiddenNotUnauthorized`,
  `TruthfulAudit`, `RecordedBreakGlass`. The argument is that a context carries no
  history: however many layers looked at the token, and although it may expire in
  between, a context is the background one or the one identity the credential stands
  for (`Vetted`; `HooksVetted` for the contexts that audit hooks hold on to, `Placed`
  for where a request is in its chain). `OwnRequests` and `HandledOK` keep that for
  requests that are over, `LogOK` and `LogTruthful` for the log.
- For `TypeCorrect`, `EntitledOnly` and `TruthfulAudit` it takes a second invariant,
  `VInv` (`VouchedInvariance`), about who vouches for a caller: no authenticating layer
  lets a request through, and none is handled behind one or recorded, that nobody
  vouched for (`JobsVouched`, `HandledVouched`, `LogVouched`). A context does not say
  that by itself, since an `oat_` token is worth nothing without orbit-auth's answer;
  `GenuineVouched` covers a token that is still genuine at a later layer.
- `CompleteAudit`: an answered request has left an entry for each hook inside an
  authenticating layer. It is a balance (`Balanced`): entries written plus hooks still
  to run equal the hooks passed behind an authenticating layer; `Settled` keeps
  the balance of a request that is over.

### LifecycleProofs

For any set of request goroutines and any set of environments: `TypeCorrect`,
`NeverServesUnwired`, `FailsSilently`, `DrainsBeforeClosing`. The inductive invariant
adds: `Wired` (what the checks behind `main` leave behind), `StartedLast` (the servers
are off until the last step of the start-up), `Quiet` (nothing is in flight before the
edge listens) and `Drained` (how far the hooks have come, and that before the deadline
nothing is in flight behind `srv.Shutdown`). `OrderlyShutdown` alone is not inductive:
it does not say that the connection is there when a handler calls, nor that only the
hooks close it.

### InstallerProofs

For any profiles, releases and number of runs: `TypeCorrect`, `CompleteSuccess`,
`UntouchedBeforeDownload`, and the action property `OtherProfilesUntouched` (a profile
without the old lines, or not writable, is never written). The invariant follows the
script: `FetchedByNow` and `CopiedByNow` (what the commands behind it have achieved),
`ProfilesKept` (before the clean-up profiles are as this run found them),
`LoopProgress` (the profiles the loop has visited are done, the others as found) and
`Rewriting` (the profile being overwritten is one that had old lines).
`SuccessIsComplete` alone is not inductive, since an earlier run may have left
anything behind.

### Only model-checked

The four liveness properties, `RightCodeSettles`, `AnsweredOrUpstream`,
`HandledIsRecorded` and `SignalEndsProcess`: they rest on fairness and ENABLED, which
this prover does not handle. The three violated properties are counterexamples, and
need no proof.

## 5. Not modelled

- The field-by-field copies between requests, domain types and gRPC messages
  (`auth/client.go`, `application/orgs.go`): a field that only travels through is
  told apart by no property. Their calls, errors and timeouts are in `Edge`.
- JSON layout, header spelling, logging and tracing, the body size limit (a body
  that is too large does not decode), the bytes of the static documents.
- How codes are distributed and how hard they are to guess; HMAC and SHA-256 are
  taken as sound and injective.
- The token bucket's arithmetic (orbit-rate-limiting) and orbit-auth's state, the
  rotation of refresh tokens included: other repositories. What a retry of
  `RefreshToken` or `SelectOrg` meets after a lost answer is decided there.
- Memory growth: the claim cache and the audit log have no limit in the code to
  check against.
- The health server's own requests, and the host checks of the installer one by one
  (each ends the run before anything changed).

## 6. Plan

All components that keep state are modelled, and no invariant or action property of a
passing run is without a theorem. Worth doing next:

1. action properties where only state invariants are proved so far: the audit log only
   grows between restarts, a listener once closed never listens again;
2. abstract specifications for the audit log and for a budget, which `StaffAccess` and
   `Edge` would be shown to implement as `Ownership` implements `OneTimeCode`;
3. the converse of `GatewaySparesOthers`, that a table which charges a shared budget
   before validating does let malformed requests spend it.
