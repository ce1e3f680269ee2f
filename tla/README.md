# rootcause-embassy-go: specifications and proofs

The Embassy is a Go library that a customer's program embeds.  The host
(rootcause) reaches it over two signed routes: one runs scripts inside the
program (actions), the other delivers the results of analyses.  The program
reaches the host through a generic API caller and an analysis client.  These
modules say what its concurrent parts do and what it lets through, check that on
small instances with TLC and prove it with TLAPS for instances of any size.

## The system

| part | source | state it keeps | operations | meets |
|---|---|---|---|---|
| nonce store, freshness | `replay.go` | nonces and their deadlines | `Add`, `Delete`, `checkFreshness`, `recordNonce` | both routes |
| result route | `resultroute.go` | none of its own; a goroutine per dispatch | `receiveResult`, `dispatchResult` | nonce store, customer's handler, host |
| API caller | `api.go`, `apiauth.go` | one access token and its deadline, under a mutex | `Do`, `bearer`, `invalidate` | host's API and token endpoint |
| executor | `executor.go` | pools of compiled programs, one goroutine per evaluation | `run`, `poolFor`, `get`, `put`, `compile` | action route, interpreter |
| action route | `action.go` | none of its own; one deadline per invocation | `serveInvocation`, `invoke`, `serveHealth` | nonce store, resolver, executor |
| resolver | `resolver.go` | script bodies in memory and on disk | `resolve`, `fetch`, `storeForProject` | action route, host |
| configuration | `config.go` | fixed after start | `applyDefaults`, `validate` | everything |
| secrets, signatures | `secrets.go`, `signature.go` | none | `secretForProject`, `Sign`, `VerifySignature` | both routes, resolver, client |
| tenant, principal | `tenant.go`, `principal.go` | none | validators, environment of a run | action route, executor |
| parameter schema | `schema.go` | none | `validateParams` | action route |
| analysis client | `client.go`, `result.go` | none | `StartAnalysis`, `CaptureSentMessage` | host |
| chat | `chat/`, `chatconfig.go` | none | token and widget construction | - |

What is hard in it: redeliveries that overlap, goroutines that outlive the call
that started them (a timed-out handler, a cancelled evaluation), a mutex held
across a network exchange, caches that are emptied by one call and filled by
another, and time: a freshness window on the wall clock, deadlines on the
monotonic one, a token whose lifetime is counted from when it arrives.

What makes each part correct:

- *nonce store and result route*: one dispatch of a result at a time; no ack without a
  dispatch of the result that succeeded or may still succeed; no second dispatch
  inside the window; a failed dispatch gives its nonce back and nobody else's; every
  delivery is answered.
- *API caller*: no dead token on the way to the host; one exchange however many
  calls want it; a retry with a bearer granted after the refusal; a refusal
  reported only when it is final; every call returns.
- *executor*: a program in one pair of hands; nothing a cancelled evaluation still
  does reaches another run; no program works for two scopes; bounded idle
  memory.
- *action route*: an invocation is executed at most once; nobody is refused as a
  replay for his own delivery; the deadline an answer names is the one that
  passed; a hung fetch or script does not hold the request.
- *resolver*: no body leaves that does not hash to the signed digest, whatever the
  disk holds; a crash leaves no half-written file behind a valid name; the caches
  keep projects apart and do spare fetches.
- *configuration and secrets*: one usable secret for each project however its id is
  spelled; every signature under the key of the one project a request names; a chat
  key that opens nothing else.
- *tenant, principal, parameters*: what runs has an environment with every claim in it
  and a pool of interpreters it shares with its own scope only.  The validators
  themselves are modelled, and no property restates their conditions.

`PROJECT.json` lists the hazards at their lines, each with the properties aimed
at it.

## Modules

`NonceStore` is shared.  It has no variables: a store is a function from the
nonces it remembers to their deadlines, and `Added`, `Deleted` and `Fresh` are
what `Add`, `Delete` and `checkFreshness` do to it.

`ResultRoute` extends it.  Each delivery (one POST of the host) is a process whose
`pc` says where it is in `receiveResult`; results stand for their nonces, since
the host sends the run id as a stable nonce.  `Refuse`, `Check`, `AckDuplicate`,
`Dispatch`, `DispatchSucceeds`, `DispatchFails` and `Release` are the stretches of
the handler between the points where another goroutine can come in.  Two of them
are worth a word.  `Dispatch` is `Add`, the start of the handler goroutine and of
the timer, in the order of the code; `Add` may have read the clock at any instant
since the freshness check, because it reads it before it takes the lock.
`DispatchFails` may fire while a finished handler's outcome is waiting, because
Go's `select` picks any ready case.  `Due` is the latest instant a request goroutine may
still be where it is: only a dispatch with a handler waits, for its timer; one that has
failed, or has no handler to call, goes on at once to give its nonce back, with one
`Lag` for the scheduler as anywhere else.  `handler` is the goroutine of the customer's
handler and lives on after its dispatch; `HandlerEnds` needs no fairness, a
handler may hang.  The host (`Send`, `GiveUp`, `HostReads`) is external: it posts a
result again after the last POST is over *for it*, so an older request may still
be under way; it gives up at any time, which also covers lost requests, lost
answers and closed connections.  `Restart` takes every request, handler and the
in-process store; a store injected by the customer (`durable`) keeps its nonces.

`TokenCache` has one process per call to `Do`, the cache (`token`, `expiresAt`), the
mutex (`holder`, only while an exchange is under way: elsewhere it is taken and
released within one step) and the host (`grants`: the token of each grant, the
`expires_in` it said and until when the host means to accept it).  The host is free: it
may grant the token it granted before, as the one of `api_test.go:80` does, refuse any
bearer at any time, and leave `expires_in` out and mean any of `UnsaidLifetimes`, of which
the client's own default (`ExpiresIn`) says nothing.  A bearer in the model is the number
of its grant: the code never compares two tokens, so two grants of one token text behave
like two grants, and what a property says of "another" bearer it says of a later grant.
The instant the host grants a token (`HostIssues`) and the instant the grant arrives
(`ExchangeSucceeds`) differ, as do sending a call and the host's look at its
bearer.  `delivered`, `burned` and `refusedAt` are history.  A bearer the code takes
verbatim (no `rcor_` prefix) is `StaticKey`.

`ExecutorPool` has one process per call to `executor.run` and one per goroutine
`EvalWithContext` starts.  A pool is named by the run that created it and a
program by the run that compiled it, so a pool dropped from the map lives on for
the runs that hold it.  The slots of a program hold *whose* arguments and whose
result they are, which is what a mix-up would show.  `Abort` leaves the goroutine
where it is; `ReadArgs`, `Capture` and `EvalEnds` may happen at any later time.
`scope` stands for `poolKey`: digest, tenant and principal, but not the run id.

`ActionRoute` extends `NonceStore` too, with one process per arrival of a signed
invocation.  Its clock is monotonic; the wall clock, which only the freshness
check reads, is `offset` ahead of it and may be set (`StepClock`) within `Swing`.
`Check` and `Consume`/`Replayed` are separate steps, so time, other requests and
the wall clock may come in between them.  `Expire` is the total deadline, counted from
before the body is read, `OwnTimer` the execution's own timer, which
`context.WithTimeout` keeps only when it is the earlier of the two, and
`ClientGone` the cancelled connection.  The resolver and the executor appear as
stages: `ResolveFails` may also happen with a live context, `Start` is a pooled
program or a compilation, `Abort` is `EvalWithContext` returning with the context's
error, `Report` the choice of the failure class.  `consumers`, `ran` and `lost` are
history; `lost` marks the executions a crash made the in-process store forget.

`OneShot` is what the action route promises, without clocks, deadlines or a pipeline:
a delivery claims its invocation for good, only it executes, once and not if it is
a dry run, a delivery is refused as a replay only when another one has the claim,
and only the loss of the store takes claims back.  `ActionRoute` implements it
(`KeepsPromise`): the deliveries of `OneShot` are its requests, the claims its
`consumers` and the executions `ran`, less `lost`.

Four more modules of this kind say what the other stateful parts promise:

- `Redelivery` is a host that posts the same result again and again, without nonces,
  clocks or handlers: the deliveries of a result are handled one at a time, and a
  delivery is acked for its own success, or because another delivery of the result is
  being handled, was handled, or was interrupted by a crash that a durable store
  remembers.  The promise is that weak: the handling an ack relies on may fail after
  the ack (`result_lost_ack`).  `ResultRoute` implements it (`ImplementsRedelivery`); `Orphaned` is the
  price of a store that outlives the process, which has nobody to release its nonce.
- `OneToken` is the API caller without mutex, exchanges and clocks: one current grant,
  which a call is handed, or a new one when there is none; it stays current until it
  wears out (`Wear`) or a refused call burns it, once (`Burn`); a refused call tries
  again once, with a grant made after its refusal, and only then reports it.
  `TokenCache` implements it (`ImplementsOneToken`): the current grant is the cached one
  while it is worth using.
- `SoloRun` is an executor without pools: a run is alone in its program, and
  `heritage` is the set of earlier runs whose package state it may meet there, which
  `Take` draws from the runs of its scope that left their program to others.  Those are
  the runs whose evaluation ended without an error and that reported (`clean`) and,
  against the comment at `executor.go:208`, the runs that panicked while their result
  was read (`panicked`): `Panic` and `LeavePanicked` are actions of their own, so that
  the departure is named and not called clean; `executor_panic` shows it.  `ExecutorPool`
  implements `SoloRun` (`ImplementsSoloRun`): a run inherits from every earlier run with
  its program.
- `BodyStore` is the resolver with every lookup, check and save in one step: a request
  recalls, reads or fetches its body and gives it away; only one that began `cold` may
  fetch, unless the file became unreliable.  `Resolver` implements it
  (`ImplementsBodyStore`): temporary files and the stages of a request disappear, the
  atomic write is the `Rename`, and a crash takes memory alone.

What a refinement implies is not checked by a run of its own: that a run reports its own
result (`OwnResultReported`) and that nobody is refused as a replay for his own delivery
(`ReplayedOnlyAfterConsumed`).  The definitions and their theorems are kept.

`ProjectSecrets` is the secret selector of `secrets.go`, as operators over a
configuration; the loop over the configured ids, whose order Go does not define,
makes its result a set.  `Resolver` and `Boot` extend it.

`Resolver` has one process per call to `resolve`.  A body stands for its own SHA-256,
so a digest is the one body that hashes to it, and `Junk` is every other text: half
of a body or somebody else's.  The lookup, the fetch and each call of the atomic
write (`CreateTemp`, `WriteTemp`, `CloseTemp`, `Rename`) are steps of their own, any
of which may fail (`SaveFails`) or be the last before a crash (`Restart`, which
empties memory and leaves files).  `Damage` is everything else that writes under
`CacheDir` to a file some request asks for, and a power failure that takes what was
never flushed.  `vouched`,
`known`, `saved`, `damaged` and `warm` are history.  The fetch answers with any text
or fails in any of the ways of `fetch`.

`Admission` is a deployment from its boot to what it lets run.  `BootUp` is `New`:
`WithDefaults` and `Valid` of `Boot` are `applyDefaults` and `validate`, where a URL is
known by its class (unset, placeholder, under `.invalid`, without a host, of another
scheme, a web URL).  The `Answer...` actions are the exits of `ActionHandler`,
`serveHealth`, `serveInvocation` and `invoke`, in the order of the code: which come
before a secret is selected, which before the signature is looked at, and what each
is signed with.  A signature is the secret it was made with.  `InvocationContext` has
the tenant's and the principal's validators, the environment and `PoolKey`;
`ParamSchema` the validation of parameters; `WireValues` the six shapes of decoded
JSON they look at.  A text is the sequence of its parts between NUL bytes, because
NULs are what the validators refuse and what the pool key joins texts with; nothing
else of a text matters but its membership in the shapes the patterns describe.  The
nonce, freshness and the lookup of the script are left to `ActionRoute` and
`Resolver`.

`MC...` modules hold what only TLC needs (symmetry sets, sets of offsets, lifetimes,
configurations and bodies).  `...Proofs` modules hold the theorems.

## Runs

| run | instance | question |
|---|---|---|
| `result_route` | 1 result, 2 deliveries, skew 1, second 3, timeout 1, lag 1, time to 7 | redeliveries: one dispatch, no nonce held for nothing, no repeated result, every delivery answered, every failed dispatch released, implements `Redelivery` |
| `result_lost_ack` | 2 deliveries | *violated*: an ack for a dispatch that then fails |
| `result_two_handlers` | 2 deliveries | *violated*: two handlers of one result at once |
| `result_short_window` | skew 1, second 1, timeout 4, no lag | *violated*: two dispatches, with both handlers running, when the timeout exceeds the window |
| `token_cache` | 2 calls, 3 grants of 1 token, lifetime 3 or left out (the host means 1, the client assumes 3), skew 2, round trip 1, time to 4 | safety of the cache, fresh retries, every call returns, implements `OneToken` |
| `token_burn` | 2 calls, 2 tokens, 3 grants | *violated*: a fresh token burned by a stale refusal |
| `executor_pool` | 3 runs, 2 scopes, caps 1 and 1 | safety of the pools, implements `SoloRun` (panicked programs included) |
| `executor_panic` | 2 runs | *violated*: a program pooled after a panic |
| `action_route` | 1 invocation, 2 requests, skew 1, second 3, timeout 1, total 2, lag 1, swing 1, time to 5 | at-most-once, causes, answers, implements `OneShot` |
| `resolver` | 2 requests, 2 digests, 2 projects in 3 spellings, 3 configurations | bodies verified, caches whole, apart and of use, implements `BodyStore` |
| `admission` | 57 deployments, 137 requests, 2 runs | secrets, keys and signatures, pools and environments of what runs |
| `action_clock_step` | second 1, no lag, swing 1 | *violated*: executed twice after the wall clock is set back |

Bounds.  One result is enough in `ResultRoute` because deliveries of different
results share only the store, and a store entry is touched by its own nonce or by
pruning.  Two deliveries give a dispatch and a redelivery at any point of it,
also after its release; a third adds nothing the invariant does not cover, which
is proved for any number.  Time runs to `MaxTime` and goes on only while a dispatch still
needs its timer; 7 ticks pass the ttl of 5, so nonces do expire, and a ttl of 5 is the
least that `TimeoutFitsWindow` allows with these delays.  `HostOffsets`
lets the host's clock agree or run ahead by the whole skew.  In `TokenCache` three
grants suffice for one to be refused, replaced and burned again, and two calls for one to
wait behind the other and to find what it left; the time bound passes the longest lifetime.
One token text is the hard case, in which every grant renews what the host refused;
`token_burn` has two, since burning a token that was refused is no surprise.  `ExecutorPool` has
no counters; caps of 1 make both caps bind, and two scopes with room for one pool
make every lookup of the other scope drop the map.  In `ActionRoute` a second of
three ticks leaves room for a stall and a clock step of one each; `issued_at` 3
lets time run through both edges of the window, whose total length the ttl of
five ticks exceeds.  Two requests are what `AtMostOnce` relates.  In `Resolver` two requests may meet at
every step and follow each other across restarts; no property relates more of them.
Two digests and two projects make every pair of keys that may differ in either part.  The bodies a
host may answer with are the right one and `Junk`.  In `Admission` the deployments are
one good configuration of each kind and, around it, each mistake `validate` looks for,
some of them made or mended by the environment; the requests are a good one and
around it each mistake of tenant, principal, parameters, fields, body, method and
signature.  `PoolsApart` relates two runs, so after `MaxRuns` = 2 different ones
nothing is served; nothing else grows.  `CHECK_DEADLOCK`
is off everywhere because deliveries, calls, runs and time are finite: a state
where all of them are over may have no successor.

`Lag` bounds how long a request goroutine may stall between two steps, `RoundTrip`
how long an exchange or call is under way (the HTTP client's timeout).  Both are
constraints on time passing, not on the code.  `Swing` bounds what the wall clock's
steps add up to.

Fairness.  `ResultRoute`: the clock advances and the scheduler runs request
goroutines (weak fairness per delivery once its nonce is being handled); nothing
is promised of the host, the network or the customer's handler.  `TokenCache`: a
request ends by its answer or the client's timeout, and the mutex is handed to
every call that waits for it; Go's mutex turns to first-come order after a
millisecond of starvation, hence strong fairness per call.  `ActionRoute`: time
passes, timers fire, the scheduler runs request goroutines and a fetch ends with its
context; nothing is promised of the body's arrival, of a script's own return or
of the compilation, which evaluates the script's package level without the
context.  `InvocationsEnd` therefore stops short of the compiler and starts again
behind it.  `ExecutorPool`, `Resolver` and `Admission` are checked for safety alone.

## What the violated runs show

Each disagrees with a sentence of the source, quoted in `PROJECT.json`.

1. `result_lost_ack`: the duplicate check acks on the strength of a nonce whose
   dispatch is still running.  If that dispatch then fails, the host has its ack
   and the result is gone.  The comment says the release exists to prevent that.
2. `result_two_handlers`: the timer ends the dispatch, not the handler.  The
   documentation's demand that handlers be idempotent covers repeated calls;
   handlers must also bear overlapping ones.
3. `result_short_window`: `validateAction` does not relate `Timeout` and `ClockSkew`.
   `ClockSkew` of 5s with the default `Timeout` of 20s is accepted.
4. `token_burn`: `invalidate` does not look at which token was refused: a call that is slow
   after its 401 burns the token another call has obtained since.
5. `executor_panic`: the put is deferred before the result is read.
6. `action_clock_step`: the ttl covers the freshness window only while both clocks
   run alike.  The comment on `recordNonce` says freshness alone refuses whatever
   the store has forgotten; a wall clock set back by the spare second makes such
   an invocation fresh again.  The store's own comment praises the monotonic clock
   for being immune to steps; it is the pair of clocks that is not.

Five more disagreements have no run of their own, because nothing has to interleave to
show them; the modules follow the code:

- `README.md:202` says that every answer, every refusal included, is signed, with two
  exceptions (405 and 503).  The code leaves two more kinds unsigned: the 404 of a
  health probe with anything wrong (`action.go:79-94`) and the 401 of an invocation
  that selects no project key (`action.go:115-130`).  They are `AnswerHealth` and
  `AnswerNoSecret`; `AnsweredUnderOneKey` speaks of signed answers and says so.
- `config.go:189` says that `validate` fails closed at boot, and `config.go:327` that a
  malformed fetch URL cannot fail at the first resolve.  `isPlaceholderFetchURL` (330-339)
  asks for a host and not for a scheme, so a URL of a scheme nobody fetches boots and
  every resolve fails.  `Boot` accepts the class `other` there, as the code does.
- `resolver.go:20` says that every body, a memory hit included, is hashed again before
  it leaves, but `fromCacheForProject` returns a memory hit as it is (lines 74-79);
  `VerifiedBody` holds all the same, because only verified bodies get into memory.
- `tenant.go:29` speaks of an all-or-nothing tuple on key presence where any partial
  tuple is a refusal, and `README.md:110` likewise; a tuple without `tenant_scope_value`
  is accepted (`TenantValid`, and `tenant_test.go:61-64` expects it).
- The temporary files that `NoLitter` lets a crash or a failed `os.Remove` leave are never
  swept.  `NoHalfFile` speaks of files that are not `damaged`; files that cannot be read
  and temporaries that cannot be removed count as damaged too.

## What is proved

All theorems hold for any number of deliveries, calls, runs, tokens and scopes and
any value of the delays and caps, and those of `Admission` for any set of deployments
and requests.  `tlapm` checks them from the named assumptions
of the modules alone.

`ResultRouteProofs`, under `TimeoutFitsWindow` (`Timeout + 3*Lag < Ttl`, a stall before
the dispatch, one after its timer and one before its release; the defaults are 20s
against 601s): `OneOpenDispatch`, `HeldNonceIsBacked`,
`NoRepeatInWindow`, `OnlyOwnerReleases`, `ImplementsRedelivery` and, without it, type
correctness.  None of them is inductive.  The invariant `IInv` adds: an open dispatch still has its nonce in the
store, recorded by itself, with a deadline later than the latest instant it may
last to (`OpenHolds`, in which `Head` is how long before the current stage the nonce may
have been recorded); the entry of a recent success is still there (`RecentHolds`);
whoever an entry names dispatched that result and is open, done or, with a durable
store, dropped by a crash (`HeldInv`); and successes precede the open dispatch of the
same result (`DoneBeforeOpen`).  `OpenHolds` is where
`TimeoutFitsWindow` is used: it is what makes the unconditional `Delete` safe and
keeps `Add` from recording the nonce a second time.

`HeldNonceIsBacked` says whose a live nonce is, not that an ack for it is safe: its owner
may be a dispatch that fails later, or has failed and is about to release.  What
becomes of such an ack is `FailureIsNotAcked`, which the code does not keep.

In the refinement `Dispatch` is `Begin`, which needs that no delivery of the result is
open: an open one would hold the nonce (`OpenHolds`) and `Add` would have found it, however
long ago it read the clock.  `AckDuplicate` needs somebody to stand for the ack, which is
`HeldInv` for the nonce it found.  A release or a pruning may make an interrupted delivery
forgotten, hence the subsets in `Begin` and `AckDuplicate`; `Restart` is `Crash`; everything
else, the handler and the clock included, is unseen.

`NonceStoreProofs` has what the store's operators promise, for any store: pruning is not
observable (`PruningIsUnseen`), `Delete` takes its nonce and no other (`DeleteIsLocal`), and
what `recordNonce` says of its ttl: read on one clock, an envelope is refused as a replay
as long as it is fresh (`FreshIsRemembered`).  That the code reads two clocks is what
`action_clock_step` is about.

`TokenCacheProofs`: `RetryIsFresh`, `SingleFlight`, `NeverDeadOnArrival`,
`ImplementsOneToken` and types, for a host that grants and refuses as it likes.  The
invariant says that the mutex is held exactly during an exchange, that the cache is not
worth using meanwhile (so refilling it loses nothing), and where the grants are
(`TokenInv`).  `RefusedInv` is what a retry rests on: whatever a call that tries again can
still come to hold, cached, on its way to another call or in its own hands, was granted
after its refusal, because its `invalidate` waited for the mutex and so no older grant was
under way.  (The mutant that does not wait breaks `RetryIsFresh`.)  Whether the later grant
carries another token is up to the host.  `NeverDeadOnArrival` rests on `DelayInv`: the
deadline counted here is at most one round trip later than the one the host said.  It
needs `SkewCoversTrips` (two round trips within the skew: 40s within 60s with the default
client) and a said lifetime above two round trips; a customer's `HTTPClient` with a
longer timeout loses it, and of a lifetime the host leaves out nothing is claimed.  The
refinement needs `TryInv` besides: only a call that trades tokens has been
refused before or tries a second time.  A grant
becomes the current one when it arrives (`UseNew`), since nothing is cached while the
mutex is held; `HostIssues` is `Make`, `Invalidate` is `Burn`, `BeginExchange` is unseen, and a
tick is a `Wear` or nothing.

`ExecutorPoolProofs`: `ProgramExclusive`, `NoStrayGoroutine`, `ScopeIsolated`,
`OwnResultReported`, `IdleBounded`, `ImplementsSoloRun` and types.  The invariant ties them together:
a program is fresh until its run compiled it, a pool and what is in it belong to
one scope, a run that gives its program back has a goroutine that returned, and
the slots of a program belong to the run whose goroutine works with it.  The refinement
adds that whoever used a pooled program, or one in use, before left it clean or
panicked after its evaluation ended without an error, and worked for its scope
(`HeritageInv`), and that a run reports once and not before its evaluation
ended, so that only an aborted run's goroutine works on after it (`ReportInv`).  A program remembers all its runs for ever here, so
`heritage` is the whole history of a program and not only its last run.

`ActionRouteProofs`: `AtMostOnce`, under `SpareCoversStalls` (`Lag + Swing < Second`),
`ReplayedOnlyAfterConsumed`, `TimeoutNamesItsCause` and types, the last three
without it.  `Remembered` is an instant for each nonce: `ClockSkew` past `issued_at`, and
what the steps of the wall clock leave of the second.  `EntryInv` says that every
entry lasts at least until then and is gone only after it; `CheckedInv` that a
request past its freshness check cannot be later than `ClockSkew + Lag` after
`issued_at`.  With the assumption the second is before the first, so whoever
still gets to `Add` finds the nonce (`OneConsumer`).  The run
`action_clock_step` shows the assumption to be tight.

`KeepsPromise` is proved under the same assumption: the initial states map to initial
states, and each action to a claim (`Consume`), an execution (`Execute`), a refusal
(`Replayed`), the loss of the store (`Restart` with an in-process one) or a stutter.
`OneConsumer` is what makes `Consume` a claim nobody has yet.

`ResolverProofs`: `VerifiedBody`, `NoHalfFile`, `ProjectsApart`, `CacheSparesFetch`,
`NoLitter` and types.  The invariant says where a body may be: memory holds under a key
only the body of its digest, served to its project or read from disk; a request past
the check holds the body it asked for and has been vouched for; a temporary file about
to be renamed is whole; and what is saved is on disk unless the file was damaged.
The last is what keeps a warm request from fetching.  `ImplementsBodyStore` adds
`AtHandInv`: memory and untouched files hold only what was known or saved, and a request
that saves its body remembers it, so that a request that began cold really found nothing.

`AdmissionProofs`: all six properties of the run.  The invariant has three parts.
`Settled`: the configuration of a deployment that is up was accepted by `Valid`; from it
follow `OneSecretPerProject` and, with the next part, `ChatKeyOpensNothing`.
`AnsweredUnderOneKey`: what a request selects is what is configured for the project it
names, by body or by query, in any spelling (`InboundKey`, `HealthKey`).  `RunsAdmitted`:
every run is `RunOf` a request that was admitted under this configuration.  `PoolsApart` then
is an argument about sequences: digest, hash, id, slug and a validated scope value each
have one part, so keys of equal length split at the same places; a key's length tells
whether there was a tenant and whether there was a principal.  It rests on
`ShapeAssumption` (a hash has no NUL, and no two principals that may be asserted share
one), `ScopeAssumption` (ids and slugs have no NUL, and no two claim names, which are
lower-case, have one upper-case form) and `RequestAssumption` (what a request may be).

Only model-checked: the liveness properties (`DeliveriesEnd`, `FailureReleases`,
`CallsReturn`, `InvocationsEnd`); fairness is out of the prover's reach.

## Plan

Done: the nonce store and the two routes, the API caller, the executor's pools, the
resolver, what boots and is admitted, and for each of the five stateful parts the
abstract promise it implements.  What is left:

1. The returned value that outlives its run (`executor.go:261`): a value that shares
   the script's package state is marshalled again while a later run changes it; needs
   values shared between the runs of one scope in `ExecutorPool`.
2. The action route over `BodyStore` and `SoloRun` in place of its stages for resolver and
   executor, now that both are there.

## Not modelled

HMAC and SHA-256 (a signature is the secret it was made with, a body its own hash);
wording of errors, logs and hints; the decoding of JSON itself; numbers beyond the two
questions the validators ask of them (an `int64`, a finite `float64`); what a valid
parameter is converted to; and the interpreter, of which only its goroutine, its
arguments and its result appear.

The analysis client (`client.go`), the result payload (`result.go`) and the chat package
(`chat/`, `chatconfig.go`) check the fields of one value each, build one text from
them and are done: no state, nothing that interleaves, no retry, and no decision
another part depends on.  A model of them would restate their conditions one by one.
What they share with the rest is modelled where it is shared: `OutboundSecret` is the
key the client signs with, `ChatKeyOpensNothing` is about the chat's key, and a result's body
is one of the refusals of `ResultRoute`.  The HTTP transport is a call that succeeds or
fails.  Left out of components that are otherwise modelled: the capped writer of a
script's output and what `ActionAPI` returns (`executor.go`), the accessors that copy a
principal's claims, and the accessors of `Embassy` with `APIFor`, which builds a second
caller with a cache of its own.  The example program is not part of the library.
