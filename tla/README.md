# TLA+ models of the AITP control plane

The control plane (CP) of the Agent Identity & Trust Protocol is a Next.js server
over one Postgres database. Agents register with it and report audit events to
it; it projects those events into queryable tables, relays revocations, fans
events out to live subscribers and webhooks, and keeps the JWKS of trusted
issuers fresh. Several replicas may run against the database, and each keeps
some state in memory, so most of what can go wrong is about *order*: statements
of two requests or two replicas that interleave, values read before an `await`
and used after it, timers that race the work they retry, and crashes between two
statements of one handler.

Paths below are relative to the repository (`src/lib/...` is
`lib/...` under the application's `src` directory).

## 1. The system

### Components

| Component | Code | State it keeps | Operations |
|---|---|---|---|
| Webhook delivery | `lib/webhooks/service.ts`, `app/api/webhooks/**` | tables `webhooks`, `webhook_deliveries`; armed retry timers | create / update / delete a webhook, dispatch and enqueue, `attemptDelivery`, `flushDueRetries` |
| Webhook circuit breaker | `lib/webhooks/circuit-breaker.ts` | per process, one `BreakerEntry` per webhook | `shouldAttempt`, `recordSuccess`, `recordFailure`, `reset` |
| Event ingest | `app/api/events/route.ts`, `lib/audit/event-store.ts`, `event-id.ts` | table `audit_events` | one batch INSERT that skips known ids, then publish, project, dispatch |
| Idempotency keys | `lib/idempotency.ts` | table `idempotency_keys` | look up, execute, store, re-read the winner |
| TCT and delegation projection | `lib/tcts/monitor.ts`, `app/api/tcts`, `app/api/delegations` | tables `issued_tcts`, `delegations` | one transition per event type; revocation cascades to descendants |
| Revocation relay | `app/api/revocation/entries`, `app/api/revocations` | table `revocation_entries` | publish an entry, read an issuer's list |
| Session projection | `lib/sessions/monitor.ts` | table `handshake_sessions` | started, complete, failed |
| Enrollment and registry | `lib/registry/*`, `app/api/registry/**` | tables `agents`, `enrollment_jtis` | mint a token, register (consume the token, upsert), deactivate, expire |
| Trust anchors and JWKS cache | `lib/trust-anchors/*`, `app/api/trust-anchors/**` | table `trust_anchors` | create, patch, delete, read the cached JWKS, the periodic refresher |
| Live stream | `lib/audit/stream.ts`, `sse-metrics.ts`, `app/api/events/stream` | per process, subscribers with a backlog; stream slots | subscribe, replay, drain, publish, close |
| Request gate | `proxy.ts`, `lib/rate-limit.ts`, `lib/api-keys.ts` | per process, rate-limit windows | authorise, count, answer |
| Retention | `lib/retention.ts` | deletes from six tables under an advisory lock | one sweep |
| Lifecycle | `instrumentation.ts`, `lib/shutdown.ts`, `app/api/readyz` | per process, timers and the draining flag | boot, drain, readiness |
| Pinned keys | `app/api/pinned-keys` | table `pinned_keys` | create, list, delete |
| Admin audit log | `lib/audit-log/*`, `app/api/audit` | table `admin_audit_log` | append (never throws), page |
| Read-only views | `lib/dashboard`, `app/api/sessions/**`, `history`, `metrics`, exports, `lib/audit-review.ts` | none | queries over the tables above |
| CP identity and configuration | `lib/config.ts`, `lib/identity/*`, `registry/enrollment-config.ts` | process-wide constants | parsed at boot |
| Container harnesses | `scripts/verify-image.mjs`, `scripts/verify-sse-stream.mjs` | per run, registries of containers, networks, directories, children, sockets | docker calls, signals, `cleanupSync`, `--prune` |
| Image pins | `scripts/verify-image.mjs`, `scripts/image-artifact-baseline.json`, `image-gate-canonical.txt` | two committed files | 27 checks of an image, `--update-baseline` |
| Stream client | `scripts/verify-sse-stream.mjs` | per connection, head, decoder, waiters | `openStream`, `nextFrame`, `readBody`, `close` |
| Observed-token verification | `lib/tcts/verify-observed.ts`, `lib/audit/signed-content.ts`, `registry/verify-error.ts` | none | pure checks by an external library |

### How they interact

* An **ingested event** is inserted; if the row is new it is published to the
  live stream; then the session and the TCT projections run, for known events
  too; then the webhooks are dispatched for new ones. None of this is in one
  transaction: a crash after the INSERT loses the fan-out.
* The **revocation relay** stores its entry, ingests a `tct.revoked` event of
  its own, runs the TCT projection and dispatches webhooks. The projection reads
  `revocation_entries` when a token or a delegation is first reported.
* **Registration** consumes the token's `jti` and upserts the agent in one
  transaction, and then behaves as an ingest of `agent.registered`.
* Boot and ingest (re)arm the **periodic jobs**: webhook reaper, expiry,
  retention. **Shutdown** clears their timers and the limiter's.
* Every request passes the **gate** before its route, in a turn of its own.
* The **harnesses** under `scripts/` build the server's image, run it in containers
  they must remove whatever happens, judge it by the two files of pins, and read the
  live stream byte by byte.
* The **retention** sweep deletes what the others rely on to recognise repeats:
  event ids, idempotency keys and enrollment `jti`s.

### What is hard

*Interleaving of database statements.* Isolation is read committed and most
handlers are several statements with no transaction. *In-memory state per
replica*: breakers, timers, stream subscribers. *Crashes* between a row's
INSERT and the work it announces. *Retries*: by clients (events, idempotency
keys), by timers and by the reaper, all for the same row. *Out-of-order
events*: a revocation reported before the token it revokes, a delegation before
its parent. *Limits*: attempt budget, backlog, stream slots, rate windows.
Every place is listed under `hazards` in `PROJECT.json`, with the properties
that watch it.

### What makes each component correct

* **Webhook delivery**: no attempt number is POSTed twice; `delivered` means the
  receiver said so; every pending row settles even if processes die; a disabled
  webhook drains; an unsubscription is audited once.
* **Circuit breaker**: entries stay consistent whatever order outcomes arrive in;
  the probe is always owned by someone who will report.
* **JWKS cache**: what is served was fetched from the URL the anchor now has,
  whatever PATCH, DELETE or other replica ran during the fetch.
* **TCT projection**: whatever the order and repetition of events, a revoked
  token's descendants are revoked; revocation is never undone.
* **Enrollment**: until it expires a token registers at most once, and the registry
  holds only manifests that enrollment verified; expiry is announced once.
* **Event ingest**: an event is fanned out once however often and wherever it is
  re-sent; a re-send repairs the projections.
* **Idempotency**: all requests under one key get one answer, and what is replayed
  was done.
* **Live stream**: a subscriber sees what the backlog kept and all that follows,
  each event once and in order; slots, timers and listeners go with the stream.
* **Rate limiter**: windows are fixed, so a stretch shorter than a window admits fewer
  than `2 * limit` requests of a bucket, and that is all they promise.
* **Lifecycle**: a job has one interval, with a handle to stop it; a prober told of
  the drain is never told otherwise; a signalled process exits.
* **Harness teardown**: nothing of a run stays behind without a word, and the
  teardown ends, also against a daemon that acts late or not at all.
* **Image pins**: an image that passes is gated wherever the checks claim it, is the
  image of one update, and has lost nothing that nobody agreed to lose.
* **Stream client**: what is decoded is what was written, however it was cut into
  segments; a frame in hand is given to whoever asks.

## 2. The modules

| Module | Models | Composes |
|---|---|---|
| `CircuitBreaker` | one `BreakerEntry` and the methods that change it, as operators | – |
| `WebhookDelivery` | `webhooks/service.ts` in every replica | `CircuitBreaker` |
| `AnchorCache` | the promise of the JWKS cache, abstractly | – |
| `JwksRefresher` | trust-anchor routes and the refresher of every replica | implements `AnchorCache` |
| `Revocation` | the token projection and the relay | – |
| `Registrar` | the promise of the agent registry, abstractly | – |
| `Enrollment` | tokens, registry, expiry job, retention of both | implements `Registrar` |
| `EventIngest` | `POST /api/events`, idempotency keys, session projection, retention of both | – |
| `LiveStream` | the bus, slots and streams of one replica | – |
| `Gate` | `proxy.ts` and the limiter of one replica | – |
| `Lifecycle` | boot, periodic jobs, readiness, shutdown of one replica | – |
| `Teardown` | one run of a container harness, the docker daemon, `--prune` | – |
| `ImagePins` | `--update-baseline` and a verifying run over the two pin files | – |
| `StreamClient` | one connection of the stream harness (its actions in `StreamNext`) | – |
| `Replica` | requests that reach ingest and readiness through the gate | `Gate`, `Lifecycle` |
| `MC*` | instances for TLC: the data of the constants and the symmetries (`MCScripts`: the three models of the harnesses side by side) | the module named |
| `*Proofs` | the theorems about the module named | the module named and `TLAPS` |

**One step** is one database statement with the synchronous code up to the next
`await`: a Node process runs that code without interruption, and under read
committed a single statement sees one snapshot. Handlers are therefore records
in a variable (`att`, `pass`, `work`, `requests`, `sweeps`) whose field `at` or
`pc` is the await they are at. Transactions are split where others can get in
between: a revocation is UPDATE, cascade and COMMIT; a registration is INSERT of
the jti, upsert and COMMIT. *Crashes* drop what a process holds in memory and
roll its transactions back. *Time* is what the code compares: a retry is due or
not, a keyset stale or not; only `Enrollment` counts ticks of a clock, because
there seconds and milliseconds meet. Variables marked `history` are not in the
program; properties need them. Constants `Max*` (and `Attempt`, `Request`,
`Worker`, the sets of concurrent calls) bound the instances; no theorem depends
on their values, except that the proofs that count need the set counted over to
be finite.

### `CircuitBreaker` and `WebhookDelivery`

`row` is `webhook_deliveries` (status, attempts, and whether `next_retry_at` is
null, in the future or due), `hook` is `webhooks`, `breaker` the in-memory map of
each process, `listed` the events whose list of webhooks was read and whose rows
are not inserted yet, `scheduled` the calls that the fire-and-forget promise, a
`setTimeout` or a reaper pass will make. `attemptDelivery` is one action per
await: `ReadDelivery`, `ReadWebhook` (with the breaker's verdict), `Defer` or
`FailInactive`, `Claim` (the optimistic `WHERE attempts = n`), `SendPost` or
`RefuseTarget`, an answer (`AnswerOk`, `AnswerFailure`, `AnswerGone`) and the
writes after it. The 410 path is four statements, each a step, since another
call may run between any two of them. `Throw` is a statement that fails, with
what each caller's `catch` leaves behind; `FlushDueRetries` is the reaper and
`Crash` a restart.

### `JwksRefresher` and `AnchorCache`

`row` is `trust_anchors`; a keyset is the source it came from and a version.
`pass[p]` is the one pass of process `p` (the flag `running` is "not idle"): it
lists stale anchors with the URLs they have, then fetches and writes one after
another. `StillHasUrls` is the WHERE clause that pins the write on the URLs that
were listed. `Patch` is one UPDATE whose CASE clears the keyset exactly if a URL
changes. `AnchorCache` has no passes: a keyset enters in one step from the
source the anchor names in that step. Under the mapping `UrlsNow`, `KeysNow` a
write whose WHERE holds is that step, and everything else a pass does is a stutter.

### `Revocation`

`status` is the state of both projection tables, `entries` and `entryIss` the
relay's. A `work` record is a POST of the relay (issuer look-ups, INSERT ... ON
CONFLICT, ingest, then the transaction of the projection, then the answer) or an
event being projected. `IssueTct` and `IssueDelegation` are the INSERTs
whose initial status is a sub-select over `revocation_entries`. A cascade finds
the active descendants in one recursive statement and updates those that are
still active when it locks them.

### `Enrollment`

`tokens` is what was signed (nothing is stored then), `spent` is
`enrollment_jtis`, `agents` the registry. A registration checks its token
(`Register`), then in one transaction consumes the jti and upserts the agent
(`Consume`, `Commit`, or `Fail` with rollback). `SweepExpired`,
`SweepUnsupported`, `EmitExpired`, `FinishSweep`, `CrashSweep` are a tick of the
expiry job. `RetentionSweep` deletes jtis past `expires_at` and any set of
deregistered agents (their age is a free choice).

`Registrar` is the same registry as its readers and the holders of tokens see it:
`clock`, `tokens`, `agents` and `spent` are the only variables, and each operation is
one step. `Enrol` spends an unspent token and stores the manifest the token was
signed for; `Retire` takes any active agents that are outdated at that moment;
`Forget` deletes only expired tokens and deregistered agents. That a token is still
valid is not a guard of `Enrol`: the code checks it before the transaction, and the
token may expire until COMMIT. `ImplementsRegistrar` maps each variable to itself.
A rolled-back registration is no step at all, so a `jti` is never stored without its
agent (also stated by itself, `SpentByRegistration`).

### `EventIngest`

`stored` is `audit_events`, `answers` is `idempotency_keys`, `sessions` the
projection. A request is looked up under its key (`Lookup`), inserts its batch in
one statement (`Insert`: what it returns is *fresh*), lists the webhooks, goes
over its batch in order (`Project`: publication of a fresh event and, in the same
turn, the statement of the projection), dispatches the fresh ones in any order,
and stores and re-reads its answer (`Store`, `Reread`). `Throw`, `StoreFails` and
the argument `ok` are statements that fail, and `Die` a process that dies.

### `LiveStream`

`backlog` is the bus's array, `stream[s]` the locals of one `GET` (its filter, what
it sent, whether it listens, beats, was aborted) and `slots` the open count. `start`
runs in one turn of the event loop; `turn` holds the bus for the stream that
replays, so that its iterations are steps without anything in between. What the
code buffers during the replay is therefore always empty, which is why `Started`
has no drain. `Cleanup` is the one path out, reached by `Abort`, `Cancel` and
`Heartbeat`; the last finds only requests that were aborted before `GET` ran. An
event may be published twice: `EventIngest` publishes once per row, and a row may
be purged and sent again.

### `Gate`, `Lifecycle` and `Replica`

`bucket` is the map of `RateLimiter` (a missing entry is one whose window is over
since ever), `admitted` the history of what each bucket let pass. `Admit` and
`Refuse` are `proxy` for a request that is authorised; what answers before the
limiter (preflight, 401, 503) changes nothing. `Lifecycle` has the handles on
`globalThis` and, apart from them, the number of intervals that run: a starter that
does not look, or a clear that misses, drives them apart. Readiness is two steps,
`ProbeBegins` up to the await and `ProbeEnds` after it. `Leaving` holds when the
race of hooks and deadline is settled: then the continuation that exits runs before
any other event. In `Replica` an ingest passes the gate and arms the jobs in two
steps, since a signal may fall between.

### `Teardown`

`obj` is the daemon's view of each object, `requested` when the client has asked and
nothing has happened yet: `Land` and `Drop` are the daemon's, any time later, whether
or not the client lives. `containers`, `networks`, `tempDirs`, `liveChildren` and
`sockets` are the registries; `alive` is what really exists on the host, with what a
failed `rmSync` left of a scratch directory as `remains`. One action
stands for each helper that asks something of the daemon (`RunProbe`,
`ImageContainer`, `CreateNetwork`, `StartPostgres`, `StartApp`, `Migrate`,
`OpenStream`), and its call ends in `CallOk` or `CallFails`. `Interrupt` is a signal or
the watchdog, `Killed` is SIGKILL. `cleanupSync` is one action per docker call, from
`Cleanup` to `RecheckConfirm`, since the daemon works in between. A Node process
runs it to the end: nothing of `main()` interleaves. Time is counted in sleeps of the
sweep. `late` holds what came into being after the last moment at which the teardown
is sure to look: the code's own comment says that such an object is `--prune`'s.

### `ImagePins`

`pins` and `canonical` are the two files, `u` a run with `--update-baseline` between
its reads and its two writes, `v` a verifying run, with the check it has reached. A
path is gated if a matcher that is not conditional attaches the gate to it
(`Matched`) and no rewrite, no other manifest and no entry of `dataRoutes` undoes it
(`Open`): that is the truth the checks approximate with one sample per route. Of the
three route tables only `dataRoutes` can lead elsewhere (`Aliased`): its regexps are
compiled as they stand in the manifest, those of `dynamicRoutes` anew from the page,
and `staticRoutes` is not read (`verify-image.mjs:2741-2771`). `Structural` to
`MatcherCovers` are the checks, `Refused`, `Vanished` and `GateChanged` what an update
refuses. A failed check ends the modelled run: the real one goes on to the other
checks, which change nothing, and exits 1. `consent` is a history of the flags used.

### `StreamClient`

`at` is how much of the answer has arrived, `reader` is `createBodyReader` with the
states of its loop, `waiter` and `bodyWaiter` the pending promises, and `outcome` the
promises settled by the last step. A `Data` step takes any number of bytes, `End`,
`Error` and `Close` come between any two. Alphabet, size lines, limits and answers
are constants; TLC takes the few bytes that the decoder tells apart and size lines of
one digit. `SizeLineAssumption` says that a size line has no CR, fits its limit and
tells sizes apart, as hexadecimal digits do; `ResponseAssumption` what an HTTP server
can answer in chunks: a head that ends once, no empty write, and after the writes a
last chunk with its trailer, or something that is no chunk (a `broken` answer lacks
the last CRLF). The loops of `emit()` and `push()` are functions of the turns taken,
as many as there are bytes: a turn that leaves the reader as it is ends the loop in
the code.

## 3. What TLC checks

Passing runs (states are distinct states):

| Run | Instance | Shows |
|---|---|---|
| `webhook_replicas` | 2 replicas, 1 delivery, 2 concurrent calls, 2 attempts, 3 faults, 1 admin request; 742 k states | No attempt number is claimed or POSTed twice (`TicketsAreUnique`); delivered rows were acknowledged (`DeliveredWasAcked`); breakers are consistent (`BreakersConsistent`); one audit row per activation however many 410s arrive (`AuditedOncePerActivation`) |
| `webhook_liveness` | 1 replica, 2 calls, crashes | Pending rows settle (`Settles`); a webhook out of service drains (`DisabledHookDrains`) |
| `jwks_replicas` | 2 replicas, 2 anchors, 2 issuers, a rotation, 2 faults, 1 PATCH or DELETE; 106 k states | Served keys are those of the present URLs (`ServedKeysMatchUrls`), the passes implement atomic refreshes (`ImplementsCache`), and the cache catches up (`CacheCatchesUp`) |
| `revocation_races` | a token, a delegation from it and one from that, 2 issuers, 2 requests, a legacy entry; 174 k states | Entries are projected (`EntriesAreProjected`), revocation is permanent (`RevocationIsPermanent`), an entry's issuer is filled and never changed (`EntryIssuerIsNeverChanged`) |
| `enrollment_registry` | 1 agent, 3 manifests (expiring, lasting, unsupported), 2 registrations, 2 sweeps, clock to 5 ticks; 126 k states | A token registers once until it expires (`TokenIsOneTime`); requests, transactions and sweeps implement single steps (`ImplementsRegistrar`); `StoredAsEnrolled`, `ExpiredAtMostOnce`, `DeregisteredStays`; what is outdated is retired (`AgentsRetire`) |
| `ingest_resend` | a log of a session (with a duplicate item) and another end of it, 2 requests, 1 key, 2 faults, a death, a sweep; 340 k states | `FannedOutOnce`, `PinnedIsDone`, `OneAnswerPerKey`, `ReportedSessionsEnd`, `StoredIsFannedOut` |
| `live_streams` | 3 connections, 2 slots, 2 events, 4 publications, a backlog of 3, a replay of 2; 1.2 M states | A feed is exact (`FeedIsExact`); slots, listeners, timers and metrics are those of the open streams (`SlotsAreOpenStreams`); nothing is written after the end (`ClosedIsSilent`); a client that left releases its slot (`AbortedIsReleased`) |
| `replica_drain` | boot, both signals, a hook, a prober, one ingest at a time, buckets with limits 1 and 2 and one disabled, windows of 2 ticks in 4; 829 k states | The limiter over adjacent windows (`WindowBound`), intervals and handles (`OneTimerPerJob`), the drain is final (`NoReturnToService`), the process exits (`Exits`) |
| `scripts_harnesses` | both plans of steps, sweeps of 2 quiet polls, budget 2, 2 list errors; 16 images over 4 paths and 3 routes; 9 answers of up to 7 bytes of body; 2.6 M states | A teardown that reported nothing left nothing behind, except what came later than it looks (`SilentTeardownIsClean`); it ends within its budget (`TeardownIsBounded`) and leaves no process, socket or directory but one that could not be deleted (`NothingOutlivesTheProcess`); a prune after a kill recovers the rest (`PruneRecovers`). A pass means what it says, but for paths an entry of `dataRoutes` leads to (`PassIsGated`, `PassedAsPinned`, `NothingMovesUnasked`). `DecodedIsWritten`, `FrameInHandIsGiven` |

Type invariants are not run: each is a theorem (`TypeCorrect`) or a part of one.

Each property has a mutant in `PROJECT.json`: a plausible bug (a dropped guard, a
`WHERE` on the id alone, `DO UPDATE` for `DO NOTHING`, a flag not reset) that
breaks it in the same instance.

Runs that TLC must find violated. Each checks a sentence of the repository:

| Run | Sentence | What the code does |
|---|---|---|
| `webhook_probe_leak` | `probeInFlight` "is set when a probe is claimed and cleared on its outcome" | A call that got the probe and then loses the claim, is refused by the URL guard or throws records no outcome: the breaker stays half-open and blocked until a reset or restart |
| `revocation_half_applied` | active-chain queries "never observe a half-applied revocation" | The INSERT of a delegation looks at its own parent only, in its own snapshot: one reported while the parent's revocation is uncommitted, or after descendants of its own, leaves an active delegation below a revoked one for good |
| `replica_exit_unnoticed` | shutdown waits "for the LB readiness probe to notice and stop sending traffic, then exit" | Without OpenTelemetry no hook is registered, the race is settled at once and the process exits in the turn of the signal: no probe is answered 503 |

### Bounds and why they suffice

*Two* of everything that runs at once, because each race here is between a reader
and one writer, or between two writers of one row; the theorems cover more. *One*
delivery, agent or session: rows do not interact, but for the breaker (one per
webhook; `webhook_probe_leak` has two deliveries) and the issuer's uniqueness (two
anchors). *Faults, crashes, admin requests* are one to three: enough for every
pair of places they may hit in one handler and its retry. The attempt budget is
two, so that the last attempt and one before it differ. `JwksUrl = {}` in TLC: an
explicit URL is a source like an issuer's, and the theorems are for any set. The
clock of `Enrollment` reaches two ticks past the expiry of tokens and manifest.
In `ingest_resend` the duplicate item makes de-duplication in the batch and against
the table differ, and the other end of the session flips its status.
In `live_streams` the third connection meets the cap, four publications overrun a
backlog of three, and the backlog is longer than the replay. In `replica_drain` two
windows fit into the clock, so that a bucket with limit 2 can admit the four
requests `WindowBound` speaks of; one prober is enough, since probers share only the
drain flag.

In `scripts_harnesses` the plan of the image harness has two extractions under one
name, so that a call can meet what its predecessor left; quiet and budget are the
smallest values at which a sighting, a failure and the deadline can each end a sweep.
The images differ from the reviewed one in one or two ways each, one by an entry of
`dataRoutes`; the dynamic route has a path no probe looks at. The answers have frames that end within a write,
at its end and across two, a trailer field, a chunk without CRLF and garbage; every
one of their segmentations is checked.

`CHECK_DEADLOCK FALSE` stands in every run: once budgets are spent and work is
done, these systems rest. That work does not stop early is what the liveness
properties say.

### Fairness

* `WebhookDelivery!FairSpec`: every await of a running call is answered (fetches
  and statements time out), so weak fairness of each call's next step; the reaper
  is an interval, so weak fairness of its flush; strong fairness of starting a
  scheduled call, because here it competes for the bounded set `Attempt`, which
  the program does not have. The breaker's threshold (4) is above the faults (2)
  in `webhook_liveness`: once a probe leaks, rows do *not* settle, which is what
  `webhook_probe_leak` shows.
* `JwksRefresher!FairSpec`: a pass goes on, or starts at the next interval; keys
  get stale as time passes. A fetch may fail, but only `MaxFaults` times: with an
  issuer that is always down nothing can be promised.
* `Enrollment!FairSpec`: the clock advances, sweeps run at each interval and emit
  what they found. Crashes are finitely many.
* `EventIngest!FairSpec`: a request that runs goes on; nothing makes a client
  retry.
* `LiveStream!FairSpec`: `start` runs to its end (it has no await) and an interval
  that is set fires. Nothing makes clients leave or events come.
* `Replica!FairSpec`: the deadline is a timer and fires; a settled race exits. A
  hook may hang, and the clock, probes and requests may stop.

## 4. What is proved

The theorems hold for all values of the constants (any number of replicas,
requests, rows, URLs). They rest on the named `ASSUME` of each module only: types of
the constants, finiteness of `Attempt`, `Sweeper` and `Request` where properties count,
for the harnesses a budget of at least one quiet window and a stream plan without
a network, as in the code, and for the stream client the two assumptions on what is
sent to it (section 2).

| Module | Theorems | Inductive invariant and why it is needed |
|---|---|---|
| `WebhookDeliveryProofs` | `TypeCorrect`, `UniqueTickets`, `BreakersStayConsistent`, `DeliveredMeansAcked`, `AuditedOnce` | `TicketInv`: a row not yet inserted has no history, since inserting resets the counter; then the `WHERE attempts = n` makes a claimed number larger than all that were used. `AckInv`: a call about to write `delivered` was answered 2xx. `AuditInv`: per webhook, audit rows, calls that have still to write one, and the active webhook itself, which somebody may flip, are together no more than its activations |
| `JwksRefresherProofs` | `TypeCorrect`, `KeysMatchUrls`, `ImplementsAnchorCache`, `KeysAreKept` | `KeysInv`: what a pass is about to write came from the URLs it listed. The write's WHERE carries that to the row. `CacheInv` adds that its source had offered it. The refinement has one lemma per action; `KeysAreKept` follows from the steps of `AnchorCache` alone |
| `RevocationProofs` | `TypeCorrect`, `EntriesProjected`, `RevokedForGood`, `EntryIssuerFixed` | `RelayInv`: while a POST has still to commit, its transaction holds whatever is active: past the UPDATE it hit the row, past the cascade it found the row's active delegations, for what is inserted after the entry is inserted as revoked |
| `EnrollmentProofs` | `TypeCorrect`, `OneTimeToken`, `RollbackKeepsToken`, `RegistryIsEnrolled`, `EnrollmentImplementsRegistrar`, `ExpiredOnce`, `DeregisteredForGood` | `TokenInv`: at most one transaction holds a jti, a transaction past its INSERT found the jti unspent and has the manifest of its token, and a used jti is stored until its token expires. From it the refinement follows action by action: COMMIT is `Enrol`, either sweep `Retire`, retention `Forget`, and whatever else a request or a tick of the job does is a stutter. `EventInv` counts, per agent, events emitted, events to emit and the activation still to be swept |
| `EventIngestProofs` | `TypeCorrect`, `FanOutIsOnce`, `ReplaysWhatWasDone`, `KeyHasOneAnswer`, `ReportedSessionsHaveEnded` | `DoneInv`: answers not stored yet are done too. `AnswerInv`: who re-reads finds a row unless the key is loose. `SessionInv`: a clean request that has passed a session's end left it ended, for nobody sets an ended session back to started. `FanInv` counts, per event, times fanned out and requests still to do it against the rows there were |
| `LiveStreamProofs` | `TypeCorrect`, `SlotsMatchStreams`, `SilentWhenClosed`, `FeedStaysExact` | `BusInv`: the backlog is the end of what was published. `TurnInv`: only the stream whose turn it is has something to replay, and it listens already. `FeedInv`: at each iteration of the replay, what was sent is exact for the prefix replayed so far |
| `ReplicaProofs` | `ComposesGate`, `ComposesLifecycle`, `TypeCorrect`, `LimiterHolds`, `TimersMatchHandles`, `DrainIsFinal` | A step of `Replica` is a step of `Gate` and one of `Lifecycle`, so each is proved alone. `BucketInv`: while a window runs, its requests are the last ones in the history and whatever is `limit` older than its first is a window older; once it is over (or collected), fewer than `limit` requests are younger than a window. `RefusedInv`: a prober that was refused has no probe waiting for the database, and the drain does not end |
| `ScriptsProofs` | `Inductive`, `PassGated`, `PassedPinned`, `NothingMoved`; `TeardownInductive`, `SilentIsClean`, `Bounded`, `HostIsClean`, `PruneIsEnough` | `IInv`: a verifying run past a check satisfies it with the pins it read, whatever was written since; and pins that no consent or unreadable file made differ from the reviewed ones only by additions, as does an update about to write. `TeardownInv`: until the cleanup everything alive is in a registry (`HostInv`); each place in a sweep bounds the clock by the sweep's start, and that by the sweep before (`ClockInv`); an unreported sweep began a quiet window after the one before and ended one later, so that what comes afterwards is beyond the teardown's reach (`CleanInv`); nothing of the run can be created or started once a trusted prune has begun (`PruneInv`) |
| `ScriptsProofs` (stream client) | `StreamInductive`, `Decoded`, `FrameGiven` | `StreamInv`: before the head is known nobody waits and `buf` is the wire so far (`HeadFirst`); a promise waits only for a frame that has not come (`WaitingForMore`); the decoder of a chunked body stands at a place of the wire and no turn moves it (`DecodedSoFar`). The place is a pair: `k` writes taken, everything from byte `c` on pending, the state saying what begins at `c` (`Decodes`). `TurnMoves`: a turn goes from one place to a later one or stands still; `StuckFacts`: where it stands still, the next chunk is not all there, so `k` is the number of writes that have arrived. Nothing in it knows how the bytes were cut into segments |

Only model-checked: everything temporal beyond `[]` (`Settles`,
`DisabledHookDrains`, `CacheCatchesUp`, `AgentsRetire`, `StoredIsFannedOut`,
`AbortedIsReleased`, `Exits`),
since the proof system has no `ENABLED`; and the violated runs, which are
counterexamples.

Every safety invariant and action property of a passing run is thus a theorem. The
theorems about the stream client need induction over lengths (the chunks of the
first `n` writes, the turns of a loop, `FlattenSeq` of the community modules). The
library's induction rules take an operator and cannot be used, so the induction is
over *sets* of naturals: `NatInduct` follows from the well-foundedness of `<` (`WFMin`),
and `PrimRec` gives each recursively defined function its equations. TLC had checked
`StreamInv`, decoder and all, over the states of `scripts_harnesses` before it was
proved.

## 5. What is not modelled, and known limits

* `PROJECT.json` lists every component with its status and reason.
* The clocks of replicas are one clock. Retention's sweep is one step: its
  statements run in one transaction.
* `tct.issued` and the entry it must see: the INSERT and its sub-select are one
  statement and so one step. Two transactions that overlap *inside* that statement
  (the entry commits after the sub-select's snapshot and before the INSERT's
  commit) are a hazard of their own in `PROJECT.json`.
* In `EventIngest` publishing an event and sending the statement of its projection
  are one turn of the event loop; the statement's effect is put in the same step.
* The clock of a replica does not run backwards; `Date.now()` may, and a window
  then lasts longer. The bus, the limiter and the timers are per process, and so is
  each of their models.
* A failed `enqueue` of the live stream cannot happen (its comment says why), so no
  action stands for it. Requests that the gate answers itself change nothing but
  the count of refusals.
* These behaviours of the code are in the models without a run of their own:
  overlapping webhook calls may exceed the retry budget by the calls in flight; a
  slower call may set a row that was delivered, or swept by a 410, back to
  pending; a slower JWKS pass may put keys from before a rotation back with a
  fresh timestamp (until they are stale); two first POSTs of a revocation that name
  different issuers are both answered 201; retention may delete a `jti` in the last
  second in which its token is accepted, which then registers once more; of two
  different ends of a session the one that arrives last decides, duplicates
  included; an ingest, or a boot that is not over, arms during the drain the
  intervals the shutdown has just cleared; if the webhooks cannot be listed after a
  batch was stored, its deliveries are lost and the request is answered 200.
* A webhook's claim is there "so concurrent callers can't both POST the same
  delivery" (`lib/webhooks/service.ts:240`). A reaper tick that reads the row *after*
  the first claim claims it again, since a claim does not move `next_retry_at`: the
  attempt numbers stay unique, the POSTs overlap.
* Of the harnesses: a crash between the writes can leave the baseline unreadable, and
  the next update, having nothing to compare with, then re-pins the gate without
  `--allow-gate-change` (`verify-image.mjs:820-834` asks for it). The confirming
  listing of the re-check fails without a word (`:1219`), and `--prune` reads a failed
  `docker ps` as an empty list, although `:1262` and `:1064` promise that an unanswered
  listing is never taken for an empty one. A failed middleware probe is not among the
  structural checks: an update may record empty lists of matchers and routes, which
  no verifying run then accepts. An update takes a new entry of the route tables
  without asking (`:5830-5836`), and check 27 is change detection without a policy
  (`:6922-6928`): if the entry is one of `dataRoutes`, whose regexps Next compiles
  from the manifest, an image that passes may serve the entry's page from a path
  outside the gate. The code says so (`:6897-6905`); the table is empty in this
  application, and `PassIsGated` and `NothingMovesUnasked` except what such an entry
  reaches. A directory whose `rmSync` fails stays: `cleanupSync` says nothing
  (`:1130-1133`), and `withImageContainer` has struck it from the registry by then
  (`:2248-2249`), so that nothing tries again. A decoding error rejects a waiter whose frame was
  decoded from the same segment, against the comment at `verify-sse-stream.mjs:1528`;
  a truncated chunked body counts as complete once the socket has ended
  (`:1476`), for a caller that asks then but not for one that was waiting.
* Of `verify-image.mjs`, the parsers that find the gate in compiled code and the text
  of the reports are left out, and the live checks of the relay, of CORS and of
  OpenTelemetry are a verdict. A tag that is rebuilt while a run looks at it is not
  modelled: the image is one. The order of table entries, which is pinned too, and
  `skipInternalRouting`, which takes a route away, are left out. `verify-request-gate.mjs`, `audit-review.ts` and the
  end-to-end suites are sequences of requests or queries without state of their own.

## 6. Plan

Webhook delivery, JWKS cache, revocation, enrollment, ingest, the live stream, the
gate, the lifecycle and the harnesses are built, checked and proved about as
described above. Next:

1. **Abstract specifications**, each with its detailed one shown to implement it as
   for `AnchorCache` and `Registrar`: a write-once answer per key (`EventIngest`),
   a relay in which storing and projecting an entry are
   one step (`Revocation`), a sliding log of admissions for the limiter (`Gate`).
2. **Composition** of ingest with the token projection, the live stream and webhook
   dispatch: an event that is posted, stored, projected, streamed and delivered,
   with crashes in between.
3. **Finer steps** where a statement is one step now: the INSERT of a token and the
   snapshot of its sub-select; the advisory lock of retention.
4. **Pinned keys, namespaces and the enrollment form**: the admin tables whose unique
   indexes decide races, if a property of more than one statement turns up.
5. **Proofs**: the refinements of item 1, and the safety half of that composition.
