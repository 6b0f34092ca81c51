# TitleTrust: TLA+ models and proofs

TLA+ specifications of the stateful parts of the TitleTrust backend, TLC
configurations that check them on small instances, and TLAPS proofs of the
properties that matter most, for every value of the constants. Paths are
relative to the repository; `backend/` is `src/backend/`.

## 1. The system

TitleTrust audits Kenyan land titles. A Flutter client talks to a FastAPI
process; documents live in Firestore, queues and counters in Redis, long
investigations are driven by Cloud Tasks calling back into the API.

| Component | State it keeps | Operations | Interacts with |
|---|---|---|---|
| Background jobs, API side (`services/background_job_service.py`, `repositories/job_repository.py`) | job documents, uploaded temporary files | submit, dispatch, cancel, poll | Redis queue, audit log, inline runner |
| Redis queue (`queues/redis_queue.py`) | one list, a `cancel-job:` marker per job, heartbeats | rpush, blpop, set and get of the marker, each through the retrying `_execute` | API, workers |
| Worker runtime (`workers/runtime.py`, `tasks/audit_tasks.py`) | payload in hand, one circuit breaker per job type and process | `process_job`, retry with backoff, deferral, dead-lettering | queue, documents, dead-letter queue, breaker |
| Circuit breaker (`infrastructure/resilience.py`) | state, failure and success counts, time of the last change | `call`, `call_async`, `_open`, `_close` | the threads of a process |
| Dead-letter queue (`infrastructure/dead_letter_queue.py`) | one entry per job | store, inspect | worker runtime |
| Audit event log (`repositories/audit_event_repository.py`) | numbered, hash-chained documents per session | `append` in a transaction | every service |
| Marathon session (`services/session_service.py`, `agent/marathon_loop.py`, `repositories/session_repository.py`, `services/cloud_tasks.py`, `services/sync_service.py`) | session document (status, steps, checklist, findings), idempotency keys | start, bootstrap, tick, retry | Cloud Tasks, audit log, realtime |
| Realtime broadcaster (`realtime/*.py`, `api/realtime_router.py`) | sequence counters, replay buffer, bounded subscriber queues | publish, register, unregister, prune | Redis pub/sub and streams, clients |
| Realtime client (`frontend/titletrust/lib/realtime`) | expected sequence, reorder buffer, seen ids, connection | receive, recover from a gap, reconnect | broadcaster, last-state endpoint |
| Token rotation (`services/session_security_service.py`, `repositories/token_repository.py`) | sessions, token families, generations | create, rotate, revoke | auth router |
| Device sessions (`services/device_session_service.py`, `api/auth_router.py`) | current and previous request secret, revoked | register, list, revoke | the request gate |
| Gemini API manager and forensic engine (`core/gemini_api_manager.py`, `forensic_engine.py`, `tasks/audit_tasks.py`) | semaphore, call window, cache, the list of the inner limiter | a task's documents: validate, look up, upload, investigate | worker runtime, model API |
| Rate limiting and adaptive protection (`infrastructure/rate_limit_store.py`, `middleware/`, `security/`) | hits per key, observations and threat signals per fingerprint | assess, mark, hit | every request |
| Graceful degradation (`infrastructure/graceful_degradation.py`) | level per service, fallback cache | mark, execute | nothing calls it |
| Stateless or presentation: authorization, geospatial engine and agent tools, audit export, telemetry, UI | none that matters here | | |

What is hard in it, by component:

* **Jobs.** A job travels through a list without acknowledgement, is retried by
  pushing a changed payload, is cancelled through a second channel that is
  looked at once, and its document is written by the API and by any runner. A
  job must be delivered once, not be dropped, be buried only with cause, and keep
  its final status.
* **Breaker.** Shared by the threads of the API process without a lock, so that
  every test may be stale when acted on. Counters and state must agree all the same.
* **Audit log.** Requests, ticks and workers append to one chain at once. The
  chain must not fork, gap, repeat or lose an acknowledged event.
* **Sessions.** Starts race on an idempotency key; ticks, bootstrap and retry
  save whole snapshots they loaded earlier; failures between a save and the
  scheduling of the next tick end the chain.
* **Realtime.** Numbering and fan-out are separated by awaits, queues drop,
  clients repair gaps while events keep coming.
* **Tokens.** Verify and rotate are not one transaction; revocation is two writes.
* **Device sessions.** Registration and revocation are read-modify-write without a
  transaction; a request is signed with a secret that may be on its way out.
* **Throttles.** A rate limit is enforced by two stores with different windows; the
  model calls pass two throttles, one of which sleeps in a semaphore and one with
  its lock held; scores feed on the signals they leave.

The list of hazards, each at its line, is in `PROJECT.json`.

## 2. Modules

| Module | Contents |
|---|---|
| `CircuitBreaker` | one breaker, many threads, at the granularity of Python function calls |
| `CircuitBreakerProofs` | its proofs |
| `JobLifecycle` | abstract: what a client that submits, polls and cancels a job is promised |
| `JobPipeline` | API, Redis list and marker, runners, documents, dead letters, faults; implements `JobLifecycle` |
| `JobPipelineProofs` | its proofs: types; delivery, loss, final status, dead-lettering, cancellation; the refinement; the violated properties for all instances |
| `AuditTrail` | abstract: per session one list, appended to atomically |
| `AuditLog` | the transactional, hash-chained append; implements `AuditTrail` |
| `AuditLogProofs` | its proofs, the refinement included |
| `MarathonSession` | start, bootstrap, tick and retry of an investigation, and the steps of the agent loop |
| `MarathonSessionProofs` | its proofs |
| `Broadcaster` | numbering, storing, fan-out, replay and the Redis listener, as one connection sees them |
| `RealtimeClient` | the app's controller and service; extends and composes with `Broadcaster` |
| `RealtimeProofs` | the proofs of the two |
| `TokenRotation` | sessions and refresh-token families over two collections |
| `TokenRotationProofs` | its proofs |
| `DeviceSessions` | register, list and revoke of a device session |
| `RequestGate` | abuse assessment and rate limit in front of the handlers; extends `DeviceSessions` |
| `RequestGateProofs` | the proofs of the two |
| `ForensicAnalysis` | forensic tasks behind the Gemini manager and the inner limiter |
| `ForensicAnalysisProofs` | its proofs |
| `MC*` | constants for TLC |

Operators named `...Late`, `...Beyond`, `...Peeking` and the like, marked "Mutant"
in a comment, are plausible bugs in the definition that follows them; no
specification uses them. They show that each checked property depends on the
code: with the definition replaced by its mutant, TLC reports the property
violated.

### CircuitBreaker

`CircuitBreaker.call` takes no lock. CPython 3.11, which the Dockerfile
installs, can switch threads at a function call, so a step is the code between
two calls: `_record_failure` counts (`CountFailure`), calls `datetime.now()`,
tests (`TestFailure`), enters `_open()` (`OpenSetState`), and after another
`datetime.now()` sets `last_state_change` (`Stamp`). `pc` holds the point of each
thread. Time is the bit `timer`: the recovery timeout has passed since
`last_state_change`. The code has no cap on its counters and the model has none; the
instance bounds the calls (`MaxCount`).
A call refused with `CircuitBreakerOpenError` changes nothing and has no step. That the
breaker ever leaves OPEN is not claimed: its only caller looks at the state first and does
not call while it is OPEN (`workers/runtime.py:296`; `DeferredIsRetried`, section 3).

### JobLifecycle and JobPipeline

In `JobLifecycle` a job is *open* from its submission until it has a verdict, or a
fault loses it, or, where there is no queue, it is deferred and forgotten; a job never
opens again, only an open job gets a verdict of the system (`Decide`), and what a client
is told otherwise changes by work on an open job or by a cancellation. `Lifecycle` maps
`JobPipeline` to it: `Open` is the jobs that are accepted, queued or in a runner's
hands, `Polled` the status a client can tell apart (QUEUED, RUNNING, RETRYING and
DEFERRED are all pending).

In `JobPipeline` a step is the code between two calls another actor can observe: one Firestore
write, one Redis command, or the protected task. `request` and `cancel` are the
progress of the POSTs of the API; `status`, `attempts`, `result`, `poisonPill`,
`deadLetter` are the Firestore documents; `queue` and `marker` are Redis; `files` the
uploads on disk; `pc`, `load`, `outcome` belong to a runner, which is a worker
process or the API's background thread of one job (named by that job); `breaker` is
the breaker of each process, its calls atomic (their interleavings are
`CircuitBreaker`'s subject).

`deployment` is chosen once: `redis`; `inline_redis`, the default `QUEUE_MODE` with a
Redis client present, in which a first attempt runs in the API and its retries go to
the list; `inline`, without Redis. In the API `time_limit` always raises, because
Python accepts signal handlers in the main thread only; `Ends` says so. (It asks its
conditions in the order of the code, with IF and ELSE IF: as a CASE with overlapping guards
it left the choice open, which TLC does not notice and the first proof about it did.)

Faults are explicit (`AllFaults`) and bounded by `MaxFaults`: crash of a process
or thread, an `rpush` that raises or is applied without its reply, the lost element of a
`blpop`, markers that cannot be read or set, a dead-letter write that is swallowed, a final
write that raises. `_execute` tries three times (`queues/redis_queue.py:46-63`); an applied
try whose reply is lost is followed by the next one as a step of its own (`second_try`,
`third_try`), so that one enqueue leaves up to three copies, and may raise having left them.
A worker reads the marker in one step and writes CANCELLED in another (`SeeMarker`,
`DropCancelled`). `lost` is a history variable: the jobs whose delivery or entry a
fault destroyed. No fault is needed for the two violations below.

The two job types share all code but the task and are one type here; each has a
breaker of its own, so a mixed queue is a product of two such models, sharing a
list. `time.sleep` is a step of unspecified length. The worker's audit and realtime
events are caught and change nothing; the API's audit append is not caught and is
`DispatchFails`. The worker and the API are taken to see the same temporary
directory; in `docker-compose.yml` they do not, which is one more way to get the
result of `jobs_input`.

### AuditTrail and AuditLog

`Read` is the body of the transaction (last event, number, hash), `Commit` the
successful `txn.create`, `CommitUnanswered` the same with a lost reply, `Abort` a
retried attempt, `GiveUp` everything that raises. Of Firestore it is assumed only
that a create fails when the document exists; isolation is not assumed, the
proofs show that the document name alone carries the chain. sha256 is taken as
injective. `Trail` maps the documents to the abstract list, `answer` maps to itself.

### MarathonSession

`doc` (with `owner`) and `key` are the two Firestore collections, `call` the requests and
background bootstraps under way, `boot` FastAPI's background tasks that wait. A key that
another user registered counts as unknown (`ResolveKey`). The tick that a RUNNING result
schedules is left out: it arrives with a service account's token
(`services/cloud_tasks.py:47`), the owner check refuses it
(`services/session_service.py:232`), and it steps nothing. The ticks of the model are the
owner's own requests. A step of the loop loads a snapshot (`LoadState`), computes on it and
saves all of it (`SaveState`, with Firestore's merge of nested maps, `Merge`); between the
two others write. `update_session_state` is a write of single fields whose failure is only
logged (`SyncState`).

The loop is followed branch by branch, in the order of the code: queued, budget,
ended, image, boundary, records, decision. What a model or map service answers is a
nondeterministic choice of the outcomes the code tells apart. Decisions by the
language model are absent because no execution gets there: Step 5 leaves five
`google_search` actions behind, and `generate_decision` decides by itself after three
equal actions (`AnnounceThought`, `Conclude`). A save that
raises is counted and repeated by the step's `try`, but what the handler of a refused source
document saves is outside it: `guarded` tells the two apart.
`total_steps` and `retry_count` are replaced by a choice:
any step may be the one at the budget, any error the one too many.

`TimestampLoads` is the assumption that a stored `last_update` can be loaded. The
code stores a server timestamp (`repositories/session_repository.py:34,44`) and
declares a float (`agent/marathon_loop.py:64`); pydantic refuses the conversion. With
`TimestampLoads = FALSE`, the code as it is, every bootstrap goes to FAILED and no session
is ever worked on, which is a theorem (`NeverInvestigatedAsStored`, section 4). The run
takes TRUE: what it shows is about the code with that one conversion repaired, without
which there is nothing to look at. No property about resuming or continuing is claimed.

### Broadcaster and RealtimeClient

`Publish` to `Fanout` are the stretches of `Broadcaster.publish` between two awaits.
Agents publish from threads with event loops of their own, so the local counter is
read and written in two steps (`Publish`, `Count`), the task that publishes to the channel
may be cancelled when its loop ends, and an acquire of the one `asyncio.Lock`
(`realtime/broadcaster.py:47`) that is held under another loop raises: the fan-out is
then lost (the cause `lock`). `lost` is a history variable that
names why the client may miss a number. `Register` is one step because the code
holds the broadcaster's lock throughout; reading the stream there may fail, and the
whole buffer is offered then. `mode` is chosen once: memory, Pub/Sub, or
Pub/Sub and Streams. An event has an id (its order of creation), its number and
whether an append gave it an offset; payloads are left out. In streams an event has a second
name, the id of its entry (`OffsetOf`, `EventAt`), and that is what `/last-state` answers
there.

A handler of the client runs from await to await too: `_handleEvent` up to the first write
of the preferences (`HandleEvent`, `Apply`, `Defer`), the two writes (`SaveId`,
`SaveNumber`, which goes on to the reorder buffer: `Drain`), and `_recoverFromGap` in four
steps (`AnswerLastState`, `RemoveId`, `RemoveNumber`, `Reconcile`). Other events are
handled between any two. The first number received becomes the one expected
(`realtime_controller.dart:211`), and those below it are dropped if they come later: the
cause `first`. A restart between the writes of the two preferences finds them in
disagreement: `torn`. The answer of
`/last-state` has no sequence number, so that recovery clears the buffer and leaves
`expected` alone, as the code does; the position it takes over is the newest event of
the stream or the replay buffer, received or not. A pause then resumes behind events that
were never delivered: the cause `jumped`, which the proof of `ResumesSeamlessly` brought to
light (it takes three events, a recovery and two breaks of the connection).

### TokenRotation

One step per access to Firestore. `call` holds what a request has read: the token it
verified (`VerifyToken`, with whatever session the request names: nothing compares the
token's family with it), the session (`GetSession`), the ACTIVE tokens a revocation
found (`QueryFamily`). `Advanced` writes the fields the update names over the document
as it is then. The history variables `held` and `leaked` say which tokens
clients have, and for which sessions a token was stored
behind a revocation's query. `ExpiryCompares` says whether a stored `expires_at` can be
compared with the time. With timestamps as Firestore returns them it cannot: the comparison
of aware and naive datetimes (`repositories/token_repository.py:121`) raises, and no token
is ever exchanged, which is a theorem (`NeverRotatedAsStored`). The runs take TRUE, a store
that returns what was put into it.

### DeviceSessions and RequestGate

A request arrives (`Arrive`: the middleware's assessment, which blocks or lets pass),
passes the rate limit (`EnforceRateLimit`) and then runs its handler in steps of one
access each. `RequestGate` extends `DeviceSessions`, whose `request` it fills. Scores are
counted in half points. Fingerprints contain path, method and correlation id, so that
only requests that repeat a correlation id share one. The memory store counts hits, the
Redis store one entry per second (its members are time stamps), and both refuse the request
that reaches the limit after counting it. The verdicts THROTTLE, CHALLENGE
and QUARANTINE stop nothing in the code: no challenge hook is installed.

### ForensicAnalysis

A task is one `perform_forensic_audit` in a thread. `Acquire` to `Respond` happen inside
the manager's semaphore; `AwaitCapacity` is one look at the window under its lock,
`EnterLimiter` and `LeaveLimiter` are the `RateLimiter` around `investigate`, which sleeps
with its lock held and then forgets its calls. Both lists of times are in order, so
`Recent` drops from the front what is too old. Time advances freely between steps, and
a sleeper continues at any time after its sleep. `Finished` lets behaviours end, so that
TLC's deadlock check means that no task is locked up.

## 3. What the runs check

| Run | Instance | Distinct states | Question |
|---|---|---|---|
| `breaker` | 3 threads, thresholds 3 and 2, counts up to 5 | 101,524 | counters against state under every interleaving |
| `jobs` | 2 jobs, 2 workers, all deployments, 2 attempts, one fault of any kind but `duplicated` and `late_write` | 998,145 | delivery, loss, burial, final status, cancellation, the fate of inline jobs; refinement of `JobLifecycle` |
| `jobs_live` | 1 job, 2 workers, 3 attempts, two faults `duplicated` or `late_write` | 519,777 | copies of a job; every accepted job ends |
| `jobs_input` | 2 jobs, 2 workers, no faults | violated | `AttemptHasInput` |
| `jobs_defer` | 2 jobs, 1 worker, breaker as configured (5 and 2), no faults | violated | `DeferredIsRetried` |
| `audit` | 3 calls on one session, 1 on another, 3 attempts | 219,904 | chain, once-only, refinement of `AuditTrail` |
| `session` | 2 sessions, 1 key, 2 users, 2 calls, one fault of any kind | 2,419,005 | one investigation per key, evidence, conclusion, final status |
| `realtime` | 2 publishers, 3 events, queue and buffer of 2, all modes, two failures and two breaks without Redis, fewer with it | 1,861,839 | order, completeness, resumption, durability |
| `tokens` | 2 sessions, 3 tokens, 2 requests, session limit 1, one mishap | 1,224,373 | revocation of a family against rotations |
| `tokens_once` | the same without mishaps | violated | `OneTimeUse` |
| `gate` | 2 users, 2 secrets, 4 requests of which 2 at a time, limit 2 in a window of 2, both stores, one store failure | 988,140 | revocation against registration, admission, escalation |
| `forensic` | 3 tasks, 2 slots, 2 calls and 2 ticks a period, inner limit 3, 5 documents | 1,926,365 | calls per period; no lock-up |

**Bounds.** Three threads are the fewest for one to reopen the breaker while
another enters HALF_OPEN on an old decision and a third closes it; the failure
threshold 3 leaves room for a reset between two counts. Two jobs and two workers
are the fewest with a job overtaking another and two processes acting on one job;
two attempts have a retry and a last attempt. `FailureThreshold = 2` lets the
breakers of `jobs` open, half-open and close. One fault is the
bound on faults of most runs, two that of `jobs_live`, where one `rpush` takes both to leave
three copies; the theorems have none. Three racing calls let one lose two
races. In `session` two calls are the fewest whose snapshots overlap, and two sessions
the fewest for two starts with one key. Three events let one overtake another and a
third arrive ahead of both; queue and buffer of 2 overflow; `MaxGap` is 1 where the code
has 3: every gap asks for the state, and some close before it is taken over.
A recovery, a pause and a resumption behind it need two breaks; the memory mode, the one
`ResumesSeamlessly` is about, is explored in full. With Redis `MishapsBounded` lets two
things go on at a time: breaks and failures so far, events in the channel (counted twice in
streams), handlers and recoveries under way. Three tokens let a family grow by two
rotations, or by two that race. In `gate` the window of 2 holds three seconds, more than the
limit, so that both stores have to refuse; a script needs three requests to be blocked.
In `forensic` five documents are one more call than `CallsBounded` allows in a period,
and `LimiterCalls = 3` keeps the inner limiter from granting the bound by itself.
`SYMMETRY` is declared for interchangeable sessions, calls, publishers, tokens,
requests, secrets, users and tasks, in runs without liveness. Deadlock checking is off
where behaviours end at a bound or because nothing is left to do; `breaker`,
`session` and `forensic` check it.

**Fairness.** Only `JobPipeline` claims liveness: a started request, a worker's loop and a
background task continue, as `run_forever` and the thread pool do, and time
passes. Requests, cancellations and faults are never forced. `EventuallyFinal` is
claimed below the breaker's threshold (10, more than the attempts three copies can make),
because at the threshold `DeferredIsRetried` fails.

**What they show.** The violated runs are disagreements of code and documentation, each with
a quotation in `PROJECT.json`: a retry never has its input; a worker whose breaker opened
never runs a job again; two requests that verified one refresh token both exchange it, and
both results work. That without a queue no job ever completes is a passing invariant and a
theorem (`NothingCompletesInline`). The passing runs show what interleavings and single
faults cannot do, and their properties say what they can: `RevocationReaches` excepts a
rotation behind a revocation's query, `EndedStands` a step at its budget or a snapshot read
before the end, `NothingMissed` the causes in `lost`, `DeadSecretsStayDead` a registration
that had read before; and `SingleDelivery`, `FinalStatusStands` and `ImplementsLifecycle`
are claimed without a repeated `rpush` (`OnceFaults`), for which `DeliveriesBounded` says
what remains. These exceptions are races the code loses; the hazards in `PROJECT.json` say
for each that it is excepted and not caught. Further disagreements met while modelling, not
runs of their own:

* OPEN can be left before the recovery timeout by a thread that acts on an old
  decision (`LeavesOpenByTimeout`, proved for a single thread, is false for several).
* stored sessions cannot be loaded (`TimestampLoads`, above).
* the next tick is posted by Cloud Tasks with a service account's token, and `/audit/tick`
  wants the owner's (`services/cloud_tasks.py:47`, `services/session_service.py:232`): the
  chain of ticks is scheduled and refused on arrival. After a failed audit append or a
  failed scheduling a session stays RUNNING, from which retry is refused.
* a tick at the step budget rewrites a FAILED or FLAGGED session to COMPLETED or
  WAITING_FOR_USER, because the budget is tested first (`BudgetSpent`).
* rotation, family revocation and replay: the branch that should revoke a family
  when a rotated token is presented follows a verification that refuses such a token
  first; a new token is returned also when storing it failed.
* every rotation is refused over Firestore, because a stored expiry cannot be compared
  (`ExpiryCompares`, above), and a rotation would accept another session's token
  (`services/session_security_service.py:182`): it advances the session that was named and
  leaves that of the token behind.
* `_create_error_report` has no key `error`: a response that cannot be parsed is cached
  as a success for the whole TTL, while
  `tests/test_gemini_api_manager.py:36` has errors not cached.
* `GeminiApiManager` limits the forensic calls only: agent loop, vision, boundary tools
  and titbits call the model without it.
* `upload_file` retries `TimeoutError` and `ConnectionError`, and its body turns every
  exception into `APIError`: it never retries.
* a limit of n lets n - 1 requests through: the one that reaches it is counted and refused,
  while `tests/test_rate_limit.py:11` has a limit of 2 let two through
  (`LimitNeverReached`). In Redis the requests of one second count as one, and nothing bounds
  how many of them pass.
* `cancel_job` overwrites any status, and a runner past its test overwrites
  CANCELLED with RUNNING or COMPLETED; the marker expires after
  `WORKER_TASK_TIMEOUT_SECONDS`, however long a job waits (`MarkerExpires`).
* `DeferInline` drops a deferred job when there is no Redis.
* `_dispatch` falls back to inline only if no Redis client object exists; when Redis
  is merely down the POST fails and leaves a QUEUED document.
* a worker that dies loses the job it popped; README.md:384 describes
  heartbeat-based retry, and nothing reads the heartbeat.
* README.md:406 says of the half-open state "Allow one request to test recovery";
  `call()` admits every caller while HALF_OPEN.
* the app drops number 1 for good when number 2 arrives first: the first number received
  becomes the one expected (`realtime_controller.dart:211`; the cause `first`).
* one `asyncio.Lock` serves several event loops (`realtime/broadcaster.py:47`): a contended
  acquire raises, and the event is fanned out to nobody (the cause `lock`).
* an app that is started again expects the number it has, not the next one: events pile up in
  the reorder buffer until a gap makes it fetch the whole state (`StallLasts`, section 4).
* a dead-letter entry's `attempt_count` is the payload's `attempts`, which does not
  count the attempt that failed.

## 4. What is proved

Every safety property that a passing run checks is a theorem: for any
number of jobs, workers, threads, calls, sessions, tokens, events and faults, and for
every threshold, limit, size and time. The assumptions are those each module states of
its constants, checked by TLC in every run, and, where a theorem says so, the absence of
a kind of fault. They say that numbers are natural, that limits the code divides or
counts by are positive, and that `None` is none of the things it stands in for
(`NoneIsNoDocument`, `NoneIsNoValue`, parts of the others).

* **CircuitBreaker.** `ClosedBelowThreshold` and `HalfOpenBelowThreshold` are inductive
  together with the types (`TypeOK`, a lemma here): whoever makes the premise true is the
  thread the conclusion asks for. `LeavesOpenByTimeout`, which is false for several threads,
  is proved for one, by `DecisionsFresh`: what a thread decided is still true when it acts.
* **JobPipeline, types.** `TypeOK` includes what the program counter implies of the
  payload and the outcome (`RunnerOK`), without which it is not inductive.
* **JobPipeline, loss.** `NothingDropped` holds for any faults. It is inductive with
  `ThreadOwnsJob` (an API thread holds only its own job), which is needed because
  the dispatch of a job overwrites what its thread held.
* **JobPipeline, delivery.** Without `duplicated`, `SingleDelivery` is inductive; the
  argument sorts the steps by what they do to the deliveries in flight
  (`NothingNew`, adding one, taking one, finishing one).
* **Final status and burial** rest on it: a job with a final status written by a
  runner has no delivery left (`BuriedIsOver`, `CompletedIsOver`), and a new one
  cannot appear (`InFlightBefore`). `CompletedIsOver` also needs the absence of
  `late_write`. `DeadLetterJustified` further needs `AttemptsCounted` (the document
  agrees with the payload while an attempt is made) and `BurialJustified`.
* **JobPipeline, deliveries without assumption.** When rpush is repeated,
  `SingleDelivery` fails, and `DeliveriesBounded` says what is left of it: the copies of a job
  in the list, in runners' hands or still due from its POST are at most one more than the
  faults so far: each repeated try of rpush adds one, and one enqueue may add two. The proof
  keeps an account (`Paid`): what a step adds it pays for by a fault.
* **JobPipeline, refinement.** `ImplementsLifecycleHolds` sorts the steps by what they do to
  the open jobs: those that keep them, open one, decide one or lose some. That a verdict ends
  a job needs `SingleDelivery` (nobody else holds it), so the theorem is about the faults
  without `duplicated` and `late_write`; with them a job that was reported as ended is run
  again.
* **JobPipeline, the violated properties.** What TLC finds in one instance holds in all of
  them: without a queue no job is ever COMPLETED (`NothingCompletesInlineHolds`: the task of
  an API thread always raises), a worker whose breaker has opened never closes it again
  (`OpenForGoodHolds`: it reads the state and defers, without the call that would look at
  the recovery timeout), and no attempt but the first has its input
  (`InputOnlyForFirstAttemptHolds`).
* **JobPipeline, cancellation.** `CancelStopsRetries` needs no invariant beyond
  `TypeOK`: a runner is past the check of the marker only if it was before, with the same
  job, or has just looked (`PassedBefore`), and what lets it pass with the marker there is
  a counted fault.
* **AuditLog.** `IInv` says that the numbers of a trail are `1..k` (`Gapless`), that the
  event a call has read is still there when it commits, with the same hash, though it may
  not be the last any more (`ReadsStand`), and that an event is in its own session's trail
  and only after its call is over (`EventsOwned`). `ReadsStand` and the name test of
  `Create` give the chain; `EventsOwned` gives once-only, because a call that is over
  creates nothing. The refinement theorem adds that a successful `Create` appends to `Trail`
  (`CreateExtends`); `AppendOnlyHolds` says the same of the documents themselves.
* **MarathonSession.** `Typed` adds to `TypeOK` that a call works on a document that
  exists. `OneInvestigationPerKey` rests on `StartInv`: a session under creation is
  nobody else's (`FreshStarts`) and a start passes the registration of its key only as the
  key's session (`KeysKept`). The rest rests on `ClaimsInv`: every call, taken by itself,
  holds a snapshot whose checklist is backed and which is COMPLETED by evidence (`Local`),
  and a save merges two backed checklists into one (`MergeBacked`). `EndedStands` follows
  because a call that read a final status gets past the tests only at its budget. These are
  theorems for either value of `TimestampLoads`; for the code's own, FALSE, there is one more:
  no document ever holds evidence, flags or a conclusion, in any behaviour
  (`NeverInvestigatedAsStored`, by `NothingLoads`: no call gets past loading).
* **TokenRotation.** `IInv` has five parts: the types and what a call's program counter
  implies (`Typed`), a session under creation is new (`CreatedOnce`), the token about to be
  handed out is nobody else's and of the family of the token it replaces (`FreshTokens`,
  `Heir`), what a revocation has swept stays swept (`Swept`), and `RevocationReaches`.
  For the code's own `ExpiryCompares`, FALSE, `NeverRotatedAsStored` says that no token is
  ever exchanged (`NoRotation`). Instead of one proof per action and
  part, every action is shown to have `Effects` (documents keep what identifies them, no
  token becomes ACTIVE again, a token that appears replaces one that is not ACTIVE), and
  `Preserved` derives the parts from the effects once.
* **DeviceSessions and RequestGate.** `ReadsLive`: what a registration has read is not
  dead unless it was overtaken, and only a call about to write can be (`LateWrites`).
  `BlocksEscalate` rests on `OnlyScriptsKnown` and `BlocksRemembered`: a fingerprint that was
  blocked would be again while its signal is valid. `LimitNeverReached` relates the list
  of times a store keeps to that of the requests let through: in memory the first covers
  the second, counted from the end (`Covered`), so that requests as far apart as the limit
  are further apart than the window (`Spread`); Redis holds every time that still counts
  (`Stored`), and no window has as many seconds as the limit (`Sparse`).
* **Realtime.** `AppliedInOrder` needs that the number expected follows the last applied
  (`Follows`); `SeenIsDurable` that every copy of an event with an offset, wherever it is on
  its way, is in the stream (`Durable`). `NothingMissed` is about numbers no variable holds
  any more; its invariant says that there is a numbering of the events such that every
  number taken is that of an event a publisher still has or that was fanned out, what was
  fanned out the client has or will be offered, and what it has is applied or waits
  (`Accounted`). Once nothing is under way, the smallest number not applied would be that of
  an event in the reorder buffer, and the number expected waits there only while a handler
  is still saving.
  `ResumesSeamlessly` takes an order of the fan-out, of which buffer and queue are the end
  and what the client got the beginning, with nothing between (`Aligned`).
  `StallLastsHolds` is a defect for all instances: the app keeps the number of the last event
  it applied and starts with it as the one it expects (realtime_controller.dart:121), so that
  after a restart it waits for an event it has. Without Redis, and unless a number is given
  twice or the app stopped between the writes of the two preferences (`torn`), it applies no
  event any more. The proof shows that such an event lies behind every
  position the client may resume from (`Past`), that numbers identify events (`OwnNumbers`),
  and that each step leaves both so (`Onward`). TLC agrees on four events, and finds the
  exception when the premise on numbers is dropped.
* **ForensicAnalysis.** `CallsBounded` looks back over a period, and the lists of times
  forget. `CallsBacked` says it of every period that is not over: its calls and the tasks
  that may still call are no more than its grants, all of which the window still holds
  (`RecentKeeps`), and the tasks the semaphore let in before. When the period ends, the
  bound stays with it.

Only model-checked:

* liveness (`EventuallyFinal`, `DeferredIsRetried`), which the prover
  cannot treat under fairness;
* the absence of deadlock in `breaker`, `session` and `forensic`, which is about ENABLED;
* that `StoredOnly` keeps the order of what it selects; the proofs need only what it
  selects from (`StoredOnlyFacts`).

## 5. What is not modelled, and the plan

Next:

1. Abstract specifications and refinements: a session lifecycle implemented by
   `MarathonSession`, a client that applies 1, 2, 3, ... implemented by `RealtimeClient`.
2. Stronger statements: the bound of `CallsBounded` for the calls that bypass the manager.

Not modelled, because nothing in the application calls it: graceful degradation,
the methods that inspect and replay dead letters, anomaly detection (it waits for a
`request.state.session` that nothing sets), quarantines, `require_resource_permission`,
and `routers/audit.py`, which is not mounted.

Not modelled, because it keeps no state between calls: the geospatial engine, agent
tools and vision (calls to services and parsing of text, whose outcomes are inputs
here), authorization and policy (a decision table over roles), audit export,
telemetry, deployment, the Flutter screens.

Abstracted in what is modelled: texts, prompts, scores of a report, metrics and logs;
push notifications; risk fields of sessions; nonces and time stamps of signed requests.
