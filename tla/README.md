# A formal model of the telecom gateway

This directory holds TLA+ models of the telecom AI gateway, the TLC runs that check
them, and theorems about them that TLAPS checks. The reference is the code: every
definition that models code is listed under `map` in `PROJECT.json` with the lines it
stands for. Paths below are relative to the repository; `MW` stands for
`telecom-middleware/src/telecom_middleware` and `MCP` for `telecom-mcp/src/telecom_mcp`.

## The system

A voice agent talks to the **tools server** (`telecom-mcp`), which authorizes each tool
call, applies guardrails, deduplicates it and calls the **middleware**
(`telecom-middleware`), which owns the data in MongoDB and the approval workflow. Agents
and supervisors use the **console** (`telecom-console`), which reads the middleware and
follows its event stream. Both services run as one asyncio event loop per replica: code
between two `await`s is atomic within a replica, and every database call is a point at
which other requests, of this replica or another, run.

| Component | State | Operations | Talks to |
| --- | --- | --- | --- |
| Write handlers, `MW/api/routes`, `MW/api/idempotent.py` | local variables across awaits | create ticket / callback / refund request, decide refund, assign / revoke, check passcode, record a refusal | the collections below |
| Audit trail, `MW/services/recording.py`, `MW/repositories/mongo/audit.py` | `audit_records`, hash-chained, unique `(tenant, seq)` | `head`, `append`, `verify_chain` | every handler |
| Outbox, `MW/repositories/mongo/outbox.py` | `outbox`, `tenant_sequences` | `next_sequence`, `add`, `fetch_pending`, `mark_published`, `replay_since` | handlers write, relay and streams read |
| Idempotency keys, `MW/repositories/mongo/idempotency.py` | `idempotency_keys`, swept by a TTL index | `reserve`, `complete`, `release` | keyed handlers |
| Transactions, `MW/repositories/mongo/store.py`, `session.py` | the ambient session | `transaction`, `watch` | MongoDB |
| Real time, `MW/realtime`, `MW/api/routes/stream.py` | subscribers and their queues, resume token, relay batch | publish, subscribe, watch, relay, replay | outbox, console |
| Passcode, `MW/repositories/mongo/customers.py` | failed attempts, lockout time | check lockout, count an attempt | authenticate handler |
| Cases, `MW/api/routes/cases.py` | one document per call | upsert, resume | handlers, outbox |
| Identity, `MW/security`, `MCP/security` | cached signing keys, cached service token | verify, refresh | identity provider |
| Executor, `MCP/api/executor.py` | semaphore, reservations, audit log | one tool call | guardrails, idempotency store, backend |
| Idempotency stores, `MCP/adapters/idempotency.py` | memory dictionary, or Redis | `reserve`, `complete`, `release` | executor |
| Circuit breaker and retries, `MCP/adapters/reliability.py` | failures, opening time, probe flag | `before_call`, `on_success`, `on_failure` | executor, backend |
| Guardrails, `MCP/guardrails` | rolling budget per case, token bucket per identity | check, release | executor |
| Client, `telecom-mcp-client` | a session | call a tool, retry | tools server |

What each must guarantee, and what makes it hard:

- **Write handlers**: a change, its audit record and its event are durable together or
  not at all; a refund is decided once; an answer is true. Hard, because the audit head
  and the refund are read outside the transaction that uses them, two handlers append
  outside any transaction, and a database error can strike between any two calls.
- **Idempotency**, of either service: a key runs its operation once, a replay answers the
  right request, and a key is not left "in progress". Hard: reservation, lookup,
  completion and release are separate calls that name no owner, commits are acknowledged
  or not, backends answer late, handlers are cancelled and processes die.
- **Audit trails**: the trail always verifies, with no gap, although nobody locks it, and
  the verdict on it is the one it deserves, whatever window is read.
- **Real time**: a subscriber gets every event it is entitled to, across bounded queues,
  dropped connections, restarts, and two feeds (watcher and relay) that overlap.
- **Executor and breaker**: one audit record per answered call, everything reserved is given
  back, one probe at a time, and a breaker that refuses everybody comes to admit a call.
- **Counters and caches** (lockout, budget, buckets, keys, tokens): exact at the boundary,
  though checked on an earlier read, kept in a table that forgets, or refreshed by a
  fetch that takes time and may fail.
- **Boundaries** (client and tools server, tools server and middleware, settings and what
  is built from them, counters and reports): what one side says is true on the other.

`PROJECT.json` lists the hazards one by one, at the line where each bites, with the
property that would catch it.

## Modules

Composed modules first; a module EXTENDS what it is built from.

| Module | Models |
| --- | --- |
| `MongoStore` | the collections the write handlers share, and what one repository call does to them: sessions with buffered writes, write conflicts, the unique index on the audit sequence, `$inc` of the event counter, the idempotency documents |
| `WritePath` | the write handlers as concurrent processes over `MongoStore`, one action per database call, with crashes, database errors, lost commit acknowledgements and the TTL sweep |
| `Ledger` | what the write path promises: one append-only trail whose entries make their change and publish their event in the same step |
| `Realtime` | outbox to subscriber: watcher, relay, broker queues, replay, connections, restarts |
| `Breaker` | calls with a deadline and bounded retries over one circuit breaker, with late outcomes and abandoned calls; as `ReliabilitySafety` also the abstract specification that `Gateway` implements |
| `IdempotencyStores` | the tools server's key stores: in memory, one step per operation; Redis, one step per command |
| `Gateway` | the executor: authorization, budget, reservation, admission, attempts, completion, release, audit record, over `Breaker` and `IdempotencyStores`, with a backend that answers late or never |
| `Passcode` | concurrent passcode attempts on one account, with a clock |
| `Cases` | concurrent turns and resumptions of voice cases |
| `AuditTrails` | the middleware's trail as hashed, stored, tampered with and read in windows; the tools server's log |
| `StoreTwins` | the in-memory and the MongoDB repositories given the same calls |
| `SigningKeys` | the signing-key cache of either service, through rotations and outages |
| `ServiceToken` | the cached service credential, wanted by many at once |
| `Credentials` | the two caches side by side |
| `OrderedTable` | the bounded table of either counting guardrail |
| `RateLimiter`, `ActionBudget` | the two counting guardrails |
| `Guardrails` | the two side by side |
| `ToolClient` | the client's session, calls and retries over a lossy network |
| `TwoGates` | a token's way through the tools server's and the middleware's authorization to a document |
| `Reports` | counters, histograms, indicators and verdicts |
| `Screening` | input checks, redaction, output checks and replays of one keyed write under changing policy |
| `Exchange` | arguments and answers across HTTP, beside the fake backend |
| `Deployment` | settings, start-up, probes, and what a pair of services that say ready then serves |
| `WriteLedger` | the refinement mapping from `WritePath` to `Ledger` |
| `WritePathProofs`, `WriteSafetyProofs` | theorems about `WritePath`: types and trail; its other promises, and its refinement of `Ledger` |
| `GatewayProofs` | theorems about `Breaker`, and about `Gateway`, which implements it |
| `RealtimeProofs` | theorems about `Realtime` |
| `ServiceProofs` | theorems about `TwoGates`, `ServiceToken`, `SigningKeys`, `ToolClient`, `Passcode`, `Cases`, `Deployment` and `Exchange` |
| `GuardrailProofs` | theorems about `RateLimiter`, `ActionBudget`, `Screening` and `AuditTrails` |
| `TwinProofs` | theorems about `StoreTwins` |
| `ReportProofs` | theorems about `Reports` |
| `MCWritePath`, `MCRealtime`, `MCGateway` | instances for TLC |
| `MCServices` | the fourteen components from `Passcode` to `Deployment`, in one disjoint union |
| `MCLiveness` | the write path, real-time delivery and the tools server with their fairness, in one disjoint union |

In the two unions the components share nothing: a behaviour belongs to one component,
named by `part`, and the others keep their first state. The state graph is the disjoint
union of the components' graphs, so each property is decided on its component's own
graph, and one run stands for many small ones. Components that do interact are composed
for real: `WritePath` over `MongoStore`, `Gateway` over `Breaker` and `IdempotencyStores`,
`Exchange` with both ends of the HTTP call, `TwoGates` with both services,
`Deployment` with both services and what they depend on.

### WritePath and MongoStore

`pc[r]` names the database call request `r` makes next, `local[r]` what its handler
holds across awaits: the audit head it read, the event number it drew, the events it
still has to emit. A request arrives with one of the calls a run allows (`Calls`); it has
passed token verification, and `Arrive` evaluates account access against the assignments.

| Code | Actions |
| --- | --- |
| `idempotent_write` | `ReserveInsert`, `ReserveFind`, the operation, then `Complete` or `Release` |
| `create_ticket`, `schedule_callback`, `request_refund_approval` | `Begin`, `AuditHead`, `AuditAppend`, `NextSequence`, `AddEvent`, `Commit`; `valid = FALSE` is the refund request whose invoice check raises before its transaction |
| `decide_approval` | `Load` (read and check), `Begin` (the filtered update), then as above |
| `create_assignment`, `revoke_assignment` | `Begin` / `BeginRevoke`, `AuditHead`, `AuditAppend`, `Commit` |
| `authenticate`, `_record_failure` | `Attempt`, `AuditHead`, `AuditAppend`, up to two events, `Settle`; no transaction |
| `_audit_refusal` | `RefusalHead`, `RefusalAppend` |
| `MongoStore.transaction` on an error | `StoreFails`, `CommitUnacknowledged`, and the conflict branches of the actions above |

Three things the models take from MongoDB and not from `src/` are marked external in the
map: a write inside a transaction meets a conflict when another open transaction wrote the
document or when it was committed after the snapshot; a write outside one waits; a commit
makes all buffered writes visible at once. `assign`, `decide`, `insert`, `append`,
`next_sequence` and `add` join the session; `head`, the approval's first read, the
idempotency lookup, `release` and `revoke` do not, exactly as in the code.

`changed`, `ran`, `leaky` and the field `by` of a key's document are history: no action
reads them in a guard. `ran[k]` are the requests that changed state during one life of
key `k`; `leaky` are the keys whose reservation was bypassed in one of the two ways found
(see the findings). `unsure` are the requests whose own commit lost its acknowledgement.
`Sweep` may take an expired key although newcomers stand between their failed insertion and
their lookup (the "expired between" of `MW/repositories/mongo/idempotency.py:41-43`); only the
request that was given the key is taken to be shorter than the key's life.

Abstracted: one tenant, one customer, one refund request (all filters start with the
tenant and the keys); what a ticket says; hashes, which are taken to be collision free; the
passcode counter, whose outcome is part of the call; scopes, roles and approval limits,
which are pure checks at entry.

### Realtime

`log` is the outbox in the order in which events became visible; an event's number need
not grow along it, because a passcode failure draws its number before it inserts. The
watcher holds a position in `log` and stores it as the resume token after each event; the
relay fetches a batch of unpublished events, publishes it and marks it. `conn[c]` is a
connection (`replay`, `open` between replay and subscription, `live`), with its queue.
`dropped` is the flag the broker sets and `_event_stream` never reads.

`since[c]` are the events visible before the client first subscribed (nobody promised
them); `excused[c]` are events the code gives no promise for, and only these: an event
that appears below a number already drawn, an event published between replay and
subscription or cut off by the replay limit, and an event that appears while the
replica's watcher is dead or was never started.

Abstracted: one tenant; per-event scopes (every subscriber is entitled to every event);
heartbeats; the time between polls. `fetch_pending` sorts by `created_at`, taken to be
the order of visibility.

### Breaker, IdempotencyStores and Gateway

`attempt[c]` is what `call_with_reliability` holds for call `c`: phase, attempt number,
time to the deadline, and whether it went through as a probe. Nothing relates `Timeout` to
`ResetTimeout`, as nothing in the settings does. The breaker is the three
fields of `CircuitBreaker`; time is an age that stops where the code no longer tells
values apart. A call admitted while the breaker was closed may report when it is open or
half open (`Succeed`, `Fail`, `TimeOut`), and `Abandon` is an attempt that ends without
telling the breaker: a cancellation, or an exception outside the taxonomy, which leaves the
probe flag up for good (`abandoned`).

`Gateway` adds the executor around it; `pc[c]` names the await call `c` is at.

| Code | Actions |
| --- | --- |
| `execute`, `_guarded` | `Authorize`: refused, blocked, or charged and on its way |
| `_reserve` over either store | `Reserve`; over Redis also `ReserveGet`, `ReserveFallback` (the `SET` without `NX`) |
| `_admit_and_run` | `Admit`, `Shed`, then the attempts: `Retry`, `BackendAnswers`, `GiveUp` |
| completion and release | `Complete`, `CompleteSet`, `Release`, `ReleaseDelete`: over Redis a read and a write |
| cancellation, death of the process | `Cancel`, `Crash` |
| Redis that does not answer: a command it did not carry out, or one it did | `StoreFails`, `ReplyLost` |

`wire` holds the requests of attempts, each by itself: that the last attempt was refused says
nothing of one that timed out before. `Land` is the middleware carrying out a request whose caller may have given up; it
deduplicates by the same key, as `WritePath` shows it does apart from finding 1, and
`effect` is what it did. `lost`, `fallback` and `abandoned` are history: calls that were
cancelled or failed with a key in hand, keys that went through the unguarded `SET`, and
abandoned probes. Nothing reads them in a guard.

### The components of MCServices

- `Passcode`: `authenticate` reads the customer, hashes for up to `SlowestHash`, and counts
  in two updates. `calm` is the time since the limit was reached, `under` the attempts
  that slipped past a lock.
- `Cases`: `upsert_case` and `resume_case` as read, then write in a transaction. `commits`
  records which turns a write had not read.
- `AuditTrails`: `Record` appends what `Recorder.audit` hashes, and the store keeps what BSON
  keeps of it; `Tamper` edits or deletes; `ReadAudit` takes any limit and correlation.
- `StoreTwins`: one action calls both repositories. MongoDB's answer is a set where its
  sort leaves ties open; `drifted` says that a transaction failed, which the memory store
  does not roll back.
- `SigningKeys`, `ServiceToken`: one action per await around a fetch; ages, not instants. The
  cache's ttl may be longer or shorter than the stale limit, as the settings allow.
- `RateLimiter`, `ActionBudget`: one action per call of `check` and `release`, and time.
  `debt` and `action` are the exact histories the counters are compared with.
- `ToolClient`: `Resend` after each kind of failure; `request[c][n]` is where the n-th request
  of a call is, and may arrive late. The server answers `ran`, `withheld` (the write was done
  and the output check blocked its result), `failed` (shed, refused by the backend, or given
  up: the write may be done, or land later, which is `LandWrite`), or refuses at once; all but
  the first are REFUSED to the client.
- `TwoGates`: every kind of token (role, scopes, permissions, accounts, tenant) through
  the stages of both services, while tokens expire and assignments change.
- `Reports`: every way the executor counts, with the error codes that are labels of denials
  and failures and use up series; a report may be read between any two.
- `Screening`: a document is a set of leaves with a path and what their text contains;
  each check looks for its kind of content. Patterns are not spelled out.
- `Exchange`: amounts in minor units and decimals, pages, statuses, lost, late and
  garbled answers, retries with the same key.
- `Deployment`: settings as records; `Start` validates, builds and starts as the code
  does; dependencies go down and come back; a call goes through every place that can
  stop it.

## Runs

| Run | Instance | Shows |
| --- | --- | --- |
| `write_path` | 3 requests, in one of three mixes: any of 8 calls (creation, two decisions by a second supervisor and one by the requester, assign, revoke, passcode match and lockout) with database errors; a supervisor's decisions and assignments with lost acknowledgements; or creations under one key, two bodies, valid or not, with crashes, lost acknowledgements and the sweep | `TypeOK`; `AuditChain`; `ChangeRecordEventTogether`; `OneDecision`; `AnswersAreTrue`; `EventsAppearInOrder`; `OnceUnlessLeaky`; `StuckOnlyAfterCrash`; `ReplayNamesTheCreation`; `ImplementsLedger`, the refinement |
| `realtime` | 1 replica, 2 clients, 2 events, queue 1, replay limit 1, batch 2, 1 subscriber slot, 1 fault | `TypeOK` with the bounds of queues and subscribers, `LiveSubscriberIsFed`, `ResumeMissesOnlyTheExcused` |
| `tool_calls` | 3 calls, one key, two bodies, Redis, 2 slots, a breaker that opens at the second failure, 2 attempts, cancellations and expiring keys; 2 calls with crashes, store errors and lost replies of the store besides, and over the in-memory store | `TypeOK`, `OneProbe`, `OneRecordPerAnswer`, `SingleFlight`, `KeyStuckOnlyAfterFault`, `AnswersAreTrue`, `NothingLeaks`, and `ReliabilitySafety`: the executor implements `Breaker` |
| `services` | each component on its own instance | one property per component (`CredentialsHold` is for two caches, `GuardsHold` for the two guardrails), and `TypesOK` |
| `liveness` | 2 requests with all faults; 1 client and 1 fault; 2 tool calls on either store with cancellations, crashes and store errors | `EveryRequestEnds`, `KeysAreFreed`, `OutboxDrains`, `SubscribersCatchUp`, `EveryCallEnds`, `BreakerRecovers` |
| `key_once`, `unrecorded_change`, `dropped_subscriber`, `resume_exact`, `audit_reads` | 1 to 3 actors, no faults | one statement of the code's comments each, violated (findings 1 to 5) |
| `lost_decision` | 2 requests of supervisors, lost acknowledgements | `NoActionCompleted`, violated (finding 6) |
| `cancelled_calls` | 2 tool calls, cancellations | `EveryCallRecorded`, violated (finding 7) |

**Why the bounds are enough.** Every hazard of the write path is a race of two
handlers for one document; a third lets one of them be disturbed while the other two
race, which the leak of a reservation needs (fail, find nothing, run beside a newcomer).
One key and one body more than needed give reuse with a different body; a second key would
only add independent copies. In `Realtime`, a queue of one fills with the second event, a
replay limit of one is exceeded by two events, and one slot is contended by two clients.
The runs take one replica: with more, `Realtime` loses events by design (one resume token
and one `published` mark for all replicas), which `telecom-middleware/README.md` states
as a known gap (lines 160-162). Three tool calls contend for one key, two slots and one
probe, and leave one of them as the straggler of before. In `services`, three passcode
attempts pass a limit of two; three turns overtake each other; a trail of three records has a first, a middle and a last; tables
of one entry forget; caches see one rotation with readers before, during and after it;
`MaxSeries = 3` refuses labels. Each bound is a constant of the cfg, named in the module
that declares it.

**Time.** Clocks are ages that saturate where the code no longer tells values apart. An
await the code puts no bound on (a hash, a fetch, a write) is bounded by a `Slowest*`
constant, and the properties say what that costs: a lockout may fall short by
`SlowestHash`, a credential may die in the hand by `SlowestGrant`. A call's time budget and
the reset of the breaker are independent, as in the settings: where the budget is not below
the reset, a call of before the opening may still be out when a probe is let through
(`Straggles`), which `tool_calls` and `liveness` have with equal times.

**Symmetry** is declared over requests and over clients, in runs without liveness
properties; nothing distinguishes one from another.

**Deadlock** is checked in `write_path`: it stops only when every request has ended. It is
not checked where the bounds on events, calls or faults end every behaviour, or where a
service may be refused and never start again.

**Fairness** is that of event loops and of time, nothing else. Each request's steps, each
tool call's steps, the watcher, the relay and each connection's own steps are weakly fair: a
task that can go on is scheduled, and the driver's calls return or raise. The clock of the
tools server is weakly fair, so that a deadline comes. Nothing is assumed of clients that
come and go, of writers, of the backend's answers or of faults; `BreakerRecovers` does not
need anybody to keep calling. `EveryRequestEnds` counts a crash as an end. That `Deliver` is
fair assumes that a connected client reads.

Each property of a passing run has a mutant in `PROJECT.json`, a plausible bug in the
mapped definition, under which the run finds the property violated.

## Findings

1. `key_once`: a key found gone after the insertion failed is taken as new, without a
   reservation; the release of a failed first request opens the window, no TTL needed.
   "At most once per key" (`MW/api/idempotent.py:40`) does not hold.
2. `unrecorded_change`: `revoke` passes no session, so the deletion survives the rollback of
   its own audit record; and of two refusals recorded at once one is lost
   (`MW/api/app.py:224-236`), which also turns a passcode check into a 500. Together they
   leave a revocation of which no record tells, where the code says that every change and
   every refusal has one (`MW/services/recording.py:3-5`).
3. `dropped_subscriber`: a dropped subscriber is never disconnected
   (`MW/realtime/broker.py:10-12`).
4. `resume_exact`: replay, then subscribe, leaves a gap, and the limit another
   (`MW/api/routes/stream.py:39`).
5. `audit_reads`: over MongoDB `read_audit` reports an untouched trail as broken, because
   the hash is taken over microseconds and the database keeps milliseconds
   (`MW/services/recording.py:79`, `:141`; `MW/api/routes/admin.py:117`).
6. `lost_decision`: a decision or an assignment whose commit is durable and not acknowledged is
   told as "no action was completed" (`MW/repositories/mongo/store.py:111`,
   `MW/domain/errors.py:196`).
7. `cancelled_calls`: a cancelled tool call leaves no audit record (`MCP/api/executor.py:156`), in a
   code that says twice that this is not a reachable state (`executor.py:3-5`,
   `security/authorization.py:11-13`).

What holds in spite of these: the doubled creations of finding 1 are confined to keys that
leaked (`OnceUnlessLeaky`), and what a resuming subscriber misses is confined to
`excused` (`ResumeMissesOnlyTheExcused`). Only a request whose own commit was not
acknowledged is told of a failure that was none (`AnswersAreTrue` of `WritePath`), every call that is
answered has its one record (`OneRecordPerAnswer`), and a REFUSED that hides a write comes
from an executor that had begun it or follows a broken connection (`OutcomesAreTrue`). A trail whose instants kept their digits gets the
right verdict (`VerdictIsExact`), and the success, latency and business indicators agree with
what happened (`ReportIsTrue`).

### Met on the way

Smaller disagreements, which the models translate as the code has them and whose properties
make room for them; none has a run of its own.

- *Executor*: "no action was completed", "it tells the agent nothing happened"
  (`MCP/domain/errors.py:54-56`) is told of a write that the backend had begun, or does later,
  when the call's time budget runs out; its action is given back ("Nothing happened",
  `MCP/api/executor.py:151-153`), so a case can make more writes than its allowance. A
  cancelled call keeps its key and budget until they expire; a deduplicated
  replay charges the budget again; a completion whose key expired in Redis writes a null hash, and every
  later use of the key is "reused".
- *Breaker*: the outcome of a call from before the opening that arrives while the breaker is
  open closes it, or starts the open time anew; one that arrives while it is half open decides
  it, where the class says that the probe does (`MCP/adapters/reliability.py:66-68`). The
  latter takes a time budget not below the reset timeout, which the settings permit
  (`MCP/config/settings.py:93`, `:97`) and the defaults do not have.
- *Budget*: `release` pops the latest reservation of the case, which may be another call's.
- *Signing keys*: an unknown key identifier throws away the age of the cache, so an outage
  right after it is not bridged; a host that booted within the ttl does not refetch; the
  age is taken before the fetch, so a caller can be refused although another fetch landed.
- *Service token*: a response that is malformed or too short-lived is an error though the
  token in hand is still good.
- *Audit reads*: a window filtered by correlation is judged like a whole one and called
  broken; a window that does not begin with record 1 gets no verdict, though
  `admin.py:125-126` says it is checked; a deletion at the end cannot be seen. The tools
  server's log begins a new chain at each restart.
- *Passcode*: the count is not reset when a lockout expires, so one wrong passcode locks
  again.
- *Reports*: attempts are labelled from 0 and every label but "1" is taken for a retry
  (`MCP/observability/kpi.py:379`, "Attempts beyond the first", `:193`), so a server that never
  retries reports a retry ratio of 1 (the module leaves that ratio out);
  only answered calls are timed, so `calls_over_budget` does not see timeouts and
  failures; the objectives of 2 s and 8 s lie between bucket edges and act as 1 s and 5 s;
  `shed_ratio` counts calls that only waited; denied calls' made-up names can use up the
  series; a cancelled call has no outcome.
- *Screening*: `pipeline.py` calls the last check the only stateful one, and the first is the
  rate limiter; a retry of a completed write may be refused by an input check before it
  reaches the replay; what the redactor leaves of a spoken passcode matches a secret
  pattern, so the answer is withheld; any run of 13 to 19 digits is removed.
- *Exchange*: a refusal by the middleware is shown as the caller's `forbidden`, which the
  comment at `http_backend.py:342` rules out; a missing record is 403 and never 404, while the
  fake says not found; the fake approves any amount; the total of a page is the page's; a
  retry of a write whose first answer was lost is told it was a duplicate; 409, 413 and 422
  are retried and count against the breaker.
- *Client*: "the request never reached the server"
  (`telecom-mcp-client/src/telecom_mcp_client/models.py:34-36`) is false of a connection that
  broke while the server was at work; the idempotency key keeps the retry from
  writing twice. REFUSED after a retry may stand beside a success of the first request; `list_tools` and a frame that is no object raise.
- *Deployment*: validation stops at the first group of problems; settings that
  `check-config` accepts may fail when built (short secrets, missing extras, an allowlist of
  separators); a middleware with a shared secret refuses every call of a production tools
  server, and both say ready; a cold replica whose identity provider is down is "degraded" and
  serves nobody; `change_stream_enabled = false` turns off the relay as well.

## Proofs

`WritePathProofs` proves, for any sets of requests, keys, bodies, actors and calls, and
any set of faults:

- `TypeCorrect`: `Spec => []TypeOK`;
- `ChainNeverBreaks`: `Spec => []AuditChain`: no two audit records share a number or an
  identity, and each carries the hash of the one before it.

Assumed: `ConstantsAssumption` (who is an actor, and that `None` is no request or key),
which TLC evaluates in every run of `MCWritePath`, and that hashes do not collide, which is
built into the model.

`AuditChain` is not inductive: that a new record follows the last one depends on the head
the handler read, perhaps long ago. `ChainInv` adds what the argument needs. The numbers in
use are `1 .. n` (`Contiguous`), so that the record with the highest number is one that a
free next number can follow. A head a handler holds is a record of the trail, though
perhaps not the last any more (`HeadOK`): then the next number is taken, and the unique
index refuses the append. A record buffered by an open transaction follows the trail and
its number is free (`BufferOK`), since the index entry it holds keeps every other append
out, and no two transactions hold the same number (`BuffersDiffer`); so a commit extends
the trail. A request's record is there only after it was appended (`RecordedOK`), which
gives uniqueness of identities. `TypeInv` adds to `TypeOK` what a label says of the request
standing at it (`LabelOK`): its kind, and whether it holds a session. `Inductive` proves
both, with one lemma per action and one for each helper the actions share; TLC checked the
invariants first.

The first part of `GatewayProofs` is about `Breaker` alone, for any set of calls, any threshold, delays, timeouts and number of
attempts that satisfy `BreakerAssumption`:

- `BreakerInvariant`: `ReliabilitySafety => []BreakerInv`;
- `HalfOpenLetsOneThrough`: `ReliabilitySafety => []OneProbe`: of two attempts in flight while
  the breaker is half open one is a straggler of before the opening;
- `ShortCallsLetTheProbeDecide`: `ReliabilitySafety => ProbeDecides` under `Timeout < ResetTimeout`,
  which the defaults keep and the settings do not require.

`OneProbe` is not inductive: whether an attempt in flight is of the time before the opening
rests on time. `BreakerInv` says so: the time since the breaker opened plus what is left of
such an attempt's budget stays within `Timeout` (`Older`). Whoever is no probe is of that time
(`Stragglers`), everybody is while the flag is down (`FreeMeansOlder`), and of any two one is
(`PairsAreOlder`): a flag taken down by a straggler lets a second probe through, but not beside
a third call. The rest ties the flag to the half-open state (`FlagMeansHalfOpen`) and the opening
to the count of failures (`FailuresOpen`). TLC checked the invariant before it was proved, and the run
`tool_calls` checks `OneProbe` on the executor, whose calls and breaker implement
`ReliabilitySafety` there.

`WriteSafetyProofs` proves the other invariants and action properties of the write path, for
the same constants: `KeyRunsOnce`, `KeysAreReleased`, `ReplaysAreRight`, `DecidedAtMostOnce`,
`EventsInOrder`, `ChangesAreRecorded` and `CallersAreToldTheTruth`. None of the properties is
inductive. `SafetyInductive` is, in four parts, each above `TypeInv` and needing those before it:

- `KeyInv`: a key's document was written by a request that works under the key or died
  (`DocumentOK`), and under a key that did not leak only that request works or has created
  anything (`OneWorker`);
- `DecisionInv`: what an open transaction that decides has buffered is what it read, and a
  decision in the database has one author;
- `OrderInv`: a transaction holds the counter's document from drawing a number to its commit,
  so the numbers above the last visible event belong to open transactions (`NumberOK`);
- `TogetherInv`: what a handler still has to append and emit is what its change still lacks
  (`OwesOK`).

`CallersAreToldTheTruth` makes no assumption about the calls or the faults: the one excuse it
leaves is that of a request whose own commit lost its acknowledgement (`unsure`), which
finding 6 shows to happen.

Its last part proves `WritePathImplementsLedger`, the refinement: `WriteLedger` maps the
audit collection and the visible events, sorted by their numbers, to the ledger's entries and
stream, and every step appends one entry with the change and event it stands for, or stutters. An induction over
the sets would be needed to know what sorting does to any set; it is avoided, because both
sets only grow at their end, and the invariant `LedgerInv` carries that the listing of
the present set is one.

The rest of `GatewayProofs` proves, for any calls, keys, bodies, slots, allowance and faults, over
either store:

- `GatewayImplementsTheBreaker`: a step of the executor is a step of `Breaker` or leaves it
  alone, so `GatewayLetsOneProbeThrough` follows from `HalfOpenLetsOneThrough`;
- `EachCallIsRecordedOnce`, `NoCallLeaks`, `GatewayTyped`, from `GatewayInv` (what each stage says
  of its call) and from the accounts `SlotsOK` and `BudgetOK` (free slots and running calls add
  up, and the calls charged are those that owe);
- `OneFlightPerKey`, `KeysAreNotStuck`, from `KeyInv`: the entry of a key is its holder's unless
  the fallback `SET` took it over, and a release about to delete read its own reservation;
- `ToolAnswersAreTrue`, from `TruthInv`: what a completed entry, a record and an answer say is
  what the backend did.

Assumed: `GatewayAssumption`, `BreakerAssumption`, and `NoneAssumption` (`None` is no key, body
or entry).

`RealtimeProofs` proves `RealtimeTyped` for any number of replicas, clients and events: the
bounds of queues and subscribers are part of it. `SubscribersAreFed` and `ReconnectingLosesNothing`
are proved for one replica (`OneReplica`) and any clients, events and limits. That is not a
convenience. With two replicas and no fault at all TLC finds both violated: a relay
marks an event published for every replica when it has published it on its own. The invariant,
`PromiseInv`, was checked by TLC on 5.2 million states first. It says of an event a
client is owed and not excused that it was numbered above all before it (`InOrder`) and above
the last one received (`Below`), that the queue keeps this order (`QueueOrder`), and that what
is not queued is still ahead of the watcher, if that is alive (`Fed`), and not yet
marked by the relay (`Unrelayed`).

`ServiceProofs` proves the properties of eight components of `services`:

- `OnlyTheRightReader` (`GatesHold`), for any accounts and tenants: each stage of the two
  authorizations establishes something the later ones rely on while tokens expire and
  assignments change (`GatesInv`); both services read the same claims, each in its own way
  (`OneTokenTwoReadings`);
- `CredentialStaysGood` (`CredentialIsGood`, half of `CredentialsHold`), for any number of requests, lifetime and margin: who waits
  for the lock reads the cache again, and the credential in the cache is the last one granted;
- `KeysStayTrue` (`KeysHold`, the other half; `CachesStayGood` joins them), for any number of verifications and rotations and any ttl, fetch
  time and stale limit but zero, the ttl above the limit or below it: with a stale limit of zero and instant fetches a withdrawn key
  would be used once more (the default is an hour). `KeysInv` says of each verification what it
  may still rely on, though another one replaces the cache meanwhile (`StandsWell`);
- `OutcomesStayTrue` (`OutcomesAreTrue`), for any number of calls, keys and attempts: a call makes one
  request after another (`OneByOne`), behind a repeated write is a broken connection
  (`Excused`), what the middleware has or did of a write was begun by the executor
  (`WritesKept`), and a key is held while its request is worked on (`KeysKept`);
- `LockoutNeverGivesWay` (`LockoutHolds`), for any finite set of calls, any limit, any lockout
  and any bound on the time of a call below it. While the count is at the limit, what is left
  of the lock plus the time since the last wrong attempt is at least the lockout less the age
  of a slow call's clock (`LockRunsItsCourse`). While the account is locked no call joins
  those that passed the check and have not counted their attempt, and the one that set the
  lock has left them (`LateComers`), so fewer than all slip past;
- `TurnsAlwaysAddUp` (`TurnsAddUp`), for any turns, cases and bound on the steps. A document is
  read long before it is written, so `CasesInv` says of the one a turn holds what it says of
  the one stored, against the turns that have committed but for those the turn has missed
  (`View`). Steps stand in a document in the order of their commits (`FollowsLog`), which is why
  what falls out of the window is older than all that stays in it (`StepTaken`); one
  transaction at a time has written a case, so whoever still holds a read when it commits is
  told (`OtherCommits`). That no document is the value standing for "none" is an
  assumption (`CasesAssumption`), as the code tells them apart;
- `DeploymentsHold` (`DeploymentHolds`), for any settings. That a service serves says only
  that its settings were accepted once, and that it said ready only that nothing has changed
  since; `DeploymentInv` says what follows from either for as long as it lasts: what was built
  from accepted settings (`StartedWell`), what a promised write rests on (`PromisesKept`), and
  what a readiness answer still says while nobody has noticed a change (`AnswersStand`);
- `AnswersAlwaysMeanIt` (`AnswersMeanWhatTheySay`), for any invoices, requests, attempts and
  calls: a record once kept stays, so an answer that says ok stays true though requests given
  up land later (`WritesTold`); a request that may still be handled has an amount minor units
  can say (`CallOK`); a call with which nothing interfered has no request still to land
  (`NothingInterfered`). It rests on what the code guarantees of its inputs: a page has a lower
  limit of one, amounts are not negative, and one customer's invoices have distinct references,
  which is a unique index (`ExchangeAssumption`).

`GuardrailProofs` proves, for any burst, rate, allowance, window and limit of the tables:

- `RateStaysExact` (`RateIsExact`): what an identity owes is what its bucket lacks once it is
  brought up to date, unless the table forgot it (`OwesItsBucket`);
- `BudgetStaysKept` (`BudgetIsKept`), for any subjects and calls: the reservations that are not
  over and the calls of the last window are one to one, each reservation as old as its call
  (`Paired`). The bijection carries the argument where counts do not: a call that fails gives
  back the latest reservation, which is as old as its own if no later call has one, and the
  call that held it takes over the other. That the reservations that are over come first
  (`ExpiredIs`) is an induction over the row; it goes by the least number of a set
  (`LeastIn`), which follows from the library's well-foundedness of the naturals;
- `GuardsStayTrue` joins them (`GuardsHold`);
- `ScreensAlwaysHold` (`ScreensHold`), for any documents, policies, depths and sizes. A stored
  answer goes out later under another policy, so `ScreeningInv` says of it that it is what the
  redactor made of a document, and that it is there exactly when the write was carried out. The
  redactor leaves nothing it is to remove, wherever it stands, because a walk that ends early
  puts a marker there (`RedactedIsClean`);
- `VerdictsAreExact` (`VerdictIsExact`), for any number of records, edits, deletions and
  windows. A hash holds what it was computed from; `TrailsInv` says which record each number
  was first given to, that the trail is those records with some gone and some edited, its
  numbers still rising (`LeftOf`), and where each process of the tools server began its part of
  the file (`FileOK`). A record is then sound just when it is the one that was appended at its
  place (`SoundIsAppended`): a record's number is never below its place (`NumbersReach`), and
  is its place only if none before it is missing.

`TwinProofs` proves `BothStoresAnswerAlike` (`StoresAgree`), for any references, keys, hashes and
number of calls, and `TwinsTyped`. `StoresStayTogether` is the invariant: the memory store's list
holds the documents of the collection, one of each reference (`SameDocs`); both outboxes hold the
numbers `1 .. last`, dated in their order (`SameEvents`); a key has the same entry in both, or
one that is over in both (`SameKeys`). From there to the answers a listing has to exist at all,
which is about every finite set. It takes no induction: in a strict total order the place of
an element is one more than the number of elements before it, and that ranking is one to one
onto `1 .. n` because it is one to one into it (`OrderLists`). The memory store's stable
sort is such an order on places (`StableSort`), and what it lists is in an order MongoDB may give
(`NewestAgree`, `PendingAgree`, `ReplayAgree`, `UnpublishedAgree`); the case to resume is
the least place among the latest (`ResumableAgree`).

`ReportProofs` proves `ReportsAreTrue` (`ReportIsTrue`), for any tools, invented names, edges, limit
of series, objectives, quantile and sample, and `ReportsTyped`. A sum over a bag is the number of
its occurrences, and an increment adds one (`BagGrows`, `CountGrows`), so no sum is ever taken
apart. `ReportsInv` says that no counter or bucket holds more than happened, that each is
exact while nothing was refused (`CallSums`, `TimeSums`, `BlockSums`), and that a series is missing
only from a full registry (`RoomInv`): without that a report could be exact again after a
refusal. What the bucket of a time says is `BucketIs`; the latency verdict then follows from the
first bucket that reaches the quantile (`LatencyMet`) and from the last edge at or below the
objective (`LatencyMissed`).

The proofs changed the models where these left something open: a `CASE` whose guards overlap
fixes no order in TLA+, and the code's order is now spelled out in `Verdict`, `Passes`, `ToolsStage` and
`Access`; batches of the relay are chosen by `IsBatch` instead of an arbitrary sorting; `Stale`
is positive; problems of settings are those of the first stage that finds any
(`FirstProblems`), and an invoice is found by its reference (`Matching`), both without `SelectSeq`;
a stable sort keeps the places of equal keys (`MemListed`), where the order of equal keys
had been left to the model checker, and the memory store's comprehensions are such a sort
(`MemInPlace`); sums of the reports count occurrences (`SumWhere`, `Cumulative`), which the
recursive folds gave only to TLC; and `ReportsAssumption` says what the settings and the code fix: edges,
times and the objective are numbers on one scale, and a quantile is not zero.

Only model-checked:

- the `TypesOK` of `services`, which joins the type invariants of its fourteen components;
- the liveness properties and whatever speaks of `ENABLED`, which are beyond TLAPS;
- the statements of the findings, which are false and have their counterexamples.

## Not modelled, and the plan

Left out, because there is no state or order to check: the console; seed data and
diagnostics; the MCP library's protocol loop, tracing and log formats; texts of the
indicator catalogue and exposition formats; callbacks, orders, services and network reports in
`Exchange`, which are translated field by field like what is there; the in-memory store's
change feed; compose files and identity-provider scripts. Cryptography is taken as sound:
hashes do not collide, signatures are not forged. Approval requests are said to expire
(`MW/api/routes/approvals.py:55-57`), and no code expires them, so neither does the model.
More than one replica of real-time delivery is a known gap of the code.

Next:

1. Two replicas in `Realtime`, with the losses the middleware's README admits excused.
