# KeyCompute: a TLA+ model of its gateway core

KeyCompute is a multi-tenant gateway to language models. Requests are served
by commercial providers or by *compute nodes*, machines of other users that
poll the gateway for work; they are paid for from prepaid wallets. This
directory holds TLA+ modules for the parts of the system in which several
actors share state (nodes and their tasks, wallets and their settlement, payment
orders, upstream accounts, rate limits, the executor), the TLC configurations
that check them, and TLAPS proofs that eleven of the modules keep their safety
properties for every value of their constants.

## 1. The system

### Parts and state

| Part | Source (under `src/crates/`) | State | Operations |
|---|---|---|---|
| node task store | `node-gateway/src/store.rs`, `keycompute-db/src/models/node_task*.rs` | `node_tasks`, `node_task_submissions` | create, claim, complete, reject, interrupt, expire |
| registration and sessions | `store.rs`, `models/node.rs`, `models/node_session.rs` | `nodes`, `node_sessions` | register, heartbeat, negotiate, drain |
| node and task administration | `models/node_control.rs`, `models/node_task_control.rs` | the same rows, audit | exclude, recover, revoke, delete, cancel, archive |
| node gateway service, sweeper, Redis | `node-gateway/src/{service,sweeper,redis}.rs` | one list per model, one per waiting task | enqueue and wait, poll, complete, time out, repair |
| native streams | `node-gateway/src/native_stream.rs`, `keycompute-server/src/handlers/scoped_stream.rs` | `node_native_streams` and their events | accept, read, acknowledge, complete, cancel, clean up |
| wallets | `keycompute-db/src/models/user_balance*.rs` | balances, reservations, transactions, manual operations | reserve, settle, release, reclaim, credit, freeze |
| settlement | `keycompute-server/src/handlers/{mod,responses}.rs`, `responses/background.rs`, `models/response_affinity.rs`, `keycompute-billing` | the settlement outbox and its leases | secure, charge, meter, share, acknowledge, replay |
| payments | `keycompute-server/src/{payment_registry.rs,handlers/payment.rs}`, `keycompute-alipay`, `models/payment_order.rs` | orders, provider circuits | create, notify, query, close, verify |
| provider health | `keycompute-routing/src/provider_health.rs`, `models/account.rs` | the account's row, a mirror and a queue per replica | record, probe, persist, rebase, reset |
| rate limits | `keycompute-ratelimit` | request window, token records, account leases | count, reserve, renew, restore, reconcile, release |
| runtime admission | `keycompute-runtime/src/admission.rs` | counters and a ticket queue | acquire, release, close |
| executor | `llm-gateway/src/executor.rs` | one run per request | try, retry, fall back, time out |
| everything else | server, auth, cache, config, email, observability, protocols, front ends | | see `PROJECT.json` |

### How they interact, and what is hard

**A node task.** A request inserts a row in `node_tasks` and pushes the task's
id, a *hint*, to the Redis list of its model. Then it waits: it blocks on the
task's result list, and every second it looks at the row itself. A worker polls:
the gateway pops a hint and claims the row, which gives the worker a fresh lease
id. The worker executes and reports; `complete_task` decides by the row, under
its lock, whether the result is accepted, expired or sends the task back to the
queue, and keeps the answer in `node_task_submissions` so that a repeated report
gets the same one. After the commit the gateway tells Redis. The sweeper expires
what is overdue and repairs whatever Redis lost. Postgres is the truth and Redis
only a wake-up: every Redis call can be lost, late or repeated, two transactions
read a node row they have not locked, and deadlines, sweeps, cancellations and
completions race for a task. A *streamed* native task also sends numbered events,
which may come twice, late or after a cancellation, and must reach the client
once and in order.

**A provider request.** The executor walks a chain of upstream accounts. For each
attempt it takes a permit of the runtime admission and a lease of the account's
quota, sends, streams, and reports the outcome to the account's health. Its
timeout, its client, its authority and its lease may each end it at any point,
and what an upstream may have executed must not be executed again. Health is kept
by several replicas that each have a mirror and a queue of their own.

**Money.** A request reserves from the wallet before it runs. When its generation
ends it writes an outbox row, then the usage log, the charge, the token metering
and the distribution share, and acknowledges the row; workers replay rows that
were left behind, under leases that lapse. Any of these calls may fail and the
process may die between any two; an idempotent retry may run beside an older
attempt. Recharges come from payment providers that repeat their notifications
while the buyer's browser, the closing of the order and its expiry query it.

What makes it correct: a task has one outcome and keeps it, and runs no more often
than allowed; a request always ends and is told the truth; money is charged
once, credited once, and frozen no longer than somebody needs it; limits hold;
nothing waits for ever. The hazards in `PROJECT.json` name, line by line, what
could break this and the property that watches it.

## 2. Modules

| Module | Models | Built on |
|---|---|---|
| `NodeTasks` | the node rows and every transaction on them | |
| `NodeGateway` | Redis, polls, the sweeper's repairs, the waiting request | `NodeTasks` |
| `NativeStream` | the event stream of one native task and its owner | |
| `WalletContract` | what a wallet promises (abstract) | `Sums` |
| `Balance` | one wallet's rows; implements `WalletContract` | `Sums` |
| `TenantWallets` | a user's wallets in two tenants and the sweeper | `Balance` |
| `Settlement` | attempts, outbox and workers | `Balance` |
| `Payments` | orders, handlers, provider circuits | |
| `ProviderHealth` | one account, its row and its mirrors | |
| `TokenWindow` | the token scripts in Redis (also the abstract limiter) | |
| `TokenBudget` | the in-memory token cache and the requests that use it; implements `TokenWindow` | |
| `RequestWindow` | the in-memory request counter | |
| `Admission` | `BoundedAdmission` | |
| `Executor` | the chain of attempts and the account leases | |
| `MC*` | small instances | |
| `*Proofs` | TLAPS proofs about the module of that name (section 4); `NodeGatewayProofs` also has those about `NodeTasks`, `SettlementProofs` those about `Balance`; `RateLimitProofs` is about `RequestWindow` and `TokenBudget` | that module |

`Sums` adds up a function over `1..n` with a recursive function, so that modules
that use it can be proved about. Operators marked `Mutant:` are not part of the
models (section 3).

### NodeTasks

State: `task`, `node`, `session` and `submission` are the rows, reduced to the
columns the transactions test. `clock[t]` is where `NOW()` stands relative to
the task's `deadline_at` and `complete_grace_until` (`open`, `late`, `closed`);
`session[s].state` is the same for `expires_at`, `session[s].holds` are the
tasks for whose grace a drain raised it, and `session[s].stop` says what ended
`accepting_tasks`: a drain, a suspension of the owner, or one after it had expired. `identity[t]` and `tenantActive` are what
`dispatch_identity_is_active` looks at. `grant` remembers which lease was handed
to whom; the code keeps it nowhere, the properties need it. `completeTx[t]` and
`registerTx` are transactions between their unlocked read and their commit.

A transaction is one action, except those two. `CompleteBegin` takes the task's
row lock, chooses the branch of the decision tree (late, or success or failure of
the current lease) and remembers what it saw of the node; `CompleteCommit` writes
the task, the node and the submission; `CompleteAbort` is a crash or a Postgres
deadlock victim. The branch is chosen at the beginning because the deadline is
compared with the transaction's own time. `RegisterBegin`/`RegisterCommit`/
`RegisterAbort` are the same for `register_node`, which holds the tenant's row
lock. That lock also serialises claims, heartbeats, negotiations and
administration, so those need it free (`TenantFree`).

`SuspendMember` is the transaction that suspends the owner of some nodes or the
sender of some tasks, with the triggers `revoke_membership_credentials` and
`revoke_suspended_user_credentials`: the sessions of the owner stop accepting and
their `expires_at` stays as it is.

Left out: one tenant only; the workflow that approves registration tokens (any number of
registrations may happen); the model list a heartbeat may narrow (`Serves` is a
constant); `Configure`, which changes a threshold or a name; the
`expected_updated_at` test, which can only refuse; the hash that tells whether a
repeated result is the same (a different one is refused); `finished_at`; audit,
traces and metrics. A call that is refused changes nothing and is no step.

### NodeGateway

`queue[t]` counts the copies of the hint in its list and `notified[t]` says
whether the result list holds a notification. `pending` holds the Redis calls
that follow a commit: `PerformOnRedis` makes one and `LoseEffect` is the call
that fails or the process that died before it, so pushes, removals and
notifications arrive in any order, late or never. A notification that outlives
its TTL is a lost one. `poll[s]` is a worker's long poll: `PollPop` takes the hint
off the list before `PollClaim` claims the row, and `PollEnd` loses it in between.
`waiter[t]` is the request. `PerformReject` is the second half of
`converge_invalid_queued_task`, which first removes the hint and then fails the
row whose authority became stale. `ReplayAnswer` is a worker that sends its result
again and has the saved answer's Redis calls repeated.

Hints of native tasks go to a list that no worker pops: native claims scan
the table (`PollNative`). Nodes start online with a valid session and this
module takes only those node and session actions that happen by themselves
(sweeper, heartbeat); registration and administration are covered by `NodeTasks`.

### NativeStream

One task that its worker has leased: `task` and `overdue` are its row, `stream`
and `events` the rows of `node_native_streams` and its events, `completing` the
results that `node_stream_event` is about to complete with after it stored a
final event, `owner` the gateway task that serves the client (`run_node`). The
worker is external and may post any event under any number, again and late:
`AcceptNew` stores the next number and refuses gaps, back-pressure and ended
tasks, `AcceptAgain` answers a repeated one. `Complete` and `CompleteLost` are the
completion that follows. The owner reads up to `ReadLimit` events, sends each
frame, acknowledges it, judges the end and cancels; each of these calls may fail
before or after taking effect (`AckFails`, `CancelFails`). `Expire` and `Cleanup`
are the sweeper's. A frame is content, the protocol's end or one the inspector
rejects; memory budgets and the text of frames are left out.

### Balance and WalletContract

`wallet` is the `user_balances` row, `resv` the reservations by billing request,
`usage` and `spent` the usage log of a request and the consume transaction of it,
`ops` the completed manual operations by idempotency key. Every writer locks the
wallet's row first, so a transaction is one action, and one that returns an error
is none. Expiry is a flag (`due`), set by `Lapse`. Every operation that reserves
or spends first reclaims what lapsed, as the code does (`ReclaimedResv`,
`ReclaimedWallet`). `owner_token`s separate the attempts of a request: `HeldBy`
lets only the current one settle or release, `AdminRelease` leaves a tombstone.
Amounts are small naturals; listings and audit rows are left out.
`ReclaimExpired(elsewhere)` is the periodic sweep as this wallet sees it: its
statement adds up what the user has reserved in every tenant, so what is reserved
`elsewhere` must fit into this wallet's frozen money too.

`TenantWallets` puts two wallets of one user together: `Sweep` gives each the other's
reservations as `elsewhere`. All other transactions keep to one wallet.

`WalletContract` knows neither tokens nor statuses: money, holds, a pinned part,
and what each request was charged. Holds may be dropped at any time, only the charge
of a request may overdraw, and a request is charged once. `WalletHonoursContract`
says that `Balance` implements it with `money` as available plus frozen, the
active rows as holds and the rest of the frozen money as pinned.

### Settlement

Extends `Balance`. An attempt is named by its owner token; `job` is where each
attempt and each worker is: generate, write the outbox row, save the usage, meter
the tokens, deduct, share, clear. The two ways to settle are `Path`: `immediate`
(`finalize_immediate_settlement_logged_inner`) and `responses`
(`finalize_responses_billing_logged_with_tpm_timing`). A worker claims a row under
a lease, fences what it does by that lease, polls an unfinished background
response, replays the effects and deletes or reschedules. `LeaseExpires` lets
another worker in while the first goes on. Failures and deaths are counted by
`faults`. Prices and token counts are data.

### Payments

`order` is the local order, `trade` the provider's, `shown` the orders whose URL or
code the buyer can have, `inbox` the notifications the provider repeats, `states` the
row of each method: circuit, fingerprint of its configuration, and the one a trial
verified. `proc` are concurrent handlers: creation, notification, query, the trial
order that verifies credentials. The code of an order is in its row from
`PersistCode` on, a trial's too, and its owner may pay while the gateway closes it: a
trial closes its order at the provider and then locally, a creation whose code could
not be saved compensates the same way (`compensate`, `undo`). The write of the code or
the close may have taken effect although its answer was lost (`stored`, `closed`), and
a provider does not close what was paid (`CloseRefused`). `EndFails` is a local close
that fails.

Instances with an old and a new configuration run at once. `EnsureRead` and
`EnsureWrite` are the two statements of `ensure_config_state`; `ensures` holds the
configurations about to be written. The provider is external: signatures and formats
are data, its calls may fail, and a query may answer with what was true before.

### ProviderHealth

`row` is the account's health in the database, `local[i]` the mirror of replica
`i`, `pending[i]` its queue, `job[i]` what the holder of its persistence lock is
doing, `probe[i]` the probe in progress, `loaded[i]` a row read and not hydrated
yet, `routed[i]` the configurations of requests in flight. A row keeps the set of
results counted in it, which the code has only as numbers. Time advances by `Tick`
(4) microseconds per reading, so the `+ 1` microsecond with which the code makes
timestamps increase never collides with a reading; event ids stay distinct across a
crash. The reset is `reset_all_account_health`'s as it acts on this account;
`reset_account_health`, which only tests call, statistics per provider and the choice
among accounts are left out.

### TokenBudget and TokenWindow

`TokenBudget` is the in-memory limiter (`records`, the heap `expirations`, the
running `total`) and the life of a reservation: admitted, renewed by its heartbeat
task, handed to the settlement, reconciled with the usage, or released; every
handover can race with a heartbeat that has already asked the limiter. A crash of
the server empties the limiter and leaves settlements to be recovered. Time counts
down in `left`. `TokenWindow` is what the Redis scripts do in one atomic step each;
`BackendsAgree` says the in-memory limiter implements it. The heartbeat of a
context that was abandoned while in flight is left out.

### RequestWindow, Admission, Executor

`RequestWindow` has the three atomic steps of `check_and_record_with_config`
(reset, count, take back) for threads in parallel, with a counter that wraps at
`Width`. The Redis version is one script and needs no model.

`Admission` follows `acquire` from the registration of its future through the look
at the state to the sleep; a dropped permit or ticket changes the state under the
lock and calls `notify_waiters` after it, so others run in between.

`Executor` has one run per request over the expanded chain of targets (retries, and
for OpenAI the place of the retry without `stream_options`): permit, authority,
account quota, snapshot, dispatch, stream, settlement of the lease, report. The
upstream answers with any of the outcomes in the module's header, or never. The
account leases (`slot`, `tokens`) are `AccountQuotaService`'s. Left out: requests
bound to one model target (no retry), dispatch to nodes, attempt traces and
token estimates.

## 3. What TLC checks

| Run | Instance | Shows |
|---|---|---|
| `node_tasks` | a chat or a managed native task, 1 node, 2 sessions, 3 leases, thresholds 2 | `TypeOK`; `SupersededLeaseReported`: a lease is replaced only after its holder's failure was answered `requeued`; `RunsBounded`: at most `failure_threshold` executions, of a native task one; `DrainedSessionCanFinish`; `AckedOutcomeHolds`: an acknowledged completion stays true; `OutcomeFinal`: no step changes a task that ended |
| `node_gateway` | a chat or a managed request, 1 session, 2 leases | `AnswersAreTrue` (no notification of a task that goes on, requests told the outcome, no timeout traced for a success, at most two copies of a hint); `TasksEnd`; `RequestsAnswered`; `LostHintsRecovered` |
| `native_stream` | 6 sequence numbers, 2 unread frames, reads of 2, 2 faults | `StreamInvariant` (unread count, frames in order, success and bill only of a whole stream); `TerminalNotCancelled`; `EndedStaysSilent`; `TerminalCompletes`; `OwnerEnds` |
| `wallet` | 2 requests, 3 owner tokens, 1 key, amounts 0..2, credit 3 | `WalletInvariant` (row = transactions, frozen = reservations + freezes, settled = charged); `EndedForGood`; `WalletHonoursContract` |
| `settlement` | 2 attempts of a request, one per path, 2 workers, 2 leases, 1 fault | `SettlementInvariant` (the outbox row stays until every effect is recorded; no attempt ends another's reservation); `NewerSettlementKept`; `SettlementsComplete`; `ReservationsEnd` |
| `payments` | a redirect, an Alipay code or a WeChat code, 2 handlers, 2 faults, or 1 and a change of configuration | `PaymentsInvariant` (credited once if paid; paid orders are not closed or failed, by trials and compensations either); `UnavailableStays`: a circuit that rejected credentials closed is reopened by a completed trial, or by an instance that had found another configuration, and then unverified; `PaidGetsCredited` |
| `health` | 2 replicas, two events of any kind, or a result, a reset and a failure | `HealthInvariant` (queue bound; without probes a reset forgets); `ProbeCountsOnce`; `QueueDrains` |
| `tokens` | 2 attempts of a request, limit 2, window 2, 2 faults | `TokenInvariant` (total, expiry index, usage entered once, no reservation left behind); `BackendsAgree`; `OrphansExpire`; `LostIsRestored` |
| `admission` | 4 callers of 3 keys, total 2, per key 1, queue 2 | `AdmissionInvariant` (counters, limits, no lost wake-up); `QueuedIsServed` |
| `executor` | chat, native and keyed native request, accounts a and b, 1 retry, 1 slot, 1 fault | `NotSentTwice`; `OneAnswer` (one source, completion beats the timeout, the error is of the last attempt); `AccountsTreatedFairly` (blame, metering, slots); `RequestsEnd`; `SlotsReturn` |
| `requests_bound` | 3 threads, limit 2, 2 windows | `WindowInvariant`: only requests taken back from the wrong window pass the limit |
| `failed_nodes` | 2 tasks, 2 sessions, node threshold 1 | violates `FailedNodesExcluded` |

An invariant such as `WalletInvariant` is the conjunction of its module's type
invariant and of the named invariants above it in the module.

**Bounds.** Tasks meet only at a node's failure count and at a session's
`holds`, and every property but `FailedNodesExcluded` speaks of one task, so one task
per kind shows the races for its row; two sessions give a drain and a successor;
one lease more than `TaskThreshold` lets a task run too often if the code allowed
it. Orders meet only at the row of their method, so one order with two handlers shows
the races for it. Two attempts or two actors of each kind
are what an interleaving needs; three owner tokens let a request be retried while
another holds money; two leases let a worker lose its lease to another; two unread
frames and reads of two reach back-pressure with something unread behind it; a
window of 2 has a middle and an end; four callers fill the total, a key and the
queue at once.

**Constraints.** Some instances explore several small ones in one run: a state
constraint stops a behaviour that would mix them. `OneTask` and `MCOneOrder` take
one task or order of either kind; `MCChangeOrFaults` (payments) has two faults, or one
and a change of configuration; `LeasesInOrder` names leases in the order of
use; `MCFewActors` (settlement) has a second attempt, or a second worker and an
administrator, and `MCUsageCosts` leaves free usage to `wallet`; `MCFewEvents` (health) counts
events; `MCSecondAfterFirst` (tokens) starts the second attempt when the first
stopped generating; `MCThirdCompetes` (admission) takes the third key without
deadlines and close; `MCFewRequests`, `MCEarlyFaults` and `MCKeyedRuns` (executor)
take one request, or two at their first attempts, and place the fault. Most
of them cut only steps that nothing obliges (a new task, order, attempt, request,
fault, event or deadline) or leave an alternative of the same fair step, so that the
liveness properties lose no behaviour. The executor's are the exception: they also
cut the fallback of two competing requests and the fifth and later attempts after a
fault. What happens there is the same step of one request that is explored in full
without a competitor and without a fault.

**Fairness.** Each property assumes only what its question grants; faults are
bounded, so they end.
* node gateway: the premises are in the properties. `TimePasses`: deadlines and
  grace periods pass, and a transaction commits or aborts. `SweeperRuns`: `main`
  starts it on every replica, the advisory lock picks one. `WaitersRun`: the
  process of the request lives and its timer fires. `WorkersPoll`: workers poll,
  Redis calls that are made again and again do not all fail and polls do not all die
  with the hint they popped (strong fairness, as each attempt may fail).
  `LostHintsRecovered` assumes nothing about deadlines and speaks of nodes that are
  online from some time on.
* streams: the owner runs; the worker repeats its final event until the task ended
  (strong, since the task may be locked or the call lost).
* settlement: some worker runs, leases lapse, reservations expire and the periodic
  sweep reclaims, if the user has nothing reserved in another tenant
  (`ReclaimExpired(0)`; otherwise see disagreement 3). Nothing is assumed of attempts.
* `TenantWallets`: reservations expire and the sweeper runs; nothing is assumed of
  requests and administrators.
* payments: handlers end and the provider repeats an unacknowledged notification
  (strong, since a delivery needs a handler and may fail).
* health: the persistence loop runs. tokens: time passes, tasks that were started go
  on, the limiter is read. admission: tasks that can run do, and permits are dropped;
  nothing of deadlines. executor: runs go on, timeouts fire and reservations expire;
  the upstream may never answer.

`CHECK_DEADLOCK FALSE` stands where a system may come to rest: a bound is used up, all
requests ended, a wallet has nothing to do.

**Mutants.** Each property of a passing run is paired in `PROJECT.json` with at least
one mutated form of a definition it depends on, a conjunction with several, one
for each part: a dropped lock, an off-by-one, a missing repush, a skipped check. With the mutant in
place of the definition TLC finds the property violated, so none holds by the shape of
the model.

### Disagreements found

The first is the run `failed_nodes`. The others are reproduced by
`tlc -config <cfg> <module>` with the cfg named, which ends in a counterexample.

1. `failed_nodes`: `register_node` reads the node row without a lock and later
   sets `status = 'online'` whatever the status has become (`store.rs:472`). If the
   node's failed completion commits in between and excludes it, the registration
   undoes the exclusion; the README says "Failed nodes are excluded from scheduling".
2. `NodeTasksSuspended.cfg` (`MCNodeTasks`), `DisabledSessionCanFinish`: the triggers
   that take a suspended owner's credentials stop the owner's sessions from accepting
   tasks (`001_init.sql:2240`, `2393`). A session that does not accept is not renewed,
   and unlike a drain (`node_control.rs:569`) the triggers do not raise `expires_at`, so
   it can expire while a worker executes a task whose grace is open, and the result is
   refused; `node_control.rs:575` says "A disabled session can finish only its
   already-issued leases. Do not set revoked_at: that would strand accepted
   result/settlement submissions."
3. `TenantWalletsFair.cfg` (`TenantWallets`), `OrphansReclaimed`: wallets are per tenant
   and user, but the sweeper finds reservations by user (`user_balance.rs:904`) and
   leaves a wallet alone whose frozen money does not cover those of all tenants. Orphans
   in two tenants block each other until other operations touch both wallets;
   `main.rs:365` says "Reclaim request-owned funds even when no later request or balance
   query touches the user."
4. `PaymentsReopen.cfg` (`MCPayments`), `ReopenedByTrialOrChange`: `ensure_config_state`
   resets the row without looking again at what it read (`payment_registry.rs:299`). Of
   two instances that start with a new configuration the second may write after the
   provider rejected the new credentials: the circuit is available again, under the same
   fingerprint and without a trial; `payment_registry.rs:13` says "only mark_verified or
   a config fingerprint change is allowed to do that". The row is unverified then, so
   new orders still wait for a trial.
5. `NodeTasksCount.cfg` (`MCNodeTasks`), `ExcludedNodeKeepsCount`: a success decides by
   a node row read at its start whether the node is excluded (`store.rs:1678`) and
   resets the failure count of one that another task's failure excluded since; the
   comment above it says "only nodes that are not excluded".
6. `ProviderHealthFence.cfg` (`MCProviderHealth`), `ResetIsFinal`: a probe raises the
   generation of its replica's mirror before its snapshot is written
   (`provider_health.rs:977`), and a request that ends then is queued with that
   generation. If another replica resets the account first, the row gets the same
   number, the fence matches (`account.rs:552`), and a result from before the reset is
   counted after it; `account.rs:527` says the generation "fences events that were
   queued before a newer probe/reset".
7. `ProviderHealthQuarantine.cfg`, `QuarantineHolds`: once a probe's snapshot is written,
   its queued copy no longer applies and the worker removes the mirror
   (`provider_health.rs:528`). The next failure starts from an empty mirror that is
   newer than the row, and the replica routes to an account that the row quarantines;
   `provider_health.rs:447` says hydration "preserves consecutive-failure thresholds".
8. `ProviderHealthCounters.cfg`, `CountersKept`: a probe's snapshot replaces the row when
   timestamp and generation are those it started from (`account.rs:464`); a merge by
   another replica may leave both as they are, and its counts are lost.
   `provider_health.rs:295` says replicas are merged "rather than overwrite counters
   with stale in-memory snapshots".
9. `ProviderHealthConfig.cfg`, `OldConfigNotCounted`: a result takes its configuration
   from the mirror when the request ends (`provider_health.rs:881`), so one started with
   the old endpoint is counted for the new one; `provider_health.rs:54` says runtime
   events "reject results from an old endpoint or credential even when the request
   completes after the update".
10. `ExecutorIdempotent.cfg` (`MCExecutor`), `KeyStaysWithAccount`: after a 5xx of a native
   create with an idempotency key only the same account may be tried again, but when that
   retry is refused capacity the chain goes on to another account (`executor.rs:1010`,
   `1053`); `executor.rs:279` says the key "permits retries only inside the same
   upstream account namespace".
11. `RequestWindowLimit.cfg` (`MCRequestWindow`), `LimitHolds`: a refused request that is
   taken back after another thread reset the window lowers the new window's counter
   (`keycompute-ratelimit/src/lib.rs:820`), below zero if it is empty, where it wraps; the
   comment at `lib.rs:803` says one entry keeps the operations atomic.

## 4. What is proved

Each theorem holds for every value of the constants that satisfies the module's
named `ASSUME`, which TLC evaluates on the instances of section 3. Nothing is
taken on trust, and no proof uses a bound or a constraint of a run.

| Module | Theorem | States | Every |
|---|---|---|---|
| `NodeGatewayProofs` (about `NodeTasks`) | `TypeCorrect` | `[]TypeOK` | task, node, session, lease, answer, kind, threshold |
| | `LeaseInvariantHolds` | `[]LeaseInvariant` | |
| | `LeaseSafety`, `NativeSafety` | `[]SupersededLeaseReported`, `[]NativeRunsOnce` | |
| | `AckSafety`, `OutcomeIsFinal` | `[]AckedOutcomeHolds`, `OutcomeFinal` | |
| | `ExecutionBound`, `RunBound` | `[]ExecutionsBounded`, `[]RunsBounded` | |
| | `DrainSafety` | `[]DrainedSessionCanFinish` (of sessions that a drain stopped) | |
| (about `NodeGateway`) | `AnswersTrue` | `[]AnswersAreTrue` | the same; tasks dispatched together |
| `NativeStreamProofs` | `StreamSafe` | `[]StreamInvariant` | length, limit of unread frames, size of a read, number of faults |
| | `TerminalKept`, `EndedSilent` | `TerminalNotCancelled`, `EndedStaysSilent` | |
| `SettlementProofs` (about `Balance`) | `WalletSafe` | `[]WalletInvariant` | number of requests, keys and owners, amount, minimum balance |
| | `EndedStays` | `EndedForGood` | |
| | `ContractHonoured` | `WalletHonoursContract` (refinement) | |
| (about `Settlement`) | `SettlementSafe` | `[]SettlementInvariant` | the same, attempts, paths, workers, leases, faults |
| | `NewerKept` | `NewerSettlementKept` | |
| `PaymentsProofs` | `PaymentsSafe` | `[]PaymentsInvariant` | order of each kind, handler, change of configuration, fault |
| | `UnavailableHolds` | `UnavailableStays` | |
| `AdmissionProofs` | `AdmissionSafe` | `[]AdmissionInvariant` | caller, key, limit |
| `RateLimitProofs` (about `RequestWindow`) | `WindowSafe` | `[]WindowInvariant` | number of threads and windows, limit |
| (about `TokenBudget`) | `TokensSafe` | `[]TokenInvariant` | number of attempts, prediction, usage, limit, window, fault |
| | `BackendsEqual` | `BackendsAgree` (refinement) | |
| `ProviderHealthProofs` | `HealthSafe` | `[]HealthInvariant` | replica, queue bound, quarantine limit, result, probe, reset, change of configuration, fault |
| | `ProbeStoredOnce` | `ProbeCountsOnce` | |
| `ExecutorProofs` | `SentOnce`, `AnsweredOnce` | `[]NotSentTwice`, `[]OneAnswer` | chain of accounts, number of retries, request, kind, fault |
| | `AccountsSafe` | `[]AccountsTreatedFairly` | the same, and slots |

So the proofs also cover what the runs cut: several tasks or orders at once
(`OneTask`, `MCOneOrder`), faults and changes of configuration in any number
(`MCChangeOrFaults`), two attempts beside two workers (`MCFewActors`), free
usage in a settlement (`MCUsageCosts`), three keys with deadlines and close
(`MCThirdCompetes`), attempts that reserve tokens at the same time
(`MCSecondAfterFirst`), results, probes, resets, changes of configuration and faults
in any number (`MCFewEvents`), and the later attempts of requests that compete or meet
a fault (`MCFewRequests`, `MCEarlyFaults`, `MCKeyedRuns`).

### The arguments

**NodeTasks.** `SupersededLeaseReported` and `AckedOutcomeHolds` are not
inductive: a commit could replace a lease unless the transaction still reports
the task's *current* lease, with no submission for it yet, and unless the row
still has the status for which the branch was chosen. That is
`CompletionCurrent`, and it holds because nothing but the transaction itself
changes a row it has locked. With `LeaseFollowsStatus` (a queued row has no lease)
and `RequeuedOnlyChat` it makes `LeaseInvariant` inductive. `NativeRunsOnce` follows
without induction: of two leases at least one is not current, so it was
answered `requeued`, so the task is a chat task. `OutcomeFinal` follows from
`CompletionCurrent` step by step: the only transaction that can commit on a task
that ended is a late one on an expired row. `ExecutionsBounded` needs
`FailuresPayForLeases`: there are at most as many leases as recorded failures, plus
the current one, and a task that may still be claimed is below its threshold.
`DrainedSessionCanFinish` needs `SessionsMatchNodes` (a leased task names a
session that exists, and deletion spares it) and `DrainHoldsLeases` (what a drain
saw leased is in `holds` until its grace ends; after a drain a session gets no
new leases). It speaks of drains only: what a suspension does to a session is
disagreement 2.

**NodeGateway.** Every step is a step of `NodeTasks` on the rows or leaves them
alone, so `LeaseInvariant` carries over. `AnswersAreTrue` is not inductive, because
a Redis call that is still pending will say something about a row that may have
moved on. `GatewayInductive` adds, per task, `RowOK` (only a row that ended has an
outcome, and a saved answer is a real one) and `SaysTrue`: a notification that is
stored or still to be pushed is of a task that ended, what the request was told is
the row's final status, and a hint that is still to be pushed finds at most one copy
on the list. A timeout that was traced needs `TooLate`: past the deadline, with no
completion under way that began before it, no result is accepted.

**NativeStream.** `StreamInductive` describes the rows (`RowsOK`: a start, frames up
to the protocol's end, then at most one final event, which is the stream's state),
the unread counter as the cardinality of the unread events (`UnreadOK`), what the
owner has read against what it may acknowledge (`ReaderOK`), what it has sent as
exactly the frames before its position (`SenderOK`) and what it may bill
(`BillOK`). Streams of any length need facts on sequences and finite sets only, no
recursion. TLC also checked `StreamInductive` before it was proved.

**Balance.** `WalletInvariant` is inductive with its types. The work is in the
sums: `LedgerReconciles` and `FrozenExplained` add up functions over `1..n`, for
any `n`. The provers cannot use the library's induction theorems, which take an
operator as a parameter; the lemmas about `Sum` instead take the *least
counterexample* (`LeastNat`, from the well-foundedness of `<` on the naturals) and
refute it. From them: the sum's recursion, that changing one summand changes the
sum by the difference, that sums are monotonic. `ContractHonoured` is a step
simulation: the initial wallet is the contract's, and each operation
maps to one of the contract's steps or to a stutter; that a hold never exceeds the
free money uses `FrozenExplained`. The assumption asks that `Amounts` has 0
and `MinAvailable`, which is what a request reserves that asks for less.

**Settlement.** Every step takes the wallet through a step of `Balance` or leaves
it alone, so `WalletInvariant` carries over. `SettlementInvariant` needs what each
attempt and worker knows where it stands (`JobOK`: whoever shares has charged),
that only attempts past their generation are settled by others
(`SettledForPast`), and that a worker whose lease is the row's has that row in hand
(`LeasesAgree`). `NewerKept` follows from `LeasesAgree`: a write with a lapsed lease
matches no row.

**Payments.** `PaymentsInductive` says what handlers rely on between two calls: one
handler creates an order (`CreatedOnce`); nobody knows of an order that is not
written (`AbsentUntouched`); until the code is stored nobody can pay, and a local
close follows the provider's (`StagesHold`); a result of the provider is still true
when it is applied (`ReportsTrue`, final states of a trade stay); an order was given
up only when its trade can no longer be paid (`GivenUpUnpayable`). The last is what a
trial or a compensation relies on that races with the buyer: a trade that was paid is
not closed by the provider, so the order is not closed here.

**Admission.** `Accounted` (types, counters, limits, each ticket queued once, whoever
waits has a ticket) is inductive, with cardinalities and sequences from the library.
`NoLostWakeup` is proved on top: a step that makes a ticket the first eligible one
changes the state under the lock, and whoever made it has yet to notify.

**RequestWindow.** The counter is unsigned and wraps. `CountExplained` relates it,
modulo `Width`, to the requests admitted, those refused and not yet taken back, and
those taken back from the wrong window. The bound follows where `Width` exceeds the
limit by more than the number of threads, which is the assumption (the counter has
64 bits).

**TokenBudget.** `TokenInductive` says of the cache (`CacheOK`) that its total is the
sum of its records and that every record's expiry is on the heap, which may also hold
expiries that were replaced; of an attempt (`ChargeOK`) that a usage that was entered
is a terminal record until it is as old as the window, so that a replay finds it or is
told by its age to stay out; and, while there was no fault (`EndOK`), that a heartbeat
that still runs when its attempt ends has been told to stop and then releases
what it put back. `EndsWithoutReservation` alone is not inductive: a renewal may be
between its answer and the restore that follows it. The sum runs over a finite set of
any size with the library's fold, whose value the provers cannot compute;
`Grid` tabulates the sums over all subsets, and *smallest counterexamples* show that
the table exists, is unique, and that one changed summand changes the sum by the
difference. `BackendsEqual` is a step simulation of `TokenWindow`: pruning the heap
removes exactly the expired records, and the decisions on the running total are those
on the sum that the scripts compute.

**ProviderHealth.** `HealthInvariant` holds of the row because of what is known of
everything that can still be written to it. `ResetOK`: while nothing is probed, no
mirror, read row or queued event is of a later generation than the row, and whatever
was observed before the reset is of an earlier one, so that the row's guard refuses
it; rebasing an event to the generation of a row that was found keeps this, because
`StaleTime` compares the event with that very row. `ProbeCountsOnce` needs `CleanOK`:
whoever counts the result of a probe that is still queued has passed the
probe's generation, so that the queued copy no longer applies. That in turn needs
that ids are given out once: `FlightOK` and `JobOK` for the events in a queue, being
written and being reconciled, of which two may be copies of one. What the fences
of the queue compute, a recursion over its length, is again bounded by the least
counterexample. TLC checked `HealthInductive` on a small instance before it was proved.

**Executor.** Six statements about one request, which only its own steps change:
nothing was sent beyond the place of the run (`PlaceOK`), so that whatever is written
about an attempt is about the last one; no attempt forbids the one the run is at while
there are targets left (`PastOK`), which `NextTarget` establishes since it returns none
for an outcome that stops the chain; content is of the place of the run and none is
there before a fallback (`ContentOK`); `CompletionOK`, `ErrorOK` and `AccountOK` say
what is kept of a completion, an error and a lease. `NotSentTwice` alone is not
inductive: the next dispatch would have to know why the chain goes on. Slots are shared
by requests, so `SlotsWithinLimit` is a statement of its own, and the attempts in flight
inject into the slots that are taken. The chain is a flattened sequence of
sequences of any length; that it is a sequence is again shown by the least
counterexample.

### Only model-checked

Every invariant, action property and refinement that a run checks is also proved. Only
liveness stays with TLC, since fairness and `ENABLED` are out of the prover's reach:
`TasksEnd`, `RequestsAnswered`, `LostHintsRecovered`, `SettlementsComplete`,
`ReservationsEnd`, `PaidGetsCredited`, `TerminalCompletes`, `OwnerEnds`, `QueueDrains`,
`OrphansExpire`, `LostIsRestored`, `QueuedIsServed`, `RequestsEnd` and `SlotsReturn`.
`OrphansReclaimed` is stated only to be violated (disagreement 3).

## 5. What is not modelled, and the plan

Not modelled, with reasons in `PROJECT.json`: provider protocols (format
conversion), authentication and key issuance (one transaction each), pricing,
caches, configuration, e-mail, front ends, the console's queries. Scoped sessions and
the Responses websocket are long state machines of one connection each and need a
model of the Responses protocol first; the graceful drain of the server is
`Admission.Close` followed by waiting. Row locks are modelled, lock cycles inside
Postgres are not: the sweeper locks nodes before tasks and a completion a task before a
node, and Postgres ends such a cycle by aborting one of them (`CompleteAbort`). The
clocks of gateway and database are taken to agree.

Left to do: `TaskContract`, the abstract life of a task (queued, running, ended
once), with `NodeTasks` shown to implement it; proofs of liveness, once a prover for
`ENABLED` is at hand.
