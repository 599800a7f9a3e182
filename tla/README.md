# A formal model of new-api: billing, background work and its two clients

new-api is a gateway in front of large-language-model vendors. A client sends a
request with an API token; the gateway picks a channel (a vendor account),
forwards the request, and charges the user for what the vendor reports. The Go
server may run as several nodes that share one SQL database and, optionally,
Redis. A React application is its web interface, and an Electron application
wraps the server for the desktop. This directory holds TLA+ specifications of the
parts where steps of several actors, failures and crashes meet, the TLC runs that
check them on small instances, and TLAPS proofs for every value of the constants.

| file | contents |
| --- | --- |
| `BillingSession.tla` | pre-consume, settlement and refund of relay requests |
| `BillingSession_proofs.tla` | its inductive invariant and five theorems |
| `MCBillingSession.tla`, `MCBillingSession_*.cfg` | its instances for TLC |
| `SystemTask.tla` | the lease protocol of the background task runner |
| `SystemTask_proofs.tla` | its inductive invariant and four theorems |
| `MCSystemTask.tla`, `MCSystemTask_*.cfg` | its instances for TLC |
| `AsyncTask.tla`, `MCAsyncTask*` | video and Suno tasks: polling passes, the sweep, users' looks, billing |
| `AsyncTask_proofs.tla` | its inductive invariant and five theorems |
| `QuotaLedger.tla` | what the quota store promises: an abstract ledger |
| `QuotaStore.tla`, `MCQuotaStore*` | columns, batch updater and Redis copy; implements `QuotaLedger` |
| `QuotaSum_proofs.tla` | lemmas on sums over finite sets of calls |
| `QuotaStore_proofs.tla` | its inductive invariant, three theorems, the refinement among them |
| `Desktop.tla`, `MCDesktop*` | the main process of the desktop application |
| `Desktop_proofs.tla` | its inductive invariants and five theorems |
| `Playground.tla`, `MCPlayground*` | the chat playground of the web interface |
| `Playground_proofs.tla` | its inductive invariant and four theorems |
| `PROJECT.json` | components, runs, mutants, source map, findings, hazards, theorems |

Run a model with `tlc -config MCSystemTask_safe.cfg MCSystemTask`, a proof with
`tlapm SystemTask_proofs.tla`.

## 1. Inventory

### The parts and how they interact

**Request billing session** (`service/billing_session.go`, `funding_source.go`,
`billing.go`). State: one `BillingSession` per request in memory (funding source,
amounts held, the marks `fundingSettled`, `settled`, `refunded`), and three
ledgers in the database: `users.quota`, `tokens.remain_quota` and
`user_subscriptions.amount_used`, with one `subscription_pre_consume_records` row
per request. Operations: `PreConsumeBilling`, `Settle`, `Refund`. It is called by
the relay handlers and calls the quota store and the subscriptions. Hard: no
transaction spans the ledgers, each call can fail alone, the refund runs in a
goroutine and is retried, the wallet and token are checked in one statement and
taken in another. Correct means: a request that ended paid exactly what it owed,
nothing is given back twice, a subscription is never used beyond its total, a
settled charge is final.

**Relay handlers** (`controller/relay.go`, `relay/accounting.go`). They open the
session, try channels until one serves the request, and settle or (deferred)
refund and charge a violation fee. `RelayTask` does the same for asynchronous
tasks, always with a full pre-consume, and inserts the task row.

**System task runner** (`model/system_task.go`, `service/system_task.go`). State:
`system_tasks` rows and one `system_task_locks` row per task type in the
database; per master node a loop, and per claimed task a handler and a heartbeat
goroutine. Operations: create, schedule, claim, renew, update, finish, release,
expire. Nodes interact through the two tables only. Hard: leases run out while
statements are under way, nodes crash between any two statements, an expiry pass
on one node meets a takeover on another. Correct means: a row is executed at most
once, one handler of a type at a time, outcomes are final, every task ends.

**Asynchronous tasks** (`service/task_polling.go`, `task_billing.go`,
`model/task.go`). State: `tasks` rows with status, quota and billing context. A
system task polls the vendors and refunds or re-settles tasks that end. Hard: two
pollers may overlap when a lease is lost; the compare-and-set on the status guards
refunds in some paths (video, timeout) and not in others (Suno, bulk failure).
Correct means: a failed task is refunded exactly once.

**Quota store** (`model/user.go`, `token.go`, `utils.go`, `*_cache.go`). State:
database columns, optionally an in-memory batch of deltas flushed periodically,
optionally a Redis mirror updated asynchronously. Hard: lost deltas when a flush
fails, stale mirror, tokens marked exhausted while requests hold their quota.
Correct means: when idle, the columns equal the initial values plus all deltas.

**Subscriptions** (`model/subscription.go`). State: plans, orders, subscriptions
with periods. Operations: purchase, pre-consume, delta, refund, period reset,
expiry, invalidation. Hard: a reset between a hold and its refund; completion of
an order by concurrent callbacks. Correct means: an order is granted once, use
stays within the total in every period.

**Channels** (`service/channel_select.go`, `model/channel*.go`, ...). State:
channel status, per-key status of multi-key channels, an in-memory cache, an
affinity cache. Hard: automatic disabling races with tests that enable again;
stale cache. Correct means: a request tries no channel beyond its attempts and
ends; a disabled key is not used for ever nor lost.

**Top-up, redemption, check-in, affiliate** (`model/topup.go`, `redemption.go`,
`checkin.go`). Payment callbacks may be repeated. Correct means: a paid order or a
code is credited once.

**Realtime and Responses WebSocket** (`relay/responses_websocket.go`,
`relay/websocket.go`, `service/quota.go`). Several logical requests over one
connection, each with accounting. Correct means: the sum charged equals the sum of
the rounds.

**Desktop application** (`electron/main.js`). State: the server it spawned, the
probes of its port, windows, tray, message boxes, and whether it is quitting.
Events of the operating system, of Electron and of the server drive it. Hard: the
server may die, hang or never listen at any point of the start or of quitting.
Correct means: no server is left behind, it ends when asked, no method is called
on a destroyed window.

**Web playground** (`web/default/src/features/playground`). State: the
conversation, one request, two timers, a copy in localStorage. Hard: chunks and
errors that arrive after a stop, a regeneration or a reload. Correct means: an
answer holds its own text, a finished one stays, no spinner is left behind.

**Others**: Midjourney tasks, rate limiting, stream scanner, body storage and
caches, authentication, options, logs and statistics, pricing, protocol
conversion, the other web pages. `PROJECT.json` lists each with the reason it is
or is not modelled.

The hazards of this code, each at its line and with the property that would catch
it, are listed under `hazards` in `PROJECT.json`.

### How the modules fit together

`BillingSession` treats each quota function as one atomic statement that succeeds
or fails. `QuotaStore` opens that statement up (batch, Redis copy, restarts) and
is shown to implement `QuotaLedger`, in which an acknowledged call counts once:
that is the interface `BillingSession` and `AsyncTask` rely on. `AsyncTask` begins
where `BillingSession` ends for a task, with the full price taken, and its passes
are handlers of the runner that `SystemTask` models; since that runner cannot
exclude two overlapping runs once a lease is lost (`OneRunAtATime` needs
`Timely`), `AsyncTask` allows passes to overlap.

### Plan

Done: `BillingSession`, `SystemTask`, `AsyncTask`, `QuotaLedger`, `QuotaStore`,
`Desktop` and `Playground` with their runs, and the proofs of every safety property
that these runs check. Next:

1. Proofs about the abstract level: that `QuotaLedger` by itself keeps `Balanced`;
   for Suno tasks and for edits of a token, what still holds without the
   hypotheses of the theorems.
2. `ChannelRetry`: the attempt loop of `Relay`, exclusion, automatic disabling.
3. Several subscriptions of one user; orders and repeated payment callbacks;
   the per-chunk charges of realtime sessions.

## 2. BillingSession

Any number of requests of one user and one token run concurrently. Every storage
call of the code is one step; a request's handler (`pc`) and its refund goroutine
(`rpc`) interleave with those of other requests and with the end and the periodic
reset of the subscription.

| code | actions |
| --- | --- |
| authentication, `PrepareRelayAccounting`, `PreConsumeBilling` | `Begin` |
| `NewBillingSession` and its fallbacks | `CheckSubscription`, `TryWallet`, `TrySubscription`, `CheckOverflow`, `AfterFailure` |
| `preConsume`, `PreConsumeTokenQuota`, `FundingSource.PreConsume` | `ReadToken`, `TakeToken`, `TakeWallet`, `TakeSubscription`, `FundingFails`, `RollbackToken` |
| outcome of the relay loop, deferred function of `Relay` | `Succeed`, `Fail` |
| `Settle` | `SettleNothing`, `SettleFunding`, `SettleFundingFails`, `SettleToken` |
| `PostConsumeQuota` (no session, or violation fee) | `PostConsumeFunding`, `PostConsumeFundingFails`, `PostConsumeToken` |
| `Refund`, `refundWithRetry`, `RefundSubscriptionPreConsume` | `RefundWallet`, `RefundSubscription`, `MarkRefunded`, `RetryRefund`, `RefundToken` |
| expiry or invalidation of the subscription | `EndSubscription` |
| `maybeResetUserSubscriptionWithPlanTx` | `ResetSubscription` |

`profile[r]` holds what a request brings (preference, estimated price, playground,
forced pre-consume, unlimited token, billed or not). `fundNet` and `tokenNet` are
history variables: what each ledger has taken from a request, net. They count the
amount a call asked for, also where the code clamps `amount_used` at 0
(`model/subscription.go:1499`): what it cuts off there is quota given back that
other requests had used. `logged` says that the code logged a billing error and
went on.

Abstractions. The user has at most one subscription. When its periods end is left
open: a reset may come between any two steps. The quota store is its database statement: no batch, no Redis mirror. A token that is
refused for want of quota is not marked exhausted, which only removes later
requests. Channel retries do not touch the session and are not visible. `Reserve`
has no caller. Prices are small naturals; conversion of usage to quota is outside.

Properties: `ChargedExactly`, `NeverOverRefunded`, `SubscriptionCap` (invariants),
`SettlementIsFinal` (action property), `EveryRequestEnds` (liveness).
`FeeAfterRefund` is a claim of a comment, which fails (section 8).

### Runs

| run | instance | result |
| --- | --- | --- |
| `billing_faults` | two requests, six profiles, any call may fail | holds, 1.08 million states |
| `billing_live` | one request, any call may fail, record save too | holds, 2 054 states |
| `billing_recordsave` | one request, the save of the record may fail | `NeverOverRefunded` violated |

Bounds. Two requests are enough for every race on a shared balance, and the
theorems remove the bound. The balances (4), the subscription total (3), the
prices (0 to 3), the pre-consumes (0, 1, 2) and the trust quota (2) are chosen so
that each comparison in the code goes both ways: enough and not enough in each
ledger, trusted and not, settlement up, down and even, and a surcharge or fee that
exceeds the subscription. The six profiles cover each preference, playground,
forced pre-consume, an unlimited token and an unbilled request. Requests are
symmetric. Deadlock is not checked: the system stops when all requests have ended.

Fairness: weak fairness of each handler and each refund goroutine, which the Go
scheduler provides; none for `Begin` (a client need not send anything), the end or
the reset of the subscription.

### Proofs

`TypeCorrect`, `ExactCharge`, `NoOverRefund`, `SubscriptionNeverOverused` and
`SettledIsFinal` hold for all sets of requests and profiles, all balances and
prices, under `BillingAssumption` (constants are of their types, a playground
request has no unlimited token, and no fee is an allowed fee). `ExactCharge` and
`NoOverRefund` also assume that saving the record does not fail, since
`billing_recordsave` shows that they do not hold otherwise.

`ChargedExactly` speaks of ended requests only. The inductive invariant `Inv` says
at every point of a request what it holds: `SessionShape` and `RefundShape` tie
the fields of the session and the record to `pc` and `rpc` (for instance, a
refund goroutine runs only after the handler failed, and never once the funding
was settled), and `Books` says that the net amount on each ledger is what is held
there plus what has been paid, exactly if nothing was logged, and at least what is
held in any case. One lemma treats the steps of the request itself action by action
(`OwnBooks`), another shows that the steps of the others leave it alone
(`OtherRequests`).

## 3. SystemTask

One task type, any number of runners (master nodes) and rows. A step is one SQL
statement. A runner's loop (`pc`), the handlers it has started (`run[r][t]`) and
their heartbeats interleave with those of the others, with `Tick` and with `Crash`.

| code | actions |
| --- | --- |
| `StartLogCleanupTask`, `EnqueueSystemTask`, `CreateSystemTask` | `EnqueueSystemTask` |
| `StartSystemTaskRunner` | `StartPass` |
| `ExpireStaleSystemTaskLocks` | `ReadStaleLocks`, `ExpireTask`, `DeleteStaleLock` |
| `runSystemTaskScheduler` | `Schedule` |
| `runSystemTaskClaimPass`, `ClaimSystemTask` | `FindPending`, `ExpireDisplaced`, `MarkRunning`, `ReleaseClaim`, `Dispatch` |
| `acquireSystemTaskLock` | `InsertLock`, `LookAtLock`, `TakeOverLock` |
| `runWithLeaseHeartbeat`, `RenewSystemTaskLock` | `Renew`, `LoseLease` |
| handlers: `UpdateSystemTaskState`, `FinishSystemTask` | `Abandon`, `FinishSystemTask`, `ReleaseFinished` |

Time is relative: `lock.left` counts down to 0, when the lock is stale. The code
compares with a time read when the claim or the expiry pass began; the model
compares with the present, which lets it take over a lock that has only just gone
stale, and so allows more than the code. `LegacyTasks` are pending rows without an
`active_key`: the column is nullable (`model/system_task.go:33`), and the claim
handles such rows, but nothing in the repository writes one. A crashed
runner does not return; a restarted node draws a new runner id and is another
member of `Runners`.

Three constants state how much is assumed of timing, and each run says which it
needs. `Timely`: a lease does not run out while its holder works on it (between
taking the lock and the dispatch, or with a heartbeat). `ShortClaims`: no claim is
under way at the moment a lease runs out. `MayFail`: database statements may fail.

Properties: `ExecutedOnce`, `OneRunAtATime` (invariants), `OutcomeIsFinal` and
`LiveRunsNotExpired` (action properties), `EveryTaskEnds` (liveness).

### Runs

| run | assumed | result |
| --- | --- | --- |
| `systask_safe` | `Timely`; statements may fail, claims may be slow | holds, 0.5 million states |
| `systask_live` | `Timely`, `ShortClaims`, no statement fails, one node survives | holds, 26 143 states |
| `systask_expiry` | `Timely`, `ShortClaims`, three nodes | `LiveRunsNotExpired` violated |

`OneRunAtATime` needs `Timely`; `ExecutedOnce` and `OutcomeIsFinal` do not, and are
proved without it.

Bounds. Two runners meet in every pair of statements; the expiry finding needs a
third. Two rows are needed for a takeover that displaces another task and, with a
legacy row, for two pending rows of a type. A lease of 1 or 2 ticks lets renewals,
takeovers and expiry happen in any order. `MaxTasks` bounds the rows, so the
system may stop, and deadlock is not checked.

Fairness. A pass that has begun and a handler run on (weak fairness). Time passes
(strong fairness of `Tick`, since renewals set the lease back). `StartPass` with
the stale-lock cleanup is strongly fair because its throttle compares only with
the time of the last cleanup: no stream of wakeups keeps it from running.
Handlers are assumed to return, as the comment of `SystemTaskHandler` demands.

### Proofs

`TypeCorrect`, `ExecutesOnce`, `ExclusiveRun` and `OutcomesFinal` hold for all sets
of runners, all numbers of rows and legacy rows, all lease lengths and both values
of the timing constants, under `SystemTaskAssumption`.

`ExecutedOnce` is not inductive: a second dispatch is excluded because `MarkRunning`
moves a row from pending to running once and no statement moves it back. The
invariant `Inv` adds that rows that are none or pending have never been started
(`Unstarted`), that a runner about to dispatch a row is the one that moved it, and
is alone (`FirstDispatch`), that a runner holds a claim only inside a claim
(`ClaimsTask`, `ClaimsIdle`), and that rows are created in order (`RowsInOrder`).
`LeaseHeld` says, under `Timely`, that whoever is between taking the lock and the
end of the handler owns a lease that has not run out; `OneRunAtATime` follows, since
there is one lock row.

## 4. AsyncTask

The rows of `tasks` do not depend on each other, so the unit that interleaves is
the work of one actor on one row: polling passes of several processes (`Pollers`),
and users who look at a Gemini or Vertex task (`Fetchers`). Every storage call is a
step; `mine` is the copy of the row an actor works on, with the status it read.

| code | actions |
| --- | --- |
| `RelayTask`: `SettleBilling` of the submission, insertion of the row | `Submit` |
| `sweepTimedOutTasks` | `Expire` (time passes), `SweepRead`, `SweepWrite` |
| `RunTaskPollingOnce`, `GetAllUnFinishSyncTasks` | `PollRead`, `BulkFail` |
| `updateVideoSingleTask` | `VideoReport`, `VideoWrite`, `NoReport` |
| `updateSunoTasks` | `SunoReport`, `SunoSave` |
| `settleTaskBillingOnComplete`, `RecalculateTaskQuota` | `Settle`, `SettleToken`, `SettleQuota` |
| `RefundTaskQuota` | `RefundFund`, `RefundToken` |
| `tryRealtimeFetch` | `FetchRead`, `FetchReport`, `FetchFails`, `FetchWrite` |
| a process dies | `Crash` |

`waived` records why the books of a task need not close: a rule of the code
(`legacy`, `bulk`, `user`) or a failure it only logs (`fault`, `crash`,
`unsettled`). Each property says which reasons it accepts. `unsettled` is a
submission whose `SettleBilling` failed: `RelayTask` logs the error and inserts a row
that shows the full price all the same (`controller/relay.go:550`), so a later
refund gives back the price and not what was taken. `NeverOverRefunded` bounds that
excess by `Uncollected`, the part of the price above the reservation.

`row.submit` is the submit time, which decides when the sweep takes the row and
whether it refunds it. Suno's answers overwrite it (`service/task_polling.go:281`);
the three values tell apart what the sweep does: the time of the insertion, a later
one, and one before `legacyTaskCutoff`. (The constant is 2025-02-22, its comment
says 2026: `service/task_polling.go:53`. The model depends on neither date.)

| run | instance | result |
| --- | --- | --- |
| `task_safe` | two overlapping passes, six kinds of video task, storage errors, crashes, deleted channels | `NeverOverRefunded`, `BooksClose`, `OneBiller`, `FailureIsFinal` hold, 655 485 states |
| `task_live` | one pass at a time, two looks of users, every kind, any answers | `TaskEnds` holds, 97 827 states |
| `task_fetch` | one pass, one look of a user, a realtime task | `FailedRefunded` violated |

Bounds. Rows are independent, so one row is enough. Two passes race in every pair
of statements. A price of 2 with 1, 2 or 3 reserved, and actual costs 0 to 3, give
settlements up, down, even and none at the submission and at the end. A fetcher looks once, and two of them suffice to write the row
before and after the sweep. `task_safe` leaves out Suno and realtime tasks, whose
code has no compare-and-set around the refund: section 8 says what happens there.
`Stable` says that the upstream never takes a final answer back.

`TaskEnds` has one exception, `OutOfReach`: a row to which the upstream's answer
wrote 100 %, or a Suno fail reason, in a status that is not final. No query selects
it again (section 8).

Fairness. The runner starts a pass for as long as a row is unfinished, so the work
of a pass on a row is weakly fair; each pass begins with the sweep, so `SweepRead`
is strongly fair: answers that keep coming do not keep the sweep out. Time passes
(`Expire`), also beyond a submit time that Suno has moved; a Suno upstream that moves it
again and again, or reports milliseconds, would keep its row from the sweep and
is outside. Nothing else is assumed of the upstream, and nothing of the users.

### Proofs

`TypeCorrect` holds for all kinds of task. `NoOverRefund`, `BooksAreClosed`,
`SingleBiller` and `FailuresStay` are proved under `Guarded`: no Suno tasks, and
nobody looks at a realtime task. That is the part of the code in which every write
that decides a task is a compare-and-set (`UpdateWithStatus`); section 8 shows
`NeverOverRefunded` and `FailureIsFinal` violated outside it. The passes and rows
are any sets, the reservations and prices any numbers, and storage errors, a failed
settlement of the submission among them, crashes and deleted channels are in.

None of the properties is inductive, since a pass acts on a copy of the row that
may be stale. `TaskOK` says for each row: a copy carries the price of the
submission and was read while the row was waiting (`CopyOK`); a pass that settles
or refunds knows exactly what each account holds at each of its steps
(`BillerOK`); there is at most one such pass; a waiting row was charged its price
and nobody bills it, and a final row that nobody works on has closed books
(`RowOK`). The compare-and-set is what links them: it succeeds only on a waiting
row, and by `RowOK` there is then no biller yet. `OtherTasks` and `OthersKeep` reduce
a step to the one row and the one pass it is about.

## 5. QuotaLedger and QuotaStore

`QuotaLedger` is the promise: a call that returned without an error counts in the
balance at once and once. It is *soft* until it is stored, unless it was asked for
with `db = true`, and only soft calls can be lost. `Balanced` states the sum.

`QuotaStore` is the code: `Begin` (the call starts its cache goroutine),
`AddNewRecord` or `UpdateColumn` (map or statement), `CheckTTL` and `IncrCache`
(the goroutine), `TakeBatch` and `FlushAccount` (the batch loop), `ReadColumn` and
`Populate` (a reader refills an absent hash), `EditRead` and `EditWrite` (a
status-only update of a token writes back the whole row), `DropCache` (the TTL) and
`Crash`.

`GetUserQuota`, after a miss, writes the column it read into the quota field of a
hash that another reader has filled meanwhile (`model/user.go:950`). A second reader
that read the whole row at the same time does the same to the copy's quota with
`Populate`, so it is no action of its own; no caller asks it to skip the copy.

Refinement mapping: `balance` is column plus map plus running batch; `acked`,
`soft` and `lost` are the calls whose change is, respectively, anywhere, in memory,
or gone. `TakeBatch` is then a stuttering step, `FlushAccount` is `Store` or
`Lose`, `Crash` is `Lose` of everything in memory.

| run | instance | result |
| --- | --- | --- |
| `quota` | two calls, a user and a token, a reader, an editor, batch and Redis on, statements and batches fail, restarts | `ImplementsLedger`, `LedgerBalanced`, `CacheConverges`, `BatchDrains` hold, 143 304 states |

Bounds. Two calls collide in the map, in the batch and in the copy. Both charge 1:
a call that counted twice, or not at all, would show in the sum. `QuietEdits` says
that no quota of a token moves while an administrator or its owner edits it;
without it the ledger does not balance (section 8).

Fairness. Calls that have begun return and goroutines run (Go scheduler), the
batch loop turns (a ticker), hashes expire (their TTL). `CacheConverges` speaks of
the time after the calls have stopped; it holds because hashes expire, not because
the deltas are right, which section 8 shows they need not be.

### Proofs

`TypeCorrect` holds without hypothesis. `QuotasBalance` and `StoreImplementsLedger`
assume `QuietEdits`, as the run does. Accounts, calls, readers and editors are any
sets; the set of calls may even be infinite, since the calls that have begun are
finitely many and the invariant says so. `QuotaStoreAssumption` asks for at least
one user, the root account that the server creates when it starts
(`model/main.go:57`).

The inductive invariant `Books` places every acknowledged call: the map, the running
batch and the column of an account are each the sum of the calls that are there,
and a call with `db = true` is never in memory or lost. From it each action is shown
to be a step of `QuotaLedger` or a stuttering step under the mapping above: a call
that returns is `Apply`, a flush that succeeds is `Store`, one that fails and a
restart are `Lose`, and the cache's actions change nothing the ledger sees.

The sums are `MapThenSumSet`, a fold that the library defines with a recursive
function chosen over finite sets. `QuotaSum_proofs` derives from that definition what
the proofs need: the sum of the empty set, of a set with one more or one fewer call,
of a disjoint union. The induction theorems of the library take an operator, which
the provers cannot instantiate; the module states induction over sets instead
(`InductNat`, `InductSubsets`), from the fact that a set of naturals has a least
element (`WFMin`).

Left out: `used_quota` and the request counts, which only feed statistics; the
status `exhausted` of a token; several processes with one Redis.

## 6. Desktop

One run of `electron/main.js` in production mode. `startup`, `probe` and `server`
are the promise of `startServer`, the attempts of `checkServerAvailability` and the
child process; `win` and `mainWindow` are the windows and the variable that names
one. Every event handler is one action: the window (`UserClosesWindow`,
`CloseEvent`), the tray (`TrayShow`, `TrayClick`, `TrayQuit`), macOS (`Activate`),
probes (`ProbeAnswered`, `ProbeRefused`, `ProbeTimesOut`, `tryConnect`), the server
(`ServerListens`, `SpawnFails`, `ServerDies`, `ServerClosed`), message boxes
(`DialogLog`, `DialogQuit`) and quitting (`BeforeQuit`, `SystemQuit`, `KillTimer`).

`Init` is the state after `spawn` returned. An exception before it
(`electron/main.js:260`: the data directory cannot be made) rejects the promise while
there is no server; that start is not modelled.

Run `desktop` (13 131 states): `NoOrphan`, `ProbesBounded`, `WindowReachable`,
`ClosesToTray`, `QuitEnds`, `StartupEnds` hold with three probes and two windows,
on macOS and elsewhere, with or without another program on the port. Three probes
show the first, a middle and the last attempt; the code makes more of the middle
kind. `EarlyActivate = FALSE` assumes that macOS does not activate the application
before its first window.

Fairness: HTTP requests answer, fail or time out, and timers fire (Node's event
loop). Nothing is assumed of the server, which may hang for ever, or of the user.

### Proofs

For every `MaxRetries` and number of windows: `TypeCorrect`, `NoOrphanLeft`,
`RetriesBounded`, `MainWindowUsable`, and `CloseHidesWindow` under
`~EarlyActivate` (with it, section 8 shows the violation).

`RetriesBounded` needs an argument: an attempt that times out sets two timers, so
that the attempts might double each round. The invariant `Budget` counts what an
attempt may still cause: below the limit the timers and twice the open requests
never exceed the attempts made plus one, and once the limit is reached only the
timers already set are left. `WindowInv` says that the tray exists only after the
server answered, that there is no window before that, and that while nobody quits
`mainWindow` is the only open one.

## 7. Playground

One page. A message carries the request it was created for, and instead of text the
set of requests its text came from. A request is `conn[r]`: an event stream, a stream
that the server closed, a plain fetch, an aborted fetch, or over. The actions are the user's (`handleSendMessage`,
`handleRegenerateMessage`, `handleDeleteMessage`, `handleClearMessages`,
`handleEditMessage`, `Type`, `CancelEdit`, `SaveEdit`, `SaveEditAndSubmit`,
`ToggleStream`, `stopGeneration`, `OpenPage`), the events of a request
(`StreamChunk`, `StreamDone`, `StreamError`, `StreamCloses`, `FetchResponds`,
`FetchFails`, `AbortSettles`) and the timers (`flushStreamUpdates`, `SaveTimer`).

The events that arrived in one read with `[DONE]` or with an error are still
delivered after the handler of the end has emptied the batch, and the listener takes
their text (`RestOfRead`). It waits 50 ms for the timer, and the user may act
meanwhile: the guard of the actions looks at `isGenerating` only
(`use-message-action-guard.ts:34`). `late` is a history variable, the requests that
brought such text. It is the one exception of the properties: late text may show in
another answer (`OwnAnswer`), reopen a completed answer (`FinalStays`, which says
that nothing else does) and leave it spinning (`PendingIsLive`). Where no stream
brings text after its end, `late` is empty and the properties are the plain ones.

Run `playground` (409 702 states): `OwnAnswer`, `PendingIsLive`, `FinalStays` and
`GenerationEnds` hold with two requests, which is what a late event of one needs to
meet the other. One assumption on the user: an editor that was left open is not
saved while an answer is awaited (`BusyEdits = FALSE`; section 8).

Leaving the page inside the application closes no stream, since
`use-stream-request.ts` has no cleanup on unmount. `OpenPage` counts it as over: its
handlers go on to update a page that is gone, which the page opened next does not
see.

Fairness: timers fire, and a request ends, with `[DONE]`, an answer, an error or its
abort, unless its server closes the stream with status 200 and without `[DONE]`. Then no
handler runs (`stream-utils.ts:96`) and only the stop button ends the generation;
`GenerationEnds` excepts exactly that state. A stream that stays open and silent for
ever is outside; the user can stop it.

### Proofs

For every number of requests: `TypeCorrect` without hypothesis, and
`AnswersAreOwn`, `NoStuckAnswer` and `FinalAnswersStay` under `~BusyEdits`, as in
the run (section 8 shows what happens otherwise). The bound of two requests is thus
removed.

The three properties rest on one inductive invariant. The chunks that wait for the
timer, the references to the stream and to the fetch, and the last message do not
name each other in the code; `Inv` says that they belong together. `OneRequest`: at
most one request is open and the references name it. `Awaited`: an open request has
its message at the end of the conversation, still pending, and without one a message
is pending only because of late text. `Chunks`: what waits for the timer is text of
the open stream or late. `Conversation`, for the page and for its stored copy:
answers hold their own text or late text, a pending message is the last one or has
late text, keys are unique. The steps are treated by what they do to the
conversation: nothing
(`QuietStep`, `ChunkStep`, `CloseStep`, `AbortStep`), the answer becomes final (`EndedStep`, five
handlers), text is added (`FlushStep`), a new answer begins (`SendStep`), messages
go (`DropStep`), the page is opened again (`OpenStep`).

Left out: model and parameter selection, think tags, message versions, timing, and
the older playground under `web/classic`.

## 8. Where code and text disagree

Three runs expect a violation; `PROJECT.json` quotes the lines.

1. `billing_recordsave`: the refund of a subscription is not idempotent when saving
   its record fails, because the inner transaction commits on its own; with the
   retries the quota is given back up to three times.
2. `systask_expiry`: the expiry pass can fail a live run whose lease was taken over
   between its two statements.
3. `task_fetch`: a user who looks at a failed Gemini or Vertex task writes the
   failure, and nobody refunds it.

Other settings of the constants show more of them. Each was found by TLC with the
cfg named first, changed as said, *without* meaning the property less that exception;
lines are under `src/`.

| cfg and change | property that fails | what happens |
| --- | --- | --- |
| `MCBillingSession_recordsave`, `Faults = {}` | `FeeAfterRefund` | the violation fee is charged before the refund goroutine runs (`service/violation_fee.go:102`) |
| `MCSystemTask_live`, `ShortClaims = FALSE` | `EveryTaskEnds` | a claim that pauses beyond the lease deletes the lock of a crashed run; its row stays running and blocks its type (`model/system_task.go:239`) |
| `MCAsyncTask_fetch`, no fetchers, `MCVideo`, `Faults = {"channel"}` | `FailedRefunded` | tasks without an upstream id and tasks of a deleted channel are failed in bulk without a refund (`service/task_polling.go:152`) |
| `MCAsyncTask_fetch` | `NeverOverRefunded`, `FailureIsFinal` | a look that began after the sweep failed and refunded a task reopens the row; it is refunded again (`relay/relay_task.go:486`) |
| `MCAsyncTask_fetch`, no fetchers, `MCSuno`, two pollers or `Faults = {"op"}` | `NeverOverRefunded` | a Suno task is refunded before its row is written, without a compare-and-set (`service/task_polling.go:285`) |
| `MCAsyncTask_safe`, `Faults = {"op"}`, without `Uncollected` | `NeverOverRefunded` | the settlement of a submission fails and is only logged; the row shows the full price, and a failure refunds more than was taken (`controller/relay.go:550`) |
| `MCAsyncTask_live`, without `OutOfReach` | `TaskEnds` | 100 % in a status that is not final takes the row out of both queries for ever (`service/task_polling.go:559`) |
| `MCQuotaStore`, `Faults = {}` | `CacheAgrees` | a refill read before a change overwrites the copy after it, until the TTL (`model/user.go:1057`; `model/user_cache.go:78`) |
| `MCQuotaStore`, `Faults = {}`, `QuietEdits = FALSE` | `LedgerBalanced` | enabling or disabling a token writes back the quota read before, which undoes a charge (`model/token.go:304`) |
| `MCDesktop`, `EarlyActivate = TRUE` | `ClosesToTray` | an early activation makes a second window; the first closes for good (`electron/main.js:565`) |
| `MCDesktop` | `WindowFollowsServer` | when the server exits normally the window is hidden, not closed (`electron/main.js:369`) |
| `MCDesktop` | `DrainsInPeace` | the server is killed after 5 s although it may drain for 120 s (`electron/main.js:578`; `main.go:237`) |
| `MCPlayground`, `BusyEdits = TRUE`, `MaxRequests = 3` | `OwnAnswer` | saving and submitting an edit during a generation starts a second stream into the same message (`use-playground-conversation.ts:76`) |
| `MCPlayground`, without `late` | `OwnAnswer`, `PendingIsLive` | text that a stream delivers after `[DONE]` or an error, in the same read, waits 50 ms for its timer and then goes into the answer of a request sent meanwhile, or reopens the completed one, which nothing ends (`use-stream-request.ts:78`, `use-chat-handler.ts:90`) |
| `MCPlayground`, without the exception | `GenerationEnds` | a stream closed with status 200 and no `[DONE]` runs no handler; `isGenerating` stays true until the user stops it (`stream-utils.ts:96`) |
| `MCPlayground` | `DraftKept` | a chunk that arrives resets the text of an open editor (`playground-chat.tsx:106`) |

## 9. Proved, checked, left out

Proved for all constants, under the hypotheses stated in the sections above: every
invariant and every action property of the passing runs, and the refinement of
`QuotaLedger` by `QuotaStore`. Only model-checked: the liveness properties
(`EveryRequestEnds`, `EveryTaskEnds`, `TaskEnds`, `CacheConverges`, `BatchDrains`,
`QuitEnds`, `StartupEnds`, `GenerationEnds`), since fairness and `ENABLED` are out of
reach of the proof system, and the violations.
Each property of a passing run has a mutant, a definition with a plausible bug
(named `X_...` next to `X`), under which TLC finds it violated.

Not modelled. A process that dies in the middle of a request: the code has no
recovery, so the hold is simply lost. Pricing: floating-point arithmetic and an
expression interpreter. Protocol conversion: stateless. Authentication, options,
logs, statistics: no state the protocols here read back. Channel selection,
top-ups, Midjourney, rate limiting, the stream scanner: state machines of their
own, left for later. By far most lines of the repository are the two generations
of the web interface, tables, forms and dialogs over the HTTP API whose state
mirrors the server's; apart from the playground nothing in them interleaves in a
way a model would tell more about than a test, so the share of all source lines
that the models cover is small and stays so.
