# PayFlow: TLA+ specifications and proofs

PayFlow is a payment API in Go: an HTTP server charges a bank for merchants' payments,
keeps payments, balances, an audit trail and an outbox in PostgreSQL, and publishes the
outbox to Kafka. Several replicas of the server run against one database. This directory
specifies the parts of it that carry its guarantees, model-checks them with TLC and proves
the safety properties with TLAPS.

## The system

| Part | State it keeps | Operations | What is hard |
|---|---|---|---|
| Payment service (`internal/service/payment.go`) | none of its own; per request, the transaction in memory | `CreateTransaction`, `RefundTransaction`, queries | concurrent requests share only the database; some steps are transactions, others single statements; the client may leave, the process may die, a commit's reply may be lost |
| State machine (`internal/domain/models.go`) | transition table | `CanTransition` | enforced on the status in memory, not on the stored one |
| Repositories (`internal/repository/postgres`) | tables `merchants`, `transactions`, `transaction_events`, `outbox` | insert, lookup, update, claim, mark | `UpdateStatus` is unconditional; only the unique index on the idempotency key and the balance condition are enforced by the database |
| Bank client, retry (`bank.go`, `resilience.go`) | none | `Charge`, `Retry` | an attempt may have taken the money although it reports a timeout |
| Circuit breaker (`resilience.go`) | state, failures, `openedAt`, `halfOpenRunning` under a mutex | `Execute`, `State` | the call runs outside the mutex, so results arrive late and out of order |
| Outbox worker (`outbox_worker.go`) | none; the leases are in the table | claim, publish, mark | several servers; lease expiry, crash or shutdown between the steps |
| Worker pool and patterns (`internal/concurrency`) | channels, mutex, wait groups | `Submit`, `Shutdown`, `VerifyTransaction`, `ProcessConcurrently` | a send that blocks under the mutex; closing a channel others send on; waits that end early or never |
| Idempotency middleware (`internal/middleware`) | Redis entry per merchant and key | check, replay, store, release | the entry expires while its owner works; store and release do not check ownership and run under the client's context; Redis may fail |
| Rate limiters (`internal/middleware`, `TokenBucket`) | token buckets in memory or Redis | `Allow` | lazy refill in fractions, expiry of buckets, clocks |
| Migrations (`internal/repository/postgres/db.go`) | `schema_migrations` | `RunMigrations` | several servers start at once; the check is outside the transaction; lost commits |
| Handlers (`internal/handler`) | none | create, refund, queries, listing | pages of a table that changes |
| Authentication, configuration, metrics, telemetry, `main` | none | wiring | shutdown does not wait for the worker |

A server connects, migrates and then serves. A request passes the rate limit,
authentication and the idempotency middleware, then the handler and the payment service. The service writes to the database and calls the bank through breaker
and retry. The outbox worker of every server claims the rows the service wrote and publishes a batch
with a worker pool.

What makes each part correct:

* **payments**: one charge per idempotency key, one credit per payment and only after the
  charge, an approval that stands, events that do not contradict each other, balances that agree with the events, a
  whole audit trail, a final settlement, and every request and payment comes to an end;
* **breaker**: opens at the threshold, never stuck refusing;
* **retry**: the result is that of the calls made, one call at most after a cancellation,
  waits that back off;
* **outbox**: every event is delivered, never marked before, and duplicated only when a
  lease expired;
* **worker pool and patterns**: no deadlock, no send on a closed channel, every accepted job
  runs once, complete results, true causes;
* **idempotency middleware**: one transaction per key whatever Redis does, answers only
  about the merchant's own transactions, no concurrent duplicates and no stale pending
  answers while the entry lives;
* **rate limiters**: no window admits more than burst and rate and what lost buckets cost,
  refusals end;
* **migrations**: each file takes effect once, in order, before the server serves;
* **listing**: a walk over the pages misses no row and ends.

`PROJECT.json` lists the hazards behind these, each at its line.

## Modules

| Module | Contents |
|---|---|
| `PaymentService` | the service over its database, the bank as environment |
| `Ledger` | abstract specification of the money: take, credit, refund |
| `PaymentServiceProofs` | inductive invariant and twelve theorems, among them that `PaymentService` implements `Ledger` |
| `CircuitBreaker`, `CircuitBreakerProofs` | the breaker and any number of callers; three theorems |
| `Retry` | one call of `Retry`, its settings, delays and cancellation |
| `AtLeastOnce` | abstract specification of the outbox: send, deliver, retire |
| `OutboxWorker`, `OutboxWorkerProofs` | outbox table, workers, Kafka; refines `AtLeastOnce`; three theorems |
| `WorkerPool`, `WorkerPoolProofs` | the pool the outbox worker uses; four theorems |
| `VerifyTransaction`, `ProcessConcurrently` | the two fan-out functions |
| `Idempotency`, `IdempotencyProofs` | authentication, middleware, Redis and handler over an outline of the payment service; five theorems |
| `RateLimiter`, `RateLimiterProofs` | the buckets in memory and in Redis; three theorems |
| `Migrations`, `MigrationsProofs` | starting servers and the schema; four theorems |
| `Pagination` | a client walking the pages of a listing |
| `MCCalls` | one call of `Retry`, `VerifyTransaction` or `ProcessConcurrently`, or one walk of `Pagination`, which share nothing: the initial state chooses which |
| `CallsProofs` | invariants of the four and twelve theorems |
| the other `MC*` modules | constants, inputs and initial states for TLC |

### PaymentService

A handler is one HTTP request: a member of `Creates` or of `Refunds`. Its program counter
`pc` names the next round trip. A client that retries is another handler with the same
input. Because a create handler mints a random ID, it also names the row it inserts:
`status[c]`, `events[c]`, `outbox[c]` and `charges[c]` are about the transaction of `c`.

| Step | Code | Atomic because |
|---|---|---|
| `IdempotencyCheck` | lookup, replay or refuse | one SELECT |
| `Validate` | merchant lookup and the request checks | one SELECT |
| `Persist` | `createInDBTransaction` | one transaction; the unique index may refuse |
| `SetStatus`, `RecordEvent`, `EmitOutbox`, `RollbackTransition` | `transition`, `rollbackTransition` | one statement each, they commit one by one |
| `Charge`, `GiveUpBank` | `callBank`: an attempt; or no (further) attempt | one call |
| `CompletePayment` | `completeInDBTransaction` | one transaction |
| `LoadOwned` | `ownedTransaction` and the status check | one SELECT |
| `RefundInDBTransaction` | the refund | one transaction |

`Outcomes` is the set of results of a round trip: carried out and reported, carried out but
reported as an error (the reply, in particular of COMMIT, was lost), not carried out. Under
the context of a canceled request it never succeeds; the steps after the bank call use
a detached context (`postBankContext`) and are not affected. `Faults` chooses for each
handler whether it may crash, its client cancel and its database calls fail. The bank may approve, reject, fail
retryably or answer nonsense, and in the last two cases may have taken the money.

Abstracted: the transaction ID, timestamps, payload texts and error wording; the breaker's
state (it may refuse any call); the delays of retry (`Retry` has them). The merchants' rows exist and keep
their active flag: nothing in the program changes them. The variants without a database
(`*WithMocks`) run only in unit tests.

### CircuitBreaker

`beforeRequest`, `afterRequest` and `State` hold the mutex and are one step each;
`AfterRequest` is the second half of `Execute`. `cooled` says whether `resetTimeout` has
passed since `openedAt`. `caller[c]` remembers how the running request was let through,
which the code does not: `afterRequest` cannot tell a test from an old request, and the run
`late_result` shows what comes of it. A panic of
the bank call is left out: nothing in `bank.go` panics, but `afterRequest` is not deferred,
so a client that did would leave `halfOpenRunning` set.

### OutboxWorker

One worker per server process. `FetchUnpublished` is the single claiming statement together
with the start of the batch; `Publish` and `MarkPublished` are the halves of `processEvent`.
The events of a batch are handled in any order and the next claim waits for all of them, as
`pool.Shutdown` does. `lease` is `published_at` of a row not yet published: none, in the
future, or in the past. `Shutdown` cancels the worker's context, after which no call
succeeds; `Exit` ends the process without waiting for the worker, as `main` does. A row
that another claim has locked (`SKIP LOCKED`) is covered by the claims taking turns.

### Retry

The loop of `Retry`: `Check` is the loop condition and the look at the context, `Call` the
function with the decision that follows it, `Wake` and `Interrupt` the two ends of the wait.
The statement after the loop, the first alternative of `Check`, is never reached, because
the last attempt always returns and the limit is never below one. `RetryDelay` says which waits
`retryDelay` may return. The exponential is computed in floating point; where it exceeds a Duration the conversion yields the largest
or the smallest value, depending on the build, and the model has both. The sum with the
jitter wraps (`Plus`). Out of range a wait may be negative and the retries a tight loop; the
code allows it, so `WaitsGrow` promises growth only in range, and `ResultIsTrue` that such a
loop makes no more than `maxAttempts` calls.

### WorkerPool, VerifyTransaction, ProcessConcurrently

A mutex section that cannot block is one step. In `WorkerPool` a Submit is `Call`, then
`Refuse`, or `Admit` (slot taken, mutex held) and `Send` (the blocking send). A job may be
submitted from inside another one (`Parent`), which then does not return before its Submit
does. Workers are interchangeable and counted. In the other two modules each goroutine's
steps that others can observe (return, send or store, release of the token, `wg.Done`) are
separate, and the context may end at any moment. An error of `VerifyTransaction` carries its
origin: the check itself, the caller's context, or the function's own cancellation.
`TokenBucket` is the bucket of `RateLimiter` with one client. `SafeMetrics` is one map
under one lock that the server does not use.

### Idempotency

One action per Redis command and per call of the service. `Outcomes` has lost and failed
commands, and under the context of a client that is gone no command is reported as a success.
`tracked` are the requests for which the middleware got PROCEED and will store or release.
The service is reduced to `Serve` (replay from the database, refusal or a new row), `Work`
(processPayment, whose completion may be carried out and reported as an error) and `Refund`; what happens inside is `PaymentService`. The unique index is
over all merchants, the Redis key is per merchant. `Expire` is the TTL or a loss of Redis'
data. `Resend` is a command that the go-redis client repeats after a lost reply, as it does by
default. `disturbed` is a history variable: keys whose entry was lost while its request ran, whose check
failed, or whose DEL is repeated; the properties about Redis' protection exclude exactly these keys, the others hold
always. A request that sends both key headers with different values is left out, as is a
server without Redis, where every request takes the path of a failed check.

### RateLimiter

Every decision is one step (mutex or script). Tokens are counted in fractions so that one
tick refills `Rate` of them: no rounding. The configuration is any rate and burst, as
`config.go` checks neither, zero and negative ones included, in memory or in Redis
(`Shared`), and nothing relates them to the time to live. In Redis buckets expire `TTL` after
the last decision, the clock may be set forward and back, the client may run the script again
(`Resend`), and a failing call admits the request. `Wipe` is a bucket lost before its time:
Redis evicts it or restarts, or the server that holds it in memory restarts. `from`,
`admitted`, `expired`, `wiped` and `since` are history variables of an observer who may start
to count at any moment (`StartWindow`); requests let through because Redis failed are not
counted as admitted by the limiter.

With a rate below burst/60 an emptied bucket in Redis expires before it is full and the next
one starts full. `WindowBounded` says what that costs: a burst more for each such expiry, at
most once per TTL, and no such expiry where the rate fills the bucket in time, or in memory.

### Migrations

Servers start, exit on any error and are started again. A file is its position in the
sorted directory. The check for a file (`CheckFile`), its statements (`ExecFile`), the insert of its name
(`RecordFile`, which waits for a concurrent insert of the same name, as the primary key
makes it) and the commit are separate steps; what the file's statements do is left out, so
one that cannot run twice (0006 adds columns that must not exist) is treated as if it could; `CommitLost` is a commit whose reply is lost.

### Pagination

The parameters, the count and the page of `ListByMerchant`, and a client that asks for the
next page at the offset and limit of the answer until a page is empty. `Insert` adds rows
with any `created_at`, because the clock of a server is read before the commit. A page is
any set of rows that ORDER BY, LIMIT and OFFSET allow, the difference of two of the `Firsts`:
rows of equal time come in any order.

## Runs

Passing:

| Run | Instance | Distinct states | Shows |
|---|---|---|---|
| `payments` | 2 creates with 7 inputs (same key equal, same key different, no key, every reason to refuse), 2 refunds, 2 attempts, all faults at one create, database errors at one refund, fair | 101,076 | `TypeOK`, `OneChargePerKey`, `CreditedOnceAfterCharge`, `ChargedIsOnRecord`, `NoContradictoryEvents`, `ReplaysAgree`, `BalanceMatchesOutbox`, `AuditTrailWhole`, `LedgerSafe`, `SettlementIsFinal`, `ApprovalStands`, `EveryRequestEnds`, `EveryPaymentDecided` |
| `breaker` | 4 callers, threshold 3, fair | 122,400 | `RefusalHasTest`, `OpenCircuitIsTested` |
| `outbox` | 2 events, 2 workers, batch 2, 2 failures, fair | 27,874 | `DuplicateNeedsExpiry`, `OneWorkerPerLease`, `DeliverySafe`, `DeliveryLive` |
| `worker_pool` | 5 jobs, 2 of them from inside others, 2 workers, queue 1, 2 shutdowns, fair | 13,562 | `BlockedSendHasTaker`, `NoSendOnClosed`, `AcceptedRunOnce`, `EveryPoolCallReturns` |
| `calls` | Retry with 240 configurations and durations up to 15; the three checks; 4 items, 2 at a time; a listing of up to 3 rows with 3 times and limits absent, in range and too large; fair | 130,600 | `ResultIsTrue`, `OneLateCall`, `WaitsGrow`, `EveryCheckReported`, `CauseReported`, `ResultsComplete`, `WalkMissesNone`, `EveryCallReturns` |
| `idempotency` | 2 requests, 2 merchants, 1 key or none, all faults | 66,120 | `OneTransactionPerKey`, `SuccessIsOwn`, `ExclusiveUnlessDisturbed`, `CachedAnswerDecided` |
| `rate_limiter` | 1 client, 5 configurations in memory and in Redis, burst up to 2, a second and TTL of 4 ticks, 8 ticks of travel, 1 early loss per window | 1,182,046 | `WindowBounded`, `RefusalsEnd` |
| `migrations` | 3 servers, 3 files, 2 faults, fair | 26,799 | `AppliedOnce`, `ServesMigrated`, `AllServersServe` |

Disagreements between the code and what the repository says of it; TLC finds the
counterexample:

* `double_refund` (`RefundedAtMostOnce`): two refunds of one payment read COMPLETED before
  either commits, and both debit the merchant. The status check is outside the transaction
  and the update has no condition.
* `failure_announced` (`FailureAnnounced`): a crash inside `transition` leaves a FAILED
  payment without an event.
* `key_reuse` (`ReuseRefused`): the middleware replays the stored answer of a key without
  comparing the request, so the service's conflict error for a reused key is not given.
* `late_result` (`TestSuccessCloses`): a request from before the outage fails while the test
  request runs and opens the circuit again; the success of the test then finds it open and is
  dropped, although "if it succeeds, the circuit closes" (README.md:382-383). It takes a
  request that outlasts the cooldown: `BANK_CB_RESET_SEC` below `BANK_API_TIMEOUT_SEC`, or
  with the defaults (5 s each) a goroutine that is delayed.

One more can be read off the model without a run: `RollbackTransition` moves a row back to
an earlier status, which the transition table does not have ("Impossible to ... make an
invalid transition", README.md:377).

Bounds. Two requests with one key are enough for every race on a key, since the database
keeps at most one row per key. `payments` starts in one of two kinds of states: two creates
that may race while the refunds are another merchant's and refused, or one payment and two
refunds of it while the second create is refused; the faults are those of one create and one
refund, so that the other ones show what an undisturbed request is still promised
(`EveryPaymentDecided`). The proofs have neither restriction. The amounts are a limit of 2
and an initial balance of 1, so that a refund of the same amount twice can meet an
insufficient balance, and a second attempt is the last one. Four callers with threshold 3
leave one late result when the circuit has opened. Two workers and two events give a claim
that races and batches that are full and not full. `deliveries` stops counting at 2, which
is all that "more than once" needs. `MaxFaults` bounds the failures of the outbox and of
migrations, and `MaxAttempts` is the code's own bound. In the pool, five jobs exceed the
three slots, and jobs that submit from inside may occupy both workers while they wait for
the mutex. Two requests on one Redis key let a late release or store hit the entry of the
other one; the theorems about `Idempotency` are for any number. The rate limiter's five
configurations are one in memory, one in Redis that fills a bucket in exactly the TTL, one
that takes twice as long, a negative rate and a negative burst; a token takes two or four
ticks, so that fractions matter, and `MaxTravel` lets a bucket expire twice. `MaxWipes` bounds
the early losses of a window. Buckets do not interact, so one client is enough. Two
faults let a server lose a commit, restart and crash again. Three rows with pages of one to
three rows put inserts before, on and behind the page. Five attempts with a base of 3 leave
the range of durations of the `calls` run.

Fairness. Payment handlers: weak fairness of each handler, because its goroutine is
scheduled and every call ends (bank calls under a deadline, database calls by reply or
connection error). Breaker: time passes, calls end, requests keep coming. Outbox: the
ticker polls, calls end, leases expire, a stopping process exits and is restarted by its
supervisor (the Kubernetes deployment); failures are finite, so `DeliveryLive` says nothing
of an event that can never be published. No fairness is assumed of faults or of `Create`.
Pool, patterns and retry: goroutines are scheduled, jobs and the functions passed in end,
and timers fire; nobody has to call Submit or Shutdown. Idempotency and the rate limiter: none, their properties are safety. Migrations:
processes run and are restarted, and faults are finite. Listing: the client goes on, and a
request it repeats is answered in the end (strong fairness of the two statements, because a
failure in between disables them).

Deadlock is checked in every run but `calls`; `Terminating` is the end of an instance.
`calls` is one call of a function or one walk over the pages, which ends: there `EveryCallReturns` says that it does not
stop before.

## Proofs

All theorems hold for every value of the constants, under the named assumptions of the
modules. Sets are assumed to be finite only where they are summed or counted: the requests that
create (`FiniteAssumption`) and the rows of a listing (`TxsAssumption`).

**PaymentServiceProofs.** `IInv` is the conjunction of `TypeOK`, a part `Local(c)` about one
create handler and its row, `Answered` (a replay names a row of the same key and request),
`Refunding` (a refund past its check is about a credited row) and `KeyInv` (one row per key).
`Local` ties the step to the memory (`Memory`), the attempts (`Attempts`), the stored status
(`Row`), the outbox (`Announced`) and the audit trail (`Trail`). It is needed because the
properties speak of ended handlers only: that a payment is credited once depends on the
status being uncredited at every step before `complete`. `StepAt` shows that a step at one handler
needs to re-establish only that handler's part, so there is one short lemma per action.
Theorems: `TypeCorrect`, `ChargedOncePerKey`, `CreditSafety`, `AnnouncementsAgree`,
`AuditSafety`, `ReplaySafety`, `SettlementFinality`, `ApprovalSafety`, where
`Approved` (at the completion, or ended and not FAILED) is kept by every step, and `MoneyIsTraced`, for which `Row` and
`Attempts` say that a handler which may write PENDING back has made no call to the bank.
`BalanceSafety` is about a sum over all payments of a merchant: `SumUpdate` says that changing
one summand moves the sum by the difference, proved by induction over the size of a finite set
for the relation `Adds` (a function on the subsets that adds one element at a time), which
the library's fold satisfies. A completion and a refund then move the balance and one summand by the same amount.
`ImplementsLedger` is the refinement: the bank's payments are `taken`, the settled rows
`credited`, the announced refunds `refunds`; `Charge`, `CompletePayment` and
`RefundInDBTransaction` are `Take`, `Credit` and `Refund`, or stutter when they are not carried out, and
every other step stutters. `RequestsAdvance` is the part of `EveryRequestEnds` that does not need fairness:
`StepsLeft` ranks the steps of a handler, every step but a cancellation lowers the rank of one request and raises
none, and the rank never exceeds `MaxAttempts` + 9.

**CircuitBreakerProofs.** The properties are inductive together with `TypeOK`:
`TypeCorrect`, `OpensAtThreshold`, `NeverStuckRefusing`.

**OutboxWorkerProofs.** `Claimed(e)`: an unleased row is untouched, and a mark follows a
delivery. `Unexpired(e)`: while no lease expired there is one holder, and no delivery before
that holder's own. Theorems: `NoDuplicateUnderLease`, `LeaseIsExclusive`, and
`ImplementsDelivery`, the refinement of `AtLeastOnce`, where `Create` is `Send`, a publish
that reaches Kafka is `Deliver` and a mark is `Retire`.

**WorkerPoolProofs.** `SlotsInv`: the slots taken are the jobs in the queue, the running ones
and the one being sent, so a sender that got a slot implies room in the queue or a free
worker. `LiveInv` and `StopInv` tie the end of workers and Shutdown to an empty queue,
`PlaceInv` says where each job is. Theorems: `TypeCorrect`, `SendAlwaysTaken`,
`NeverSendsOnClosed`, `NoJobLost`.

**RateLimiterProofs.** No relation between rate, burst and TTL is assumed. `BoundInv`: what was
admitted in the window plus what the bucket may hold now (`Held`) is at most a burst, one more
per bucket lost, and the rate times the time passed. This potential is needed because refills
happen only at decisions. `ExpiryInv`: each expiry of a bucket that was not full has used up a
TTL of the window's time, of which `Age` is the part already spent; `ExpiredShort` shows that
it needs a rate too low for the TTL. `LevelInv`: a bucket is overdrawn only by a negative rate
or burst. `SavedInv`: refused requests have saved the tokens of the time since the first of
them. Theorems: `TypeCorrect`, `RateEnforced`, `NoClientStarves`.

**IdempotencyProofs.** `FlowInv` ties a request's step to its row and answer, `EntryInv` a
stored answer to its key, `OwnerInv` says that an undisturbed key has at most one live
request and that its entry is there until it is stored or released, `StoreInv` carries `CachedAnswerDecided` over the step
between answer and store. Theorems: `TypeCorrect`, `PaidOncePerKey`, `NoForeignAnswer`,
`DuplicatesExcluded`, `NoStalePendingAnswer`.

**MigrationsProofs.** `RecordInv`: a file has taken effect once exactly if it is recorded;
`LoopInv`: the files before a server's position are recorded; `WriterInv`: who is about to
commit holds the name, and it is not recorded; `OrderInv`. Theorems: `TypeCorrect`,
`NeverTwice`, `SortedOrder`, `SchemaComplete`.

**CallsProofs.** *Retry*: `LoopInv` counts the calls by the attempt, `LateInv` says that at a
call none has been late yet, `WaitInv` that the last wait, without its jitter, was at most the
capped exponential of the attempt before. The exponential is the recursive function `Pow2`,
whose existence and equation are proved first (`Pow2Def`). Theorems: `RetryTypeCorrect`,
`ReturnsWhatHappened`, `StopsAfterCancel`, `WaitsBackOff`. *VerifyTransaction*: the results in the channel, the
collected ones and the ones still to be sent are each check once, and the function
cancels only after it has collected a failure, so the first failure it collects is a cause. Theorems:
`VerifyTypeCorrect`, `EveryCheckIsReported`, `CauseIsReported`. *ProcessConcurrently*: the wait
group counts the goroutines that are not done, the semaphore those that hold a token.
Theorems: `ProcessTypeCorrect`, `ResultsAreComplete`. *Pagination*: `ListInv` says that a row the
walk still owes has at least as many newer rows as the next offset: inserts can only
raise that number, and a page at an offset either has the row or ends before it (`PageReaches`).
Theorems: `ListTypeCorrect`, `WalkIsComplete`. `CallsImplement`: the specification of the run
implements the four.

Induction over data is done here without the library's theorems that take an operator: a
property is the set of the numbers that have it (`NatSetInduction`), which follows from the
existence of minima in well-founded sets.

The type invariants but that of `PaymentService`, `ClosedBelowThreshold` and `AppliedInOrder` are
proved and need no run.

Only model-checked: the liveness properties (`EveryRequestEnds`, `EveryPaymentDecided`,
`OpenCircuitIsTested`, `DeliveryLive`, `EveryPoolCallReturns`, `EveryCallReturns`,
`AllServersServe`), because fairness is outside the prover. Every invariant
and every action property that a passing run checks, and `ApprovalStands`, is also a theorem.

## Not modelled

See `components` in `PROJECT.json`. Logging, metrics, tracing, CORS, JSON and configuration
have no state that the guarantees depend on. The handlers that only read (`GetByID`,
`GetEvents`, `GetBalance`, health) have nothing to interleave but one SELECT, or two whose
results are about rows that are never deleted. The mock repositories and the `*WithMocks`
variants run only in tests. The simulated bank is one of the behaviours of `ChargeResults`.
Not covered by a property, because the code promises nothing: the order in which events
reach consumers, events that can never be published, the reconciliation of a payment whose
process died after the charge, a payment marked FAILED or charged again because the bank's
answers were lost (the bank's own idempotency by transaction ID has to cover it), an entry
left in progress in Redis, which only its TTL ends, rows of equal `created_at` in a listing, and the growth of
the limiter's map in memory.

## Open

1. The composition of `Idempotency` with `PaymentService` by refinement: the outline of the
   service in `Idempotency` as the image of the detailed one.
2. Ranks for the workers of the pool and the migrating servers, as `RequestsAdvance` has one for the payment handlers.
3. A batch of events that can never be published: what `DeliveryLive` still promises of the
   others.
