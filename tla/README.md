# Verification of the job scheduler platform

TLA+ models of the platform, from the request that submits a job to the callback that
delivers it, with the TLC configurations that check them and theorems about them that TLAPS
proves. Every definition is translated from the Go source; `PROJECT.json` maps definitions
to lines.

## The system

* The **API** (`cmd/api`) throttles, authenticates and limits requests, writes jobs to
  Postgres and hands them to Redis: `XADD jobs:ready` when they are due,
  `ZADD jobs:scheduled` when not. A `job_outbox` row joins the job's transaction and is
  deleted after the handoff.
* The **scheduler** (`internal/scheduler`) ticks. The one that holds the lease
  `scheduler:leader` promotes due entries, spawns cron instances and reconciles the outbox.
* **Workers** (`internal/worker`) read `jobs:ready` as a consumer group, start the job under
  its `queue_generation`, send the callback, record the execution, and retry,
  dead-letter or finish the job. They reclaim entries others left pending and quarantine
  entries that were delivered too often.
* **Postgres** (`internal/repository`) holds `jobs`, `job_executions`, `job_outbox`,
  `cron_jobs` and `api_keys`. Row locks and guarded UPDATEs are what synchronises processes.

## Modules

| Module | Models | State and actions |
| --- | --- | --- |
| `Dispatch` | one job: repository, queue, worker, job requests, cron's INSERT, reconciler | the job's rows (`job`, `execs`, `outbox`), its entries (`scheduled`, `ready`, `acked`, `dlq`), what each process holds in memory (`pc`, `msg`, `snap`, `attempt`, `todo`, `hand`). One action per call on Postgres, Redis or the callback |
| `AttemptLedger` | abstract: what the executions of a job promise its receiver | attempts are handed out in order, started once, completed once. `Dispatch` implements it |
| `JobLifecycle` | abstract: the edges between statuses | one action per edge. `Dispatch` implements it when the timing margins hold |
| `LeaderLock` | the lease, `Scheduler.Run`, the heartbeat | `lock` and its remaining life, each scheduler's place in the tick, its heartbeat and that heartbeat's age. One action per call, and `TimePasses` |
| `Cron` | one cron row, its requests, overlapping ticks | the row, occurrences with a job, outbox row or stream entry, each tick with the time it read. One action per transaction or call |
| `RateLimit` | one bucket of the sliding window | the sorted set with its expiry, and what it has admitted and refused. One action per request, on any clock within `Skew` of the true one |
| `Submission` | `CreateJob` for the requests of one idempotency key | the row, its outbox row and queue entry, each request's next call and answer. One action per call, with every error path |
| `Api` | composes both behind the middleware chain | the stage of each request, its key and address, one bucket per key and per address |
| `Retry` | `Backoff` and `BackoffWithJitter` | operators |
| `Callback` | one HTTP exchange: lookup, pinned dialling, answers, redirects, verdict | operators on the record of an exchange |
| `Delivery` | composes both with `jobs:scheduled` and time | where each job is, its attempts, the time left to its run time, its exchange |
| `MC...` | instances for TLC | symmetry sets and named constant values |
| `...Proofs` | theorems about the module of that name; `TimelyProofs` are those about `Dispatch` without races | |

### Dispatch

Every statement is keyed by the job's id, so one job is modelled. Other jobs only cost time:
a read returns any prefix of the undelivered entries, and a process may stop anywhere between
two calls. What a worker read with `GetByID` is kept in `snap` and may be stale later, as in
the code. A job comes from a request (`CreateJob`) or from a cron tick (`CreateDueInstance`):
the latter inserts it as `scheduled` and enqueues it as due.

The code keeps four races unlikely by timing (`stalePendingAfter`, `outboxGracePeriod`,
the backoff of at least one second) or by luck. The constant `Races` says which of them a run
allows: `reclaim`, `handoff`, `promote`, `regroup`. `FaultPoints` says at which
calls a failure or a crash may strike, and whether entries may be trimmed (`trim`) and the
consumer group lost (`group`); `MaxFaults` says how often. A call that took effect and whose
answer was lost is the effect followed by a failure at the next call, except for
`ScheduleRetry`, whose error path does something else and is an action of its own.

When the group is lost, the next read recreates it at 0 and every entry still in the stream
is delivered again, so acknowledged entries are kept (`acked`) in the runs that allow it.

### LeaderLock

Time is discrete and only differences matter. A heartbeat fires every `TTL \div 2` and is at
most `MaxLag` late; the delay between a command's effect in Redis and the process that sent it
seeing the answer is counted into that lag. `Mishaps` allows failed renewals, failed
acquisitions, and restarts that reuse an instance id. Each of these three alone makes two
schedulers act at once possible, so the lease is an optimisation and not mutual exclusion;
`Dispatch` and `Cron` therefore assume nothing of it.

### Cron

An expression is the set of times it matches, the zero time is 0. Instances are named by
their occurrence, as their idempotency key names them, and are neither cancelled nor retried
here; `Dispatch` has what happens to a job afterwards.

### RateLimit, Submission, Api

The script of the limiter takes the time from the caller, so instances with different clocks
share one log; each call reads a clock between `now` and `now + Skew`. A refused request
touches the log too: it evicts and prolongs the expiry.

A request of `Submission` carries parameters that are compared as they are, a `run_at` that is
not compared, and a payload: a number, and whether the document is written as `jsonb` writes it.
The row keeps the payload as `jsonb` writes it (`Stored`). `jsonPayloadEqual` compares what
`json.Unmarshal` decodes, for which some numbers beyond `Exact` (2^53) are the same, and the
bytes when a number is beyond `Largest`, the last that float64 holds. The answer to a client,
with the job id in it, is state: the properties relate answers of different clients.

`Api` has two good keys with one client name. A request that is refused, fails or loses its
answer in the middleware never reaches the handler; `PartsImplement` says that with all this
the handler is still `Submission` and every bucket still `RateLimit`, so that what is proved
of the two modules holds of the whole.

### Retry, Callback, Delivery

DNS answers anew at every lookup and the endpoint answers anything, or never. Headers are left
out. A connection that breaks or times out before the status has come is a failed exchange;
after it, it cuts the body short, which `ExecuteJob` does not notice: the error of `io.Copy` is
dropped, and a 2xx counts. `DoneIsDelivered` says as much and no more. In `Delivery` time is relative: a
job keeps the time left to its run time and the time since its last failure, which makes the
state space finite without bounding the clock. Scores are whole seconds (`Second` units). An
attempt here takes any time and has no faults of its own: `Dispatch` has those.

## Runs that pass

| Run | Checks | Bounds |
| --- | --- | --- |
| `races` | types; attempts never shared; inserts never conflict; a running row behind every callback; evidence for done and dead; queues not ahead of the fence; fence monotone; the inductive invariant `LedgerInv`; the abstract ledger implemented, by which completed rows are permanent | 2 workers, all races, 1 fault at `HardPoints` or a trimming, `MaxGen` 2, 2 stream entries |
| `timely` | no job lost, one runner, attempts bounded, the abstract life cycle implemented, every job ends | no races, 2 faults at `SafePoints` (the loss of an idle group among them), `MaxGen` 3; the entry bound is never reached |
| `leader` | types and `LeaseInv`; one scheduler acts until a call fails or an id is reused; leases respected; there is always a leader again | 3 schedulers, TTL 4, 2 mishaps of any kind |
| `cron` | types; once, on time, never when disabled, never dropped; one tick recovers; a due row is taken | 2 schedulers, an irregular expression, time up to 7, 2 failures |
| `api` | quotas per key and per address, a key's quota its own; one job per idempotency key, carried once committed, replays honest; the parts implemented | 2 requests of 4 bodies, 2 keys, 2 addresses, limits of 1, a window of 2 with clocks 1 apart, 1 failure in the handler and any number in the middleware |
| `delivery` | done means posted and answered 2xx; connections pinned; delays within the documented ones; retries on time, and not ahead of what was due before they could be; every job ends | 2 jobs, 4 attempts, a public and a private address, batches of 1, delays 2 to 6 with seconds of 2 |

Why the bounds are enough. Two workers suffice for the races of `Dispatch`: each is between one
process and one other that overtakes it, and a third life of the job or a third worker repeats
them. With reclaim allowed, entries become poison without a crash, so one fault can hit the
quarantine. Two attempts separate the first, the last and the one too many; two faults in
`timely` allow a failure during the recovery from a failure. `SafePoints` leaves
out the points after which the code does lose or duplicate, which have runs of their own, and
trimming; `HardPoints` are these, the crashes that leave a callback or a dead letter
unrecorded, and the `XRANGE` whose error is taken for trimmed data (`resolve`). What `races`
checks is also proved for all points and bounds.
In `api` two requests fill and overfill a limit of 1, race on the key and replay it, with
numbers that are rounded together, one that cannot be decoded, in both spellings, and two
values of `run_at`; more requests, other limits and more time are in the proofs. In `delivery` four attempts reach the
cap of the backoff and one more, two jobs and a batch of one make one wait, and a second of 2
makes truncation visible.

Deadlock is checked for `leader` only: elsewhere nothing is left to do once the jobs have
ended, the requests are answered or the clock has stopped.

## Runs that show a disagreement

| Run | What the documentation says | What happens |
| --- | --- | --- |
| `lost_handoff` | a lost race is "never a loss" (`docs/architecture.md:41-42`) | a submission slower than the grace period calls `ScheduleJob` after a worker has delayed the retry, and overwrites its entry, keyed by job id, with the old generation |
| `lost_retry` | the compensation runs when the "DB did not advance" (`processor.go:230-231`) | it also runs when only the answer was lost, and removes the retry |
| `attempts_exceeded` | "a job executes at most 3 times" (`docs/worker.md:74-76`) | a worker superseded by a reclaim reschedules the job under its last attempt |
| `lost_poison` | entries whose data is gone are acknowledged (`worker.go:217-219`) | so is an entry whose read failed |
| `group_loss` | "group loss never silently drops jobs" (`docs/worker.md:13-15`) | a redelivery beside the live worker re-drives the job, and the compensation of one removes the retry of the other |
| `replay_refused` | "`200 {"id"}` on byte-identical replay" (`docs/api.md:45`) | a payload with a number beyond float64 cannot be decoded, its bytes are compared with what `jsonb` has written anew, and the replay is a 409 |

More disagreements were met and have no run:

* A same-generation redelivery re-drives a job that is being executed instead of being
  "ack-and-forget" (`scheduler/outbox.go:36-38`); it is a step of the trace of
  `attempts_exceeded`.
* With the race `handoff` allowed, `ImplementsLifecycle` fails: the unguarded `UpdateStatus` of
  a re-driving worker reopens a job that has just been finished.
* After a failed renewal the scheduler does not "idle until re-acquired"
  (`docs/scheduler.md:51-52`): it goes on acting while the lease lasts.
* A cron template with payload `null` is accepted at creation and refused by every tick,
  against `handlers.go:723`.
* Payloads that differ in a number beyond 2^53 are taken for equal, where `handlers.go:192`
  asks for the same parameters; `ReplayHonest` is stated up to that rounding.
* A 2xx whose body breaks off or times out is recorded as done, although the body is read so
  that nothing is "truncating silently" and no "false success" recorded (`http.go:98-100`).
* `NextRunAt` returns the zero time for an expression that never matches (30 February), and
  `CreateCronJob` and `CreateDueInstance` write it to `next_run_at`: the row stays due, spawns
  once, and every later tick meets the idempotency key. The UPDATE meant for that case
  (`cron_jobs.go:340`) runs in the transaction the failed INSERT has aborted; it would write the
  zero time again in any case. `DueIsTaken` is about expressions that match.
* A redirect to another port of the same host is dialled at the first port: the pinned dialer
  keeps it (`callback_url.go:142`), although same-host redirects are "followed"
  (`docs/queue.md:87`).

## Fairness

* `Dispatch`: weak fairness of every worker (`Run` loops without end and is restarted after a
  crash), of every handoff once begun and of the reconciler, of promotion and of time. Nobody
  has to send a request, and faults are not fair.
* `LeaderLock`: weak fairness of the loop and of the heartbeat, separate goroutines; of time;
  a process that has ended is started again by its service.
* `Cron`: some scheduler keeps ticking, and a tick goes on once begun. No fairness is assumed
  of any particular scheduler's ticks: the standby may never tick.
* `Delivery`: weak fairness of the clock, of promotion (the leader's ticker), and of every
  attempt once its job is ready: each call of an exchange ends by its timeout. Clients submit
  when they like.

`Submission`, `RateLimit` and `Api` have safety properties only.

## What is proved

For every number of processes, requests and jobs and every bound; in `DispatchProofs` also for
every choice of races and faults:

* `DispatchProofs`: types; `FenceMonotone`, `QueueWithinFence`, `AttemptsExclusive`,
  `InsertNeverConflicts`, `AuditBeforeCallback`, `CompletedRowsPermanent`, `DoneHasEvidence`,
  `DeadHasLetter`. None is inductive alone. `LedgerInv` is: `PairsInv` says that
  `StartExecution` hands out (generation, attempt) in increasing order, so that all pairs on
  record or in a worker's hands lie behind the row's; `RecordInv` extends the evidence for done and
  dead to workers that are about to write the status; `FenceInv` bounds every remembered
  generation by the row's. `FenceMonotone` is what lets `PairsInv` survive the steps of others.
  From the same invariant, `LedgerImplemented`: `Dispatch` implements `AttemptLedger`, by cases
  over the few ways in which a step writes the row and the executions.
* `LeaderLockProofs`: types; `LeaseRespected` with all mishaps; `SingleActor`, which is about the
  time before a renewal or acquisition fails or an id is reused (`slipped`), from `LeaseInv`: the
  owner's heartbeat is alive and the lease's remaining life and the heartbeat's age add up to at
  least the TTL. The assumption is `TTL \div 2 + MaxLag < TTL`.
* `CronProofs`: types; `InstancesQueued` (the outbox row goes only after the enqueue),
  `NeverEarly` (ticks read times in the past), `DisabledStops`; and for expressions that match
  again after every time (`Endless`), `RowLockSuffices` (all that was spawned lies before
  `next_run_at`) and `RecoversInOneTick`. Without `Endless` neither holds: after
  the zero time `next_run_at` does not move.
* `RateLimitProofs`, for positive limits and a window longer than the gap between clocks
  (`LimitsPositive`): `LogInv`, that the log, evicted or expired as it may be, holds every
  admission that still counts and never more than the limit. From it, no window shortened by the gap
  sees more than the limit, and nobody is refused unless a window lengthened by it is full.
* `SubmissionProofs`, when `None` names no request (`NoneFresh`): `SubmissionInv` says of
  each request what its next call and its answer know of the row. From it, one job per key,
  committed jobs carried, and replays honest: a 2xx is about the job that was asked for, up to
  rounded numbers, and a 409 about another or about a number that cannot be decoded.
* `ApiProofs`, for positive limits, keys that are no addresses and `None` that is neither key
  nor request (`ApiAssumption`): `ApiInv` says, stage by stage, which buckets a request has
  asked, that no bucket logs a request twice and a key's bucket only requests with that key,
  and of each log what `LogInv` says of one. From it `ServedWithinQuota`, `LookupsThrottled`,
  `QuotaIsOwn`, and that every bucket implements `RateLimit`; the handler implements
  `Submission` without it. Both together are `PartsImplement`. `OneJobPerKey`,
  `CommittedIsCarried` and `ReplayHonest` then come from the theorems of `SubmissionProofs`,
  cited through an instance.
* `TimelyProofs`: `NoLostJob`, `SingleRunner`, `AttemptsBounded` and `ImplementsLifecycle`, under
  the hypothesis `Timely`, which is the next section.
* `DeliveryProofs`: `ExchangesInv`, that every exchange keeps to the addresses it pinned, to
  POST and to the limit on redirects, and from it `DoneIsDelivered` and `ConnectsToValidated`.
  `BackoffAsDocumented` and `JitterAsDocumented` say what the loop, the cap and the jitter
  compute for every base, cap and attempt: between half of the documented delay and all of
  it. The loop ends early at `MaxDelay \div 2`, so under an odd cap it reaches the cap when the
  documented product is one unit short of it; rounding half of it down and doubling again
  takes that unit back. `DelaysInv` carries this through time: the time left and the time waited
  of a retry add up to a documented delay. From it `DelayBounded`, `RetrySpacing` and,
  with the order of the batch, `RetriesYield`, for positive delays with the base within the cap.

`Doubled` and `PowerOfTwo` are recursive functions. The library's induction theorems take an
operator, which the provers cannot instantiate; `SetInduction` is induction for a set of
numbers instead, from the theorems that `<` on `Nat` is well founded and that a non-empty
set has a minimal element. `Iterates` shows with it that functions defined by iteration
exist, which is what allows `Doubled` to be unfolded.

### Timely

`Timely` says that no race of `Races` happens, that faults strike at none of `UnsafePoints`, and
that there are fewer faults than the deliveries that make an entry poison. It says nothing of
the numbers of workers, requests, schedulers, attempts, generations and entries. Its
parts are needed:

* each race and each of the points, allowed alone, makes TLC find `NoLostJob` violated on the
  constants of `timely` (with the code's 5 deliveries before an entry is poison). The
  violation runs show some of the ways with nothing else allowed;
* when faults alone can make an entry poison, `quarantinePoison` acts on a listing it does not
  check again: it dead-letters the job for an entry of an older generation while its retry
  runs, or for an entry that another worker has claimed meanwhile and re-drives. With
  2 faults, TLC finds `NoLostJob` and `SingleRunner` violated for `MaxPoisonDeliveries` = 1 and 2.
  The code has 5.

`TimelyInv` is inductive together with the types, `FenceInv` and `PairsInv` of `LedgerInv`:

* `StreamInv`: ids are unique, no entry is ahead of the row, and an entry has been delivered
  once more than there were faults at most, and only while a worker has it;
* `HoldInv`: what a worker has in hand is pending, and nobody else has it;
* `ReadInv`: no timing keeps the row as it is between a worker's `GetByID` and its
  `StartExecution`, so a request may cancel or revive the job there, and another worker may
  conclude it. But the row the worker has read and the row as it is agree on
  whether its delivery is to be recovered, and are the same if it is;
* `OwnerInv`: a worker between `StartExecution` and its last write sees the row as it is. This
  is what makes the unguarded `UpdateStatus` harmless here;
* `HandoffInv`: one handoff is under way, of the row's generation;
* `CarrierInv`: a job that is to run or runs is carried by exactly one of outbox row, delayed
  entry and stream entry. Exactly one is needed where `NoLostJob` asks for at least one: with
  two, a worker could find the job taken and another could start it again.

The proof has a lemma per action. `RowWriters` lists the few steps that write the status, which
gives the edges of `JobLifecycle`. The run `timely` is an instance of the hypothesis; `TimelyInv`
was checked with TLC on its constants, and with two handlers and two schedulers.

## What is only model-checked

Liveness, under the fairness above: `EventuallyTerminal`, `Led`, `DueIsTaken` and
`EveryJobConcludes`. The installed provers have no rules for fairness and `ENABLED`. Every
invariant, action property and refinement of the passing runs is proved; the runs are the check
that the statements are not empty, and the mutants that they depend on the code.

## Not modelled

* **Entries nobody writes**: malformed stream entries, entries of unknown jobs, jobs without a
  callback URL, scheduled ids without a payload or with a corrupt one. The branches for them in
  `Process` and in the promotion script are unreachable from what the platform writes.
* **Trimming of unread entries** as a loss: `docs/queue.md:19-21` accepts it. `Dispatch` has
  trimming, and `races` checks that the ledger survives it; `NoLostJob` is checked without.
* **Reads**: listings, paging, job and execution queries, queue depth. They change nothing.
* **Data**: hashing and generation of API keys, parsing of URLs, address ranges and cron
  expressions, rules of request validation (one outcome: 400), wording of errors.
* **The receiver**: `Idempotency-Key` is job id and attempt number without the generation.
  `AttemptLedger` says which pairs are sent; what a receiver makes of them is not the platform's.
* **Process plumbing**: configuration, logging, metrics, health probes, panics, service mains,
  and the test tools. They hold no state of jobs.
* **`LeaderLock` composed with `Cron` or `Dispatch`**: both are checked without any assumption on
  the lease, with ticks of several schedulers overlapping at will, which is weaker than what any
  behaviour of the lease allows.
