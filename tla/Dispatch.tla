------------------------------ MODULE Dispatch ------------------------------
(***************************************************************************)
(* The life of one job: the rows Postgres holds for it, the entries Redis  *)
(* holds for it, and the processes that move it: API requests, schedulers  *)
(* spawning it and reconciling the outbox, and workers running             *)
(* Processor.Process.                                                      *)
(*                                                                         *)
(* Every statement of the code is keyed by the job's id, so jobs meet only *)
(* in the time workers spend on others: a read may return any prefix of    *)
(* the job's undelivered entries, and a process may pause anywhere.        *)
(*                                                                         *)
(* One action is one call on Postgres, Redis or the callback endpoint,     *)
(* with the local computation up to the next call.  What a process holds   *)
(* in memory between two calls (the row it read, the message it got) is    *)
(* state of its own, and may be stale when it is used.                     *)
(***************************************************************************)
EXTENDS Naturals, FiniteSets

CONSTANTS
  Workers,              \* worker processes of the consumer group
  Handlers,             \* API requests being served, and ticks that spawn the job
  Schedulers,           \* scheduler processes that believe they lead
  MaxAttempts,          \* jobs.max_attempts
  MaxPoisonDeliveries,  \* worker.maxPoisonDeliveries
  MaxGen,               \* bound: manual retries stop at this generation
  MaxMsgs,              \* bound: entries ever added to jobs:ready
  MaxFaults,            \* bound: failed calls and crashes in a behaviour
  FaultPoints,          \* calls that may fail, or be cut short by a crash
  Races                 \* timing races that may happen, see RaceKinds

(***************************************************************************)
(* The code keeps four races unlikely by timing alone.  Each may be        *)
(* allowed or left out:                                                    *)
(*   reclaim   an entry is idle for stalePendingAfter although the worker  *)
(*             that holds it is alive and still working through its batch; *)
(*   handoff   a handoff from outbox to Redis is overtaken: the row        *)
(*             outlives outboxGracePeriod while the request that wrote it  *)
(*             is still at it, or the job runs, dies and is retried before *)
(*             the handoff has deleted the row;                            *)
(*   promote   a retry falls due, and is promoted, before the worker that  *)
(*             scheduled it has recorded the retry in Postgres;            *)
(*   regroup   the consumer group is lost while a worker has the job in    *)
(*             hand, or a re-driven delivery of its generation is in the   *)
(*             stream: the fence cannot tell the redelivery from the live  *)
(*             one.                                                        *)
(***************************************************************************)
RaceKinds == {"reclaim", "handoff", "promote", "regroup"}

\* The calls at which a worker can be (the next call it makes).
Calls ==
  {"startExecution", "hasCompleted", "create", "executeJob", "completeDone",
   "completeFailed", "scheduleJob", "scheduleRetry", "removeScheduled",
   "deadLetter", "markDead", "markDone", "reschedule", "reenqueue",
   "ackRedriven", "ack"}

\* The calls at which a request or a reconciling scheduler can be.
HandoffCalls == {"reread", "checkEntry", "enqueue", "deleteOutbox", "unschedule"}

\* Where a fault can strike: at a call, while a worker holds messages between two
\* calls ("idle"), at the error return of ScheduleRetry, in ReadMessagesByIDs, and in
\* Redis itself: entries trimmed past MAXLEN, the consumer group lost.
AllPoints ==
  Calls \cup HandoffCalls
    \cup {"idle", "scheduleRetryError", "resolve", "trim", "group"}

ASSUME ConstantsAssumption ==
  /\ MaxAttempts \in Nat \ {0}
  /\ MaxPoisonDeliveries \in Nat \ {0}
  /\ MaxGen \in Nat /\ MaxMsgs \in Nat /\ MaxFaults \in Nat
  /\ FaultPoints \subseteq AllPoints
  /\ Races \subseteq RaceKinds
  /\ Handlers \cap Schedulers = {}

VARIABLES
  job,        \* the jobs row: status, attempts and queue_generation
  execs,      \* job_executions: generation, attempt and status of each row
  outbox,     \* generation of the job_outbox row, 0 if there is none
  future,     \* the run_at the job was submitted with is still to come
  scheduled,  \* generation of the entry in jobs:scheduled, 0 if none
  ready,      \* entries of jobs:ready the group has not acknowledged
  acked,      \* entries it has acknowledged, which stay in the stream; kept only
              \* where the group can be lost, and they count again
  nextId,     \* id of the next entry of jobs:ready
  trimmed,    \* id of the last entry trimmed from jobs:ready
  dlq,        \* jobs:dead holds an entry of the job
  pc,         \* the next call of each worker
  msg,        \* the message each worker is handling
  snap,       \* the jobs row as the worker read it with GetByID
  attempt,    \* the attempt StartExecution gave to the worker
  todo,       \* messages and listings the worker still has to go through
  hand,       \* handoffs: the next call of each request and scheduler, the
              \* generation it hands over, and to which key
  faults      \* failed calls and crashes so far

store == <<job, execs, outbox, future>>
stream == <<ready, acked, nextId, trimmed>>
redis == <<scheduled, stream, dlq>>
locals == <<pc, msg, snap, attempt, todo>>
vars == <<job, execs, outbox, future, scheduled, ready, acked, nextId, trimmed, dlq,
          pc, msg, snap, attempt, todo, hand, faults>>

Movers == Handlers \cup Schedulers
Statuses == {"absent", "pending", "scheduled", "running", "done", "dead", "cancelled"}
Terminal == {"done", "dead", "cancelled"}
Startable == {"pending", "scheduled"}
Kinds == {"none", "process", "claim", "poison"}

NoJob == [status |-> "absent", attempts |-> 0, gen |-> 0]
NoMsg == [kind |-> "none", id |-> 0, gen |-> 0]
Done == [pc |-> "idle", gen |-> 0, to |-> "ready"]

Init ==
  /\ job = NoJob /\ execs = {} /\ outbox = 0 /\ future = FALSE
  /\ scheduled = 0 /\ ready = {} /\ acked = {} /\ nextId = 1 /\ trimmed = 0 /\ dlq = FALSE
  /\ pc = [w \in Workers |-> "idle"]
  /\ msg = [w \in Workers |-> NoMsg]
  /\ snap = [w \in Workers |-> NoJob]
  /\ attempt = [w \in Workers |-> 0]
  /\ todo = [w \in Workers |-> {}]
  /\ hand = [p \in Movers |-> Done]
  /\ faults = 0

-----------------------------------------------------------------------------
(* Redis *)

\* XADD jobs:ready
EnqueueDue(g) ==
  /\ nextId <= MaxMsgs
  /\ ready' = ready \cup {[id |-> nextId, gen |-> g, count |-> 0]}
  /\ nextId' = nextId + 1
  /\ UNCHANGED <<acked, trimmed>>

\* ZADD and HSET in one script: the job has at most one entry
ScheduleJob(g) == scheduled' = g

\* ZREM and HDEL
RemoveScheduled == scheduled' = 0

\* Entries the group has delivered and not acknowledged (its PEL)
Pending == {m \in ready : m.count > 0}

Undelivered(m) == [m EXCEPT !.count = 0]

\* XACK: acknowledges for the group, whichever consumer holds the entry; an entry
\* that is not pending stays as it is.
Acknowledge(id) ==
  LET got == {m \in Pending : m.id = id}
  IN  /\ ready' = ready \ got
      /\ acked' = IF "group" \in FaultPoints
                    THEN acked \cup {Undelivered(m) : m \in got} ELSE acked
      /\ UNCHANGED <<nextId, trimmed>>

\* The entry is in the memory of a worker that got it from Redis.
Held(id) ==
  \E w \in Workers : \E e \in todo[w] \cup {msg[w]} : e.kind = "process" /\ e.id = id

\* Entries whose idle time can have passed stalePendingAfter
Stale_NoMinIdle == Pending
Stale == {m \in Pending : "reclaim" \in Races \/ ~Held(m.id)}

Entry(kind, m) == [kind |-> kind, id |-> m.id, gen |-> m.gen]

-----------------------------------------------------------------------------
(* Postgres *)

\* UpdateStatus has no guard but the id.
UpdateStatus_ExecutionName(s) ==
  job' = [job EXCEPT !.status = IF s = "dead" THEN "failed" ELSE s]
UpdateStatus(s) == job' = [job EXCEPT !.status = s]

\* StartExecution: its WHERE clause, the row it writes, the attempt it returns
CanStart_AnyStatus(g) == job.gen = g
CanStart(g) == job.gen = g /\ job.status \in Startable

Started_NotCounted == [status |-> "running", attempts |-> job.attempts, gen |-> job.gen]
Started == [status |-> "running", attempts |-> job.attempts + 1, gen |-> job.gen]

StartedAttempt == job.attempts + 1

\* ScheduleRetry: its WHERE clause (no generation in it) and the row it writes
CanReschedule == job.status = "running"
Rescheduled == [status |-> "scheduled", attempts |-> job.attempts, gen |-> job.gen + 1]

\* Retry of a dead job: a new life under a new generation
Revived_SameGeneration == [status |-> "scheduled", attempts |-> 0, gen |-> job.gen]
Revived == [status |-> "scheduled", attempts |-> 0, gen |-> job.gen + 1]

\* A done row of this generation
HasCompletedExecution_AnyRow(g) == \E e \in execs : e.gen = g
HasCompletedExecution(g) == \E e \in execs : e.gen = g /\ e.status = "done"

\* UPDATE job_executions SET status WHERE id: the row (g, a)
Complete_WholeGeneration(g, a, s) ==
  execs' = {IF e.gen = g THEN [e EXCEPT !.status = s] ELSE e : e \in execs}
Complete(g, a, s) ==
  execs' = {IF e.gen = g /\ e.attempt = a THEN [e EXCEPT !.status = s] ELSE e : e \in execs}

DeleteOutboxEntries == outbox' = 0

-----------------------------------------------------------------------------
(* Workers: reading, listing and claiming entries of the stream *)

\* The worker is between two messages: Process is not running.
Free(w) == pc[w] = "idle"

\* The locals of Process go out of scope when it returns.
Release(w) ==
  /\ pc' = [pc EXCEPT ![w] = "idle"]
  /\ msg' = [msg EXCEPT ![w] = NoMsg]
  /\ snap' = [snap EXCEPT ![w] = NoJob]
  /\ attempt' = [attempt EXCEPT ![w] = 0]

Goto(w, call) ==
  /\ pc' = [pc EXCEPT ![w] = call]
  /\ UNCHANGED <<msg, snap, attempt, todo>>

\* XREADGROUP: the next undelivered entries, in stream order
ReadNext(w) ==
  /\ Free(w) /\ todo[w] = {}
  /\ \E last \in {m.id : m \in ready \ Pending} :
       LET got == {m \in ready \ Pending : m.id <= last}
       IN  /\ ready' = (ready \ got) \cup {[m EXCEPT !.count = 1] : m \in got}
           /\ todo' = [todo EXCEPT ![w] = {Entry("process", m) : m \in got}]
  /\ UNCHANGED <<acked, nextId, trimmed>>
  /\ UNCHANGED <<store, scheduled, dlq, pc, msg, snap, attempt, hand, faults>>

\* Which listed entries reclaimStale hands to quarantinePoison
IsPoison(m) == m.count >= MaxPoisonDeliveries

\* XPENDING: some stale entries, split by their delivery count
ListStalePending(w) ==
  /\ Free(w) /\ todo[w] = {}
  /\ \E listed \in (SUBSET Stale) \ {{}} :
       todo' = [todo EXCEPT ![w] =
         {Entry(IF IsPoison(m) THEN "poison" ELSE "claim", m) : m \in listed}]
  /\ UNCHANGED <<store, redis, pc, msg, snap, attempt, hand, faults>>

\* XCLAIM of the listed entries that are still pending and still idle
Claim(w) ==
  /\ Free(w) /\ todo[w] # {}
  /\ \A e \in todo[w] : e.kind = "claim"
  /\ LET got == {m \in Stale : Entry("claim", m) \in todo[w]}
     IN  /\ ready' = (ready \ got) \cup {[m EXCEPT !.count = @ + 1] : m \in got}
         /\ todo' = [todo EXCEPT ![w] = {Entry("process", m) : m \in got}]
  /\ UNCHANGED <<acked, nextId, trimmed>>
  /\ UNCHANGED <<store, scheduled, dlq, pc, msg, snap, attempt, hand, faults>>

\* The worker takes e, the first of its messages of that kind, and reads the row.
Take(w, e, call) ==
  /\ Free(w) /\ e \in todo[w]
  /\ \A f \in todo[w] : f.kind = e.kind => e.id <= f.id
  /\ todo' = [todo EXCEPT ![w] = @ \ {e}]
  /\ msg' = [msg EXCEPT ![w] = e]
  /\ snap' = [snap EXCEPT ![w] = job]
  /\ pc' = [pc EXCEPT ![w] = call]
  /\ UNCHANGED <<store, redis, attempt, hand, faults>>

\* Process: GetByID
GetByID(w) ==
  \E e \in todo[w] : e.kind = "process" /\ Take(w, e, "startExecution")

\* Quarantine: entries listed as poison come before the XCLAIM, and are read with
\* XRANGE.  A finished job only needs the acknowledgement, any other is
\* dead-lettered.
Quarantine(w) ==
  \E e \in todo[w] :
    /\ e.kind = "poison" /\ e.id > trimmed
    /\ Take(w, e, IF job.status \in Terminal THEN "ack" ELSE "deadLetter")

\* An entry listed as poison that cannot be read, alone or with the others, is taken
\* for trimmed and acknowledged, without a dead letter.
DropUnread(w, e) ==
  /\ Free(w) /\ e.kind = "poison"
  /\ Acknowledge(e.id)
  /\ todo' = [todo EXCEPT ![w] = @ \ {e}]
  /\ UNCHANGED <<store, scheduled, dlq, pc, msg, snap, attempt, hand>>

QuarantineTrimmed(w) ==
  \E e \in todo[w] : e.id <= trimmed /\ DropUnread(w, e) /\ UNCHANGED faults

-----------------------------------------------------------------------------
(* Workers: Process *)

\* StartExecution returned an attempt.
StartExecution(w) ==
  /\ pc[w] = "startExecution" /\ CanStart(msg[w].gen)
  /\ job' = Started
  /\ attempt' = [attempt EXCEPT ![w] = StartedAttempt]
  /\ pc' = [pc EXCEPT ![w] = "create"]
  /\ UNCHANGED <<execs, outbox, future, redis, msg, snap, todo, hand, faults>>

\* A refused delivery is looked into when the row, as GetByID returned it, says that the
\* job runs under its generation.
NeedsRecovery_Never(s, g) == FALSE
NeedsRecovery(s, g) == s.status = "running" /\ s.gen = g

\* StartExecution returned 0.
StaleDelivery(w) ==
  /\ pc[w] = "startExecution" /\ ~CanStart(msg[w].gen)
  /\ Goto(w, IF NeedsRecovery(snap[w], msg[w].gen) THEN "hasCompleted" ELSE "ack")
  /\ UNCHANGED <<store, redis, hand, faults>>

\* What becomes of a running job with no live run: finished, out of attempts, or re-driven
Recovery_NoLetter(w) ==
  IF HasCompletedExecution(snap[w].gen) THEN "markDone"
  ELSE IF snap[w].attempts >= MaxAttempts THEN "markDead"
  ELSE "reschedule"
Recovery_NoCap(w) ==
  IF HasCompletedExecution(snap[w].gen) THEN "markDone" ELSE "reschedule"
Recovery(w) ==
  IF HasCompletedExecution(snap[w].gen) THEN "markDone"
  ELSE IF snap[w].attempts >= MaxAttempts THEN "deadLetter"
  ELSE "reschedule"

CheckCompleted(w) ==
  /\ pc[w] = "hasCompleted"
  /\ Goto(w, Recovery(w))
  /\ UNCHANGED <<store, redis, hand, faults>>

\* Re-drive: back to scheduled, same generation
Reschedule(w) ==
  /\ pc[w] = "reschedule"
  /\ UpdateStatus("scheduled")
  /\ Goto(w, "reenqueue")
  /\ UNCHANGED <<execs, outbox, future, redis, hand, faults>>

Reenqueue(w) ==
  /\ pc[w] = "reenqueue"
  /\ EnqueueDue(snap[w].gen)
  /\ Goto(w, "ackRedriven")
  /\ UNCHANGED <<store, scheduled, dlq, hand, faults>>

\* INSERT of the execution row; a second row for the pair would break UNIQUE.
CreateExecution(w) ==
  /\ pc[w] = "create"
  /\ IF \E e \in execs : e.gen = msg[w].gen /\ e.attempt = attempt[w]
       THEN Release(w) /\ UNCHANGED <<execs, todo>>
       ELSE /\ execs' = execs \cup
                 {[gen |-> msg[w].gen, attempt |-> attempt[w], status |-> "running"]}
            /\ Goto(w, "executeJob")
  /\ UNCHANGED <<job, outbox, future, redis, hand, faults>>

\* The callback answers 2xx, or does not.
ExecuteJob(w) ==
  /\ pc[w] = "executeJob"
  /\ \E next \in {"completeDone", "completeFailed"} : Goto(w, next)
  /\ UNCHANGED <<store, redis, hand, faults>>

CompleteDone(w) ==
  /\ pc[w] = "completeDone"
  /\ Complete(msg[w].gen, attempt[w], "done")
  /\ Goto(w, "markDone")
  /\ UNCHANGED <<job, outbox, future, redis, hand, faults>>

CompleteFailed(w) ==
  /\ pc[w] = "completeFailed"
  /\ Complete(msg[w].gen, attempt[w], "failed")
  /\ Goto(w, IF attempt[w] < MaxAttempts THEN "scheduleJob" ELSE "deadLetter")
  /\ UNCHANGED <<job, outbox, future, redis, hand, faults>>

\* The retry goes to Redis first, under the generation after the one read.
RetryGeneration_BumpedTwice(w) == snap[w].gen + 2
RetryGeneration(w) == snap[w].gen + 1

ScheduleRetryEntry(w) ==
  /\ pc[w] = "scheduleJob"
  /\ ScheduleJob(RetryGeneration(w))
  /\ Goto(w, "scheduleRetry")
  /\ UNCHANGED <<store, stream, dlq, hand, faults>>

ScheduleRetry(w) ==
  /\ pc[w] = "scheduleRetry"
  /\ IF CanReschedule
       THEN job' = Rescheduled /\ Goto(w, "ack")
       ELSE UNCHANGED job /\ Goto(w, "removeScheduled")
  /\ UNCHANGED <<execs, outbox, future, redis, hand, faults>>

\* Compensation when the row did not advance; Process returns without XACK.
Compensate(w) ==
  /\ pc[w] = "removeScheduled"
  /\ RemoveScheduled
  /\ Release(w)
  /\ UNCHANGED <<store, stream, dlq, todo, hand, faults>>

DeadLetter(w) ==
  /\ pc[w] = "deadLetter"
  /\ dlq' = TRUE
  /\ Goto(w, "markDead")
  /\ UNCHANGED <<store, scheduled, stream, hand, faults>>

MarkDead(w) ==
  /\ pc[w] = "markDead"
  /\ UpdateStatus("dead")
  /\ Goto(w, "ack")
  /\ UNCHANGED <<execs, outbox, future, redis, hand, faults>>

MarkDone(w) ==
  /\ pc[w] = "markDone"
  /\ UpdateStatus("done")
  /\ Goto(w, "ack")
  /\ UNCHANGED <<execs, outbox, future, redis, hand, faults>>

Ack(w) ==
  /\ pc[w] \in {"ack", "ackRedriven"}
  /\ Acknowledge(msg[w].id)
  /\ Release(w)
  /\ UNCHANGED <<store, scheduled, dlq, todo, hand, faults>>

-----------------------------------------------------------------------------
(* API requests and the outbox reconciler: handoffs from Postgres to Redis *)

\* Somebody is between reading or writing the outbox row and deleting it.
InHandoff == \E p \in Movers : hand[p].pc \in HandoffCalls \ {"unschedule"}

\* A job that is due goes to the stream, one that is not to the delayed set.
Destination(later) == IF later THEN "scheduled" ELSE "ready"

Step(p, call) == hand' = [hand EXCEPT ![p].pc = call]

\* The row and its outbox row are written in one transaction.
Insert(h, status, later) ==
  /\ hand[h].pc = "idle" /\ job.status = "absent"
  /\ job' = [status |-> status, attempts |-> 0, gen |-> 1]
  /\ outbox' = 1 /\ future' = later
  /\ hand' = [hand EXCEPT ![h] = [pc |-> "enqueue", gen |-> 1, to |-> Destination(later)]]
  /\ UNCHANGED <<execs, redis, locals, faults>>

\* A request submits the job, for now or for later, or a tick of a scheduler spawns it
\* from a cron row: that job is due, and its status is scheduled all the same.
CreateJob(h) == \E later \in BOOLEAN : Insert(h, "pending", later)
CreateDueInstance(h) == Insert(h, "scheduled", FALSE)

\* The clock reaches run_at.
RunAtPasses ==
  /\ future
  /\ future' = FALSE
  /\ UNCHANGED <<job, execs, outbox, redis, locals, hand, faults>>

\* RetryJob: a dead job starts over, now, under a new generation, with an outbox row
RetryJob(h) ==
  /\ hand[h].pc = "idle" /\ job.status = "dead"
  /\ "handoff" \in Races \/ ~InHandoff
  /\ job.gen < MaxGen
  /\ job' = Revived
  /\ outbox' = job.gen + 1 /\ future' = FALSE
  /\ Step(h, "reread")
  /\ UNCHANGED <<execs, redis, locals, faults>>

\* RetryJob reads the row again for the generation it will enqueue, in any case on
\* the stream.
RereadRetried(h) ==
  /\ hand[h].pc = "reread"
  /\ hand' = [hand EXCEPT ![h] = [pc |-> "enqueue", gen |-> job.gen, to |-> "ready"]]
  /\ UNCHANGED <<store, redis, locals, faults>>

\* DeleteJob
CancelJob(h) ==
  /\ hand[h].pc = "idle" /\ job.status \in Startable
  /\ UpdateStatus("cancelled")
  /\ Step(h, "unschedule")
  /\ UNCHANGED <<execs, outbox, future, redis, locals, faults>>

Unschedule(h) ==
  /\ hand[h].pc = "unschedule"
  /\ RemoveScheduled
  /\ hand' = [hand EXCEPT ![h] = Done]
  /\ UNCHANGED <<store, stream, dlq, locals, faults>>

\* ReconcileOutbox: ClaimOutbox commits, so the row is not locked afterwards, and
\* the clock is read once, for the batch.
ClaimOutbox(s) ==
  /\ hand[s].pc = "idle" /\ outbox > 0
  /\ "handoff" \in Races \/ ~InHandoff
  /\ hand' = [hand EXCEPT ![s] =
       [pc |-> "checkEntry", gen |-> outbox, to |-> Destination(future)]]
  /\ UNCHANGED <<store, redis, locals, faults>>

\* The claimed entry still stands for the row.
EntryCurrent_PendingOnly(g) == job.status = "pending" /\ job.gen = g
EntryCurrent(g) == job.status \in Startable /\ job.gen = g

CheckEntry(s) ==
  /\ hand[s].pc = "checkEntry"
  /\ Step(s, IF EntryCurrent(hand[s].gen) THEN "enqueue" ELSE "deleteOutbox")
  /\ UNCHANGED <<store, redis, locals, faults>>

Enqueue(p) ==
  /\ hand[p].pc = "enqueue"
  /\ \/ hand[p].to = "ready" /\ EnqueueDue(hand[p].gen) /\ UNCHANGED scheduled
     \/ hand[p].to = "scheduled" /\ ScheduleJob(hand[p].gen) /\ UNCHANGED stream
  /\ Step(p, "deleteOutbox")
  /\ UNCHANGED <<store, dlq, locals, faults>>

\* DELETE by job id, whatever generation the row has by now
DeleteOutbox(p) ==
  /\ hand[p].pc = "deleteOutbox"
  /\ DeleteOutboxEntries
  /\ hand' = [hand EXCEPT ![p] = Done]
  /\ UNCHANGED <<job, execs, future, redis, locals, faults>>

\* The promotion script moves a due entry to the stream.
PromoteDue ==
  /\ scheduled > 0 /\ ~future
  /\ "promote" \in Races
       \/ \A w \in Workers : pc[w] \notin {"scheduleRetry", "removeScheduled"}
  /\ EnqueueDue(scheduled)
  /\ RemoveScheduled
  /\ UNCHANGED <<store, dlq, locals, hand, faults>>

-----------------------------------------------------------------------------
(* Failed calls and crashes *)

CanFault(point) == point \in FaultPoints /\ faults < MaxFaults

\* A call fails: Process returns without XACK, the entry stays pending.
CallFails(w) ==
  /\ pc[w] \in Calls \ {"scheduleRetry"} /\ CanFault(pc[w])
  /\ Release(w)
  /\ faults' = faults + 1
  /\ UNCHANGED <<store, redis, todo, hand>>

\* ScheduleRetry fails, before or after its commit: the entry is compensated.
ScheduleRetryFails(w) ==
  /\ pc[w] = "scheduleRetry" /\ CanFault("scheduleRetryError")
  /\ job' = job \/ (CanReschedule /\ job' = Rescheduled)
  /\ Goto(w, "removeScheduled")
  /\ faults' = faults + 1
  /\ UNCHANGED <<execs, outbox, future, redis, hand>>

\* XRANGE fails on an entry that is there: whatever the error, it counts as trimmed.
PoisonDataLost(w) ==
  /\ CanFault("resolve")
  /\ \E e \in todo[w] : DropUnread(w, e)
  /\ faults' = faults + 1

\* The worker dies with all it holds in memory and is started again.
CrashWorker(w) ==
  /\ CanFault(pc[w])
  /\ ~Free(w) \/ todo[w] # {}
  /\ Release(w)
  /\ todo' = [todo EXCEPT ![w] = {}]
  /\ faults' = faults + 1
  /\ UNCHANGED <<store, redis, hand>>

\* A request or a reconciliation ends where it is: crash, or a call failed.
AbandonHandoff(p) ==
  /\ hand[p].pc \in HandoffCalls /\ CanFault(hand[p].pc)
  /\ hand' = [hand EXCEPT ![p] = Done]
  /\ faults' = faults + 1
  /\ UNCHANGED <<store, redis, locals>>

\* XADD of other jobs' entries pushes the oldest out of the stream.  A slot of the PEL
\* without its entry is dropped by XCLAIM.
Trim ==
  /\ CanFault("trim")
  /\ \E last \in {m.id : m \in ready \cup acked} :
       /\ ready' = {m \in ready : m.id > last}
       /\ acked' = {m \in acked : m.id > last}
       /\ trimmed' = last
  /\ faults' = faults + 1
  /\ UNCHANGED <<store, scheduled, nextId, dlq, locals, hand>>

\* The group is gone (eviction, restore, failover).  Nothing is pending any more, and
\* the next read recreates the group at 0: the whole stream is delivered again.
GroupLost ==
  /\ CanFault("group")
  /\ "regroup" \notin Races =>
       /\ \A w \in Workers : Free(w) /\ todo[w] = {}
       /\ \A m \in acked : m.gen = job.gen => job.status \in Terminal
  /\ ready' = {Undelivered(m) : m \in ready \cup acked}
  /\ acked' = {}
  /\ faults' = faults + 1
  /\ UNCHANGED <<store, scheduled, nextId, trimmed, dlq, locals, hand>>

-----------------------------------------------------------------------------
ProcessStep(w) ==
  \/ StartExecution(w) \/ StaleDelivery(w) \/ CheckCompleted(w)
  \/ Reschedule(w) \/ Reenqueue(w) \/ CreateExecution(w) \/ ExecuteJob(w)
  \/ CompleteDone(w) \/ CompleteFailed(w) \/ ScheduleRetryEntry(w)
  \/ ScheduleRetry(w) \/ Compensate(w) \/ DeadLetter(w) \/ MarkDead(w)
  \/ MarkDone(w) \/ Ack(w)

WorkerStep(w) ==
  \/ ReadNext(w) \/ ListStalePending(w) \/ Claim(w)
  \/ GetByID(w) \/ Quarantine(w) \/ QuarantineTrimmed(w) \/ ProcessStep(w)

Request(h) == CreateJob(h) \/ CreateDueInstance(h) \/ RetryJob(h) \/ CancelJob(h)

HandoffStep(p) ==
  \/ p \in Handlers /\ (RereadRetried(p) \/ Unschedule(p))
  \/ p \in Schedulers /\ (ClaimOutbox(p) \/ CheckEntry(p))
  \/ Enqueue(p) \/ DeleteOutbox(p)

Fault ==
  \/ \E w \in Workers : CallFails(w) \/ ScheduleRetryFails(w) \/ PoisonDataLost(w)
                         \/ CrashWorker(w)
  \/ \E p \in Movers : AbandonHandoff(p)
  \/ Trim \/ GroupLost

Next ==
  \/ \E w \in Workers : WorkerStep(w)
  \/ \E h \in Handlers : Request(h)
  \/ \E p \in Movers : HandoffStep(p)
  \/ RunAtPasses
  \/ PromoteDue
  \/ Fault

Spec == Init /\ [][Next]_vars

(***************************************************************************)
(* Workers loop in Run, the scheduler ticks, requests run to their end and *)
(* time goes by; nobody has to send a request, and faults are not fair.    *)
(***************************************************************************)
Fairness ==
  /\ \A w \in Workers : WF_vars(WorkerStep(w))
  /\ \A p \in Movers : WF_vars(HandoffStep(p))
  /\ WF_vars(RunAtPasses)
  /\ WF_vars(PromoteDue)

FairSpec == Spec /\ Fairness

-----------------------------------------------------------------------------
(* Properties that hold whatever the timing and wherever a fault strikes *)

JobRecords == [status : Statuses, attempts : Nat, gen : Nat]
StreamEntries == [id : Nat, gen : Nat, count : Nat]
Entries == [kind : Kinds, id : Nat, gen : Nat]
Handoffs == [pc : HandoffCalls \cup {"idle"}, gen : Nat, to : {"ready", "scheduled"}]
Rows == [gen : Nat, attempt : Nat, status : {"running", "done", "failed"}]

\* Types: among them, the statuses are those of the CHECK constraint of jobs.
TypeOK ==
  /\ job \in JobRecords
  /\ execs \subseteq Rows
  /\ outbox \in Nat /\ future \in BOOLEAN
  /\ scheduled \in Nat
  /\ ready \subseteq StreamEntries /\ acked \subseteq StreamEntries
  /\ nextId \in Nat /\ trimmed \in Nat
  /\ dlq \in BOOLEAN
  /\ pc \in [Workers -> Calls \cup {"idle"}]
  /\ msg \in [Workers -> Entries]
  /\ snap \in [Workers -> JobRecords]
  /\ attempt \in [Workers -> Nat]
  /\ todo \in [Workers -> SUBSET Entries]
  /\ hand \in [Movers -> Handoffs]
  /\ faults \in 0..MaxFaults

Executing(w) == pc[w] \in {"create", "executeJob", "completeDone", "completeFailed"}

\* The attempt a worker executes belongs to it alone: no two workers ever hold
\* the same (queue_generation, attempt_number), although deliveries are
\* duplicated, reclaimed from live workers and re-driven at will.
AttemptsExclusive ==
  \A v, w \in Workers :
    v # w /\ Executing(v) /\ Executing(w)
      => <<msg[v].gen, attempt[v]>> # <<msg[w].gen, attempt[w]>>

\* The INSERT of executionRepo.Create never meets the UNIQUE constraint on
\* (job_id, queue_generation, attempt_number).
InsertNeverConflicts ==
  \A w \in Workers : pc[w] = "create" =>
    ~ \E e \in execs : e.gen = msg[w].gen /\ e.attempt = attempt[w]

\* The callback is sent only while its execution row stands as running: the
\* audit row precedes the effect, and nobody else completes it.
AuditBeforeCallback ==
  \A w \in Workers : pc[w] \in {"executeJob", "completeDone", "completeFailed"} =>
    [gen |-> msg[w].gen, attempt |-> attempt[w], status |-> "running"] \in execs

\* A job is done only if some execution of it completed as done: no redelivery
\* or recovery path marks a job done without a successful callback on record.
DoneHasEvidence ==
  job.status = "done" => \E e \in execs : e.status = "done"

\* A dead job has an entry in jobs:dead (DeadLetter comes before UpdateStatus), of this
\* life or an earlier one: manual retries leave letters where they are.
DeadHasLetter == job.status = "dead" => dlq

\* No queued entry is ahead of the row by more than the one retry a worker
\* schedules before it advances the row.
QueueWithinFence ==
  LET ahead(g) == g > job.gen + 1
  IN  /\ ~ahead(scheduled)
      /\ \A m \in ready : ~ahead(m.gen)
      /\ \A m \in acked : ~ahead(m.gen)
      /\ outbox <= job.gen

RowsKept == \A e \in execs : e.status # "running" => e \in execs'

\* A completed execution row is never changed again, whoever else is running.
CompletedRowsPermanent == [][RowsKept]_vars

FenceGrows ==
  /\ job'.gen >= job.gen
  /\ job'.attempts < job.attempts => job.status = "dead" /\ job'.gen = job.gen + 1

\* The generation never goes back, and attempts only with the retry of a dead job:
\* in all other steps of StartExecution, ScheduleRetry and UpdateStatus the pair
\* grows, so within one life no two callbacks carry the same Idempotency-Key
\* (job id and attempt).
FenceMonotone == [][FenceGrows]_vars

AL == INSTANCE AttemptLedger WITH
        gen <- job.gen, attempts <- job.attempts, rows <- execs

\* The job and its execution rows implement the ledger of attempts: StartExecution
\* hands out a new attempt, Create records it once, Complete concludes it once, and
\* nothing else touches the two tables.
ImplementsLedger == AL!Spec

-----------------------------------------------------------------------------
(* The inductive invariants behind them *)

\* The pair (g, a) has been handed out by StartExecution.
Behind(g, a) == g < job.gen \/ (g = job.gen /\ a <= job.attempts)

\* StartExecution hands out pairs (generation, attempt) in increasing order, so
\* whatever was handed out lies behind the row's pair and what comes next is new.
PairsInv ==
  /\ \A e \in execs : Behind(e.gen, e.attempt)
  /\ \A e, f \in execs : e.gen = f.gen /\ e.attempt = f.attempt => e = f
  /\ \A w \in Workers : Executing(w) => Behind(msg[w].gen, attempt[w])
  /\ AttemptsExclusive /\ InsertNeverConflicts /\ AuditBeforeCallback

\* A status that is written, or about to be written, has its record.
RecordInv ==
  /\ job.status = "done" \/ (\E w \in Workers : pc[w] = "markDone")
       => \E e \in execs : e.status = "done"
  /\ job.status = "dead" \/ (\E w \in Workers : pc[w] = "markDead") => dlq

\* What a process remembers of the generation is not ahead of the row either.
FenceInv ==
  /\ QueueWithinFence
  /\ \A w \in Workers : snap[w].gen <= job.gen
  /\ \A p \in Movers : hand[p].gen <= job.gen
  /\ job.status = "absent" => job.gen = 0 /\ job.attempts = 0

\* The inductive invariant: its three parts.
LedgerInv == PairsInv /\ RecordInv /\ FenceInv

-----------------------------------------------------------------------------
(* Properties that depend on which races and faults are allowed *)

\* A job that is to run is carried by something that will bring it to a worker.
NoLostJob ==
  /\ job.status \in Startable =>
       \/ outbox = job.gen \/ scheduled = job.gen
       \/ \E m \in ready : m.gen = job.gen
  /\ job.status = "running" => \E m \in ready : m.gen = job.gen

\* At most one worker executes the job at a time.
SingleRunner ==
  \A v, w \in Workers : Executing(v) /\ Executing(w) => v = w

\* The job starts at most max_attempts times per life.
AttemptsBounded == job.attempts <= MaxAttempts

LC == INSTANCE JobLifecycle WITH
        status <- job.status, attempts <- job.attempts, gen <- job.gen

\* The row goes through the statuses as its client is told: done and cancelled are
\* final, dead is left only by a retry, a job starts at most max_attempts times per
\* life, and no late write of UpdateStatus or ScheduleRetry takes another edge.
ImplementsLifecycle == LC!Spec

\* Every submitted job ends: it is done, dead or cancelled in the end.
EventuallyTerminal == job.status # "absent" ~> job.status \in Terminal

-----------------------------------------------------------------------------
(* The inductive invariant behind them *)

\* Calls after which a fault leaves a second entry of a generation behind, or a retry
\* half recorded: after an XADD and before the XACK or the outbox deletion that would
\* conclude it, and around ScheduleRetry; and trimming itself.
UnsafePoints ==
  {"ackRedriven", "deleteOutbox", "scheduleRetry", "scheduleRetryError", "trim"}

\* Nothing races, faults strike where they leave no duplicate behind, and too few of
\* them to make an entry poison.
Timely ==
  Races = {} /\ FaultPoints \cap UnsafePoints = {} /\ MaxFaults < MaxPoisonDeliveries

\* The calls of a worker that owns the running job
Owning ==
  {"hasCompleted", "create", "executeJob", "completeDone", "completeFailed", "scheduleJob",
   "scheduleRetry", "reschedule", "deadLetter", "markDead", "markDone"}

Attempting ==
  {"create", "executeJob", "completeDone", "completeFailed", "scheduleJob", "scheduleRetry"}

Holding(w) == {e \in todo[w] \cup {msg[w]} : e.kind = "process"}

\* An entry whose successor is in the stream, and which is about to be acknowledged
Superseded(m) == \E w \in Workers : pc[w] = "ackRedriven" /\ msg[w].id = m.id

Carriers == {m \in ready : m.gen = job.gen /\ ~Superseded(m)}

\* The outbox row stands for an entry that is not in Redis yet.
OutboxCarries == outbox > 0 /\ \A p \in Movers : hand[p].pc # "deleteOutbox"

\* An id is in the stream once, under a generation not ahead of the row, and is
\* delivered again only after a fault.
StreamInv ==
  /\ \A m, n \in ready : m.id = n.id => m = n
  /\ \A m, n \in acked : m.id = n.id => m = n
  /\ \A m \in ready, n \in acked : m.id # n.id
  /\ \A m \in ready \cup acked : m.id < nextId /\ m.gen <= job.gen
  /\ \A m \in ready : m.count <= faults \/ (Held(m.id) /\ m.count = faults + 1)

\* An entry is pending as long as a worker has it in hand, and one worker has it.
HoldInv ==
  /\ \A w \in Workers :
       /\ msg[w].kind = IF Free(w) THEN "none" ELSE "process"
       /\ \A e \in todo[w] : e.kind \in {"process", "claim"} /\ e # msg[w]
       /\ \A e \in Holding(w) : \E m \in Pending : m.id = e.id /\ m.gen = e.gen
  /\ \A v, w \in Workers : v # w =>
       \A e \in Holding(v), f \in Holding(w) : e.id # f.id

\* The row may change after a worker has read it, but not from or to one that its
\* message is to recover.
ReadInv(w) ==
  pc[w] = "startExecution" =>
    /\ msg[w].gen <= snap[w].gen
    /\ NeedsRecovery(snap[w], msg[w].gen) \/ NeedsRecovery(job, msg[w].gen) => snap[w] = job

\* Later on it decides on the row as it is: nobody else is at it.
OwnerInv(w) ==
  /\ pc[w] \in Owning =>
       job.status = "running" /\ msg[w].gen = job.gen /\ snap[w].gen = job.gen
  /\ pc[w] \in Attempting => attempt[w] = job.attempts
  /\ pc[w] \in {"scheduleJob", "scheduleRetry"} => attempt[w] < MaxAttempts
  /\ pc[w] \in {"hasCompleted", "reschedule"} => snap[w].attempts = job.attempts
  /\ pc[w] = "reschedule" => job.attempts < MaxAttempts
  /\ pc[w] = "scheduleRetry" => scheduled = job.gen + 1
  /\ pc[w] = "reenqueue" =>
       /\ job.status \in {"scheduled", "cancelled"}
       /\ msg[w].gen = job.gen /\ snap[w].gen = job.gen
  /\ pc[w] = "ack" => msg[w].gen < job.gen \/ job.status \in Terminal
  /\ pc[w] # "removeScheduled"

\* One handoff at a time, of the generation the row has
HandoffInv ==
  /\ \A p, q \in Movers :
       {hand[p].pc, hand[q].pc} \subseteq HandoffCalls \ {"unschedule"} => p = q
  /\ \A p \in Movers :
       /\ hand[p].pc \in {"enqueue", "checkEntry"} => hand[p].gen = job.gen
       /\ hand[p].pc \in {"reread", "enqueue", "checkEntry"} => outbox > 0
       /\ hand[p].pc = "unschedule" => job.status = "cancelled"
  /\ OutboxCarries => outbox = job.gen /\ job.status \in Startable \cup {"cancelled"}

\* What is to run or runs is carried by one thing: the outbox row, the delayed entry
\* or an entry of the stream, which alone carries a running job.
CarrierInv ==
  /\ scheduled <= job.gen \/ \E w \in Workers : pc[w] = "scheduleRetry"
  /\ job.attempts <= MaxAttempts
  /\ job.status \in Startable => job.attempts < MaxAttempts
  /\ job.status \in Startable \cup {"running"} =>
       /\ \A m, n \in Carriers : m = n
       /\ Carriers # {} => scheduled # job.gen /\ ~OutboxCarries
       /\ scheduled = job.gen => job.status # "running" /\ ~OutboxCarries
       /\ Carriers # {} \/ scheduled = job.gen \/ OutboxCarries
  /\ job.status = "running" => ~OutboxCarries
  /\ job.status # "absent" => job.gen > 0
  /\ job.status = "absent" =>
       /\ outbox = 0 /\ scheduled = 0 /\ ready = {} /\ acked = {}
       /\ \A w \in Workers : Free(w) /\ todo[w] = {}
       /\ \A p \in Movers : hand[p].pc = "idle"

\* Which worker owns the job and what carries it
OwnershipInv ==
  /\ StreamInv /\ HoldInv
  /\ \A w \in Workers : OwnerInv(w)
  /\ HandoffInv /\ CarrierInv

\* The inductive invariant when Timely
TimelyInv == OwnershipInv /\ \A w \in Workers : ReadInv(w)
=============================================================================
