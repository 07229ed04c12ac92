-------------------------------- MODULE Cron --------------------------------
(***************************************************************************)
(* Cron: one cron_jobs row, the requests that create, enable and disable   *)
(* it, and the schedulers whose ticks spawn its instances.  Instances are  *)
(* known by their occurrence, as in their idempotency key.  Several        *)
(* schedulers may tick at a time (the leader lease is no mutual exclusion  *)
(* when calls fail, see LeaderLock), each with the time it read when its   *)
(* tick began.                                                             *)
(***************************************************************************)
EXTENDS Naturals, FiniteSets

CONSTANTS
  Schedulers,    \* processes that tick
  Occurrences,   \* the times the cron expression matches
  MaxClock,      \* bound: the time at which the clock stops
  MaxFaults      \* bound: ticks cut short in a behaviour

ASSUME CronAssumption ==
  /\ Occurrences \subseteq Nat \ {0}
  /\ MaxClock \in Nat /\ MaxFaults \in Nat

VARIABLES
  clock,    \* the time
  cron,     \* the cron_jobs row: set, next_run_at, enabled, template's payload
  jobs,     \* occurrences with a row in jobs
  outbox,   \* occurrences with a row in job_outbox
  ready,    \* occurrences that have been put on jobs:ready
  tick,     \* what each scheduler does: next call, time of the tick, occurrence
  faults    \* ticks cut short so far

vars == <<clock, cron, jobs, outbox, ready, tick, faults>>

Payloads == {"absent", "null", "value"}
NoCron == [set |-> "no", next |-> 0, enabled |-> "no", payload |-> "absent"]
NoTick == [pc |-> "idle", now |-> 0, occ |-> 0]

Init ==
  /\ clock = 1 /\ cron = NoCron
  /\ jobs = {} /\ outbox = {} /\ ready = {}
  /\ tick = [s \in Schedulers |-> NoTick]
  /\ faults = 0

-----------------------------------------------------------------------------
\* schedule.Next: the first match after t, the zero time if there is none
IsNext(o, t) ==
  /\ o \in Occurrences /\ o > t
  /\ \A p \in Occurrences : p > t => o <= p

NextRunAt(t) ==
  IF \E o \in Occurrences : IsNext(o, t) THEN CHOOSE o \in Occurrences : IsNext(o, t) ELSE 0

\* The occurrence after this one; when that has passed too, the next from now.
Advance_NoFastForward(occ, now) == NextRunAt(occ)
Advance_Stuck(occ, now) == occ
Advance_NextMinute(occ, now) == now + 1
Advance(occ, now) ==
  IF NextRunAt(occ) <= now /\ NextRunAt(now) > NextRunAt(occ)
    THEN NextRunAt(now) ELSE NextRunAt(occ)

\* What CreateCronJob accepts as the template's payload, and what the tick does
AcceptedAtCreate(p) == p # "absent"
AcceptedAtTick(p) == p = "value"

-----------------------------------------------------------------------------
(* Requests *)

\* The INSERT and the UPDATE on cron_jobs
Create(p) ==
  cron' = [set |-> "yes", next |-> NextRunAt(clock), enabled |-> "yes", payload |-> p]
UpdateEnabled(e) == cron' = [cron EXCEPT !.enabled = e]

CreateCronJob(p) ==
  /\ cron.set = "no" /\ AcceptedAtCreate(p)
  /\ Create(p)
  /\ UNCHANGED <<clock, jobs, outbox, ready, tick, faults>>

UpdateCronJob(e) ==
  /\ cron.set = "yes"
  /\ UpdateEnabled(e)
  /\ UNCHANGED <<clock, jobs, outbox, ready, tick, faults>>

-----------------------------------------------------------------------------
(* The tick *)

Due(now) == cron.set = "yes" /\ cron.enabled = "yes" /\ cron.next <= now

\* ListDue at the time of the tick
ListDue(s) ==
  /\ tick[s].pc = "idle" /\ Due(clock)
  /\ tick' = [tick EXCEPT ![s] = [pc |-> "create", now |-> clock, occ |-> cron.next]]
  /\ UNCHANGED <<clock, cron, jobs, outbox, ready, faults>>

\* The re-check under FOR UPDATE, and the occurrence: the row's, not the listed one
Recheck_None(s) == TRUE
Recheck_DueOnly(s) == cron.next <= tick[s].now
Recheck(s) == Due(tick[s].now)
Occurrence(s) == cron.next

\* CreateDueInstance in one transaction: instance, outbox row, next_run_at.  A
\* template it does not accept rolls it back.  So does a key that is taken: the
\* failed INSERT has aborted the transaction, and the UPDATE after it is lost.
CreateDueInstance(s) ==
  /\ tick[s].pc = "create"
  /\ IF Recheck(s) /\ AcceptedAtTick(cron.payload) /\ Occurrence(s) \notin jobs
       THEN /\ jobs' = jobs \cup {Occurrence(s)}
            /\ outbox' = outbox \cup {Occurrence(s)}
            /\ cron' = [cron EXCEPT !.next = Advance(Occurrence(s), tick[s].now)]
            /\ tick' = [tick EXCEPT ![s] =
                          [pc |-> "enqueue", now |-> @.now, occ |-> Occurrence(s)]]
       ELSE /\ tick' = [tick EXCEPT ![s] = NoTick]
            /\ UNCHANGED <<jobs, outbox, cron>>
  /\ UNCHANGED <<clock, ready, faults>>

\* ReconcileOutbox takes up what a tick has left behind; it drops the row of an
\* instance that a worker has taken up.  (Instances here are neither cancelled
\* nor retried: Dispatch has one job's outbox rows with all that befalls it.)
ReconcileOutbox(s) ==
  /\ tick[s].pc = "idle"
  /\ \E o \in outbox : tick' = [tick EXCEPT ![s] = [pc |-> "enqueue", now |-> clock, occ |-> o]]
  /\ UNCHANGED <<clock, cron, jobs, outbox, ready, faults>>

DropStarted(s) ==
  /\ tick[s].pc = "idle"
  /\ \E o \in outbox \cap ready : outbox' = outbox \ {o}
  /\ UNCHANGED <<clock, cron, jobs, ready, tick, faults>>

EnqueueDue(s) ==
  /\ tick[s].pc = "enqueue"
  /\ ready' = ready \cup {tick[s].occ}
  /\ tick' = [tick EXCEPT ![s] = [pc |-> "deleteOutbox", now |-> @.now, occ |-> @.occ]]
  /\ UNCHANGED <<clock, cron, jobs, outbox, faults>>

DeleteOutboxEntries(s) ==
  /\ tick[s].pc = "deleteOutbox"
  /\ outbox' = outbox \ {tick[s].occ}
  /\ tick' = [tick EXCEPT ![s] = NoTick]
  /\ UNCHANGED <<clock, cron, jobs, ready, faults>>

\* A call fails or the scheduler dies: on failure of EnqueueDue the tick goes on
\* without deleting the outbox row.
AbandonTick_Clean(s) ==
  /\ tick[s].pc # "idle" /\ faults < MaxFaults
  /\ outbox' = outbox \ {tick[s].occ}
  /\ tick' = [tick EXCEPT ![s] = NoTick]
  /\ faults' = faults + 1
  /\ UNCHANGED <<clock, cron, jobs, ready>>
AbandonTick(s) ==
  /\ tick[s].pc # "idle" /\ faults < MaxFaults
  /\ tick' = [tick EXCEPT ![s] = NoTick]
  /\ faults' = faults + 1
  /\ UNCHANGED <<clock, cron, jobs, outbox, ready>>

TimePasses ==
  /\ clock < MaxClock
  /\ clock' = clock + 1
  /\ UNCHANGED <<cron, jobs, outbox, ready, tick, faults>>

-----------------------------------------------------------------------------
Start(s) == ListDue(s) \/ ReconcileOutbox(s) \/ DropStarted(s)
Continue(s) == CreateDueInstance(s) \/ EnqueueDue(s) \/ DeleteOutboxEntries(s)

Next ==
  \/ \E p \in Payloads : CreateCronJob(p)
  \/ \E e \in {"yes", "no"} : UpdateCronJob(e)
  \/ \E s \in Schedulers : Start(s) \/ Continue(s) \/ AbandonTick(s)
  \/ TimePasses

Spec == Init /\ [][Next]_vars

\* Somebody leads and ticks again and again, and a tick goes on once begun.
Fairness ==
  /\ WF_vars(\E s \in Schedulers : Start(s))
  /\ \A s \in Schedulers : WF_vars(Continue(s))

FairSpec == Spec /\ Fairness

-----------------------------------------------------------------------------
(* Properties *)

\* Types; next_run_at is a time the expression matches, or the zero time.
TypeOK ==
  /\ clock \in Nat /\ faults \in 0..MaxFaults
  /\ cron \in [set : {"yes", "no"}, next : Occurrences \cup {0},
               enabled : {"yes", "no"}, payload : Payloads]
  /\ {jobs, outbox, ready} \subseteq SUBSET (Occurrences \cup {0})
  /\ tick \in [Schedulers ->
       [pc : {"idle", "create", "enqueue", "deleteOutbox"}, now : Nat,
        occ : Occurrences \cup {0}]]

\* The expression matches again after every time: what every expression does
\* but one for a date that does not exist.
Endless == \A t \in Nat : \E o \in Occurrences : IsNext(o, t)

\* The row lock alone keeps an occurrence from being spawned twice, whatever
\* ticks overlap: the UNIQUE idempotency key is never needed.
RowLockSuffices == cron.set = "yes" => cron.next \notin jobs

\* Whatever else ticks, the instance of an occurrence is not spawned before it.
NeverEarly == \A o \in jobs : o <= clock

\* A spawned instance is on the stream, or the outbox will bring it there.
InstancesQueued == \A o \in jobs : o \in outbox \/ o \in ready

NoSpawnDisabled == jobs' # jobs => cron.enabled = "yes"

\* Nothing is spawned once the row is disabled, not even by a tick that had
\* listed it before.
DisabledStops == [][NoSpawnDisabled]_vars

CaughtUp ==
  \A s \in Schedulers :
    tick[s].pc = "create" /\ tick'[s].pc = "enqueue" => cron'.next > tick[s].now

\* Downtime is recovered in one tick: after a spawn the next run lies after the
\* time of that tick, however many occurrences were missed.
RecoversInOneTick == [][CaughtUp]_vars

\* A due row does not stay due: its next run comes to lie ahead, or it is disabled.
DueIsTaken ==
  Due(clock) /\ cron.payload = "value" ~> ~Due(clock)
=============================================================================
