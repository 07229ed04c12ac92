----------------------------- MODULE CronProofs -----------------------------
(***************************************************************************)
(* Theorems about Cron, for every set of schedulers, every expression,     *)
(* every bound on time and on failures.                                    *)
(***************************************************************************)
EXTENDS Cron, TLAPS

\* schedule.Next returns a time the expression matches, or the zero time.
LEMMA NextRunAtType == \A t \in Nat : NextRunAt(t) \in Occurrences \cup {0}
  BY Zenon DEF NextRunAt

\* Of an endless expression, schedule.Next returns a later time.
LEMMA NextRunAtLater ==
  ASSUME Endless PROVE \A t \in Nat : NextRunAt(t) \in Occurrences /\ NextRunAt(t) > t
<1> TAKE t \in Nat
<1>1. \E o \in Occurrences : IsNext(o, t)
  BY DEF Endless
<1>2. IsNext(NextRunAt(t), t)
  <2> DEFINE n == CHOOSE o \in Occurrences : IsNext(o, t)
  <2>1. NextRunAt(t) = n
    BY <1>1, Zenon DEF NextRunAt
  <2>2. IsNext(n, t)
    BY <1>1, Zenon
  <2> QED
    BY <2>1, <2>2, Zenon
<1> QED
  BY <1>2 DEF IsNext

\* Times the expression matches, and the zero time, are times.
LEMMA OccurrencesAreTimes == \A o \in Occurrences \cup {0} : o \in Nat
  BY CronAssumption

\* Advancing next_run_at keeps it a time the expression matches.
LEMMA AdvanceType ==
  ASSUME NEW occ \in Nat, NEW now \in Nat
  PROVE  Advance(occ, now) \in Occurrences \cup {0}
  BY NextRunAtType, Zenon DEF Advance

\* Advancing passes the occurrence that was spawned and the time of the tick.
LEMMA AdvancePasses ==
  ASSUME Endless, NEW occ \in Nat, NEW now \in Nat
  PROVE  Advance(occ, now) > occ /\ Advance(occ, now) > now
<1>1. /\ NextRunAt(occ) \in Nat /\ NextRunAt(occ) > occ
      /\ NextRunAt(now) \in Nat /\ NextRunAt(now) > now
  BY NextRunAtLater, CronAssumption, Zenon
<1> HIDE DEF NextRunAt
<1> QED
  BY <1>1 DEF Advance

-----------------------------------------------------------------------------
\* The type invariant of the cron row, the queues and the ticks.
THEOREM TypeCorrect == Spec => []TypeOK
<1>1. Init => TypeOK
  BY CronAssumption DEF Init, TypeOK, NoCron, NoTick, Payloads
<1>2. TypeOK /\ [Next]_vars => TypeOK'
  <2> SUFFICES ASSUME TypeOK, [Next]_vars PROVE TypeOK'
    OBVIOUS
  <2> USE CronAssumption
  <2>1. ASSUME NEW p \in Payloads, CreateCronJob(p) PROVE TypeOK'
    <3>1. NextRunAt(clock) \in Occurrences \cup {0}
      BY NextRunAtType DEF TypeOK
    <3> QED
      BY <2>1, <3>1 DEF TypeOK, CreateCronJob, Create
  <2>2. ASSUME NEW e \in {"yes", "no"}, UpdateCronJob(e) PROVE TypeOK'
    BY <2>2 DEF TypeOK, UpdateCronJob, UpdateEnabled
  <2>3. ASSUME NEW s \in Schedulers, ListDue(s) PROVE TypeOK'
    BY <2>3 DEF TypeOK, ListDue
  <2>4. ASSUME NEW s \in Schedulers, CreateDueInstance(s) PROVE TypeOK'
    <3>1. Advance(cron.next, tick[s].now) \in Occurrences \cup {0}
      BY AdvanceType, Zenon DEF TypeOK
    <3> QED
      BY <2>4, <3>1 DEF TypeOK, CreateDueInstance, Occurrence, NoTick
  <2>5. ASSUME NEW s \in Schedulers, ReconcileOutbox(s) PROVE TypeOK'
    BY <2>5 DEF TypeOK, ReconcileOutbox
  <2>6. ASSUME NEW s \in Schedulers, DropStarted(s) PROVE TypeOK'
    BY <2>6 DEF TypeOK, DropStarted
  <2>7. ASSUME NEW s \in Schedulers, EnqueueDue(s) PROVE TypeOK'
    BY <2>7 DEF TypeOK, EnqueueDue
  <2>8. ASSUME NEW s \in Schedulers, DeleteOutboxEntries(s) PROVE TypeOK'
    BY <2>8 DEF TypeOK, DeleteOutboxEntries, NoTick
  <2>9. ASSUME NEW s \in Schedulers, AbandonTick(s) PROVE TypeOK'
    BY <2>9 DEF TypeOK, AbandonTick, NoTick
  <2>10. CASE TimePasses
    BY <2>10 DEF TypeOK, TimePasses
  <2>11. CASE UNCHANGED vars
    BY <2>11 DEF TypeOK, vars
  <2> QED
    BY <2>1, <2>2, <2>3, <2>4, <2>5, <2>6, <2>7, <2>8, <2>9, <2>10, <2>11
    DEF Next, Start, Continue
<1> QED
  BY <1>1, <1>2, PTL DEF Spec

-----------------------------------------------------------------------------
\* The outbox row of an instance is deleted only after its enqueue: with this
\* the claim that instances are queued is inductive.
HandoffInv ==
  /\ InstancesQueued
  /\ \A s \in Schedulers : tick[s].pc = "deleteOutbox" => tick[s].occ \in ready

\* No spawned instance is ever neither on the stream nor in the outbox,
\* wherever ticks fail.
THEOREM InstancesNeverLost == Spec => []InstancesQueued
<1>1. Init => HandoffInv
  BY DEF Init, HandoffInv, InstancesQueued, NoTick
<1>2. TypeOK /\ HandoffInv /\ [Next]_vars => HandoffInv'
  <2> SUFFICES ASSUME TypeOK, HandoffInv, [Next]_vars PROVE HandoffInv'
    OBVIOUS
  <2> USE DEF HandoffInv, InstancesQueued
  <2>1. ASSUME NEW p \in Payloads, CreateCronJob(p) PROVE HandoffInv'
    BY <2>1 DEF CreateCronJob
  <2>2. ASSUME NEW e \in {"yes", "no"}, UpdateCronJob(e) PROVE HandoffInv'
    BY <2>2 DEF UpdateCronJob
  <2>3. ASSUME NEW s \in Schedulers, ListDue(s) PROVE HandoffInv'
    BY <2>3 DEF TypeOK, ListDue
  <2>4. ASSUME NEW s \in Schedulers, CreateDueInstance(s) PROVE HandoffInv'
    BY <2>4 DEF TypeOK, CreateDueInstance, NoTick
  <2>5. ASSUME NEW s \in Schedulers, ReconcileOutbox(s) PROVE HandoffInv'
    BY <2>5 DEF TypeOK, ReconcileOutbox
  <2>6. ASSUME NEW s \in Schedulers, DropStarted(s) PROVE HandoffInv'
    BY <2>6 DEF DropStarted
  <2>7. ASSUME NEW s \in Schedulers, EnqueueDue(s) PROVE HandoffInv'
    BY <2>7 DEF TypeOK, EnqueueDue
  <2>8. ASSUME NEW s \in Schedulers, DeleteOutboxEntries(s) PROVE HandoffInv'
    BY <2>8 DEF TypeOK, DeleteOutboxEntries, NoTick
  <2>9. ASSUME NEW s \in Schedulers, AbandonTick(s) PROVE HandoffInv'
    BY <2>9 DEF TypeOK, AbandonTick, NoTick
  <2>10. CASE TimePasses
    BY <2>10 DEF TimePasses
  <2>11. CASE UNCHANGED vars
    BY <2>11 DEF vars
  <2> QED
    BY <2>1, <2>2, <2>3, <2>4, <2>5, <2>6, <2>7, <2>8, <2>9, <2>10, <2>11
    DEF Next, Start, Continue
<1>3. HandoffInv => InstancesQueued
  BY DEF HandoffInv
<1> QED
  BY <1>1, <1>2, <1>3, TypeCorrect, PTL DEF Spec

-----------------------------------------------------------------------------
\* Only CreateDueInstance spawns, and how it changes the row.
LEMMA SpawnStep ==
  ASSUME [Next]_vars
  PROVE  \/ UNCHANGED jobs
         \/ \E s \in Schedulers :
              /\ Due(tick[s].now) /\ cron.next \notin jobs
              /\ jobs' = jobs \cup {cron.next} /\ clock' = clock
              /\ cron' = [cron EXCEPT !.next = Advance(cron.next, tick[s].now)]
  BY Zenon DEF Next, Start, Continue, vars, CreateCronJob, UpdateCronJob, ListDue,
     CreateDueInstance, Recheck, Occurrence, ReconcileOutbox, DropStarted, EnqueueDue,
     DeleteOutboxEntries, AbandonTick, TimePasses

\* Once the row is disabled nothing is spawned: the re-check is made under the
\* lock the UPDATE of enabled waits for.
THEOREM DisabledSpawnsNothing == Spec => DisabledStops
<1>1. [Next]_vars => [NoSpawnDisabled]_vars
  BY SpawnStep, Zenon DEF NoSpawnDisabled, Due
<1> QED
  BY <1>1, PTL DEF Spec, DisabledStops

\* Ticks are in the past, and so is what they spawn.
PastInv == NeverEarly /\ \A s \in Schedulers : tick[s].now <= clock

\* No instance is spawned before its occurrence, however ticks overlap.
THEOREM NothingEarly == Spec => []NeverEarly
<1>1. Init => PastInv
  BY DEF Init, PastInv, NeverEarly, NoTick
<1>2. TypeOK /\ PastInv /\ [Next]_vars => PastInv'
  <2> SUFFICES ASSUME TypeOK, PastInv, [Next]_vars PROVE PastInv'
    OBVIOUS
  <2>1. clock \in Nat /\ clock' \in Nat /\ clock <= clock'
    BY DEF TypeOK, Next, Start, Continue, vars, CreateCronJob, UpdateCronJob, ListDue,
       CreateDueInstance, ReconcileOutbox, DropStarted, EnqueueDue,
       DeleteOutboxEntries, AbandonTick, TimePasses
  <2>2. \A o \in Occurrences \cup {0} : o \in Nat
    BY OccurrencesAreTimes
  <2>3. NeverEarly'
    <3>1. CASE UNCHANGED jobs
      BY <2>1, <2>2, <3>1 DEF PastInv, NeverEarly, TypeOK
    <3>2. ASSUME NEW s \in Schedulers, Due(tick[s].now), jobs' = jobs \cup {cron.next},
                 clock' = clock
          PROVE  NeverEarly'
      <4>1. cron.next <= clock
        BY <2>2, <3>2 DEF Due, PastInv, TypeOK
      <4> QED
        BY <3>2, <4>1 DEF PastInv, NeverEarly
    <3> QED
      BY <3>1, <3>2, SpawnStep
  <2>4. \A s \in Schedulers : tick'[s].now <= clock'
    <3> TAKE s \in Schedulers
    <3>1. tick'[s].now \in {tick[s].now, clock, 0}
      BY DEF TypeOK, Next, Start, Continue, vars, CreateCronJob, UpdateCronJob, ListDue,
         CreateDueInstance, ReconcileOutbox, DropStarted, EnqueueDue,
         DeleteOutboxEntries, AbandonTick, TimePasses, NoTick
    <3> QED
      BY <2>1, <3>1 DEF PastInv, TypeOK
  <2> QED
    BY <2>3, <2>4 DEF PastInv
<1>3. PastInv => NeverEarly
  BY DEF PastInv
<1> QED
  BY <1>1, <1>2, <1>3, TypeCorrect, PTL DEF Spec

-----------------------------------------------------------------------------
\* All that has been spawned lies before next_run_at.
BehindInv ==
  /\ cron.set = "yes" => \A o \in jobs : o < cron.next
  /\ cron.set = "no" => jobs = {}

\* For an endless expression the row lock alone prevents a second instance of
\* an occurrence: the INSERT never meets its idempotency key.
THEOREM RowLockAlone == ASSUME Endless PROVE Spec => []RowLockSuffices
<1>1. Init => BehindInv
  BY DEF Init, BehindInv, NoCron
<1>2. TypeOK /\ BehindInv /\ [Next]_vars => BehindInv'
  <2> SUFFICES ASSUME TypeOK, BehindInv, [Next]_vars PROVE BehindInv'
    OBVIOUS
  <2>1. CASE UNCHANGED jobs
    <3>1. CASE \E p \in Payloads : CreateCronJob(p)
      BY <2>1, <3>1 DEF BehindInv, CreateCronJob, Create
    <3>2. CASE ~ \E p \in Payloads : CreateCronJob(p)
      <4>1. cron'.next = cron.next /\ cron'.set = cron.set
        BY <2>1, <3>2 DEF TypeOK, Next, Start, Continue, vars, UpdateCronJob, UpdateEnabled,
           ListDue, CreateDueInstance, Occurrence, ReconcileOutbox, DropStarted, EnqueueDue,
           DeleteOutboxEntries, AbandonTick, TimePasses
      <4> QED
        BY <2>1, <4>1 DEF BehindInv
    <3> QED
      BY <3>1, <3>2
  <2>2. ASSUME NEW s \in Schedulers, Due(tick[s].now), jobs' = jobs \cup {cron.next},
               cron' = [cron EXCEPT !.next = Advance(cron.next, tick[s].now)]
        PROVE  BehindInv'
    <3>1. cron.next \in Nat /\ tick[s].now \in Nat /\ jobs \subseteq Nat
      BY OccurrencesAreTimes DEF TypeOK
    <3>2. Advance(cron.next, tick[s].now) \in Nat
      BY <3>1, AdvanceType, OccurrencesAreTimes, Zenon
    <3>3. Advance(cron.next, tick[s].now) > cron.next
      BY <3>1, AdvancePasses
    <3> HIDE DEF Advance
    <3> QED
      BY <2>2, <3>1, <3>2, <3>3 DEF BehindInv, Due, TypeOK
  <2> QED
    BY <2>1, <2>2, SpawnStep
<1>3. TypeOK /\ BehindInv => RowLockSuffices
  BY OccurrencesAreTimes DEF TypeOK, BehindInv, RowLockSuffices
<1> QED
  BY <1>1, <1>2, <1>3, TypeCorrect, PTL DEF Spec

\* For an endless expression one tick recovers from any downtime.
THEOREM OneTickRecovers == ASSUME Endless PROVE Spec => RecoversInOneTick
<1>1. TypeOK /\ [Next]_vars => [CaughtUp]_vars
  <2> SUFFICES ASSUME TypeOK, [Next]_vars, NEW s \in Schedulers,
                      tick[s].pc = "create", tick'[s].pc = "enqueue"
               PROVE  cron'.next > tick[s].now
    BY DEF CaughtUp
  <2>1. cron'.next = Advance(cron.next, tick[s].now)
    BY DEF TypeOK, Next, Start, Continue, vars, CreateCronJob, UpdateCronJob, ListDue,
       CreateDueInstance, Occurrence, ReconcileOutbox, DropStarted, EnqueueDue,
       DeleteOutboxEntries, AbandonTick, TimePasses, NoTick
  <2>2. cron.next \in Nat /\ tick[s].now \in Nat
    BY OccurrencesAreTimes DEF TypeOK
  <2> QED
    BY <2>1, <2>2, AdvancePasses
<1> QED
  BY <1>1, TypeCorrect, PTL DEF Spec, RecoversInOneTick
=============================================================================
