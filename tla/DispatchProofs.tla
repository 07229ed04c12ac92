--------------------------- MODULE DispatchProofs ---------------------------
(***************************************************************************)
(* Proofs about Dispatch, for every number of workers, requests and        *)
(* schedulers, every max_attempts, every set of races and fault points and *)
(* every value of the bounds.                                              *)
(***************************************************************************)
EXTENDS Dispatch, TLAPS

\* The statuses of a new row
Submitted == {"pending", "scheduled"}

\* The bounds are numbers.
LEMMA BoundsAreNaturals ==
  MaxAttempts \in Nat /\ MaxPoisonDeliveries \in Nat /\ MaxFaults \in Nat
BY ConstantsAssumption, Zenon DEF ConstantsAssumption

\* The rows the repository writes are rows.
LEMMA RowTypes ==
  ASSUME job \in JobRecords
  PROVE  Started \in JobRecords /\ Rescheduled \in JobRecords /\ Revived \in JobRecords
<1> USE DEF JobRecords, Statuses
<1>1. Started \in JobRecords
  BY DEF Started
<1>2. Rescheduled \in JobRecords
  BY DEF Rescheduled
<1>3. Revived \in JobRecords
  BY DEF Revived
<1> QED
  BY <1>1, <1>2, <1>3, Zenon

\* What Release leaves in the locals of a worker
LEMMA EmptyTypes ==
  NoMsg \in Entries /\ NoJob \in JobRecords /\ Done \in Handoffs
BY Zenon DEF NoMsg, NoJob, Done, Entries, JobRecords, Handoffs, Kinds, Statuses

\* A handoff moves on to another call.
LEMMA StepTypes ==
  ASSUME hand \in [Movers -> Handoffs], NEW p \in Movers, NEW c \in HandoffCalls,
         Step(p, c)
  PROVE  hand' \in [Movers -> Handoffs]
BY DEF Step, Handoffs

\* Complete writes rows.
LEMMA CompleteTypes ==
  ASSUME execs \subseteq Rows, NEW g, NEW a, NEW s \in {"done", "failed"},
         Complete(g, a, s)
  PROVE  execs' \subseteq Rows
BY DEF Complete, Rows

\* XACK moves entries, and what it moves are entries.
LEMMA AcknowledgeTypes ==
  ASSUME ready \subseteq StreamEntries, acked \subseteq StreamEntries,
         NEW id, Acknowledge(id)
  PROVE  ready' \subseteq StreamEntries /\ acked' \subseteq StreamEntries
BY DEF Acknowledge, Pending, Undelivered, StreamEntries

\* XACK keeps every entry it finds, with its generation, in ready or in acked.
LEMMA AcknowledgeKeepsGens ==
  ASSUME ready \subseteq StreamEntries, NEW id, Acknowledge(id)
  PROVE  /\ ready' \subseteq ready
         /\ \A m \in acked' : \E n \in ready \cup acked : m.gen = n.gen
BY Zenon DEF Acknowledge, Pending, Undelivered, StreamEntries

\* Every variable keeps its type; in particular the only statuses ever written
\* to jobs are those its CHECK constraint allows.
THEOREM TypeCorrect == Spec => []TypeOK
<1> USE BoundsAreNaturals DEF TypeOK
<1>1. Init => TypeOK
  <2> SUFFICES ASSUME Init PROVE TypeOK
    OBVIOUS
  <2>1. job \in JobRecords /\ execs \subseteq Rows /\ outbox \in Nat /\ scheduled \in Nat
        /\ ready \subseteq StreamEntries /\ acked \subseteq StreamEntries
        /\ nextId \in Nat /\ trimmed \in Nat /\ faults \in 0..MaxFaults
    BY EmptyTypes DEF Init
  <2>2. future \in BOOLEAN /\ dlq \in BOOLEAN
    BY Zenon DEF Init
  <2>3. /\ pc \in [Workers -> Calls \cup {"idle"}] /\ msg \in [Workers -> Entries]
        /\ snap \in [Workers -> JobRecords] /\ attempt \in [Workers -> Nat]
        /\ todo \in [Workers -> SUBSET Entries]
    BY EmptyTypes, Zenon DEF Init
  <2>4. hand \in [Movers -> Handoffs]
    BY EmptyTypes, Zenon DEF Init
  <2> QED
    BY <2>1, <2>2, <2>3, <2>4, Zenon
<1>2. TypeOK /\ [Next]_vars => TypeOK'
  <2> SUFFICES ASSUME TypeOK, [Next]_vars PROVE TypeOK'
    BY Zenon
  <2> USE DEF JobRecords, StreamEntries, Entries, Handoffs, store, stream, redis, locals
  <2>1. ASSUME NEW w \in Workers, ReadNext(w) PROVE TypeOK'
    BY <2>1 DEF ReadNext, Pending, Entry, Kinds
  <2>2. ASSUME NEW w \in Workers, ListStalePending(w) PROVE TypeOK'
    BY <2>2 DEF ListStalePending, Stale, Pending, Entry, Kinds
  <2>3. ASSUME NEW w \in Workers, Claim(w) PROVE TypeOK'
    <3> DEFINE got == {m \in Stale : Entry("claim", m) \in todo[w]}
    <3>1. got \subseteq ready
      BY Zenon DEF Stale, Pending
    <3>2. {[m EXCEPT !.count = @ + 1] : m \in got} \subseteq StreamEntries
      BY <3>1
    <3>3. {Entry("process", m) : m \in got} \subseteq Entries
      <4> HIDE DEF got
      <4> QED
        BY <3>1 DEF Entry, Kinds
    <3> QED
      <4>1. /\ ready' = (ready \ got) \cup {[m EXCEPT !.count = @ + 1] : m \in got}
            /\ todo' = [todo EXCEPT ![w] = {Entry("process", m) : m \in got}]
        BY <2>3, Zenon DEF Claim
      <4>2. ready' \subseteq StreamEntries /\ todo' \in [Workers -> SUBSET Entries]
        BY <3>1, <3>2, <3>3, <4>1, Zenon
      <4> QED
        BY <2>3, <4>2, Zenon DEF Claim
  <2>4. ASSUME NEW w \in Workers, GetByID(w) PROVE TypeOK'
    BY <2>4 DEF GetByID, Take, Calls
  <2>5. ASSUME NEW w \in Workers, Quarantine(w) PROVE TypeOK'
    BY <2>5 DEF Quarantine, Take, Calls
  <2>6. ASSUME NEW w \in Workers, StartExecution(w) PROVE TypeOK'
    BY <2>6, RowTypes DEF StartExecution, StartedAttempt, Calls
  <2>7. ASSUME NEW w \in Workers, StaleDelivery(w) PROVE TypeOK'
    BY <2>7, Zenon DEF StaleDelivery, Goto, Calls
  <2>8. ASSUME NEW w \in Workers, CheckCompleted(w) PROVE TypeOK'
    BY <2>8, Zenon DEF CheckCompleted, Goto, Recovery, Calls
  <2>9. ASSUME NEW w \in Workers, Reschedule(w) PROVE TypeOK'
    BY <2>9, Zenon DEF Reschedule, UpdateStatus, Goto, Calls, Statuses
  <2>10. ASSUME NEW w \in Workers, Reenqueue(w) PROVE TypeOK'
    BY <2>10 DEF Reenqueue, EnqueueDue, Goto, Calls
  <2>11. ASSUME NEW w \in Workers, CreateExecution(w) PROVE TypeOK'
    <3>1. execs' \subseteq Rows
      BY <2>11 DEF CreateExecution, Rows
    <3> QED
      <4>1. CASE Release(w) /\ UNCHANGED <<execs, todo>>
        BY <2>11, <3>1, <4>1, EmptyTypes, Zenon DEF CreateExecution, Release
      <4>2. CASE Goto(w, "executeJob")
        BY <2>11, <3>1, <4>2, Zenon DEF CreateExecution, Goto, Calls
      <4> QED
        BY <2>11, <4>1, <4>2, Zenon DEF CreateExecution
  <2>12. ASSUME NEW w \in Workers, ExecuteJob(w) PROVE TypeOK'
    BY <2>12 DEF ExecuteJob, Goto, Calls
  <2>13. ASSUME NEW w \in Workers, CompleteDone(w) PROVE TypeOK'
    <3>1. execs' \subseteq Rows
      BY <2>13, CompleteTypes, Zenon DEF CompleteDone
    <3>2. pc' \in [Workers -> Calls \cup {"idle"}]
      BY <2>13, Zenon DEF CompleteDone, Goto, Calls
    <3> QED
      BY <2>13, <3>1, <3>2, Zenon DEF CompleteDone, Goto
  <2>14. ASSUME NEW w \in Workers, CompleteFailed(w) PROVE TypeOK'
    <3>1. execs' \subseteq Rows
      BY <2>14, CompleteTypes, Zenon DEF CompleteFailed
    <3>2. pc' \in [Workers -> Calls \cup {"idle"}]
      BY <2>14, Zenon DEF CompleteFailed, Goto, Calls
    <3> QED
      BY <2>14, <3>1, <3>2, Zenon DEF CompleteFailed, Goto
  <2>15. ASSUME NEW w \in Workers, ScheduleRetryEntry(w) PROVE TypeOK'
    BY <2>15 DEF ScheduleRetryEntry, ScheduleJob, RetryGeneration, Goto, Calls
  <2>16. ASSUME NEW w \in Workers, ScheduleRetry(w) PROVE TypeOK'
    BY <2>16, RowTypes DEF ScheduleRetry, Goto, Calls
  <2>17. ASSUME NEW w \in Workers, Compensate(w) PROVE TypeOK'
    BY <2>17, Zenon DEF Compensate, RemoveScheduled, Release, NoMsg, NoJob, Kinds, Statuses
  <2>18. ASSUME NEW w \in Workers, DeadLetter(w) PROVE TypeOK'
    BY <2>18, Zenon DEF DeadLetter, Goto, Calls
  <2>19. ASSUME NEW w \in Workers, MarkDead(w) PROVE TypeOK'
    BY <2>19, Zenon DEF MarkDead, UpdateStatus, Goto, Calls, Statuses
  <2>20. ASSUME NEW w \in Workers, MarkDone(w) PROVE TypeOK'
    BY <2>20, Zenon DEF MarkDone, UpdateStatus, Goto, Calls, Statuses
  <2>21. ASSUME NEW w \in Workers, Ack(w) PROVE TypeOK'
    <3>1. ready' \subseteq StreamEntries /\ acked' \subseteq StreamEntries
      BY <2>21, AcknowledgeTypes, Zenon DEF Ack
    <3> QED
      BY <2>21, <3>1, Zenon DEF Ack, Acknowledge, Release, NoMsg, NoJob, Kinds, Statuses
  <2>22. ASSUME NEW w \in Workers, CallFails(w) PROVE TypeOK'
    BY <2>22 DEF CallFails, CanFault, Release, NoMsg, NoJob, Kinds, Statuses
  <2>23. ASSUME NEW w \in Workers, ScheduleRetryFails(w) PROVE TypeOK'
    BY <2>23, RowTypes DEF ScheduleRetryFails, CanFault, Goto, Calls
  <2>24. ASSUME NEW w \in Workers, CrashWorker(w) PROVE TypeOK'
    BY <2>24 DEF CrashWorker, CanFault, Release, NoMsg, NoJob, Kinds, Statuses
  <2>ins. ASSUME NEW h \in Handlers, NEW st \in Submitted, NEW later \in BOOLEAN,
                Insert(h, st, later)
         PROVE  TypeOK'
    BY <2>ins, Zenon DEF Submitted, Insert, Destination, HandoffCalls, Statuses, Movers
  <2>25. ASSUME NEW h \in Handlers, CreateJob(h) \/ CreateDueInstance(h) PROVE TypeOK'
    BY <2>25, <2>ins, Zenon DEF CreateJob, CreateDueInstance, Submitted
  <2>26. ASSUME NEW h \in Handlers, RetryJob(h) PROVE TypeOK'
    <3>1. future' \in BOOLEAN
      BY <2>26, Zenon DEF RetryJob
    <3>2. job' \in JobRecords /\ outbox' \in Nat
      BY <2>26 DEF RetryJob, Revived, Statuses
    <3>3. hand' \in [Movers -> Handoffs]
      BY <2>26, StepTypes DEF RetryJob, HandoffCalls, Movers
    <3> QED
      BY <2>26, <3>1, <3>2, <3>3 DEF RetryJob
  <2>27. ASSUME NEW h \in Handlers, RereadRetried(h) PROVE TypeOK'
    BY <2>27, Zenon DEF RereadRetried, HandoffCalls, Movers
  <2>28. ASSUME NEW h \in Handlers, CancelJob(h) PROVE TypeOK'
    BY <2>28, Zenon DEF CancelJob, UpdateStatus, Step, HandoffCalls, Statuses, Movers
  <2>29. ASSUME NEW h \in Handlers, Unschedule(h) PROVE TypeOK'
    BY <2>29, Zenon DEF Unschedule, RemoveScheduled, Done, Movers
  <2>30. ASSUME NEW p \in Movers, ClaimOutbox(p) PROVE TypeOK'
    BY <2>30, Zenon DEF ClaimOutbox, Destination, HandoffCalls
  <2>31. ASSUME NEW p \in Movers, CheckEntry(p) PROVE TypeOK'
    <3>1. hand' \in [Movers -> Handoffs]
      BY <2>31 DEF CheckEntry, Step, HandoffCalls
    <3> QED
      BY <2>31, <3>1, Zenon DEF CheckEntry
  <2>32. ASSUME NEW p \in Movers, Enqueue(p) PROVE TypeOK'
    BY <2>32 DEF Enqueue, EnqueueDue, ScheduleJob, Step, HandoffCalls
  <2>33. ASSUME NEW p \in Movers, DeleteOutbox(p) PROVE TypeOK'
    BY <2>33, Zenon DEF DeleteOutbox, DeleteOutboxEntries, Done
  <2>34. ASSUME NEW p \in Movers, AbandonHandoff(p) PROVE TypeOK'
    BY <2>34 DEF AbandonHandoff, CanFault, Done
  <2>35. ASSUME NEW w \in Workers, PoisonDataLost(w) PROVE TypeOK'
    <3>1. ready' \subseteq StreamEntries /\ acked' \subseteq StreamEntries
      BY <2>35, AcknowledgeTypes, Zenon DEF PoisonDataLost, DropUnread
    <3> QED
      BY <2>35, <3>1 DEF PoisonDataLost, DropUnread, Acknowledge, CanFault
  <2>36. CASE RunAtPasses
    BY <2>36, Zenon DEF RunAtPasses
  <2>37. CASE PromoteDue
    BY <2>37 DEF PromoteDue, EnqueueDue, RemoveScheduled
  <2>38. CASE UNCHANGED vars
    BY <2>38, Zenon DEF vars
  <2>39. ASSUME NEW w \in Workers, QuarantineTrimmed(w) PROVE TypeOK'
    <3>1. ready' \subseteq StreamEntries /\ acked' \subseteq StreamEntries
      BY <2>39, AcknowledgeTypes, Zenon DEF QuarantineTrimmed, DropUnread
    <3> QED
      BY <2>39, <3>1 DEF QuarantineTrimmed, DropUnread, Acknowledge
  <2>40. CASE Trim
    BY <2>40 DEF Trim, CanFault
  <2>41. CASE GroupLost
    <3>1. ready' \subseteq StreamEntries /\ acked' \subseteq StreamEntries
      BY <2>41 DEF GroupLost, Undelivered
    <3> QED
      BY <2>41, <3>1 DEF GroupLost, CanFault
  <2> QED
    BY <2>1, <2>2, <2>3, <2>4, <2>5, <2>6, <2>7, <2>8, <2>9, <2>10, <2>11,
       <2>12, <2>13, <2>14, <2>15, <2>16, <2>17, <2>18, <2>19, <2>20, <2>21,
       <2>22, <2>23, <2>24, <2>25, <2>26, <2>27, <2>28, <2>29, <2>30, <2>31,
       <2>32, <2>33, <2>34, <2>35, <2>36, <2>37, <2>38, <2>39, <2>40, <2>41, Zenon
    DEF Next, WorkerStep, ProcessStep, Request, HandoffStep, Fault, Movers
<1> QED
  BY <1>1, <1>2, PTL DEF Spec

-----------------------------------------------------------------------------
(* The fence *)

\* The ways the jobs row is written.
JobWritten ==
  \/ job' = job
  \/ \E st \in Statuses : UpdateStatus(st)
  \/ \E w \in Workers : StartExecution(w)
  \/ job' = Rescheduled
  \/ job.status = "dead" /\ job' = Revived
  \/ \E h \in Handlers, st \in Submitted, later \in BOOLEAN : Insert(h, st, later)

\* There are no others.
LEMMA JobWrites == [Next]_vars => JobWritten
<1> SUFFICES ASSUME [Next]_vars PROVE JobWritten
  OBVIOUS
<1> USE DEF JobWritten, Statuses
<1>1. ASSUME NEW w \in Workers, WorkerStep(w) PROVE JobWritten
  BY <1>1, Zenon
     DEF WorkerStep, ProcessStep, ReadNext, ListStalePending, Claim, GetByID,
         Quarantine, QuarantineTrimmed, DropUnread, Take, StaleDelivery, CheckCompleted,
         Reschedule, Reenqueue, CreateExecution, ExecuteJob, CompleteDone,
         CompleteFailed, ScheduleRetryEntry, ScheduleRetry, Compensate,
         DeadLetter, MarkDead, MarkDone, Ack, store
<1>2. ASSUME NEW h \in Handlers, Request(h) PROVE JobWritten
  BY <1>2, Zenon DEF Request, CreateJob, CreateDueInstance, Submitted, RetryJob, CancelJob
<1>3. ASSUME NEW p \in Movers, HandoffStep(p) PROVE JobWritten
  BY <1>3, Zenon DEF HandoffStep, RereadRetried, Unschedule, ClaimOutbox, CheckEntry,
              Enqueue, DeleteOutbox, store
<1>4. CASE RunAtPasses \/ PromoteDue \/ Fault \/ UNCHANGED vars
  BY <1>4, Zenon DEF RunAtPasses, PromoteDue, Fault, CallFails, PoisonDataLost, DropUnread,
     ScheduleRetryFails, CrashWorker, AbandonHandoff, Trim, GroupLost, store, vars
<1> QED
  BY <1>1, <1>2, <1>3, <1>4, Zenon DEF Next

\* What each of them does to the fence.
LEMMA FenceMoves ==
  ASSUME TypeOK, FenceInv, JobWritten
  PROVE  \/ job'.gen = job.gen /\ job'.attempts = job.attempts
         \/ \E w \in Workers : StartExecution(w) /\ job' = Started
         \/ job'.gen = job.gen + 1 /\ job'.attempts = job.attempts
         \/ job.status = "dead" /\ job'.gen = job.gen + 1 /\ job'.attempts = 0
<1> job \in JobRecords
  BY Zenon DEF TypeOK
<1>1. ASSUME NEW h \in Handlers, NEW st \in Submitted, NEW later \in BOOLEAN,
             Insert(h, st, later)
      PROVE  job'.gen = job.gen + 1 /\ job'.attempts = job.attempts
  <2>1. job.status = "absent" /\ job' = [status |-> st, attempts |-> 0, gen |-> 1]
    BY <1>1, Zenon DEF Insert
  <2>2. job.gen = 0 /\ job.attempts = 0
    BY <2>1, Zenon DEF FenceInv
  <2> QED
    BY <2>1, <2>2
<1> QED
  BY <1>1 DEF JobWritten, JobRecords, UpdateStatus, StartExecution, Rescheduled, Revived

\* The generation is not taken back, and attempts only when a dead job is revived.
LEMMA FenceStep == TypeOK /\ FenceInv /\ [Next]_vars => FenceGrows
<1> SUFFICES ASSUME TypeOK, FenceInv, [Next]_vars PROVE FenceGrows
  OBVIOUS
<1> job \in JobRecords
  BY Zenon DEF TypeOK
<1> QED
  BY JobWrites, FenceMoves DEF FenceGrows, JobRecords, Started

\* Whatever is queued or remembered of the generation stays within the fence:
\* each action copies a generation it has, or the one after it.
LEMMA FenceInvStep == TypeOK /\ FenceInv /\ [Next]_vars => FenceInv'
<1> SUFFICES ASSUME TypeOK, FenceInv, [Next]_vars PROVE FenceInv'
  BY Zenon
<1> USE DEF TypeOK, JobRecords, StreamEntries, Handoffs, FenceInv, QueueWithinFence,
            store, stream, redis, locals
<1>1. ASSUME NEW w \in Workers, ReadNext(w) PROVE FenceInv'
  BY <1>1 DEF ReadNext, Pending
<1>2. ASSUME NEW w \in Workers, ListStalePending(w) PROVE FenceInv'
  BY <1>2, Zenon DEF ListStalePending
<1>3. ASSUME NEW w \in Workers, Claim(w) PROVE FenceInv'
  <2>1. PICK got \in SUBSET ready :
          ready' = (ready \ got) \cup {[m EXCEPT !.count = @ + 1] : m \in got}
    BY <1>3, Zenon DEF Claim, Stale, Pending
  <2>2. \A n \in ready' : \E m \in ready : n.gen = m.gen
    BY <2>1
  <2> QED
    BY <1>3, <2>2, Zenon DEF Claim
<1>4. ASSUME NEW w \in Workers, GetByID(w) PROVE FenceInv'
  BY <1>4 DEF GetByID, Take
<1>5. ASSUME NEW w \in Workers, Quarantine(w) PROVE FenceInv'
  BY <1>5 DEF Quarantine, Take
<1>6. ASSUME NEW w \in Workers, StartExecution(w) PROVE FenceInv'
  BY <1>6 DEF StartExecution, Started
<1>7. ASSUME NEW w \in Workers, StaleDelivery(w) PROVE FenceInv'
  BY <1>7, Zenon DEF StaleDelivery, Goto
<1>8. ASSUME NEW w \in Workers, CheckCompleted(w) PROVE FenceInv'
  BY <1>8, Zenon DEF CheckCompleted, Goto
<1>9. ASSUME NEW w \in Workers, Reschedule(w) PROVE FenceInv'
  BY <1>9, Zenon DEF Reschedule, UpdateStatus, Goto
<1>10. ASSUME NEW w \in Workers, Reenqueue(w) PROVE FenceInv'
  BY <1>10 DEF Reenqueue, EnqueueDue, Goto
<1>11. ASSUME NEW w \in Workers, CreateExecution(w) PROVE FenceInv'
  <2>1. /\ UNCHANGED <<job, outbox, scheduled, ready, acked, hand>>
        /\ snap' = snap \/ snap' = [snap EXCEPT ![w] = NoJob]
    BY <1>11, Zenon DEF CreateExecution, Goto, Release
  <2> QED
    BY <2>1 DEF NoJob
<1>12. ASSUME NEW w \in Workers, ExecuteJob(w) PROVE FenceInv'
  BY <1>12, Zenon DEF ExecuteJob, Goto
<1>13. ASSUME NEW w \in Workers, CompleteDone(w) PROVE FenceInv'
  BY <1>13, Zenon DEF CompleteDone, Goto
<1>14. ASSUME NEW w \in Workers, CompleteFailed(w) PROVE FenceInv'
  BY <1>14, Zenon DEF CompleteFailed, Goto
<1>15. ASSUME NEW w \in Workers, ScheduleRetryEntry(w) PROVE FenceInv'
  BY <1>15 DEF ScheduleRetryEntry, ScheduleJob, RetryGeneration, Goto
<1>16. ASSUME NEW w \in Workers, ScheduleRetry(w) PROVE FenceInv'
  BY <1>16 DEF ScheduleRetry, Rescheduled, Goto
<1>17. ASSUME NEW w \in Workers, Compensate(w) PROVE FenceInv'
  BY <1>17 DEF Compensate, RemoveScheduled, Release, NoJob
<1>18. ASSUME NEW w \in Workers, DeadLetter(w) PROVE FenceInv'
  BY <1>18, Zenon DEF DeadLetter, Goto
<1>19. ASSUME NEW w \in Workers, MarkDead(w) PROVE FenceInv'
  BY <1>19, Zenon DEF MarkDead, UpdateStatus, Goto
<1>20. ASSUME NEW w \in Workers, MarkDone(w) PROVE FenceInv'
  BY <1>20, Zenon DEF MarkDone, UpdateStatus, Goto
<1>21. ASSUME NEW w \in Workers, Ack(w) PROVE FenceInv'
  BY <1>21, AcknowledgeKeepsGens DEF Ack, Release, NoJob
<1>22. ASSUME NEW w \in Workers, CallFails(w) PROVE FenceInv'
  BY <1>22 DEF CallFails, Release, NoJob
<1>23. ASSUME NEW w \in Workers, ScheduleRetryFails(w) PROVE FenceInv'
  BY <1>23 DEF ScheduleRetryFails, Rescheduled, Goto
<1>24. ASSUME NEW w \in Workers, CrashWorker(w) PROVE FenceInv'
  BY <1>24 DEF CrashWorker, Release, NoJob
<1>ins. ASSUME NEW h \in Handlers, NEW st \in Submitted, NEW later \in BOOLEAN,
              Insert(h, st, later)
       PROVE  FenceInv'
  BY <1>ins DEF Submitted, Insert, Movers
<1>25. ASSUME NEW h \in Handlers, CreateJob(h) \/ CreateDueInstance(h) PROVE FenceInv'
  BY <1>25, <1>ins, Zenon DEF CreateJob, CreateDueInstance, Submitted
<1>26. ASSUME NEW h \in Handlers, RetryJob(h) PROVE FenceInv'
  BY <1>26 DEF RetryJob, Revived, Step, Movers
<1>27. ASSUME NEW h \in Handlers, RereadRetried(h) PROVE FenceInv'
  BY <1>27 DEF RereadRetried, Movers
<1>28. ASSUME NEW h \in Handlers, CancelJob(h) PROVE FenceInv'
  BY <1>28 DEF CancelJob, UpdateStatus, Step
<1>29. ASSUME NEW h \in Handlers, Unschedule(h) PROVE FenceInv'
  BY <1>29 DEF Unschedule, RemoveScheduled, Done, Movers
<1>30. ASSUME NEW p \in Movers, ClaimOutbox(p) PROVE FenceInv'
  BY <1>30, Zenon DEF ClaimOutbox
<1>31. ASSUME NEW p \in Movers, CheckEntry(p) PROVE FenceInv'
  BY <1>31 DEF CheckEntry, Step
<1>32. ASSUME NEW p \in Movers, Enqueue(p) PROVE FenceInv'
  BY <1>32 DEF Enqueue, EnqueueDue, ScheduleJob, Step
<1>33. ASSUME NEW p \in Movers, DeleteOutbox(p) PROVE FenceInv'
  BY <1>33 DEF DeleteOutbox, DeleteOutboxEntries, Done
<1>34. ASSUME NEW p \in Movers, AbandonHandoff(p) PROVE FenceInv'
  BY <1>34 DEF AbandonHandoff, Done
<1>35. ASSUME NEW w \in Workers, PoisonDataLost(w) PROVE FenceInv'
  BY <1>35, AcknowledgeKeepsGens, Zenon DEF PoisonDataLost, DropUnread
<1>36. CASE RunAtPasses
  BY <1>36, Zenon DEF RunAtPasses
<1>37. CASE PromoteDue
  BY <1>37 DEF PromoteDue, EnqueueDue, RemoveScheduled
<1>38. CASE UNCHANGED vars
  BY <1>38, Zenon DEF vars
<1>39. ASSUME NEW w \in Workers, QuarantineTrimmed(w) PROVE FenceInv'
  BY <1>39, AcknowledgeKeepsGens, Zenon DEF QuarantineTrimmed, DropUnread
<1>40. CASE Trim
  BY <1>40, Zenon DEF Trim
<1>41. CASE GroupLost
  BY <1>41 DEF GroupLost, Undelivered
<1> QED
  BY <1>1, <1>2, <1>3, <1>4, <1>5, <1>6, <1>7, <1>8, <1>9, <1>10, <1>11,
     <1>12, <1>13, <1>14, <1>15, <1>16, <1>17, <1>18, <1>19, <1>20, <1>21,
     <1>22, <1>23, <1>24, <1>25, <1>26, <1>27, <1>28, <1>29, <1>30, <1>31,
     <1>32, <1>33, <1>34, <1>35, <1>36, <1>37, <1>38, <1>39, <1>40, <1>41, Zenon
  DEF Next, WorkerStep, ProcessStep, Request, HandoffStep, Fault, Movers

\* The fence invariant holds in every reachable state.
LEMMA FenceHolds == Spec => [](TypeOK /\ FenceInv)
<1>1. Init => FenceInv
  BY DEF Init, FenceInv, QueueWithinFence, NoJob, Done
<1>2. TypeOK /\ FenceInv /\ [Next]_vars => FenceInv'
  BY FenceInvStep, Zenon
<1> QED
  BY <1>1, <1>2, TypeCorrect, PTL DEF Spec

\* No write of any process takes the fence (queue_generation, attempts) back, under
\* any interleaving, race and fault, and for any number of processes.
THEOREM FenceNeverReturns == Spec => FenceMonotone
<1>1. TypeOK /\ FenceInv /\ [Next]_vars => [FenceGrows]_vars
  BY FenceStep, Zenon
<1> QED
  BY <1>1, FenceHolds, PTL DEF Spec, FenceMonotone

\* No entry of jobs:ready, jobs:scheduled or the outbox is ever ahead of the
\* row by more than the one retry ScheduleJob queues before ScheduleRetry.
THEOREM QueueNeverAhead == Spec => []QueueWithinFence
<1>1. FenceInv => QueueWithinFence
  BY Zenon DEF FenceInv
<1> QED
  BY <1>1, FenceHolds, PTL

-----------------------------------------------------------------------------
(* The ledger of pairs (queue_generation, attempt_number) *)

\* A step that touches no execution row and moves no worker into an execution
\* keeps the ledger.
LEMMA PairsFrame ==
  ASSUME TypeOK, TypeOK', PairsInv, FenceGrows, execs' = execs,
         \A v \in Workers : Executing(v)' =>
           pc'[v] = pc[v] /\ msg'[v] = msg[v] /\ attempt'[v] = attempt[v]
  PROVE  PairsInv'
<1> job \in JobRecords /\ job' \in JobRecords
  BY Zenon DEF TypeOK
<1>1. \A g, a \in Nat : Behind(g, a) => Behind(g, a)'
  BY DEF Behind, FenceGrows, JobRecords
<1>2. \A w \in Workers : Executing(w)' => Executing(w)
  BY Zenon DEF Executing
<1>3. \A e \in execs' : Behind(e.gen, e.attempt)'
  BY <1>1, Zenon DEF PairsInv, TypeOK, Rows
<1>4. \A w \in Workers : Executing(w)' => Behind(msg[w].gen, attempt[w])'
  <2> SUFFICES ASSUME NEW w \in Workers, Executing(w)'
               PROVE  Behind(msg[w].gen, attempt[w])'
    OBVIOUS
  <2>1. msg[w].gen \in Nat /\ attempt[w] \in Nat
    BY Zenon DEF TypeOK, Entries
  <2>2. Behind(msg[w].gen, attempt[w])
    BY <1>2, Zenon DEF PairsInv
  <2>3. msg'[w] = msg[w] /\ attempt'[w] = attempt[w]
    OBVIOUS
  <2> HIDE DEF TypeOK, PairsInv
  <2> QED
    BY <1>1, <2>1, <2>2, <2>3, Zenon DEF Behind
<1>5. AttemptsExclusive'
  BY <1>2 DEF PairsInv, AttemptsExclusive, Executing
<1>6. InsertNeverConflicts'
  BY DEF PairsInv, InsertNeverConflicts, Executing
<1>7. AuditBeforeCallback'
  BY Zenon DEF PairsInv, AuditBeforeCallback, Executing
<1> QED
  BY <1>3, <1>4, <1>5, <1>6, <1>7, Zenon DEF PairsInv

\* The actions that neither write execution rows nor enter an execution.
QuietStep ==
  /\ execs' = execs
  /\ \A v \in Workers : Executing(v)' =>
       pc'[v] = pc[v] /\ msg'[v] = msg[v] /\ attempt'[v] = attempt[v]

\* The steps of Process from StartExecution to Complete.
Recorded ==
  \E w \in Workers : StartExecution(w) \/ CreateExecution(w) \/ ExecuteJob(w)
                     \/ CompleteDone(w) \/ CompleteFailed(w)

\* Every step is quiet or one of the five of Process between StartExecution and Complete.
LEMMA OtherStepsQuiet == TypeOK /\ [Next]_vars => QuietStep \/ Recorded
<1> SUFFICES ASSUME TypeOK, [Next]_vars, ~Recorded PROVE QuietStep
  BY Zenon
<1> USE DEF TypeOK, QuietStep, Executing, store, locals
<1>1. ASSUME NEW w \in Workers, ReadNext(w) PROVE QuietStep
  BY <1>1, Zenon DEF ReadNext
<1>2. ASSUME NEW w \in Workers, ListStalePending(w) PROVE QuietStep
  BY <1>2, Zenon DEF ListStalePending
<1>3. ASSUME NEW w \in Workers, Claim(w) PROVE QuietStep
  BY <1>3, Zenon DEF Claim
<1>4. ASSUME NEW w \in Workers, GetByID(w) PROVE QuietStep
  BY <1>4 DEF GetByID, Take
<1>5. ASSUME NEW w \in Workers, Quarantine(w) PROVE QuietStep
  BY <1>5 DEF Quarantine, Take
<1>6. ASSUME NEW w \in Workers, StartExecution(w) PROVE QuietStep
  BY <1>6, Zenon DEF StartExecution, Recorded
<1>7. ASSUME NEW w \in Workers, StaleDelivery(w) PROVE QuietStep
  BY <1>7, Zenon DEF StaleDelivery, Goto
<1>8. ASSUME NEW w \in Workers, CheckCompleted(w) PROVE QuietStep
  BY <1>8, Zenon DEF CheckCompleted, Goto, Recovery
<1>9. ASSUME NEW w \in Workers, Reschedule(w) PROVE QuietStep
  BY <1>9, Zenon DEF Reschedule, Goto
<1>10. ASSUME NEW w \in Workers, Reenqueue(w) PROVE QuietStep
  BY <1>10, Zenon DEF Reenqueue, Goto
<1>11. ASSUME NEW w \in Workers, CreateExecution(w) PROVE QuietStep
  BY <1>11, Zenon DEF CreateExecution, Recorded
<1>12. ASSUME NEW w \in Workers, ExecuteJob(w) PROVE QuietStep
  BY <1>12, Zenon DEF ExecuteJob, Recorded
<1>13. ASSUME NEW w \in Workers, CompleteDone(w) PROVE QuietStep
  BY <1>13, Zenon DEF CompleteDone, Recorded
<1>14. ASSUME NEW w \in Workers, CompleteFailed(w) PROVE QuietStep
  BY <1>14, Zenon DEF CompleteFailed, Recorded
<1>15. ASSUME NEW w \in Workers, ScheduleRetryEntry(w) PROVE QuietStep
  BY <1>15, Zenon DEF ScheduleRetryEntry, Goto
<1>16. ASSUME NEW w \in Workers, ScheduleRetry(w) PROVE QuietStep
  BY <1>16, Zenon DEF ScheduleRetry, Goto
<1>17. ASSUME NEW w \in Workers, Compensate(w) PROVE QuietStep
  BY <1>17, Zenon DEF Compensate, Release
<1>18. ASSUME NEW w \in Workers, DeadLetter(w) PROVE QuietStep
  BY <1>18, Zenon DEF DeadLetter, Goto
<1>19. ASSUME NEW w \in Workers, MarkDead(w) PROVE QuietStep
  BY <1>19, Zenon DEF MarkDead, Goto
<1>20. ASSUME NEW w \in Workers, MarkDone(w) PROVE QuietStep
  BY <1>20, Zenon DEF MarkDone, Goto
<1>21. ASSUME NEW w \in Workers, Ack(w) PROVE QuietStep
  BY <1>21, Zenon DEF Ack, Release
<1>22. ASSUME NEW w \in Workers, CallFails(w) PROVE QuietStep
  BY <1>22, Zenon DEF CallFails, Release
<1>23. ASSUME NEW w \in Workers, ScheduleRetryFails(w) PROVE QuietStep
  BY <1>23, Zenon DEF ScheduleRetryFails, Goto
<1>24. ASSUME NEW w \in Workers, CrashWorker(w) PROVE QuietStep
  BY <1>24, Zenon DEF CrashWorker, Release
<1>ins. ASSUME NEW h \in Handlers, NEW st \in Submitted, NEW later \in BOOLEAN,
              Insert(h, st, later)
       PROVE  QuietStep
  BY <1>ins, Zenon DEF Submitted, Insert
<1>25. ASSUME NEW h \in Handlers, CreateJob(h) \/ CreateDueInstance(h) PROVE QuietStep
  BY <1>25, <1>ins, Zenon DEF CreateJob, CreateDueInstance, Submitted
<1>26. ASSUME NEW h \in Handlers, RetryJob(h) PROVE QuietStep
  BY <1>26, Zenon DEF RetryJob
<1>27. ASSUME NEW h \in Handlers, RereadRetried(h) PROVE QuietStep
  BY <1>27 DEF RereadRetried
<1>28. ASSUME NEW h \in Handlers, CancelJob(h) PROVE QuietStep
  BY <1>28, Zenon DEF CancelJob
<1>29. ASSUME NEW h \in Handlers, Unschedule(h) PROVE QuietStep
  BY <1>29, Zenon DEF Unschedule
<1>30. ASSUME NEW p \in Movers, ClaimOutbox(p) PROVE QuietStep
  BY <1>30, Zenon DEF ClaimOutbox
<1>31. ASSUME NEW p \in Movers, CheckEntry(p) PROVE QuietStep
  BY <1>31, Zenon DEF CheckEntry
<1>32. ASSUME NEW p \in Movers, Enqueue(p) PROVE QuietStep
  BY <1>32, Zenon DEF Enqueue
<1>33. ASSUME NEW p \in Movers, DeleteOutbox(p) PROVE QuietStep
  BY <1>33, Zenon DEF DeleteOutbox
<1>34. ASSUME NEW p \in Movers, AbandonHandoff(p) PROVE QuietStep
  BY <1>34, Zenon DEF AbandonHandoff
<1>35. ASSUME NEW w \in Workers, PoisonDataLost(w) PROVE QuietStep
  BY <1>35, Zenon DEF PoisonDataLost, DropUnread, Free
<1>36. CASE RunAtPasses
  BY <1>36, Zenon DEF RunAtPasses
<1>37. CASE PromoteDue
  BY <1>37, Zenon DEF PromoteDue
<1>38. CASE UNCHANGED vars
  BY <1>38, Zenon DEF vars
<1>39. ASSUME NEW w \in Workers, QuarantineTrimmed(w) PROVE QuietStep
  BY <1>39, Zenon DEF QuarantineTrimmed, DropUnread, Free
<1>40. CASE Trim
  BY <1>40, Zenon DEF Trim
<1>41. CASE GroupLost
  BY <1>41, Zenon DEF GroupLost
<1> QED
  BY <1>1, <1>2, <1>3, <1>4, <1>5, <1>6, <1>7, <1>8, <1>9, <1>10, <1>11,
     <1>12, <1>13, <1>14, <1>15, <1>16, <1>17, <1>18, <1>19, <1>20, <1>21,
     <1>22, <1>23, <1>24, <1>25, <1>26, <1>27, <1>28, <1>29, <1>30, <1>31,
     <1>32, <1>33, <1>34, <1>35, <1>36, <1>37, <1>38, <1>39, <1>40, <1>41, Zenon
  DEF Next, WorkerStep, ProcessStep, Request, HandoffStep, Fault, Movers

\* StartExecution hands out a pair that nobody has had.
LEMMA StartKeepsPairs ==
  ASSUME TypeOK, PairsInv, NEW w \in Workers, StartExecution(w)
  PROVE  PairsInv'
<1> USE DEF StartExecution, CanStart, Started, StartedAttempt
<1>1. /\ execs' = execs /\ msg' = msg /\ job'.gen = job.gen
      /\ job'.attempts = job.attempts + 1
      /\ msg[w].gen = job.gen /\ attempt'[w] = job.attempts + 1
      /\ \A v \in Workers \ {w} : pc'[v] = pc[v] /\ attempt'[v] = attempt[v]
      /\ pc'[w] = "create" /\ pc[w] = "startExecution"
  BY Zenon DEF TypeOK
<1> HIDE DEF StartExecution, CanStart, Started, StartedAttempt
<1>types. /\ job.gen \in Nat /\ job.attempts \in Nat
          /\ \A e \in execs : e.gen \in Nat /\ e.attempt \in Nat
          /\ \A v \in Workers : msg[v].gen \in Nat /\ attempt[v] \in Nat
  BY Zenon DEF TypeOK, JobRecords, Rows, Entries
<1>2. \A g, a : Behind(g, a) => ~(g = job.gen /\ a = job.attempts + 1)
  BY <1>types DEF Behind
<1>3. \A g, a \in Nat : Behind(g, a) => Behind(g, a)'
  <2>1. job'.gen = job.gen /\ job'.attempts = job.attempts + 1
    BY <1>1, Zenon
  <2>2. job.attempts \in Nat
    BY <1>types, Zenon
  <2> QED
    BY <2>1, <2>2 DEF Behind
<1>4. \A e \in execs' : Behind(e.gen, e.attempt)'
  BY <1>1, <1>3, <1>types, Zenon DEF PairsInv
<1>5. \A v \in Workers : Executing(v)' => Behind(msg[v].gen, attempt[v])'
  <2>1. Behind(msg[w].gen, attempt[w])'
    <3>1. job'.attempts = job.attempts + 1 /\ attempt'[w] = job.attempts + 1
      BY <1>1, Zenon
    <3>2. msg'[w].gen = job'.gen
      BY <1>1, Zenon
    <3>3. job.attempts \in Nat
      BY <1>types, Zenon
    <3> QED
      BY <3>1, <3>2, <3>3 DEF Behind
  <2> QED
    BY <2>1, <1>1, <1>3, <1>types, Zenon DEF PairsInv, Executing
<1>6. AttemptsExclusive'
  <2>1. \A v \in Workers \ {w} : Executing(v)' =>
          Executing(v) /\ ~(msg[v].gen = job.gen /\ attempt[v] = job.attempts + 1)
    BY <1>1, <1>2, Zenon DEF PairsInv, Executing
  <2>2. \A v \in Workers \ {w} : Executing(v)' =>
          <<msg[v].gen, attempt[v]>>' # <<msg[w].gen, attempt[w]>>'
    BY <1>1, <2>1, Zenon
  <2>3. \A u, v \in Workers \ {w} : u # v /\ Executing(u)' /\ Executing(v)' =>
          <<msg[u].gen, attempt[u]>>' # <<msg[v].gen, attempt[v]>>'
    <3>1. \A u, v \in Workers : u # v /\ Executing(u) /\ Executing(v) =>
            <<msg[u].gen, attempt[u]>> # <<msg[v].gen, attempt[v]>>
      BY Zenon DEF PairsInv, AttemptsExclusive
    <3> QED
      BY <1>1, <2>1, <3>1
  <2> QED
    BY <2>2, <2>3, Zenon DEF AttemptsExclusive
<1>7. InsertNeverConflicts'
  <2>1. \A e \in execs : ~(e.gen = job.gen /\ e.attempt = job.attempts + 1)
    BY <1>2, Zenon DEF PairsInv
  <2>2. \A v \in Workers \ {w} : pc'[v] = "create" =>
          ~ \E e \in execs' : e.gen = msg'[v].gen /\ e.attempt = attempt'[v]
    BY <1>1 DEF PairsInv, InsertNeverConflicts
  <2>3. ~ \E e \in execs' : e.gen = msg'[w].gen /\ e.attempt = attempt'[w]
    BY <1>1, <2>1, Zenon
  <2> QED
    BY <2>2, <2>3, Zenon DEF InsertNeverConflicts
<1>8. AuditBeforeCallback'
  BY <1>1, Zenon DEF PairsInv, AuditBeforeCallback, Executing
<1> QED
  BY <1>1, <1>4, <1>5, <1>6, <1>7, <1>8, Zenon DEF PairsInv

\* The row that CreateExecution inserts is the first for its pair.
LEMMA CreateKeepsPairs ==
  ASSUME TypeOK, PairsInv, NEW w \in Workers, CreateExecution(w)
  PROVE  PairsInv'
<1> DEFINE row == [gen |-> msg[w].gen, attempt |-> attempt[w], status |-> "running"]
<1>1. ~ \E e \in execs : e.gen = msg[w].gen /\ e.attempt = attempt[w]
  BY Zenon DEF CreateExecution, PairsInv, InsertNeverConflicts
<1>2. /\ execs' = execs \cup {row} /\ msg' = msg /\ attempt' = attempt /\ job' = job
      /\ \A v \in Workers \ {w} : pc'[v] = pc[v]
      /\ pc'[w] = "executeJob" /\ pc[w] = "create"
  BY <1>1, Zenon DEF CreateExecution, Goto, TypeOK
<1>3. row.gen = msg[w].gen /\ row.attempt = attempt[w] /\ row.status = "running"
  OBVIOUS
<1>4. Behind(row.gen, row.attempt)
  BY <1>2, Zenon DEF PairsInv, Executing
<1>5. \A v \in Workers : Executing(v)' => Executing(v)
  BY <1>2, Zenon DEF Executing
<1>6. AuditBeforeCallback'
  BY <1>2, Zenon DEF PairsInv, AuditBeforeCallback
<1> HIDE DEF row
<1>7. \A e \in execs' : Behind(e.gen, e.attempt)'
  BY <1>2, <1>4, Zenon DEF PairsInv, Behind
<1>8. \A e, f \in execs' : e.gen = f.gen /\ e.attempt = f.attempt => e = f
  BY <1>1, <1>2, <1>3 DEF PairsInv
<1>9. \A v \in Workers : Executing(v)' => Behind(msg[v].gen, attempt[v])'
  BY <1>2, <1>5, Zenon DEF PairsInv, Behind
<1>10. AttemptsExclusive'
  BY <1>2, <1>5, Zenon DEF PairsInv, AttemptsExclusive
<1>11. InsertNeverConflicts'
  <2>1. \A v \in Workers \ {w} : pc[v] = "create" =>
          <<msg[v].gen, attempt[v]>> # <<msg[w].gen, attempt[w]>>
    BY <1>2, Zenon DEF PairsInv, AttemptsExclusive, Executing
  <2>2. \A v \in Workers : pc'[v] = "create" => v # w /\ pc[v] = "create"
    BY <1>2, Zenon
  <2>3. \A v \in Workers : pc[v] = "create" =>
          ~ \E e \in execs : e.gen = msg[v].gen /\ e.attempt = attempt[v]
    BY Zenon DEF PairsInv, InsertNeverConflicts
  <2> SUFFICES ASSUME NEW v \in Workers, pc'[v] = "create", NEW e \in execs',
                      e.gen = msg'[v].gen, e.attempt = attempt'[v]
               PROVE  FALSE
    BY Zenon DEF InsertNeverConflicts
  <2>4. CASE e \in execs
    BY <1>2, <2>2, <2>3, <2>4, Zenon
  <2>5. CASE e = row
    BY <1>2, <1>3, <2>1, <2>2, <2>5, Zenon
  <2> QED
    BY <1>2, <2>4, <2>5, Zenon
<1> QED
  BY <1>6, <1>7, <1>8, <1>9, <1>10, <1>11, Zenon DEF PairsInv

\* Complete changes the status of the worker's own row and of no other.
LEMMA CompleteKeepsPairs ==
  ASSUME TypeOK, PairsInv, NEW w \in Workers, NEW s \in {"done", "failed"},
         pc[w] \in {"completeDone", "completeFailed"},
         Complete(msg[w].gen, attempt[w], s), job' = job,
         msg' = msg, attempt' = attempt, pc'[w] \notin
           {"create", "executeJob", "completeDone", "completeFailed"},
         \A v \in Workers \ {w} : pc'[v] = pc[v]
  PROVE  PairsInv' /\ RowsKept
<1> DEFINE row == [gen |-> msg[w].gen, attempt |-> attempt[w], status |-> "running"]
           new == [gen |-> msg[w].gen, attempt |-> attempt[w], status |-> s]
<1>1. row \in execs
  BY Zenon DEF PairsInv, AuditBeforeCallback
<1>2. \A e \in execs : e.gen = msg[w].gen /\ e.attempt = attempt[w] => e = row
  BY <1>1, Zenon DEF PairsInv
<1>3. [row EXCEPT !.status = s] = new
  OBVIOUS
<1>4. row.gen = new.gen /\ row.attempt = new.attempt /\ row.status = "running"
      /\ row.gen = msg[w].gen /\ row.attempt = attempt[w]
  OBVIOUS
<1> HIDE DEF row, new
<1>5. execs' = (execs \ {row}) \cup {new}
  BY <1>1, <1>2, <1>3, <1>4 DEF Complete
<1>6. RowsKept
  BY <1>4, <1>5, Zenon DEF RowsKept
<1>7. \A v \in Workers : Executing(v)' => v # w /\ Executing(v)
  BY Zenon DEF Executing
<1>8. \A e \in execs' : Behind(e.gen, e.attempt)'
  BY <1>1, <1>4, <1>5, Zenon DEF PairsInv, Behind
<1>9. \A e, f \in execs' : e.gen = f.gen /\ e.attempt = f.attempt => e = f
  <2>1. \A e \in execs \ {row} : ~(e.gen = new.gen /\ e.attempt = new.attempt)
    BY <1>2, <1>4, Zenon
  <2>2. \A e, f \in execs : e.gen = f.gen /\ e.attempt = f.attempt => e = f
    BY Zenon DEF PairsInv
  <2> QED
    BY <1>5, <2>1, <2>2
<1>10. \A v \in Workers : Executing(v)' => Behind(msg[v].gen, attempt[v])'
  BY <1>7, Zenon DEF PairsInv, Behind
<1>11. AttemptsExclusive'
  BY <1>7, Zenon DEF PairsInv, AttemptsExclusive
<1>12. InsertNeverConflicts'
  <2> SUFFICES ASSUME NEW v \in Workers, pc'[v] = "create", NEW e \in execs',
                      e.gen = msg[v].gen, e.attempt = attempt[v]
               PROVE  FALSE
    BY Zenon DEF InsertNeverConflicts
  <2>1. pc[v] = "create"
    OBVIOUS
  <2>2. ~ \E f \in execs : f.gen = msg[v].gen /\ f.attempt = attempt[v]
    BY <2>1, Zenon DEF PairsInv, InsertNeverConflicts
  <2> QED
    BY <1>1, <1>4, <1>5, <2>2, Zenon
<1>13. AuditBeforeCallback'
  <2> SUFFICES ASSUME NEW v \in Workers,
                      pc'[v] \in {"executeJob", "completeDone", "completeFailed"}
               PROVE  [gen |-> msg[v].gen, attempt |-> attempt[v], status |-> "running"]
                        \in execs'
    BY Zenon DEF AuditBeforeCallback
  <2>1. v # w /\ pc[v] = pc'[v] /\ Executing(v) /\ Executing(w)
    BY Zenon DEF Executing
  <2>2. <<msg[v].gen, attempt[v]>> # <<msg[w].gen, attempt[w]>>
    BY <2>1, Zenon DEF PairsInv, AttemptsExclusive
  <2>3. [gen |-> msg[v].gen, attempt |-> attempt[v], status |-> "running"] \in execs
    BY <2>1, Zenon DEF PairsInv, AuditBeforeCallback
  <2> QED
    BY <1>5, <2>2, <2>3, Zenon DEF row
<1> QED
  BY <1>6, <1>8, <1>9, <1>10, <1>11, <1>12, <1>13, Zenon DEF PairsInv

\* Every step of every process keeps the ledger of pairs and the completed rows.
LEMMA PairsStep ==
  TypeOK /\ TypeOK' /\ FenceInv /\ PairsInv /\ [Next]_vars => PairsInv' /\ RowsKept
<1> SUFFICES ASSUME TypeOK, TypeOK', FenceInv, PairsInv, [Next]_vars
             PROVE  PairsInv' /\ RowsKept
  OBVIOUS
<1>1. CASE QuietStep
  <2>1. FenceGrows
    BY FenceStep, Zenon
  <2>2. PairsInv'
    BY <1>1, <2>1, PairsFrame, Zenon DEF QuietStep
  <2> QED
    BY <1>1, <2>2, Zenon DEF QuietStep, RowsKept
<1>2. ASSUME NEW w \in Workers, StartExecution(w) PROVE PairsInv' /\ RowsKept
  BY <1>2, StartKeepsPairs, Zenon DEF StartExecution, RowsKept
<1>3. ASSUME NEW w \in Workers, CreateExecution(w) PROVE PairsInv' /\ RowsKept
  <2>1. RowsKept
    BY <1>3, Zenon DEF CreateExecution, RowsKept
  <2> QED
    BY <1>3, <2>1, CreateKeepsPairs, Zenon
<1>4. ASSUME NEW w \in Workers, ExecuteJob(w) PROVE PairsInv' /\ RowsKept
  <2>1. /\ execs' = execs /\ job' = job /\ msg' = msg /\ attempt' = attempt
        /\ pc[w] = "executeJob" /\ pc'[w] \in {"completeDone", "completeFailed"}
        /\ \A v \in Workers \ {w} : pc'[v] = pc[v]
    BY <1>4, Zenon DEF ExecuteJob, Goto, store, TypeOK
  <2>2. \A v \in Workers : Executing(v)' => Executing(v)
    BY <2>1, Zenon DEF Executing
  <2>3. AttemptsExclusive' /\ InsertNeverConflicts' /\ AuditBeforeCallback'
    BY <2>1, <2>2, Zenon
       DEF PairsInv, AttemptsExclusive, InsertNeverConflicts, AuditBeforeCallback
  <2> QED
    BY <2>1, <2>2, <2>3, Zenon DEF PairsInv, RowsKept, Behind
<1>5. ASSUME NEW w \in Workers, CompleteDone(w) PROVE PairsInv' /\ RowsKept
  <2>1. /\ job' = job /\ msg' = msg /\ attempt' = attempt
        /\ pc'[w] = "markDone" /\ \A v \in Workers \ {w} : pc'[v] = pc[v]
    BY <1>5, Zenon DEF CompleteDone, Goto, TypeOK
  <2> QED
    BY <1>5, <2>1, CompleteKeepsPairs, Zenon DEF CompleteDone
<1>6. ASSUME NEW w \in Workers, CompleteFailed(w) PROVE PairsInv' /\ RowsKept
  <2>1. /\ job' = job /\ msg' = msg /\ attempt' = attempt
        /\ pc'[w] \in {"scheduleJob", "deadLetter"}
        /\ \A v \in Workers \ {w} : pc'[v] = pc[v]
    BY <1>6, Zenon DEF CompleteFailed, Goto, TypeOK
  <2> QED
    BY <1>6, <2>1, CompleteKeepsPairs, Zenon DEF CompleteFailed
<1> QED
  BY <1>1, <1>2, <1>3, <1>4, <1>5, <1>6, OtherStepsQuiet, Zenon DEF Recorded

\* The ledger of pairs holds in every reachable state.
LEMMA PairsHold == Spec => [](TypeOK /\ FenceInv /\ PairsInv)
<1>1. Init => PairsInv
  BY Zenon DEF Init, PairsInv, AttemptsExclusive, InsertNeverConflicts, AuditBeforeCallback,
         Executing
<1>2. TypeOK /\ TypeOK' /\ FenceInv /\ PairsInv /\ [Next]_vars => PairsInv'
  BY PairsStep, Zenon
<1> QED
  BY <1>1, <1>2, FenceHolds, PTL DEF Spec

\* No two workers ever execute the same (queue_generation, attempt_number), for
\* any number of workers, whatever is redelivered, reclaimed or re-driven.
THEOREM AttemptsNeverShared == Spec => []AttemptsExclusive
<1>1. PairsInv => AttemptsExclusive
  BY Zenon DEF PairsInv
<1> QED
  BY <1>1, PairsHold, PTL

\* The INSERT of an execution row never meets the UNIQUE constraint.
THEOREM InsertsNeverConflict == Spec => []InsertNeverConflicts
<1>1. PairsInv => InsertNeverConflicts
  BY Zenon DEF PairsInv
<1> QED
  BY <1>1, PairsHold, PTL

\* A callback is sent, and its outcome recorded, on a row that is still running.
THEOREM CallbacksAudited == Spec => []AuditBeforeCallback
<1>1. PairsInv => AuditBeforeCallback
  BY Zenon DEF PairsInv
<1> QED
  BY <1>1, PairsHold, PTL

\* No step of anybody changes an execution row that has been completed.
THEOREM CompletedRowsStay == Spec => CompletedRowsPermanent
<1>1. TypeOK /\ TypeOK' /\ FenceInv /\ PairsInv /\ [Next]_vars => [RowsKept]_vars
  BY PairsStep, Zenon
<1> QED
  BY <1>1, PairsHold, PTL DEF Spec, CompletedRowsPermanent

-----------------------------------------------------------------------------
(* The record behind done and dead *)

\* A step that writes neither status and sends no worker to write one keeps the record.
LEMMA RecordFrame ==
  ASSUME RecordInv, execs' = execs, dlq' = dlq,
         job'.status = job.status \/ job'.status = "scheduled",
         \A v \in Workers : pc'[v] \in {"markDone", "markDead"} => pc'[v] = pc[v]
  PROVE  RecordInv'
BY Zenon DEF RecordInv

\* done is written only by a worker at markDone, which it reaches with a done row
\* on record; dead only at markDead, which it reaches through DeadLetter.
LEMMA RecordStep ==
  TypeOK /\ PairsInv /\ RowsKept /\ RecordInv /\ [Next]_vars => RecordInv'
<1> SUFFICES ASSUME TypeOK, PairsInv, RowsKept, RecordInv, [Next]_vars
             PROVE  RecordInv'
  BY Zenon
<1> USE DEF TypeOK, JobRecords, RecordInv, RowsKept, store, stream, redis, locals
<1>1. ASSUME NEW w \in Workers, ReadNext(w) PROVE RecordInv'
  BY <1>1, Zenon DEF ReadNext
<1>2. ASSUME NEW w \in Workers, ListStalePending(w) PROVE RecordInv'
  BY <1>2, Zenon DEF ListStalePending
<1>3. ASSUME NEW w \in Workers, Claim(w) PROVE RecordInv'
  BY <1>3, Zenon DEF Claim
<1>4. ASSUME NEW w \in Workers, GetByID(w) PROVE RecordInv'
  BY <1>4 DEF GetByID, Take
<1>5. ASSUME NEW w \in Workers, Quarantine(w) PROVE RecordInv'
  BY <1>5 DEF Quarantine, Take
<1>6. ASSUME NEW w \in Workers, StartExecution(w) PROVE RecordInv'
  BY <1>6, Zenon DEF StartExecution, Started
<1>7. ASSUME NEW w \in Workers, StaleDelivery(w) PROVE RecordInv'
  BY <1>7, Zenon DEF StaleDelivery, Goto
<1>8. ASSUME NEW w \in Workers, CheckCompleted(w) PROVE RecordInv'
  BY <1>8, Zenon DEF CheckCompleted, Goto, Recovery, HasCompletedExecution
<1>9. ASSUME NEW w \in Workers, Reschedule(w) PROVE RecordInv'
  BY <1>9, Zenon DEF Reschedule, Goto, UpdateStatus
<1>10. ASSUME NEW w \in Workers, Reenqueue(w) PROVE RecordInv'
  BY <1>10, Zenon DEF Reenqueue, Goto
<1>11. ASSUME NEW w \in Workers, CreateExecution(w) PROVE RecordInv'
  BY <1>11 DEF CreateExecution, Goto, Release
<1>12. ASSUME NEW w \in Workers, ExecuteJob(w) PROVE RecordInv'
  BY <1>12, Zenon DEF ExecuteJob, Goto
<1>13. ASSUME NEW w \in Workers, CompleteDone(w) PROVE RecordInv'
  <2> DEFINE row == [gen |-> msg[w].gen, attempt |-> attempt[w], status |-> "running"]
  <2>1. row \in execs
    BY <1>13, Zenon DEF CompleteDone, PairsInv, AuditBeforeCallback
  <2>2. [row EXCEPT !.status = "done"] \in execs'
    BY <1>13, <2>1, Zenon DEF CompleteDone, Complete
  <2>3. \E e \in execs' : e.status = "done"
    BY <2>2, Zenon
  <2> QED
    BY <1>13, <2>3, Zenon DEF CompleteDone, Goto
<1>14. ASSUME NEW w \in Workers, CompleteFailed(w) PROVE RecordInv'
  BY <1>14, Zenon DEF CompleteFailed, Goto
<1>15. ASSUME NEW w \in Workers, ScheduleRetryEntry(w) PROVE RecordInv'
  BY <1>15, Zenon DEF ScheduleRetryEntry, Goto
<1>16. ASSUME NEW w \in Workers, ScheduleRetry(w) PROVE RecordInv'
  <2>1. execs' = execs /\ dlq' = dlq
    BY <1>16, Zenon DEF ScheduleRetry
  <2>2. job'.status = job.status \/ job'.status = "scheduled"
    <3>1. job' = job \/ job' = Rescheduled
      BY <1>16, Zenon DEF ScheduleRetry
    <3> QED
      BY <3>1 DEF Rescheduled
  <2>3. \A v \in Workers : pc'[v] \in {"markDone", "markDead"} => pc'[v] = pc[v]
    <3>1. \E c \in {"ack", "removeScheduled"} : pc' = [pc EXCEPT ![w] = c]
      BY <1>16, Zenon DEF ScheduleRetry, Goto
    <3>2. pc \in [Workers -> Calls \cup {"idle"}]
      OBVIOUS
    <3> HIDE DEF TypeOK, RecordInv, RowsKept
    <3> QED
      BY <3>1, <3>2, Zenon
  <2> QED
    BY <2>1, <2>2, <2>3, RecordFrame, Zenon
<1>17. ASSUME NEW w \in Workers, Compensate(w) PROVE RecordInv'
  BY <1>17, Zenon DEF Compensate, Release
<1>18. ASSUME NEW w \in Workers, DeadLetter(w) PROVE RecordInv'
  BY <1>18, Zenon DEF DeadLetter, Goto
<1>19. ASSUME NEW w \in Workers, MarkDead(w) PROVE RecordInv'
  BY <1>19, Zenon DEF MarkDead, Goto, UpdateStatus
<1>20. ASSUME NEW w \in Workers, MarkDone(w) PROVE RecordInv'
  BY <1>20, Zenon DEF MarkDone, Goto, UpdateStatus
<1>21. ASSUME NEW w \in Workers, Ack(w) PROVE RecordInv'
  BY <1>21, Zenon DEF Ack, Release
<1>22. ASSUME NEW w \in Workers, CallFails(w) PROVE RecordInv'
  BY <1>22, Zenon DEF CallFails, Release
<1>23. ASSUME NEW w \in Workers, ScheduleRetryFails(w) PROVE RecordInv'
  <2>1. execs' = execs /\ dlq' = dlq
    BY <1>23, Zenon DEF ScheduleRetryFails
  <2>2. job'.status = job.status \/ job'.status = "scheduled"
    <3>1. job' = job \/ job' = Rescheduled
      BY <1>23, Zenon DEF ScheduleRetryFails
    <3> QED
      BY <3>1 DEF Rescheduled
  <2>3. \A v \in Workers : pc'[v] \in {"markDone", "markDead"} => pc'[v] = pc[v]
    <3>1. \E c \in {"removeScheduled"} : pc' = [pc EXCEPT ![w] = c]
      BY <1>23, Zenon DEF ScheduleRetryFails, Goto
    <3>2. pc \in [Workers -> Calls \cup {"idle"}]
      OBVIOUS
    <3> HIDE DEF TypeOK, RecordInv, RowsKept
    <3> QED
      BY <3>1, <3>2, Zenon
  <2> QED
    BY <2>1, <2>2, <2>3, RecordFrame, Zenon
<1>24. ASSUME NEW w \in Workers, CrashWorker(w) PROVE RecordInv'
  BY <1>24, Zenon DEF CrashWorker, Release
<1>ins. ASSUME NEW h \in Handlers, NEW st \in Submitted, NEW later \in BOOLEAN,
              Insert(h, st, later)
       PROVE  RecordInv'
  BY <1>ins, Zenon DEF Submitted, Insert
<1>25. ASSUME NEW h \in Handlers, CreateJob(h) \/ CreateDueInstance(h) PROVE RecordInv'
  BY <1>25, <1>ins, Zenon DEF CreateJob, CreateDueInstance, Submitted
<1>26. ASSUME NEW h \in Handlers, RetryJob(h) PROVE RecordInv'
  BY <1>26, Zenon DEF RetryJob, Revived
<1>27. ASSUME NEW h \in Handlers, RereadRetried(h) PROVE RecordInv'
  BY <1>27, Zenon DEF RereadRetried
<1>28. ASSUME NEW h \in Handlers, CancelJob(h) PROVE RecordInv'
  BY <1>28, Zenon DEF CancelJob, UpdateStatus
<1>29. ASSUME NEW h \in Handlers, Unschedule(h) PROVE RecordInv'
  BY <1>29, Zenon DEF Unschedule
<1>30. ASSUME NEW p \in Movers, ClaimOutbox(p) PROVE RecordInv'
  BY <1>30, Zenon DEF ClaimOutbox
<1>31. ASSUME NEW p \in Movers, CheckEntry(p) PROVE RecordInv'
  BY <1>31, Zenon DEF CheckEntry
<1>32. ASSUME NEW p \in Movers, Enqueue(p) PROVE RecordInv'
  BY <1>32, Zenon DEF Enqueue
<1>33. ASSUME NEW p \in Movers, DeleteOutbox(p) PROVE RecordInv'
  BY <1>33, Zenon DEF DeleteOutbox
<1>34. ASSUME NEW p \in Movers, AbandonHandoff(p) PROVE RecordInv'
  BY <1>34, Zenon DEF AbandonHandoff
<1>35. ASSUME NEW w \in Workers, PoisonDataLost(w) PROVE RecordInv'
  BY <1>35 DEF PoisonDataLost, DropUnread
<1>36. CASE RunAtPasses
  BY <1>36 DEF RunAtPasses
<1>37. CASE PromoteDue
  BY <1>37, Zenon DEF PromoteDue
<1>38. CASE UNCHANGED vars
  BY <1>38, Zenon DEF vars
<1>39. ASSUME NEW w \in Workers, QuarantineTrimmed(w) PROVE RecordInv'
  BY <1>39 DEF QuarantineTrimmed, DropUnread
<1>40. CASE Trim
  BY <1>40, Zenon DEF Trim
<1>41. CASE GroupLost
  BY <1>41, Zenon DEF GroupLost
<1> QED
  BY <1>1, <1>2, <1>3, <1>4, <1>5, <1>6, <1>7, <1>8, <1>9, <1>10, <1>11,
     <1>12, <1>13, <1>14, <1>15, <1>16, <1>17, <1>18, <1>19, <1>20, <1>21,
     <1>22, <1>23, <1>24, <1>25, <1>26, <1>27, <1>28, <1>29, <1>30, <1>31,
     <1>32, <1>33, <1>34, <1>35, <1>36, <1>37, <1>38, <1>39, <1>40, <1>41, Zenon
  DEF Next, WorkerStep, ProcessStep, Request, HandoffStep, Fault, Movers

\* The whole inductive invariant: fence, pairs and records.
LEMMA LedgerHolds == Spec => [](TypeOK /\ LedgerInv)
<1>1. Init => RecordInv
  BY DEF Init, RecordInv, NoJob
<1>2. TypeOK /\ TypeOK' /\ FenceInv /\ PairsInv /\ RecordInv /\ [Next]_vars => RecordInv'
  BY PairsStep, RecordStep, Zenon
<1>3. FenceInv /\ PairsInv /\ RecordInv => LedgerInv
  BY Zenon DEF LedgerInv
<1> QED
  BY <1>1, <1>2, <1>3, PairsHold, PTL DEF Spec

\* A job is done only with a successful callback on record, whichever of the two
\* writers of done (the run itself, the recovery of a redelivery) wrote it.
THEOREM DoneIsRecorded == Spec => []DoneHasEvidence
<1>1. LedgerInv => DoneHasEvidence
  BY Zenon DEF LedgerInv, RecordInv, DoneHasEvidence
<1> QED
  BY <1>1, LedgerHolds, PTL

\* A dead job has its letter in jobs:dead, whichever of the three writers of dead
\* (last failure, crash loop, quarantine) wrote it.
THEOREM DeadIsLettered == Spec => []DeadHasLetter
<1>1. LedgerInv => DeadHasLetter
  BY Zenon DEF LedgerInv, RecordInv, DeadHasLetter
<1> QED
  BY <1>1, LedgerHolds, PTL

\* The whole inductive invariant holds in every reachable state: every pair handed
\* out lies behind the row, every terminal status has its record, and no queue or
\* process is ahead of the row.
THEOREM LedgerAlways == Spec => []LedgerInv
BY LedgerHolds, PTL

-----------------------------------------------------------------------------
(* The tables implement the ledger of attempts *)

\* INSERT of an execution row is Record.
LEMMA CreateRecords ==
  ASSUME TypeOK, PairsInv, NEW w \in Workers, CreateExecution(w)
  PROVE  AL!Record
<1> DEFINE row == [gen |-> msg[w].gen, attempt |-> attempt[w], status |-> "running"]
<1>1. ~ \E e \in execs : e.gen = msg[w].gen /\ e.attempt = attempt[w]
  BY Zenon DEF CreateExecution, PairsInv, InsertNeverConflicts
<1>2. execs' = execs \cup {row} /\ job' = job /\ pc[w] = "create"
  BY <1>1, Zenon DEF CreateExecution
<1>3. AL!HandedOut(row.gen, row.attempt)
  BY <1>2, Zenon DEF PairsInv, Executing, Behind, AL!HandedOut
<1>4. \A e \in execs : <<e.gen, e.attempt>> # <<row.gen, row.attempt>>
  BY <1>1, Zenon
<1>5. row \in execs' /\ row.status = "running"
  BY <1>2, Zenon
<1> HIDE DEF row
<1> QED
  BY <1>2, <1>3, <1>4, <1>5, Zenon DEF AL!Record

\* UPDATE of the worker's own row is Conclude.
LEMMA CompleteConcludes ==
  ASSUME TypeOK, PairsInv, NEW w \in Workers, NEW s \in {"done", "failed"},
         pc[w] \in {"completeDone", "completeFailed"},
         Complete(msg[w].gen, attempt[w], s), job' = job
  PROVE  AL!Conclude
<1> DEFINE row == [gen |-> msg[w].gen, attempt |-> attempt[w], status |-> "running"]
<1>1. row \in execs
  BY Zenon DEF PairsInv, AuditBeforeCallback
<1>2. \A e \in execs : e.gen = msg[w].gen /\ e.attempt = attempt[w] => e = row
  BY <1>1, Zenon DEF PairsInv
<1>3. row.gen = msg[w].gen /\ row.attempt = attempt[w] /\ row.status = "running"
  OBVIOUS
<1> HIDE DEF row
<1>4. execs' = (execs \ {row}) \cup {[row EXCEPT !.status = s]}
  BY <1>1, <1>2, <1>3, Zenon DEF Complete
<1> QED
  BY <1>1, <1>3, <1>4, Zenon DEF AL!Conclude

\* Every step of Dispatch is a step of the ledger, or leaves it alone.
LEMMA LedgerStep ==
  TypeOK /\ FenceInv /\ PairsInv /\ [Next]_vars => [AL!Next]_(AL!vars)
<1> SUFFICES ASSUME TypeOK, FenceInv, PairsInv, [Next]_vars
             PROVE  AL!Next \/ UNCHANGED AL!vars
  OBVIOUS
<1> USE DEF AL!Next, AL!vars
<1>1. ASSUME NEW w \in Workers, StartExecution(w) PROVE AL!Next
  BY <1>1, Zenon DEF StartExecution, Started, AL!HandOut
<1>2. CASE QuietStep
  <2>1. CASE job'.gen = job.gen /\ job'.attempts = job.attempts
    BY <1>2, <2>1, Zenon DEF QuietStep
  <2>2. CASE job'.gen = job.gen + 1 /\ job'.attempts \in {job.attempts, 0}
    BY <1>2, <2>2, Zenon DEF QuietStep, AL!Open
  <2> QED
    BY <1>1, <2>1, <2>2, JobWrites, FenceMoves, Zenon
<1>3. ASSUME NEW w \in Workers, CreateExecution(w) PROVE AL!Next
  BY <1>3, CreateRecords, Zenon
<1>4. ASSUME NEW w \in Workers, ExecuteJob(w) PROVE UNCHANGED AL!vars
  BY <1>4, Zenon DEF ExecuteJob, store
<1>5. ASSUME NEW w \in Workers, CompleteDone(w) \/ CompleteFailed(w) PROVE AL!Next
  BY <1>5, CompleteConcludes, Zenon DEF CompleteDone, CompleteFailed
<1> QED
  BY <1>1, <1>2, <1>3, <1>4, <1>5, OtherStepsQuiet, Zenon DEF Recorded

\* The jobs row and its execution rows implement the ledger of attempts, under every
\* interleaving, race and fault, and for any number of processes.
THEOREM LedgerImplemented == Spec => ImplementsLedger
<1>1. Init => AL!Init
  BY DEF Init, NoJob, AL!Init
<1>2. TypeOK /\ FenceInv /\ PairsInv /\ [Next]_vars => [AL!Next]_(AL!vars)
  BY LedgerStep, Zenon
<1> QED
  BY <1>1, <1>2, PairsHold, PTL DEF Spec, ImplementsLedger, AL!Spec

=============================================================================
