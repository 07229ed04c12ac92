---------------------------- MODULE TimelyProofs ----------------------------
(***************************************************************************)
(* What holds of Dispatch when nothing races, for every number of workers, *)
(* requests and schedulers: OwnershipInv is inductive, so the job is carried  *)
(* by exactly one thing, at most one worker owns it, and the row takes     *)
(* only the edges of JobLifecycle.                                         *)
(***************************************************************************)
EXTENDS DispatchProofs

Open == {"pending", "scheduled", "running"}

\* What the lemma about an action assumes and shows: a step between well-typed states
\* that starts where the invariant holds ends where it holds.
Stepping == TypeOK /\ TypeOK' /\ OwnershipInv
Preserved == OwnershipInv'

-----------------------------------------------------------------------------
(* What a worker has in hand *)

\* The message a worker is handling is an entry of the stream it holds.
LEMMA InHand ==
  ASSUME TypeOK, StreamInv, HoldInv, NEW w \in Workers, ~Free(w)
  PROVE  /\ msg[w].kind = "process" /\ msg[w] \in Holding(w)
         /\ msg[w].gen <= job.gen
         /\ \E m \in Pending : m.id = msg[w].id /\ m.gen = msg[w].gen
<1>1. msg[w].kind = "process"
  BY Zenon DEF HoldInv
<1>2. msg[w] \in Holding(w)
  BY <1>1, Zenon DEF Holding
<1>3. PICK m \in Pending : m.id = msg[w].id /\ m.gen = msg[w].gen
  BY <1>2, Zenon DEF HoldInv
<1>4. msg[w].gen <= job.gen
  BY <1>3, Zenon DEF StreamInv, Pending
<1> QED
  BY <1>1, <1>2, <1>3, <1>4, Zenon

\* What a worker has in hand besides its message is other entries.
LEMMA OthersInHand ==
  ASSUME TypeOK, StreamInv, HoldInv, NEW w \in Workers, ~Free(w),
         NEW e \in todo[w], e.kind = "process"
  PROVE  e.id # msg[w].id
<1>1. PICK m \in Pending : m.id = msg[w].id /\ m.gen = msg[w].gen
  BY InHand, Zenon
<1>2. e \in Holding(w)
  BY Zenon DEF Holding
<1>3. PICK n \in Pending : n.id = e.id /\ n.gen = e.gen
  BY <1>2, Zenon DEF HoldInv
<1>4. CASE e.id = msg[w].id
  <2>1. m = n
    BY <1>1, <1>3, <1>4 DEF StreamInv, Pending
  <2>2. msg[w].kind = "process" /\ e.gen = msg[w].gen
    BY <1>1, <1>3, <2>1, InHand, Zenon
  <2>3. e \in Entries /\ msg[w] \in Entries
    BY Zenon DEF TypeOK
  <2>4. e = msg[w]
    BY <1>4, <2>2, <2>3 DEF Entries
  <2> QED
    BY <2>4, Zenon DEF HoldInv
<1> QED
  BY <1>4, Zenon

\* A message of the row's generation is a carrier of the job, unless the worker has
\* re-driven it.
LEMMA CarrierInHand ==
  ASSUME TypeOK, StreamInv, HoldInv, NEW w \in Workers, ~Free(w),
         pc[w] # "ackRedriven", msg[w].gen = job.gen
  PROVE  \E m \in Carriers : m.id = msg[w].id
<1>1. PICK m \in Pending : m.id = msg[w].id /\ m.gen = msg[w].gen
  BY InHand, Zenon
<1>2. ASSUME NEW v \in Workers, pc[v] = "ackRedriven", msg[v].id = m.id
      PROVE  FALSE
  <2>1. v # w /\ ~Free(v)
    BY <1>2, Zenon DEF Free
  <2>2. msg[v] \in Holding(v) /\ msg[w] \in Holding(w)
    BY <2>1, InHand, Zenon
  <2> QED
    BY <1>1, <1>2, <2>1, <2>2 DEF HoldInv
<1>3. m \in Carriers
  BY <1>1, <1>2, Zenon DEF Carriers, Superseded, Pending
<1> QED
  BY <1>1, <1>3, Zenon

\* A job that is to run or runs is in one worker's hand: two messages that carry it
\* are held by the same worker.
LEMMA OneHand ==
  ASSUME TypeOK, StreamInv, HoldInv, CarrierInv, job.status \in Open,
         NEW v \in Workers, ~Free(v), pc[v] # "ackRedriven", msg[v].gen = job.gen,
         NEW w \in Workers, ~Free(w), pc[w] # "ackRedriven", msg[w].gen = job.gen
  PROVE  v = w
<1>1. PICK m \in Carriers : m.id = msg[v].id
  BY CarrierInHand, Zenon
<1>2. PICK n \in Carriers : n.id = msg[w].id
  BY CarrierInHand, Zenon
<1>3. m = n
  BY Zenon DEF CarrierInv, Open, Startable
<1>4. msg[v] \in Holding(v) /\ msg[w] \in Holding(w)
  BY InHand, Zenon
<1> QED
  BY <1>1, <1>2, <1>3, <1>4 DEF HoldInv

\* The worker that owns the running job is alone with it: nobody else is past
\* StartExecution with a delivery of its generation, and nothing else carries it.
LEMMA OwnerAlone ==
  ASSUME TypeOK, OwnershipInv, NEW w \in Workers, pc[w] \in Owning
  PROVE  /\ job.status = "running" /\ msg[w].gen = job.gen
         /\ Carriers # {} /\ scheduled # job.gen /\ ~OutboxCarries
         /\ \A v \in Workers \ {w} :
              /\ pc[v] \notin Owning \cup {"reenqueue"}
              /\ pc[v] = "ack" => msg[v].gen < job.gen
<1>1. /\ StreamInv /\ HoldInv /\ CarrierInv /\ OwnerInv(w)
      /\ \A v \in Workers : OwnerInv(v)
  BY Zenon DEF OwnershipInv
<1>2. job.status = "running" /\ msg[w].gen = job.gen
  BY <1>1, Zenon DEF OwnerInv
<1>3. ~Free(w) /\ pc[w] # "ackRedriven"
  BY Zenon DEF Owning, Free
<1>4. Carriers # {}
  BY <1>1, <1>2, <1>3, CarrierInHand, Zenon
<1>5. scheduled # job.gen /\ ~OutboxCarries
  BY <1>1, <1>2, <1>4, Zenon DEF CarrierInv
<1>6. ASSUME NEW v \in Workers \ {w} PROVE pc[v] \notin Owning \cup {"reenqueue"}
  <2>1. ASSUME pc[v] \in Owning \cup {"reenqueue"} PROVE FALSE
    <3>1. msg[v].gen = job.gen
      BY <1>1, <2>1, Zenon DEF OwnerInv
    <3>2. ~Free(v) /\ pc[v] # "ackRedriven"
      BY <2>1, Zenon DEF Owning, Free
    <3> QED
      BY <1>1, <1>2, <1>3, <3>1, <3>2, OneHand, Zenon DEF Open
  <2> QED
    BY <2>1, Zenon
<1>7. ASSUME NEW v \in Workers \ {w}, pc[v] = "ack" PROVE msg[v].gen < job.gen
  BY <1>1, <1>2, <1>7, Zenon DEF OwnerInv, Terminal
<1> QED
  BY <1>2, <1>4, <1>5, <1>6, <1>7, Zenon

\* A handoff that has not reached Redis leaves the job to the outbox row.
LEMMA OutboxStillCarries ==
  ASSUME HandoffInv, NEW p \in Movers, hand[p].pc \in {"reread", "enqueue", "checkEntry"}
  PROVE  OutboxCarries
<1>1. outbox > 0
  BY Zenon DEF HandoffInv
<1>2. ASSUME NEW q \in Movers, hand[q].pc = "deleteOutbox" PROVE FALSE
  <2>1. {hand[p].pc, hand[q].pc} \subseteq HandoffCalls \ {"unschedule"}
    BY <1>2, Zenon DEF HandoffCalls
  <2>2. p = q
    BY <2>1, Zenon DEF HandoffInv
  <2> QED
    BY <1>2, <2>2, Zenon
<1> QED
  BY <1>1, <1>2, Zenon DEF OutboxCarries

-----------------------------------------------------------------------------
(* What a step that leaves part of the state alone keeps *)

\* Nobody takes up or lays down an entry, and the stream stays as it is.
LEMMA HandsFrame ==
  ASSUME TypeOK, TypeOK', StreamInv, HoldInv, job'.gen >= job.gen,
         UNCHANGED <<ready, acked, nextId, todo, msg>>,
         faults' = faults \/ faults' = faults + 1,
         \A v \in Workers : Free(v)' <=> Free(v)
  PROVE  StreamInv' /\ HoldInv'
<1> /\ job \in JobRecords /\ job' \in JobRecords
    /\ ready \subseteq StreamEntries /\ acked \subseteq StreamEntries /\ faults \in Nat
  BY BoundsAreNaturals DEF TypeOK
<1>1. \A v \in Workers : Holding(v)' = Holding(v)
  BY Zenon DEF Holding
<1>2. \A id : Held(id)' <=> Held(id)
  BY Zenon DEF Held
<1>3. StreamInv'
  <2>1. \A m \in ready \cup acked : m.id < nextId /\ m.gen <= job'.gen
    BY DEF StreamInv, JobRecords, StreamEntries
  <2>2. ASSUME NEW m \in ready
        PROVE  m.count <= faults' \/ (Held(m.id)' /\ m.count = faults' + 1)
    <3>1. m.count \in Nat
      BY Zenon DEF StreamEntries
    <3>2. m.count <= faults \/ (Held(m.id)' /\ m.count = faults + 1)
      BY <1>2, Zenon DEF StreamInv
    <3> QED
      BY <3>1, <3>2
  <2> QED
    BY <2>1, <2>2, Zenon DEF StreamInv
<1>4. HoldInv'
  BY <1>1 DEF HoldInv, Pending
<1> QED
  BY <1>3, <1>4, Zenon

\* The carriers in the stream stay the same.
LEMMA CarriersFrame ==
  ASSUME UNCHANGED <<ready, msg>>, job'.gen = job.gen,
         \A v \in Workers : pc'[v] = "ackRedriven" <=> pc[v] = "ackRedriven"
  PROVE  Carriers' = Carriers
BY Zenon DEF Carriers, Superseded

\* So does the outbox row.
LEMMA OutboxFrame ==
  ASSUME UNCHANGED outbox,
         \A p \in Movers : hand'[p].pc = "deleteOutbox" <=> hand[p].pc = "deleteOutbox"
  PROVE  OutboxCarries' <=> OutboxCarries
BY Zenon DEF OutboxCarries

\* What a worker decides on stays as it is while it and the row do.
LEMMA OwnerFrame ==
  ASSUME NEW v \in Workers, OwnerInv(v), UNCHANGED <<job, scheduled>>,
         pc'[v] = pc[v], msg'[v] = msg[v], snap'[v] = snap[v], attempt'[v] = attempt[v]
  PROVE  OwnerInv(v)'
BY Zenon DEF OwnerInv

\* A worker that has yet to start, or has only to acknowledge, decides on nothing.
LEMMA OwnerIdle ==
  ASSUME NEW v \in Workers, pc'[v] \in {"idle", "startExecution", "ackRedriven"}
  PROVE  OwnerInv(v)'
BY Zenon DEF OwnerInv, Owning, Attempting

\* Handoffs whose calls were calls before the step stay one at a time.
LEMMA OneHandoff ==
  ASSUME HandoffInv,
         \A q \in Movers : hand'[q].pc \in HandoffCalls \ {"unschedule"}
                             => hand[q].pc \in HandoffCalls \ {"unschedule"}
  PROVE  \A q, r \in Movers :
           {hand'[q].pc, hand'[r].pc} \subseteq HandoffCalls \ {"unschedule"} => q = r
<1> SUFFICES ASSUME NEW q \in Movers, NEW r \in Movers,
                    {hand'[q].pc, hand'[r].pc} \subseteq HandoffCalls \ {"unschedule"}
             PROVE  q = r
  OBVIOUS
<1>1. {hand[q].pc, hand[r].pc} \subseteq HandoffCalls \ {"unschedule"}
  BY Zenon
<1> QED
  BY <1>1, Zenon DEF HandoffInv

\* A step of worker w alone, between two calls with the same message in hand
Private(w) ==
  /\ UNCHANGED <<job, outbox, scheduled, ready, acked, nextId, msg, todo, hand, faults>>
  /\ \A v \in Workers \ {w} :
       pc'[v] = pc[v] /\ snap'[v] = snap[v] /\ attempt'[v] = attempt[v]
  /\ pc[w] \notin {"idle", "ackRedriven", "scheduleRetry"}
  /\ pc'[w] \notin {"idle", "ackRedriven"}

\* It keeps what it does not touch.
LEMMA PrivateKeeps ==
  ASSUME Stepping, NEW w \in Workers, Private(w), OwnerInv(w)'
  PROVE  Preserved
<1> SUFFICES ASSUME TypeOK, TypeOK', OwnershipInv PROVE OwnershipInv'
  BY Zenon DEF Stepping, Preserved
<1>0. /\ StreamInv /\ HoldInv /\ HandoffInv /\ CarrierInv
      /\ \A v \in Workers : OwnerInv(v)
  BY Zenon DEF OwnershipInv
<1>1. StreamInv' /\ HoldInv'
  <2>1. \A v \in Workers : Free(v)' <=> Free(v)
    BY Zenon DEF Private, Free
  <2>2. job'.gen >= job.gen
    BY DEF Private, TypeOK, JobRecords
  <2> QED
    BY <1>0, <2>1, <2>2, HandsFrame, Zenon DEF Private
<1>2. ASSUME NEW v \in Workers PROVE OwnerInv(v)'
  <2>1. CASE v = w
    BY <2>1, Zenon
  <2>2. CASE v # w
    <3>1. OwnerInv(v)
      BY <1>0, Zenon
    <3> QED
      BY <2>2, <3>1 DEF Private, OwnerInv
  <2> QED
    BY <2>1, <2>2, Zenon
<1>3. OutboxCarries' <=> OutboxCarries
  BY OutboxFrame, Zenon DEF Private
<1>4. HandoffInv'
  BY <1>0, <1>3, Zenon DEF Private, HandoffInv
<1>5. Carriers' = Carriers
  BY CarriersFrame, Zenon DEF Private
<1>6. job.status # "absent"
  BY <1>0, Zenon DEF CarrierInv, Private, Free
<1>7. (\E v \in Workers : pc[v] = "scheduleRetry")
        => \E v \in Workers : pc'[v] = "scheduleRetry"
  BY Zenon DEF Private
<1>8. CarrierInv'
  BY <1>0, <1>3, <1>5, <1>6, <1>7, Zenon DEF Private, CarrierInv
<1> QED
  BY <1>1, <1>2, <1>4, <1>8, Zenon DEF OwnershipInv

-----------------------------------------------------------------------------
(* Process, up to the writes of the row *)

\* A delivery StartExecution refuses is looked into by the worker if the job runs
\* under its generation, and else is of an earlier generation or of a finished job.
LEMMA StaleDeliveryKeeps ==
  ASSUME Stepping, NEW w \in Workers, ReadInv(w), StaleDelivery(w)
  PROVE  Preserved
<1> SUFFICES ASSUME TypeOK, TypeOK', OwnershipInv PROVE OwnershipInv'
  BY Zenon DEF Stepping, Preserved
<1>0. StreamInv /\ HoldInv /\ CarrierInv /\ OwnerInv(w)
  BY Zenon DEF OwnershipInv
<1>1. Private(w)
  BY Zenon DEF StaleDelivery, Goto, Private, TypeOK, store, redis, stream
<1>2. ~Free(w)
  BY Zenon DEF StaleDelivery, Free
<1>3. job.status # "absent" /\ msg[w].gen <= job.gen
  BY <1>0, <1>2, InHand, Zenon DEF CarrierInv
<1>4. NeedsRecovery(snap[w], msg[w].gen) \/ NeedsRecovery(job, msg[w].gen) => snap[w] = job
  BY Zenon DEF StaleDelivery, ReadInv
<1>5. msg[w].gen \in Nat /\ job \in JobRecords
  BY Zenon DEF TypeOK, Entries
<1>6. snap' = snap /\ UNCHANGED <<job, msg, scheduled>>
  BY Zenon DEF StaleDelivery, Goto, store, redis
<1>7. CASE NeedsRecovery(snap[w], msg[w].gen)
  <2>1. pc'[w] = "hasCompleted" /\ snap[w] = job
    BY <1>4, <1>7, Zenon DEF StaleDelivery, Goto, TypeOK
  <2>2. OwnerInv(w)'
    BY <1>6, <1>7, <2>1, Zenon DEF OwnerInv, NeedsRecovery, Owning, Attempting
  <2> QED
    BY <1>1, <2>2, PrivateKeeps, Zenon DEF Preserved
<1>8. CASE ~NeedsRecovery(snap[w], msg[w].gen)
  <2>0. ~NeedsRecovery(job, msg[w].gen)
    BY <1>4, <1>8, Zenon
  <2>1. pc'[w] = "ack"
    BY <1>8, Zenon DEF StaleDelivery, Goto, TypeOK
  <2>2. msg[w].gen < job.gen \/ job.status \in Terminal
    BY <1>3, <1>5, <2>0
       DEF StaleDelivery, CanStart, NeedsRecovery, Startable, Terminal, JobRecords, Statuses
  <2>3. OwnerInv(w)'
    BY <1>6, <2>1, <2>2, Zenon DEF OwnerInv, Owning, Attempting
  <2> QED
    BY <1>1, <2>3, PrivateKeeps, Zenon DEF Preserved
<1> QED
  BY <1>7, <1>8, Zenon

\* The recovery of a running job decides on the row as it is.
LEMMA CheckCompletedKeeps ==
  ASSUME Stepping, NEW w \in Workers, CheckCompleted(w)
  PROVE  Preserved
<1> SUFFICES ASSUME TypeOK, TypeOK', OwnershipInv PROVE OwnershipInv'
  BY Zenon DEF Stepping, Preserved
<1>0. OwnerInv(w)
  BY Zenon DEF OwnershipInv
<1>1. /\ pc'[w] = Recovery(w) /\ pc[w] = "hasCompleted"
      /\ UNCHANGED <<job, msg, snap, attempt, scheduled>>
  BY Zenon DEF CheckCompleted, Goto, TypeOK, store, redis
<1>2. Recovery(w) \in {"markDone", "deadLetter", "reschedule"}
  BY Zenon DEF Recovery
<1>3. Private(w)
  BY <1>1, <1>2, Zenon DEF CheckCompleted, Goto, Private, TypeOK, store, redis, stream
<1>4. Recovery(w) = "reschedule" => ~(snap[w].attempts >= MaxAttempts)
  BY Zenon DEF Recovery
<1>5. snap[w].attempts \in Nat /\ MaxAttempts \in Nat
  BY BoundsAreNaturals, Zenon DEF TypeOK, JobRecords
<1>6. OwnerInv(w)'
  BY <1>0, <1>1, <1>2, <1>4, <1>5 DEF OwnerInv, Owning, Attempting
<1> QED
  BY <1>3, <1>6, PrivateKeeps, Zenon DEF Preserved

\* The INSERT succeeds, as InsertNeverConflicts says.
LEMMA CreateExecutionKeeps ==
  ASSUME Stepping, PairsInv, NEW w \in Workers, CreateExecution(w)
  PROVE  Preserved
<1> SUFFICES ASSUME TypeOK, TypeOK', OwnershipInv PROVE OwnershipInv'
  BY Zenon DEF Stepping, Preserved
<1>0. OwnerInv(w)
  BY Zenon DEF OwnershipInv
<1>1. Goto(w, "executeJob") /\ pc[w] = "create"
  BY Zenon DEF CreateExecution, PairsInv, InsertNeverConflicts
<1>2. /\ pc'[w] = "executeJob"
      /\ UNCHANGED <<job, msg, snap, attempt, scheduled>>
  BY <1>1, Zenon DEF CreateExecution, Goto, TypeOK, redis
<1>3. Private(w)
  BY <1>1, Zenon DEF CreateExecution, Goto, Private, TypeOK, redis, stream
<1>4. OwnerInv(w)'
  BY <1>0, <1>1, <1>2, Zenon DEF OwnerInv, Owning, Attempting
<1> QED
  BY <1>3, <1>4, PrivateKeeps, Zenon DEF Preserved

\* The callback and the writes of its outcome move the worker on.
LEMMA AttemptKeeps ==
  ASSUME Stepping, NEW w \in Workers,
         ExecuteJob(w) \/ CompleteDone(w) \/ CompleteFailed(w)
  PROVE  Preserved
<1> SUFFICES ASSUME TypeOK, TypeOK', OwnershipInv PROVE OwnershipInv'
  BY Zenon DEF Stepping, Preserved
<1>0. OwnerInv(w)
  BY Zenon DEF OwnershipInv
<1>1. PICK next \in {"completeDone", "completeFailed", "markDone", "scheduleJob",
                     "deadLetter"} :
        Goto(w, next) /\ (next = "scheduleJob" => attempt[w] < MaxAttempts)
  BY Zenon DEF ExecuteJob, CompleteDone, CompleteFailed
<1>2. /\ pc[w] \in {"executeJob", "completeDone", "completeFailed"}
      /\ UNCHANGED <<job, outbox, hand, faults, scheduled, ready, acked, nextId>>
  BY Zenon DEF ExecuteJob, CompleteDone, CompleteFailed, store, redis, stream
<1>3. pc'[w] = next /\ UNCHANGED <<msg, snap, attempt>>
  BY <1>1, Zenon DEF Goto, TypeOK
<1>4. Private(w)
  BY <1>1, <1>2, Zenon DEF Goto, Private, TypeOK
<1>5. OwnerInv(w)'
  BY <1>0, <1>1, <1>2, <1>3, Zenon DEF OwnerInv, Owning, Attempting
<1> QED
  BY <1>4, <1>5, PrivateKeeps, Zenon DEF Preserved

\* So does the dead letter.
LEMMA DeadLetterKeeps ==
  ASSUME Stepping, NEW w \in Workers, DeadLetter(w)
  PROVE  Preserved
<1> SUFFICES ASSUME TypeOK, TypeOK', OwnershipInv PROVE OwnershipInv'
  BY Zenon DEF Stepping, Preserved
<1>0. OwnerInv(w)
  BY Zenon DEF OwnershipInv
<1>1. /\ pc[w] = "deadLetter" /\ pc'[w] = "markDead"
      /\ UNCHANGED <<job, msg, snap, attempt, scheduled>>
  BY Zenon DEF DeadLetter, Goto, TypeOK, store
<1>2. Private(w)
  BY <1>1, Zenon DEF DeadLetter, Goto, Private, TypeOK, store, stream
<1>3. OwnerInv(w)'
  BY <1>0, <1>1, Zenon DEF OwnerInv, Owning, Attempting
<1> QED
  BY <1>2, <1>3, PrivateKeeps, Zenon DEF Preserved

-----------------------------------------------------------------------------
(* Process: the writes of the row *)

\* A call of worker w that writes the row or the delayed entry, with the same message
\* in hand
Writing(w) ==
  /\ UNCHANGED <<outbox, ready, acked, nextId, msg, todo, hand, faults>>
  /\ \A v \in Workers \ {w} :
       pc'[v] = pc[v] /\ snap'[v] = snap[v] /\ attempt'[v] = attempt[v]
  /\ pc[w] \notin {"idle", "ackRedriven"}
  /\ pc'[w] \notin {"idle", "ackRedriven"}

\* The stream, the hands of the workers and the outbox row stay as they are.
LEMMA WritingFrame ==
  ASSUME Stepping, NEW w \in Workers, Writing(w), job'.gen >= job.gen
  PROVE  /\ StreamInv' /\ HoldInv'
         /\ OutboxCarries' <=> OutboxCarries
         /\ job'.gen = job.gen => Carriers' = Carriers
<1> TypeOK /\ TypeOK' /\ OwnershipInv
  BY Zenon DEF Stepping
<1>1. StreamInv /\ HoldInv
  BY Zenon DEF OwnershipInv
<1>2. \A v \in Workers : Free(v)' <=> Free(v)
  BY Zenon DEF Writing, Free
<1>4. StreamInv' /\ HoldInv'
  BY <1>1, <1>2, HandsFrame, Zenon DEF Writing
<1>5. OutboxCarries' <=> OutboxCarries
  BY OutboxFrame, Zenon DEF Writing
<1>6. job'.gen = job.gen => Carriers' = Carriers
  BY CarriersFrame, Zenon DEF Writing
<1> QED
  BY <1>4, <1>5, <1>6, Zenon

\* While the job runs no handoff is under way but the deletion of an outbox row.
LEMMA RunningUnhanded ==
  ASSUME OwnershipInv, job.status = "running", NEW p \in Movers
  PROVE  hand[p].pc \notin {"reread", "enqueue", "checkEntry", "unschedule"}
<1>1. HandoffInv /\ CarrierInv
  BY Zenon DEF OwnershipInv
<1>2. ~OutboxCarries
  BY <1>1, Zenon DEF CarrierInv
<1> QED
  BY <1>1, <1>2, OutboxStillCarries, Zenon DEF HandoffInv

\* StartExecution takes the job that the message alone carries.
LEMMA StartExecutionKeeps ==
  ASSUME Stepping, FenceInv, NEW w \in Workers, ReadInv(w), StartExecution(w)
  PROVE  Preserved
<1> SUFFICES ASSUME TypeOK, TypeOK', OwnershipInv PROVE OwnershipInv'
  BY Zenon DEF Stepping, Preserved
<1>0. /\ StreamInv /\ HoldInv /\ HandoffInv /\ CarrierInv
      /\ \A v \in Workers : OwnerInv(v)
  BY Zenon DEF OwnershipInv
<1> job \in JobRecords /\ MaxAttempts \in Nat
  BY BoundsAreNaturals, Zenon DEF TypeOK
<1>1. /\ pc[w] = "startExecution" /\ pc'[w] = "create"
      /\ job.status \in Startable /\ msg[w].gen = job.gen
      /\ job' = Started /\ attempt'[w] = job.attempts + 1
      /\ UNCHANGED <<scheduled, msg, snap, outbox, hand>>
  BY Zenon DEF StartExecution, CanStart, StartedAttempt, TypeOK, redis
<1>12. snap[w].gen = job.gen
  <2>1. snap[w] \in JobRecords /\ msg[w].gen <= snap[w].gen /\ snap[w].gen <= job.gen
    BY <1>1, Zenon DEF TypeOK, ReadInv, FenceInv
  <2> QED
    BY <1>1, <2>1 DEF JobRecords
<1>2. /\ job'.status = "running" /\ job'.gen = job.gen
      /\ job'.attempts = job.attempts + 1
  BY <1>1, Zenon DEF Started
<1>3. Writing(w)
  BY <1>1, Zenon DEF StartExecution, Writing, TypeOK, redis, stream
<1>4. /\ StreamInv' /\ HoldInv' /\ Carriers' = Carriers
      /\ OutboxCarries' <=> OutboxCarries
  BY <1>2, <1>3, WritingFrame DEF JobRecords
<1>5. ~Free(w)
  BY <1>1, Zenon DEF Free
<1>6. Carriers # {}
  BY <1>0, <1>1, <1>5, CarrierInHand, Zenon
<1>7. scheduled # job.gen /\ ~OutboxCarries /\ job.attempts < MaxAttempts
  BY <1>0, <1>1, <1>6, Zenon DEF CarrierInv
<1>8. ASSUME NEW v \in Workers PROVE OwnerInv(v)'
  <2>1. CASE v = w
    BY <1>1, <1>2, <1>12, <2>1, Zenon DEF OwnerInv, Owning, Attempting
  <2>2. CASE v # w
    <3>1. pc[v] \notin Owning
      BY <1>0, <1>1, Zenon DEF OwnerInv, Startable
    <3>2. pc[v] # "reenqueue"
      <4>1. ASSUME pc[v] = "reenqueue" PROVE FALSE
        <5>1. msg[v].gen = job.gen /\ ~Free(v)
          BY <1>0, <4>1, Zenon DEF OwnerInv, Free
        <5>2. v = w
          BY <1>0, <1>1, <1>5, <4>1, <5>1, OneHand, Zenon DEF Open, Startable
        <5> QED
          BY <2>2, <5>2, Zenon
      <4> QED
        BY <4>1, Zenon
    <3>3. pc[v] = "ack" => msg[v].gen < job.gen
      BY <1>0, <1>1, Zenon DEF OwnerInv, Startable, Terminal
    <3>4. pc'[v] = pc[v] /\ pc[v] # "removeScheduled"
      BY <1>0, <1>3, <2>2, Zenon DEF Writing, OwnerInv
    <3> QED
      BY <1>1, <1>2, <3>1, <3>2, <3>3, <3>4, Zenon DEF OwnerInv, Owning, Attempting
  <2> QED
    BY <2>1, <2>2, Zenon
<1>9. HandoffInv'
  BY <1>0, <1>1, <1>2, <1>4, <1>7, Zenon DEF HandoffInv, Startable
<1>10. CarrierInv'
  <2>1. scheduled <= job.gen
    BY <1>0, <1>1, Zenon DEF CarrierInv, OwnerInv, Owning, Startable
  <2> QED
    BY <1>0, <1>1, <1>2, <1>4, <1>6, <1>7, <2>1 DEF CarrierInv, JobRecords, Startable
<1> QED
  BY <1>4, <1>8, <1>9, <1>10, Zenon DEF OwnershipInv

\* A re-drive gives the job back, and the worker still has the entry that carries it.
LEMMA RescheduleKeeps ==
  ASSUME Stepping, NEW w \in Workers, Reschedule(w)
  PROVE  Preserved
<1> SUFFICES ASSUME TypeOK, TypeOK', OwnershipInv PROVE OwnershipInv'
  BY Zenon DEF Stepping, Preserved
<1>0. /\ StreamInv /\ HoldInv /\ HandoffInv /\ CarrierInv
      /\ \A v \in Workers : OwnerInv(v)
  BY Zenon DEF OwnershipInv
<1> job \in JobRecords
  BY Zenon DEF TypeOK
<1>1. /\ pc[w] = "reschedule" /\ pc'[w] = "reenqueue"
      /\ job' = [job EXCEPT !.status = "scheduled"]
      /\ UNCHANGED <<scheduled, msg, outbox, hand, snap, attempt>>
  BY Zenon DEF Reschedule, UpdateStatus, Goto, TypeOK, redis
<1>2. job'.status = "scheduled" /\ job'.gen = job.gen /\ job'.attempts = job.attempts
  BY <1>1, Zenon DEF JobRecords
<1>3. Writing(w)
  BY <1>1, Zenon DEF Reschedule, Goto, Writing, TypeOK, redis, stream
<1>4. /\ StreamInv' /\ HoldInv' /\ Carriers' = Carriers
      /\ OutboxCarries' <=> OutboxCarries
  BY <1>2, <1>3, WritingFrame DEF JobRecords
<1>5. pc[w] \in Owning
  BY <1>1, Zenon DEF Owning
<1>6. /\ job.status = "running"
      /\ msg[w].gen = job.gen /\ snap[w].gen = job.gen /\ job.attempts < MaxAttempts
  BY <1>0, <1>1, <1>5, Zenon DEF OwnerInv
<1>7. ASSUME NEW v \in Workers PROVE OwnerInv(v)'
  <2>1. CASE v = w
    BY <1>1, <1>2, <1>6, <2>1, Zenon DEF OwnerInv, Owning, Attempting
  <2>2. CASE v # w
    <3>1. pc[v] \notin Owning \cup {"reenqueue"} /\ (pc[v] = "ack" => msg[v].gen < job.gen)
      BY <1>5, <2>2, OwnerAlone, Zenon
    <3>2. pc'[v] = pc[v] /\ pc[v] # "removeScheduled"
      BY <1>0, <1>3, <2>2, Zenon DEF Writing, OwnerInv
    <3> QED
      BY <1>1, <1>2, <3>1, <3>2, Zenon DEF OwnerInv, Owning, Attempting
  <2> QED
    BY <2>1, <2>2, Zenon
<1>8. Carriers # {} /\ scheduled # job.gen /\ ~OutboxCarries
  BY <1>5, OwnerAlone, Zenon
<1>9. HandoffInv'
  BY <1>0, <1>1, <1>2, <1>4, <1>6, <1>8, RunningUnhanded, Zenon DEF HandoffInv
<1>10. CarrierInv'
  <2>1. scheduled <= job.gen
    <3>1. \A v \in Workers : pc[v] # "scheduleRetry"
      BY <1>1, <1>5, OwnerAlone, Zenon DEF Owning
    <3> QED
      BY <1>0, <3>1, Zenon DEF CarrierInv
  <2> QED
    BY <1>0, <1>1, <1>2, <1>4, <1>6, <1>8, <2>1, Zenon DEF CarrierInv, Startable
<1> QED
  BY <1>4, <1>7, <1>9, <1>10, Zenon DEF OwnershipInv

\* UpdateStatus ends a running job: the worker that owns it writes done or dead.
LEMMA MarkKeeps ==
  ASSUME Stepping, NEW w \in Workers, MarkDone(w) \/ MarkDead(w)
  PROVE  Preserved
<1> SUFFICES ASSUME TypeOK, TypeOK', OwnershipInv PROVE OwnershipInv'
  BY Zenon DEF Stepping, Preserved
<1>0. /\ StreamInv /\ HoldInv /\ HandoffInv /\ CarrierInv
      /\ \A v \in Workers : OwnerInv(v)
  BY Zenon DEF OwnershipInv
<1> job \in JobRecords
  BY Zenon DEF TypeOK
<1>1. PICK s \in {"done", "dead"} : job' = [job EXCEPT !.status = s]
  BY Zenon DEF MarkDone, MarkDead, UpdateStatus
<1>2. /\ pc[w] \in {"markDone", "markDead"} /\ Goto(w, "ack")
      /\ UNCHANGED <<outbox, hand, faults, scheduled, ready, acked, nextId>>
  BY Zenon DEF MarkDone, MarkDead, redis, stream
<1>3. job'.status \in {"done", "dead"} /\ job'.gen = job.gen /\ job'.attempts = job.attempts
  BY <1>1, Zenon DEF JobRecords
<1>4. pc'[w] = "ack" /\ Writing(w)
  BY <1>2, Zenon DEF Goto, Writing, TypeOK
<1>5. /\ StreamInv' /\ HoldInv' /\ Carriers' = Carriers
      /\ OutboxCarries' <=> OutboxCarries
  BY <1>3, <1>4, WritingFrame DEF JobRecords
<1>6. pc[w] \in Owning
  BY <1>2, Zenon DEF Owning
<1>7. job.status = "running" /\ ~OutboxCarries
  BY <1>6, OwnerAlone, Zenon
<1>8. ASSUME NEW v \in Workers PROVE OwnerInv(v)'
  <2>1. CASE v = w
    BY <1>3, <1>4, <2>1, Zenon DEF OwnerInv, Owning, Attempting, Terminal
  <2>2. CASE v # w
    <3>1. pc[v] \notin Owning \cup {"reenqueue"}
      BY <1>6, <2>2, OwnerAlone, Zenon
    <3>2. pc'[v] = pc[v] /\ pc[v] # "removeScheduled"
      BY <1>0, <1>4, <2>2, Zenon DEF Writing, OwnerInv
    <3> QED
      BY <1>3, <3>1, <3>2, Zenon DEF OwnerInv, Owning, Attempting, Terminal
  <2> QED
    BY <2>1, <2>2, Zenon
<1>9. HandoffInv'
  BY <1>0, <1>2, <1>3, <1>5, <1>7, RunningUnhanded, Zenon DEF HandoffInv
<1>10. CarrierInv'
  <2>1. scheduled <= job.gen
    <3>1. \A v \in Workers : pc[v] # "scheduleRetry"
      BY <1>2, <1>6, OwnerAlone, Zenon DEF Owning
    <3> QED
      BY <1>0, <3>1, Zenon DEF CarrierInv
  <2> QED
    BY <1>0, <1>2, <1>3, <1>7, <2>1, Zenon DEF CarrierInv, Startable
<1> QED
  BY <1>5, <1>8, <1>9, <1>10, Zenon DEF OwnershipInv

\* The retry is in jobs:scheduled one generation ahead of the row, while the worker
\* that put it there owns the row.
LEMMA ScheduleRetryEntryKeeps ==
  ASSUME Stepping, NEW w \in Workers, ScheduleRetryEntry(w)
  PROVE  Preserved
<1> SUFFICES ASSUME TypeOK, TypeOK', OwnershipInv PROVE OwnershipInv'
  BY Zenon DEF Stepping, Preserved
<1>0. /\ StreamInv /\ HoldInv /\ HandoffInv /\ CarrierInv
      /\ \A v \in Workers : OwnerInv(v)
  BY Zenon DEF OwnershipInv
<1> job \in JobRecords
  BY Zenon DEF TypeOK
<1>1. /\ pc[w] = "scheduleJob" /\ pc'[w] = "scheduleRetry"
      /\ scheduled' = snap[w].gen + 1
      /\ UNCHANGED <<job, msg, outbox, hand, snap, attempt>>
  BY Zenon DEF ScheduleRetryEntry, ScheduleJob, RetryGeneration, Goto, TypeOK, store
<1>2. Writing(w)
  BY <1>1, Zenon DEF ScheduleRetryEntry, Goto, Writing, TypeOK, store, stream
<1>3. /\ StreamInv' /\ HoldInv' /\ Carriers' = Carriers
      /\ OutboxCarries' <=> OutboxCarries
  BY <1>1, <1>2, WritingFrame DEF JobRecords
<1>4. pc[w] \in Owning
  BY <1>1, Zenon DEF Owning
<1>5. /\ job.status = "running" /\ snap[w].gen = job.gen /\ msg[w].gen = job.gen
      /\ attempt[w] = job.attempts /\ attempt[w] < MaxAttempts
  BY <1>0, <1>1, <1>4, Zenon DEF OwnerInv, Attempting
<1>6. ASSUME NEW v \in Workers PROVE OwnerInv(v)'
  <2>1. CASE v = w
    BY <1>1, <1>5, <2>1, Zenon DEF OwnerInv, Owning, Attempting
  <2>2. CASE v # w
    <3>1. pc[v] \notin Owning \cup {"reenqueue"} /\ (pc[v] = "ack" => msg[v].gen < job.gen)
      BY <1>4, <2>2, OwnerAlone, Zenon
    <3>2. pc'[v] = pc[v] /\ pc[v] # "removeScheduled"
      BY <1>0, <1>2, <2>2, Zenon DEF Writing, OwnerInv
    <3> QED
      BY <1>1, <3>1, <3>2, Zenon DEF OwnerInv, Owning, Attempting
  <2> QED
    BY <2>1, <2>2, Zenon
<1>7. HandoffInv'
  BY <1>0, <1>1, <1>3, Zenon DEF HandoffInv
<1>8. Carriers # {} /\ ~OutboxCarries
  BY <1>4, OwnerAlone, Zenon
<1>9. CarrierInv'
  BY <1>0, <1>1, <1>3, <1>5, <1>8 DEF CarrierInv, JobRecords, Startable
<1> QED
  BY <1>3, <1>6, <1>7, <1>9, Zenon DEF OwnershipInv

\* ScheduleRetry moves the row on to the generation of the delayed entry, and leaves
\* every entry of the stream behind.
LEMMA ScheduleRetryKeeps ==
  ASSUME Stepping, NEW w \in Workers, ScheduleRetry(w)
  PROVE  Preserved
<1> SUFFICES ASSUME TypeOK, TypeOK', OwnershipInv PROVE OwnershipInv'
  BY Zenon DEF Stepping, Preserved
<1>0. /\ StreamInv /\ HoldInv /\ HandoffInv /\ CarrierInv
      /\ \A v \in Workers : OwnerInv(v)
  BY Zenon DEF OwnershipInv
<1> job \in JobRecords /\ msg \in [Workers -> Entries] /\ ready \subseteq StreamEntries
  BY Zenon DEF TypeOK
<1>1. pc[w] = "scheduleRetry" /\ pc[w] \in Owning
  BY Zenon DEF ScheduleRetry, Owning
<1>2. /\ job.status = "running" /\ msg[w].gen = job.gen
      /\ attempt[w] = job.attempts /\ attempt[w] < MaxAttempts
      /\ scheduled = job.gen + 1
  BY <1>0, <1>1, Zenon DEF OwnerInv, Attempting
<1>3. /\ job' = Rescheduled /\ pc'[w] = "ack"
      /\ UNCHANGED <<scheduled, msg, outbox, hand, snap, attempt, ready>>
  BY <1>2, Zenon DEF ScheduleRetry, CanReschedule, Goto, TypeOK, redis, stream
<1>4. /\ job'.status = "scheduled" /\ job'.gen = job.gen + 1
      /\ job'.attempts = job.attempts
  BY <1>3, Zenon DEF Rescheduled
<1>5. Writing(w)
  BY <1>1, <1>2, Zenon DEF ScheduleRetry, CanReschedule, Goto, Writing, TypeOK, redis, stream
<1>6. StreamInv' /\ HoldInv' /\ (OutboxCarries' <=> OutboxCarries)
  BY <1>4, <1>5, WritingFrame DEF JobRecords
<1>7. ASSUME NEW v \in Workers PROVE OwnerInv(v)'
  <2>1. CASE v = w
    BY <1>2, <1>3, <1>4, <2>1 DEF OwnerInv, Owning, Attempting, JobRecords
  <2>2. CASE v # w
    <3>1. pc[v] \notin Owning \cup {"reenqueue"} /\ (pc[v] = "ack" => msg[v].gen < job.gen)
      BY <1>1, <2>2, OwnerAlone, Zenon
    <3>2. pc'[v] = pc[v] /\ pc[v] # "removeScheduled"
      BY <1>0, <1>5, <2>2, Zenon DEF Writing, OwnerInv
    <3>3. pc[v] = "ack" => msg[v].gen < job.gen + 1
      BY <3>1 DEF Entries, JobRecords
    <3> QED
      BY <1>3, <1>4, <3>1, <3>2, <3>3, Zenon DEF OwnerInv, Owning, Attempting
  <2> QED
    BY <2>1, <2>2, Zenon
<1>8. ~OutboxCarries
  BY <1>1, OwnerAlone, Zenon
<1>9. HandoffInv'
  BY <1>0, <1>2, <1>3, <1>6, <1>8, RunningUnhanded, Zenon DEF HandoffInv
<1>10. Carriers' = {}
  <2>1. \A m \in ready : m.gen # job.gen + 1
    BY <1>0 DEF StreamInv, StreamEntries, JobRecords
  <2> QED
    BY <1>3, <1>4, <2>1, Zenon DEF Carriers
<1>11. CarrierInv'
  BY <1>0, <1>2, <1>3, <1>4, <1>6, <1>8, <1>10 DEF CarrierInv, JobRecords, Startable
<1> QED
  BY <1>6, <1>7, <1>9, <1>11, Zenon DEF OwnershipInv

-----------------------------------------------------------------------------
(* Entries added to the stream *)

New(g) == [id |-> nextId, gen |-> g, count |-> 0]

\* XADD adds an entry that nobody holds, under an id of its own.
LEMMA EnqueueDueKeeps ==
  ASSUME TypeOK, StreamInv, HoldInv, NEW g \in Nat, g <= job.gen, EnqueueDue(g),
         UNCHANGED <<job, todo, msg, faults>>,
         \A v \in Workers : Free(v)' <=> Free(v)
  PROVE  /\ StreamInv' /\ HoldInv'
         /\ ready' = ready \cup {New(g)}
         /\ \A v \in Workers : ~Free(v) => msg[v].id # nextId
<1> /\ job \in JobRecords /\ ready \subseteq StreamEntries /\ acked \subseteq StreamEntries
    /\ nextId \in Nat /\ faults \in Nat
  BY BoundsAreNaturals DEF TypeOK
<1>1. ready' = ready \cup {New(g)} /\ nextId' = nextId + 1 /\ acked' = acked
  BY Zenon DEF EnqueueDue, New
<1>2. New(g).id = nextId /\ New(g).gen = g /\ New(g).count = 0
  BY Zenon DEF New
<1>3. \A m \in ready \cup acked : m.id < nextId /\ m.id \in Nat /\ m.gen <= job.gen
  BY Zenon DEF StreamInv, StreamEntries
<1>4. \A m \in ready \cup acked : m.id # nextId
  BY <1>3
<1>5. \A v \in Workers : Holding(v)' = Holding(v)
  BY Zenon DEF Holding
<1>6. \A id : Held(id)' <=> Held(id)
  BY Zenon DEF Held
<1>7. StreamInv'
  <2>1. \A m, n \in ready' : m.id = n.id => m = n
    BY <1>1, <1>2, <1>4, Zenon DEF StreamInv
  <2>2. \A m \in ready', n \in acked' : m.id # n.id
    BY <1>1, <1>2, <1>4, Zenon DEF StreamInv
  <2>3. \A m, n \in acked' : m.id = n.id => m = n
    BY <1>1, Zenon DEF StreamInv
  <2>4. \A m \in ready' \cup acked' : m.id < nextId' /\ m.gen <= job'.gen
    BY <1>1, <1>2, <1>3
  <2>5. \A m \in ready' : m.count <= faults' \/ (Held(m.id)' /\ m.count = faults' + 1)
    <3>1. New(g).count <= faults
      BY <1>2
    <3> QED
      BY <1>1, <1>6, <3>1, Zenon DEF StreamInv
  <2> QED
    BY <2>1, <2>2, <2>3, <2>4, <2>5, Zenon DEF StreamInv
<1>8. Pending' = Pending
  BY <1>1, <1>2 DEF Pending
<1>9. HoldInv'
  BY <1>5, <1>8 DEF HoldInv
<1>10. \A v \in Workers : ~Free(v) => msg[v].id # nextId
  BY <1>4, InHand, Zenon DEF Pending
<1> QED
  BY <1>1, <1>7, <1>9, <1>10, Zenon

\* If no worker re-drives in the step, the entry is a carrier when it is of the row's
\* generation.
LEMMA AddedCarrier ==
  ASSUME TypeOK, NEW g \in Nat, ready' = ready \cup {New(g)}, UNCHANGED <<job, msg, pc>>,
         \A v \in Workers : ~Free(v) => msg[v].id # nextId
  PROVE  Carriers' = IF g = job.gen THEN Carriers \cup {New(g)} ELSE Carriers
<1>1. New(g).id = nextId /\ New(g).gen = g
  BY Zenon DEF New
<1>2. ~Superseded(New(g))
  BY <1>1, Zenon DEF Superseded, Free
<1> QED
  BY <1>1, <1>2 DEF Carriers, Superseded

\* The promotion script moves what carries the job from one key to the other.
LEMMA PromoteDueKeeps ==
  ASSUME Timely, Stepping, PromoteDue
  PROVE  Preserved
<1> SUFFICES ASSUME TypeOK, TypeOK', OwnershipInv PROVE OwnershipInv'
  BY Zenon DEF Stepping, Preserved
<1>0. /\ StreamInv /\ HoldInv /\ HandoffInv /\ CarrierInv
      /\ \A v \in Workers : OwnerInv(v)
  BY Zenon DEF OwnershipInv
<1> job \in JobRecords /\ scheduled \in Nat
  BY Zenon DEF TypeOK
<1>1. /\ scheduled > 0 /\ \A w \in Workers : pc[w] # "scheduleRetry"
      /\ EnqueueDue(scheduled) /\ scheduled' = 0
      /\ UNCHANGED <<job, outbox, pc, msg, snap, attempt, todo, hand, faults>>
  BY Zenon DEF PromoteDue, RemoveScheduled, Timely, store, locals
<1>2. scheduled <= job.gen
  BY <1>0, <1>1, Zenon DEF CarrierInv
<1>3. \A v \in Workers : Free(v)' <=> Free(v)
  BY <1>1, Zenon DEF Free
<1>4. /\ StreamInv' /\ HoldInv'
      /\ ready' = ready \cup {New(scheduled)}
      /\ \A v \in Workers : ~Free(v) => msg[v].id # nextId
  BY <1>0, <1>1, <1>2, <1>3, EnqueueDueKeeps, Zenon
<1>5. Carriers' = IF scheduled = job.gen THEN Carriers \cup {New(scheduled)} ELSE Carriers
  BY <1>1, <1>4, AddedCarrier, Zenon
<1>6. OutboxCarries' <=> OutboxCarries
  BY <1>1, OutboxFrame, Zenon
<1>7. \A v \in Workers : OwnerInv(v)'
  BY <1>0, <1>1, Zenon DEF OwnerInv
<1>8. HandoffInv'
  BY <1>0, <1>1, <1>6, Zenon DEF HandoffInv
<1>9. CarrierInv'
  <2>1. job.status # "absent" /\ job.gen > 0
    BY <1>0, <1>1 DEF CarrierInv
  <2>2. CASE job.status \in Open
    <3>1. CASE scheduled = job.gen
      <4>1. Carriers = {} /\ ~OutboxCarries /\ job.status # "running"
        BY <1>0, <2>2, <3>1, Zenon DEF CarrierInv, Open, Startable
      <4>2. Carriers' = {New(scheduled)}
        BY <1>5, <3>1, <4>1, Zenon
      <4> QED
        BY <1>0, <1>1, <1>6, <2>1, <2>2, <4>1, <4>2 DEF CarrierInv, Startable, JobRecords
    <3>2. CASE scheduled # job.gen
      BY <1>0, <1>1, <1>5, <1>6, <2>1, <3>2 DEF CarrierInv, Startable, JobRecords
    <3> QED
      BY <3>1, <3>2, Zenon
  <2>3. CASE job.status \notin Open
    BY <1>0, <1>1, <2>1, <2>3 DEF CarrierInv, Open, Startable, JobRecords
  <2> QED
    BY <2>2, <2>3, Zenon
<1> QED
  BY <1>4, <1>7, <1>8, <1>9, Zenon DEF OwnershipInv

\* A handoff puts the job where the outbox row has stood for it.
LEMMA EnqueueKeeps ==
  ASSUME Stepping, NEW p \in Movers, Enqueue(p)
  PROVE  Preserved
<1> SUFFICES ASSUME TypeOK, TypeOK', OwnershipInv PROVE OwnershipInv'
  BY Zenon DEF Stepping, Preserved
<1>0. /\ StreamInv /\ HoldInv /\ HandoffInv /\ CarrierInv
      /\ \A v \in Workers : OwnerInv(v)
  BY Zenon DEF OwnershipInv
<1> /\ job \in JobRecords /\ scheduled \in Nat /\ scheduled' \in Nat
    /\ hand \in [Movers -> Handoffs]
  BY Zenon DEF TypeOK
<1>1. /\ hand[p].pc = "enqueue" /\ hand[p].gen = job.gen
      /\ UNCHANGED <<job, outbox, pc, msg, snap, attempt, todo, faults>>
  BY <1>0, Zenon DEF Enqueue, HandoffInv, store, locals
<1>2. OutboxCarries
  BY <1>0, <1>1, OutboxStillCarries, Zenon
<1>3. outbox = job.gen /\ job.status \in Startable \cup {"cancelled"}
  BY <1>0, <1>2, Zenon DEF HandoffInv
<1>4. /\ hand' = [hand EXCEPT ![p].pc = "deleteOutbox"]
      /\ hand'[p].pc = "deleteOutbox"
      /\ \A q \in Movers \ {p} : hand'[q] = hand[q]
  BY Zenon DEF Enqueue, Step, Handoffs
<1>5. ~OutboxCarries'
  BY <1>4, Zenon DEF OutboxCarries
<1>6. HandoffInv'
  <2>1. \A q \in Movers : hand'[q].pc \in HandoffCalls \ {"unschedule"}
                            => hand[q].pc \in HandoffCalls \ {"unschedule"}
    BY <1>1, <1>4, Zenon DEF HandoffCalls
  <2>2. \A q, r \in Movers :
          {hand'[q].pc, hand'[r].pc} \subseteq HandoffCalls \ {"unschedule"} => q = r
    BY <1>0, <2>1, OneHandoff, Zenon
  <2> QED
    BY <1>0, <1>1, <1>4, <1>5, <2>2, Zenon DEF HandoffInv
<1>7. \A v \in Workers : pc[v] \notin Owning
  BY <1>0, <1>3, Zenon DEF OwnerInv, Startable
<1>8. scheduled <= job.gen
  BY <1>0, <1>7, Zenon DEF CarrierInv, Owning
<1>9. \A v \in Workers : OwnerInv(v)'
  BY <1>0, <1>1, <1>7, Zenon DEF OwnerInv, Owning, Attempting
<1>10. job.status \in Startable => Carriers = {} /\ scheduled # job.gen
  BY <1>0, <1>2, Zenon DEF CarrierInv
<1>11. CASE hand[p].to = "ready" /\ EnqueueDue(hand[p].gen) /\ UNCHANGED scheduled
  <2>1. \A v \in Workers : Free(v)' <=> Free(v)
    BY <1>1, Zenon DEF Free
  <2>2. /\ StreamInv' /\ HoldInv'
        /\ ready' = ready \cup {New(job.gen)}
        /\ \A v \in Workers : ~Free(v) => msg[v].id # nextId
    BY <1>0, <1>1, <1>11, <2>1, EnqueueDueKeeps DEF JobRecords
  <2>3. Carriers' = Carriers \cup {New(job.gen)}
    BY <1>1, <2>2, AddedCarrier, Zenon DEF JobRecords
  <2>4. CarrierInv'
    BY <1>0, <1>1, <1>3, <1>5, <1>8, <1>10, <1>11, <2>3, Zenon DEF CarrierInv, Startable
  <2> QED
    BY <1>6, <1>9, <2>2, <2>4, Zenon DEF OwnershipInv
<1>12. CASE hand[p].to = "scheduled" /\ ScheduleJob(hand[p].gen) /\ UNCHANGED stream
  <2>1. scheduled' = job.gen /\ UNCHANGED <<ready, acked, nextId>>
    BY <1>1, <1>12, Zenon DEF ScheduleJob, stream
  <2>2. \A v \in Workers : Free(v)' <=> Free(v)
    BY <1>1, Zenon DEF Free
  <2>3. StreamInv' /\ HoldInv'
    BY <1>0, <1>1, <2>1, <2>2, HandsFrame DEF JobRecords
  <2>4. Carriers' = Carriers
    BY <1>1, <2>1, CarriersFrame, Zenon
  <2>5. CarrierInv'
    BY <1>0, <1>1, <1>3, <1>5, <1>10, <2>1, <2>4 DEF CarrierInv, Startable, JobRecords
  <2> QED
    BY <1>6, <1>9, <2>3, <2>5, Zenon DEF OwnershipInv
<1> QED
  BY <1>11, <1>12, Zenon DEF Enqueue

\* A re-driven job is carried by the new entry in place of the old one.
LEMMA ReenqueueKeeps ==
  ASSUME Stepping, NEW w \in Workers, Reenqueue(w)
  PROVE  Preserved
<1> SUFFICES ASSUME TypeOK, TypeOK', OwnershipInv PROVE OwnershipInv'
  BY Zenon DEF Stepping, Preserved
<1>0. /\ StreamInv /\ HoldInv /\ HandoffInv /\ CarrierInv
      /\ \A v \in Workers : OwnerInv(v)
  BY Zenon DEF OwnershipInv
<1> job \in JobRecords
  BY Zenon DEF TypeOK
<1>1. /\ pc[w] = "reenqueue" /\ pc'[w] = "ackRedriven"
      /\ \A v \in Workers \ {w} : pc'[v] = pc[v]
      /\ EnqueueDue(snap[w].gen)
      /\ UNCHANGED <<job, outbox, scheduled, msg, snap, attempt, todo, hand, faults>>
  BY Zenon DEF Reenqueue, Goto, TypeOK, store
<1>2. /\ job.status \in {"scheduled", "cancelled"}
      /\ msg[w].gen = job.gen /\ snap[w].gen = job.gen
  BY <1>0, <1>1, Zenon DEF OwnerInv
<1>3. ~Free(w) /\ \A v \in Workers : Free(v)' <=> Free(v)
  BY <1>1, Zenon DEF Free
<1>4. /\ StreamInv' /\ HoldInv'
      /\ ready' = ready \cup {New(job.gen)}
      /\ \A v \in Workers : ~Free(v) => msg[v].id # nextId
  BY <1>0, <1>1, <1>2, <1>3, EnqueueDueKeeps DEF JobRecords
<1>5. ASSUME NEW v \in Workers PROVE OwnerInv(v)'
  <2>1. OwnerInv(v)
    BY <1>0, Zenon
  <2> QED
    BY <1>1, <2>1, Zenon DEF OwnerInv, Owning, Attempting
<1>6. OutboxCarries' <=> OutboxCarries
  BY <1>1, OutboxFrame, Zenon
<1>7. HandoffInv'
  BY <1>0, <1>1, <1>6, Zenon DEF HandoffInv
<1>8. scheduled <= job.gen
  BY <1>0, <1>2, Zenon DEF CarrierInv, OwnerInv, Owning
<1>9. CarrierInv'
  <2>1. CASE job.status = "cancelled"
    BY <1>0, <1>1, <1>8, <2>1, Zenon DEF CarrierInv, Startable
  <2>2. CASE job.status = "scheduled"
    <3>1. PICK c \in Carriers : c.id = msg[w].id
      BY <1>0, <1>1, <1>2, <1>3, CarrierInHand, Zenon
    <3>2. \A m \in Carriers : m = c
      BY <1>0, <2>2, Zenon DEF CarrierInv, Startable
    <3>3. scheduled # job.gen /\ ~OutboxCarries
      BY <1>0, <2>2, <3>1, Zenon DEF CarrierInv, Startable
    <3>4. New(job.gen).id = nextId /\ New(job.gen).gen = job.gen
      BY Zenon DEF New
    <3>5. ASSUME NEW v \in Workers, pc'[v] = "ackRedriven" PROVE msg'[v].id # nextId
      <4>1. ~Free(v)
        BY <1>1, <1>3, <3>5, Zenon DEF Free
      <4> QED
        BY <1>1, <1>4, <4>1, Zenon
    <3>6. \A m \in ready : m.gen = job.gen /\ ~Superseded(m)' => FALSE
      <4> SUFFICES ASSUME NEW m \in ready, m.gen = job.gen, ~Superseded(m)'
                   PROVE  FALSE
        OBVIOUS
      <4>1. m.id # msg[w].id
        BY <1>1, Zenon DEF Superseded
      <4>2. ~Superseded(m)
        BY <1>1, <4>1, Zenon DEF Superseded
      <4> QED
        BY <3>1, <3>2, <4>1, <4>2, Zenon DEF Carriers
    <3>7. \A m \in Carriers' : m = New(job.gen)
      BY <1>1, <1>4, <3>6, Zenon DEF Carriers
    <3>8. Carriers' # {}
      <4> DEFINE new == New(job.gen)
      <4>1. new \in ready' /\ new.id = nextId /\ new.gen = job'.gen
        BY <1>1, <1>4, <3>4, Zenon
      <4> HIDE DEF new
      <4> QED
        BY <3>5, <4>1, Zenon DEF Carriers, Superseded
    <3> QED
      BY <1>0, <1>1, <1>6, <1>8, <2>2, <3>3, <3>7, <3>8, Zenon DEF CarrierInv, Startable
  <2> QED
    BY <1>2, <2>1, <2>2, Zenon
<1> QED
  BY <1>4, <1>5, <1>7, <1>9, Zenon DEF OwnershipInv

-----------------------------------------------------------------------------
(* Entries acknowledged and laid down *)

\* Process returns: the worker lets go of its message and of nothing else.
LEMMA Released ==
  ASSUME TypeOK, NEW w \in Workers, Release(w)
  PROVE  /\ pc'[w] = "idle" /\ msg'[w] = NoMsg /\ Free(w)'
         /\ \A v \in Workers \ {w} :
              /\ pc'[v] = pc[v] /\ msg'[v] = msg[v]
              /\ snap'[v] = snap[v] /\ attempt'[v] = attempt[v]
BY Zenon DEF Release, TypeOK, Free

\* An entry of the stream is acknowledged when it is of an earlier generation, of a
\* finished job, or followed by its successor, so the job loses no carrier with it.
LEMMA AckKeeps ==
  ASSUME Stepping, NEW w \in Workers, Ack(w)
  PROVE  Preserved
<1> SUFFICES ASSUME TypeOK, TypeOK', OwnershipInv PROVE OwnershipInv'
  BY Zenon DEF Stepping, Preserved
<1>0. /\ StreamInv /\ HoldInv /\ HandoffInv /\ CarrierInv
      /\ \A v \in Workers : OwnerInv(v)
  BY Zenon DEF OwnershipInv
<1> DEFINE id == msg[w].id
<1> /\ job \in JobRecords /\ ready \subseteq StreamEntries /\ acked \subseteq StreamEntries
    /\ NoMsg.kind = "none"
  BY Zenon DEF TypeOK, NoMsg
<1>1. /\ pc[w] \in {"ack", "ackRedriven"} /\ Acknowledge(id) /\ Release(w)
      /\ UNCHANGED <<job, outbox, scheduled, nextId, todo, hand, faults>>
  BY Zenon DEF Ack, Acknowledge, store
<1>2. /\ pc'[w] = "idle" /\ msg'[w] = NoMsg /\ Free(w)'
      /\ \A v \in Workers \ {w} :
           /\ pc'[v] = pc[v] /\ msg'[v] = msg[v]
           /\ snap'[v] = snap[v] /\ attempt'[v] = attempt[v]
  BY <1>1, Released, Zenon
<1>3. ~Free(w)
  BY <1>1, Zenon DEF Free
<1>4. PICK k \in Pending : k.id = id /\ k.gen = msg[w].gen
  BY <1>0, <1>3, InHand, Zenon
<1>5. k \in ready /\ \A m \in ready : m.id = id => m = k
  BY <1>0, <1>4, Zenon DEF StreamInv, Pending
<1>6. {m \in Pending : m.id = id} = {k}
  BY <1>4, <1>5, Zenon DEF Pending
<1>7. ready' = ready \ {k} /\ acked' \in {acked, acked \cup {Undelivered(k)}}
  BY <1>1, <1>6, Zenon DEF Acknowledge
<1>8. \A m \in ready' : m.id # id /\ m \in ready
  BY <1>5, <1>7, Zenon
<1> HIDE DEF id
<1>9. \A v \in Workers : Holding(v)' \subseteq {e \in Holding(v) : e.id # id}
  <2> SUFFICES ASSUME NEW v \in Workers, NEW e \in Holding(v)'
               PROVE  e \in Holding(v) /\ e.id # id
    OBVIOUS
  <2>1. CASE v = w
    <3>1. e \in todo[w] /\ e.kind = "process"
      BY <1>1, <1>2, <2>1, Zenon DEF Holding
    <3> QED
      BY <1>0, <1>3, <2>1, <3>1, OthersInHand, Zenon DEF Holding, id
  <2>2. CASE v # w
    <3>1. e \in Holding(v)
      BY <1>1, <1>2, <2>2, Zenon DEF Holding
    <3>2. msg[w] \in Holding(w)
      BY <1>0, <1>3, InHand, Zenon
    <3> QED
      BY <1>0, <2>2, <3>1, <3>2 DEF HoldInv, id
  <2> QED
    BY <2>1, <2>2, Zenon
<1>10. \A i : Held(i) /\ i # id => Held(i)'
  <2> SUFFICES ASSUME NEW i, Held(i), i # id PROVE Held(i)'
    OBVIOUS
  <2>1. PICK v \in Workers : \E e \in todo[v] \cup {msg[v]} : e.kind = "process" /\ e.id = i
    BY Zenon DEF Held
  <2>2. PICK e \in todo[v] \cup {msg[v]} : e.kind = "process" /\ e.id = i
    BY <2>1, Zenon
  <2>3. e \in todo'[v] \cup {msg'[v]}
    BY <1>1, <1>2, <2>2, Zenon DEF id
  <2> QED
    BY <2>2, <2>3, Zenon DEF Held
<1>11. StreamInv'
  <2>1. /\ Undelivered(k).id = id /\ Undelivered(k).gen = k.gen
        /\ k.id < nextId /\ k.gen <= job.gen
    BY <1>0, <1>4, <1>5, Zenon DEF Undelivered, StreamInv, StreamEntries
  <2>2. \A n \in acked : n.id # id
    BY <1>0, <1>4, <1>5, Zenon DEF StreamInv
  <2>3. \A m, n \in acked' : m.id = n.id => m = n
    BY <1>0, <1>7, <2>1, <2>2, Zenon DEF StreamInv
  <2>4. \A m \in ready', n \in acked' : m.id # n.id
    BY <1>0, <1>7, <1>8, <2>1, Zenon DEF StreamInv
  <2>5. \A m \in ready' \cup acked' : m.id < nextId' /\ m.gen <= job'.gen
    <3>1. \A m \in ready \cup acked : m.id < nextId /\ m.gen <= job.gen
      BY <1>0, Zenon DEF StreamInv
    <3>2. Undelivered(k).id < nextId /\ Undelivered(k).gen <= job.gen
      BY <1>4, <2>1, Zenon
    <3> QED
      BY <1>1, <1>7, <3>1, <3>2, Zenon
  <2>6. \A m \in ready' : m.count <= faults' \/ (Held(m.id)' /\ m.count = faults' + 1)
    BY <1>0, <1>1, <1>8, <1>10, Zenon DEF StreamInv
  <2>7. \A m, n \in ready' : m.id = n.id => m = n
    BY <1>0, <1>8, Zenon DEF StreamInv
  <2> QED
    BY <2>3, <2>4, <2>5, <2>6, <2>7, Zenon DEF StreamInv
<1>12. HoldInv'
  <2>1. ASSUME NEW v \in Workers
        PROVE  /\ msg'[v].kind = IF Free(v)' THEN "none" ELSE "process"
               /\ \A e \in todo'[v] : e.kind \in {"process", "claim"} /\ e # msg'[v]
    <3>1. CASE v = w
      <4>1. msg'[v].kind = "none" /\ Free(v)'
        BY <1>2, <3>1, Zenon DEF NoMsg
      <4>2. \A e \in todo'[v] : e.kind \in {"process", "claim"}
        BY <1>0, <1>1, Zenon DEF HoldInv
      <4> QED
        BY <4>1, <4>2, Zenon
    <3>2. CASE v # w
      <4>1. msg'[v] = msg[v] /\ todo'[v] = todo[v] /\ (Free(v)' <=> Free(v))
        BY <1>1, <1>2, <3>2, Zenon DEF Free
      <4> QED
        BY <1>0, <4>1, Zenon DEF HoldInv
    <3> QED
      BY <3>1, <3>2, Zenon
  <2>2. ASSUME NEW v \in Workers, NEW e \in Holding(v)'
        PROVE  \E m \in Pending' : m.id = e.id /\ m.gen = e.gen
    <3>1. e \in Holding(v) /\ e.id # id
      BY <1>9, <2>2, Zenon
    <3>2. PICK m \in Pending : m.id = e.id /\ m.gen = e.gen
      BY <1>0, <3>1, Zenon DEF HoldInv
    <3> QED
      BY <1>4, <1>7, <3>1, <3>2, Zenon DEF Pending
  <2>3. ASSUME NEW u \in Workers, NEW v \in Workers, u # v,
               NEW e \in Holding(u)', NEW f \in Holding(v)'
        PROVE  e.id # f.id
    BY <1>0, <1>9, <2>3 DEF HoldInv
  <2> QED
    BY <2>1, <2>2, <2>3, Zenon DEF HoldInv
<1>13. ASSUME NEW v \in Workers PROVE OwnerInv(v)'
  <2>1. CASE v = w
    BY <1>2, <2>1, OwnerIdle, Zenon
  <2>2. CASE v # w
    BY <1>0, <1>1, <1>2, <2>2, OwnerFrame, Zenon
  <2> QED
    BY <2>1, <2>2, Zenon
<1>14. OutboxCarries' <=> OutboxCarries
  BY <1>1, OutboxFrame, Zenon
<1>15. HandoffInv'
  BY <1>0, <1>1, <1>14, Zenon DEF HandoffInv
<1>16. job.status \in Open => Carriers' = Carriers
  <2> SUFFICES ASSUME job.status \in Open PROVE Carriers' = Carriers
    OBVIOUS
  <2>1. k \notin Carriers
    <3>1. CASE pc[w] = "ackRedriven"
      BY <1>4, <3>1, Zenon DEF Carriers, Superseded, id
    <3>2. CASE pc[w] = "ack"
      <4>1. msg[w].gen < job.gen
        BY <1>0, <3>2, Zenon DEF OwnerInv, Open, Terminal
      <4>2. msg[w].gen \in Nat
        BY Zenon DEF TypeOK, Entries
      <4> QED
        BY <1>4, <4>1, <4>2 DEF Carriers, JobRecords
    <3> QED
      BY <1>1, <3>1, <3>2, Zenon
  <2>2. \A m \in ready' : Superseded(m)' <=> Superseded(m)
    BY <1>1, <1>2, <1>8, Zenon DEF Superseded, id
  <2> QED
    BY <1>1, <1>7, <2>1, <2>2, Zenon DEF Carriers
<1>17. (\E v \in Workers : pc[v] = "scheduleRetry")
         => \E v \in Workers : pc'[v] = "scheduleRetry"
  BY <1>1, <1>2, Zenon
<1>18. job.status # "absent"
  BY <1>0, <1>3, Zenon DEF CarrierInv
<1>19. CarrierInv'
  BY <1>0, <1>1, <1>14, <1>16, <1>17, <1>18, Zenon DEF CarrierInv, Open, Startable
<1> QED
  BY <1>11, <1>12, <1>13, <1>15, <1>19, Zenon DEF OwnershipInv

-----------------------------------------------------------------------------
(* Entries delivered *)

\* Entries that change nothing but their delivery count carry the job as before.
LEMMA Recounted ==
  ASSUME CarrierInv, StreamInv', job.status \in Open, UNCHANGED job,
         \A m \in ready : \E n \in ready' : n.id = m.id /\ n.gen = m.gen,
         \A n \in ready' : n.gen = job.gen =>
           \E m \in ready : n.id = m.id /\ n.gen = m.gen,
         \A m : Superseded(m)' <=> Superseded(m)
  PROVE  /\ \A m, n \in Carriers' : m = n
         /\ Carriers' = {} <=> Carriers = {}
<1>1. ASSUME NEW n \in Carriers' PROVE \E m \in Carriers : m.id = n.id
  <2>1. n \in ready' /\ n.gen = job.gen /\ ~Superseded(n)
    BY <1>1, Zenon DEF Carriers
  <2>2. PICK m \in ready : n.id = m.id /\ n.gen = m.gen
    BY <2>1, Zenon
  <2> QED
    BY <2>1, <2>2 DEF Carriers, Superseded
<1>2. ASSUME NEW m \in Carriers PROVE \E n \in Carriers' : TRUE
  <2>1. PICK n \in ready' : n.id = m.id /\ n.gen = m.gen
    BY Zenon DEF Carriers
  <2>2. ~Superseded(n)
    BY <2>1, Zenon DEF Carriers, Superseded
  <2>3. n \in Carriers'
    BY <2>1, <2>2, Zenon DEF Carriers
  <2> QED
    BY <2>3, Zenon
<1>3. \A m, n \in Carriers : m = n
  BY Zenon DEF CarrierInv, Open, Startable
<1>4. ASSUME NEW m \in Carriers', NEW n \in Carriers' PROVE m = n
  <2>1. m.id = n.id
    BY <1>1, <1>3, <1>4, Zenon
  <2> QED
    BY <2>1, Zenon DEF Carriers, StreamInv
<1> QED
  BY <1>1, <1>2, <1>4, Zenon

Redelivered(m) == [m EXCEPT !.count = @ + 1]

\* XREADGROUP and XCLAIM deliver entries that nobody holds.
LEMMA DeliveryKeeps ==
  ASSUME Stepping, job.status # "absent", NEW w \in Workers, Free(w),
         \A e \in todo[w] : e.kind # "process",
         NEW got \in SUBSET ready, \A m \in got : ~Held(m.id),
         ready' = (ready \ got) \cup {Redelivered(m) : m \in got},
         todo' = [todo EXCEPT ![w] = {Entry("process", m) : m \in got}],
         UNCHANGED <<job, outbox, scheduled, acked, nextId, pc, msg, snap, attempt,
                     hand, faults>>
  PROVE  Preserved
<1> SUFFICES ASSUME TypeOK, TypeOK', OwnershipInv PROVE OwnershipInv'
  BY Zenon DEF Stepping, Preserved
<1>0. /\ StreamInv /\ HoldInv /\ HandoffInv /\ CarrierInv
      /\ \A v \in Workers : OwnerInv(v)
  BY Zenon DEF OwnershipInv
<1> /\ job \in JobRecords /\ ready \subseteq StreamEntries /\ faults \in Nat
    /\ todo \in [Workers -> SUBSET Entries]
  BY BoundsAreNaturals DEF TypeOK
<1>1. \A m \in ready : /\ Redelivered(m).id = m.id /\ Redelivered(m).gen = m.gen
                       /\ Redelivered(m).count = m.count + 1 /\ m.count \in Nat
  BY Zenon DEF Redelivered, StreamEntries
<1>2. \A n \in ready' : \E m \in ready :
        /\ n.id = m.id /\ n.gen = m.gen
        /\ \/ m \notin got /\ n = m
           \/ m \in got /\ n = Redelivered(m)
  BY <1>1, Zenon
<1>3. \A m \in ready : \E n \in ready' :
        /\ n.id = m.id /\ n.gen = m.gen /\ (m.count > 0 => n.count > 0)
  <2> SUFFICES ASSUME NEW m \in ready
               PROVE  \E n \in ready' :
                        n.id = m.id /\ n.gen = m.gen /\ (m.count > 0 => n.count > 0)
    OBVIOUS
  <2>1. CASE m \in got
    <3>1. Redelivered(m) \in ready'
      BY <2>1, Zenon
    <3> QED
      BY <1>1, <3>1
  <2>2. CASE m \notin got
    BY <2>2, Zenon
  <2> QED
    BY <2>1, <2>2, Zenon
<1>4. /\ todo'[w] = {Entry("process", m) : m \in got}
      /\ \A v \in Workers \ {w} : todo'[v] = todo[v]
  OBVIOUS
<1>5. \A m \in got : /\ Entry("process", m).kind = "process"
                     /\ Entry("process", m).id = m.id /\ Entry("process", m).gen = m.gen
  BY Zenon DEF Entry
<1>6. msg[w].kind = "none"
  BY <1>0, Zenon DEF HoldInv
<1>7. /\ Holding(w) = {} /\ \A v \in Workers \ {w} : Holding(v)' = Holding(v)
      /\ \A e \in Holding(w)' : \E m \in got : e.id = m.id /\ e.gen = m.gen
  BY <1>4, <1>5, <1>6 DEF Holding
<1>8. \A i : Held(i) => Held(i)'
  <2> SUFFICES ASSUME NEW i, Held(i) PROVE Held(i)'
    OBVIOUS
  <2>1. PICK v \in Workers : \E e \in todo[v] \cup {msg[v]} : e.kind = "process" /\ e.id = i
    BY Zenon DEF Held
  <2>2. v # w
    BY <1>6, <2>1, Zenon
  <2> QED
    BY <1>4, <2>1, <2>2, Zenon DEF Held
<1>9. \A m \in got : Held(m.id)'
  <2> SUFFICES ASSUME NEW m \in got PROVE Held(m.id)'
    OBVIOUS
  <2>1. Entry("process", m) \in todo'[w]
    BY <1>4, Zenon
  <2> QED
    BY <1>5, <2>1, Zenon DEF Held
<1>10. StreamInv'
  <2>1. \A m, n \in ready' : m.id = n.id => m = n
    BY <1>0, <1>2 DEF StreamInv
  <2>2. \A m \in ready', n \in acked' : m.id # n.id
    BY <1>0, <1>2 DEF StreamInv
  <2>3. \A m \in ready' \cup acked' : m.id < nextId' /\ m.gen <= job'.gen
    BY <1>0, <1>2 DEF StreamInv
  <2>4. ASSUME NEW n \in ready'
        PROVE  n.count <= faults \/ (Held(n.id)' /\ n.count = faults + 1)
    <3>1. PICK m \in ready : /\ n.id = m.id
                             /\ \/ m \notin got /\ n = m
                                \/ m \in got /\ n = Redelivered(m)
      BY <1>2, Zenon
    <3>2. CASE m \notin got /\ n = m
      BY <1>0, <1>8, <3>2, Zenon DEF StreamInv
    <3>3. CASE m \in got /\ n = Redelivered(m)
      <4>1. m.count <= faults /\ m.count \in Nat /\ n.count = m.count + 1
        BY <1>0, <1>1, <3>3, Zenon DEF StreamInv
      <4>2. n.count <= faults \/ n.count = faults + 1
        BY <4>1
      <4> QED
        BY <1>9, <3>1, <3>3, <4>2, Zenon
    <3> QED
      BY <3>1, <3>2, <3>3, Zenon
  <2>5. \A m, n \in acked' : m.id = n.id => m = n
    BY <1>0, Zenon DEF StreamInv
  <2> QED
    BY <2>1, <2>2, <2>3, <2>4, <2>5, Zenon DEF StreamInv
<1>11. HoldInv'
  <2>1. ASSUME NEW v \in Workers
        PROVE  /\ msg'[v].kind = IF Free(v)' THEN "none" ELSE "process"
               /\ \A e \in todo'[v] : e.kind \in {"process", "claim"} /\ e # msg'[v]
    <3>1. /\ msg'[v] = msg[v] /\ (Free(v)' <=> Free(v))
          /\ msg[v].kind = IF Free(v) THEN "none" ELSE "process"
      BY <1>0, Zenon DEF HoldInv, Free
    <3>2. CASE v = w
      <4>1. \A e \in todo'[v] : e.kind = "process"
        BY <1>4, <1>5, <3>2, Zenon
      <4> QED
        BY <1>6, <3>1, <3>2, <4>1, Zenon
    <3>3. CASE v # w
      BY <1>0, <1>4, <3>1, <3>3, Zenon DEF HoldInv
    <3> QED
      BY <3>2, <3>3, Zenon
  <2>2. ASSUME NEW v \in Workers, NEW e \in Holding(v)'
        PROVE  \E n \in Pending' : n.id = e.id /\ n.gen = e.gen
    <3>1. CASE v = w
      <4>1. PICK m \in got : e.id = m.id /\ e.gen = m.gen
        BY <1>7, <2>2, <3>1, Zenon
      <4>2. Redelivered(m) \in ready' /\ Redelivered(m).count > 0
        BY <1>1
      <4> QED
        BY <1>1, <4>1, <4>2 DEF Pending
    <3>2. CASE v # w
      <4>1. PICK m \in Pending : m.id = e.id /\ m.gen = e.gen
        <5>1. e \in Holding(v)
          BY <1>7, <2>2, <3>2, Zenon
        <5> QED
          BY <1>0, <5>1, Zenon DEF HoldInv
      <4> QED
        BY <1>3, <4>1 DEF Pending
    <3> QED
      BY <3>1, <3>2, Zenon
  <2>3. \A v \in Workers : \A e \in Holding(v) : Held(e.id)
    BY Zenon DEF Holding, Held
  <2>4. ASSUME NEW u \in Workers, NEW v \in Workers, u # v,
               NEW e \in Holding(u)', NEW f \in Holding(v)'
        PROVE  e.id # f.id
    BY <1>0, <1>7, <2>3, <2>4 DEF HoldInv
  <2> QED
    BY <2>1, <2>2, <2>4, Zenon DEF HoldInv
<1>12. \A v \in Workers : OwnerInv(v)'
  BY <1>0, OwnerFrame, Zenon
<1>13. OutboxCarries' <=> OutboxCarries
  BY OutboxFrame, Zenon
<1>14. HandoffInv'
  BY <1>0, <1>13, Zenon DEF HandoffInv
<1>15. job.status \in Open => /\ \A m, n \in Carriers' : m = n
                              /\ Carriers' = {} <=> Carriers = {}
  <2>1. \A m : Superseded(m)' <=> Superseded(m)
    BY Zenon DEF Superseded
  <2> QED
    BY <1>0, <1>2, <1>3, <1>10, <2>1, Recounted, Zenon
<1>16. CarrierInv'
  BY <1>0, <1>13, <1>15, Zenon DEF CarrierInv, Open, Startable
<1> QED
  BY <1>10, <1>11, <1>12, <1>14, <1>16, Zenon DEF OwnershipInv

\* XREADGROUP delivers what has never been delivered.
LEMMA ReadNextKeeps ==
  ASSUME Stepping, NEW w \in Workers, ReadNext(w)
  PROVE  Preserved
<1> SUFFICES ASSUME TypeOK, TypeOK', OwnershipInv PROVE OwnershipInv'
  BY Zenon DEF Stepping, Preserved
<1>0. StreamInv /\ HoldInv /\ CarrierInv
  BY Zenon DEF OwnershipInv
<1> ready \subseteq StreamEntries
  BY Zenon DEF TypeOK
<1>1. PICK last \in {m.id : m \in ready \ Pending} :
        LET got == {m \in ready \ Pending : m.id <= last}
        IN  /\ ready' = (ready \ got) \cup {[m EXCEPT !.count = 1] : m \in got}
            /\ todo' = [todo EXCEPT ![w] = {Entry("process", m) : m \in got}]
  BY Zenon DEF ReadNext
<1> DEFINE got == {m \in ready \ Pending : m.id <= last}
<1>2. got \in SUBSET ready /\ job.status # "absent"
  BY <1>0, <1>1, Zenon DEF CarrierInv
<1>3. \A m \in got : [m EXCEPT !.count = 1] = Redelivered(m)
  <2> SUFFICES ASSUME NEW m \in ready \ Pending
               PROVE  [m EXCEPT !.count = 1] = Redelivered(m)
    OBVIOUS
  <2>1. m.count = 0
    BY DEF Pending, StreamEntries
  <2> QED
    BY <2>1 DEF Redelivered, StreamEntries
<1>4. \A m \in got : ~Held(m.id)
  <2> SUFFICES ASSUME NEW m \in ready \ Pending, Held(m.id) PROVE FALSE
    OBVIOUS
  <2>1. PICK v \in Workers :
          \E e \in todo[v] \cup {msg[v]} : e.kind = "process" /\ e.id = m.id
    BY Zenon DEF Held
  <2>2. PICK e \in Holding(v) : e.id = m.id
    BY <2>1, Zenon DEF Holding
  <2>3. PICK n \in Pending : n.id = m.id
    BY <1>0, <2>2 DEF HoldInv
  <2> QED
    BY <1>0, <2>3, Zenon DEF StreamInv, Pending
<1>5. ready' = (ready \ got) \cup {Redelivered(m) : m \in got}
  BY <1>1, <1>3, Zenon
<1>6. todo' = [todo EXCEPT ![w] = {Entry("process", m) : m \in got}]
  BY <1>1, Zenon
<1>7. /\ Free(w) /\ \A e \in todo[w] : e.kind # "process"
      /\ UNCHANGED <<job, outbox, scheduled, acked, nextId, pc, msg, snap, attempt,
                     hand, faults>>
  BY Zenon DEF ReadNext, store
<1> HIDE DEF got
<1> QED
  BY <1>2, <1>4, <1>5, <1>6, <1>7, DeliveryKeeps, Zenon DEF Preserved

\* Nothing else is idle for long enough to be claimed.
LEMMA StaleIsUnheld ==
  ASSUME Timely, NEW m \in Stale
  PROVE  m \in ready /\ ~Held(m.id)
BY Zenon DEF Stale, Pending, Timely

\* XCLAIM delivers again what a failed delivery has left behind.
LEMMA ClaimKeeps ==
  ASSUME Timely, Stepping, NEW w \in Workers, Claim(w)
  PROVE  Preserved
<1> SUFFICES ASSUME TypeOK, TypeOK', OwnershipInv PROVE OwnershipInv'
  BY Zenon DEF Stepping, Preserved
<1>0. CarrierInv
  BY Zenon DEF OwnershipInv
<1> DEFINE got == {m \in Stale : Entry("claim", m) \in todo[w]}
<1>1. /\ ready' = (ready \ got) \cup {Redelivered(m) : m \in got}
      /\ todo' = [todo EXCEPT ![w] = {Entry("process", m) : m \in got}]
  BY Zenon DEF Claim, Redelivered
<1>2. got \in SUBSET ready /\ \A m \in got : ~Held(m.id)
  BY StaleIsUnheld, Zenon
<1>3. /\ Free(w) /\ (\A e \in todo[w] : e.kind # "process") /\ todo[w] # {}
      /\ UNCHANGED <<job, outbox, scheduled, acked, nextId, pc, msg, snap, attempt,
                     hand, faults>>
  BY Zenon DEF Claim, store
<1>4. job.status # "absent"
  BY <1>0, <1>3, Zenon DEF CarrierInv
<1> HIDE DEF got
<1> QED
  BY <1>1, <1>2, <1>3, <1>4, DeliveryKeeps, Zenon DEF Preserved

-----------------------------------------------------------------------------
(* Entries listed, taken up and lost with their worker *)

\* A step in which one worker changes what it has in memory, and takes up no entry
\* that it did not hold
Handling(w) ==
  /\ UNCHANGED <<job, outbox, scheduled, ready, acked, nextId, hand>>
  /\ \A v \in Workers \ {w} :
       /\ pc'[v] = pc[v] /\ msg'[v] = msg[v] /\ todo'[v] = todo[v]
       /\ snap'[v] = snap[v] /\ attempt'[v] = attempt[v]
  /\ pc[w] \notin {"ackRedriven", "scheduleRetry"} /\ pc'[w] \in {"idle", "startExecution"}
  /\ Holding(w)' \subseteq Holding(w)
  /\ msg'[w].kind = IF Free(w)' THEN "none" ELSE "process"
  /\ \A e \in todo'[w] : e.kind \in {"process", "claim"} /\ e # msg'[w]

\* It keeps the rest, if what is laid down counts as a fault.
LEMMA HandlingKeeps ==
  ASSUME Stepping, job.status # "absent", NEW w \in Workers, Handling(w),
         \/ faults' = faults /\ Holding(w)' = Holding(w)
         \/ faults' = faults + 1
  PROVE  Preserved
<1> SUFFICES ASSUME TypeOK, TypeOK', OwnershipInv PROVE OwnershipInv'
  BY Zenon DEF Stepping, Preserved
<1>0. /\ StreamInv /\ HoldInv /\ HandoffInv /\ CarrierInv
      /\ \A v \in Workers : OwnerInv(v)
  BY Zenon DEF OwnershipInv
<1> ready \subseteq StreamEntries /\ faults \in Nat /\ faults' \in Nat
  BY BoundsAreNaturals DEF TypeOK
<1>1. \A v \in Workers : Holding(v)' \subseteq Holding(v)
  BY Zenon DEF Handling, Holding
<1>2. \A i : Held(i) <=> \E v \in Workers : \E e \in Holding(v) : e.id = i
  BY Zenon DEF Held, Holding
<1>3. \A i : Held(i)' <=> \E v \in Workers : \E e \in Holding(v)' : e.id = i
  BY Zenon DEF Held, Holding
<1>4. StreamInv'
  <2>1. ASSUME NEW m \in ready
        PROVE  m.count <= faults' \/ (Held(m.id)' /\ m.count = faults' + 1)
    <3> m.count \in Nat
      BY Zenon DEF StreamEntries
    <3>1. m.count <= faults \/ (Held(m.id) /\ m.count = faults + 1)
      BY <1>0, Zenon DEF StreamInv
    <3>2. CASE faults' = faults + 1
      <4>1. m.count <= faults + 1
        BY <3>1
      <4> QED
        BY <3>2, <4>1, Zenon
    <3>3. CASE faults' = faults /\ Holding(w)' = Holding(w)
      <4>1. \A v \in Workers : Holding(v)' = Holding(v)
        BY <3>3, Zenon DEF Handling, Holding
      <4>2. Held(m.id) => Held(m.id)'
        BY <1>2, <1>3, <4>1, Zenon
      <4> QED
        BY <3>1, <3>3, <4>2, Zenon
    <3> QED
      BY <3>2, <3>3, Zenon
  <2>2. UNCHANGED <<ready, acked, nextId, job>>
    BY Zenon DEF Handling
  <2> QED
    BY <1>0, <2>1, <2>2, Zenon DEF StreamInv
<1>5. HoldInv'
  <2>1. Pending' = Pending
    BY Zenon DEF Handling, Pending
  <2>2. ASSUME NEW v \in Workers
        PROVE  /\ msg'[v].kind = IF Free(v)' THEN "none" ELSE "process"
               /\ \A e \in todo'[v] : e.kind \in {"process", "claim"} /\ e # msg'[v]
    <3>1. CASE v = w
      BY <3>1, Zenon DEF Handling
    <3>2. CASE v # w
      <4>1. msg'[v] = msg[v] /\ todo'[v] = todo[v] /\ (Free(v)' <=> Free(v))
        BY <3>2, Zenon DEF Handling, Free
      <4> QED
        BY <1>0, <4>1, Zenon DEF HoldInv
    <3> QED
      BY <3>1, <3>2, Zenon
  <2>3. ASSUME NEW v \in Workers, NEW e \in Holding(v)'
        PROVE  \E m \in Pending' : m.id = e.id /\ m.gen = e.gen
    <3>1. e \in Holding(v)
      BY <1>1, <2>3, Zenon
    <3> QED
      BY <1>0, <2>1, <3>1, Zenon DEF HoldInv
  <2>4. ASSUME NEW u \in Workers, NEW v \in Workers, u # v,
               NEW e \in Holding(u)', NEW f \in Holding(v)'
        PROVE  e.id # f.id
    <3>1. e \in Holding(u) /\ f \in Holding(v)
      BY <1>1, <2>4, Zenon
    <3> QED
      BY <1>0, <2>4, <3>1 DEF HoldInv
  <2> QED
    BY <2>2, <2>3, <2>4, Zenon DEF HoldInv
<1>6. ASSUME NEW v \in Workers PROVE OwnerInv(v)'
  <2>1. CASE v = w
    BY <2>1, OwnerIdle, Zenon DEF Handling
  <2>2. CASE v # w
    BY <1>0, <2>2, OwnerFrame, Zenon DEF Handling
  <2> QED
    BY <2>1, <2>2, Zenon
<1>7. OutboxCarries' <=> OutboxCarries
  BY OutboxFrame, Zenon DEF Handling
<1>8. HandoffInv'
  BY <1>0, <1>7, Zenon DEF Handling, HandoffInv
<1>9. Carriers' = Carriers
  <2>1. \A m : Superseded(m)' <=> Superseded(m)
    BY Zenon DEF Handling, Superseded
  <2> QED
    BY <2>1, Zenon DEF Handling, Carriers
<1>10. (\E v \in Workers : pc[v] = "scheduleRetry")
         => \E v \in Workers : pc'[v] = "scheduleRetry"
  BY Zenon DEF Handling
<1>11. CarrierInv'
  BY <1>0, <1>7, <1>9, <1>10, Zenon DEF Handling, CarrierInv
<1> QED
  BY <1>4, <1>5, <1>6, <1>8, <1>11, Zenon DEF OwnershipInv

\* XPENDING: too few faults have happened for a listed entry to be poison.
LEMMA ListStalePendingKeeps ==
  ASSUME Timely, Stepping, NEW w \in Workers, ListStalePending(w)
  PROVE  Preserved
<1> SUFFICES ASSUME TypeOK, TypeOK', OwnershipInv PROVE OwnershipInv'
  BY Zenon DEF Stepping, Preserved
<1>0. StreamInv /\ HoldInv /\ CarrierInv
  BY Zenon DEF OwnershipInv
<1> ready \subseteq StreamEntries /\ faults \in 0..MaxFaults
  BY Zenon DEF TypeOK
<1> MaxFaults \in Nat /\ MaxPoisonDeliveries \in Nat /\ MaxFaults < MaxPoisonDeliveries
  BY BoundsAreNaturals, Zenon DEF Timely
<1>1. \A m \in Stale : ~IsPoison(m) /\ m \in ready
  <2> SUFFICES ASSUME NEW m \in Stale PROVE ~IsPoison(m) /\ m \in ready
    OBVIOUS
  <2>1. m \in ready /\ ~Held(m.id)
    BY StaleIsUnheld, Zenon
  <2>2. m.count <= faults /\ m.count \in Nat
    BY <1>0, <2>1, Zenon DEF StreamInv, StreamEntries
  <2> QED
    BY <2>1, <2>2 DEF IsPoison
<1>2. PICK listed \in (SUBSET Stale) \ {{}} :
        todo' = [todo EXCEPT ![w] =
          {Entry(IF IsPoison(m) THEN "poison" ELSE "claim", m) : m \in listed}]
  BY Zenon DEF ListStalePending
<1>3. \A e \in todo'[w] : e.kind = "claim"
  <2>1. todo'[w] = {Entry(IF IsPoison(m) THEN "poison" ELSE "claim", m) : m \in listed}
    BY <1>2, Zenon DEF TypeOK
  <2> QED
    BY <1>1, <2>1 DEF Entry
<1>4. /\ Free(w) /\ todo[w] = {} /\ Free(w)'
      /\ \A v \in Workers \ {w} : todo'[v] = todo[v]
      /\ UNCHANGED <<job, outbox, scheduled, ready, acked, nextId, hand, faults,
                     pc, msg, snap, attempt>>
  BY <1>2, Zenon DEF ListStalePending, TypeOK, store, redis, stream, Free
<1>5. msg[w].kind = "none"
  BY <1>0, <1>4, Zenon DEF HoldInv
<1>6. Holding(w) = {} /\ Holding(w)' = {}
  BY <1>3, <1>4, <1>5, Zenon DEF Holding
<1>7. Handling(w)
  BY <1>3, <1>4, <1>5, <1>6, Zenon DEF Handling, Free
<1>8. job.status # "absent"
  <2>1. PICK m \in listed : TRUE
    OBVIOUS
  <2>2. ready # {}
    BY <1>1, <2>1, Zenon
  <2> QED
    BY <1>0, <2>2, Zenon DEF CarrierInv
<1> QED
  BY <1>4, <1>6, <1>7, <1>8, HandlingKeeps, Zenon DEF Preserved

\* GetByID takes up an entry that the worker holds already.
LEMMA GetByIDKeeps ==
  ASSUME Stepping, NEW w \in Workers, GetByID(w)
  PROVE  Preserved
<1> SUFFICES ASSUME TypeOK, TypeOK', OwnershipInv PROVE OwnershipInv'
  BY Zenon DEF Stepping, Preserved
<1>0. StreamInv /\ HoldInv /\ CarrierInv
  BY Zenon DEF OwnershipInv
<1>1. PICK e \in todo[w] : e.kind = "process" /\ Take(w, e, "startExecution")
  BY Zenon DEF GetByID
<1>2. /\ Free(w) /\ pc'[w] = "startExecution" /\ msg'[w] = e /\ todo'[w] = todo[w] \ {e}
      /\ \A v \in Workers \ {w} :
           /\ pc'[v] = pc[v] /\ msg'[v] = msg[v] /\ todo'[v] = todo[v]
           /\ snap'[v] = snap[v] /\ attempt'[v] = attempt[v]
      /\ UNCHANGED <<job, outbox, scheduled, ready, acked, nextId, hand, faults>>
  BY <1>1, Zenon DEF Take, TypeOK, store, redis, stream
<1>3. msg[w].kind = "none"
  BY <1>0, <1>2, Zenon DEF HoldInv
<1>4. Holding(w)' = Holding(w)
  BY <1>1, <1>2, <1>3, Zenon DEF Holding
<1>5. \A f \in todo'[w] : f.kind \in {"process", "claim"} /\ f # msg'[w]
  BY <1>0, <1>2, Zenon DEF HoldInv
<1>6. Handling(w)
  BY <1>1, <1>2, <1>4, <1>5, Zenon DEF Handling, Free
<1>7. job.status # "absent"
  BY <1>0, <1>1, Zenon DEF CarrierInv
<1> QED
  BY <1>2, <1>4, <1>6, <1>7, HandlingKeeps, Zenon DEF Preserved

\* A worker that fails, or dies, leaves its entries pending, and no fault strikes
\* where the job would be carried twice.
LEMMA WorkerFaultKeeps ==
  ASSUME Timely, Stepping, NEW w \in Workers,
         CallFails(w) \/ CrashWorker(w)
  PROVE  Preserved
<1> SUFFICES ASSUME TypeOK, TypeOK', OwnershipInv PROVE OwnershipInv'
  BY Zenon DEF Stepping, Preserved
<1>0. StreamInv /\ HoldInv /\ CarrierInv
  BY Zenon DEF OwnershipInv
<1>1. /\ pc[w] \in FaultPoints /\ Release(w) /\ faults' = faults + 1
      /\ ~Free(w) \/ todo[w] # {}
      /\ UNCHANGED <<job, outbox, scheduled, ready, acked, nextId, hand>>
  BY Zenon DEF CallFails, CrashWorker, CanFault, Calls, Free, store, redis, stream
<1>2. /\ todo'[w] \subseteq todo[w]
      /\ \A v \in Workers \ {w} : todo'[v] = todo[v]
  BY Zenon DEF CallFails, CrashWorker, TypeOK
<1>3. /\ pc'[w] = "idle" /\ msg'[w] = NoMsg /\ Free(w)'
      /\ \A v \in Workers \ {w} :
           /\ pc'[v] = pc[v] /\ msg'[v] = msg[v]
           /\ snap'[v] = snap[v] /\ attempt'[v] = attempt[v]
  BY <1>1, Released, Zenon
<1>4. pc[w] \notin {"ackRedriven", "scheduleRetry"}
  BY <1>1, Zenon DEF Timely, UnsafePoints
<1>5. NoMsg.kind = "none"
  BY Zenon DEF NoMsg
<1>6. Holding(w)' \subseteq Holding(w)
  BY <1>2, <1>3, <1>5, Zenon DEF Holding
<1>7. \A e \in todo'[w] : e.kind \in {"process", "claim"} /\ e # msg'[w]
  BY <1>0, <1>2, <1>3, <1>5, Zenon DEF HoldInv
<1>8. Handling(w)
  BY <1>1, <1>2, <1>3, <1>4, <1>5, <1>6, <1>7, Zenon DEF Handling
<1>9. job.status # "absent"
  BY <1>0, <1>1, Zenon DEF CarrierInv
<1> QED
  BY <1>1, <1>8, <1>9, HandlingKeeps, Zenon DEF Preserved

\* A lost group delivers the stream again when no worker has the job in hand and no
\* acknowledged entry could start it.
LEMMA GroupLostKeeps ==
  ASSUME Timely, Stepping, GroupLost
  PROVE  Preserved
<1> SUFFICES ASSUME TypeOK, TypeOK', OwnershipInv PROVE OwnershipInv'
  BY Zenon DEF Stepping, Preserved
<1>0. /\ StreamInv /\ HoldInv /\ HandoffInv /\ CarrierInv
      /\ \A v \in Workers : OwnerInv(v)
  BY Zenon DEF OwnershipInv
<1> /\ job \in JobRecords /\ ready \subseteq StreamEntries /\ acked \subseteq StreamEntries
    /\ faults \in Nat
  BY BoundsAreNaturals DEF TypeOK
<1>1. /\ \A w \in Workers : Free(w) /\ todo[w] = {}
      /\ \A m \in acked : m.gen = job.gen => job.status \in Terminal
      /\ ready' = {Undelivered(m) : m \in ready \cup acked} /\ acked' = {}
      /\ faults' = faults + 1
      /\ UNCHANGED <<job, outbox, scheduled, nextId, pc, msg, snap, attempt, todo, hand>>
  BY Zenon DEF GroupLost, Timely, store, locals
<1>2. \A m \in ready \cup acked :
        Undelivered(m).id = m.id /\ Undelivered(m).gen = m.gen /\ Undelivered(m).count = 0
  BY Zenon DEF Undelivered, StreamEntries
<1>3. \A n \in ready' : \E m \in ready \cup acked :
        n = Undelivered(m) /\ n.id = m.id /\ n.gen = m.gen /\ n.count = 0
  BY <1>1, <1>2, Zenon
<1>4. StreamInv'
  <2>1. \A m, n \in ready \cup acked : m.id = n.id => m = n
    BY <1>0, Zenon DEF StreamInv
  <2>2. \A m, n \in ready' : m.id = n.id => m = n
    BY <1>3, <2>1
  <2>3. \A m \in ready' : m.id < nextId' /\ m.gen <= job'.gen
    BY <1>0, <1>1, <1>3 DEF StreamInv
  <2>4. \A m \in ready' : m.count <= faults'
    BY <1>1, <1>3
  <2> QED
    BY <1>1, <2>2, <2>3, <2>4, Zenon DEF StreamInv
<1>5. \A w \in Workers : msg[w].kind = "none" /\ Holding(w)' = {}
  BY <1>0, <1>1, Zenon DEF HoldInv, Holding
<1>6. HoldInv'
  BY <1>1, <1>5, Zenon DEF HoldInv, Free
<1>7. \A v \in Workers : OwnerInv(v)'
  BY <1>0, <1>1, OwnerFrame, Zenon
<1>8. OutboxCarries' <=> OutboxCarries
  BY <1>1, OutboxFrame, Zenon
<1>9. HandoffInv'
  BY <1>0, <1>1, <1>8, Zenon DEF HandoffInv
<1>10. job.status \in Open => /\ \A m, n \in Carriers' : m = n
                              /\ Carriers' = {} <=> Carriers = {}
  <2> SUFFICES ASSUME job.status \in Open
               PROVE  /\ \A m, n \in Carriers' : m = n
                      /\ Carriers' = {} <=> Carriers = {}
    OBVIOUS
  <2>1. \A m : Superseded(m)' <=> Superseded(m)
    BY <1>1, Zenon DEF Superseded
  <2>2. \A m \in acked : m.gen # job.gen
    BY <1>1, Zenon DEF Open, Terminal
  <2>3. \A n \in ready' : n.gen = job.gen => \E m \in ready : n.id = m.id /\ n.gen = m.gen
    BY <1>3, <2>2, Zenon
  <2>4. \A m \in ready : \E n \in ready' : n.id = m.id /\ n.gen = m.gen
    BY <1>1, <1>2, Zenon
  <2> QED
    BY <1>0, <1>1, <1>4, <2>1, <2>3, <2>4, Recounted, Zenon
<1>11. job.status = "absent" => ready' = {}
  BY <1>0, <1>1, Zenon DEF CarrierInv
<1>12. CarrierInv'
  BY <1>0, <1>1, <1>8, <1>10, <1>11, Zenon DEF CarrierInv, Open, Startable, Free
<1> QED
  BY <1>4, <1>6, <1>7, <1>9, <1>12, Zenon DEF OwnershipInv

-----------------------------------------------------------------------------
(* Requests and handoffs *)

\* A step that only moves a handoff on, or drops the delayed entry of a cancelled job
LEMMA HandingKeeps ==
  ASSUME Stepping, HandoffInv',
         UNCHANGED <<job, ready, acked, nextId, pc, msg, snap, attempt, todo>>,
         faults' = faults \/ faults' = faults + 1,
         scheduled' = scheduled \/ (job.status = "cancelled" /\ scheduled' = 0),
         job.status \in Open => (OutboxCarries' <=> OutboxCarries),
         job.status # "absent" \/ UNCHANGED <<outbox, hand>>
  PROVE  Preserved
<1> SUFFICES ASSUME TypeOK, TypeOK', OwnershipInv PROVE OwnershipInv'
  BY Zenon DEF Stepping, Preserved
<1>0. /\ StreamInv /\ HoldInv /\ HandoffInv /\ CarrierInv
      /\ \A v \in Workers : OwnerInv(v)
  BY Zenon DEF OwnershipInv
<1> job \in JobRecords /\ scheduled \in Nat
  BY Zenon DEF TypeOK
<1>1. StreamInv' /\ HoldInv'
  <2>1. \A v \in Workers : Free(v)' <=> Free(v)
    BY Zenon DEF Free
  <2>2. job'.gen >= job.gen
    BY DEF JobRecords
  <2> QED
    BY <1>0, <2>1, <2>2, HandsFrame, Zenon
<1>2. ASSUME NEW v \in Workers PROVE OwnerInv(v)'
  <2>1. CASE scheduled' = scheduled
    BY <1>0, <2>1, Zenon DEF OwnerInv
  <2>2. CASE job.status = "cancelled"
    BY <1>0, <2>2, Zenon DEF OwnerInv, Owning
  <2> QED
    BY <2>1, <2>2, Zenon
<1>3. Carriers' = Carriers
  BY CarriersFrame, Zenon
<1>4. CarrierInv'
  <2>1. CASE scheduled' = scheduled
    BY <1>0, <1>3, <2>1, Zenon DEF CarrierInv, Open, Startable, Free
  <2>2. CASE job.status = "cancelled" /\ scheduled' = 0
    BY <1>0, <2>2 DEF CarrierInv, Startable, JobRecords
  <2> QED
    BY <2>1, <2>2, Zenon
<1> QED
  BY <1>1, <1>2, <1>4, Zenon DEF OwnershipInv

\* The clock moves nothing by itself.
LEMMA RunAtPassesKeeps ==
  ASSUME Stepping, RunAtPasses
  PROVE  Preserved
<1> SUFFICES ASSUME TypeOK, TypeOK', OwnershipInv PROVE OwnershipInv'
  BY Zenon DEF Stepping, Preserved
<1>1. UNCHANGED <<job, outbox, scheduled, ready, acked, nextId, pc, msg, snap, attempt,
                  todo, hand, faults>>
  BY Zenon DEF RunAtPasses, redis, stream, locals
<1>2. OutboxCarries' <=> OutboxCarries
  BY <1>1, OutboxFrame, Zenon
<1>3. HandoffInv'
  BY <1>1, <1>2, Zenon DEF OwnershipInv, HandoffInv
<1> QED
  BY <1>1, <1>2, <1>3, HandingKeeps, Zenon DEF Preserved

\* The handoff of a mover alone
Moving(p) ==
  /\ \A q \in Movers \ {p} : hand'[q] = hand[q]
  /\ UNCHANGED <<job, ready, acked, nextId, pc, msg, snap, attempt, todo>>

\* The request that retried the job goes on to enqueue it under the row's generation.
LEMMA RereadRetriedKeeps ==
  ASSUME Stepping, NEW p \in Movers, RereadRetried(p)
  PROVE  Preserved
<1> SUFFICES ASSUME TypeOK, TypeOK', OwnershipInv PROVE OwnershipInv'
  BY Zenon DEF Stepping, Preserved
<1>0. HandoffInv /\ CarrierInv
  BY Zenon DEF OwnershipInv
<1>1. /\ hand[p].pc = "reread" /\ hand'[p].pc = "enqueue" /\ hand'[p].gen = job.gen
      /\ Moving(p) /\ UNCHANGED <<outbox, scheduled, faults>>
  BY Zenon DEF RereadRetried, TypeOK, Moving, store, redis, stream, locals
<1>2. OutboxCarries' <=> OutboxCarries
  BY <1>1, OutboxFrame, Zenon DEF Moving
<1>3. HandoffInv'
  <2>1. \A q \in Movers : hand'[q].pc \in HandoffCalls \ {"unschedule"}
                            => hand[q].pc \in HandoffCalls \ {"unschedule"}
    BY <1>1, Zenon DEF Moving, HandoffCalls
  <2>2. \A q, r \in Movers :
          {hand'[q].pc, hand'[r].pc} \subseteq HandoffCalls \ {"unschedule"} => q = r
    BY <1>0, <2>1, OneHandoff, Zenon
  <2>3. \A q \in Movers :
          /\ hand'[q].pc \in {"enqueue", "checkEntry"} => hand'[q].gen = job.gen
          /\ hand'[q].pc \in {"reread", "enqueue", "checkEntry"} => outbox > 0
          /\ hand'[q].pc = "unschedule" => job.status = "cancelled"
    <3>1. \A q \in Movers \ {p} : hand'[q] = hand[q]
      BY <1>1, Zenon DEF Moving
    <3> QED
      BY <1>0, <1>1, <3>1, Zenon DEF HandoffInv
  <2> QED
    BY <1>0, <1>1, <1>2, <2>2, <2>3, Zenon DEF HandoffInv, Moving
<1>4. job.status # "absent"
  BY <1>0, <1>1, Zenon DEF CarrierInv
<1> QED
  BY <1>1, <1>2, <1>3, <1>4, HandingKeeps, Zenon DEF Moving, Preserved

\* Only the delayed entry of a cancelled job is removed by a request.
LEMMA UnscheduleKeeps ==
  ASSUME Stepping, NEW p \in Movers, Unschedule(p)
  PROVE  Preserved
<1> SUFFICES ASSUME TypeOK, TypeOK', OwnershipInv PROVE OwnershipInv'
  BY Zenon DEF Stepping, Preserved
<1>0. HandoffInv
  BY Zenon DEF OwnershipInv
<1>1. /\ hand[p].pc = "unschedule" /\ hand'[p].pc = "idle" /\ scheduled' = 0
      /\ Moving(p) /\ UNCHANGED <<outbox, faults>>
  BY Zenon DEF Unschedule, RemoveScheduled, Done, TypeOK, Moving, store, stream, locals
<1>2. job.status = "cancelled"
  BY <1>0, <1>1, Zenon DEF HandoffInv
<1>3. OutboxCarries' <=> OutboxCarries
  BY <1>1, OutboxFrame, Zenon DEF Moving
<1>4. HandoffInv'
  <2>1. \A q \in Movers : hand'[q].pc \in HandoffCalls => hand'[q] = hand[q]
    BY <1>1, Zenon DEF Moving, HandoffCalls
  <2>2. \A q, r \in Movers :
          {hand'[q].pc, hand'[r].pc} \subseteq HandoffCalls \ {"unschedule"} => q = r
    BY <1>0, <2>1, OneHandoff, Zenon
  <2>3. \A q \in Movers :
          /\ hand'[q].pc \in {"enqueue", "checkEntry"} => hand'[q].gen = job.gen
          /\ hand'[q].pc \in {"reread", "enqueue", "checkEntry"} => outbox > 0
    BY <1>0, <2>1, Zenon DEF HandoffInv, HandoffCalls
  <2> QED
    BY <1>0, <1>1, <1>2, <1>3, <2>2, <2>3, Zenon DEF HandoffInv, Moving
<1> QED
  BY <1>1, <1>2, <1>3, <1>4, HandingKeeps, Zenon DEF Moving, Preserved

\* The reconciler claims the outbox row that nobody else hands over.
LEMMA ClaimOutboxKeeps ==
  ASSUME Timely, Stepping, NEW p \in Movers, ClaimOutbox(p)
  PROVE  Preserved
<1> SUFFICES ASSUME TypeOK, TypeOK', OwnershipInv PROVE OwnershipInv'
  BY Zenon DEF Stepping, Preserved
<1>0. HandoffInv /\ CarrierInv
  BY Zenon DEF OwnershipInv
<1>1. /\ hand[p].pc = "idle" /\ hand'[p].pc = "checkEntry" /\ hand'[p].gen = outbox
      /\ outbox > 0 /\ ~InHandoff
      /\ Moving(p) /\ UNCHANGED <<outbox, scheduled, faults>>
  BY Zenon DEF ClaimOutbox, Timely, TypeOK, Moving, store, redis, stream, locals
<1>2. \A q \in Movers : hand[q].pc \notin HandoffCalls \ {"unschedule"}
  BY <1>1, Zenon DEF InHandoff
<1>3. OutboxCarries
  BY <1>1, <1>2, Zenon DEF OutboxCarries, HandoffCalls
<1>4. outbox = job.gen
  BY <1>0, <1>3, Zenon DEF HandoffInv
<1>5. OutboxCarries' <=> OutboxCarries
  BY <1>1, OutboxFrame, Zenon DEF Moving
<1>6. HandoffInv'
  <2>1. \A q \in Movers : hand'[q].pc \in HandoffCalls \ {"unschedule"} => q = p
    BY <1>1, <1>2, Zenon DEF Moving
  <2>2. \A q, r \in Movers :
          {hand'[q].pc, hand'[r].pc} \subseteq HandoffCalls \ {"unschedule"} => q = r
    BY <2>1, Zenon
  <2>3. \A q \in Movers :
          /\ hand'[q].pc \in {"enqueue", "checkEntry"} => hand'[q].gen = job.gen
          /\ hand'[q].pc \in {"reread", "enqueue", "checkEntry"} => outbox > 0
          /\ hand'[q].pc = "unschedule" => job.status = "cancelled"
    BY <1>0, <1>1, <1>4, Zenon DEF HandoffInv, Moving
  <2> QED
    BY <1>0, <1>1, <1>4, <1>5, <2>2, <2>3, Zenon DEF HandoffInv, Moving
<1>7. job.status # "absent"
  BY <1>0, <1>1 DEF CarrierInv
<1> QED
  BY <1>1, <1>5, <1>6, <1>7, HandingKeeps, Zenon DEF Moving, Preserved

\* A claimed outbox row is dropped without an entry only when the job was cancelled.
LEMMA CheckEntryKeeps ==
  ASSUME Stepping, NEW p \in Movers, CheckEntry(p)
  PROVE  Preserved
<1> SUFFICES ASSUME TypeOK, TypeOK', OwnershipInv PROVE OwnershipInv'
  BY Zenon DEF Stepping, Preserved
<1>0. HandoffInv /\ CarrierInv
  BY Zenon DEF OwnershipInv
<1>1. /\ hand[p].pc = "checkEntry" /\ hand[p].gen = job.gen /\ hand'[p].gen = hand[p].gen
      /\ hand'[p].pc = IF EntryCurrent(hand[p].gen) THEN "enqueue" ELSE "deleteOutbox"
  BY <1>0 DEF CheckEntry, Step, TypeOK, Handoffs, HandoffInv
<1>2. Moving(p) /\ UNCHANGED <<outbox, scheduled, faults>>
  BY Zenon DEF CheckEntry, Step, TypeOK, Moving, store, redis, stream, locals
<1>3. OutboxCarries
  BY <1>0, <1>1, OutboxStillCarries, Zenon
<1>4. /\ outbox = job.gen /\ outbox > 0
      /\ job.status \in Startable \cup {"cancelled"}
  BY <1>0, <1>3, Zenon DEF HandoffInv, OutboxCarries
<1>5. \A q, r \in Movers :
        {hand'[q].pc, hand'[r].pc} \subseteq HandoffCalls \ {"unschedule"} => q = r
  <2>1. \A q \in Movers : hand'[q].pc \in HandoffCalls \ {"unschedule"}
                            => hand[q].pc \in HandoffCalls \ {"unschedule"}
    BY <1>1, <1>2, Zenon DEF Moving, HandoffCalls
  <2> QED
    BY <1>0, <2>1, OneHandoff, Zenon
<1>6. CASE EntryCurrent(hand[p].gen)
  <2>1. OutboxCarries' <=> OutboxCarries
    BY <1>1, <1>2, <1>6, OutboxFrame, Zenon DEF Moving
  <2>2. HandoffInv'
    <3>1. \A q \in Movers :
            /\ hand'[q].pc \in {"enqueue", "checkEntry"} => hand'[q].gen = job.gen
            /\ hand'[q].pc \in {"reread", "enqueue", "checkEntry"} => outbox > 0
            /\ hand'[q].pc = "unschedule" => job.status = "cancelled"
      <4>1. hand'[p].pc = "enqueue" /\ \A q \in Movers \ {p} : hand'[q] = hand[q]
        BY <1>1, <1>2, <1>6, Zenon DEF Moving
      <4> QED
        BY <1>0, <1>1, <1>4, <4>1, Zenon DEF HandoffInv
    <3> QED
      BY <1>0, <1>2, <1>5, <2>1, <3>1, Zenon DEF HandoffInv, Moving
  <2>3. job.status # "absent"
    BY <1>4, Zenon DEF Startable
  <2> QED
    BY <1>2, <2>1, <2>2, <2>3, HandingKeeps, Zenon DEF Moving, Preserved
<1>7. CASE ~EntryCurrent(hand[p].gen)
  <2>1. job.status = "cancelled"
    BY <1>1, <1>4, <1>7, Zenon DEF EntryCurrent
  <2>2. ~OutboxCarries'
    BY <1>1, <1>7, Zenon DEF OutboxCarries
  <2>3. HandoffInv'
    <3>1. \A q \in Movers :
            /\ hand'[q].pc \in {"enqueue", "checkEntry"} => hand'[q].gen = job.gen
            /\ hand'[q].pc \in {"reread", "enqueue", "checkEntry"} => outbox > 0
            /\ hand'[q].pc = "unschedule" => job.status = "cancelled"
      <4>1. hand'[p].pc = "deleteOutbox" /\ \A q \in Movers \ {p} : hand'[q] = hand[q]
        BY <1>1, <1>2, <1>7, Zenon DEF Moving
      <4> QED
        BY <1>0, <4>1, Zenon DEF HandoffInv
    <3> QED
      BY <1>2, <1>5, <2>2, <3>1, Zenon DEF HandoffInv, Moving
  <2>4. job.status # "absent" /\ job.status \notin Open
    BY <2>1, Zenon DEF Open
  <2> QED
    BY <1>2, <2>3, <2>4, HandingKeeps, Zenon DEF Moving, Preserved
<1> QED
  BY <1>6, <1>7, Zenon

\* The outbox row is deleted when it carries nothing any more.
LEMMA DeleteOutboxKeeps ==
  ASSUME Stepping, NEW p \in Movers, DeleteOutbox(p)
  PROVE  Preserved
<1> SUFFICES ASSUME TypeOK, TypeOK', OwnershipInv PROVE OwnershipInv'
  BY Zenon DEF Stepping, Preserved
<1>0. HandoffInv /\ CarrierInv
  BY Zenon DEF OwnershipInv
<1>1. /\ hand[p].pc = "deleteOutbox" /\ hand'[p].pc = "idle" /\ outbox' = 0
      /\ Moving(p) /\ UNCHANGED <<scheduled, faults>>
  BY Zenon DEF DeleteOutbox, DeleteOutboxEntries, Done, TypeOK, Moving, redis, stream, locals
<1>2. ~OutboxCarries /\ ~OutboxCarries'
  BY <1>1 DEF OutboxCarries
<1>3. ASSUME NEW q \in Movers, hand'[q].pc \in HandoffCalls \ {"unschedule"} PROVE FALSE
  <2>1. q # p /\ hand[q].pc \in HandoffCalls \ {"unschedule"}
    BY <1>1, <1>3, Zenon DEF Moving, HandoffCalls
  <2>2. {hand[p].pc, hand[q].pc} \subseteq HandoffCalls \ {"unschedule"}
    BY <1>1, <2>1, Zenon DEF HandoffCalls
  <2> QED
    BY <1>0, <2>1, <2>2, Zenon DEF HandoffInv
<1>4. HandoffInv'
  <2>1. \A q \in Movers :
          hand'[q].pc \notin {"reread", "enqueue", "checkEntry", "deleteOutbox"}
    BY <1>3, Zenon DEF HandoffCalls
  <2>2. \A q \in Movers : hand'[q].pc = "unschedule" => job.status = "cancelled"
    BY <1>0, <1>1, Zenon DEF Moving, HandoffInv
  <2> QED
    BY <1>1, <1>2, <1>3, <2>1, <2>2, Zenon DEF HandoffInv, Moving
<1>5. job.status # "absent"
  BY <1>0, <1>1, Zenon DEF CarrierInv
<1> QED
  BY <1>1, <1>2, <1>4, <1>5, HandingKeeps, Zenon DEF Moving, Preserved

\* A handoff that ends before it reached Redis leaves the job to the outbox row.
LEMMA AbandonHandoffKeeps ==
  ASSUME Timely, Stepping, NEW p \in Movers, AbandonHandoff(p)
  PROVE  Preserved
<1> SUFFICES ASSUME TypeOK, TypeOK', OwnershipInv PROVE OwnershipInv'
  BY Zenon DEF Stepping, Preserved
<1>0. HandoffInv /\ CarrierInv
  BY Zenon DEF OwnershipInv
<1>1. /\ hand[p].pc \in HandoffCalls /\ hand[p].pc \in FaultPoints
      /\ hand'[p].pc = "idle" /\ faults' = faults + 1
      /\ Moving(p) /\ UNCHANGED <<outbox, scheduled>>
  BY Zenon DEF AbandonHandoff, CanFault, Done, TypeOK, Moving, store, redis, stream, locals
<1>2. hand[p].pc # "deleteOutbox"
  BY <1>1, Zenon DEF Timely, UnsafePoints
<1>3. OutboxCarries' <=> OutboxCarries
  BY <1>1, <1>2, OutboxFrame, Zenon DEF Moving
<1>4. HandoffInv'
  <2>1. \A q \in Movers : hand'[q].pc \in HandoffCalls => hand'[q] = hand[q]
    BY <1>1, Zenon DEF Moving, HandoffCalls
  <2>2. \A q, r \in Movers :
          {hand'[q].pc, hand'[r].pc} \subseteq HandoffCalls \ {"unschedule"} => q = r
    BY <1>0, <2>1, OneHandoff, Zenon
  <2>3. \A q \in Movers :
          /\ hand'[q].pc \in {"enqueue", "checkEntry"} => hand'[q].gen = job.gen
          /\ hand'[q].pc \in {"reread", "enqueue", "checkEntry"} => outbox > 0
          /\ hand'[q].pc = "unschedule" => job.status = "cancelled"
    BY <1>0, <2>1 DEF HandoffInv, HandoffCalls
  <2> QED
    BY <1>0, <1>1, <1>3, <2>2, <2>3, Zenon DEF HandoffInv, Moving
<1>5. job.status # "absent"
  BY <1>0, <1>1, Zenon DEF CarrierInv, HandoffCalls
<1> QED
  BY <1>1, <1>3, <1>4, <1>5, HandingKeeps, Zenon DEF Moving, Preserved

\* A request that writes the row: the stream and the workers stay as they are.
LEMMA RequestFrame ==
  ASSUME Stepping, job'.gen >= job.gen,
         UNCHANGED <<ready, acked, nextId, todo, msg, pc, faults>>
  PROVE  StreamInv' /\ HoldInv'
<1> TypeOK /\ TypeOK' /\ OwnershipInv
  BY Zenon DEF Stepping
<1>1. StreamInv /\ HoldInv
  BY Zenon DEF OwnershipInv
<1>2. \A v \in Workers : Free(v)' <=> Free(v)
  BY Zenon DEF Free
<1> QED
  BY <1>1, <1>2, HandsFrame, Zenon

\* A new job is carried by its outbox row.
LEMMA InsertKeeps ==
  ASSUME Stepping, FenceInv, NEW p \in Movers,
         CreateJob(p) \/ CreateDueInstance(p)
  PROVE  Preserved
<1> SUFFICES ASSUME TypeOK, TypeOK', OwnershipInv PROVE OwnershipInv'
  BY Zenon DEF Stepping, Preserved
<1>0. HandoffInv /\ CarrierInv /\ \A v \in Workers : OwnerInv(v)
  BY Zenon DEF OwnershipInv
<1> MaxAttempts \in Nat \ {0} /\ job \in JobRecords
  BY ConstantsAssumption, Zenon DEF ConstantsAssumption, TypeOK
<1>1. PICK s \in Startable, later \in BOOLEAN : Insert(p, s, later)
  BY Zenon DEF CreateJob, CreateDueInstance, Startable
<1>2. /\ job.status = "absent" /\ job' = [status |-> s, attempts |-> 0, gen |-> 1]
      /\ outbox' = 1 /\ hand'[p].pc = "enqueue" /\ hand'[p].gen = 1
      /\ \A q \in Movers \ {p} : hand'[q] = hand[q]
      /\ UNCHANGED <<scheduled, ready, acked, nextId, pc, msg, snap, attempt, todo, faults>>
  BY <1>1, Zenon DEF Insert, TypeOK, redis, stream, locals
<1>3. job'.status = s /\ job'.attempts = 0 /\ job'.gen = 1 /\ s \in Startable
  BY <1>2, Zenon
<1>4. /\ scheduled = 0 /\ ready = {} /\ acked = {} /\ job.gen = 0
      /\ \A w \in Workers : Free(w) /\ todo[w] = {}
      /\ \A q \in Movers : hand[q].pc = "idle"
  BY <1>0, <1>2, Zenon DEF CarrierInv, FenceInv
<1>5. StreamInv' /\ HoldInv'
  <2>1. job'.gen >= job.gen
    BY <1>3, <1>4
  <2> QED
    BY <1>2, <2>1, RequestFrame, Zenon
<1>6. \A v \in Workers : OwnerInv(v)'
  BY <1>2, <1>4, Zenon DEF OwnerInv, Owning, Attempting, Free
<1>7. OutboxCarries'
  <2>1. outbox' > 0
    BY <1>2
  <2>2. \A q \in Movers : hand'[q].pc # "deleteOutbox"
    BY <1>2, <1>4, Zenon
  <2> QED
    BY <2>1, <2>2, Zenon DEF OutboxCarries
<1>8. HandoffInv'
  <2>1. \A q \in Movers : q # p => hand'[q].pc = "idle"
    BY <1>2, <1>4, Zenon
  <2>2. \A q, r \in Movers :
          {hand'[q].pc, hand'[r].pc} \subseteq HandoffCalls \ {"unschedule"} => q = r
    BY <2>1, Zenon DEF HandoffCalls
  <2> QED
    BY <1>2, <1>3, <2>1, <2>2 DEF HandoffInv
<1>9. Carriers' = {}
  BY <1>2, <1>4, Zenon DEF Carriers
<1>10. CarrierInv'
  <2>1. scheduled' <= job'.gen /\ scheduled' # job'.gen /\ job'.gen > 0
    BY <1>2, <1>3, <1>4
  <2>2. job'.attempts <= MaxAttempts /\ job'.attempts < MaxAttempts
    BY <1>3
  <2>3. job'.status \in Startable /\ job'.status \notin {"running", "absent"}
    BY <1>3, Zenon DEF Startable
  <2> QED
    BY <1>7, <1>9, <2>1, <2>2, <2>3, Zenon DEF CarrierInv
<1> QED
  BY <1>5, <1>6, <1>8, <1>10, Zenon DEF OwnershipInv

\* The new life of a dead job is carried by its outbox row: whatever is left of the
\* old one is of an earlier generation.
LEMMA RetryJobKeeps ==
  ASSUME Timely, Stepping, NEW p \in Movers, RetryJob(p)
  PROVE  Preserved
<1> SUFFICES ASSUME TypeOK, TypeOK', OwnershipInv PROVE OwnershipInv'
  BY Zenon DEF Stepping, Preserved
<1>0. /\ StreamInv /\ HoldInv /\ HandoffInv /\ CarrierInv
      /\ \A v \in Workers : OwnerInv(v)
  BY Zenon DEF OwnershipInv
<1> /\ MaxAttempts \in Nat \ {0} /\ job \in JobRecords /\ ready \subseteq StreamEntries
    /\ msg \in [Workers -> Entries] /\ scheduled \in Nat
  BY ConstantsAssumption, Zenon DEF ConstantsAssumption, TypeOK
<1>1. /\ job.status = "dead" /\ ~InHandoff /\ job' = Revived /\ outbox' = job.gen + 1
      /\ hand'[p].pc = "reread"
      /\ \A q \in Movers \ {p} : hand'[q] = hand[q]
      /\ UNCHANGED <<scheduled, ready, acked, nextId, pc, msg, snap, attempt, todo, faults>>
  BY DEF RetryJob, Step, Timely, TypeOK, Handoffs, redis, stream, locals
<1>2. job'.status = "scheduled" /\ job'.attempts = 0 /\ job'.gen = job.gen + 1
  BY <1>1, Zenon DEF Revived
<1>3. \A q \in Movers : hand[q].pc \notin {"reread", "enqueue", "checkEntry", "deleteOutbox"}
  BY <1>1, Zenon DEF InHandoff, HandoffCalls
<1>4. \A q \in Movers : hand[q].pc # "unschedule"
  BY <1>0, <1>1, Zenon DEF HandoffInv
<1>5. StreamInv' /\ HoldInv'
  <2>1. job'.gen >= job.gen
    BY <1>2 DEF JobRecords
  <2> QED
    BY <1>1, <2>1, RequestFrame, Zenon
<1>6. ASSUME NEW v \in Workers PROVE OwnerInv(v)'
  <2>1. pc[v] \notin Owning \cup {"reenqueue", "removeScheduled"}
    BY <1>0, <1>1, Zenon DEF OwnerInv
  <2>2. pc[v] = "ack" => msg[v].gen < job.gen + 1
    <3>1. pc[v] = "ack" => msg[v].gen <= job.gen
      BY <1>0, InHand, Zenon DEF Free
    <3> QED
      BY <3>1 DEF Entries, JobRecords
  <2> QED
    BY <1>1, <1>2, <2>1, <2>2, Zenon DEF OwnerInv, Owning, Attempting
<1>7. \A q \in Movers : hand'[q].pc # "deleteOutbox"
  BY <1>1, <1>3, Zenon
<1>8. HandoffInv'
  <2>1. \A q \in Movers : q # p =>
          hand'[q].pc \notin {"reread", "enqueue", "checkEntry", "deleteOutbox", "unschedule"}
    BY <1>1, <1>3, <1>4, Zenon
  <2>2. \A q, r \in Movers :
          {hand'[q].pc, hand'[r].pc} \subseteq HandoffCalls \ {"unschedule"} => q = r
    BY <2>1, Zenon DEF HandoffCalls
  <2>3. outbox' = job'.gen /\ outbox' > 0 /\ job'.status \in Startable
    BY <1>1, <1>2 DEF Startable, JobRecords
  <2> QED
    BY <1>1, <2>1, <2>2, <2>3, Zenon DEF HandoffInv
<1>9. OutboxCarries'
  BY <1>1, <1>7 DEF OutboxCarries, JobRecords
<1>10. Carriers' = {}
  <2>1. \A m \in ready : m.gen # job.gen + 1
    BY <1>0 DEF StreamInv, StreamEntries, JobRecords
  <2> QED
    BY <1>1, <1>2, <2>1, Zenon DEF Carriers
<1>11. scheduled <= job.gen
  BY <1>0, <1>1, Zenon DEF CarrierInv, OwnerInv, Owning
<1>12. CarrierInv'
  <2>1. scheduled' <= job'.gen /\ scheduled' # job'.gen /\ job'.gen > 0
    BY <1>1, <1>2, <1>11 DEF JobRecords
  <2>2. job'.attempts <= MaxAttempts /\ job'.attempts < MaxAttempts
    BY <1>2
  <2> QED
    BY <1>2, <1>9, <1>10, <2>1, <2>2, Zenon DEF CarrierInv, Startable
<1> QED
  BY <1>5, <1>6, <1>8, <1>12, Zenon DEF OwnershipInv

\* A job is cancelled only while nobody runs it.
LEMMA CancelJobKeeps ==
  ASSUME Stepping, NEW p \in Movers, CancelJob(p)
  PROVE  Preserved
<1> SUFFICES ASSUME TypeOK, TypeOK', OwnershipInv PROVE OwnershipInv'
  BY Zenon DEF Stepping, Preserved
<1>0. /\ StreamInv /\ HoldInv /\ HandoffInv /\ CarrierInv
      /\ \A v \in Workers : OwnerInv(v)
  BY Zenon DEF OwnershipInv
<1> job \in JobRecords
  BY Zenon DEF TypeOK
<1>1. /\ job.status \in Startable /\ job' = [job EXCEPT !.status = "cancelled"]
      /\ hand[p].pc = "idle" /\ hand'[p].pc = "unschedule"
      /\ \A q \in Movers \ {p} : hand'[q] = hand[q]
      /\ UNCHANGED <<outbox, scheduled, ready, acked, nextId, pc, msg, snap, attempt, todo,
                     faults>>
  BY DEF CancelJob, UpdateStatus, Step, TypeOK, Handoffs, redis, stream, locals
<1>2. job'.status = "cancelled" /\ job'.gen = job.gen /\ job'.attempts = job.attempts
  BY <1>1, Zenon DEF JobRecords
<1>3. StreamInv' /\ HoldInv'
  <2>1. job'.gen >= job.gen
    BY <1>2 DEF JobRecords
  <2> QED
    BY <1>1, <2>1, RequestFrame, Zenon
<1>4. ASSUME NEW v \in Workers PROVE OwnerInv(v)'
  <2>1. pc[v] \notin Owning \cup {"removeScheduled"}
    BY <1>0, <1>1, Zenon DEF OwnerInv, Startable
  <2>2. pc[v] = "reenqueue" => msg[v].gen = job.gen /\ snap[v].gen = job.gen
    BY <1>0, Zenon DEF OwnerInv
  <2> QED
    BY <1>1, <1>2, <2>1, <2>2, Zenon DEF OwnerInv, Owning, Attempting, Terminal
<1>5. OutboxCarries' <=> OutboxCarries
  BY <1>1, OutboxFrame, Zenon
<1>6. HandoffInv'
  <2>1. \A q \in Movers : hand'[q].pc \in HandoffCalls \ {"unschedule"} => hand'[q] = hand[q]
    BY <1>1, Zenon DEF HandoffCalls
  <2>2. \A q, r \in Movers :
          {hand'[q].pc, hand'[r].pc} \subseteq HandoffCalls \ {"unschedule"} => q = r
    BY <1>0, <2>1, OneHandoff, Zenon
  <2>3. \A q \in Movers :
          /\ hand'[q].pc \in {"enqueue", "checkEntry"} => hand'[q].gen = job.gen
          /\ hand'[q].pc \in {"reread", "enqueue", "checkEntry"} => outbox > 0
    BY <1>0, <2>1, Zenon DEF HandoffInv, HandoffCalls
  <2> QED
    BY <1>0, <1>1, <1>2, <1>5, <2>2, <2>3, Zenon DEF HandoffInv
<1>7. scheduled <= job.gen
  BY <1>0, <1>1, Zenon DEF CarrierInv, OwnerInv, Owning, Startable
<1>8. CarrierInv'
  BY <1>0, <1>1, <1>2, <1>7, Zenon DEF CarrierInv, Startable
<1> QED
  BY <1>3, <1>4, <1>6, <1>8, Zenon DEF OwnershipInv

-----------------------------------------------------------------------------
(* The invariant *)

\* Nothing is listed as poison and nothing waits to be compensated, so the steps that
\* could take a job from its owner are not taken.
LEMMA Excluded ==
  ASSUME Timely, OwnershipInv
  PROVE  /\ \A w \in Workers : ~Quarantine(w) /\ ~QuarantineTrimmed(w) /\ ~Compensate(w)
         /\ \A w \in Workers : ~PoisonDataLost(w) /\ ~ScheduleRetryFails(w)
         /\ ~Trim
<1>1. \A w \in Workers : \A e \in todo[w] : e.kind # "poison"
  BY Zenon DEF OwnershipInv, HoldInv
<1>2. \A w \in Workers : ~Quarantine(w)
  BY <1>1, Zenon DEF Quarantine
<1>3. \A w \in Workers : ~QuarantineTrimmed(w) /\ ~PoisonDataLost(w)
  BY <1>1, Zenon DEF QuarantineTrimmed, PoisonDataLost, DropUnread
<1>4. \A w \in Workers : ~Compensate(w)
  BY Zenon DEF OwnershipInv, OwnerInv, Compensate
<1>5. "scheduleRetryError" \notin FaultPoints /\ "trim" \notin FaultPoints
  BY Zenon DEF Timely, UnsafePoints
<1>6. ~Trim /\ \A w \in Workers : ~ScheduleRetryFails(w)
  BY <1>5, Zenon DEF Trim, ScheduleRetryFails, CanFault
<1> QED
  BY <1>2, <1>3, <1>4, <1>6, Zenon

\* Steps of workers keep the invariant,
LEMMA WorkerStepKeeps ==
  ASSUME Timely, Stepping, FenceInv, PairsInv, NEW w \in Workers, ReadInv(w), WorkerStep(w)
  PROVE  Preserved
<1> SUFFICES ASSUME TypeOK, TypeOK', OwnershipInv PROVE OwnershipInv'
  BY Zenon DEF Stepping, Preserved
<1>1. CASE ReadNext(w) \/ ListStalePending(w) \/ Claim(w) \/ GetByID(w)
  BY <1>1, ReadNextKeeps, ListStalePendingKeeps, ClaimKeeps, GetByIDKeeps, Zenon DEF Preserved
<1>2. CASE Quarantine(w) \/ QuarantineTrimmed(w) \/ Compensate(w)
  BY <1>2, Excluded, Zenon
<1>3. CASE StartExecution(w) \/ StaleDelivery(w) \/ CheckCompleted(w) \/ CreateExecution(w)
  BY <1>3, StartExecutionKeeps, StaleDeliveryKeeps, CheckCompletedKeeps,
     CreateExecutionKeeps, Zenon DEF Preserved
<1>4. CASE ExecuteJob(w) \/ CompleteDone(w) \/ CompleteFailed(w) \/ DeadLetter(w)
  BY <1>4, AttemptKeeps, DeadLetterKeeps, Zenon DEF Preserved
<1>5. CASE Reschedule(w) \/ Reenqueue(w) \/ MarkDone(w) \/ MarkDead(w) \/ Ack(w)
  BY <1>5, RescheduleKeeps, ReenqueueKeeps, MarkKeeps, AckKeeps, Zenon DEF Preserved
<1>6. CASE ScheduleRetryEntry(w) \/ ScheduleRetry(w)
  BY <1>6, ScheduleRetryEntryKeeps, ScheduleRetryKeeps, Zenon DEF Preserved
<1> QED
  BY <1>1, <1>2, <1>3, <1>4, <1>5, <1>6, Zenon DEF WorkerStep, ProcessStep

\* and so do all others.
LEMMA TimelyStep ==
  ASSUME Timely, Stepping, FenceInv, PairsInv, \A w \in Workers : ReadInv(w), [Next]_vars
  PROVE  Preserved
<1> SUFFICES ASSUME TypeOK, TypeOK', OwnershipInv PROVE OwnershipInv'
  BY Zenon DEF Stepping, Preserved
<1>1. ASSUME NEW w \in Workers, WorkerStep(w) PROVE OwnershipInv'
  BY <1>1, WorkerStepKeeps, Zenon DEF Preserved
<1>2. ASSUME NEW h \in Handlers, Request(h) PROVE OwnershipInv'
  <2>1. h \in Movers
    BY Zenon DEF Movers
  <2> QED
    BY <1>2, <2>1, InsertKeeps, RetryJobKeeps, CancelJobKeeps, Zenon DEF Request, Preserved
<1>3. ASSUME NEW p \in Movers, HandoffStep(p) PROVE OwnershipInv'
  BY <1>3, RereadRetriedKeeps, UnscheduleKeeps, ClaimOutboxKeeps, CheckEntryKeeps,
     EnqueueKeeps, DeleteOutboxKeeps, Zenon DEF HandoffStep, Preserved
<1>4. CASE RunAtPasses \/ PromoteDue
  BY <1>4, RunAtPassesKeeps, PromoteDueKeeps, Zenon DEF Preserved
<1>5. CASE Fault
  BY <1>5, WorkerFaultKeeps, AbandonHandoffKeeps, GroupLostKeeps, Excluded, Zenon
     DEF Fault, Preserved
<1>6. CASE UNCHANGED vars
  <2>1. UNCHANGED <<job, outbox, scheduled, ready, acked, nextId, pc, msg, snap, attempt,
                    todo, hand, faults>>
    BY <1>6, Zenon DEF vars
  <2>2. OutboxCarries' <=> OutboxCarries
    BY <2>1, OutboxFrame, Zenon
  <2>3. HandoffInv'
    BY <2>1, <2>2, Zenon DEF OwnershipInv, HandoffInv
  <2> QED
    BY <2>1, <2>2, <2>3, HandingKeeps, Zenon DEF Preserved
<1> QED
  BY <1>1, <1>2, <1>3, <1>4, <1>5, <1>6, Zenon DEF Next

\* The steps that write the jobs row.
LEMMA RowWriters ==
  ASSUME [Next]_vars
  PROVE  \/ job' = job
         \/ \E w \in Workers : \/ StartExecution(w) \/ Reschedule(w) \/ ScheduleRetry(w)
                               \/ ScheduleRetryFails(w) \/ MarkDone(w) \/ MarkDead(w)
         \/ \E h \in Handlers : Request(h)
<1>1. ASSUME NEW w \in Workers, WorkerStep(w)
      PROVE  \/ job' = job
             \/ StartExecution(w) \/ Reschedule(w) \/ ScheduleRetry(w)
             \/ MarkDone(w) \/ MarkDead(w)
  BY <1>1, Zenon
     DEF WorkerStep, ProcessStep, ReadNext, ListStalePending, Claim, GetByID,
         Quarantine, QuarantineTrimmed, DropUnread, Take, StaleDelivery, CheckCompleted,
         Reenqueue, CreateExecution, ExecuteJob, CompleteDone,
         CompleteFailed, ScheduleRetryEntry, Compensate, DeadLetter, Ack, store
<1>2. ASSUME NEW p \in Movers, HandoffStep(p) PROVE job' = job
  BY <1>2, Zenon DEF HandoffStep, RereadRetried, Unschedule, ClaimOutbox, CheckEntry,
              Enqueue, DeleteOutbox, store
<1>3. ASSUME NEW w \in Workers, CallFails(w) \/ PoisonDataLost(w) \/ CrashWorker(w)
      PROVE  job' = job
  BY <1>3, Zenon DEF CallFails, PoisonDataLost, DropUnread, CrashWorker, store
<1>4. ASSUME NEW p \in Movers, AbandonHandoff(p) PROVE job' = job
  BY <1>4, Zenon DEF AbandonHandoff, store
<1>5. CASE RunAtPasses \/ PromoteDue \/ Trim \/ GroupLost \/ UNCHANGED vars
  BY <1>5, Zenon DEF RunAtPasses, PromoteDue, Trim, GroupLost, store, vars
<1> QED
  BY <1>1, <1>2, <1>3, <1>4, <1>5, Zenon DEF Next, Fault

\* A worker is about to call StartExecution because it has just read the row, or it was
\* so before, with the same message and the same row read.
LEMMA ComesToStart ==
  ASSUME TypeOK, [Next]_vars, NEW v \in Workers, pc'[v] = "startExecution"
  PROVE  \/ GetByID(v)
         \/ pc[v] = "startExecution" /\ msg'[v] = msg[v] /\ snap'[v] = snap[v]
<1>1. ASSUME NEW w \in Workers, WorkerStep(w), ~GetByID(w)
      PROVE  pc[v] = "startExecution" /\ msg'[v] = msg[v] /\ snap'[v] = snap[v]
  <2>1. CASE ReadNext(w) \/ ListStalePending(w) \/ Claim(w) \/ QuarantineTrimmed(w)
    BY <2>1, Zenon DEF ReadNext, ListStalePending, Claim, QuarantineTrimmed, DropUnread
  <2>2. CASE Quarantine(w)
    BY <2>2, Zenon DEF Quarantine, Take, TypeOK
  <2>3. CASE StartExecution(w) \/ StaleDelivery(w) \/ CreateExecution(w)
    BY <2>3, Zenon DEF StartExecution, StaleDelivery, CreateExecution, Goto, Release, TypeOK
  <2>7. CASE CheckCompleted(w)
    BY <2>7 DEF CheckCompleted, Recovery, Goto, TypeOK
  <2>4. CASE ExecuteJob(w) \/ CompleteDone(w) \/ CompleteFailed(w) \/ DeadLetter(w)
    BY <2>4, Zenon DEF ExecuteJob, CompleteDone, CompleteFailed, DeadLetter, Goto, TypeOK
  <2>5. CASE Reschedule(w) \/ Reenqueue(w) \/ MarkDone(w) \/ MarkDead(w) \/ Ack(w)
    BY <2>5, Zenon DEF Reschedule, Reenqueue, MarkDone, MarkDead, Ack, Release, Goto, TypeOK
  <2>6. CASE ScheduleRetryEntry(w) \/ ScheduleRetry(w) \/ Compensate(w)
    BY <2>6, Zenon DEF ScheduleRetryEntry, ScheduleRetry, Compensate, Release, Goto, TypeOK
  <2> QED
    BY <1>1, <2>1, <2>2, <2>3, <2>4, <2>5, <2>6, <2>7, Zenon DEF WorkerStep, ProcessStep
<1>2. ASSUME NEW w \in Workers, GetByID(w), w # v
      PROVE  pc[v] = "startExecution" /\ msg'[v] = msg[v] /\ snap'[v] = snap[v]
  BY <1>2, Zenon DEF GetByID, Take, TypeOK
<1>3. ASSUME NEW w \in Workers,
             CallFails(w) \/ PoisonDataLost(w) \/ CrashWorker(w) \/ ScheduleRetryFails(w)
      PROVE  pc[v] = "startExecution" /\ msg'[v] = msg[v] /\ snap'[v] = snap[v]
  BY <1>3, Zenon DEF CallFails, PoisonDataLost, DropUnread, CrashWorker,
                     ScheduleRetryFails, Release, Goto, TypeOK
<1>4. ASSUME UNCHANGED <<pc, msg, snap>>
      PROVE  pc[v] = "startExecution" /\ msg'[v] = msg[v] /\ snap'[v] = snap[v]
  BY <1>4, Zenon
<1>5. ASSUME NEW h \in Handlers, Request(h) PROVE UNCHANGED <<pc, msg, snap>>
  BY <1>5, Zenon DEF Request, CreateJob, CreateDueInstance, Insert, RetryJob, CancelJob, locals
<1>6. ASSUME NEW p \in Movers, HandoffStep(p) \/ AbandonHandoff(p)
      PROVE  UNCHANGED <<pc, msg, snap>>
  BY <1>6, Zenon DEF HandoffStep, RereadRetried, Unschedule, ClaimOutbox, CheckEntry,
                     Enqueue, DeleteOutbox, AbandonHandoff, locals
<1>7. CASE RunAtPasses \/ PromoteDue \/ Trim \/ GroupLost \/ UNCHANGED vars
  BY <1>4, <1>7, Zenon DEF RunAtPasses, PromoteDue, Trim, GroupLost, vars, locals
<1> QED
  BY <1>1, <1>2, <1>3, <1>4, <1>5, <1>6, <1>7, Zenon DEF Next, Fault

\* A write of the row neither ends nor begins what the message of such a worker is to
\* recover: that would take another worker with the same message.
LEMMA StartUndisturbed ==
  ASSUME Timely, TypeOK, OwnershipInv, [Next]_vars, job' # job,
         NEW v \in Workers, ReadInv(v),
         pc[v] = "startExecution", pc'[v] = "startExecution"
  PROVE  ~NeedsRecovery(snap[v], msg[v].gen) /\ ~NeedsRecovery(job', msg[v].gen)
<1>0. StreamInv /\ HoldInv /\ CarrierInv /\ \A w \in Workers : OwnerInv(w)
  BY Zenon DEF OwnershipInv
<1> job \in JobRecords
  BY Zenon DEF TypeOK
<1>1. ~Free(v) /\ pc[v] # "ackRedriven"
  BY Zenon DEF Free
<1>2. NeedsRecovery(snap[v], msg[v].gen) => job.status = "running" /\ msg[v].gen = job.gen
  BY Zenon DEF ReadInv, NeedsRecovery
<1>3. ASSUME NEW w \in Workers, StartExecution(w)
      PROVE  ~NeedsRecovery(snap[v], msg[v].gen) /\ ~NeedsRecovery(job', msg[v].gen)
  <2>1. /\ job.status \in Startable /\ msg[w].gen = job.gen /\ job'.gen = job.gen
        /\ w # v /\ ~Free(w) /\ pc[w] # "ackRedriven"
    BY <1>3, Zenon DEF StartExecution, CanStart, Started, Free, TypeOK
  <2>2. msg[v].gen # job.gen
    BY <1>0, <1>1, <2>1, OneHand, Zenon DEF Open, Startable
  <2> QED
    BY <1>2, <2>1, <2>2, Zenon DEF NeedsRecovery
<1>4. ASSUME NEW w \in Workers,
             Reschedule(w) \/ ScheduleRetry(w) \/ MarkDone(w) \/ MarkDead(w)
      PROVE  ~NeedsRecovery(snap[v], msg[v].gen) /\ ~NeedsRecovery(job', msg[v].gen)
  <2>1. pc[w] \in {"reschedule", "scheduleRetry", "markDone", "markDead"}
    BY <1>4, Zenon DEF Reschedule, ScheduleRetry, MarkDone, MarkDead
  <2>2. pc[w] \in Owning /\ w # v /\ ~Free(w) /\ pc[w] # "ackRedriven"
    BY <2>1, Zenon DEF Owning, Attempting, Free
  <2>3. job.status = "running" /\ msg[w].gen = job.gen
    BY <2>2, OwnerAlone, Zenon
  <2>4. msg[v].gen # job.gen
    BY <1>0, <1>1, <2>2, <2>3, OneHand, Zenon DEF Open
  <2>5. job'.status # "running"
    BY <1>4, <2>3 DEF Reschedule, ScheduleRetry, CanReschedule, Rescheduled, MarkDone,
                      MarkDead, UpdateStatus, JobRecords
  <2> QED
    BY <1>2, <2>4, <2>5, Zenon DEF NeedsRecovery
<1>5. ASSUME NEW h \in Handlers, Request(h)
      PROVE  ~NeedsRecovery(snap[v], msg[v].gen) /\ ~NeedsRecovery(job', msg[v].gen)
  <2>1. job.status # "running" /\ job'.status # "running"
    <3>1. CASE CreateJob(h) \/ CreateDueInstance(h)
      <4>1. PICK s \in Startable, later \in BOOLEAN : Insert(h, s, later)
        BY <3>1, Zenon DEF CreateJob, CreateDueInstance, Startable
      <4>2. job.status = "absent" /\ job' = [status |-> s, attempts |-> 0, gen |-> 1]
        BY <4>1, Zenon DEF Insert
      <4> QED
        BY <4>2 DEF Startable
    <3>2. CASE RetryJob(h)
      BY <3>2, Zenon DEF RetryJob, Revived
    <3>3. CASE CancelJob(h)
      BY <3>3 DEF CancelJob, UpdateStatus, Startable, JobRecords
    <3> QED
      BY <1>5, <3>1, <3>2, <3>3, Zenon DEF Request
  <2> QED
    BY <1>2, <2>1, Zenon DEF NeedsRecovery
<1>6. \A w \in Workers : ~ScheduleRetryFails(w)
  BY Excluded, Zenon
<1> QED
  BY <1>3, <1>4, <1>5, <1>6, RowWriters, Zenon

\* So the row a worker has read serves it as well as the row itself would.
LEMMA ReadStep ==
  ASSUME Timely, TypeOK, TypeOK', OwnershipInv, [Next]_vars, NEW v \in Workers, ReadInv(v)
  PROVE  ReadInv(v)'
<1> SUFFICES ASSUME pc'[v] = "startExecution"
             PROVE  /\ msg'[v].gen <= snap'[v].gen
                    /\ NeedsRecovery(snap'[v], msg'[v].gen) \/ NeedsRecovery(job', msg'[v].gen)
                         => snap'[v] = job'
  BY Zenon DEF ReadInv, NeedsRecovery
<1>1. CASE GetByID(v)
  <2>1. PICK e \in todo[v] : e.kind = "process" /\ Take(v, e, "startExecution")
    BY <1>1, Zenon DEF GetByID
  <2>2. msg'[v] = e /\ snap'[v] = job /\ job' = job
    BY <2>1, Zenon DEF Take, TypeOK, store
  <2>3. e \in Holding(v)
    BY <2>1, Zenon DEF Holding
  <2>4. e.gen <= job.gen
    <3>1. PICK m \in Pending : m.id = e.id /\ m.gen = e.gen
      BY <2>3, Zenon DEF OwnershipInv, HoldInv
    <3> QED
      BY <3>1, Zenon DEF OwnershipInv, StreamInv, Pending
  <2> QED
    BY <2>2, <2>4, Zenon
<1>2. CASE pc[v] = "startExecution" /\ msg'[v] = msg[v] /\ snap'[v] = snap[v]
  <2>1. CASE job' = job
    BY <1>2, <2>1, Zenon DEF ReadInv
  <2>2. CASE job' # job
    BY <1>2, <2>2, StartUndisturbed, Zenon DEF ReadInv
  <2> QED
    BY <2>1, <2>2, Zenon
<1> QED
  BY <1>1, <1>2, ComesToStart, Zenon

\* Before the job exists there is nothing to carry.
LEMMA TimelyInit == Init => TimelyInv
<1> SUFFICES ASSUME Init PROVE TimelyInv
  OBVIOUS
<1>1. /\ job.status = "absent" /\ job.attempts = 0 /\ job.gen = 0
      /\ outbox = 0 /\ scheduled = 0 /\ ready = {} /\ acked = {}
  BY Zenon DEF Init, NoJob
<1>2. \A w \in Workers : pc[w] = "idle" /\ msg[w].kind = "none" /\ todo[w] = {}
  BY Zenon DEF Init, NoMsg
<1>3. \A p \in Movers : hand[p].pc = "idle"
  BY Zenon DEF Init, Done
<1>4. StreamInv
  BY <1>1, Zenon DEF StreamInv
<1>5. HoldInv
  BY <1>2, Zenon DEF HoldInv, Holding, Free
<1>6. \A w \in Workers : OwnerInv(w)
  BY <1>2, Zenon DEF OwnerInv, Owning, Attempting
<1>7. HandoffInv
  BY <1>1, <1>3 DEF HandoffInv, HandoffCalls, OutboxCarries
<1>8. CarrierInv
  BY <1>1, <1>2, <1>3, BoundsAreNaturals DEF CarrierInv, Startable, Free
<1>9. \A w \in Workers : ReadInv(w)
  BY <1>2, Zenon DEF ReadInv
<1> QED
  BY <1>4, <1>5, <1>6, <1>7, <1>8, <1>9, Zenon DEF TimelyInv, OwnershipInv

\* When nothing races and no fault strikes between an XADD and what concludes it, the
\* job is always carried by exactly one thing and owned by at most one worker.
THEOREM TimelyAlways ==
  ASSUME Timely
  PROVE  Spec => []TimelyInv
<1>1. TypeOK /\ TypeOK' /\ FenceInv /\ PairsInv /\ TimelyInv /\ [Next]_vars => TimelyInv'
  BY TimelyStep, ReadStep, Zenon DEF Stepping, Preserved, TimelyInv
<1> QED
  BY <1>1, TimelyInit, PairsHold, PTL DEF Spec

\* Process and StartExecution: at most one worker executes the job at a time.
THEOREM OneRunnerWhenTimely ==
  ASSUME Timely
  PROVE  Spec => []SingleRunner
<1>1. TypeOK /\ TimelyInv => SingleRunner
  <2> SUFFICES ASSUME TypeOK, OwnershipInv, NEW v \in Workers, NEW w \in Workers,
                      Executing(v), Executing(w), v # w
               PROVE  FALSE
    BY Zenon DEF SingleRunner, TimelyInv
  <2>1. pc[v] \in Owning /\ pc[w] \in Owning
    BY Zenon DEF Executing, Owning
  <2> QED
    BY <2>1, OwnerAlone, Zenon
<1> QED
  BY <1>1, TypeCorrect, TimelyAlways, PTL

\* StartExecution, ScheduleRetry and the re-drive of stale jobs: a life of the job never starts more
\* than max_attempts attempts.
THEOREM AttemptsBoundedWhenTimely ==
  ASSUME Timely
  PROVE  Spec => []AttemptsBounded
<1>1. TimelyInv => AttemptsBounded
  BY Zenon DEF TimelyInv, OwnershipInv, CarrierInv, AttemptsBounded
<1> QED
  BY <1>1, TimelyAlways, PTL

\* The outbox, the retry and the redelivery: a job that is to run or runs is never lost,
\* as the outbox row, the delayed entry or an entry of the stream stands for it.
THEOREM NoJobLostWhenTimely ==
  ASSUME Timely
  PROVE  Spec => []NoLostJob
<1>1. TimelyInv => NoLostJob
  BY Zenon DEF TimelyInv, OwnershipInv, CarrierInv, HandoffInv, NoLostJob, Carriers, Startable
<1> QED
  BY <1>1, TimelyAlways, PTL

-----------------------------------------------------------------------------
(* The row implements the life of a job *)

\* Each write of the row takes an edge of the lifecycle.
LEMMA LifecycleStep ==
  ASSUME Timely, TypeOK, FenceInv, OwnershipInv, [Next]_vars
  PROVE  [LC!Next]_(LC!vars)
<1>0. HandoffInv /\ CarrierInv /\ \A v \in Workers : OwnerInv(v)
  BY Zenon DEF OwnershipInv
<1> job \in JobRecords /\ MaxAttempts \in Nat
  BY BoundsAreNaturals, Zenon DEF TypeOK
<1> SUFFICES LC!Next \/ UNCHANGED LC!vars
  OBVIOUS
<1>1. CASE job' = job
  BY <1>1, Zenon DEF LC!vars
<1>2. ASSUME NEW w \in Workers, StartExecution(w) PROVE LC!Start
  <2>1. job.status \in Startable /\ job' = Started
    BY <1>2, Zenon DEF StartExecution, CanStart
  <2>2. job.attempts < MaxAttempts
    BY <1>0, <2>1, Zenon DEF CarrierInv
  <2> QED
    BY <2>1, <2>2, Zenon DEF Started, LC!Start, LC!Waiting, Startable
<1>3. ASSUME NEW w \in Workers, Reschedule(w) PROVE LC!Redrive
  <2>1. pc[w] = "reschedule" /\ job' = [job EXCEPT !.status = "scheduled"]
    BY <1>3, Zenon DEF Reschedule, UpdateStatus
  <2>2. job.status = "running" /\ job.attempts < MaxAttempts
    BY <1>0, <2>1, Zenon DEF OwnerInv, Owning
  <2> QED
    BY <2>1, <2>2, Zenon DEF LC!Redrive, JobRecords
<1>4. ASSUME NEW w \in Workers, ScheduleRetry(w) PROVE LC!Reschedule
  <2>1. pc[w] = "scheduleRetry"
    BY <1>4, Zenon DEF ScheduleRetry
  <2>2. job.status = "running" /\ job.attempts < MaxAttempts
    BY <1>0, <2>1, Zenon DEF OwnerInv, Owning, Attempting
  <2>3. job' = Rescheduled
    BY <1>4, <2>2, Zenon DEF ScheduleRetry, CanReschedule
  <2> QED
    BY <2>2, <2>3, Zenon DEF LC!Reschedule, Rescheduled
<1>5. ASSUME NEW w \in Workers, MarkDone(w) PROVE LC!Succeed
  <2>1. pc[w] = "markDone" /\ job' = [job EXCEPT !.status = "done"]
    BY <1>5, Zenon DEF MarkDone, UpdateStatus
  <2>2. job.status = "running"
    BY <1>0, <2>1, Zenon DEF OwnerInv, Owning
  <2> QED
    BY <2>1, <2>2, Zenon DEF LC!Succeed, JobRecords
<1>6. ASSUME NEW w \in Workers, MarkDead(w) PROVE LC!Die
  <2>1. pc[w] = "markDead" /\ job' = [job EXCEPT !.status = "dead"]
    BY <1>6, Zenon DEF MarkDead, UpdateStatus
  <2>2. job.status = "running"
    BY <1>0, <2>1, Zenon DEF OwnerInv, Owning
  <2> QED
    BY <2>1, <2>2, Zenon DEF LC!Die, JobRecords
<1>7. ASSUME NEW h \in Handlers, CreateJob(h) \/ CreateDueInstance(h) PROVE LC!Submit
  <2>1. PICK s \in Startable, later \in BOOLEAN : Insert(h, s, later)
    BY <1>7, Zenon DEF CreateJob, CreateDueInstance, Startable
  <2>2. job.status = "absent" /\ job' = [status |-> s, attempts |-> 0, gen |-> 1]
    BY <2>1, Zenon DEF Insert
  <2>3. job.attempts = 0
    BY <2>2, Zenon DEF FenceInv
  <2> QED
    BY <2>2, <2>3, Zenon DEF LC!Submit, LC!Waiting, Startable
<1>8. ASSUME NEW h \in Handlers, RetryJob(h) PROVE LC!Revive
  BY <1>8, Zenon DEF RetryJob, Revived, LC!Revive
<1>9. ASSUME NEW h \in Handlers, CancelJob(h) PROVE LC!Cancel
  BY <1>9, Zenon DEF CancelJob, UpdateStatus, LC!Cancel, LC!Waiting, Startable, JobRecords
<1>10. \A w \in Workers : ~ScheduleRetryFails(w)
  BY Excluded, Zenon
<1> QED
  BY <1>1, <1>2, <1>3, <1>4, <1>5, <1>6, <1>7, <1>8, <1>9, <1>10, RowWriters, Zenon
     DEF LC!Next, Request

\* The UPDATEs of the job repository: the row goes through the statuses as its client is
\* told, done and cancelled are final, dead is left only by a retry, and no late write
\* takes another edge.
THEOREM LifecycleImplemented ==
  ASSUME Timely
  PROVE  Spec => ImplementsLifecycle
<1>1. Init => LC!Init
  BY DEF Init, NoJob, LC!Init
<1>2. TypeOK /\ FenceInv /\ TimelyInv /\ [Next]_vars => [LC!Next]_(LC!vars)
  BY LifecycleStep, Zenon DEF TimelyInv
<1> QED
  BY <1>1, <1>2, PairsHold, TimelyAlways, PTL DEF Spec, ImplementsLifecycle, LC!Spec
=============================================================================
