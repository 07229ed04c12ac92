-------------------------- MODULE LeaderLockProofs --------------------------
(***************************************************************************)
(* Proofs about LeaderLock, for every number of schedulers, every TTL and  *)
(* every lag of the heartbeat that leaves it earlier than the lease's end. *)
(***************************************************************************)
EXTENDS LeaderLock, TLAPS

\* The heartbeat's period is a positive number, and with its lag below the TTL.
LEMMA IntervalFits ==
  /\ TTL \in Nat /\ TTL >= 2 /\ MaxLag \in Nat /\ MaxMishaps \in Nat
  /\ Interval \in Nat /\ Interval >= 1 /\ Interval + MaxLag < TTL
BY LeaseAssumption DEF LeaseAssumption, Interval

\* The key holds an id or nothing, and has a lifetime whenever it is set.
LEMMA TypeStep == TypeOK /\ [Next]_vars => TypeOK'
<1> SUFFICES ASSUME TypeOK, [Next]_vars PROVE TypeOK'
  OBVIOUS
<1> USE IntervalFits, LeaseAssumption DEF TypeOK, Running, LeaseAssumption
<1>1. ASSUME NEW s \in Schedulers, Tick(s) PROVE TypeOK'
  BY <1>1 DEF Tick, Goto
<1>2. ASSUME NEW s \in Schedulers, IsLeader(s) PROVE TypeOK'
  BY <1>2 DEF IsLeader, Goto, StartHeartbeat
<1>3. ASSUME NEW s \in Schedulers, Acquire(s) PROVE TypeOK'
  BY <1>3 DEF Acquire, Goto, SetNX, StartHeartbeat
<1>4. ASSUME NEW s \in Schedulers, Act(s) PROVE TypeOK'
  BY <1>4 DEF Act, Goto
<1>5. ASSUME NEW s \in Schedulers, Release(s) PROVE TypeOK'
  BY <1>5 DEF Release, Goto, Owns
<1>6. ASSUME NEW s \in Schedulers, Restart(s) PROVE TypeOK'
  BY <1>6 DEF Restart, Goto, Slip
<1>7. ASSUME NEW s \in Schedulers, Renew(s) PROVE TypeOK'
  BY <1>7 DEF Renew, Owns
<1>8. ASSUME NEW s \in Schedulers, RenewFails(s) PROVE TypeOK'
  BY <1>8 DEF RenewFails, Mishap, Slip
<1>9. ASSUME NEW s \in Schedulers, AcquireFails(s) PROVE TypeOK'
  BY <1>9 DEF AcquireFails, Goto, SetNX, Mishap, Slip
<1>10. ASSUME NEW s \in Schedulers, Cancel(s) PROVE TypeOK'
  BY <1>10 DEF Cancel, Goto, Mishap
<1>11. ASSUME NEW s \in Schedulers, Crash(s) PROVE TypeOK'
  BY <1>11 DEF Crash, Goto, Mishap
<1>12. ASSUME NEW s \in Schedulers, IsLeaderFails(s) PROVE TypeOK'
  BY <1>12 DEF IsLeaderFails, Goto, Mishap
<1>13. CASE TimePasses
  BY <1>13 DEF TimePasses
<1>14. CASE UNCHANGED vars
  BY <1>14 DEF vars
<1> QED
  BY <1>1, <1>2, <1>3, <1>4, <1>5, <1>6, <1>7, <1>8, <1>9, <1>10, <1>11, <1>12, <1>13,
     <1>14 DEF Next, Step

\* Types, and that every lease set by Acquire or Renew runs out.
THEOREM TypeCorrect == Spec => []TypeOK
<1>1. Init => TypeOK
  <2>1. Init => slipped \in BOOLEAN
    BY Zenon DEF Init
  <2> QED
    BY <2>1, IntervalFits DEF Init, TypeOK, Running
<1> QED
  BY <1>1, TypeStep, PTL DEF Spec

\* Until a renewal or acquisition fails or an id is reused, every step keeps the lease
\* ahead of the heartbeat.
LEMMA LeaseStep == TypeOK /\ LeaseInv /\ [Next]_vars => LeaseInv'
<1> SUFFICES ASSUME TypeOK, LeaseInv, [Next]_vars PROVE LeaseInv'
  OBVIOUS
<1> USE IntervalFits, LeaseAssumption DEF TypeOK, LeaseInv, Running, LeaseAssumption
<1>1. ASSUME NEW s \in Schedulers, Tick(s) PROVE LeaseInv'
  BY <1>1 DEF Tick, Goto
<1>2. ASSUME NEW s \in Schedulers, IsLeader(s) PROVE LeaseInv'
  BY <1>2 DEF IsLeader, Goto, StartHeartbeat
<1>3. ASSUME NEW s \in Schedulers, Acquire(s) PROVE LeaseInv'
  BY <1>3 DEF Acquire, Goto, SetNX, StartHeartbeat
<1>4. ASSUME NEW s \in Schedulers, Act(s) PROVE LeaseInv'
  BY <1>4 DEF Act, Goto
<1>5. ASSUME NEW s \in Schedulers, Release(s) PROVE LeaseInv'
  BY <1>5 DEF Release, Goto, Owns
<1>6. ASSUME NEW s \in Schedulers, Restart(s) PROVE LeaseInv'
  BY <1>6 DEF Restart, Goto, Slip
<1>7. ASSUME NEW s \in Schedulers, Renew(s) PROVE LeaseInv'
  BY <1>7 DEF Renew, Owns
<1>8. ASSUME NEW s \in Schedulers, RenewFails(s) PROVE LeaseInv'
  BY <1>8 DEF RenewFails, Mishap, Slip
<1>9. ASSUME NEW s \in Schedulers, AcquireFails(s) PROVE LeaseInv'
  BY <1>9 DEF AcquireFails, Goto, SetNX, Mishap, Slip
<1>10. ASSUME NEW s \in Schedulers, Cancel(s) PROVE LeaseInv'
  BY <1>10 DEF Cancel, Goto, Mishap
<1>11. ASSUME NEW s \in Schedulers, Crash(s) PROVE LeaseInv'
  BY <1>11 DEF Crash, Goto, Mishap
<1>12. ASSUME NEW s \in Schedulers, IsLeaderFails(s) PROVE LeaseInv'
  BY <1>12 DEF IsLeaderFails, Goto, Mishap
<1>13. CASE TimePasses
  BY <1>13 DEF TimePasses
<1>14. CASE UNCHANGED vars
  BY <1>14 DEF vars
<1> QED
  BY <1>1, <1>2, <1>3, <1>4, <1>5, <1>6, <1>7, <1>8, <1>9, <1>10, <1>11, <1>12, <1>13,
     <1>14 DEF Next, Step

\* A scheduler that goes on acting holds the lease, and its heartbeat renews it before
\* it can expire, as long as no lease has slipped.
THEOREM LeaseHolds == Spec => []LeaseInv
<1>1. Init => LeaseInv
  BY LeaseAssumption DEF Init, LeaseInv, LeaseAssumption
<1>2. TypeOK /\ LeaseInv /\ [Next]_vars => LeaseInv'
  BY LeaseStep
<1> QED
  BY <1>1, <1>2, TypeCorrect, PTL DEF Spec

\* Crashes, shutdowns and failed IsLeader calls alone never let two schedulers act at a time.
THEOREM OneActs == Spec => []SingleActor
<1>1. LeaseInv => SingleActor
  BY DEF LeaseInv, SingleActor
<1> QED
  BY <1>1, LeaseHolds, PTL

\* The scripts of Renew and Release protect a lease from everybody but its owner.
THEOREM LeasesRespected == Spec => LeaseRespected
<1>1. TypeOK /\ [Next]_vars => OwnersDecide
  <2> SUFFICES ASSUME TypeOK, [Next]_vars, NEW q \in Schedulers, lock = q
               PROVE  OwnerDecides(q)
    BY DEF OwnersDecide, OwnerDecides
  <2>1. q # None /\ left \in Nat
    BY LeaseAssumption DEF LeaseAssumption, TypeOK
  <2>2. ASSUME NEW s \in Schedulers,
               Tick(s) \/ IsLeader(s) \/ Acquire(s) \/ Act(s) \/ IsLeaderFails(s)
               \/ AcquireFails(s) \/ Cancel(s) \/ Crash(s)
        PROVE  lock' = lock /\ left' = left
    BY <2>1, <2>2 DEF Tick, IsLeader, Acquire, Act, IsLeaderFails, AcquireFails, SetNX,
       Cancel, Crash
  <2>3. ASSUME NEW s \in Schedulers, Release(s) PROVE OwnerDecides(q)
    BY <2>1, <2>3 DEF Release, Owns, OwnerDecides
  <2>4. ASSUME NEW s \in Schedulers, Restart(s) PROVE OwnerDecides(q)
    BY <2>1, <2>4 DEF Restart, OwnerDecides
  <2>5. ASSUME NEW s \in Schedulers, Renew(s) \/ RenewFails(s)
        PROVE  lock' = q /\ (left' = left \/ hb[q] = "alive")
    BY <2>5 DEF Renew, RenewFails, Owns
  <2>6. CASE TimePasses
    BY <2>1, <2>6 DEF TimePasses, OwnerDecides
  <2>7. CASE UNCHANGED vars
    BY <2>1, <2>7 DEF vars, OwnerDecides
  <2> QED
    BY <2>1, <2>2, <2>3, <2>4, <2>5, <2>6, <2>7 DEF Next, Step, OwnerDecides
<1>2. TypeOK /\ [Next]_vars => [OwnersDecide]_vars
  BY <1>1
<1> QED
  BY <1>2, TypeCorrect, PTL DEF Spec, LeaseRespected
=============================================================================
