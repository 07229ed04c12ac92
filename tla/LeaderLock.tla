----------------------------- MODULE LeaderLock -----------------------------
(***************************************************************************)
(* Leader election among schedulers: the lease in the Redis key            *)
(* scheduler:leader, the tick loop of Scheduler.Run and the heartbeat      *)
(* goroutine it starts.  Time is discrete and only differences count: left *)
(* is what remains of the lease, age what has passed since the heartbeat's *)
(* ticker last fired.  A heartbeat is at most MaxLag late.                 *)
(***************************************************************************)
EXTENDS Naturals, FiniteSets

CONSTANTS
  Schedulers,   \* scheduler processes, each with an instance id of its own
  None,         \* the key is not set
  Gone,         \* the key holds the id of a process that has been replaced
  TTL,          \* lifetime of the lease
  MaxLag,       \* how late a heartbeat may be
  Mishaps,      \* what else may go wrong, see MishapKinds
  MaxMishaps    \* bound: mishaps, failed checks, crashes and shutdowns

(***************************************************************************)
(*   renew    a Renew returns an error, whether or not it was carried out; *)
(*   acquire  the same for an Acquire;                                     *)
(*   restart  a process restarts under the instance id it had before       *)
(*            (SCHEDULER_INSTANCE_ID is set) instead of a fresh one.       *)
(***************************************************************************)
MishapKinds == {"renew", "acquire", "restart"}

\* The period of the heartbeat's ticker
Interval_WholeLease == TTL
Interval == TTL \div 2

ASSUME LeaseAssumption ==
  /\ TTL \in Nat /\ TTL >= 2
  /\ MaxLag \in Nat /\ (TTL \div 2) + MaxLag < TTL
  /\ MaxMishaps \in Nat
  /\ Mishaps \subseteq MishapKinds
  /\ None \notin Schedulers /\ Gone \notin Schedulers /\ None # Gone

VARIABLES
  lock,     \* value of scheduler:leader
  left,     \* what remains of its lifetime
  pc,       \* where each scheduler is in Run
  hb,       \* its heartbeat: none, alive, or dead (returned, result not read)
  age,      \* time since the heartbeat's ticker fired
  mishaps,  \* mishaps so far
  slipped   \* a mishap of MishapKinds has been among them

vars == <<lock, left, pc, hb, age, mishaps, slipped>>

Init ==
  /\ lock = None /\ left = 0
  /\ pc = [s \in Schedulers |-> "wait"]
  /\ hb = [s \in Schedulers |-> "none"]
  /\ age = [s \in Schedulers |-> 0]
  /\ mishaps = 0 /\ slipped = FALSE

Running == {"wait", "check", "acquire", "act"}
Goto(s, p) == pc' = [pc EXCEPT ![s] = p]

-----------------------------------------------------------------------------
(* The lock: scripts and commands on the key *)

\* SET NX PX
SetNX_NoExpiry(s) ==
  IF lock = None THEN lock' = s /\ left' = 0 ELSE UNCHANGED <<lock, left>>
SetNX(s) ==
  IF lock = None THEN lock' = s /\ left' = TTL ELSE UNCHANGED <<lock, left>>

\* The scripts act on the key only if it holds the caller's id.
Owns_Unchecked(s) == lock # None
Owns(s) == lock = s

-----------------------------------------------------------------------------
(* The tick loop *)

\* A heartbeat is started unless the loop still has one, alive or not.
StartHeartbeat_Always(s) ==
  /\ hb' = [hb EXCEPT ![s] = "alive"]
  /\ age' = [age EXCEPT ![s] = 0]
StartHeartbeat(s) ==
  IF hb[s] = "none"
    THEN hb' = [hb EXCEPT ![s] = "alive"] /\ age' = [age EXCEPT ![s] = 0]
    ELSE UNCHANGED <<hb, age>>

\* The tick: the result of a heartbeat that has ended is read first.
Tick(s) ==
  /\ pc[s] = "wait"
  /\ hb' = [hb EXCEPT ![s] = IF @ = "dead" THEN "none" ELSE @]
  /\ Goto(s, "check")
  /\ UNCHANGED <<lock, left, age, mishaps, slipped>>

IsLeader(s) ==
  /\ pc[s] = "check"
  /\ IF lock = s
       THEN Goto(s, "act") /\ StartHeartbeat(s)
       ELSE Goto(s, "acquire") /\ UNCHANGED <<hb, age>>
  /\ UNCHANGED <<lock, left, mishaps, slipped>>

Acquire(s) ==
  /\ pc[s] = "acquire"
  /\ SetNX(s)
  /\ IF lock = None
       THEN Goto(s, "act") /\ StartHeartbeat(s)
       ELSE Goto(s, "wait") /\ UNCHANGED <<hb, age>>
  /\ UNCHANGED <<mishaps, slipped>>

\* PromoteDue, TickCronJobs and ReconcileOutbox have run, or one has failed.
Act(s) ==
  /\ pc[s] = "act"
  /\ Goto(s, "wait")
  /\ UNCHANGED <<lock, left, hb, age, mishaps, slipped>>

\* The ticker of the heartbeat fires; it keeps its rate.
Renew(s) ==
  /\ hb[s] = "alive" /\ age[s] >= Interval
  /\ age' = [age EXCEPT ![s] = @ - Interval]
  /\ IF Owns(s)
       THEN left' = TTL /\ UNCHANGED hb
       ELSE hb' = [hb EXCEPT ![s] = "dead"] /\ UNCHANGED left
  /\ UNCHANGED <<lock, pc, mishaps, slipped>>

\* Run returns: the heartbeat is stopped, then the lock is released.
Release(s) ==
  /\ pc[s] = "release"
  /\ IF Owns(s) THEN lock' = None /\ left' = 0 ELSE UNCHANGED <<lock, left>>
  /\ Goto(s, "down")
  /\ UNCHANGED <<hb, age, mishaps, slipped>>

-----------------------------------------------------------------------------
(* Time, and what can go wrong *)

TimePasses ==
  /\ \A s \in Schedulers : hb[s] = "alive" => age[s] < Interval + MaxLag
  /\ left' = IF left = 0 THEN 0 ELSE left - 1
  /\ lock' = IF left = 1 THEN None ELSE lock
  /\ age' = [s \in Schedulers |-> IF hb[s] = "alive" THEN age[s] + 1 ELSE age[s]]
  /\ UNCHANGED <<pc, hb, mishaps, slipped>>

Mishap == mishaps < MaxMishaps /\ mishaps' = mishaps + 1
Slip(kind) == kind \in Mishaps /\ slipped' = TRUE

\* The first error ends the heartbeat.
RenewFails(s) ==
  /\ Slip("renew") /\ Mishap
  /\ hb[s] = "alive" /\ age[s] >= Interval
  /\ hb' = [hb EXCEPT ![s] = "dead"]
  /\ left' \in {left, IF lock = s THEN TTL ELSE left}
  /\ UNCHANGED <<lock, pc, age>>

\* An IsLeader that fails leaves the work to the next tick.
IsLeaderFails(s) ==
  /\ pc[s] = "check" /\ Mishap
  /\ Goto(s, "wait")
  /\ UNCHANGED <<lock, left, hb, age, slipped>>

AcquireFails(s) ==
  /\ Slip("acquire") /\ Mishap
  /\ pc[s] = "acquire"
  /\ SetNX(s) \/ UNCHANGED <<lock, left>>
  /\ Goto(s, "wait")
  /\ UNCHANGED <<hb, age>>

\* SIGTERM: the context is cancelled.
Cancel(s) ==
  /\ pc[s] \in Running /\ Mishap
  /\ Goto(s, "release")
  /\ hb' = [hb EXCEPT ![s] = "none"]
  /\ UNCHANGED <<lock, left, age, slipped>>

\* The process dies; the lease stays.
Crash(s) ==
  /\ pc[s] # "down" /\ Mishap
  /\ Goto(s, "down")
  /\ hb' = [hb EXCEPT ![s] = "none"]
  /\ UNCHANGED <<lock, left, age, slipped>>

Restart(s) ==
  /\ pc[s] = "down"
  /\ Goto(s, "wait")
  /\ \/ lock' = (IF lock = s THEN Gone ELSE lock) /\ UNCHANGED slipped
     \/ lock' = lock /\ Slip("restart")
  /\ UNCHANGED <<left, hb, age, mishaps>>

-----------------------------------------------------------------------------
Step(s) ==
  \/ Tick(s) \/ IsLeader(s) \/ Acquire(s) \/ Act(s)
  \/ Release(s) \/ Restart(s)

Next ==
  \/ \E s \in Schedulers : Step(s) \/ Renew(s)
  \/ TimePasses
  \/ \E s \in Schedulers :
       RenewFails(s) \/ IsLeaderFails(s) \/ AcquireFails(s) \/ Cancel(s) \/ Crash(s)

Spec == Init /\ [][Next]_vars

\* The loop and the heartbeat are goroutines of their own; a process that has
\* ended is started again; time goes by.
Fairness ==
  /\ \A s \in Schedulers : WF_vars(Step(s)) /\ WF_vars(Renew(s))
  /\ WF_vars(TimePasses)

FairSpec == Spec /\ Fairness

-----------------------------------------------------------------------------
(* Properties *)

\* Types; a key that is set has a lifetime, so no lease lasts for ever.
TypeOK ==
  /\ lock \in Schedulers \cup {None, Gone}
  /\ left \in 0..TTL
  /\ lock # None <=> left > 0
  /\ pc \in [Schedulers -> Running \cup {"release", "down"}]
  /\ hb \in [Schedulers -> {"none", "alive", "dead"}]
  /\ age \in [Schedulers -> Nat]
  /\ mishaps \in 0..MaxMishaps /\ slipped \in BOOLEAN

\* One scheduler at a time promotes, spawns and reconciles: with heartbeats at
\* most MaxLag late, crashes and shutdowns at any point never let a tick go on
\* after its lease has passed to another.  It takes a failed renewal or
\* acquisition, or a reused instance id, for two to act.
SingleActor ==
  ~slipped => \A s, t \in Schedulers : pc[s] = "act" /\ pc[t] = "act" => s = t

\* A scheduler that goes on acting holds the lease and has a heartbeat that
\* will renew it in time: the inductive invariant behind SingleActor.
LeaseInv ==
  ~slipped => \A s \in Schedulers :
    /\ hb[s] # "dead"
    /\ hb[s] = "alive" =>
         /\ lock = s /\ left + age[s] >= TTL
         /\ age[s] <= Interval + MaxLag
         /\ pc[s] \in Running
    /\ lock = s => hb[s] = "alive" \/ pc[s] \in {"release", "down"}
    /\ pc[s] = "act" => hb[s] = "alive"

OwnerDecides(s) ==
  lock = s =>
    /\ lock' # s => left = 1 \/ pc[s] \in {"release", "down"}
    /\ left' > left => hb[s] = "alive"
OwnersDecide == \A s \in Schedulers : OwnerDecides(s)

\* Nobody but its owner ends a lease before its time, and only the owner's
\* heartbeat prolongs it, whatever the others do with their late heartbeats and
\* releases.
LeaseRespected == [][OwnersDecide]_vars

\* Whatever crashes, stops and errors there are, the work of a leader is done
\* again and again: no lease is left behind that nobody can take over.
Led == []<>(\E s \in Schedulers : pc[s] = "act")
=============================================================================
