------------------------------ MODULE RateLimit ------------------------------
(***************************************************************************)
(* One bucket of the sliding-window limiter: a sorted set in Redis that    *)
(* logs the requests it admitted, trimmed and counted by one script.       *)
(*                                                                         *)
(* The scores come from the clocks of the API instances, the expiry of the *)
(* key from the clock of Redis.  A reading is between now and now + Skew:  *)
(* Skew is the widest gap between two instances, the time a request takes  *)
(* to reach Redis included.                                                *)
(***************************************************************************)
EXTENDS Integers, FiniteSets

CONSTANTS
  Requests,  \* the requests that ask this bucket, each once
  Limit,     \* Limiter.limit
  Window,    \* Limiter.window
  Skew,
  MaxTime    \* bound: when the clock stops

\* New replaces a limit or a window that is not positive.
LimitsPositive ==
  /\ Limit \in Nat \ {0} /\ Window \in Nat \ {0}
  /\ Skew \in Nat /\ MaxTime \in Nat

VARIABLES
  now,
  bucket,    \* the sorted set and the time its key expires
  admitted,  \* every request admitted so far, with its time and its score
  refused    \* every request refused so far

vars == <<now, bucket, admitted, refused>>

Entry(r, c) == [req |-> r, at |-> now, score |-> c]

NewBucket == [log |-> {}, expires |-> 0]

-----------------------------------------------------------------------------
(* The script *)

\* A key that has expired is an empty sorted set.
Live(b) == IF now < b.expires THEN b.log ELSE {}

\* ZREMRANGEBYSCORE 0 (now - window), with the caller's now
Kept_NoWindow(b, c) == {e \in Live(b) : e.score > c}
Kept(b, c) == {e \in Live(b) : e.score > c - Window}

Admits_OneMore(b, c) == Cardinality(Kept(b, c)) <= Limit
Admits(b, c) == Cardinality(Kept(b, c)) < Limit

\* ZADD if there is room, PEXPIRE in any case
Touched(b, r, c) ==
  [log |-> Kept(b, c) \cup (IF Admits(b, c) THEN {Entry(r, c)} ELSE {}),
   expires |-> now + Window]

-----------------------------------------------------------------------------
Init == now = 0 /\ bucket = NewBucket /\ admitted = {} /\ refused = {}

Asked == {e.req : e \in admitted \cup refused}

Allow(r) ==
  /\ r \notin Asked
  /\ \E c \in now..(now + Skew) :
       /\ bucket' = Touched(bucket, r, c)
       /\ IF Admits(bucket, c)
            THEN admitted' = admitted \cup {Entry(r, c)} /\ UNCHANGED refused
            ELSE refused' = refused \cup {Entry(r, c)} /\ UNCHANGED admitted
  /\ UNCHANGED now

Tick == now < MaxTime /\ now' = now + 1 /\ UNCHANGED <<bucket, admitted, refused>>

Next == Tick \/ \E r \in Requests : Allow(r)

Spec == Init /\ [][Next]_vars

-----------------------------------------------------------------------------
\* The requests admitted in the last d units of time
AdmittedWithin(d) == {e \in admitted : e.at > now - d}

\* A window shorter than the configured one by the gap between the clocks never sees
\* more than limit admissions, wherever it begins: there is no burst at an edge, and
\* the expiry of the key forgets nobody too early.
WithinQuota == Cardinality(AdmittedWithin(Window - Skew)) <= Limit

\* Whoever is refused found limit admissions in a window longer by that gap, and
\* somebody else asking within the last window: who waits as long as Retry-After
\* says, alone on the bucket, is admitted.
RefusedForCause ==
  refused' # refused =>
    /\ Cardinality(AdmittedWithin(Window + Skew)) >= Limit
    /\ \E e \in admitted \cup refused : e.at > now - Window

NoUnjustRefusal == [][RefusedForCause]_vars

\* What the log remembers: every admission that still counts, and no more than limit.
LogInv ==
  /\ AdmittedWithin(Window - Skew) \subseteq bucket.log
  /\ bucket.log \subseteq admitted
  /\ IsFiniteSet(admitted) /\ Cardinality(bucket.log) <= Limit
  /\ \A e \in admitted :
       /\ e.at \in Nat /\ e.score \in Nat
       /\ e.at <= now /\ e.at + Window <= bucket.expires
       /\ e.at <= e.score /\ e.score <= e.at + Skew
  /\ bucket.expires > now =>
       \E e \in admitted \cup refused : e.at \in Nat /\ e.at + Window = bucket.expires
  /\ now \in Nat /\ bucket.expires \in Nat
=============================================================================
