--------------------------------- MODULE Api ---------------------------------
(***************************************************************************)
(* The way of POST /v1/jobs through the middleware: the throttle per       *)
(* address, authentication, the quota per key, the handler.  The buckets   *)
(* implement RateLimit, the handler is Submission.                         *)
(***************************************************************************)
EXTENDS Integers, FiniteSets

CONSTANTS
  Requests, None, Bodies, Exact, Largest, MaxFaults,
  Keys,          \* good rows of api_keys, by id; they all have the same client_name
  Addresses,     \* client addresses
  KeyLimit, IPLimit, Window, Skew, MaxTime

VARIABLES
  row, outbox, queued, pc, body, answer, faults,  \* see Submission
  now,
  buckets,   \* rate_limit:ip:... and rate_limit:key:...
  admitted,  \* what each bucket has admitted, and refused
  refused,
  stage,     \* where in the middleware each request is
  key,       \* the key each request presents, None when it is missing, unknown or revoked
  from       \* the address it comes from

S == INSTANCE Submission

Buckets == Keys \cup Addresses

RL(b) == INSTANCE RateLimit WITH
           Limit <- IF b \in Keys THEN KeyLimit ELSE IPLimit,
           bucket <- buckets[b], admitted <- admitted[b], refused <- refused[b]

ASSUME ApiAssumption ==
  /\ \A b \in Buckets : RL(b)!LimitsPositive
  /\ Keys \cap Addresses = {} /\ None \notin Keys \cup Requests

submission == <<row, outbox, queued, pc, body, answer, faults>>
limits == <<buckets, admitted, refused>>
request == <<stage, key, from>>
vars == <<row, outbox, queued, pc, body, answer, faults, now, buckets, admitted, refused,
          stage, key, from>>

Init ==
  /\ S!Init
  /\ now = 0
  /\ buckets = [b \in Buckets |-> RL(b)!NewBucket]
  /\ admitted = [b \in Buckets |-> {}] /\ refused = [b \in Buckets |-> {}]
  /\ stage = [r \in Requests |-> "sent"]
  /\ key = [r \in Requests |-> None] /\ from = [r \in Requests |-> None]

-----------------------------------------------------------------------------
Goto(r, s) == stage' = [stage EXCEPT ![r] = s]

\* Allow: one run of the script on a bucket, with some instance's clock
Allow_RefusalUntouched(name, r, pass, fail) ==
  \E b \in Buckets : \E c \in now..(now + Skew) :
    LET e == RL(b)!Entry(r, c)
        ok == RL(b)!Admits(buckets[b], c)
    IN  /\ b = name
        /\ buckets' = IF ok THEN [buckets EXCEPT ![b] = RL(b)!Touched(@, r, c)] ELSE buckets
        /\ admitted' = IF ok THEN [admitted EXCEPT ![b] = @ \cup {e}] ELSE admitted
        /\ refused' = IF ok THEN refused ELSE [refused EXCEPT ![b] = @ \cup {e}]
        /\ IF ok THEN pass ELSE fail
Allow(name, r, pass, fail) ==
  \E b \in Buckets : \E c \in now..(now + Skew) :
    LET e == RL(b)!Entry(r, c)
        ok == RL(b)!Admits(buckets[b], c)
    IN  /\ b = name
        /\ buckets' = [buckets EXCEPT ![b] = RL(b)!Touched(@, r, c)]
        /\ admitted' = IF ok THEN [admitted EXCEPT ![b] = @ \cup {e}] ELSE admitted
        /\ refused' = IF ok THEN refused ELSE [refused EXCEPT ![b] = @ \cup {e}]
        /\ IF ok THEN pass ELSE fail

\* A request comes in; the throttle is the first thing it meets.
IPRateLimit(r) ==
  /\ stage[r] = "sent"
  /\ \E k \in Keys \cup {None}, a \in Addresses :
       /\ key' = [key EXCEPT ![r] = k] /\ from' = [from EXCEPT ![r] = a]
       /\ Allow(a, r, Goto(r, "apiKeyAuth"), Goto(r, "rejected"))
  /\ UNCHANGED <<submission, now>>

\* GetAPIKeyByHash: the answer is 401 unless there is such a row and it is not revoked.
APIKeyAuth(r) ==
  /\ stage[r] = "apiKeyAuth"
  /\ Goto(r, IF key[r] = None THEN "rejected" ELSE "rateLimit")
  /\ UNCHANGED <<submission, now, limits, key, from>>

\* The bucket of the key's id
KeyBucket_ByName(r) == CHOOSE k \in Keys : TRUE
KeyBucket(r) == key[r]

RateLimit(r) ==
  /\ stage[r] = "rateLimit"
  /\ Allow(KeyBucket(r), r,
           Goto(r, "handler") /\ S!Arrive(r),
           Goto(r, "rejected") /\ UNCHANGED submission)
  /\ UNCHANGED <<now, key, from>>

\* The handler runs by itself from here on.
Handler(r) ==
  /\ S!Handle(r)
  /\ UNCHANGED <<now, limits, request>>

Reconcile == S!Reconcile /\ UNCHANGED <<now, limits, request>>

Tick ==
  /\ now < MaxTime /\ now' = now + 1
  /\ UNCHANGED <<submission, limits, request>>

\* Redis or Postgres fails under the middleware: 500.  The script may have run, and
\* then the bucket counts a request that is not served.
MiddlewareFails(r) ==
  /\ stage[r] \in {"sent", "apiKeyAuth", "rateLimit"} /\ Goto(r, "rejected")
  /\ \/ UNCHANGED limits
     \/ stage[r] = "sent" /\ \E a \in Addresses : Allow(a, r, TRUE, TRUE)
     \/ stage[r] = "rateLimit" /\ Allow(KeyBucket(r), r, TRUE, TRUE)
  /\ UNCHANGED <<submission, now, key, from>>

Next ==
  \/ \E r \in Requests : IPRateLimit(r) \/ APIKeyAuth(r) \/ RateLimit(r)
                         \/ Handler(r) \/ MiddlewareFails(r)
  \/ Reconcile \/ Tick

Spec == Init /\ [][Next]_vars

-----------------------------------------------------------------------------
\* The time a bucket let r through
AdmittedAt(r) == {e.at : e \in {f \in UNION {admitted[k] : k \in Keys} : f.req = r}}

Served(k) == {r \in Requests : key[r] = k /\ stage[r] = "handler"}

\* No key is served more than its limit in any window, shortened by the gap between
\* the clocks of the instances: replicas share the quota, and only requests that
\* presented a good key ever reach the handler.
ServedWithinQuota ==
  /\ \A k \in Keys :
       Cardinality({r \in Served(k) : \E t \in AdmittedAt(r) : t > now - (Window - Skew)})
         <= KeyLimit
  /\ \A r \in Requests : pc[r] # "new" => \E k \in Keys : r \in Served(k)

\* Requests that reach the lookup of the key are held to the limit of their address,
\* good key or not.
LookupsThrottled ==
  \A a \in Addresses :
    LET looked == {r \in Requests : from[r] = a /\ stage[r] # "sent"
                                      /\ \E e \in admitted[a] : e.req = r}
    IN  /\ Cardinality({r \in looked : \E e \in admitted[a] : e.req = r
                                          /\ e.at > now - (Window - Skew)}) <= IPLimit
        /\ \A r \in Requests : from[r] = a /\ stage[r] \in {"apiKeyAuth", "rateLimit", "handler"}
                                 => r \in looked

\* A key's quota is its own: nobody is refused by it unless requests with the same key
\* have filled it, within a window and the gap between the clocks.
QuotaIsOwn ==
  \A r \in Requests : \A k \in Keys : \A e \in refused[k] :
    e.req = r =>
      Cardinality({s \in Requests : key[s] = key[r] /\ \E t \in AdmittedAt(s) :
                     t <= e.at /\ t > e.at - (Window + Skew)}) >= KeyLimit

\* One key is one job, whoever is throttled on the way: see Submission.
OneJobPerKey == S!OneJobPerKey

\* What a handler has committed is in the outbox or in Redis: see Submission.
CommittedIsCarried == S!CommittedIsCarried

\* A 2xx is about the job that was asked for: see Submission.
ReplayHonest == S!ReplayHonest

\* docs/api.md, step 8: a replay that is identical to the byte is given 200, not 409.
ExactReplayAccepted == S!ExactReplayAccepted

BucketStep(b) == UNCHANGED <<now, buckets[b], admitted[b], refused[b]>> \/ RL(b)!Next

\* Whatever the middleware lets through or loses, the handler implements the submission
\* protocol and every bucket implements the limiter: what is proved of them holds here.
PartsImplement ==
  /\ S!Spec
  /\ \A b \in Buckets : RL(b)!Init
  /\ [][\A b \in Buckets : BucketStep(b)]_vars
-----------------------------------------------------------------------------
(* The inductive invariant *)

Stages == {"sent", "apiKeyAuth", "rateLimit", "handler", "rejected"}

EntryType == [req : Requests, at : Nat, score : Nat]

ApiTypeOK ==
  /\ now \in Nat
  /\ buckets \in [Buckets -> [log : SUBSET EntryType, expires : Nat]]
  /\ admitted \in [Buckets -> SUBSET EntryType] /\ refused \in [Buckets -> SUBSET EntryType]
  /\ stage \in [Requests -> Stages]
  /\ key \in [Requests -> Keys \cup {None}] /\ from \in [Requests -> Addresses \cup {None}]

\* A request is past a stage only with what the stage asks for.
StageInv(r) ==
  /\ pc[r] # "new" => stage[r] = "handler"
  /\ stage[r] \in {"rateLimit", "handler"} => key[r] \in Keys
  /\ stage[r] \in {"apiKeyAuth", "rateLimit", "handler"} =>
       from[r] \in Addresses /\ \E e \in admitted[from[r]] : e.req = r

\* Who asks a bucket asks once, on the way past it, and a key's bucket only with that
\* key; who was refused found it full.
BucketInv(b) ==
  /\ RL(b)!LogInv
  /\ \A e, f \in admitted[b] \cup refused[b] : e.req = f.req => e = f
  /\ \A e \in admitted[b] \cup refused[b] :
       /\ stage[e.req] # "sent"
       /\ b \in Keys => key[e.req] = b /\ stage[e.req] \in {"handler", "rejected"}
  /\ \A e \in refused[b] :
       Cardinality({f \in admitted[b] : f.at <= e.at /\ f.at > e.at - (Window + Skew)})
         >= (IF b \in Keys THEN KeyLimit ELSE IPLimit)

ApiInv ==
  /\ ApiTypeOK
  /\ \A r \in Requests : StageInv(r)
  /\ \A b \in Buckets : BucketInv(b)
=============================================================================
