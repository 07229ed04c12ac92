------------------------------ MODULE ApiProofs ------------------------------
(***************************************************************************)
(* The middleware and the handler together: any number of requests, keys   *)
(* and addresses, any limits, window and gap between the clocks.           *)
(***************************************************************************)
EXTENDS Api, FiniteSetTheorems, TLAPS

LimitOf(b) == IF b \in Keys THEN KeyLimit ELSE IPLimit

\* The constants are numbers.
LEMMA LimitTypes ==
  ASSUME NEW b \in Buckets
  PROVE  /\ LimitOf(b) \in Nat /\ LimitOf(b) > 0 /\ Window \in Nat /\ Window > 0
         /\ Skew \in Nat
BY ApiAssumption DEF RL!LimitsPositive, LimitOf

-----------------------------------------------------------------------------
(* The script on one of the buckets *)

\* The instances of RateLimit count as this module does.
LEMMA SameCounts ==
  ASSUME NEW b \in Buckets
  PROVE  /\ \A T : RL(b)!Cardinality(T) = Cardinality(T)
         /\ \A T : RL(b)!IsFiniteSet(T) <=> IsFiniteSet(T)
<1>1. \A T : RL(b)!Cardinality(T) = Cardinality(T) BY Zenon DEF RL!Cardinality, Cardinality
<1>2. \A T : RL(b)!IsFiniteSet(T) <=> IsFiniteSet(T) BY Zenon DEF RL!IsFiniteSet, IsFiniteSet
<1> QED BY <1>1, <1>2, Zenon

\* The eviction keeps a finite part of what was logged, with everything that counts.
LEMMA KeptOf ==
  ASSUME NEW b \in Buckets, RL(b)!LogInv, NEW c \in now..(now + Skew)
  PROVE  /\ RL(b)!AdmittedWithin(Window - Skew) \subseteq RL(b)!Kept(buckets[b], c)
         /\ RL(b)!Kept(buckets[b], c) \subseteq admitted[b]
         /\ IsFiniteSet(RL(b)!Kept(buckets[b], c))
         /\ Cardinality(RL(b)!Kept(buckets[b], c)) \in Nat
         /\ Cardinality(RL(b)!Kept(buckets[b], c)) <= LimitOf(b)
         /\ \A e \in RL(b)!Kept(buckets[b], c) : e.at <= now /\ e.at > now - (Window + Skew)
<1> DEFINE kept == RL(b)!Kept(buckets[b], c)
<1>0. now \in Nat /\ c \in Int /\ c >= now /\ buckets[b].expires \in Nat
  BY LimitTypes DEF RL!LogInv
<1>1. kept \subseteq buckets[b].log /\ buckets[b].log \subseteq admitted[b]
  BY Zenon DEF RL!Kept, RL!Live, RL!LogInv
<1>2. IsFiniteSet(buckets[b].log) /\ Cardinality(buckets[b].log) \in Nat
      /\ Cardinality(buckets[b].log) <= LimitOf(b)
  BY <1>1, SameCounts, FS_Subset, FS_CardinalityType DEF RL!LogInv, LimitOf
<1>3. IsFiniteSet(kept) /\ Cardinality(kept) \in Nat
      /\ Cardinality(kept) <= Cardinality(buckets[b].log)
  BY <1>1, <1>2, FS_Subset, FS_CardinalityType, Zenon
<1>4. Cardinality(kept) <= LimitOf(b)
  BY <1>2, <1>3, LimitTypes
<1>5. \A e \in admitted[b] :
        /\ e.at \in Int /\ e.score \in Int /\ e.at <= now
        /\ e.at + Window <= buckets[b].expires /\ e.at <= e.score /\ e.score <= e.at + Skew
  BY DEF RL!LogInv
<1>6. ASSUME NEW e \in RL(b)!AdmittedWithin(Window - Skew) PROVE e \in kept
  <2>1. e \in buckets[b].log /\ e \in admitted[b] /\ e.at > now - (Window - Skew)
    BY Zenon DEF RL!AdmittedWithin, RL!LogInv
  <2>2. now < buckets[b].expires /\ e.score > c - Window
    BY <1>0, <1>5, <2>1, LimitTypes
  <2> QED
    BY <2>1, <2>2, Zenon DEF RL!Kept, RL!Live
<1>7. ASSUME NEW e \in kept PROVE e.at <= now /\ e.at > now - (Window + Skew)
  <2>1. e \in admitted[b] /\ e.score > c - Window
    BY <1>1, Zenon DEF RL!Kept
  <2> QED
    BY <1>0, <1>5, <2>1, LimitTypes
<1> QED
  BY <1>1, <1>3, <1>4, <1>6, <1>7, Zenon

\* What a run of the script does to the bucket and to its history
Ran(b, r, c) ==
  /\ buckets'[b] = RL(b)!Touched(buckets[b], r, c)
  /\ admitted'[b] = IF RL(b)!Admits(buckets[b], c)
                      THEN admitted[b] \cup {RL(b)!Entry(r, c)} ELSE admitted[b]
  /\ refused'[b] = IF RL(b)!Admits(buckets[b], c)
                     THEN refused[b] ELSE refused[b] \cup {RL(b)!Entry(r, c)}

\* The script keeps the log.
LEMMA RunKeepsLog ==
  ASSUME NEW b \in Buckets, RL(b)!LogInv, NEW r \in Requests, NEW c \in now..(now + Skew),
         Ran(b, r, c), now' = now
  PROVE  RL(b)!LogInv'
<1> DEFINE new == RL(b)!Entry(r, c)
           kept == RL(b)!Kept(buckets[b], c)
<1>1. now \in Nat /\ c \in Nat /\ c >= now /\ c <= now + Skew
  BY LimitTypes DEF RL!LogInv
<1>2. new.at = now /\ new.score = c
  BY Zenon DEF RL!Entry
<1>3. buckets'[b].expires = now + Window
  BY DEF Ran, RL!Touched
<1>4. /\ RL(b)!AdmittedWithin(Window - Skew) \subseteq kept
      /\ kept \subseteq admitted[b] /\ IsFiniteSet(kept)
      /\ Cardinality(kept) \in Nat /\ Cardinality(kept) <= LimitOf(b)
  BY KeptOf, Zenon
<1>5. /\ IsFiniteSet(admitted[b])
      /\ \A e \in admitted[b] :
           /\ e.at \in Nat /\ e.score \in Nat
           /\ e.at <= now /\ e.at <= e.score /\ e.score <= e.at + Skew
  BY SameCounts, Zenon DEF RL!LogInv
<1>6. CASE RL(b)!Admits(buckets[b], c)
  <2>1. /\ admitted'[b] = admitted[b] \cup {new} /\ buckets'[b].log = kept \cup {new}
        /\ refused'[b] = refused[b] /\ Cardinality(kept) < LimitOf(b)
    BY <1>6, SameCounts DEF Ran, RL!Touched, RL!Admits, LimitOf
  <2> HIDE DEF new, kept
  <2>2. /\ IsFiniteSet(kept \cup {new})
        /\ Cardinality(kept \cup {new}) =
             IF new \in kept THEN Cardinality(kept) ELSE Cardinality(kept) + 1
    BY <1>4, FS_AddElement, Zenon
  <2>3. Cardinality(kept \cup {new}) <= LimitOf(b)
    BY <1>4, <2>1, <2>2, LimitTypes
  <2>4. IsFiniteSet(admitted'[b])
    BY <1>5, <2>1, FS_AddElement
  <2>5. {e \in admitted'[b] : e.at > now - (Window - Skew)} \subseteq buckets'[b].log
    BY <1>4, <2>1, Zenon DEF RL!AdmittedWithin
  <2>6. \A e \in admitted'[b] :
          /\ e.at \in Nat /\ e.score \in Nat
          /\ e.at <= now /\ e.at + Window <= buckets'[b].expires
          /\ e.at <= e.score /\ e.score <= e.at + Skew
    BY <1>1, <1>2, <1>3, <1>5, <2>1, LimitTypes
  <2>7. \E e \in admitted'[b] \cup refused'[b] :
          e.at \in Nat /\ e.at + Window = buckets'[b].expires
    BY <1>1, <1>2, <1>3, <2>1, Zenon
  <2>8. buckets'[b].log \subseteq admitted'[b] /\ buckets'[b].expires \in Nat
    BY <1>1, <1>3, <1>4, <2>1, LimitTypes
  <2> QED
    BY <1>1, <2>1, <2>3, <2>4, <2>5, <2>6, <2>7, <2>8, SameCounts, Zenon
    DEF RL!LogInv, RL!AdmittedWithin, LimitOf
<1>7. CASE ~RL(b)!Admits(buckets[b], c)
  <2>1. /\ admitted'[b] = admitted[b] /\ buckets'[b].log = kept
        /\ refused'[b] = refused[b] \cup {new}
    BY <1>7 DEF Ran, RL!Touched
  <2> HIDE DEF new, kept
  <2>2. {e \in admitted'[b] : e.at > now - (Window - Skew)} \subseteq buckets'[b].log
    BY <1>4, <2>1, Zenon DEF RL!AdmittedWithin
  <2>3. \A e \in admitted'[b] :
          /\ e.at \in Nat /\ e.score \in Nat
          /\ e.at <= now /\ e.at + Window <= buckets'[b].expires
          /\ e.at <= e.score /\ e.score <= e.at + Skew
    BY <1>1, <1>3, <1>5, <2>1, LimitTypes
  <2>4. \E e \in admitted'[b] \cup refused'[b] :
          e.at \in Nat /\ e.at + Window = buckets'[b].expires
    BY <1>1, <1>2, <1>3, <2>1, Zenon
  <2>5. buckets'[b].log \subseteq admitted'[b] /\ buckets'[b].expires \in Nat
    BY <1>1, <1>3, <1>4, <2>1, LimitTypes
  <2> QED
    BY <1>1, <1>4, <1>5, <2>1, <2>2, <2>3, <2>4, <2>5, SameCounts, Zenon
    DEF RL!LogInv, RL!AdmittedWithin, LimitOf
<1> QED
  BY <1>6, <1>7, Zenon

-----------------------------------------------------------------------------
(* Every step keeps ApiInv *)

\* A request asks one bucket: the other buckets stay as they are.
Asks(b, r, c) ==
  /\ Ran(b, r, c) /\ now' = now
  /\ buckets' = [d \in Buckets |-> buckets'[d]]
  /\ admitted' = [d \in Buckets |-> admitted'[d]] /\ refused' = [d \in Buckets |-> refused'[d]]
  /\ \A d \in Buckets \ {b} :
       buckets'[d] = buckets[d] /\ admitted'[d] = admitted[d] /\ refused'[d] = refused[d]

Unasked(b, r) == \A e \in admitted[b] \cup refused[b] : e.req # r

\* The script leaves the histories and the bucket with their types.
LEMMA AskTypes ==
  ASSUME ApiTypeOK, NEW r \in Requests, NEW b \in Buckets, NEW c \in now..(now + Skew),
         Asks(b, r, c)
  PROVE  /\ now' \in Nat
         /\ buckets' \in [Buckets -> [log : SUBSET EntryType, expires : Nat]]
         /\ admitted' \in [Buckets -> SUBSET EntryType]
         /\ refused' \in [Buckets -> SUBSET EntryType]
<1>1. c \in Nat /\ now + Window \in Nat /\ now \in Nat /\ now' = now
  BY LimitTypes DEF ApiTypeOK, Asks
<1>2. RL(b)!Entry(r, c) \in EntryType
  BY <1>1, Zenon DEF RL!Entry, EntryType
<1>3. RL(b)!Kept(buckets[b], c) \subseteq EntryType
  BY Zenon DEF RL!Kept, RL!Live, ApiTypeOK
<1>4. /\ buckets'[b] \in [log : SUBSET EntryType, expires : Nat]
      /\ admitted'[b] \in SUBSET EntryType /\ refused'[b] \in SUBSET EntryType
  BY <1>1, <1>2, <1>3 DEF Asks, Ran, RL!Touched, ApiTypeOK
<1>5. \A d \in Buckets :
        /\ buckets'[d] \in [log : SUBSET EntryType, expires : Nat]
        /\ admitted'[d] \in SUBSET EntryType /\ refused'[d] \in SUBSET EntryType
  BY <1>4, Zenon DEF Asks, ApiTypeOK
<1> QED
  BY <1>1, <1>5, Zenon DEF Asks

\* The admissions a refusal at time t answers for
Before(b, t) == {f \in admitted[b] : f.at <= t /\ f.at > t - (Window + Skew)}

\* Histories only grow, so a refusal stays justified.
LEMMA CausesStay ==
  ASSUME NEW b \in Buckets, NEW t, IsFiniteSet(admitted'[b]), admitted[b] \subseteq admitted'[b],
         Cardinality(Before(b, t)) >= LimitOf(b)
  PROVE  Cardinality(Before(b, t)') >= LimitOf(b)
<1>1. Before(b, t) \subseteq Before(b, t)' /\ Before(b, t)' \subseteq admitted'[b]
  BY Zenon DEF Before
<1>2. IsFiniteSet(Before(b, t)') BY <1>1, FS_Subset, Zenon
<1>3. IsFiniteSet(Before(b, t)) BY <1>1, <1>2, FS_Subset, Zenon
<1>4. Cardinality(Before(b, t)) \in Nat /\ Cardinality(Before(b, t)') \in Nat
  BY <1>2, <1>3, FS_CardinalityType, Zenon
<1>5. Cardinality(Before(b, t)) <= Cardinality(Before(b, t)') BY <1>1, <1>2, FS_Subset, Zenon
<1> QED BY <1>4, <1>5, LimitTypes

\* A request that is refused now finds the bucket full of recent admissions.
LEMMA RefusalCause ==
  ASSUME NEW b \in Buckets, RL(b)!LogInv, NEW c \in now..(now + Skew),
         ~RL(b)!Admits(buckets[b], c)
  PROVE  Cardinality(Before(b, now)) >= LimitOf(b)
<1> DEFINE kept == RL(b)!Kept(buckets[b], c)
<1>1. kept \subseteq Before(b, now) /\ Cardinality(kept) \in Nat
  BY KeptOf, Zenon DEF Before
<1>2. IsFiniteSet(Before(b, now))
  BY SameCounts, FS_Subset, Zenon DEF Before, RL!LogInv
<1>3. Cardinality(kept) >= LimitOf(b)
  BY <1>1, SameCounts, LimitTypes DEF RL!Admits, LimitOf
<1>4. Cardinality(kept) <= Cardinality(Before(b, now)) /\ Cardinality(Before(b, now)) \in Nat
  BY <1>1, <1>2, FS_Subset, FS_CardinalityType, Zenon
<1> QED BY <1>1, <1>3, <1>4, LimitTypes

\* A bucket whose history stands keeps what is known of it, unless somebody in it goes
\* back to the start or changes keys.
LEMMA QuietBucket ==
  ASSUME NEW b \in Buckets, BucketInv(b), now' = now, buckets'[b] = buckets[b],
         admitted'[b] = admitted[b], refused'[b] = refused[b],
         \A e \in admitted[b] \cup refused[b] :
           /\ stage'[e.req] # "sent"
           /\ b \in Keys => key'[e.req] = b /\ stage'[e.req] \in {"handler", "rejected"}
  PROVE  BucketInv(b)'
<1>1. RL(b)!LogInv'
  BY Zenon DEF BucketInv, RL!LogInv, RL!AdmittedWithin
<1> QED
  BY <1>1, Zenon DEF BucketInv

\* Asking a bucket for the first time keeps what is known of every bucket.
LEMMA AskKeepsBuckets ==
  ASSUME ApiTypeOK, \A b \in Buckets : BucketInv(b),
         NEW r \in Requests, NEW b0 \in Buckets, NEW c \in now..(now + Skew),
         Asks(b0, r, c), Unasked(b0, r), stage[r] \in {"sent", "rateLimit"},
         \A q \in Requests \ {r} : stage'[q] = stage[q] /\ key'[q] = key[q],
         stage'[r] # "sent",
         b0 \in Keys => key'[r] = b0 /\ stage'[r] \in {"handler", "rejected"}
  PROVE  \A b \in Buckets : BucketInv(b)'
<1>0. \A b \in Buckets : \A e \in admitted[b] \cup refused[b] : e.req \in Requests
  BY DEF ApiTypeOK, EntryType
<1>1. ASSUME NEW b \in Buckets \ {b0} PROVE BucketInv(b)'
  <2>1. \A e \in admitted[b] \cup refused[b] :
          /\ stage'[e.req] # "sent"
          /\ b \in Keys => key'[e.req] = b /\ stage'[e.req] \in {"handler", "rejected"}
    BY <1>0 DEF BucketInv
  <2> QED
    BY <2>1, QuietBucket, Zenon DEF Asks
<1>2. BucketInv(b0)'
  <2> DEFINE new == RL(b0)!Entry(r, c)
  <2>1. RL(b0)!LogInv'
    BY RunKeepsLog, Zenon DEF Asks, BucketInv
  <2>2. /\ new.req = r /\ new.at = now
        /\ admitted[b0] \subseteq admitted'[b0] /\ refused[b0] \subseteq refused'[b0]
        /\ admitted'[b0] \cup refused'[b0] = admitted[b0] \cup refused[b0] \cup {new}
    BY Zenon DEF Asks, Ran, RL!Entry
  <2>3. \A e \in refused'[b0] :
          \/ e \in refused[b0]
          \/ e = new /\ ~RL(b0)!Admits(buckets[b0], c)
    BY Zenon DEF Asks, Ran
  <2> HIDE DEF new
  <2>4. \A e, f \in admitted'[b0] \cup refused'[b0] : e.req = f.req => e = f
    BY <2>2 DEF BucketInv, Unasked
  <2>5. \A e \in admitted'[b0] \cup refused'[b0] :
          /\ stage'[e.req] # "sent"
          /\ b0 \in Keys => key'[e.req] = b0 /\ stage'[e.req] \in {"handler", "rejected"}
    BY <1>0, <2>2 DEF BucketInv, Unasked
  <2>6. IsFiniteSet(admitted'[b0])
    BY <2>1, SameCounts, Zenon DEF RL!LogInv
  <2>7. \A e \in refused'[b0] : Cardinality(Before(b0, e.at)) >= LimitOf(b0)
    BY <2>2, <2>3, RefusalCause DEF BucketInv, Before, LimitOf
  <2>8. \A e \in refused'[b0] :
          Cardinality({f \in admitted'[b0] : f.at <= e.at /\ f.at > e.at - (Window + Skew)})
            >= LimitOf(b0)
    BY <2>2, <2>6, <2>7, CausesStay, Zenon DEF Before
  <2> QED
    BY <2>1, <2>4, <2>5, <2>8, Zenon DEF BucketInv, LimitOf
<1> QED
  BY <1>1, <1>2, Zenon

\* What Allow assigns
Runs(b, r, c) ==
  /\ buckets' = [buckets EXCEPT ![b] = RL(b)!Touched(@, r, c)]
  /\ admitted' = IF RL(b)!Admits(buckets[b], c)
                   THEN [admitted EXCEPT ![b] = @ \cup {RL(b)!Entry(r, c)}] ELSE admitted
  /\ refused' = IF RL(b)!Admits(buckets[b], c)
                  THEN refused ELSE [refused EXCEPT ![b] = @ \cup {RL(b)!Entry(r, c)}]

\* A run of the script is a request to the limiter as RateLimit has it.
LEMMA RunAsks ==
  ASSUME ApiTypeOK, NEW r \in Requests, NEW b \in Buckets, NEW c, Runs(b, r, c), now' = now
  PROVE  Asks(b, r, c)
BY Zenon DEF Runs, Asks, Ran, ApiTypeOK

\* The requests behind Allow: which bucket is asked, and where the request goes.
LEMMA IPRateLimitAsks ==
  ASSUME ApiTypeOK, NEW r \in Requests, IPRateLimit(r)
  PROVE  \E a \in Addresses, k \in Keys \cup {None}, c \in now..(now + Skew) :
           /\ Asks(a, r, c) /\ stage[r] = "sent"
           /\ key' = [key EXCEPT ![r] = k] /\ from' = [from EXCEPT ![r] = a] /\ pc' = pc
           /\ stage' = [stage EXCEPT ![r] =
                          IF RL(a)!Admits(buckets[a], c) THEN "apiKeyAuth" ELSE "rejected"]
<1>1. now' = now /\ pc' = pc /\ stage[r] = "sent" BY Zenon DEF IPRateLimit, submission
<1>2. PICK k \in Keys \cup {None}, a \in Addresses :
        /\ key' = [key EXCEPT ![r] = k] /\ from' = [from EXCEPT ![r] = a]
        /\ Allow(a, r, Goto(r, "apiKeyAuth"), Goto(r, "rejected"))
  BY Zenon DEF IPRateLimit
<1>3. PICK c \in now..(now + Skew) :
        /\ Runs(a, r, c)
        /\ IF RL(a)!Admits(buckets[a], c) THEN Goto(r, "apiKeyAuth") ELSE Goto(r, "rejected")
  BY <1>2, Zenon DEF Allow, Runs
<1>4. Asks(a, r, c) BY <1>1, <1>3, RunAsks, Zenon DEF Buckets
<1>5. stage' = [stage EXCEPT ![r] =
                  IF RL(a)!Admits(buckets[a], c) THEN "apiKeyAuth" ELSE "rejected"]
  BY <1>3, Zenon DEF Goto
<1> QED BY <1>1, <1>2, <1>4, <1>5, Zenon

\* RateLimit asks the bucket of the key and no other.
LEMMA RateLimitAsks ==
  ASSUME ApiTypeOK, NEW r \in Requests, RateLimit(r), key[r] \in Keys
  PROVE  \E k \in Keys, c \in now..(now + Skew) :
           /\ k = key[r] /\ Asks(k, r, c)
           /\ stage[r] = "rateLimit" /\ key' = key /\ from' = from
           /\ IF RL(k)!Admits(buckets[k], c)
                THEN S!Arrive(r) /\ stage' = [stage EXCEPT ![r] = "handler"]
                ELSE pc' = pc /\ stage' = [stage EXCEPT ![r] = "rejected"]
<1>1. now' = now /\ key' = key /\ from' = from /\ stage[r] = "rateLimit" BY Zenon DEF RateLimit
<1>2. PICK k \in Buckets, c \in now..(now + Skew) :
        /\ k = key[r] /\ Runs(k, r, c)
        /\ IF RL(k)!Admits(buckets[k], c)
             THEN Goto(r, "handler") /\ S!Arrive(r)
             ELSE Goto(r, "rejected") /\ UNCHANGED submission
  BY Zenon DEF RateLimit, KeyBucket, Allow, Runs
<1>3. Asks(k, r, c) BY <1>1, <1>2, RunAsks, Zenon
<1>4. k \in Keys BY <1>2, Zenon
<1> QED BY <1>1, <1>2, <1>3, <1>4, Zenon DEF Goto, submission

\* A middleware that fails has asked at most the bucket of its stage.
LEMMA FailureAsks ==
  ASSUME ApiTypeOK, NEW r \in Requests, MiddlewareFails(r),
         stage[r] = "rateLimit" => key[r] \in Keys
  PROVE  /\ stage[r] \in {"sent", "apiKeyAuth", "rateLimit"}
         /\ stage' = [stage EXCEPT ![r] = "rejected"] /\ key' = key /\ from' = from
         /\ pc' = pc /\ now' = now
         /\ \/ UNCHANGED <<buckets, admitted, refused>>
            \/ \E b \in Buckets, c \in now..(now + Skew) :
                 /\ Asks(b, r, c)
                 /\ \/ stage[r] = "sent" /\ b \in Addresses
                    \/ stage[r] = "rateLimit" /\ b \in Keys /\ b = key[r]
<1>1. now' = now /\ (UNCHANGED limits => UNCHANGED <<buckets, admitted, refused>>)
  BY Zenon DEF MiddlewareFails, limits
<1>2. ASSUME NEW b \in Buckets, Allow(b, r, TRUE, TRUE)
      PROVE  \E c \in now..(now + Skew) : Asks(b, r, c)
  <2>1. PICK c \in now..(now + Skew) : Runs(b, r, c) BY <1>2, Zenon DEF Allow, Runs
  <2> QED BY <1>1, <2>1, RunAsks, Zenon
<1> QED
  BY <1>1, <1>2, Zenon DEF MiddlewareFails, KeyBucket, Goto, Buckets, submission

\* Before it has passed a stage, a request has not asked the bucket of that stage.
LEMMA FirstAsk ==
  ASSUME ApiInv, NEW r \in Requests, NEW b \in Buckets,
         stage[r] = "sent" \/ (stage[r] = "rateLimit" /\ b \in Keys)
  PROVE  Unasked(b, r)
BY Zenon DEF ApiInv, BucketInv, Unasked

\* A request that stays where it is keeps what it has, because histories only grow.
LEMMA OthersStay ==
  ASSUME ApiTypeOK, NEW q \in Requests, StageInv(q),
         \A b \in Buckets : admitted[b] \subseteq admitted'[b],
         stage'[q] = stage[q], key'[q] = key[q], from'[q] = from[q],
         pc'[q] # "new" => stage[q] = "handler"
  PROVE  StageInv(q)'
BY Zenon DEF StageInv, Buckets

\* The throttle keeps the invariant.
LEMMA IPRateLimitKeeps ==
  ASSUME ApiInv, NEW r \in Requests, IPRateLimit(r) PROVE ApiInv'
<1>0. ApiTypeOK /\ (\A q \in Requests : StageInv(q)) /\ (\A b \in Buckets : BucketInv(b))
  BY Zenon DEF ApiInv
<1>1. PICK a \in Addresses, k \in Keys \cup {None}, c \in now..(now + Skew) :
        /\ Asks(a, r, c) /\ stage[r] = "sent"
        /\ key' = [key EXCEPT ![r] = k] /\ from' = [from EXCEPT ![r] = a] /\ pc' = pc
        /\ stage' = [stage EXCEPT ![r] =
                       IF RL(a)!Admits(buckets[a], c) THEN "apiKeyAuth" ELSE "rejected"]
  BY <1>0, IPRateLimitAsks, Zenon
<1>2. a \in Buckets /\ a \notin Keys BY ApiAssumption, Zenon DEF Buckets
<1>3. /\ stage'[r] = IF RL(a)!Admits(buckets[a], c) THEN "apiKeyAuth" ELSE "rejected"
      /\ key'[r] = k /\ from'[r] = a
      /\ \A q \in Requests \ {r} :
           stage'[q] = stage[q] /\ key'[q] = key[q] /\ from'[q] = from[q]
  BY <1>0, <1>1, Zenon DEF ApiTypeOK
<1>4. ApiTypeOK'
  BY <1>0, <1>1, <1>2, <1>3, AskTypes, Zenon DEF ApiTypeOK, Stages
<1>5. \A b \in Buckets : BucketInv(b)'
  BY <1>0, <1>1, <1>2, <1>3, FirstAsk, AskKeepsBuckets
<1>6. \A b \in Buckets : admitted[b] \subseteq admitted'[b]
  BY <1>1, Zenon DEF Asks, Ran
<1>7. ASSUME NEW q \in Requests \ {r} PROVE StageInv(q)'
  BY <1>0, <1>1, <1>3, <1>6, OthersStay, Zenon DEF StageInv
<1>8. StageInv(r)'
  <2>1. pc'[r] = "new" BY <1>0, <1>1, Zenon DEF StageInv
  <2>2. stage'[r] = "apiKeyAuth" => \E e \in admitted'[a] : e.req = r
    <3>1. RL(a)!Entry(r, c).req = r BY Zenon DEF RL!Entry
    <3>2. stage'[r] = "apiKeyAuth" => RL(a)!Entry(r, c) \in admitted'[a]
      BY <1>1, <1>3 DEF Asks, Ran
    <3> QED BY <3>1, <3>2, Zenon
  <2> QED BY <1>3, <2>1, <2>2, Zenon DEF StageInv
<1> QED BY <1>4, <1>5, <1>7, <1>8, Zenon DEF ApiInv

\* The quota of the key keeps the invariant.
LEMMA RateLimitKeeps ==
  ASSUME ApiInv, S!TypeOK, NEW r \in Requests, RateLimit(r) PROVE ApiInv'
<1>0. ApiTypeOK /\ (\A q \in Requests : StageInv(q)) /\ (\A b \in Buckets : BucketInv(b))
  BY Zenon DEF ApiInv
<1>1. stage[r] = "rateLimit" /\ key[r] \in Keys /\ key[r] \in Buckets
  BY <1>0, Zenon DEF RateLimit, StageInv, Buckets
<1>2. PICK k \in Keys, c \in now..(now + Skew) :
        /\ k = key[r] /\ Asks(k, r, c) /\ key' = key /\ from' = from
        /\ IF RL(k)!Admits(buckets[k], c)
             THEN S!Arrive(r) /\ stage' = [stage EXCEPT ![r] = "handler"]
             ELSE pc' = pc /\ stage' = [stage EXCEPT ![r] = "rejected"]
  BY <1>0, <1>1, RateLimitAsks, Zenon
<1>3. /\ stage'[r] = "handler" \/ (stage'[r] = "rejected" /\ pc' = pc)
      /\ \A q \in Requests \ {r} : stage'[q] = stage[q] /\ pc'[q] = pc[q]
  BY <1>0, <1>2 DEF ApiTypeOK, S!TypeOK, S!Arrive, S!Goto, S!Answer
<1>4. ApiTypeOK'
  BY <1>0, <1>1, <1>2, AskTypes, Zenon DEF ApiTypeOK, Stages
<1>5. \A b \in Buckets : BucketInv(b)'
  BY <1>0, <1>1, <1>2, <1>3, FirstAsk, AskKeepsBuckets, Zenon
<1>6. \A b \in Buckets : admitted[b] \subseteq admitted'[b]
  BY <1>2, Zenon DEF Asks, Ran
<1>7. ASSUME NEW q \in Requests \ {r} PROVE StageInv(q)'
  BY <1>0, <1>2, <1>3, <1>6, OthersStay, Zenon DEF StageInv
<1>8. StageInv(r)'
  <2>1. from[r] \in Addresses /\ \E e \in admitted[from[r]] : e.req = r
    BY <1>0, <1>1, Zenon DEF StageInv
  <2>2. pc'[r] # "new" => stage'[r] = "handler"
    BY <1>0, <1>1, <1>3, Zenon DEF StageInv
  <2> QED BY <1>1, <1>2, <1>3, <1>6, <2>1, <2>2, Zenon DEF StageInv, Buckets
<1> QED BY <1>4, <1>5, <1>7, <1>8, Zenon DEF ApiInv

\* A request that moves on without asking anybody keeps the invariant.
LEMMA MoveKeeps ==
  ASSUME ApiInv, NEW r \in Requests, NEW s \in Stages \ {"sent", "handler"},
         stage[r] \in {"sent", "apiKeyAuth", "rateLimit"},
         stage' = [stage EXCEPT ![r] = s],
         s # "rejected" => stage[r] # "sent", s = "rateLimit" => key[r] \in Keys,
         UNCHANGED <<now, buckets, admitted, refused, key, from, pc>>
  PROVE  ApiInv'
<1>0. ApiTypeOK /\ (\A q \in Requests : StageInv(q)) /\ (\A b \in Buckets : BucketInv(b))
  BY Zenon DEF ApiInv
<1>1. stage'[r] = s /\ \A q \in Requests \ {r} : stage'[q] = stage[q]
  BY <1>0, Zenon DEF ApiTypeOK
<1>2. ApiTypeOK' BY <1>0, Zenon DEF ApiTypeOK, Stages
<1>3. ASSUME NEW b \in Buckets PROVE BucketInv(b)'
  <2>1. \A e \in admitted[b] \cup refused[b] :
          /\ e.req \in Requests /\ stage[e.req] # "sent"
          /\ b \in Keys => key[e.req] = b /\ stage[e.req] \in {"handler", "rejected"}
    BY <1>0 DEF ApiTypeOK, EntryType, BucketInv
  <2> QED BY <1>0, <1>1, <2>1, QuietBucket, Zenon
<1>4. ASSUME NEW q \in Requests \ {r} PROVE StageInv(q)'
  BY <1>0, <1>1, OthersStay DEF StageInv
<1>5. StageInv(r)' BY <1>0, <1>1, Zenon DEF StageInv, Stages
<1> QED BY <1>2, <1>3, <1>4, <1>5, Zenon DEF ApiInv

\* So does a request that fails under the middleware, whether its script has run or not.
LEMMA MiddlewareFailsKeeps ==
  ASSUME ApiInv, NEW r \in Requests, MiddlewareFails(r) PROVE ApiInv'
<1>0. ApiTypeOK /\ (\A q \in Requests : StageInv(q)) /\ (\A b \in Buckets : BucketInv(b))
  BY Zenon DEF ApiInv
<1>1. /\ stage[r] \in {"sent", "apiKeyAuth", "rateLimit"}
      /\ stage' = [stage EXCEPT ![r] = "rejected"] /\ key' = key /\ from' = from
      /\ pc' = pc /\ now' = now
      /\ \/ UNCHANGED <<buckets, admitted, refused>>
         \/ \E b \in Buckets, c \in now..(now + Skew) :
              /\ Asks(b, r, c)
              /\ \/ stage[r] = "sent" /\ b \in Addresses
                 \/ stage[r] = "rateLimit" /\ b \in Keys /\ b = key[r]
  BY <1>0, FailureAsks, Zenon DEF StageInv
<1>2. CASE UNCHANGED <<buckets, admitted, refused>>
  BY <1>1, <1>2, MoveKeeps, Zenon DEF Stages
<1>3. ASSUME NEW b \in Buckets, NEW c \in now..(now + Skew), Asks(b, r, c),
             \/ stage[r] = "sent" /\ b \in Addresses
             \/ stage[r] = "rateLimit" /\ b \in Keys /\ b = key[r]
      PROVE  ApiInv'
  <2>1. stage'[r] = "rejected" /\ \A q \in Requests \ {r} : stage'[q] = stage[q]
    BY <1>0, <1>1, Zenon DEF ApiTypeOK
  <2>2. ApiTypeOK' BY <1>0, <1>1, <1>3, AskTypes, Zenon DEF ApiTypeOK, Stages
  <2>3. Unasked(b, r) BY <1>3, FirstAsk, Zenon
  <2>4. stage[r] \in {"sent", "rateLimit"} /\ (b \in Keys => key'[r] = b)
    BY <1>1, <1>3, ApiAssumption, Zenon
  <2>5. \A d \in Buckets : BucketInv(d)'
    BY <1>0, <1>1, <1>3, <2>1, <2>3, <2>4, AskKeepsBuckets, Zenon
  <2>6. \A d \in Buckets : admitted[d] \subseteq admitted'[d] BY <1>3, Zenon DEF Asks, Ran
  <2>7. ASSUME NEW q \in Requests \ {r} PROVE StageInv(q)'
    BY <1>0, <1>1, <2>1, <2>6, OthersStay, Zenon DEF StageInv
  <2>8. StageInv(r)' BY <1>0, <1>1, <2>1, Zenon DEF StageInv
  <2> QED BY <2>2, <2>5, <2>7, <2>8, Zenon DEF ApiInv
<1> QED BY <1>1, <1>2, <1>3, Zenon

\* The handler and the sweep of the outbox leave the middleware alone.
LEMMA HandlerKeeps ==
  ASSUME ApiInv, S!TypeOK, UNCHANGED <<now, buckets, admitted, refused, stage, key, from>>,
         \A r \in Requests : pc'[r] # "new" => pc[r] # "new"
  PROVE  ApiInv'
<1>0. ApiTypeOK /\ (\A q \in Requests : StageInv(q)) /\ (\A b \in Buckets : BucketInv(b))
  BY Zenon DEF ApiInv
<1>1. ApiTypeOK' BY <1>0, Zenon DEF ApiTypeOK
<1>2. ASSUME NEW b \in Buckets PROVE BucketInv(b)'
  BY <1>0, QuietBucket, Zenon DEF BucketInv
<1>3. ASSUME NEW q \in Requests PROVE StageInv(q)'
  BY <1>0, OthersStay, Zenon DEF StageInv
<1> QED BY <1>1, <1>2, <1>3, Zenon DEF ApiInv

\* Time makes a bucket forget, and nothing else.
LEMMA TickKeeps ==
  ASSUME ApiInv, Tick PROVE ApiInv'
<1>0. ApiTypeOK /\ (\A q \in Requests : StageInv(q)) /\ (\A b \in Buckets : BucketInv(b))
  BY Zenon DEF ApiInv
<1>1. /\ now' = now + 1 /\ now \in Nat /\ buckets' = buckets /\ admitted' = admitted
      /\ refused' = refused /\ stage' = stage /\ key' = key /\ from' = from /\ pc' = pc
  BY <1>0, Zenon DEF Tick, ApiTypeOK, limits, request, submission
<1>2. ApiTypeOK' BY <1>0, <1>1 DEF ApiTypeOK
<1>3. ASSUME NEW q \in Requests PROVE StageInv(q)' BY <1>0, <1>1, Zenon DEF StageInv
<1>4. ASSUME NEW b \in Buckets PROVE BucketInv(b)'
  <2>1. RL(b)!LogInv BY <1>0, Zenon DEF BucketInv
  <2>2. {e \in admitted[b] : e.at > now' - (Window - Skew)} \subseteq buckets[b].log
    BY <1>1, <2>1, LimitTypes DEF RL!LogInv, RL!AdmittedWithin
  <2>3. buckets[b].expires > now' => buckets[b].expires > now
    BY <1>1, <2>1 DEF RL!LogInv
  <2>4. \A e \in admitted[b] : e.at <= now' BY <1>1, <2>1 DEF RL!LogInv
  <2>5. RL(b)!LogInv'
    BY <1>1, <2>1, <2>2, <2>3, <2>4 DEF RL!LogInv, RL!AdmittedWithin
  <2> QED BY <1>0, <1>1, <2>5 DEF BucketInv
<1> QED BY <1>2, <1>3, <1>4, Zenon DEF ApiInv

\* Every step keeps the invariant.
LEMMA ApiInvStep ==
  ASSUME ApiInv, S!SubmissionInv, [Next]_vars PROVE ApiInv'
<1>0. S!TypeOK BY Zenon DEF S!SubmissionInv
<1>1. ASSUME NEW r \in Requests, IPRateLimit(r) PROVE ApiInv' BY <1>1, IPRateLimitKeeps, Zenon
<1>2. ASSUME NEW r \in Requests, APIKeyAuth(r) PROVE ApiInv'
  <2>1. ApiTypeOK BY Zenon DEF ApiInv
  <2>2. /\ stage[r] = "apiKeyAuth"
        /\ stage' = [stage EXCEPT ![r] = IF key[r] = None THEN "rejected" ELSE "rateLimit"]
        /\ UNCHANGED <<now, buckets, admitted, refused, key, from, pc>>
    BY <1>2, Zenon DEF APIKeyAuth, Goto, submission, limits
  <2>3. key[r] # None => key[r] \in Keys BY <2>1, Zenon DEF ApiTypeOK
  <2> QED BY <2>2, <2>3, MoveKeeps, Zenon DEF Stages
<1>3. ASSUME NEW r \in Requests, RateLimit(r) PROVE ApiInv' BY <1>0, <1>3, RateLimitKeeps, Zenon
<1>4. ASSUME NEW r \in Requests, MiddlewareFails(r) PROVE ApiInv'
  BY <1>4, MiddlewareFailsKeeps, Zenon
<1>5. ASSUME NEW r \in Requests, Handler(r) PROVE ApiInv'
  <2>1. UNCHANGED <<now, buckets, admitted, refused, stage, key, from>>
    BY <1>5, Zenon DEF Handler, limits, request
  <2>2. pc[r] # "new" /\ \A q \in Requests \ {r} : pc'[q] = pc[q]
    BY <1>0, <1>5 DEF Handler, S!TypeOK, S!Handle, S!Create, S!Enqueue, S!DeleteOutbox,
       S!Lookup, S!Fault, S!CreateFails, S!EnqueueFails, S!DeleteOutboxFails,
       S!LookupFails, S!Crash, S!Answer, S!Goto
  <2> QED BY <1>0, <2>1, <2>2, HandlerKeeps, Zenon
<1>6. CASE Reconcile
  <2>1. UNCHANGED <<now, buckets, admitted, refused, stage, key, from, pc>>
    BY <1>6, Zenon DEF Reconcile, S!Reconcile, limits, request
  <2> QED BY <1>0, <2>1, HandlerKeeps, Zenon
<1>7. CASE Tick BY <1>7, TickKeeps, Zenon
<1>8. CASE UNCHANGED vars
  <2>1. UNCHANGED <<now, buckets, admitted, refused, stage, key, from, pc>>
    BY <1>8, Zenon DEF vars
  <2> QED BY <1>0, <2>1, HandlerKeeps, Zenon
<1> QED BY <1>1, <1>2, <1>3, <1>4, <1>5, <1>6, <1>7, <1>8, Zenon DEF Next

-----------------------------------------------------------------------------
(* The handler: Submission inside the middleware *)

\* What is proved of the handler by itself
SP == INSTANCE SubmissionProofs

\* Submission as this module sees it and as the module of its proofs does.
LEMMA SameSubmission ==
  /\ S!Init <=> SP!Init
  /\ [S!Next]_(S!vars) <=> [SP!Next]_(SP!vars)
  /\ S!SubmissionInv <=> SP!SubmissionInv
  /\ SP!NoneFresh
<1>1. S!Init <=> SP!Init
  BY Zenon DEF S!Init, SP!Init, S!NoRow, SP!NoRow, S!NoBody, SP!NoBody, S!NoAnswer, SP!NoAnswer
<1>2. S!Next <=> SP!Next
  BY Zenon
  DEF S!Next, SP!Next, S!Reconcile, SP!Reconcile, S!Arrive, SP!Arrive, S!Handle, SP!Handle,
     S!Create, SP!Create, S!Insert, SP!Insert, S!NoRow, SP!NoRow, S!NoBody, SP!NoBody,
     S!Enqueue, SP!Enqueue, S!DeleteOutbox, SP!DeleteOutbox, S!Lookup, SP!Lookup,
     S!Stored, SP!Stored, S!Matches, SP!Matches, S!jsonPayloadEqual, SP!jsonPayloadEqual,
     S!Decodable, SP!Decodable, S!Decoded, SP!Decoded, S!Answer, SP!Answer, S!Goto, SP!Goto,
     S!Fault, SP!Fault, S!CreateFails, SP!CreateFails, S!EnqueueFails, SP!EnqueueFails,
     S!DeleteOutboxFails, SP!DeleteOutboxFails, S!LookupFails, SP!LookupFails,
     S!Crash, SP!Crash
<1>3. S!vars = SP!vars /\ S!vars' = SP!vars' BY Zenon DEF S!vars, SP!vars
<1>4. S!SubmissionInv <=> SP!SubmissionInv
  BY Zenon DEF S!SubmissionInv, SP!SubmissionInv, S!TypeOK, SP!TypeOK, S!CommittedIsCarried,
     SP!CommittedIsCarried, S!CallInv, SP!CallInv, S!Accepted, SP!Accepted, S!Matches,
     SP!Matches, S!jsonPayloadEqual, SP!jsonPayloadEqual, S!Decodable, SP!Decodable,
     S!Decoded, SP!Decoded, S!Stored, SP!Stored, S!NoAnswer, SP!NoAnswer, S!NoRow, SP!NoRow,
     S!NoBody, SP!NoBody
<1>5. SP!NoneFresh BY ApiAssumption, Zenon DEF SP!NoneFresh
<1> QED BY <1>1, <1>2, <1>3, <1>4, <1>5, Zenon

\* Every step of the middleware is a step of the submission protocol, or none.
LEMMA HandlerStep ==
  ASSUME [Next]_vars PROVE [S!Next]_(S!vars)
<1>1. ASSUME NEW r \in Requests, RateLimit(r) PROVE S!Next \/ UNCHANGED S!vars
  BY <1>1, Zenon DEF RateLimit, Allow, S!Next, S!vars, submission
<1>2. ASSUME NEW r \in Requests, Handler(r) PROVE S!Next
  BY <1>2, Zenon DEF Handler, S!Next
<1>3. ASSUME NEW r \in Requests, IPRateLimit(r) \/ APIKeyAuth(r) \/ MiddlewareFails(r)
      PROVE  UNCHANGED S!vars
  BY <1>3, Zenon DEF IPRateLimit, APIKeyAuth, MiddlewareFails, submission, S!vars
<1>4. CASE Reconcile BY <1>4, Zenon DEF Reconcile, S!Next
<1>5. CASE Tick BY <1>5, Zenon DEF Tick, submission, S!vars
<1>6. CASE UNCHANGED vars BY <1>6, Zenon DEF vars, S!vars
<1> QED BY <1>1, <1>2, <1>3, <1>4, <1>5, <1>6, Zenon DEF Next

\* The handler implements Submission, whatever the middleware lets through.
THEOREM HandlerImplements == Spec => S!Spec
<1>1. Init => S!Init BY Zenon DEF Init
<1>2. [Next]_vars => [S!Next]_(S!vars) BY HandlerStep, Zenon
<1> QED BY <1>1, <1>2, PTL DEF Spec, S!Spec

\* The row of the key answers everybody, behind the middleware as without it.
LEMMA RowAnswersHere == Spec => []S!SubmissionInv
<1>1. S!Spec => SP!Spec BY SameSubmission, PTL DEF S!Spec, SP!Spec
<1>2. SP!Spec => []SP!SubmissionInv BY SP!RowAnswers, SameSubmission, Zenon
<1> QED BY <1>1, <1>2, HandlerImplements, SameSubmission, PTL

\* No bucket is asked twice by a request, a key's bucket only by requests with the key,
\* and every stage is passed with what it asks for, through failures at any point.
THEOREM MiddlewareKeeps == Spec => []ApiInv
<1>1. Init => ApiInv
  <2> SUFFICES ASSUME Init PROVE ApiInv
    OBVIOUS
  <2>1. /\ now = 0 /\ pc = [r \in Requests |-> "new"] /\ stage = [r \in Requests |-> "sent"]
        /\ admitted = [b \in Buckets |-> {}] /\ refused = [b \in Buckets |-> {}]
        /\ buckets = [b \in Buckets |-> [log |-> {}, expires |-> 0]]
        /\ key = [r \in Requests |-> None] /\ from = [r \in Requests |-> None]
    BY Zenon DEF Init, S!Init, RL!NewBucket
  <2>2. ApiTypeOK BY <2>1, Zenon DEF ApiTypeOK, Stages
  <2>3. ASSUME NEW r \in Requests PROVE StageInv(r) BY <2>1, Zenon DEF StageInv
  <2>4. ASSUME NEW b \in Buckets PROVE BucketInv(b)
    <3>1. /\ buckets[b].log = {} /\ buckets[b].expires = 0 /\ now = 0
          /\ admitted[b] = {} /\ refused[b] = {}
      BY <2>1, Zenon
    <3>2. Cardinality({}) = 0 /\ IsFiniteSet({}) BY FS_EmptySet, Zenon
    <3>3. RL(b)!LogInv
      <4>1. RL(b)!AdmittedWithin(Window - Skew) = {} BY <3>1, Zenon DEF RL!AdmittedWithin
      <4>2. RL(b)!IsFiniteSet({}) /\ RL(b)!Cardinality({}) <= LimitOf(b)
        BY <3>2, SameCounts, LimitTypes
      <4> QED BY <3>1, <4>1, <4>2 DEF RL!LogInv, LimitOf
    <3> QED BY <3>1, <3>3, Zenon DEF BucketInv
  <2> QED BY <2>2, <2>3, <2>4, Zenon DEF ApiInv
<1>2. ApiInv /\ S!SubmissionInv /\ [Next]_vars => ApiInv' BY ApiInvStep, Zenon
<1> QED BY <1>1, <1>2, RowAnswersHere, PTL DEF Spec

-----------------------------------------------------------------------------
(* What follows *)

\* Requests are no more than the entries that stand for them.
LEMMA FewerRequests ==
  ASSUME NEW E, IsFiniteSet(E), NEW R, \A r \in R : \E e \in E : e.req = r
  PROVE  IsFiniteSet(R) /\ Cardinality(R) <= Cardinality(E)
<1> DEFINE f == [r \in R |-> CHOOSE e \in E : e.req = r]
<1>1. \A r \in R : f[r] \in E /\ f[r].req = r OBVIOUS
<1>2. f \in [R -> E] BY <1>1, Zenon
<1> HIDE DEF f
<1>3. f \in Injection(R, E) BY <1>1, <1>2 DEF Injection, IsInjective
<1> QED BY <1>3, FS_Injection, Zenon

\* Entries are no more than the requests they stand for, when each asks once.
LEMMA FewerEntries ==
  ASSUME NEW E, NEW R, IsFiniteSet(R), \A e \in E : e.req \in R,
         \A e, f \in E : e.req = f.req => e = f
  PROVE  IsFiniteSet(E) /\ Cardinality(E) <= Cardinality(R)
<1> DEFINE g == [e \in E |-> e.req]
<1>1. g \in [E -> R] /\ \A e \in E : g[e] = e.req OBVIOUS
<1> HIDE DEF g
<1>2. g \in Injection(E, R) BY <1>1, Zenon DEF Injection, IsInjective
<1> QED BY <1>2, FS_Injection, Zenon

\* What still counts is logged, and within the limit.
LEMMA RecentWithinLimit ==
  ASSUME NEW b \in Buckets, RL(b)!LogInv
  PROVE  LET recent == {e \in admitted[b] : e.at > now - (Window - Skew)}
         IN  IsFiniteSet(recent) /\ Cardinality(recent) <= LimitOf(b)
<1> DEFINE recent == {e \in admitted[b] : e.at > now - (Window - Skew)}
<1>1. /\ recent \subseteq buckets[b].log /\ IsFiniteSet(admitted[b])
      /\ buckets[b].log \subseteq admitted[b] /\ Cardinality(buckets[b].log) <= LimitOf(b)
  BY SameCounts, Zenon DEF RL!LogInv, RL!AdmittedWithin, LimitOf
<1> HIDE DEF recent
<1>2. IsFiniteSet(buckets[b].log) BY <1>1, FS_Subset, Zenon
<1>3. IsFiniteSet(recent) /\ Cardinality(recent) <= Cardinality(buckets[b].log)
  BY <1>1, <1>2, FS_Subset, Zenon
<1>4. Cardinality(recent) \in Nat /\ Cardinality(buckets[b].log) \in Nat
  BY <1>2, <1>3, FS_CardinalityType, Zenon
<1>5. Cardinality(recent) <= LimitOf(b) BY <1>1, <1>3, <1>4, LimitTypes
<1> QED BY <1>3, <1>5, Zenon DEF recent

\* An admission of a request with key k, by whichever key's bucket, is in k's.
LEMMA OwnBucket ==
  ASSUME ApiInv, NEW r \in Requests, NEW t \in AdmittedAt(r)
  PROVE  key[r] \in Keys /\ \E e \in admitted[key[r]] : e.req = r /\ e.at = t
<1>1. PICK k \in Keys : \E e \in admitted[k] : e.req = r /\ e.at = t BY Zenon DEF AdmittedAt
<1>2. key[r] = k BY <1>1 DEF ApiInv, BucketInv, Buckets
<1> QED BY <1>1, <1>2, Zenon

\* IPRateLimit, APIKeyAuth and RateLimit in front of the handler: replicas that share
\* the buckets serve no key more than its limit in any window shortened by the gap
\* between their clocks.
THEOREM KeysServedWithinQuota == Spec => []ServedWithinQuota
<1>1. ApiInv => ServedWithinQuota
  <2> SUFFICES ASSUME ApiInv PROVE ServedWithinQuota
    OBVIOUS
  <2>1. ASSUME NEW k \in Keys
        PROVE  Cardinality({r \in Served(k) : \E t \in AdmittedAt(r) : t > now - (Window - Skew)})
                 <= KeyLimit
    <3> DEFINE R == {r \in Served(k) : \E t \in AdmittedAt(r) : t > now - (Window - Skew)}
               recent == {e \in admitted[k] : e.at > now - (Window - Skew)}
    <3>1. k \in Buckets /\ LimitOf(k) = KeyLimit BY Zenon DEF Buckets, LimitOf
    <3>2. IsFiniteSet(recent) /\ Cardinality(recent) <= KeyLimit
      BY <3>1, RecentWithinLimit, Zenon DEF ApiInv, BucketInv
    <3>3. ASSUME NEW r \in R PROVE \E e \in recent : e.req = r
      BY OwnBucket DEF Served
    <3> HIDE DEF R, recent
    <3>4. IsFiniteSet(R) /\ Cardinality(R) <= Cardinality(recent)
      BY <3>2, <3>3, FewerRequests, Zenon
    <3>5. Cardinality(R) \in Nat /\ Cardinality(recent) \in Nat
      BY <3>2, <3>4, FS_CardinalityType, Zenon
    <3>6. Cardinality(R) <= KeyLimit BY <3>1, <3>2, <3>4, <3>5, LimitTypes
    <3> QED BY <3>6, Zenon DEF R
  <2>2. \A r \in Requests : pc[r] # "new" => \E k \in Keys : r \in Served(k)
    BY Zenon DEF ApiInv, StageInv, Served
  <2> QED BY <2>1, <2>2, Zenon DEF ServedWithinQuota
<1> QED BY <1>1, MiddlewareKeeps, PTL

\* IPRateLimit before APIKeyAuth: whoever reaches the lookup of the key was let through
\* by the bucket of their address, and an address stays within its limit.
THEOREM AddressesThrottled == Spec => []LookupsThrottled
<1>1. ApiInv => LookupsThrottled
  <2> SUFFICES ASSUME ApiInv, NEW a \in Addresses
               PROVE  LET looked == {r \in Requests : from[r] = a /\ stage[r] # "sent"
                                                         /\ \E e \in admitted[a] : e.req = r}
                      IN  /\ Cardinality({r \in looked : \E e \in admitted[a] : e.req = r
                                              /\ e.at > now - (Window - Skew)}) <= IPLimit
                          /\ \A r \in Requests :
                               from[r] = a /\ stage[r] \in {"apiKeyAuth", "rateLimit", "handler"}
                                 => r \in looked
    BY Zenon DEF LookupsThrottled
  <2> DEFINE looked == {r \in Requests : from[r] = a /\ stage[r] # "sent"
                                            /\ \E e \in admitted[a] : e.req = r}
             R == {r \in looked : \E e \in admitted[a] : e.req = r
                                    /\ e.at > now - (Window - Skew)}
             recent == {e \in admitted[a] : e.at > now - (Window - Skew)}
  <2>1. a \in Buckets /\ LimitOf(a) = IPLimit BY ApiAssumption, Zenon DEF Buckets, LimitOf
  <2>2. IsFiniteSet(recent) /\ Cardinality(recent) <= IPLimit
    BY <2>1, RecentWithinLimit, Zenon DEF ApiInv, BucketInv
  <2>3. ASSUME NEW r \in R PROVE \E e \in recent : e.req = r OBVIOUS
  <2>4. \A r \in Requests : from[r] = a /\ stage[r] \in {"apiKeyAuth", "rateLimit", "handler"}
                               => r \in looked
    BY Zenon DEF ApiInv, StageInv
  <2> HIDE DEF R, recent
  <2>5. IsFiniteSet(R) /\ Cardinality(R) <= Cardinality(recent)
    BY <2>2, <2>3, FewerRequests, Zenon
  <2>6. Cardinality(R) \in Nat /\ Cardinality(recent) \in Nat
    BY <2>2, <2>5, FS_CardinalityType, Zenon
  <2>7. Cardinality(R) <= IPLimit BY <2>1, <2>2, <2>5, <2>6, LimitTypes
  <2> QED BY <2>4, <2>7, Zenon DEF R
<1> QED BY <1>1, MiddlewareKeeps, PTL

\* RateLimit: who is refused by the bucket of their key finds it filled by requests with
\* that key, never by somebody else's.
THEOREM QuotasAreOwn == Spec => []QuotaIsOwn
<1>1. ApiInv => QuotaIsOwn
  <2> SUFFICES ASSUME ApiInv, NEW r \in Requests, NEW k \in Keys, NEW e \in refused[k], e.req = r
               PROVE  Cardinality({s \in Requests : key[s] = key[r] /\ \E t \in AdmittedAt(s) :
                                     t <= e.at /\ t > e.at - (Window + Skew)}) >= KeyLimit
    BY Zenon DEF QuotaIsOwn
  <2> DEFINE R == {s \in Requests : key[s] = key[r] /\ \E t \in AdmittedAt(s) :
                     t <= e.at /\ t > e.at - (Window + Skew)}
             B == Before(k, e.at)
  <2>1. k \in Buckets /\ LimitOf(k) = KeyLimit /\ BucketInv(k) /\ ApiTypeOK
    BY Zenon DEF Buckets, LimitOf, ApiInv
  <2>2. key[r] = k BY <2>1, Zenon DEF BucketInv
  <2>3. Cardinality(B) >= KeyLimit BY <2>1, Zenon DEF BucketInv, Before
  <2>4. IsFiniteSet(B) BY <2>1, SameCounts, FS_Subset, Zenon DEF Before, BucketInv, RL!LogInv
  <2>5. ASSUME NEW s \in R PROVE \E f \in B : f.req = s
    BY <2>2, OwnBucket DEF Before
  <2>6. ASSUME NEW f \in B PROVE f.req \in R
    <3>1. f \in admitted[k] /\ f.at <= e.at /\ f.at > e.at - (Window + Skew) BY Zenon DEF Before
    <3>2. f.req \in Requests BY <2>1, <3>1 DEF ApiTypeOK, EntryType
    <3>3. key[f.req] = k BY <2>1, <3>1, Zenon DEF BucketInv
    <3>4. f.at \in AdmittedAt(f.req) BY <3>1, Zenon DEF AdmittedAt
    <3> QED BY <2>2, <3>1, <3>2, <3>3, <3>4, Zenon
  <2>7. \A f, g \in B : f.req = g.req => f = g BY <2>1, Zenon DEF Before, BucketInv
  <2> HIDE DEF R, B
  <2>8. IsFiniteSet(R) BY <2>4, <2>5, FewerRequests, Zenon
  <2>9. Cardinality(B) <= Cardinality(R) BY <2>6, <2>7, <2>8, FewerEntries, Zenon
  <2>10. Cardinality(B) \in Nat /\ Cardinality(R) \in Nat BY <2>4, <2>8, FS_CardinalityType, Zenon
  <2>11. Cardinality(R) >= KeyLimit BY <2>1, <2>3, <2>9, <2>10, LimitTypes
  <2> QED BY <2>11, Zenon DEF R
<1> QED BY <1>1, MiddlewareKeeps, PTL

-----------------------------------------------------------------------------
(* The parts implement their specifications *)

\* Asking a bucket for the first time is a step of its limiter, and of no other.
LEMMA AskIsStep ==
  ASSUME NEW r \in Requests, NEW b \in Buckets, NEW c \in now..(now + Skew),
         Asks(b, r, c), Unasked(b, r)
  PROVE  \A d \in Buckets : BucketStep(d)
<1>1. ASSUME NEW d \in Buckets \ {b} PROVE BucketStep(d)
  BY Zenon DEF Asks, BucketStep
<1>2. r \notin RL(b)!Asked BY Zenon DEF Unasked, RL!Asked
<1>3. RL(b)!Allow(r) BY <1>2, Zenon DEF RL!Allow, Asks, Ran
<1>4. BucketStep(b) BY <1>3, Zenon DEF BucketStep, RL!Next
<1> QED BY <1>1, <1>4, Zenon

\* Every step is, for every bucket, a step of its limiter or none.
LEMMA LimiterStep ==
  ASSUME ApiInv, [Next]_vars PROVE [\A b \in Buckets : BucketStep(b)]_vars
<1>0. ApiTypeOK /\ (\A q \in Requests : StageInv(q)) /\ (\A b \in Buckets : BucketInv(b))
  BY Zenon DEF ApiInv
<1>1. ASSUME UNCHANGED <<now, buckets, admitted, refused>> PROVE \A b \in Buckets : BucketStep(b)
  BY <1>1, Zenon DEF BucketStep
<1>2. ASSUME NEW r \in Requests, IPRateLimit(r) PROVE \A b \in Buckets : BucketStep(b)
  <2>1. PICK a \in Addresses, c \in now..(now + Skew) : Asks(a, r, c) /\ stage[r] = "sent"
    BY <1>0, <1>2, IPRateLimitAsks, Zenon
  <2>2. a \in Buckets BY Zenon DEF Buckets
  <2>3. Unasked(a, r) BY <2>1, <2>2, FirstAsk, Zenon
  <2> QED BY <2>1, <2>2, <2>3, AskIsStep, Zenon
<1>3. ASSUME NEW r \in Requests, RateLimit(r) PROVE \A b \in Buckets : BucketStep(b)
  <2>1. stage[r] = "rateLimit" /\ key[r] \in Keys /\ key[r] \in Buckets
    BY <1>0, <1>3, Zenon DEF RateLimit, StageInv, Buckets
  <2>2. PICK k \in Keys, c \in now..(now + Skew) : k = key[r] /\ Asks(k, r, c)
    BY <1>0, <1>3, <2>1, RateLimitAsks, Zenon
  <2>3. Unasked(k, r) BY <2>1, <2>2, FirstAsk, Zenon
  <2> QED BY <2>1, <2>2, <2>3, AskIsStep, Zenon
<1>4. ASSUME NEW r \in Requests, MiddlewareFails(r) PROVE \A b \in Buckets : BucketStep(b)
  <2>1. \/ UNCHANGED <<now, buckets, admitted, refused>>
        \/ \E b \in Buckets, c \in now..(now + Skew) :
             /\ Asks(b, r, c)
             /\ stage[r] = "sent" \/ (stage[r] = "rateLimit" /\ b \in Keys)
    BY <1>0, <1>4, FailureAsks, Zenon DEF StageInv
  <2> QED BY <1>1, <2>1, FirstAsk, AskIsStep, Zenon
<1>5. ASSUME NEW r \in Requests, APIKeyAuth(r) \/ Handler(r)
      PROVE  UNCHANGED <<now, buckets, admitted, refused>>
  BY <1>5, Zenon DEF APIKeyAuth, Handler, limits
<1>6. CASE Reconcile BY <1>1, <1>6, Zenon DEF Reconcile, limits
<1>7. ASSUME Tick, NEW b \in Buckets PROVE BucketStep(b)
  BY <1>7, Zenon DEF Tick, limits, BucketStep, RL!Next, RL!Tick
<1> QED BY <1>1, <1>2, <1>3, <1>4, <1>5, <1>6, <1>7, Zenon DEF Next

\* The middleware composes its parts: the handler implements Submission and every bucket
\* implements RateLimit, whichever requests are refused, fail or are lost on the way.
THEOREM PartsCompose == Spec => PartsImplement
<1>1. Init => \A b \in Buckets : RL(b)!Init
  BY Zenon DEF Init, RL!Init
<1>2. ApiInv /\ [Next]_vars => [\A b \in Buckets : BucketStep(b)]_vars BY LimiterStep, Zenon
<1>3. Spec => [][\A b \in Buckets : BucketStep(b)]_vars
  BY <1>2, MiddlewareKeeps, PTL DEF Spec
<1> QED BY <1>1, <1>3, HandlerImplements, PTL DEF Spec, PartsImplement

\* CreateJob behind the middleware: all clients of an idempotency key that are told 2xx
\* are told one job id, and only one of them 201.
THEOREM ApiOneJobPerKey == Spec => []OneJobPerKey
<1>1. S!SubmissionInv => OneJobPerKey
  BY DEF S!SubmissionInv, S!CallInv, OneJobPerKey, S!OneJobPerKey, S!Accepted
<1> QED BY <1>1, RowAnswersHere, PTL

\* CreateJob and ReconcileOutbox behind the middleware: a committed job is never in
\* neither store.
THEOREM ApiCommittedIsCarried == Spec => []CommittedIsCarried
<1>1. S!SubmissionInv => CommittedIsCarried
  BY Zenon DEF S!SubmissionInv, CommittedIsCarried
<1> QED BY <1>1, RowAnswersHere, PTL

\* CreateJob behind the middleware: a replay is answered with the job it describes, and
\* refused only if it describes another job or cannot be decoded: see ReplaysHonest.
THEOREM ApiReplayHonest == Spec => []ReplayHonest
<1>1. S!SubmissionInv => ReplayHonest
  <2>1. SP!ReplayHonest => S!ReplayHonest
    BY Zenon DEF S!ReplayHonest, SP!ReplayHonest, S!SameJob, SP!SameJob, S!Decodable,
       SP!Decodable
  <2> QED BY <2>1, SameSubmission, SP!MatchesHonest, Zenon DEF ReplayHonest
<1> QED BY <1>1, RowAnswersHere, PTL
=============================================================================
