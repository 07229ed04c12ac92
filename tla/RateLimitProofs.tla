--------------------------- MODULE RateLimitProofs ---------------------------
(***************************************************************************)
(* Proofs about RateLimit, for every limit, window and gap between clocks. *)
(***************************************************************************)
EXTENDS RateLimit, FiniteSetTheorems, TLAPS

\* The constants are numbers.
LEMMA ConstantTypes ==
  ASSUME LimitsPositive
  PROVE  Limit \in Nat /\ Limit > 0 /\ Window \in Nat /\ Window > 0 /\ Skew \in Nat
BY DEF LimitsPositive

\* An admission young enough to count is alive and survives the eviction, whichever
\* instance asks.
LEMMA YoungAreKept ==
  ASSUME LimitsPositive, LogInv, NEW c \in now..(now + Skew)
  PROVE  AdmittedWithin(Window - Skew) \subseteq Kept(bucket, c)
<1> SUFFICES ASSUME NEW e \in AdmittedWithin(Window - Skew) PROVE e \in Kept(bucket, c)
  OBVIOUS
<1>1. e \in admitted /\ e \in bucket.log /\ e.at > now - (Window - Skew)
  BY DEF AdmittedWithin, LogInv
<1>2. /\ e.at \in Int /\ e.score \in Int /\ e.at + Window <= bucket.expires
      /\ e.at <= e.score /\ now \in Nat /\ bucket.expires \in Nat
  BY <1>1 DEF LogInv
<1>3. now < bucket.expires /\ e.score > c - Window
  BY <1>1, <1>2, ConstantTypes
<1> QED
  BY <1>1, <1>3 DEF Kept, Live

\* What is kept was logged, and is a finite set within the limit.
LEMMA KeptIsSmall ==
  ASSUME LimitsPositive, LogInv, NEW c \in Int
  PROVE  /\ Kept(bucket, c) \subseteq bucket.log /\ Kept(bucket, c) \subseteq admitted
         /\ IsFiniteSet(Kept(bucket, c)) /\ Cardinality(Kept(bucket, c)) \in Nat
         /\ Cardinality(Kept(bucket, c)) <= Limit
<1>1. Kept(bucket, c) \subseteq bucket.log /\ bucket.log \subseteq admitted
  BY DEF Kept, Live, LogInv
<1>2. IsFiniteSet(bucket.log) /\ Cardinality(bucket.log) \in Nat
  BY <1>1, FS_Subset, FS_CardinalityType DEF LogInv
<1>3. IsFiniteSet(Kept(bucket, c)) /\ Cardinality(Kept(bucket, c)) <= Cardinality(bucket.log)
  BY <1>1, <1>2, FS_Subset
<1>4. Cardinality(Kept(bucket, c)) \in Nat
  BY <1>3, FS_CardinalityType
<1> QED
  BY <1>1, <1>2, <1>3, <1>4, ConstantTypes DEF LogInv

\* The script keeps the log: it drops nothing that counts, and admits only into room.
LEMMA AllowKeepsLog ==
  ASSUME LimitsPositive, LogInv, NEW r \in Requests, Allow(r)
  PROVE  LogInv'
<1> PICK c \in now..(now + Skew) :
       /\ bucket' = Touched(bucket, r, c)
       /\ IF Admits(bucket, c)
            THEN admitted' = admitted \cup {Entry(r, c)} /\ UNCHANGED refused
            ELSE refused' = refused \cup {Entry(r, c)} /\ UNCHANGED admitted
  BY DEF Allow
<1> DEFINE new == Entry(r, c)
           kept == Kept(bucket, c)
<1>1. now' = now /\ now \in Nat /\ c \in Nat /\ c >= now /\ c <= now + Skew
  BY ConstantTypes DEF Allow, LogInv
<1>2. new.at = now /\ new.score = c
  BY DEF Entry
<1>3. bucket'.expires = now + Window
  BY DEF Touched
<1>4. AdmittedWithin(Window - Skew) \subseteq kept
  BY YoungAreKept
<1>5. /\ kept \subseteq bucket.log /\ kept \subseteq admitted /\ IsFiniteSet(kept)
      /\ Cardinality(kept) \in Nat /\ Cardinality(kept) <= Limit
  BY <1>1, KeptIsSmall
<1>6. CASE Admits(bucket, c)
  <2>1. admitted' = admitted \cup {new} /\ bucket'.log = kept \cup {new} /\ refused' = refused
    BY <1>6 DEF Touched
  <2>2. IsFiniteSet(kept \cup {new}) /\ Cardinality(kept \cup {new}) <= Cardinality(kept) + 1
    <3> HIDE DEF new, kept
    <3>1. /\ IsFiniteSet(kept \cup {new})
          /\ Cardinality(kept \cup {new}) =
               IF new \in kept THEN Cardinality(kept) ELSE Cardinality(kept) + 1
      BY <1>5, FS_AddElement
    <3> QED
      BY <1>5, <3>1
  <2>3. Cardinality(kept \cup {new}) <= Limit
    <3>1. Cardinality(kept) < Limit
      BY <1>6 DEF Admits
    <3>2. Cardinality(kept \cup {new}) \in Nat
      BY <2>2, FS_CardinalityType
    <3> QED
      BY <1>5, <2>2, <3>1, <3>2, ConstantTypes
  <2>4. IsFiniteSet(admitted')
    BY <2>1, FS_AddElement DEF LogInv
  <2> HIDE DEF new, kept
  <2>5. AdmittedWithin(Window - Skew)' \subseteq bucket'.log
    BY <1>1, <1>4, <2>1 DEF AdmittedWithin
  <2>6. \A e \in admitted' :
          /\ e.at \in Nat /\ e.score \in Nat
          /\ e.at <= now' /\ e.at + Window <= bucket'.expires
          /\ e.at <= e.score /\ e.score <= e.at + Skew
    BY <1>1, <1>2, <1>3, <2>1, ConstantTypes DEF LogInv
  <2>7. \E e \in admitted' \cup refused' : e.at \in Nat /\ e.at + Window = bucket'.expires
    BY <1>1, <1>2, <1>3, <2>1
  <2> QED
    BY <1>1, <1>3, <1>5, <2>1, <2>3, <2>4, <2>5, <2>6, <2>7, ConstantTypes DEF LogInv
<1>7. CASE ~Admits(bucket, c)
  <2>1. admitted' = admitted /\ bucket'.log = kept /\ refused' = refused \cup {new}
    BY <1>7 DEF Touched
  <2> HIDE DEF new, kept
  <2>2. AdmittedWithin(Window - Skew)' \subseteq bucket'.log
    BY <1>1, <1>4, <2>1 DEF AdmittedWithin
  <2>3. \A e \in admitted' :
          /\ e.at \in Nat /\ e.score \in Nat
          /\ e.at <= now' /\ e.at + Window <= bucket'.expires
          /\ e.at <= e.score /\ e.score <= e.at + Skew
    BY <1>1, <1>3, <2>1, ConstantTypes DEF LogInv
  <2>4. \E e \in admitted' \cup refused' : e.at \in Nat /\ e.at + Window = bucket'.expires
    BY <1>1, <1>2, <1>3, <2>1
  <2> QED
    BY <1>1, <1>3, <1>5, <2>1, <2>2, <2>3, <2>4, ConstantTypes DEF LogInv
<1> QED
  BY <1>6, <1>7

\* A refusal finds the log full of admissions that are recent enough.
LEMMA RefusalHasCause ==
  ASSUME LimitsPositive, LogInv, NEW r \in Requests, Allow(r)
  PROVE  RefusedForCause
<1> SUFFICES ASSUME refused' # refused
             PROVE  /\ Cardinality(AdmittedWithin(Window + Skew)) >= Limit
                    /\ \E e \in admitted \cup refused : e.at > now - Window
  BY DEF RefusedForCause
<1>1. PICK c \in now..(now + Skew) : ~Admits(bucket, c)
  BY DEF Allow
<1> DEFINE kept == Kept(bucket, c)
<1>2. now \in Nat /\ c \in Int /\ c >= now /\ bucket.expires \in Nat
  BY ConstantTypes DEF LogInv
<1>3. kept \subseteq admitted /\ IsFiniteSet(kept) /\ Cardinality(kept) \in Nat
  BY <1>2, KeptIsSmall
<1>4. Cardinality(kept) >= Limit
  BY <1>1, <1>3, ConstantTypes DEF Admits
<1>5. kept \subseteq AdmittedWithin(Window + Skew)
  <2> SUFFICES ASSUME NEW e \in kept PROVE e.at > now - (Window + Skew)
    BY <1>3 DEF AdmittedWithin
  <2>1. e.score > c - Window
    BY DEF Kept
  <2>2. e.at \in Nat /\ e.score \in Nat /\ e.score <= e.at + Skew
    BY <1>3 DEF LogInv
  <2> QED
    BY <1>2, <2>1, <2>2, ConstantTypes
<1>6. IsFiniteSet(AdmittedWithin(Window + Skew))
  BY FS_Subset DEF AdmittedWithin, LogInv
<1>7. Cardinality(AdmittedWithin(Window + Skew)) >= Limit
  BY <1>3, <1>4, <1>5, <1>6, FS_Subset, FS_CardinalityType, ConstantTypes
<1>8. kept # {}
  BY <1>4, FS_EmptySet, ConstantTypes
<1>9. bucket.expires > now
  BY <1>2, <1>8 DEF Kept, Live
<1>10. PICK e \in admitted \cup refused : e.at \in Nat /\ e.at + Window = bucket.expires
  BY <1>9 DEF LogInv
<1>11. e.at > now - Window
  BY <1>2, <1>9, <1>10, ConstantTypes
<1> QED
  BY <1>7, <1>11

\* Every step keeps the log, and refuses only for cause.
LEMMA LogStep ==
  ASSUME LimitsPositive
  PROVE  LogInv /\ [Next]_vars => LogInv' /\ RefusedForCause
<1> SUFFICES ASSUME LogInv, [Next]_vars PROVE LogInv' /\ RefusedForCause
  OBVIOUS
<1>1. ASSUME NEW r \in Requests, Allow(r) PROVE LogInv' /\ RefusedForCause
  BY <1>1, AllowKeepsLog, RefusalHasCause
<1>2. CASE Tick
  <2>1. /\ now' = now + 1 /\ now \in Nat /\ now' \in Nat
        /\ bucket' = bucket /\ admitted' = admitted /\ refused' = refused
    BY <1>2 DEF Tick, LogInv
  <2>2. AdmittedWithin(Window - Skew)' \subseteq AdmittedWithin(Window - Skew)
    BY <2>1, ConstantTypes DEF AdmittedWithin, LogInv
  <2>3. bucket'.expires > now' => bucket.expires > now
    BY <2>1 DEF LogInv
  <2>4. \A e \in admitted' :
          /\ e.at \in Nat /\ e.score \in Nat
          /\ e.at <= now' /\ e.at + Window <= bucket'.expires
          /\ e.at <= e.score /\ e.score <= e.at + Skew
    BY <2>1 DEF LogInv
  <2> QED
    BY <2>1, <2>2, <2>3, <2>4 DEF LogInv, RefusedForCause
<1>3. CASE UNCHANGED vars
  BY <1>3 DEF vars, LogInv, AdmittedWithin, RefusedForCause
<1> QED
  BY <1>1, <1>2, <1>3 DEF Next

\* The log remembers every admission that counts, and holds no more than limit.
THEOREM LogRemembers == ASSUME LimitsPositive PROVE Spec => []LogInv
<1>1. Init => LogInv
  BY FS_EmptySet, ConstantTypes DEF Init, LogInv, NewBucket, AdmittedWithin
<1> QED
  BY <1>1, LogStep, PTL DEF Spec

\* However many instances share the bucket and however their clocks differ by up to
\* Skew, no window of length Window - Skew sees more than Limit admissions.
THEOREM QuotaHolds == ASSUME LimitsPositive PROVE Spec => []WithinQuota
<1>1. LogInv => WithinQuota
  <2> SUFFICES ASSUME LogInv PROVE WithinQuota
    OBVIOUS
  <2>1. IsFiniteSet(bucket.log) /\ Cardinality(bucket.log) \in Nat
        /\ Cardinality(bucket.log) <= Limit
    BY FS_Subset, FS_CardinalityType DEF LogInv
  <2>2. AdmittedWithin(Window - Skew) \subseteq bucket.log
    BY DEF LogInv
  <2>3. Cardinality(AdmittedWithin(Window - Skew)) <= Cardinality(bucket.log)
    BY <2>1, <2>2, FS_Subset
  <2>4. Cardinality(AdmittedWithin(Window - Skew)) \in Nat
    BY <2>1, <2>2, FS_Subset, FS_CardinalityType
  <2> QED
    BY <2>1, <2>3, <2>4, ConstantTypes DEF WithinQuota
<1> QED
  BY <1>1, LogRemembers, PTL

\* No request is refused unless Limit were admitted in the last Window + Skew, nor
\* after a whole Window in which nobody asked.
THEOREM RefusalsJust == ASSUME LimitsPositive PROVE Spec => NoUnjustRefusal
<1>1. LogInv /\ [Next]_vars => [RefusedForCause]_vars
  BY LogStep
<1> QED
  BY <1>1, LogRemembers, PTL DEF Spec, NoUnjustRefusal
=============================================================================
