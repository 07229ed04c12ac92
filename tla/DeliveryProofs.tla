---------------------------- MODULE DeliveryProofs ----------------------------
(***************************************************************************)
(* What the exchanges and the delays of Delivery guarantee, for any jobs,  *)
(* addresses, limits, delays and length of a second.  What the loop of     *)
(* Backoff computes is shown by induction over a set of numbers.           *)
(***************************************************************************)
EXTENDS Delivery, TLAPS, WellFoundedInduction

Good(c) == c \in Calls /\ ExchangeInv(c)

\* An exchange starts, and fails, with nothing known.
LEMMA NewIsGood == Good(NewCall) /\ \A c : Good(Failed(c))
BY DeliveryAssumption DEF Good, Calls, ExchangeInv, NewCall, NoAnswerYet, Valid, Failed

\* ValidateCallbackURL pins only a lookup that passed as a whole.
LEMMA ValidatedKeeps ==
  ASSUME NEW c, Good(c), c.next = "validate", NEW d \in Validated(c)
  PROVE  Good(d)
<1>1. CASE d = Failed(c) BY <1>1, NewIsGood, Zenon
<1>2. ASSUME NEW ips \in SUBSET Addresses, Valid(ips),
             d = [c EXCEPT !.next = "dial", !.pinned = ips]
      PROVE  Good(d)
  BY <1>2, Zenon DEF Good, Calls, ExchangeInv
<1> QED BY <1>1, <1>2, Zenon DEF Validated

\* The Dialer connects to pinned addresses only.
LEMMA DialedKeeps ==
  ASSUME NEW c, Good(c), c.next = "dial", NEW d \in Dialed(c)
  PROVE  Good(d)
<1>1. CASE d = Failed(c) BY <1>1, NewIsGood, Zenon
<1>2. ASSUME NEW ip \in c.pinned,
             d = [c EXCEPT !.next = "answer", !.conn = {ip}, !.via = @ + 1]
      PROVE  Good(d)
  <2>1. /\ d.next = "answer" /\ d.conn = {ip} /\ d.via = c.via + 1
        /\ d.pinned = c.pinned /\ d.answer = c.answer
    BY <1>2, Zenon DEF Good, Calls
  <2>2. d \in Calls
    <3>1. {ip} \in SUBSET Addresses BY <1>2, Zenon DEF Good, Calls
    <3>2. c.via + 1 \in Nat BY DEF Good, Calls
    <3> QED BY <1>2, <3>1, <3>2, Zenon DEF Good, Calls
  <2>3. d.via <= MaxRedirects /\ d.via > 0
    BY <2>1, DeliveryAssumption DEF Good, Calls, ExchangeInv
  <2> QED BY <1>2, <2>1, <2>2, <2>3, Zenon DEF Good, ExchangeInv
<1> QED BY <1>1, <1>2, Zenon DEF Dialed

\* Whatever is answered is an answer.
LEMMA AnsweredKeeps ==
  ASSUME NEW c, Good(c), c.next = "answer", NEW d \in Answered(c)
  PROVE  Good(d)
<1>1. CASE d = Failed(c) BY <1>1, NewIsGood, Zenon
<1>2. ASSUME NEW a \in Answers, d = [c EXCEPT !.next = "judge", !.answer = a]
      PROVE  Good(d)
  BY <1>2, Zenon DEF Good, Calls, ExchangeInv
<1> QED BY <1>1, <1>2, Zenon DEF Answered

\* CheckRedirect lets only a POST go on, and only a 2xx of bounded size ends well.
LEMMA JudgedKeeps ==
  ASSUME NEW c, Good(c), c.next = "judge", NEW d \in Judged(c)
  PROVE  Good(d)
<1>1. CASE d = Failed(c) BY <1>1, NewIsGood, Zenon
<1>2. ASSUME Follows(c),
             d = [c EXCEPT !.next = "dial", !.method = c.answer.method,
                           !.conn = {}, !.answer = NoAnswerYet]
      PROVE  Good(d)
  <2>1. c.answer.method = "POST" BY <1>2, Zenon DEF Follows, Good, Calls
  <2>2. d = [c EXCEPT !.next = "dial", !.method = "POST", !.conn = {}, !.answer = NoAnswerYet]
    BY <1>2, <2>1, Zenon
  <2> QED BY <1>2, <2>2, Zenon DEF Follows, Good, Calls, ExchangeInv
<1>3. ASSUME c.answer.kind = "2xx", c.answer.body # "big", d = [c EXCEPT !.next = "ok"]
      PROVE  Good(d)
  <2>1. c.answer \in Answers BY Zenon DEF Good, ExchangeInv
  <2>2. c.answer \in [kind : {"2xx"}, body : {"whole", "big", "cut"}] BY <1>3, <2>1, Zenon DEF Answers
  <2>3. c.answer \in ReadWithinLimit BY <1>3, <2>2 DEF ReadWithinLimit
  <2> QED BY <1>3, <2>3, Zenon DEF Good, Calls, ExchangeInv
<1> QED BY <1>1, <1>2, <1>3, Zenon DEF Judged

\* Every step keeps the invariant.
LEMMA ExchangesInvStep ==
  ASSUME ExchangesInv, [Next]_vars
  PROVE  ExchangesInv'
<1>1. ASSUME NEW j \in Jobs, NEW n, NEW outcomes, Exchange(j, n, outcomes),
             \A d \in outcomes : Good(d)
      PROVE  ExchangesInv'
  BY <1>1, Zenon DEF Exchange, ExchangesInv, Good
<1>2. ASSUME NEW j \in Jobs, CreateJob(j) PROVE ExchangesInv'
  BY <1>2, Zenon DEF CreateJob, ExchangesInv
<1>3. ASSUME NEW j \in Jobs, StartExecution(j) PROVE ExchangesInv'
  BY <1>3, NewIsGood, Zenon DEF StartExecution, ExchangesInv, Good
<1>4. ASSUME NEW j \in Jobs, Validate(j) PROVE ExchangesInv'
  BY <1>1, <1>4, ValidatedKeeps, Zenon DEF Validate, Exchange, ExchangesInv, Good
<1>5. ASSUME NEW j \in Jobs, Dial(j) PROVE ExchangesInv'
  BY <1>1, <1>5, DialedKeeps, Zenon DEF Dial, Exchange, ExchangesInv, Good
<1>6. ASSUME NEW j \in Jobs, Answer(j) PROVE ExchangesInv'
  BY <1>1, <1>6, AnsweredKeeps, Zenon DEF Answer, Exchange, ExchangesInv, Good
<1>7. ASSUME NEW j \in Jobs, Judge(j) PROVE ExchangesInv'
  BY <1>1, <1>7, JudgedKeeps, Zenon DEF Judge, Exchange, ExchangesInv, Good
<1>8. ASSUME NEW j \in Jobs, MarkDone(j) \/ MarkDead(j) PROVE ExchangesInv'
  BY <1>8, Zenon DEF MarkDone, MarkDead, ExchangesInv
<1>9. ASSUME NEW j \in Jobs, ScheduleRetry(j) PROVE ExchangesInv'
  BY <1>9, NewIsGood, Zenon DEF ScheduleRetry, ExchangesInv, Good
<1>10. CASE PromoteDue
  BY <1>10 DEF PromoteDue, Batches, Due, Delayed, ExchangesInv
<1>11. CASE Tick \/ UNCHANGED vars
  BY <1>11, Zenon DEF Tick, vars, ExchangesInv
<1> QED
  BY <1>2, <1>3, <1>4, <1>5, <1>6, <1>7, <1>8, <1>9, <1>10, <1>11, Zenon DEF Next, Execute

\* ExecuteJob: every exchange keeps to the addresses it pinned, to POST and to the
\* limit on redirects, for any number of jobs.
THEOREM ExchangesKeep == Spec => []ExchangesInv
<1>1. Init => ExchangesInv BY NewIsGood, Zenon DEF Init, ExchangesInv, Good
<1>2. ExchangesInv /\ [Next]_vars => ExchangesInv' BY ExchangesInvStep, Zenon
<1> QED BY <1>1, <1>2, PTL DEF Spec

\* ExecuteJob and MarkDone: a done job's payload was posted and answered 2xx, with no
\* more of a body than the limit, whole or cut short.
THEOREM DoneWasDelivered == Spec => []DoneIsDelivered
<1>1. ExchangesInv => DoneIsDelivered
  BY DeliveryAssumption DEF ExchangesInv, ExchangeInv, DoneIsDelivered, Calls
<1> QED BY <1>1, ExchangesKeep, PTL

\* Dialer: connections go to addresses this attempt's validation passed.
THEOREM ConnectionsValidated == Spec => []ConnectsToValidated
<1>1. ExchangesInv => ConnectsToValidated
  BY Zenon DEF ExchangesInv, ExchangeInv, ConnectsToValidated
<1> QED BY <1>1, ExchangesKeep, PTL

-----------------------------------------------------------------------------
\* Induction over the natural numbers, for a set instead of a predicate: the least
\* number outside would have a predecessor inside.
LEMMA SetInduction ==
  ASSUME NEW S \in SUBSET Nat, 0 \in S, \A n \in S : n + 1 \in S
  PROVE  S = Nat
<1> SUFFICES ASSUME Nat \ S # {} PROVE FALSE
  OBVIOUS
<1>1. PICK R : R = OpToRel(<, Nat)
  OBVIOUS
<1>2. IsWellFoundedOn(R, Nat)
  BY <1>1, NatLessThanWellFounded, Zenon
<1>3. \A a, b \in Nat : a < b => <<a, b>> \in R
  BY <1>1, Zenon DEF OpToRel
<1>4. PICK n \in Nat \ S : \A m \in Nat \ S : ~ (<<m, n>> \in R)
  BY <1>2, WFMin, Zenon
<1>5. n # 0 /\ n - 1 \in Nat /\ n - 1 < n /\ (n - 1) + 1 = n
  OBVIOUS
<1>6. n - 1 \notin S
  BY <1>5, Zenon
<1> QED BY <1>3, <1>4, <1>5, <1>6, Zenon

\* The first n steps of the iteration of s from a
Chains(n, a, s) ==
  {g \in [0..n -> Nat] : g[0] = a /\ \A i \in 1..n : g[i] = s[g[i - 1]]}

\* An iteration can be carried as far as one likes.
LEMMA ChainsExist ==
  ASSUME NEW a \in Nat, NEW s \in [Nat -> Nat]
  PROVE  \A n \in Nat : Chains(n, a, s) # {}
<1> DEFINE S == {n \in Nat : Chains(n, a, s) # {}}
<1>1. 0 \in S
  <2>1. [i \in 0..0 |-> a] \in Chains(0, a, s) BY DEF Chains
  <2> QED BY <2>1, Zenon
<1>2. ASSUME NEW n \in S PROVE n + 1 \in S
  <2>1. PICK g \in Chains(n, a, s) : TRUE BY Zenon
  <2>2. n \in Nat /\ g \in [0..n -> Nat] BY Zenon DEF Chains
  <2> DEFINE h == [i \in 0..(n + 1) |-> IF i = n + 1 THEN s[g[n]] ELSE g[i]]
  <2>3. h \in [0..(n + 1) -> Nat]
    <3>1. s[g[n]] \in Nat BY <2>2
    <3>2. ASSUME NEW i \in 0..(n + 1), i # n + 1 PROVE g[i] \in Nat
      <4>1. i \in 0..n BY <2>2, <3>2
      <4> QED BY <2>2, <4>1, Zenon
    <3> QED BY <3>1, <3>2, Zenon
  <2>4. h[0] = a BY <2>2 DEF Chains
  <2>5. ASSUME NEW i \in 1..(n + 1) PROVE h[i] = s[h[i - 1]]
    <3>1. CASE i = n + 1 BY <2>2, <3>1
    <3>2. CASE i # n + 1
      <4>1. i \in 1..n /\ i - 1 # n + 1 /\ i \in 0..(n + 1) /\ i - 1 \in 0..(n + 1)
        BY <2>2, <3>2
      <4>2. g[i] = s[g[i - 1]] BY <4>1, Zenon DEF Chains
      <4> QED BY <3>2, <4>1, <4>2, Zenon
    <3> QED BY <3>1, <3>2, Zenon
  <2>6. h \in Chains(n + 1, a, s) BY <2>3, <2>4, <2>5, Zenon DEF Chains
  <2>7. n + 1 \in Nat BY <2>2
  <2> QED BY <2>6, <2>7, Zenon
<1> HIDE DEF S
<1>3. S = Nat BY <1>1, <1>2, SetInduction, Zenon DEF S
<1> QED BY <1>3, Zenon DEF S

\* Carrying it further changes nothing of what came before.
LEMMA ChainsAgree ==
  ASSUME NEW a, NEW s
  PROVE  \A n \in Nat : \A g \in Chains(n, a, s), h \in Chains(n + 1, a, s) : g[n] = h[n]
<1> DEFINE S == {n \in Nat : \A g \in Chains(n, a, s), h \in Chains(n + 1, a, s) :
                               g[n] = h[n]}
<1>1. 0 \in S BY Zenon DEF Chains
<1>2. ASSUME NEW n \in S PROVE n + 1 \in S
  <2>1. n \in Nat /\ n + 1 \in Nat OBVIOUS
  <2>2. ASSUME NEW m \in Nat, NEW g \in Chains(m + 1, a, s)
        PROVE  [i \in 0..m |-> g[i]] \in Chains(m, a, s) /\ g[m + 1] = s[g[m]]
    <3>1. g \in [0..(m + 1) -> Nat] /\ g[0] = a BY Zenon DEF Chains
    <3>2. \A i \in 1..(m + 1) : g[i] = s[g[i - 1]] BY Zenon DEF Chains
    <3>3. m + 1 \in 1..(m + 1) /\ (m + 1) - 1 = m OBVIOUS
    <3>4. g[m + 1] = s[g[m]] BY <3>2, <3>3, Zenon
    <3>5. [i \in 0..m |-> g[i]] \in [0..m -> Nat] BY <3>1
    <3> QED BY <3>1, <3>2, <3>4, <3>5 DEF Chains
  <2> SUFFICES ASSUME NEW g \in Chains(n + 1, a, s), NEW h \in Chains((n + 1) + 1, a, s)
               PROVE  g[n + 1] = h[n + 1]
    BY <2>1, Zenon
  <2> DEFINE k == [i \in 0..n |-> g[i]]
             l == [i \in 0..(n + 1) |-> h[i]]
  <2>3. k \in Chains(n, a, s) /\ g[n + 1] = s[g[n]] BY <2>1, <2>2, Zenon
  <2>4. l \in Chains(n + 1, a, s) BY <2>1, <2>2, Zenon
  <2>5. l[n + 1] = s[l[n]] BY <2>1, <2>2, <2>4, Zenon
  <2>6. k[n] = l[n] BY <2>3, <2>4, Zenon
  <2>7. k[n] = g[n] /\ l[n + 1] = h[n + 1] BY <2>1
  <2> QED BY <2>3, <2>5, <2>6, <2>7, Zenon
<1> HIDE DEF S
<1>3. S = Nat BY <1>1, <1>2, SetInduction, Zenon DEF S
<1> QED BY <1>3, Zenon DEF S

\* So a function may be defined by iteration.
LEMMA Iterates ==
  ASSUME NEW a \in Nat, NEW s \in [Nat -> Nat]
  PROVE  \E f \in [Nat -> Nat] : f[0] = a /\ \A n \in Nat : f[n + 1] = s[f[n]]
<1> DEFINE G(n) == CHOOSE g \in Chains(n, a, s) : TRUE
           f == [n \in Nat |-> G(n)[n]]
<1>1. ASSUME NEW n \in Nat PROVE G(n) \in Chains(n, a, s) BY ChainsExist, Zenon
<1> HIDE DEF G
<1>2. ASSUME NEW n \in Nat
      PROVE  G(n)[n] \in Nat /\ G(0)[0] = a /\ G(n + 1)[n + 1] = s[G(n + 1)[n]]
  BY <1>1, n + 1 \in Nat, n + 1 \in 1..(n + 1), (n + 1) - 1 = n DEF Chains
<1>3. ASSUME NEW n \in Nat PROVE G(n)[n] = G(n + 1)[n]
  BY <1>1, ChainsAgree, n + 1 \in Nat
<1>4. f \in [Nat -> Nat] BY <1>2, Zenon
<1>5. f[0] = a BY <1>2, Zenon
<1>6. ASSUME NEW n \in Nat PROVE f[n + 1] = s[f[n]]
  BY <1>2, <1>3, n + 1 \in Nat, Zenon
<1> QED BY <1>4, <1>5, <1>6, Zenon

\* The loop of Backoff computes what its recursive form says.
LEMMA DoubledUnfolds ==
  /\ Doubled \in [Nat -> Nat] /\ Doubled[0] = BaseDelay
  /\ \A n \in Nat : Doubled[n + 1] = IF Doubled[n] >= MaxDelay \div 2 THEN MaxDelay
                                     ELSE 2 * Doubled[n]
<1> DEFINE s == [d \in Nat |-> IF d >= MaxDelay \div 2 THEN MaxDelay ELSE 2 * d]
           F(f) == [i \in Nat |-> IF i = 0 THEN BaseDelay
                                  ELSE IF f[i - 1] >= MaxDelay \div 2 THEN MaxDelay
                                  ELSE 2 * f[i - 1]]
<1>1. s \in [Nat -> Nat] /\ BaseDelay \in Nat BY DeliveryAssumption
<1>2. PICK f \in [Nat -> Nat] : f[0] = BaseDelay /\ \A n \in Nat : f[n + 1] = s[f[n]]
  BY <1>1, Iterates
<1>3. f = F(f)
  <2>1. ASSUME NEW i \in Nat, i # 0
        PROVE  f[i] = IF f[i - 1] >= MaxDelay \div 2 THEN MaxDelay ELSE 2 * f[i - 1]
    BY <1>2, <2>1, i - 1 \in Nat, (i - 1) + 1 = i, Zenon
  <2> QED BY <1>2, <2>1, Zenon
<1>4. Doubled = F(Doubled) BY <1>3, Zenon DEF Doubled
<1>5. \A n \in Nat : Doubled[n] = f[n]
  <2> DEFINE S == {n \in Nat : Doubled[n] = f[n]}
  <2>1. 0 \in S BY <1>2, <1>4, Zenon
  <2>2. ASSUME NEW n \in S PROVE n + 1 \in S
    <3>1. n + 1 \in Nat /\ n + 1 # 0 /\ (n + 1) - 1 = n OBVIOUS
    <3>2. Doubled[n + 1] = IF Doubled[n] >= MaxDelay \div 2 THEN MaxDelay ELSE 2 * Doubled[n]
      BY <1>4, <3>1, Zenon
    <3> QED BY <1>2, <3>1, <3>2, Zenon
  <2> HIDE DEF S
  <2>3. S = Nat BY <2>1, <2>2, SetInduction, Zenon DEF S
  <2> QED BY <2>3, Zenon DEF S
<1>6. Doubled = f BY <1>4, <1>5, Zenon
<1> QED BY <1>2, <1>6, Zenon

\* So do the powers of two the delays are documented with.
LEMMA PowersUnfold ==
  /\ PowerOfTwo \in [Nat -> Nat] /\ PowerOfTwo[0] = 1
  /\ \A n \in Nat : PowerOfTwo[n + 1] = 2 * PowerOfTwo[n]
<1> DEFINE s == [d \in Nat |-> 2 * d]
           F(f) == [n \in Nat |-> IF n = 0 THEN 1 ELSE 2 * f[n - 1]]
<1>1. s \in [Nat -> Nat] /\ 1 \in Nat OBVIOUS
<1>2. PICK f \in [Nat -> Nat] : f[0] = 1 /\ \A n \in Nat : f[n + 1] = s[f[n]]
  BY <1>1, Iterates
<1>3. f = F(f)
  <2>1. ASSUME NEW i \in Nat, i # 0 PROVE f[i] = 2 * f[i - 1]
    BY <1>2, <2>1, i - 1 \in Nat, (i - 1) + 1 = i, Zenon
  <2> QED BY <1>2, <2>1, Zenon
<1>4. PowerOfTwo = F(PowerOfTwo) BY <1>3, Zenon DEF PowerOfTwo
<1>5. \A n \in Nat : PowerOfTwo[n] = f[n]
  <2> DEFINE S == {n \in Nat : PowerOfTwo[n] = f[n]}
  <2>1. 0 \in S BY <1>2, <1>4, Zenon
  <2>2. ASSUME NEW n \in S PROVE n + 1 \in S
    <3>1. n + 1 \in Nat /\ n + 1 # 0 /\ (n + 1) - 1 = n OBVIOUS
    <3>2. PowerOfTwo[n + 1] = 2 * PowerOfTwo[n] BY <1>4, <3>1, Zenon
    <3> QED BY <1>2, <3>1, <3>2, Zenon
  <2> HIDE DEF S
  <2>3. S = Nat BY <2>1, <2>2, SetInduction, Zenon DEF S
  <2> QED BY <2>3, Zenon DEF S
<1>6. PowerOfTwo = f BY <1>4, <1>5, Zenon
<1> QED BY <1>2, <1>6, Zenon

-----------------------------------------------------------------------------
\* Backoff: its loop gives the documented product until the product passes the cap, and
\* from then on the cap; ending early at half of an odd cap loses at most one unit.
THEOREM BackoffAsDocumented ==
  \A n \in Nat :
    /\ Backoff(n) = Doubled[n] /\ Doubled[n] \in 1..MaxDelay
    /\ BaseDelay * PowerOfTwo[n] \in Nat \ {0}
    /\ \/ Doubled[n] = BaseDelay * PowerOfTwo[n]
       \/ Doubled[n] = MaxDelay /\ BaseDelay * PowerOfTwo[n] >= 2 * (MaxDelay \div 2)
<1> DEFINE P(n) == BaseDelay * PowerOfTwo[n]
           S == {n \in Nat : /\ Doubled[n] \in 1..MaxDelay /\ P(n) \in Nat \ {0}
                             /\ \/ Doubled[n] = P(n)
                                \/ Doubled[n] = MaxDelay /\ P(n) >= 2 * (MaxDelay \div 2)}
<1>1. \A n \in Nat : P(n) \in Nat BY DeliveryAssumption, PowersUnfold
<1>2. P(0) = BaseDelay /\ \A n \in Nat : P(n + 1) = 2 * P(n)
  BY DeliveryAssumption, PowersUnfold
<1> HIDE DEF P
<1>3. 0 \in S BY <1>2, DoubledUnfolds, DeliveryAssumption
<1>4. ASSUME NEW n \in S PROVE n + 1 \in S
  <2>1. n \in Nat /\ n + 1 \in Nat /\ P(n) \in Nat /\ P(n + 1) = 2 * P(n) BY <1>1, <1>2
  <2>2. Doubled[n + 1] = IF Doubled[n] >= MaxDelay \div 2 THEN MaxDelay ELSE 2 * Doubled[n]
    BY <2>1, DoubledUnfolds, Zenon
  <2>3. /\ Doubled[n + 1] \in 1..MaxDelay /\ P(n + 1) \in Nat \ {0}
        /\ \/ Doubled[n + 1] = P(n + 1)
           \/ Doubled[n + 1] = MaxDelay /\ P(n + 1) >= 2 * (MaxDelay \div 2)
    BY <2>1, <2>2, DeliveryAssumption
  <2> QED BY <2>1, <2>3, Zenon
<1> HIDE DEF S
<1>5. S = Nat BY <1>3, <1>4, SetInduction, Zenon DEF S
<1>6. ASSUME NEW n \in Nat
      PROVE  /\ Doubled[n] \in 1..MaxDelay /\ P(n) \in Nat \ {0}
             /\ \/ Doubled[n] = P(n)
                \/ Doubled[n] = MaxDelay /\ P(n) >= 2 * (MaxDelay \div 2)
  BY <1>5, Zenon DEF S
<1>7. ASSUME NEW n \in Nat PROVE Backoff(n) = Doubled[n]
  BY <1>6, DeliveryAssumption DEF Backoff
<1> QED BY <1>6, <1>7, Zenon DEF P

\* BackoffWithJitter: every delay it can draw lies between the shortest and the longest
\* one documented, whatever the base, the cap and the number of the attempt.
THEOREM JitterAsDocumented ==
  \A n \in Nat \ {0} : \A d \in BackoffWithJitter(n) :
    d \in Nat /\ Shortest(n) <= d /\ d <= Longest(n)
<1> SUFFICES ASSUME NEW n \in Nat \ {0}, NEW d \in BackoffWithJitter(n)
             PROVE  d \in Nat /\ Shortest(n) <= d /\ d <= Longest(n)
  OBVIOUS
<1>1. CASE n = 1
  BY <1>1, DeliveryAssumption DEF BackoffWithJitter, Shortest, Longest
<1>2. CASE n # 1
  <2> DEFINE D == Doubled[n - 1]
             P == BaseDelay * PowerOfTwo[n - 1]
  <2>1. n - 1 \in Nat /\ ~(n <= 1) BY <1>2
  <2>2. /\ Backoff(n - 1) = D /\ D \in 1..MaxDelay /\ P \in Nat \ {0}
        /\ D = P \/ (D = MaxDelay /\ P >= 2 * (MaxDelay \div 2))
    BY <2>1, BackoffAsDocumented, Zenon
  <2>3. Documented(n - 1) = IF P < MaxDelay THEN P ELSE MaxDelay BY Zenon DEF Documented
  <2>4. d \in IF D \div 2 = 0 THEN {D} ELSE (D \div 2)..((D \div 2) + (D \div 2))
    BY <2>1, <2>2, Zenon DEF BackoffWithJitter
  <2>5. Shortest(n) = Documented(n - 1) \div 2 /\ Longest(n) = Documented(n - 1)
    BY <1>2, Zenon DEF Shortest, Longest
  <2> HIDE DEF D, P
  <2> QED BY <2>2, <2>3, <2>4, <2>5, DeliveryAssumption
<1> QED BY <1>1, <1>2, Zenon

\* The documented delays are numbers within the cap.
LEMMA DocumentedWithinCap ==
  ASSUME NEW n \in Nat \ {0}
  PROVE  /\ Shortest(n) \in 0..MaxDelay /\ Longest(n) \in 0..MaxDelay
<1>1. CASE n = 1
  BY <1>1, DeliveryAssumption DEF Shortest, Longest
<1>2. CASE n # 1
  <2>1. BaseDelay * PowerOfTwo[n - 1] \in Nat
    BY <1>2, n - 1 \in Nat, DeliveryAssumption, PowersUnfold
  <2>2. Documented(n - 1) \in 0..MaxDelay BY <2>1, DeliveryAssumption DEF Documented
  <2> QED BY <1>2, <2>2, DeliveryAssumption DEF Shortest, Longest
<1> QED BY <1>1, <1>2, Zenon

\* The clock stays within the second, and a score that has come is less than a second
\* ahead.
LEMMA Seconds ==
  /\ \A p \in Int : p % Second \in 0..(Second - 1) /\ p \div Second \in Int
  /\ \A p \in Int : p \div Second <= 0 => p < Second
  /\ \A p, q \in Int : p \div Second <= q \div Second => p < q + Second
<1>1. Second \in Nat \ {0} BY DeliveryAssumption, Zenon
<1> QED BY <1>1

\* Every step keeps the invariant of the delays.
LEMMA DelaysInvStep ==
  ASSUME DelaysInv, [Next]_vars
  PROVE  DelaysInv'
<1> USE DEF DelaysInv
<1>1. ASSUME NEW j \in Jobs, CreateJob(j) PROVE DelaysInv'
  BY <1>1 DEF CreateJob
<1>2. ASSUME NEW j \in Jobs, StartExecution(j) PROVE DelaysInv'
  BY <1>2 DEF StartExecution
<1>3. ASSUME NEW j \in Jobs, Validate(j) \/ Dial(j) \/ Answer(j) \/ Judge(j)
      PROVE  DelaysInv'
  BY <1>3, Zenon DEF Validate, Dial, Answer, Judge, Exchange
<1>4. ASSUME NEW j \in Jobs, MarkDone(j) \/ MarkDead(j) PROVE DelaysInv'
  BY <1>4 DEF MarkDone, MarkDead
<1>5. ASSUME NEW j \in Jobs, ScheduleRetry(j) PROVE DelaysInv'
  <2>1. PICK d \in BackoffWithJitter(tries[j]) : left' = [left EXCEPT ![j] = d]
    BY <1>5, Zenon DEF ScheduleRetry
  <2>2. tries[j] \in Nat \ {0} /\ spent[j] = 0 BY <1>5 DEF ScheduleRetry
  <2>3. d \in Nat /\ Shortest(tries[j]) <= d /\ d <= Longest(tries[j])
    BY <2>1, <2>2, JitterAsDocumented, Zenon
  <2>4. Shortest(tries[j]) \in Int /\ Longest(tries[j]) \in Int
    BY <2>2, DocumentedWithinCap
  <2> QED BY <1>5, <2>1, <2>2, <2>3, <2>4 DEF ScheduleRetry
<1>6. CASE PromoteDue
  BY <1>6, DeliveryAssumption DEF PromoteDue, Batches, Due, Delayed
<1>7. CASE Tick
  <2>1. phase' \in 0..(Second - 1) BY <1>7, Seconds, DeliveryAssumption DEF Tick
  <2>2. left' \in [Jobs -> Int] /\ spent' \in [Jobs -> 0..MaxDelay]
    BY <1>7, DeliveryAssumption DEF Tick
  <2>3. ASSUME NEW j \in Jobs, status[j] = "delayed", tries[j] > 0
        PROVE  /\ left'[j] + spent'[j] <= Longest(tries[j])
               /\ spent'[j] = MaxDelay \/ left'[j] + spent'[j] >= Shortest(tries[j])
    <3>1. /\ left'[j] = IF left[j] > -MaxLate THEN left[j] - 1 ELSE left[j]
          /\ spent'[j] = IF spent[j] < MaxDelay THEN spent[j] + 1 ELSE spent[j]
      BY <1>7, <2>3, Zenon DEF Tick, Delayed
    <3>2. Shortest(tries[j]) \in 0..MaxDelay /\ Longest(tries[j]) \in 0..MaxDelay
      BY <2>3, DocumentedWithinCap
    <3> QED BY <2>3, <3>1, <3>2, DeliveryAssumption
  <2> QED BY <1>7, <2>1, <2>2, <2>3 DEF Tick, Delayed
<1>8. CASE UNCHANGED vars BY <1>8, Zenon DEF vars
<1> QED
  BY <1>1, <1>2, <1>3, <1>4, <1>5, <1>6, <1>7, <1>8, Zenon DEF Next, Execute

\* BackoffWithJitter and the promoter's clock: what is left of a delay and what has been
\* waited of it add up to a documented delay, for any jobs, base, cap and second.
THEOREM DelaysKeep == Spec => []DelaysInv
<1>1. Init => DelaysInv BY DeliveryAssumption DEF Init, DelaysInv
<1>2. DelaysInv /\ [Next]_vars => DelaysInv' BY DelaysInvStep, Zenon
<1> QED BY <1>1, <1>2, PTL DEF Spec

\* Backoff and BackoffWithJitter: no delay exceeds the documented one.
THEOREM DelaysBounded == Spec => []DelayBounded
<1>1. DelaysInv => DelayBounded BY Zenon DEF DelaysInv, DelayBounded, Delayed
<1> QED BY <1>1, DelaysKeep, PTL

\* promoteDueScript: what becomes ready was due, and every job due that it leaves has a
\* score at least as high.
LEMMA PromotedFirst ==
  ASSUME DelaysInv, [Next]_vars, NEW i \in Jobs, status[i] = "delayed", status'[i] = "ready"
  PROVE  /\ Score(i) <= 0
         /\ \A j \in Jobs : status[j] = "delayed" /\ status'[j] = "delayed" =>
              Score(i) <= Score(j)
<1>1. PromoteDue
  <2>1. ASSUME NEW j \in Jobs, CreateJob(j) \/ Execute(j) PROVE FALSE
    BY <2>1, Zenon DEF CreateJob, Execute, StartExecution, Validate, Dial, Answer, Judge,
         Exchange, MarkDone, MarkDead, ScheduleRetry, DelaysInv
  <2>2. ~Tick /\ ~UNCHANGED vars BY Zenon DEF Tick, vars
  <2> QED BY <2>1, <2>2, Zenon DEF Next
<1>2. PICK B \in Batches : status' = [j \in Jobs |-> IF j \in B THEN "ready" ELSE status[j]]
  BY <1>1, Zenon DEF PromoteDue
<1>3. i \in B /\ B \subseteq Due /\ \A j \in Due \ B : Score(i) <= Score(j)
  BY <1>2, Zenon DEF Batches
<1>4. Score(i) <= 0 BY <1>3, Zenon DEF Due
<1>5. ASSUME NEW j \in Jobs, status[j] = "delayed", status'[j] = "delayed"
      PROVE  Score(i) <= Score(j)
  <2>1. j \notin B BY <1>2, <1>5, Zenon
  <2>2. CASE j \in Due BY <1>3, <2>1, <2>2, Zenon
  <2>3. CASE j \notin Due
    <3>1. phase + left[i] \in Int /\ phase + left[j] \in Int BY DEF DelaysInv
    <3>2. Score(i) \in Int /\ Score(j) \in Int BY <3>1, Seconds, Zenon DEF Score
    <3>3. ~(Score(j) <= 0) BY <1>5, <2>3, Zenon DEF Due, Delayed
    <3> QED BY <1>4, <3>2, <3>3
  <2> QED BY <2>2, <2>3, Zenon
<1> QED BY <1>4, <1>5, Zenon

\* promoteDueScript: whole-second scores start no retry a second before its shortest
\* documented delay, and no new job a second before its run_at.
THEOREM RetriesSpaced == Spec => RetrySpacing
<1>1. ASSUME DelaysInv, [Next]_vars, NEW j \in Jobs, status[j] = "delayed",
             status'[j] = "ready"
      PROVE  IF tries[j] = 0 THEN left[j] < Second
             ELSE spent[j] + Second > Shortest(tries[j])
  <2>1. phase \in Nat /\ left[j] \in Int /\ spent[j] \in Nat /\ tries[j] \in Nat
    BY <1>1, DeliveryAssumption DEF DelaysInv
  <2>2. phase + left[j] < Second
    <3>1. Score(j) <= 0 BY <1>1, PromotedFirst, Zenon
    <3> QED BY <2>1, <3>1, Seconds DEF Score
  <2>3. CASE tries[j] = 0 BY <2>1, <2>2, <2>3, DeliveryAssumption
  <2>4. CASE tries[j] # 0
    <3>1. Shortest(tries[j]) \in 0..MaxDelay BY <2>1, <2>4, DocumentedWithinCap, Zenon
    <3>2. spent[j] = MaxDelay \/ left[j] + spent[j] >= Shortest(tries[j])
      BY <1>1, <2>1, <2>4 DEF DelaysInv
    <3> QED BY <2>1, <2>2, <2>4, <3>1, <3>2, DeliveryAssumption
  <2> QED BY <2>3, <2>4, Zenon
<1>2. DelaysInv /\ [Next]_vars => [PromotedOnTime]_vars BY <1>1, Zenon DEF PromotedOnTime
<1> QED BY <1>2, DelaysKeep, PTL DEF Spec, RetrySpacing

\* promoteDueScript and BackoffWithJitter: with a batch of any size, a retry is not
\* promoted ahead of a job due a second or more before that retry could be.
THEOREM RetriesDoYield == Spec => RetriesYield
<1>1. ASSUME DelaysInv, [Next]_vars, NEW i \in Jobs, NEW j \in Jobs PROVE YieldsTo(i, j)
  <2> SUFFICES ASSUME status[i] = "delayed", status'[i] = "ready", tries[i] > 0,
                      spent[i] < MaxDelay, status[j] = "delayed", status'[j] = "delayed"
               PROVE  spent[i] + left[j] + Second > Shortest(tries[i])
    BY Zenon DEF YieldsTo
  <2>1. /\ phase \in Nat /\ left[i] \in Int /\ left[j] \in Int /\ spent[i] \in Nat
        /\ tries[i] \in Nat \ {0}
    BY <1>1, DeliveryAssumption DEF DelaysInv
  <2>2. left[i] < left[j] + Second
    <3>1. Score(i) <= Score(j) BY <1>1, PromotedFirst, Zenon
    <3>2. phase + left[i] < phase + left[j] + Second BY <2>1, <3>1, Seconds DEF Score
    <3> QED BY <2>1, <3>2, DeliveryAssumption
  <2>3. left[i] + spent[i] >= Shortest(tries[i])
    BY <1>1, <2>1, DeliveryAssumption DEF DelaysInv
  <2>4. Shortest(tries[i]) \in Int BY <2>1, DocumentedWithinCap
  <2> QED BY <2>1, <2>2, <2>3, <2>4, DeliveryAssumption
<1>2. DelaysInv /\ [Next]_vars => [\A i, j \in Jobs : YieldsTo(i, j)]_vars BY <1>1, Zenon
<1> QED BY <1>2, DelaysKeep, PTL DEF Spec, RetriesYield
=============================================================================
