------------------------------- MODULE Delivery -------------------------------
(***************************************************************************)
(* Jobs from their submission to their end with the time that passes: the  *)
(* exchange of every attempt, the delay after a failed one, the sorted set *)
(* jobs:scheduled and its promotion in batches.  Time is relative: a run   *)
(* time is kept as the time left to it.                                    *)
(***************************************************************************)
EXTENDS Callback, Retry, Integers, FiniteSets

CONSTANTS
  Jobs,
  MaxAttempts,  \* max_attempts of every job
  Second,       \* units of time in a second
  Batch,        \* LIMIT of the script
  MaxAhead,     \* bound: how far ahead the run_at of a new job is
  MaxLate       \* bound: how late a job is, is not told apart past this

ASSUME DeliveryAssumption ==
  /\ MaxAttempts \in Nat \ {0} /\ Second \in Nat \ {0} /\ Batch \in Nat \ {0}
  /\ BaseDelay \in Nat \ {0} /\ MaxDelay \in Nat /\ MaxDelay >= BaseDelay
  /\ MaxAhead \in Nat /\ MaxLate \in Nat /\ MaxLate >= MaxDelay
  /\ MaxRedirects \in Nat \ {0} /\ AllowPrivateIPs \in BOOLEAN

VARIABLES
  phase,   \* how far the clock is into the second
  status,  \* where each job is
  tries,   \* attempts
  left,    \* time left to run_at, of a delayed job
  spent,   \* time since its last attempt failed, of a delayed job; counts to MaxDelay
  call     \* the exchange of the last attempt

vars == <<phase, status, tries, left, spent, call>>

Init ==
  /\ phase \in 0..(Second - 1)
  /\ status = [j \in Jobs |-> "new"]
  /\ tries = [j \in Jobs |-> 0]
  /\ left = [j \in Jobs |-> 0] /\ spent = [j \in Jobs |-> 0]
  /\ call = [j \in Jobs |-> NewCall]

-----------------------------------------------------------------------------
\* A job is due now, or waits in jobs:scheduled.
CreateJob(j) ==
  /\ status[j] = "new"
  /\ \/ status' = [status EXCEPT ![j] = "ready"] /\ UNCHANGED left
     \/ \E d \in 1..MaxAhead : /\ status' = [status EXCEPT ![j] = "delayed"]
                               /\ left' = [left EXCEPT ![j] = d]
  /\ UNCHANGED <<phase, tries, spent, call>>

StartExecution(j) ==
  /\ status[j] = "ready"
  /\ status' = [status EXCEPT ![j] = "running"]
  /\ tries' = [tries EXCEPT ![j] = @ + 1]
  /\ call' = [call EXCEPT ![j] = NewCall]
  /\ UNCHANGED <<phase, left, spent>>

\* The calls of ExecuteJob
Exchange(j, step, outcomes) ==
  /\ status[j] = "running" /\ call[j].next = step
  /\ \E c \in outcomes : call' = [call EXCEPT ![j] = c]
  /\ UNCHANGED <<phase, status, tries, left, spent>>

Validate(j) == Exchange(j, "validate", Validated(call[j]))
Dial(j) == Exchange(j, "dial", Dialed(call[j]))
Answer(j) == Exchange(j, "answer", Answered(call[j]))
Judge(j) == Exchange(j, "judge", Judged(call[j]))

MarkDone(j) ==
  /\ status[j] = "running" /\ call[j].next = "ok"
  /\ status' = [status EXCEPT ![j] = "done"]
  /\ UNCHANGED <<phase, tries, left, spent, call>>

MarkDead_OffByOne(j) ==
  /\ status[j] = "running" /\ call[j].next = "failed" /\ tries[j] > MaxAttempts
  /\ status' = [status EXCEPT ![j] = "dead"]
  /\ UNCHANGED <<phase, tries, left, spent, call>>
MarkDead(j) ==
  /\ status[j] = "running" /\ call[j].next = "failed" /\ tries[j] >= MaxAttempts
  /\ status' = [status EXCEPT ![j] = "dead"]
  /\ UNCHANGED <<phase, tries, left, spent, call>>

ScheduleRetry(j) ==
  /\ status[j] = "running" /\ call[j].next = "failed" /\ tries[j] < MaxAttempts
  /\ status' = [status EXCEPT ![j] = "delayed"]
  /\ \E d \in BackoffWithJitter(tries[j]) : left' = [left EXCEPT ![j] = d]
  /\ call' = [call EXCEPT ![j] = NewCall]
  /\ UNCHANGED <<phase, tries, spent>>

\* The score is run_at in whole seconds: here, how many seconds after the one now.
Score(j) == (phase + left[j]) \div Second

Delayed == {j \in Jobs : status[j] = "delayed"}
Due == {j \in Delayed : Score(j) <= 0}

\* ZRANGEBYSCORE -inf now LIMIT: the lowest scores, ties by member
Batches_Unsorted ==
  {B \in SUBSET Due : Cardinality(B) = Batch \/ (B = Due /\ Cardinality(B) < Batch)}
Batches ==
  {B \in SUBSET Due :
     /\ Cardinality(B) = Batch \/ (B = Due /\ Cardinality(B) < Batch)
     /\ \A i \in B, j \in Due \ B : Score(i) <= Score(j)}

PromoteDue ==
  /\ Due # {}
  /\ \E B \in Batches :
       /\ status' = [j \in Jobs |-> IF j \in B THEN "ready" ELSE status[j]]
       /\ left' = [j \in Jobs |-> IF j \in B THEN 0 ELSE left[j]]
       /\ spent' = [j \in Jobs |-> IF j \in B THEN 0 ELSE spent[j]]
  /\ UNCHANGED <<phase, tries, call>>

\* A unit of time passes.
Tick ==
  /\ Delayed # {}
  /\ phase' = (phase + 1) % Second
  /\ left' = [j \in Jobs |-> IF j \in Delayed /\ left[j] > -MaxLate THEN left[j] - 1
                             ELSE left[j]]
  /\ spent' = [j \in Jobs |-> IF j \in Delayed /\ tries[j] > 0 /\ spent[j] < MaxDelay
                                THEN spent[j] + 1 ELSE spent[j]]
  /\ UNCHANGED <<status, tries, call>>

Execute(j) ==
  \/ StartExecution(j) \/ Validate(j) \/ Dial(j) \/ Answer(j) \/ Judge(j)
  \/ MarkDone(j) \/ MarkDead(j) \/ ScheduleRetry(j)

Next == Tick \/ PromoteDue \/ \E j \in Jobs : CreateJob(j) \/ Execute(j)

\* The clock runs, the leader's ticker fires, every call of ExecuteJob ends or times
\* out, and clients send their requests when they like.
Spec ==
  /\ Init /\ [][Next]_vars
  /\ WF_vars(Tick) /\ WF_vars(PromoteDue)
  /\ \A j \in Jobs : WF_vars(Execute(j))

-----------------------------------------------------------------------------
ReadWithinLimit == [kind : {"2xx"}, body : {"whole", "cut"}]

\* A job is done only if its payload was posted, not a GET after a redirect, and the
\* request it was posted with was answered by a 2xx whose body, as far as ExecuteJob
\* could read it, is within the limit; a body that breaks off is not told from a whole
\* one.
DoneIsDelivered ==
  \A j \in Jobs : status[j] = "done" =>
    /\ call[j].method = "POST" /\ call[j].via \in 1..MaxRedirects
    /\ call[j].answer \in ReadWithinLimit

\* An attempt only connects to addresses its own lookup gave and passed, whatever DNS
\* says by then and wherever redirects lead.
ConnectsToValidated ==
  \A j \in Jobs : call[j].conn \subseteq call[j].pinned /\ Valid(call[j].pinned)

Calls ==
  [next : {"validate", "dial", "answer", "judge", "ok", "failed"},
   pinned : SUBSET Addresses, conn : SUBSET Addresses, via : Nat,
   method : {"POST"}, answer : Answers \cup {NoAnswerYet}]

\* What is known of one exchange on its way to either
ExchangeInv(c) ==
  /\ c.conn \subseteq c.pinned /\ Valid(c.pinned) /\ c.via <= MaxRedirects
  /\ c.next = "validate" => c.conn = {}
  /\ c.next \in {"validate", "dial"} => c.via < MaxRedirects
  /\ c.next \in {"answer", "judge", "ok"} => c.via > 0
  /\ c.next = "judge" => c.answer \in Answers
  /\ c.next = "ok" => c.answer \in ReadWithinLimit

\* The inductive invariant behind both properties: every exchange keeps to its pins and
\* to POST, and only one that ended well makes a job done.
ExchangesInv ==
  /\ call \in [Jobs -> Calls]
  /\ status \in [Jobs -> {"new", "ready", "delayed", "running", "done", "dead"}]
  /\ \A j \in Jobs : ExchangeInv(call[j]) /\ (status[j] = "done" => call[j].next = "ok")

\* What worker.md says of the delays: BaseDelay * 2^n up to MaxDelay, and with jitter
\* from half of it to all of it, and BaseDelay after the first attempt
PowerOfTwo[n \in Nat] == IF n = 0 THEN 1 ELSE 2 * PowerOfTwo[n - 1]
Documented(n) ==
  IF BaseDelay * PowerOfTwo[n] < MaxDelay THEN BaseDelay * PowerOfTwo[n] ELSE MaxDelay
Shortest(attempt) == IF attempt = 1 THEN BaseDelay ELSE Documented(attempt - 1) \div 2
Longest(attempt) == IF attempt = 1 THEN BaseDelay ELSE Documented(attempt - 1)

PromotedOnTime ==
  \A j \in Jobs : (status[j] = "delayed" /\ status'[j] = "ready") =>
    IF tries[j] = 0 THEN left[j] < Second ELSE spent[j] + Second > Shortest(tries[j])
\* A retry is promoted less than a second before the shortest delay documented for it,
\* with doubling, cap, jitter and whole-second scores together; a job nobody has tried
\* less than a second before its run_at.
RetrySpacing == [][PromotedOnTime]_vars

\* The delay drawn never exceeds the documented one.
DelayBounded ==
  \A j \in Delayed : tries[j] > 0 => left[j] + spent[j] <= Longest(tries[j])

\* The inductive invariant behind both: what is left of a retry's delay and what it has
\* waited add up to a delay that is documented, for as long as the latter is counted.
DelaysInv ==
  /\ phase \in 0..(Second - 1) /\ tries \in [Jobs -> Nat]
  /\ status \in [Jobs -> {"new", "ready", "delayed", "running", "done", "dead"}]
  /\ left \in [Jobs -> Int] /\ spent \in [Jobs -> 0..MaxDelay]
  /\ \A j \in Jobs :
       /\ status[j] = "new" => tries[j] = 0
       /\ status[j] = "running" => tries[j] > 0
       /\ status[j] # "delayed" \/ tries[j] = 0 => spent[j] = 0
       /\ status[j] = "delayed" /\ tries[j] > 0 =>
            /\ left[j] + spent[j] <= Longest(tries[j])
            /\ spent[j] = MaxDelay \/ left[j] + spent[j] >= Shortest(tries[j])

YieldsTo(i, j) ==
  (/\ status[i] = "delayed" /\ status'[i] = "ready" /\ tries[i] > 0 /\ spent[i] < MaxDelay
   /\ status[j] = "delayed" /\ status'[j] = "delayed")
    => spent[i] + left[j] + Second > Shortest(tries[i])
\* Retries do not crowd out what was waiting when they failed: when promoteDueScript's
\* batch is full, a retry leaves no job behind that was due a second or more before the
\* shortest delay documented for that retry had passed, whatever jitter it drew.
RetriesYield == [][\A i, j \in Jobs : YieldsTo(i, j)]_vars

\* Every job that is submitted is delivered or dead in the end, however many wait for
\* a place in the batch.
EveryJobConcludes ==
  \A j \in Jobs : status[j] # "new" ~> status[j] \in {"done", "dead"}
=============================================================================
