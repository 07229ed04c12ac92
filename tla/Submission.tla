----------------------------- MODULE Submission -----------------------------
(***************************************************************************)
(* POST /v1/jobs: requests that carry one idempotency key.  A client sends *)
(* the key again when it had no answer, or a 500; two clients may use the  *)
(* same key by mistake.  Every request is a process of its own, on any     *)
(* instance of the API.                                                    *)
(***************************************************************************)
EXTENDS Naturals, FiniteSets

CONSTANTS
  Requests,  \* requests with the key
  None,      \* no id
  Bodies,    \* what they ask for: parameters compared as they are, run_at, and a
             \* payload: a number, and whether it is written as jsonb writes it
  Exact,     \* the last whole number before float64 leaves gaps
  Largest,   \* the last number that float64 holds
  MaxFaults  \* bound: failed calls and crashes in a behaviour

VARIABLES
  row,     \* the jobs row with the key: its id, named after the request whose
           \* INSERT made it, and what was asked for
  outbox,  \* ids with a row in job_outbox
  queued,  \* ids that have been handed to Redis
  pc,      \* the next call of each request
  body,    \* what each request asks for
  answer,  \* status and job id of each answer
  faults

vars == <<row, outbox, queued, pc, body, answer, faults>>

NoBody == [params |-> None, number |-> 0, written |-> "jsonb", runAt |-> 0]
NoRow == [id |-> None, body |-> NoBody]
NoAnswer == [code |-> 0, id |-> None]

Init ==
  /\ row = NoRow /\ outbox = {} /\ queued = {}
  /\ pc = [r \in Requests |-> "new"]
  /\ body = [r \in Requests |-> NoBody]
  /\ answer = [r \in Requests |-> NoAnswer]
  /\ faults = 0

Goto(r, call) == pc' = [pc EXCEPT ![r] = call]

Answer(r, code, id) ==
  /\ answer' = [answer EXCEPT ![r] = [code |-> code, id |-> id]]
  /\ Goto(r, "answered")

-----------------------------------------------------------------------------
\* The request is decoded and valid, or answered 400 or 413.
Arrive(r) ==
  /\ pc[r] = "new"
  /\ \/ /\ \E b \in Bodies : body' = [body EXCEPT ![r] = b]
        /\ Goto(r, "create") /\ UNCHANGED answer
     \/ Answer(r, 400, None) /\ UNCHANGED body
  /\ UNCHANGED <<row, outbox, queued, faults>>

\* What the row keeps: the payload column is jsonb, which writes documents its own way.
Stored(b) ==
  [params |-> b.params, number |-> b.number, written |-> "jsonb", runAt |-> b.runAt]

\* The transaction: the job and its outbox row, under UNIQUE (idempotency_key)
Insert_Upsert(r) ==
  /\ row' = [id |-> r, body |-> Stored(body[r])]
  /\ outbox' = outbox \cup {r}
Insert_NoOutbox(r) ==
  /\ row = NoRow
  /\ row' = [id |-> r, body |-> Stored(body[r])]
  /\ UNCHANGED outbox
Insert(r) ==
  /\ row = NoRow
  /\ row' = [id |-> r, body |-> Stored(body[r])]
  /\ outbox' = outbox \cup {r}

Create(r) ==
  /\ pc[r] = "create"
  /\ \/ Insert(r) /\ Goto(r, "enqueue")
     \/ row # NoRow /\ Goto(r, "lookup") /\ UNCHANGED <<row, outbox>>
  /\ UNCHANGED <<queued, body, answer, faults>>

\* XADD or ZADD
Enqueue(r) ==
  /\ pc[r] = "enqueue"
  /\ queued' = queued \cup {r}
  /\ Goto(r, "deleteOutbox")
  /\ UNCHANGED <<row, outbox, body, answer, faults>>

\* Best effort: 201 in any case
DeleteOutbox(r) ==
  /\ pc[r] = "deleteOutbox"
  /\ outbox' = outbox \ {r}
  /\ Answer(r, 201, r)
  /\ UNCHANGED <<row, queued, body, faults>>

\* A JSON number as json.Unmarshal decodes it into any: past Exact every other whole
\* number is a tie, and goes to the neighbour that is a multiple of 4.
Decoded(n) ==
  IF n <= Exact \/ n % 2 = 0 THEN n ELSE IF n % 4 = 1 THEN n - 1 ELSE n + 1

\* json.Unmarshal fails on a number beyond float64, and then the bytes are compared.
Decodable(n) == n <= Largest
jsonPayloadEqual(stored, sent) ==
  IF Decodable(stored.number) /\ Decodable(sent.number)
    THEN Decoded(stored.number) = Decoded(sent.number)
    ELSE stored.number = sent.number /\ stored.written = sent.written

\* job.Type, MaxAttempts and CallbackURL are equal, and jsonPayloadEqual; run_at is
\* not compared.
Matches_AnyPayload(stored, sent) == stored.params = sent.params
Matches(stored, sent) == stored.params = sent.params /\ jsonPayloadEqual(stored, sent)

\* GetByIdempotencyKey: a replay is given the job there is, anything else a 409.
Lookup(r) ==
  /\ pc[r] = "lookup"
  /\ IF Matches(row.body, body[r]) THEN Answer(r, 200, row.id) ELSE Answer(r, 409, None)
  /\ UNCHANGED <<row, outbox, queued, body, faults>>

\* ReconcileOutbox takes over what is left in the outbox; its DELETE may fail.
Reconcile ==
  \E id \in outbox :
    /\ queued' = queued \cup {id}
    /\ outbox' \in {outbox, outbox \ {id}}
    /\ UNCHANGED <<row, pc, body, answer, faults>>

-----------------------------------------------------------------------------
(* Failed calls and crashes *)

\* The transaction fails, or its commit went through and only the answer is lost.
CreateFails(r) ==
  /\ pc[r] = "create"
  /\ Insert(r) \/ UNCHANGED <<row, outbox>>
  /\ Answer(r, 500, None)
  /\ UNCHANGED <<queued, body>>

EnqueueFails(r) ==
  /\ pc[r] = "enqueue"
  /\ queued' \in {queued, queued \cup {r}}
  /\ Answer(r, 500, None)
  /\ UNCHANGED <<row, outbox, body>>

DeleteOutboxFails(r) ==
  /\ pc[r] = "deleteOutbox"
  /\ Answer(r, 201, r)
  /\ UNCHANGED <<row, outbox, queued, body>>

LookupFails(r) ==
  /\ pc[r] = "lookup"
  /\ Answer(r, 500, None)
  /\ UNCHANGED <<row, outbox, queued, body>>

\* The instance dies: the client sees a broken connection.
Crash(r) ==
  /\ pc[r] \in {"create", "enqueue", "deleteOutbox", "lookup"}
  /\ Goto(r, "answered")
  /\ UNCHANGED <<row, outbox, queued, body, answer>>

Fault(r) ==
  /\ faults < MaxFaults /\ faults' = faults + 1
  /\ \/ CreateFails(r) \/ EnqueueFails(r) \/ DeleteOutboxFails(r) \/ LookupFails(r)
     \/ Crash(r)

Handle(r) == Create(r) \/ Enqueue(r) \/ DeleteOutbox(r) \/ Lookup(r) \/ Fault(r)

Next == Reconcile \/ \E r \in Requests : Arrive(r) \/ Handle(r)

Spec == Init /\ [][Next]_vars

-----------------------------------------------------------------------------
Accepted(r) == answer[r].code \in {200, 201}

\* One key is one job: whoever is told 2xx, by whichever instance and after however
\* many lost answers, is told the same id, and 201 is said at most once.
OneJobPerKey ==
  /\ \A r, s \in Requests :
       Accepted(r) /\ Accepted(s) => answer[r].id = answer[s].id
  /\ \A r, s \in Requests :
       answer[r].code = 201 /\ answer[s].code = 201 => r = s

\* What is committed is never forgotten: the job of the key is in the outbox or in
\* Redis, also when the request that made it was told 500 or nothing at all.
CommittedIsCarried == row # NoRow => row.id \in outbox \cup queued

SameJob(b, c) == b.params = c.params /\ b.number = c.number

\* CreateJob answers 2xx about the job that was asked for, whenever it is to run, up
\* to whole numbers float64 cannot tell apart, and 409 about another job: a replay
\* with another run_at or in another spelling is not refused, unless it has a number
\* float64 cannot hold and is spelled otherwise than jsonb spells it.
ReplayHonest ==
  \A r \in Requests :
    /\ answer[r].code = 201 => SameJob(row.body, body[r])
    /\ answer[r].code = 200 =>
         \/ SameJob(row.body, body[r])
         \/ /\ row.body.params = body[r].params
            /\ Decodable(row.body.number) /\ Decodable(body[r].number)
            /\ ~(row.body.number <= Exact /\ body[r].number <= Exact)
    /\ answer[r].code = 409 =>
         \/ ~SameJob(row.body, body[r])
         \/ ~Decodable(body[r].number) /\ body[r].written # "jsonb"

\* docs/api.md, step 8: a replay that is identical to the byte is given 200, not 409.
ExactReplayAccepted ==
  \A r \in Requests :
    answer[r].code = 409 /\ row.id \in Requests => body[r] # body[row.id]

TypeOK ==
  /\ row \in [id : Requests \cup {None}, body : {Stored(b) : b \in Bodies \cup {NoBody}}]
  /\ outbox \subseteq Requests /\ queued \subseteq Requests
  /\ pc \in [Requests -> {"new", "create", "enqueue", "deleteOutbox", "lookup", "answered"}]
  /\ body \in [Requests -> Bodies \cup {NoBody}]
  /\ answer \in [Requests -> [code : {0, 200, 201, 400, 409, 500}, id : Requests \cup {None}]]

\* Calls past the INSERT and answers follow the row.
CallInv(r) ==
  /\ pc[r] # "answered" => answer[r] = NoAnswer
  /\ pc[r] \in {"enqueue", "deleteOutbox"} =>
       row = [id |-> r, body |-> Stored(body[r])]
  /\ pc[r] = "deleteOutbox" => r \in queued
  /\ pc[r] = "lookup" => row.id # None
  /\ Accepted(r) => row.id # None /\ answer[r].id = row.id
  /\ answer[r].code = 200 => Matches(row.body, body[r])
  /\ answer[r].code = 201 => answer[r].id = r /\ row.body = Stored(body[r])
  /\ answer[r].code = 409 => row.id # None /\ ~Matches(row.body, body[r])

\* The inductive invariant: the key's row stands once it is there.
SubmissionInv == TypeOK /\ CommittedIsCarried /\ \A r \in Requests : CallInv(r)
=============================================================================
