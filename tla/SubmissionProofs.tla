--------------------------- MODULE SubmissionProofs ---------------------------
(***************************************************************************)
(* Submission for any number of requests with the key, any bodies and any  *)
(* number of failed calls and crashes.                                     *)
(***************************************************************************)
EXTENDS Submission, TLAPS

\* The id a row does not have is no request's.
NoneFresh == None \notin Requests

\* The first row of the key stays: the transaction never replaces it.
LEMMA RowStands ==
  ASSUME SubmissionInv, [Next]_vars
  PROVE  row.id # None => row' = row
BY DEF SubmissionInv, TypeOK, Next, vars, Reconcile, Arrive, Handle, Create, Insert, NoRow,
   Enqueue, DeleteOutbox, Lookup, Fault, CreateFails, EnqueueFails, DeleteOutboxFails,
   LookupFails, Crash

\* What a request that ends is told leaves everybody else's call and answer alone.
LEMMA AnswerMoves ==
  ASSUME SubmissionInv, NEW r \in Requests, NEW code \in {200, 201, 400, 409, 500},
         NEW id \in Requests \cup {None}, Answer(r, code, id)
  PROVE  /\ answer'[r] = [code |-> code, id |-> id] /\ pc'[r] = "answered"
         /\ \A s \in Requests \ {r} : answer'[s] = answer[s] /\ pc'[s] = pc[s]
BY DEF SubmissionInv, TypeOK, Answer, Goto

\* A step of somebody else keeps what is known of a request.
LEMMA OthersKeep ==
  ASSUME NoneFresh, SubmissionInv, NEW s \in Requests,
         row.id # None => row' = row, queued \subseteq queued',
         pc'[s] = pc[s], body'[s] = body[s], answer'[s] = answer[s]
  PROVE  CallInv(s)'
BY DEF NoneFresh, SubmissionInv, CallInv, Accepted, Matches, NoAnswer

\* A request that ends is told what the row says, or nothing.
LEMMA AnswerKeeps ==
  ASSUME NoneFresh, SubmissionInv, NEW r \in Requests, NEW code \in {200, 201, 400, 409, 500},
         NEW id \in Requests \cup {None}, Answer(r, code, id), body' = body,
         row.id # None => row' = row, queued \subseteq queued',
         code \in {200, 201} => row.id # None /\ id = row.id,
         code = 200 => Matches(row.body, body[r]),
         code = 201 => id = r /\ row.body = Stored(body[r]),
         code = 409 => row.id # None /\ ~Matches(row.body, body[r])
  PROVE  \A s \in Requests : CallInv(s)'
<1>0. /\ answer'[r] = [code |-> code, id |-> id] /\ pc'[r] = "answered"
      /\ \A s \in Requests \ {r} : answer'[s] = answer[s] /\ pc'[s] = pc[s]
  BY AnswerMoves
<1>1. CallInv(r)'
  BY <1>0 DEF CallInv, Accepted, Matches
<1>2. ASSUME NEW s \in Requests \ {r} PROVE CallInv(s)'
  BY <1>0, <1>2, OthersKeep
<1> QED BY <1>1, <1>2

\* Every step keeps the invariant.
LEMMA SubmissionInvStep ==
  ASSUME NoneFresh, SubmissionInv, [Next]_vars
  PROVE  SubmissionInv'
<1> USE RowStands
<1>1. ASSUME NEW r \in Requests, Arrive(r) PROVE SubmissionInv'
  <2>1. TypeOK' BY <1>1 DEF SubmissionInv, TypeOK, Arrive, Answer, Goto
  <2>2. CASE Answer(r, 400, None) /\ UNCHANGED body
    <3>1. \A s \in Requests : CallInv(s)' BY <1>1, <2>2, AnswerKeeps DEF Arrive
    <3> QED BY <1>1, <2>1, <3>1 DEF SubmissionInv, CommittedIsCarried, Arrive
  <2>3. CASE Goto(r, "create") /\ UNCHANGED answer
             /\ \E b \in Bodies : body' = [body EXCEPT ![r] = b]
    <3>1. CallInv(r)'
      BY <1>1, <2>3 DEF SubmissionInv, TypeOK, CallInv, Arrive, Goto, Accepted, NoAnswer
    <3>2. \A s \in Requests \ {r} : CallInv(s)'
      BY <1>1, <2>3, OthersKeep DEF Arrive, Goto, SubmissionInv, TypeOK
    <3> QED BY <1>1, <2>1, <3>1, <3>2 DEF SubmissionInv, CommittedIsCarried, Arrive
  <2> QED BY <1>1, <2>2, <2>3 DEF Arrive
<1>2. ASSUME NEW r \in Requests, Create(r) PROVE SubmissionInv'
  <2>1. TypeOK' BY <1>2 DEF SubmissionInv, TypeOK, Create, Insert, Goto
  <2>2. CallInv(r)'
    <3>1. answer'[r] = NoAnswer /\ body' = body
      BY <1>2 DEF SubmissionInv, CallInv, Create
    <3>2. \/ pc'[r] = "enqueue" /\ row' = [id |-> r, body |-> Stored(body[r])]
          \/ pc'[r] = "lookup" /\ row'.id # None
      BY <1>2 DEF SubmissionInv, TypeOK, CommittedIsCarried, NoneFresh, Create, Insert, Goto
    <3> QED BY <3>1, <3>2 DEF CallInv, Accepted, NoAnswer
  <2>3. \A s \in Requests \ {r} : CallInv(s)'
    BY <1>2, OthersKeep DEF Create, Goto, SubmissionInv, TypeOK
  <2>4. CommittedIsCarried'
    BY <1>2 DEF SubmissionInv, CommittedIsCarried, Create, Insert, NoRow
  <2> QED BY <2>1, <2>2, <2>3, <2>4 DEF SubmissionInv
<1>3. ASSUME NEW r \in Requests, Enqueue(r) PROVE SubmissionInv'
  <2>1. TypeOK' BY <1>3 DEF SubmissionInv, TypeOK, Enqueue, Goto
  <2>2. CallInv(r)'
    BY <1>3 DEF SubmissionInv, TypeOK, CallInv, Enqueue, Goto, Accepted, NoAnswer
  <2>3. \A s \in Requests \ {r} : CallInv(s)'
    BY <1>3, OthersKeep DEF Enqueue, Goto, SubmissionInv, TypeOK
  <2> QED BY <1>3, <2>1, <2>2, <2>3 DEF SubmissionInv, CommittedIsCarried, Enqueue
<1>4. ASSUME NEW r \in Requests, DeleteOutbox(r) PROVE SubmissionInv'
  <2>1. TypeOK' BY <1>4 DEF SubmissionInv, TypeOK, DeleteOutbox, Answer, Goto
  <2>2. \A s \in Requests : CallInv(s)'
    BY <1>4, AnswerKeeps DEF DeleteOutbox, SubmissionInv, CallInv, Matches, NoneFresh
  <2> QED BY <1>4, <2>1, <2>2 DEF SubmissionInv, CommittedIsCarried, DeleteOutbox, CallInv
<1>5. ASSUME NEW r \in Requests, Lookup(r) PROVE SubmissionInv'
  <2>1. TypeOK' BY <1>5 DEF SubmissionInv, TypeOK, Lookup, Answer, Goto
  <2>2. \A s \in Requests : CallInv(s)'
    BY <1>5, AnswerKeeps DEF Lookup, SubmissionInv, TypeOK, CallInv
  <2> QED BY <1>5, <2>1, <2>2 DEF SubmissionInv, CommittedIsCarried, Lookup
<1>6. ASSUME NEW r \in Requests, Fault(r) PROVE SubmissionInv'
  <2>1. CASE CreateFails(r)
    <3>1. TypeOK' BY <2>1 DEF SubmissionInv, TypeOK, CreateFails, Insert, Answer, Goto
    <3>2. \A s \in Requests : CallInv(s)' BY <1>6, <2>1, AnswerKeeps DEF CreateFails
    <3> QED BY <2>1, <3>1, <3>2 DEF SubmissionInv, CommittedIsCarried, CreateFails, Insert
  <2>2. CASE EnqueueFails(r)
    <3>1. TypeOK' BY <2>2 DEF SubmissionInv, TypeOK, EnqueueFails, Answer, Goto
    <3>2. \A s \in Requests : CallInv(s)' BY <1>6, <2>2, AnswerKeeps DEF EnqueueFails
    <3> QED BY <2>2, <3>1, <3>2 DEF SubmissionInv, CommittedIsCarried, EnqueueFails
  <2>3. CASE DeleteOutboxFails(r)
    <3>1. TypeOK' BY <2>3 DEF SubmissionInv, TypeOK, DeleteOutboxFails, Answer, Goto
    <3>2. \A s \in Requests : CallInv(s)'
      BY <1>6, <2>3, AnswerKeeps
      DEF DeleteOutboxFails, SubmissionInv, CallInv, Matches, NoneFresh
    <3> QED BY <2>3, <3>1, <3>2 DEF SubmissionInv, CommittedIsCarried, DeleteOutboxFails
  <2>4. CASE LookupFails(r)
    <3>1. TypeOK' BY <2>4 DEF SubmissionInv, TypeOK, LookupFails, Answer, Goto
    <3>2. \A s \in Requests : CallInv(s)' BY <1>6, <2>4, AnswerKeeps DEF LookupFails
    <3> QED BY <2>4, <3>1, <3>2 DEF SubmissionInv, CommittedIsCarried, LookupFails
  <2>5. CASE Crash(r)
    <3>1. TypeOK' BY <2>5 DEF SubmissionInv, TypeOK, Crash, Goto
    <3>2. CallInv(r)'
      BY <2>5 DEF SubmissionInv, TypeOK, CallInv, Crash, Goto, Accepted, NoAnswer
    <3>3. \A s \in Requests \ {r} : CallInv(s)'
      BY <2>5, OthersKeep DEF Crash, Goto, SubmissionInv, TypeOK
    <3> QED BY <2>5, <3>1, <3>2, <3>3 DEF SubmissionInv, CommittedIsCarried, Crash
  <2> QED BY <1>6, <2>1, <2>2, <2>3, <2>4, <2>5 DEF Fault
<1>7. ASSUME Reconcile PROVE SubmissionInv'
  <2>1. TypeOK' BY <1>7 DEF SubmissionInv, TypeOK, Reconcile
  <2>2. \A s \in Requests : CallInv(s)'
    BY <1>7, OthersKeep DEF Reconcile, SubmissionInv, TypeOK
  <2> QED BY <1>7, <2>1, <2>2 DEF SubmissionInv, CommittedIsCarried, Reconcile
<1>8. CASE UNCHANGED vars
  BY <1>8 DEF vars, SubmissionInv, TypeOK, CommittedIsCarried, CallInv, Accepted, Matches
<1> QED
  BY <1>1, <1>2, <1>3, <1>4, <1>5, <1>6, <1>7, <1>8 DEF Next, Handle

\* The row of a key, once committed, is carried and answered from, through any lost
\* answers, crashes and retries of CreateJob.
THEOREM RowAnswers ==
  ASSUME NoneFresh PROVE Spec => []SubmissionInv
<1>1. Init => SubmissionInv
  BY DEF Init, SubmissionInv, TypeOK, CommittedIsCarried, CallInv, Accepted, NoAnswer, NoRow,
     NoBody, Stored
<1>2. SubmissionInv /\ [Next]_vars => SubmissionInv' BY SubmissionInvStep
<1> QED BY <1>1, <1>2, PTL DEF Spec

\* CreateJob: all clients of an idempotency key that are told 2xx are told one job id,
\* and only one of them 201.
THEOREM KeyNamesOneJob ==
  ASSUME NoneFresh PROVE Spec => []OneJobPerKey
<1>1. SubmissionInv => OneJobPerKey
  BY DEF SubmissionInv, CallInv, OneJobPerKey, Accepted
<1> QED BY <1>1, RowAnswers, PTL

\* CreateJob and ReconcileOutbox: a committed job is never in neither store.
THEOREM CommitCarried ==
  ASSUME NoneFresh PROVE Spec => []CommittedIsCarried
<1>1. SubmissionInv => CommittedIsCarried BY DEF SubmissionInv
<1> QED BY <1>1, RowAnswers, PTL

\* Answers that agree with Matches are honest: the row is spelled as jsonb spells it.
LEMMA MatchesHonest ==
  ASSUME SubmissionInv PROVE ReplayHonest
<1> SUFFICES ASSUME NEW r \in Requests PROVE ReplayHonest!(r)
  BY DEF ReplayHonest
<1>1. CallInv(r) BY DEF SubmissionInv
<1>2. answer[r].code = 201 => SameJob(row.body, body[r])
  BY <1>1 DEF CallInv, Stored, SameJob
<1>3. answer[r].code = 200 =>
        row.body.params = body[r].params /\ jsonPayloadEqual(row.body, body[r])
  BY <1>1 DEF CallInv, Matches
<1>4. answer[r].code = 409 =>
        row.body.params # body[r].params \/ ~jsonPayloadEqual(row.body, body[r])
  BY <1>1 DEF CallInv, Matches
<1>5. row.body.written = "jsonb" BY DEF SubmissionInv, TypeOK, Stored
<1> QED BY <1>2, <1>3, <1>4, <1>5 DEF SameJob, jsonPayloadEqual, Decoded, Decodable

\* CreateJob: a replay is answered with the job it describes, up to the numbers that
\* json.Unmarshal rounds, and whoever is refused asked for another job or sent a number
\* that json.Unmarshal cannot decode, spelled otherwise than jsonb spells it.
THEOREM ReplaysHonest ==
  ASSUME NoneFresh PROVE Spec => []ReplayHonest
<1>1. SubmissionInv => ReplayHonest BY MatchesHonest
<1> QED BY <1>1, RowAnswers, PTL
=============================================================================
