------------------------------- MODULE Callback -------------------------------
(***************************************************************************)
(* One attempt to deliver a job: the exchange with the callback URL.  The  *)
(* operators give the states an exchange can be in after each call.  DNS   *)
(* may give another answer every time it is asked, and the endpoint may    *)
(* answer anything, or not at all.                                         *)
(***************************************************************************)
EXTENDS Naturals

CONSTANTS
  Addresses,        \* what the name of the host can resolve to
  Private,          \* the addresses in privateCIDRs
  AllowPrivateIPs,  \* Config.AllowPrivateIPs
  MaxRedirects      \* maxRedirects

\* What an endpoint answers: a 2xx, with a body that is read whole, is over the limit,
\* or breaks off or times out within it; a redirect that keeps the method (307, 308) or
\* not (301, 302, 303), to this host or another; anything else
Answers ==
  [kind : {"2xx"}, body : {"whole", "big", "cut"}] \cup [kind : {"other"}]
    \cup [kind : {"redirect"}, method : {"POST", "GET"}, sameHost : BOOLEAN]

NoAnswerYet == [kind |-> "none"]

\* next: the next call of ExecuteJob, or how it ended
\* pinned: ResolvedIPs; conn: the address of the last connection
\* via: requests sent; method: of the last of them; answer: the answer to it
NewCall ==
  [next |-> "validate", pinned |-> {}, conn |-> {}, via |-> 0, method |-> "POST",
   answer |-> NoAnswerYet]

\* Nothing is left of an exchange that ends with an error.
Failed(c) == [NewCall EXCEPT !.next = "failed"]

Valid(ips) == AllowPrivateIPs \/ ips \cap Private = {}

\* CreateValidatingTransport: one lookup, and its addresses are pinned
Validated(c) ==
  {[c EXCEPT !.next = "dial", !.pinned = ips] :
     ips \in {i \in (SUBSET Addresses) \ {{}} : Valid(i)}}
    \cup {Failed(c)}

\* The Dialer ignores the name: it tries the pinned addresses, and the request is sent.
Dialed_ByName(c) ==
  {[c EXCEPT !.next = "answer", !.conn = {ip}, !.via = @ + 1] : ip \in Addresses}
    \cup {Failed(c)}
Dialed(c) ==
  {[c EXCEPT !.next = "answer", !.conn = {ip}, !.via = @ + 1] : ip \in c.pinned}
    \cup {Failed(c)}

\* The endpoint answers, or the connection breaks or times out before the status has
\* come, the request received or not.
Answered(c) ==
  {[c EXCEPT !.next = "judge", !.answer = a] : a \in Answers} \cup {Failed(c)}

\* CheckRedirect: the third redirect is taken for the answer, and others are followed
\* with the same method, to the same host, if the host still passes.  What that lookup
\* gives is not pinned.
Follows_AnyMethod(c) == c.via < MaxRedirects /\ c.answer.sameHost
Follows(c) == c.via < MaxRedirects /\ c.answer.method = c.method /\ c.answer.sameHost

\* What ExecuteJob makes of an answer: the error of io.Copy is dropped, so a body that
\* breaks off is as good as a whole one.
Judged(c) ==
  IF c.answer.kind = "redirect"
    THEN {Failed(c)}
           \cup (IF Follows(c)
                   THEN {[c EXCEPT !.next = "dial", !.method = c.answer.method,
                                   !.conn = {}, !.answer = NoAnswerYet]}
                   ELSE {})
    ELSE {IF c.answer.kind = "2xx" /\ c.answer.body # "big" THEN [c EXCEPT !.next = "ok"]
          ELSE Failed(c)}
=============================================================================
