---------------------------- MODULE AttemptLedger ----------------------------
(***************************************************************************)
(* What the fence promises, without queues, workers or faults: attempts    *)
(* are handed out one at a time under a generation that only grows, each   *)
(* is recorded at most once, and a record is concluded at most once.       *)
(***************************************************************************)
EXTENDS Naturals

VARIABLES
  gen,       \* the current generation
  attempts,  \* attempts handed out in this life
  rows       \* the audit trail: generation, attempt and status

vars == <<gen, attempts, rows>>

Init == gen = 0 /\ attempts = 0 /\ rows = {}

\* A generation begins, and with it perhaps a life.
Open ==
  /\ gen' = gen + 1 /\ attempts' \in {attempts, 0}
  /\ UNCHANGED rows

HandOut == attempts' = attempts + 1 /\ UNCHANGED <<gen, rows>>

HandedOut(g, a) == g < gen \/ (g = gen /\ a <= attempts)

\* An attempt that was handed out is recorded, if it has no record yet.
Record ==
  /\ \E r \in rows' :
       /\ r.status = "running" /\ HandedOut(r.gen, r.attempt)
       /\ \A s \in rows : <<s.gen, s.attempt>> # <<r.gen, r.attempt>>
       /\ rows' = rows \cup {r}
  /\ UNCHANGED <<gen, attempts>>

Conclude ==
  /\ \E r \in rows : \E s \in {"done", "failed"} :
       r.status = "running" /\ rows' = (rows \ {r}) \cup {[r EXCEPT !.status = s]}
  /\ UNCHANGED <<gen, attempts>>

Next == Open \/ HandOut \/ Record \/ Conclude

Spec == Init /\ [][Next]_vars
=============================================================================
