---------------------------- MODULE JobLifecycle ----------------------------
(***************************************************************************)
(* The life of a job as its client sees it: the jobs row alone.  One       *)
(* action is one edge between statuses.                                    *)
(***************************************************************************)
EXTENDS Naturals

CONSTANT MaxAttempts

VARIABLES status, attempts, gen

vars == <<status, attempts, gen>>

Waiting == {"pending", "scheduled"}

Init == status = "absent" /\ attempts = 0 /\ gen = 0

Submit ==
  /\ status = "absent"
  /\ status' \in Waiting /\ gen' = 1 /\ UNCHANGED attempts

Start ==
  /\ status \in Waiting /\ attempts < MaxAttempts
  /\ status' = "running" /\ attempts' = attempts + 1 /\ UNCHANGED gen

Succeed == status = "running" /\ status' = "done" /\ UNCHANGED <<attempts, gen>>

\* After a failed attempt, under a new generation, unless it was the last one
Reschedule ==
  /\ status = "running" /\ attempts < MaxAttempts
  /\ status' = "scheduled" /\ gen' = gen + 1 /\ UNCHANGED attempts

\* After a lost one, under the same generation
Redrive ==
  /\ status = "running" /\ attempts < MaxAttempts
  /\ status' = "scheduled" /\ UNCHANGED <<attempts, gen>>

\* Out of attempts, or delivered too often
Die ==
  /\ status \in Waiting \cup {"running"}
  /\ status' = "dead" /\ UNCHANGED <<attempts, gen>>

Cancel == status \in Waiting /\ status' = "cancelled" /\ UNCHANGED <<attempts, gen>>

\* A new life
Revive == status = "dead" /\ status' = "scheduled" /\ attempts' = 0 /\ gen' = gen + 1

Next ==
  Submit \/ Start \/ Succeed \/ Reschedule \/ Redrive \/ Die \/ Cancel \/ Revive

Spec == Init /\ [][Next]_vars
=============================================================================
