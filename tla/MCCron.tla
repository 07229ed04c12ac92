------------------------------- MODULE MCCron -------------------------------
(* Small instances of Cron for TLC. *)
EXTENDS Cron, TLC

\* Schedulers are interchangeable: no action orders or names them.
Symmetry == Permutations(Schedulers)

\* An expression that matches at irregular times, the last after the clock has stopped
Irregular == {2, 3, 5, 8, 9}
=============================================================================
