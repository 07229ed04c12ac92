---------------------------- MODULE MCLeaderLock ----------------------------
(* Small instances of LeaderLock for TLC. *)
EXTENDS LeaderLock, TLC

\* Schedulers are interchangeable: no action orders or names them.
Symmetry == Permutations(Schedulers)
=============================================================================
