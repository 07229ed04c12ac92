----------------------------- MODULE MCDispatch -----------------------------
(* Small instances of Dispatch for TLC. *)
EXTENDS Dispatch, TLC

\* Workers are interchangeable: no action orders or names them.
Symmetry == Permutations(Workers)

\* Faults wherever they leave no duplicate behind
SafePoints == AllPoints \ UnsafePoints

\* The other calls, trimming, a death or failure with messages at hand, with a callback
\* answered and not yet recorded, and with a letter written for a job not yet dead, and an
\* XRANGE whose error is taken for trimmed data
HardPoints == UnsafePoints \cup {"idle", "completeDone", "markDead", "resolve"}
=============================================================================
