-------------------------------- MODULE MCApi --------------------------------
(* A small instance of Api for TLC. *)
EXTENDS Api, TLC

CONSTANT p

\* Requests are interchangeable, and so are keys and addresses: no action names one.
Symmetry == Permutations(Requests) \cup Permutations(Keys) \cup Permutations(Addresses)

\* Numbers on both sides of Exact = 4, where 4 and 5 decode to the same float64, and
\* one past Largest = 6, as jsonb writes it and otherwise; two values of run_at.
SmallBodies ==
  {[params |-> p, number |-> b[1], written |-> b[2], runAt |-> b[3]] :
     b \in {<<4, "jsonb", 0>>, <<5, "other", 1>>, <<7, "jsonb", 1>>, <<7, "other", 0>>}}
=============================================================================
