---------------------------- MODULE MCIdempotency ----------------------------
(* Small instances of the idempotency interceptor. *)
EXTENDS Idempotency, TLC

CONSTANTS t1, t2, t3, t4, k1, k2, b1, b2

Symmetries ==
  Permutations(Attempts) \cup Permutations(Keys) \cup Permutations(Bodies)
=============================================================================
