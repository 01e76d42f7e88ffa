---------------------------- MODULE MCOutboxRelay ----------------------------
(* Small instances of the outbox relay. *)
EXTENDS OutboxRelay, TLC

CONSTANTS e1, e2, e3, i1, i2, s1, s2

Symmetries ==
  Permutations(Events) \cup Permutations(Instances) \cup Permutations(Slots)
=============================================================================
