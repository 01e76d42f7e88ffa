------------------------- MODULE MCEventSourcedBank -------------------------
(* Small instances of the event-sourced bank. *)
EXTENDS EventSourcedReadModels, EventSourcedLedger, TLC

CONSTANTS a, b, unused, t1, t2, t3

TwoAccounts == {a, b}
AllIds == {a, b, unused}

Body(from, to, amount) == [from |-> from, to |-> to, amount |-> amount]

\* Contention in both directions, a self-transfer, an unknown destination
\* and an amount the handler refuses.
MixedRequests ==
  {Body(a, b, 2), Body(b, a, 1), Body(a, a, 1), Body(a, unused, 1), Body(a, b, 0)}

\* Three transfers on one pair of accounts: snapshots overwrite each other.
HotRequests == {Body(a, b, 1), Body(b, a, 1)}

Balances == {-1, 0, 2}
OneBalance == {1}

TransferSymmetry == Permutations(Transfers)
=============================================================================
