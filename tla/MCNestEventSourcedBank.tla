----------------------- MODULE MCNestEventSourcedBank -----------------------
(* Small instances of the event-sourced bank in its two variants. *)
EXTENDS NestEventSourcedBank

CONSTANTS a, b, unused, t1, t2

TwoAccounts == {a, b}
AllIds == {a, b, unused}

Body(from, to, amount) == [from |-> from, to |-> to, amount |-> amount]

\* Both directions between two accounts, an account that cannot pay, a
\* transfer to oneself and one to nobody.
PairRequests == {Body(a, b, 1), Body(b, a, 2), Body(a, a, 1), Body(a, unused, 1)}

OneBalance == {1}

\* The rebuild runs beside two transfers in one direction, in one variant:
\* its file is the same in both.
MCInit ==
  /\ VariantInit
  /\ stage = "none" =>
       app = "cqrs-es" /\ \A t \in Transfers : req[t] = Body(a, b, 1)

MCSpec == MCInit /\ [][VariantNext]_variantVars /\ VariantFairness
=============================================================================
