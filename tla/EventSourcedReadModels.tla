----------------------- MODULE EventSourcedReadModels -----------------------
(***************************************************************************)
(* What the event-sourced variants promise across accounts and across the  *)
(* two sides of CQRS: totals over the streams, and the read models against *)
(* the streams they are derived from.                                      *)
(***************************************************************************)
EXTENDS EventSourcedBank, Functions

\* Money is neither made nor lost: the balances the streams replay to add up
\* to the opening balances, after any transfers, conflicts and aborts.
Conservation ==
  LET opened == {a \in Accounts : log[a] # <<>>}
  IN  SumFunction([a \in opened |-> Balance(a)])
        = SumFunction([a \in opened |-> log[a][1].amount])

\* The sum of the first n events of a stream, one by one.
SumOfEvents(a, n) ==
  SumFunction([v \in 1 .. n |->
                 IF log[a][v].kind = "Debited" THEN -log[a][v].amount
                                               ELSE log[a][v].amount])

\* The balance a handler decides on, built from a snapshot row and the events
\* newer than it, is the sum of the events up to the version it will claim.
LoadedIsSumOfEvents ==
  \A t \in Transfers :
    /\ held[t].source.balance = SumOfEvents(From(t), held[t].source.version)
    /\ held[t].dest.balance = SumOfEvents(To(t), held[t].dest.version)

Touches(t, a) == a \in {From(t), To(t)}

\* The handler was cut off after its events were committed.
CutOff(t) == pc[t] = "aborted" /\ transferLog[t] = "Completed"

\* A listed balance differs from the stream by exactly the projections that
\* handlers in flight have yet to run, whatever order concurrent transfers
\* project in; only a handler cut off after its append leaves it wrong.
ReadModelLag ==
  \A a \in listed :
    (~ \E t \in Transfers : CutOff(t) /\ Touches(t, a)) =>
      LET debits  == {t \in Transfers : From(t) = a /\ pc[t] = "projectDebit"}
          credits == {t \in Transfers :
                        To(t) = a /\ pc[t] \in {"projectDebit", "projectCredit"}}
      IN  shown[a] = Balance(a) + SumFunction([t \in debits |-> Amount(t)])
                                - SumFunction([t \in credits |-> Amount(t)])

\* Every request that arrived is answered, when no handler is cut off.
EveryRequestAnswered ==
  \A t \in Transfers : pc[t] # "idle" ~> pc[t] \in Answered

\* PROBLEM.md:19, "If the process crashes mid-transfer, neither balance
\* changes", for the balances the API shows: when no handler runs they add up
\* to the opening balances.
NoPartialUpdate ==
  (\A t \in Transfers : pc[t] \in Answered \cup {"idle"}) =>
    SumFunction([a \in listed |-> shown[a]])
      = SumFunction([a \in listed |-> log[a][1].amount])

=============================================================================
