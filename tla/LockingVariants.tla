-------------------------- MODULE LockingVariants ---------------------------
(***************************************************************************)
(* The transfer of the five variants with an accounts table, one of them   *)
(* in each behaviour.                                                      *)
(***************************************************************************)
EXTENDS LockingTransfer

CONSTANTS
  Apps, \* the variants
  Sent  \* bodies each request may have at each of them

VARIABLES
  app,         \* the variant
  domainEvents \* ddd only

variantVars == <<vars, app, domainEvents>>

Hexagonal == INSTANCE HexagonalTransfer
Onion == INSTANCE OnionTransfer
Clean == INSTANCE CleanTransfer
Ddd == INSTANCE DddTransfer

-----------------------------------------------------------------------------

VariantInit ==
  /\ Init
  /\ app \in Apps
  /\ \A t \in Transfers : req[t] \in Sent[app][t]
  /\ domainEvents = [t \in Transfers |-> "none"]

\* The handler is each variant's own, and so are its tables.
VariantHandle(t) ==
  /\ \/ /\ \/ app = "n-tier" /\ Handle(t)
           \/ app = "hexagonal" /\ Hexagonal!ExecuteTransfer(t)
           \/ app = "onion" /\ Onion!ExecuteTransfer(t)
           \/ app = "clean" /\ Clean!ExecuteTransfer(t)
        /\ UNCHANGED domainEvents
     \/ app = "ddd" /\ Ddd!ExecuteTransfer(t)
  /\ UNCHANGED app

\* What happens to any of them.
Environment ==
  /\ \/ \E a \in Accounts : OpenAccount(a)
     \/ \E t \in Transfers : \/ Receive(t) \/ Abort(t)
                             \/ BreakDeadlock(t) \/ StatementFails(t)
  /\ UNCHANGED <<app, domainEvents>>

VariantNext == Environment \/ \E t \in Transfers : VariantHandle(t)

VariantSpec == VariantInit /\ [][VariantNext]_variantVars

VariantFairSpec ==
  /\ VariantSpec
  /\ \A t \in Transfers : WF_variantVars(VariantHandle(t))
  /\ WF_variantVars(/\ \E t \in Transfers : BreakDeadlock(t)
                    /\ UNCHANGED <<app, domainEvents>>)

-----------------------------------------------------------------------------
(* Properties *)

\* Type correctness.
VariantTypeOK ==
  /\ app \in Apps
  /\ domainEvents \in [Transfers -> {"none", "TransferCompleted", "TransferFailed"}]
  /\ TypeOK

\* ddd: see DddTransfer.
EventsMatchRecords == app = "ddd" => Ddd!EventsMatchRecords

=============================================================================
