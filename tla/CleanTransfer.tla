--------------------------- MODULE CleanTransfer ----------------------------
(***************************************************************************)
(* The use case InitiateTransfer of the clean variant: the entities decide *)
(* and compute, and a failed transfer is persisted by a method of its own. *)
(***************************************************************************)
EXTENDS LockingTransfer

-----------------------------------------------------------------------------
(* Entity *)

\* Account.debit and Account.credit.
MayDebit(own, amount) == ~(amount > own)
Debited(own, amount) == own - amount
Credited(own, amount) == own + amount

-----------------------------------------------------------------------------
(* Gateways *)

FindSourceById(t, next) == SelectSource(t, next)
FindDestinationById(t, next) == SelectDest(t, next)
UpdateBalance(t, id, newBalance, next) == SetBalance(t, id, newBalance, next)
SaveTransfer(t, status) == InsertAndCommit(t, status, "completed")

\* An InsufficientFundsError leaves the callback of the unit of work.
Execute(t) == RollBack(t, "shareSource")

\* save of the gateway outside the transaction.
SaveFailed(t, status) == InsertTransfer(t, status, "failed")

-----------------------------------------------------------------------------
(* InitiateTransferUseCase *)

ValidateAccountsExist(t) ==
  \/ pc[t] = "checkSource" /\ SelectAccount(t, From(t), "checkDest")
  \/ pc[t] = "checkDest" /\ SelectAccount(t, To(t), "lockSource")

InTransaction(t) ==
  \/ pc[t] = "lockSource" /\ FindSourceById(t, "lockDest")
  \/ /\ pc[t] = "lockDest"
     /\ FindDestinationById(t, IF MayDebit(read[t].source.balance, Amount(t))
                                 THEN "updateSource" ELSE "rollback")
  \/ /\ pc[t] = "updateSource"
     /\ UpdateBalance(t, From(t), Debited(read[t].source.balance, Amount(t)),
                      "updateDest")
  \/ /\ pc[t] = "updateDest"
     /\ UpdateBalance(t, To(t), Credited(read[t].dest.balance, Amount(t)), "commit")
  \/ pc[t] = "commit" /\ SaveTransfer(t, "COMPLETED")

PersistFailedTransfer(t) == SaveFailed(t, "FAILED")

\* execute: the catch persists what the transaction has rolled back.
ExecuteTransfer(t) ==
  \/ ValidateAccountsExist(t)
  \/ InTransaction(t)
  \/ pc[t] = "rollback" /\ Execute(t)
  \/ PersistFailedTransfer(t)

=============================================================================
