------------------------- MODULE HexagonalTransfer --------------------------
(***************************************************************************)
(* The hexagonal transfer service on the adapters of its ports: the        *)
(* service compares and computes, the unit of work hands it repositories   *)
(* that share one transaction.                                             *)
(***************************************************************************)
EXTENDS LockingTransfer

-----------------------------------------------------------------------------
(* Adapters *)

\* DrizzleUnitOfWork.execute and the repositories it hands out.
FindSourceById(t, next) == SelectSource(t, next)
FindDestinationById(t, next) == SelectDest(t, next)
UpdateBalance(t, id, newBalance, next) == SetBalance(t, id, newBalance, next)
SaveTransfer(t, status) == InsertAndCommit(t, status, "completed")

\* An InsufficientFundsError leaves the callback.
Execute(t) == RollBack(t, "shareSource")

\* save of the repository outside the transaction.
SaveFailed(t) == InsertTransfer(t, "FAILED", "failed")

-----------------------------------------------------------------------------
(* TransferService *)

VerifyAccountExists(t, id, next) == SelectAccount(t, id, next)

ExecuteTransfer(t) ==
  \/ pc[t] = "checkSource" /\ VerifyAccountExists(t, From(t), "checkDest")
  \/ pc[t] = "checkDest" /\ VerifyAccountExists(t, To(t), "lockSource")
  \/ pc[t] = "lockSource" /\ FindSourceById(t, "lockDest")
  \/ /\ pc[t] = "lockDest"
     /\ FindDestinationById(t, IF read[t].source.balance < Amount(t)
                                 THEN "rollback" ELSE "updateSource")
  \/ /\ pc[t] = "updateSource"
     /\ UpdateBalance(t, From(t), read[t].source.balance - Amount(t), "updateDest")
  \/ /\ pc[t] = "updateDest"
     /\ UpdateBalance(t, To(t), read[t].dest.balance + Amount(t), "commit")
  \/ pc[t] = "commit" /\ SaveTransfer(t, "COMPLETED")
  \/ pc[t] = "rollback" /\ Execute(t)
  \/ SaveFailed(t)

=============================================================================
