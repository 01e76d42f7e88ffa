--------------------------- MODULE OnionTransfer ----------------------------
(***************************************************************************)
(* The onion transfer service around the domain service executeTransfer, a *)
(* pure function from two accounts and an amount to both new accounts.     *)
(***************************************************************************)
EXTENDS LockingTransfer

-----------------------------------------------------------------------------
(* Domain service *)

\* executeTransfer throws, or returns what the accounts become.
DomainExecuteTransfer(source, destination, amount) ==
  [insufficient |-> source < amount,
   debitedSource |-> source - amount,
   creditedDestination |-> destination + amount]

-----------------------------------------------------------------------------
(* Infrastructure *)

FindSourceById(t, next) == SelectSource(t, next)
FindDestinationById(t, next) == SelectDest(t, next)
UpdateBalance(t, id, newBalance, next) == SetBalance(t, id, newBalance, next)
SaveTransfer(t, status) == InsertAndCommit(t, status, "completed")

\* An InsufficientFundsError leaves the callback of the unit of work.
Execute(t) == RollBack(t, "shareSource")

\* save of the repository outside the transaction.
SaveFailed(t) == InsertTransfer(t, "FAILED", "failed")

-----------------------------------------------------------------------------
(* TransferService *)

VerifyAccountExists(t, id, next) == SelectAccount(t, id, next)

\* Of the rows as read; the second is read with the last statement before.
Result(t, destination) ==
  DomainExecuteTransfer(read[t].source.balance, destination, Amount(t))

ExecuteTransfer(t) ==
  \/ pc[t] = "checkSource" /\ VerifyAccountExists(t, From(t), "checkDest")
  \/ pc[t] = "checkDest" /\ VerifyAccountExists(t, To(t), "lockSource")
  \/ pc[t] = "lockSource" /\ FindSourceById(t, "lockDest")
  \/ /\ pc[t] = "lockDest"
     /\ FindDestinationById(t, IF Result(t, balance[To(t)]).insufficient
                                 THEN "rollback" ELSE "updateSource")
  \/ /\ pc[t] = "updateSource"
     /\ UpdateBalance(t, From(t), Result(t, read[t].dest.balance).debitedSource,
                      "updateDest")
  \/ /\ pc[t] = "updateDest"
     /\ UpdateBalance(t, To(t), Result(t, read[t].dest.balance).creditedDestination,
                      "commit")
  \/ pc[t] = "commit" /\ SaveTransfer(t, "COMPLETED")
  \/ pc[t] = "rollback" /\ Execute(t)
  \/ SaveFailed(t)

=============================================================================
