---------------------------- MODULE DddTransfer -----------------------------
(***************************************************************************)
(* The DDD transfer: aggregates debit and credit Money, and a transfer is  *)
(* saved with its domain event, in the transaction if it completes, but in *)
(* two statements of their own if it fails.                                *)
(***************************************************************************)
EXTENDS LockingTransfer

VARIABLE domainEvents \* type of each transfer's row in domain_events

-----------------------------------------------------------------------------
(* Aggregates and value objects *)

\* Account.debit and credit, by way of Money.
IsGreaterThanOrEqual(money, other) == money >= other
Subtract(money, other) == money - other
Add(money, other) == money + other

\* Transfer.completed and Transfer.failed raise one event each.
Raised(status) == IF status = "COMPLETED" THEN "TransferCompleted" ELSE "TransferFailed"

-----------------------------------------------------------------------------
(* Repositories *)

FindSourceById(t, next) == SelectSource(t, next) /\ UNCHANGED domainEvents
FindDestinationById(t, next) == SelectDest(t, next) /\ UNCHANGED domainEvents

UpdateBalance(t, id, newBalance, next) ==
  SetBalance(t, id, newBalance, next) /\ UNCHANGED domainEvents

\* save in the transaction: the row, its event, and the COMMIT.
SaveTransfer(t, status) ==
  /\ InsertAndCommit(t, status, "completed")
  /\ domainEvents' = [domainEvents EXCEPT ![t] = Raised(status)]

\* An InsufficientFundsError leaves the callback of the unit of work.
Execute(t) == RollBack(t, "shareSource") /\ UNCHANGED domainEvents

\* save of the repository outside the transaction, whose second statement is
\* saveEvents.
SaveFailed(t) ==
  InsertTransfer(t, "FAILED", "saveEvents") /\ UNCHANGED domainEvents

\* Mutant of SaveEvents: the event of the other outcome.
SaveCompletedEvents(t) ==
  /\ domainEvents' = [domainEvents EXCEPT ![t] = Raised("COMPLETED")]
  /\ Goto(t, "failed")
  /\ UNCHANGED <<open, opened, balance, holder, record, req, read, wrote>>

SaveEvents(t) ==
  /\ domainEvents' = [domainEvents EXCEPT ![t] = Raised(record[t])]
  /\ Goto(t, "failed")
  /\ UNCHANGED <<open, opened, balance, holder, record, req, read, wrote>>

-----------------------------------------------------------------------------
(* TransferService *)

ValidateAccountsExist(t) ==
  /\ \/ pc[t] = "checkSource" /\ SelectAccount(t, From(t), "checkDest")
     \/ pc[t] = "checkDest" /\ SelectAccount(t, To(t), "lockSource")
  /\ UNCHANGED domainEvents

InTransaction(t) ==
  \/ pc[t] = "lockSource" /\ FindSourceById(t, "lockDest")
  \/ /\ pc[t] = "lockDest"
     /\ FindDestinationById(t,
          IF IsGreaterThanOrEqual(read[t].source.balance, Amount(t))
            THEN "updateSource" ELSE "rollback")
  \/ /\ pc[t] = "updateSource"
     /\ UpdateBalance(t, From(t), Subtract(read[t].source.balance, Amount(t)),
                      "updateDest")
  \/ /\ pc[t] = "updateDest"
     /\ UpdateBalance(t, To(t), Add(read[t].dest.balance, Amount(t)), "commit")
  \/ pc[t] = "commit" /\ SaveTransfer(t, "COMPLETED")

\* initiateTransfer: the catch saves what the transaction has rolled back.
ExecuteTransfer(t) ==
  \/ ValidateAccountsExist(t)
  \/ InTransaction(t)
  \/ pc[t] = "rollback" /\ Execute(t)
  \/ SaveFailed(t)
  \/ pc[t] = "saveEvents" /\ SaveEvents(t)

-----------------------------------------------------------------------------
(* Properties *)

\* A completed transfer has its event from the moment it is on record, and an
\* event never contradicts the record.  A failed one may be on record without
\* its event: until its handler has gone on, or for good if that died or the
\* second statement failed.
EventsMatchRecords ==
  \A t \in Transfers :
    /\ domainEvents[t] # "none" => domainEvents[t] = Raised(record[t])
    /\ domainEvents[t] = "none" =>
         \/ record[t] = "none"
         \/ record[t] = "FAILED" /\ pc[t] \in {"saveEvents", "error", "aborted"}

=============================================================================
