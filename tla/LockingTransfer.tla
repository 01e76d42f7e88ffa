--------------------------- MODULE LockingTransfer ---------------------------
(***************************************************************************)
(* The transfer of the variants that keep balances in an accounts table:   *)
(* plain existence checks, then one Postgres transaction that locks the    *)
(* two rows with SELECT .. FOR UPDATE in the order source, destination,    *)
(* and, when the source is short, a FAILED row written by a statement of   *)
(* its own after the rollback, whose foreign keys lock the two accounts    *)
(* again.  The statements come first, then the n-tier service that issues  *)
(* them; the other variants' modules extend this one.                      *)
(*                                                                         *)
(* Row locks, the deadlock detector and the timeouts are the database's    *)
(* and the pool's.  The unit is half a cent, and the balance column is     *)
(* numeric(15, 2).  Accounts are never deleted, so the handlers' second    *)
(* missing check, under the locks, cannot fail.                            *)
(***************************************************************************)
EXTENDS Integers

CONSTANTS
  Ids,             \* account ids a client may name
  Accounts,        \* the ids POST /accounts will draw
  Transfers,       \* transfer requests, one fresh transfer id each
  Nobody,          \* holder of a free row lock
  Requests,        \* bodies of POST /transfers the clients choose from
  OpeningBalances, \* opening balances the clients choose from
  MayAbort         \* whether a process can die or a statement fail

ASSUME LockingAccountsAssumption == Accounts \subseteq Ids
ASSUME LockingRequestsAssumption ==
  Requests \subseteq [from : Ids, to : Ids, amount : Int]
ASSUME LockingBalancesAssumption == OpeningBalances \subseteq Int
ASSUME NobodyAssumption == Nobody \notin Transfers
ASSUME LockingMayAbortAssumption == MayAbort \in BOOLEAN

VARIABLES
  open,     \* accounts with a row
  opened,   \* balance each was created with
  balance,  \* committed balance column
  holder,   \* transaction that holds the row FOR UPDATE
  record,   \* status column of the transfers table, or "none"
  pc,       \* progress of each transfer request
  req,      \* its body
  read,     \* the two rows its transaction has read under lock
  wrote     \* balances its transaction has written and not committed

vars == <<open, opened, balance, holder, record, pc, req, read, wrote>>

-----------------------------------------------------------------------------

\* What a transaction knows of a row: nothing yet, or a balance.
Cell == [known : BOOLEAN, balance : Int]
Unknown == [known |-> FALSE, balance |-> 0]
Known(b) == [known |-> TRUE, balance |-> b]

From(t) == req[t].from
To(t) == req[t].to
Amount(t) == req[t].amount

Goto(t, stage) == pc' = [pc EXCEPT ![t] = stage]

Init ==
  /\ open = {}
  /\ opened = [a \in Ids |-> 0]
  /\ balance = [a \in Ids |-> 0]
  /\ holder = [a \in Ids |-> Nobody]
  /\ record = [t \in Transfers |-> "none"]
  /\ pc = [t \in Transfers |-> "idle"]
  /\ req \in [Transfers -> Requests]
  /\ read = [t \in Transfers |-> [source |-> Unknown, dest |-> Unknown]]
  /\ wrote = [t \in Transfers |-> [a \in Ids |-> Unknown]]

-----------------------------------------------------------------------------
(* Statements *)

\* The column rounds half a cent of a number that is not negative up.
Rounded(x) == x + (x % 2)

\* What is stored of a computed balance: for half a cent one of its
\* neighbours, since the sum or the difference of two doubles is a little
\* above or below it, with toFixed(2) and without.
Column(x) == IF x % 2 = 0 THEN {x} ELSE {x - 1, x + 1}

\* findById outside the transaction.
SelectAccount(t, a, next) ==
  /\ Goto(t, IF a \in open THEN next ELSE "notFound")
  /\ UNCHANGED <<open, opened, balance, holder, record, req, read, wrote>>

\* Mutant of Lock: a plain SELECT.
LockNothing(t, a) == UNCHANGED holder

\* Transfers whose FAILED INSERT has the row FOR KEY SHARE and waits for its
\* other foreign key.
Sharers(a) == {u \in Transfers : pc[u] = "shareDest" /\ From(u) = a}

\* FOR UPDATE waits for the row.
Lock(t, a) ==
  /\ holder[a] \in {Nobody, t}
  /\ Sharers(a) = {}
  /\ holder' = [holder EXCEPT ![a] = t]

\* SELECT .. FOR UPDATE of either row: it returns the committed state.
SelectSource(t, next) ==
  /\ Lock(t, From(t))
  /\ read' = [read EXCEPT ![t].source = Known(balance[From(t)])]
  /\ Goto(t, next)
  /\ UNCHANGED <<open, opened, balance, record, req, wrote>>

SelectDest(t, next) ==
  /\ Lock(t, To(t))
  /\ read' = [read EXCEPT ![t].dest = Known(balance[To(t)])]
  /\ Goto(t, next)
  /\ UNCHANGED <<open, opened, balance, record, req, wrote>>

\* UPDATE accounts SET balance.
SetBalance(t, a, b, next) ==
  /\ \E stored \in Column(b) : wrote' = [wrote EXCEPT ![t][a] = Known(stored)]
  /\ Goto(t, next)
  /\ UNCHANGED <<open, opened, balance, holder, record, req, read>>

Unlocked(t) == [a \in Ids |-> IF holder[a] = t THEN Nobody ELSE holder[a]]

\* The INSERT of the transfer's row and the COMMIT.  The foreign keys ask for
\* less than the transaction already holds.
InsertAndCommit(t, status, next) ==
  /\ balance' = [a \in Ids |-> IF wrote[t][a].known THEN wrote[t][a].balance
                                                    ELSE balance[a]]
  /\ record' = [record EXCEPT ![t] = status]
  /\ holder' = Unlocked(t)
  /\ Goto(t, next)
  /\ UNCHANGED <<open, opened, req, read, wrote>>

\* An error leaves the callback of db.transaction.
RollBack(t, next) ==
  /\ holder' = Unlocked(t)
  /\ Goto(t, next)
  /\ UNCHANGED <<open, opened, balance, record, req, read, wrote>>

\* An INSERT of the transfer's row outside the transaction.  Its foreign keys
\* take FOR KEY SHARE on the source, then on the destination, each when no
\* transaction has the row FOR UPDATE, and keep both until it has committed,
\* which is as soon as it has the second.
InsertTransfer(t, status, next) ==
  /\ \/ /\ pc[t] = "shareSource"
        /\ holder[From(t)] = Nobody
        /\ Goto(t, "shareDest")
        /\ UNCHANGED record
     \/ /\ pc[t] = "shareDest"
        /\ holder[To(t)] = Nobody
        /\ record' = [record EXCEPT ![t] = status]
        /\ Goto(t, next)
  /\ UNCHANGED <<open, opened, balance, holder, req, read, wrote>>

-----------------------------------------------------------------------------
(* The requests *)

\* createAccount: validateBalance, then one INSERT.
OpenAccount(a) ==
  /\ a \notin open
  /\ \E b \in OpeningBalances :
       /\ b >= 0
       /\ opened' = [opened EXCEPT ![a] = Rounded(b)]
       /\ balance' = [balance EXCEPT ![a] = Rounded(b)]
  /\ open' = open \cup {a}
  /\ UNCHANGED <<holder, record, pc, req, read, wrote>>

Receive(t) ==
  /\ pc[t] = "idle"
  /\ {From(t), To(t)} \subseteq open \cup (Ids \ Accounts)
  /\ Amount(t) > 0
  /\ Goto(t, "checkSource")
  /\ UNCHANGED <<open, opened, balance, holder, record, req, read, wrote>>

CheckExists(t) ==
  \/ pc[t] = "checkSource" /\ SelectAccount(t, From(t), "checkDest")
  \/ pc[t] = "checkDest" /\ SelectAccount(t, To(t), "lockSource")

LockSource(t) == pc[t] = "lockSource" /\ SelectSource(t, "lockDest")

\* Mutant of LockDest: the balance of the wrong row is compared.
LockDestSwapped(t) ==
  /\ pc[t] = "lockDest"
  /\ SelectDest(t, IF balance[To(t)] < Amount(t) THEN "rollback" ELSE "updateSource")

LockDest(t) ==
  /\ pc[t] = "lockDest"
  /\ SelectDest(t, IF read[t].source.balance < Amount(t) THEN "rollback"
                                                         ELSE "updateSource")

\* Both new balances are computed from the rows as read, before any update.
UpdateSource(t) ==
  /\ pc[t] = "updateSource"
  /\ SetBalance(t, From(t), read[t].source.balance - Amount(t), "updateDest")

UpdateDest(t) ==
  /\ pc[t] = "updateDest"
  /\ SetBalance(t, To(t), read[t].dest.balance + Amount(t), "commit")

Commit(t) == pc[t] = "commit" /\ InsertAndCommit(t, "COMPLETED", "completed")

\* Mutants of Rollback: the transaction is left open; the error is answered
\* without the second statement.
RollbackForgotten(t) ==
  /\ pc[t] = "rollback"
  /\ Goto(t, "shareSource")
  /\ UNCHANGED <<open, opened, balance, holder, record, req, read, wrote>>

RollbackAndAnswer(t) == pc[t] = "rollback" /\ RollBack(t, "failed")

\* InsufficientFundsError leaves the transaction callback.
Rollback(t) == pc[t] = "rollback" /\ RollBack(t, "shareSource")

\* Mutant of RecordFailed: a status the schema does not have.
RecordFailedAsError(t) == InsertTransfer(t, "InsufficientFunds", "failed")

\* insertWithDefaultDb in the catch block, after the rollback.
RecordFailed(t) == InsertTransfer(t, "FAILED", "failed")

Answered == {"completed", "failed", "notFound", "error", "aborted"}

\* The row that t has asked for.
Wanted(t) ==
  CASE pc[t] \in {"lockSource", "shareSource"} -> {From(t)}
    [] pc[t] \in {"lockDest", "shareDest"}     -> {To(t)}
    [] OTHER                                   -> {}

\* t waits for u: FOR UPDATE waits for both kinds of lock, FOR KEY SHARE for
\* one.
WaitsFor(t, u) ==
  /\ t # u
  /\ \E a \in Wanted(t) :
       \/ holder[a] = u
       \/ pc[t] \in {"lockSource", "lockDest"} /\ u \in Sharers(a)

\* t waits in a cycle: it is in every set that has those it waits for and
\* those that any member waits for.
Deadlocked(t) ==
  \A S \in SUBSET Transfers :
    (\A u \in Transfers : (\E w \in S \cup {t} : WaitsFor(w, u)) => u \in S)
      => t \in S

\* A statement fails while the process lives: what its transaction did and
\* locked is undone, and the error is answered with 500.
Fail(t) ==
  /\ holder' = Unlocked(t)
  /\ Goto(t, "error")
  /\ UNCHANGED <<open, opened, balance, record, req, read, wrote>>

\* The deadlock detector cancels the statement of one transaction of a cycle.
BreakDeadlock(t) == Deadlocked(t) /\ Fail(t)

\* statement_timeout, no client of the pool within connectionTimeoutMillis, or
\* a lost connection, at any statement of the request.
StatementFails(t) ==
  /\ MayAbort
  /\ pc[t] \notin Answered \cup {"idle"}
  /\ Fail(t)

\* The process dies; Postgres rolls the transaction back.
Abort(t) ==
  /\ MayAbort
  /\ pc[t] \notin Answered \cup {"idle"}
  /\ holder' = Unlocked(t)
  /\ Goto(t, "aborted")
  /\ UNCHANGED <<open, opened, balance, record, req, read, wrote>>

\* What the handler does as soon as it can.
Handle(t) ==
  \/ CheckExists(t) \/ LockSource(t) \/ LockDest(t)
  \/ UpdateSource(t) \/ UpdateDest(t) \/ Commit(t)
  \/ Rollback(t) \/ RecordFailed(t)

Next ==
  \/ \E a \in Accounts : OpenAccount(a)
  \/ \E t \in Transfers : \/ Receive(t) \/ Handle(t) \/ Abort(t)
                          \/ BreakDeadlock(t) \/ StatementFails(t)

Spec == Init /\ [][Next]_vars

\* The event loop resumes handlers whose statement returned, Postgres grants
\* a free lock to a waiter, and its deadlock detector cancels one of a cycle.
\* The timeouts get no fairness: nothing below depends on them.
Fairness ==
  /\ \A t \in Transfers : WF_vars(Handle(t))
  /\ WF_vars(\E t \in Transfers : BreakDeadlock(t))

FairSpec == Spec /\ Fairness

-----------------------------------------------------------------------------
(* Properties *)

\* saveEvents is ddd's.
Stages ==
  {"idle", "checkSource", "checkDest", "lockSource", "lockDest", "updateSource",
   "updateDest", "commit", "rollback", "shareSource", "shareDest", "saveEvents"}
  \cup Answered

\* Type correctness.
TypeOK ==
  /\ open \subseteq Accounts
  /\ opened \in [Ids -> Int]
  /\ balance \in [Ids -> Int]
  /\ holder \in [Ids -> Transfers \cup {Nobody}]
  /\ record \in [Transfers -> {"none", "COMPLETED", "FAILED"}]
  /\ pc \in [Transfers -> Stages]
  /\ req \in [Transfers -> Requests]
  /\ read \in [Transfers -> [source : Cell, dest : Cell]]
  /\ wrote \in [Transfers -> [Ids -> Cell]]

\* No committed balance is negative, although the balance is checked some
\* statements before it is written.
NoOverdraft == \A a \in Ids : balance[a] >= 0

InUpdate(t) == pc[t] \in {"updateSource", "updateDest", "commit"}

\* Until it commits, what a transaction computes its updates from is what the
\* table says: FOR UPDATE rules out the lost update between read and write.
ReadsStayCurrent ==
  \A t \in Transfers : InUpdate(t) =>
    /\ read[t].source = Known(balance[From(t)])
    /\ read[t].dest = Known(balance[To(t)])

\* Every request is answered: no set of transfers waits for itself for ever,
\* those that record a failure and lock two keys for it included.
EveryRequestAnswered ==
  \A t \in Transfers : pc[t] # "idle" ~> pc[t] \in Answered

\* PROBLEM.md:18, as far as the code keeps it: a transfer found short of funds
\* is recorded as FAILED, or its client is not told so: the INSERT of that row
\* was a deadlock's victim or failed, which answers 500, or the process died.
DeclinedIsRecorded ==
  \A t \in Transfers :
    pc[t] = "rollback" ~> record[t] = "FAILED" \/ pc[t] \in {"error", "aborted"}

-----------------------------------------------------------------------------
(* The inductive invariant behind the safety properties *)

Checked(t) ==
  pc[t] \in {"lockSource", "lockDest", "updateSource", "updateDest", "commit"}

\* What a transaction may have written of a row.
Writes(t, a) ==
  {Unknown} \cup
  {Known(b) : b \in (IF a = From(t) THEN Column(read[t].source.balance - Amount(t)) ELSE {})
                \cup (IF a = To(t) THEN Column(read[t].dest.balance + Amount(t)) ELSE {})}

\* What each stage of a transaction knows: it holds the rows it has read, so
\* they are as it read them, and it writes nothing else.
TransactionOK(t) ==
  /\ pc[t] # "idle" => Amount(t) > 0
  /\ pc[t] = "checkDest" \/ Checked(t) => From(t) \in open
  /\ Checked(t) => To(t) \in open
  /\ pc[t] = "lockDest" \/ InUpdate(t) =>
       /\ holder[From(t)] = t
       /\ read[t].source = Known(balance[From(t)])
  /\ InUpdate(t) =>
       /\ holder[To(t)] = t
       /\ read[t].dest = Known(balance[To(t)])
       /\ read[t].source.balance >= Amount(t)
       /\ \A a \in Ids : wrote[t][a] \in Writes(t, a)
  /\ pc[t] \in {"idle", "checkSource", "checkDest", "lockSource", "lockDest"} =>
       wrote[t] = [a \in Ids |-> Unknown]

IInv == TypeOK /\ NoOverdraft /\ \A t \in Transfers : TransactionOK(t)

=============================================================================
