---------------------------- MODULE LockingLedger ----------------------------
(***************************************************************************)
(* The locking transfers against the ledger, and the balances against the  *)
(* transfers on record: what PROBLEM.md asks for, which the code keeps for *)
(* whole cents between two accounts, and what it keeps for every request.  *)
(***************************************************************************)
EXTENDS LockingVariants, FiniteSets, Functions

\* The source row is locked and cannot pay.
FoundShort ==
  {t \in Transfers : /\ read[t].source.known
                     /\ read[t].source.balance < Amount(t)}

Outcome ==
  [t \in Transfers |->
     CASE record[t] = "none"      -> "none"
       [] record[t] = "COMPLETED" -> "Completed"
       [] record[t] = "FAILED"    -> "Failed"]

L == INSTANCE Ledger WITH short <- FoundShort, outcome <- Outcome

\* Whatever the lock waits, cancelled statements and aborts, a transfer of
\* whole cents between two accounts is one step of the ledger or none, and is
\* declined only if its source was short.
ImplementsLedger == L!Spec

Completed == {t \in Transfers : record[t] = "COMPLETED"}

SumOfAmounts(S) == SumFunction([t \in S |-> Amount(t)])

\* PROBLEM.md:19, "A successful transfer atomically debits the source and
\* credits the destination. No partial updates": every balance is the opening
\* balance plus the completed transfers in, minus the completed ones out.
RecordsExplainBalances ==
  \A a \in open :
    balance[a] = opened[a] + SumOfAmounts({t \in Completed : To(t) = a})
                           - SumOfAmounts({t \in Completed : From(t) = a})

\* The same line of PROBLEM.md, for the accounts together: what one account
\* loses the other gets, so a transfer neither makes nor destroys money.
MoneyIsConserved ==
  SumFunction([a \in open |-> balance[a]]) = SumFunction([a \in open |-> opened[a]])

-----------------------------------------------------------------------------
(* Every request *)

\* The steps of TransfersAreAtomic.
AccountOpens(a) ==
  /\ a \notin open
  /\ open' = open \cup {a}
  /\ balance' = [balance EXCEPT ![a] = opened'[a]]
  /\ UNCHANGED record

\* Of a transfer from an account to itself only the credit stays.
Moves(t) ==
  /\ record[t] = "none"
  /\ From(t) \in open /\ To(t) \in open
  /\ Amount(t) > 0 /\ balance[From(t)] >= Amount(t)
  /\ \E debited \in Column(balance[From(t)] - Amount(t)),
        credited \in Column(balance[To(t)] + Amount(t)) :
       balance' = [balance EXCEPT ![From(t)] = debited, ![To(t)] = credited]
  /\ record' = [record EXCEPT ![t] = "COMPLETED"]
  /\ UNCHANGED open

ReadsSource(t) ==
  /\ record[t] = "none" /\ ~read[t].source.known
  /\ read' = [read EXCEPT ![t].source = Known(balance[From(t)])]
  /\ UNCHANGED <<open, balance, record>>

Declines(t) ==
  /\ record[t] = "none" /\ t \in FoundShort
  /\ record' = [record EXCEPT ![t] = "FAILED"]
  /\ UNCHANGED <<open, balance>>

\* PROBLEM.md:19, "atomically", for every request: the tables change only as
\* an account opens, as a whole transfer completes that the source can pay, or
\* as one is declined that has seen, under its lock, that the source cannot.
\* The debit and the credit are those of one moment, each rounded to the cent
\* on its own.
TransfersAreAtomic ==
  [][\/ \E a \in Accounts : AccountOpens(a)
     \/ \E t \in Transfers : Moves(t) \/ ReadsSource(t) \/ Declines(t)
    ]_<<open, balance, record, [t \in Transfers |-> read[t].source]>>

In(a) == {t \in Completed : To(t) = a}
OutToOthers(a) == {t \in Completed : From(t) = a /\ To(t) # a}
SubCent(a) == {t \in Completed : a \in {From(t), To(t)} /\ Amount(t) % 2 = 1}

\* For every request: a balance is the opening balance plus the completed
\* transfers in, those from the account itself included, minus the ones out
\* to others, give or take half a cent for each transfer of a part of a cent.
\* So self-transfers and parts of cents are the only ways to make or destroy
\* money: without them it is RecordsExplainBalances.
RecordsBoundBalances ==
  \A a \in open :
    LET explained == opened[a] + SumOfAmounts(In(a)) - SumOfAmounts(OutToOthers(a))
        rounded == Cardinality(SubCent(a))
    IN  balance[a] \in explained - rounded .. explained + rounded

=============================================================================
