------------------------ MODULE LockingLedgerProofs -------------------------
(***************************************************************************)
(* The theorems of the five locking variants, for any number of accounts,  *)
(* concurrent transfers, cancelled statements and aborts.                  *)
(*                                                                         *)
(* First the locks: they keep what a transaction has read current until it *)
(* commits, and so no balance is overdrawn and no update is lost, transfers*)
(* from an account to itself included.  Wherever a variant compares,       *)
(* computes and saves, its transfer issues the statements of the n-tier    *)
(* one under the same conditions; ddd has one statement more.  What is     *)
(* proved of the locks holds for all five.                                 *)
(*                                                                         *)
(* Then the tables, for every request the handlers accept: each step of a  *)
(* handler is a whole transfer, a declined one or nothing in the tables,   *)
(* and the completed transfers on record bound every balance.              *)
(***************************************************************************)
EXTENDS LockingLedger, TotalsProofs

-----------------------------------------------------------------------------
(* The locks *)

USE LockingAccountsAssumption, LockingRequestsAssumption,
    LockingBalancesAssumption, NobodyAssumption, LockingMayAbortAssumption

LEMMA RequestTypes ==
  ASSUME TypeOK, NEW t \in Transfers
  PROVE  From(t) \in Ids /\ To(t) \in Ids /\ Amount(t) \in Int
BY DEF TypeOK, From, To, Amount

LEMMA CellTypes ==
  /\ Unknown \in Cell /\ ~Unknown.known
  /\ \A b \in Int : Known(b) \in Cell /\ Known(b).known /\ Known(b).balance = b
BY DEF Cell, Unknown, Known

\* What is stored of a whole number is one, and not negative if that is not.
LEMMA ColumnTypes ==
  ASSUME NEW x \in Int
  PROVE  /\ Column(x) \subseteq Int
         /\ x >= 0 => \A y \in Column(x) : y >= 0
         /\ Rounded(x) \in Int
         /\ x >= 0 => Rounded(x) >= 0
<1>1. x % 2 \in {0, 1}
  OBVIOUS
<1>2. CASE x % 2 = 0
  BY <1>2 DEF Column, Rounded
<1>3. CASE x % 2 = 1
  <2>1. x # 0
    BY <1>3
  <2> QED
    BY <1>3, <2>1 DEF Column, Rounded
<1> QED
  BY <1>1, <1>2, <1>3

LEMMA InitInv == Init => IInv
<1> SUFFICES ASSUME Init PROVE IInv
  OBVIOUS
<1>1. TypeOK
  BY CellTypes DEF Init, TypeOK, Stages
<1>2. NoOverdraft
  <2> SUFFICES ASSUME NEW a \in Ids PROVE balance[a] >= 0
    BY DEF NoOverdraft
  <2>1. balance[a] = 0
    BY DEF Init
  <2>2. balance[a] \in Int
    BY <1>1 DEF TypeOK
  <2> QED
    BY <2>1, <2>2
<1>3. \A t \in Transfers : TransactionOK(t)
  BY DEF Init, TransactionOK, Checked, InUpdate
<1> QED
  BY <1>1, <1>2, <1>3 DEF IInv

\* A transaction keeps what it knows while others move, as long as the rows
\* it has locked stay locked by it and keep their balance.
LEMMA OtherTransaction ==
  ASSUME IInv, NEW u \in Transfers, TransactionOK(u),
         pc'[u] = pc[u], req' = req, read'[u] = read[u], wrote'[u] = wrote[u],
         open \subseteq open',
         \A a \in Ids : holder[a] = u => holder'[a] = u /\ balance'[a] = balance[a]
  PROVE  TransactionOK(u)'
<1>1. From(u) \in Ids /\ To(u) \in Ids
  BY RequestTypes DEF IInv
<1>2. From(u)' = From(u) /\ To(u)' = To(u) /\ Amount(u)' = Amount(u)
  BY DEF From, To, Amount
<1>3. \A a : Writes(u, a)' = Writes(u, a)
  BY <1>2 DEF Writes
<1>4. Checked(u)' <=> Checked(u)
  BY DEF Checked
<1>5. InUpdate(u)' <=> InUpdate(u)
  BY DEF InUpdate
<1> QED
  BY <1>1, <1>2, <1>3, <1>4, <1>5 DEF TransactionOK

LEMMA OpenAccountInv ==
  ASSUME IInv, NEW a \in Accounts, OpenAccount(a)
  PROVE  IInv'
<1>1. PICK b \in OpeningBalances :
        /\ b >= 0
        /\ opened' = [opened EXCEPT ![a] = Rounded(b)]
        /\ balance' = [balance EXCEPT ![a] = Rounded(b)]
  BY DEF OpenAccount
<1>1a. Rounded(b) \in Int /\ Rounded(b) >= 0
  BY <1>1, ColumnTypes
<1>2. a \notin open /\ open' = open \cup {a}
      /\ UNCHANGED <<holder, record, pc, req, read, wrote>>
  BY DEF OpenAccount
<1>3. TypeOK'
  BY <1>1a, <1>1, <1>2 DEF IInv, TypeOK
<1>4. NoOverdraft'
  BY <1>1a, <1>1 DEF IInv, TypeOK, NoOverdraft
<1>5. ASSUME NEW u \in Transfers PROVE TransactionOK(u)'
  <2>1. TransactionOK(u)
    BY DEF IInv
  <2>2. \A d \in Ids \ {a} : balance'[d] = balance[d]
    BY <1>1 DEF IInv, TypeOK
  <2>3. /\ From(u)' = From(u) /\ To(u)' = To(u) /\ Amount(u)' = Amount(u)
        /\ From(u) \in Ids /\ To(u) \in Ids
    BY <1>2, RequestTypes DEF IInv, From, To, Amount
  <2>4. /\ Checked(u)' <=> Checked(u)
        /\ InUpdate(u)' <=> InUpdate(u)
        /\ \A d : Writes(u, d)' = Writes(u, d)
    BY <1>2, <2>3 DEF Checked, InUpdate, Writes
  <2>5. pc[u] = "lockDest" \/ InUpdate(u) => a # From(u) /\ a # To(u)
    BY <1>2, <2>1 DEF TransactionOK, Checked, InUpdate
  <2> QED
    BY <1>2, <2>1, <2>2, <2>3, <2>4, <2>5 DEF TransactionOK
<1> QED
  BY <1>3, <1>4, <1>5 DEF IInv

\* The balances and the locks that others hold stay as they are.
LEMMA OthersKeep ==
  ASSUME IInv, NEW t \in Transfers, NEW u \in Transfers \ {t},
         pc'[u] = pc[u], req' = req, read'[u] = read[u], wrote'[u] = wrote[u],
         UNCHANGED <<open, balance>>,
         \A a \in Ids : holder[a] = u => holder'[a] = u
  PROVE  TransactionOK(u)'
<1>1. TransactionOK(u)
  BY DEF IInv
<1> QED
  BY <1>1, OtherTransaction

LEMMA ReceiveInv ==
  ASSUME IInv, NEW t \in Transfers, Receive(t)
  PROVE  IInv'
<1>1. /\ pc[t] = "idle" /\ Amount(t) > 0
      /\ pc' = [pc EXCEPT ![t] = "checkSource"]
      /\ UNCHANGED <<open, opened, balance, holder, record, req, read, wrote>>
  BY DEF Receive, Goto
<1>2. TypeOK'
  BY <1>1 DEF IInv, TypeOK, Stages
<1>3. NoOverdraft'
  BY <1>1 DEF IInv, NoOverdraft
<1>4. TransactionOK(t)'
  BY <1>1 DEF IInv, TypeOK, TransactionOK, Checked, InUpdate, Amount
<1>5. ASSUME NEW u \in Transfers \ {t} PROVE TransactionOK(u)'
  BY <1>1, OthersKeep DEF IInv, TypeOK
<1> QED
  BY <1>2, <1>3, <1>4, <1>5 DEF IInv

LEMMA CheckExistsInv ==
  ASSUME IInv, NEW t \in Transfers, CheckExists(t)
  PROVE  IInv'
<1>1. PICK stage \in {"checkDest", "lockSource", "notFound"} :
        /\ pc[t] \in {"checkSource", "checkDest"}
        /\ pc' = [pc EXCEPT ![t] = stage]
        /\ stage \in {"checkDest", "lockSource"} => From(t) \in open
        /\ stage = "lockSource" => To(t) \in open
        /\ UNCHANGED <<open, opened, balance, holder, record, req, read, wrote>>
  BY DEF CheckExists, SelectAccount, Goto, IInv, TransactionOK
<1>2. TypeOK'
  BY <1>1 DEF IInv, TypeOK, Stages, Answered
<1>3. NoOverdraft'
  BY <1>1 DEF IInv, NoOverdraft
<1>4. TransactionOK(t)'
  BY <1>1 DEF IInv, TypeOK, TransactionOK, Checked, InUpdate, Amount, From, To
<1>5. ASSUME NEW u \in Transfers \ {t} PROVE TransactionOK(u)'
  BY <1>1, OthersKeep DEF IInv, TypeOK
<1> QED
  BY <1>2, <1>3, <1>4, <1>5 DEF IInv

LEMMA LockSourceInv ==
  ASSUME IInv, NEW t \in Transfers, LockSource(t)
  PROVE  IInv'
<1>1. /\ pc[t] = "lockSource" /\ holder[From(t)] \in {Nobody, t}
      /\ holder' = [holder EXCEPT ![From(t)] = t]
      /\ read' = [read EXCEPT ![t].source = Known(balance[From(t)])]
      /\ pc' = [pc EXCEPT ![t] = "lockDest"]
      /\ UNCHANGED <<open, opened, balance, record, req, wrote>>
  BY DEF LockSource, SelectSource, Lock, Goto
<1>2. /\ From(t) \in Ids /\ From(t)' = From(t) /\ To(t)' = To(t)
      /\ Amount(t)' = Amount(t) /\ Known(balance[From(t)]) \in Cell
  BY <1>1, RequestTypes, CellTypes DEF IInv, TypeOK, From, To, Amount
<1>3. read' \in [Transfers -> [source : Cell, dest : Cell]]
  BY <1>1, <1>2 DEF IInv, TypeOK
<1>4. TypeOK'
  BY <1>1, <1>2, <1>3 DEF IInv, TypeOK, Stages
<1>5. NoOverdraft'
  BY <1>1 DEF IInv, NoOverdraft
<1>6. holder'[From(t)] = t /\ read'[t].source = Known(balance[From(t)])
  BY <1>1, <1>2 DEF IInv, TypeOK
<1>7. TransactionOK(t)'
  BY <1>1, <1>2, <1>6 DEF IInv, TypeOK, TransactionOK, Checked, InUpdate
<1>8. ASSUME NEW u \in Transfers \ {t} PROVE TransactionOK(u)'
  <2>1. /\ pc'[u] = pc[u] /\ read'[u] = read[u] /\ wrote'[u] = wrote[u]
        /\ \A a \in Ids : holder[a] = u => holder'[a] = u
    BY <1>1, <1>2 DEF IInv, TypeOK
  <2> QED
    BY <1>1, <2>1, OthersKeep
<1> QED
  BY <1>4, <1>5, <1>7, <1>8 DEF IInv

LEMMA LockDestInv ==
  ASSUME IInv, NEW t \in Transfers, LockDest(t)
  PROVE  IInv'
<1>1. PICK stage \in {"rollback", "updateSource"} :
      /\ pc[t] = "lockDest" /\ holder[To(t)] \in {Nobody, t}
      /\ holder' = [holder EXCEPT ![To(t)] = t]
      /\ read' = [read EXCEPT ![t].dest = Known(balance[To(t)])]
      /\ pc' = [pc EXCEPT ![t] = stage]
      /\ stage = "updateSource" <=> ~(read[t].source.balance < Amount(t))
      /\ UNCHANGED <<open, opened, balance, record, req, wrote>>
  BY DEF LockDest, SelectDest, Lock, Goto
<1>2. /\ From(t) \in Ids /\ To(t) \in Ids /\ Amount(t) \in Int
      /\ From(t)' = From(t) /\ To(t)' = To(t) /\ Amount(t)' = Amount(t)
      /\ Known(balance[To(t)]) \in Cell
  BY <1>1, RequestTypes, CellTypes DEF IInv, TypeOK, From, To, Amount
<1>3. read' \in [Transfers -> [source : Cell, dest : Cell]]
  BY <1>1, <1>2 DEF IInv, TypeOK
<1>4. TypeOK'
  BY <1>1, <1>2, <1>3 DEF IInv, TypeOK, Stages
<1>5. NoOverdraft'
  BY <1>1 DEF IInv, NoOverdraft
<1>6. /\ holder'[To(t)] = t /\ read'[t].dest = Known(balance[To(t)])
      /\ holder'[From(t)] = t /\ read'[t].source = read[t].source
      /\ read[t].source = Known(balance[From(t)])
      /\ read[t].source.balance \in Int
  BY <1>1, <1>2 DEF IInv, TypeOK, TransactionOK, Cell
<1>7. wrote'[t] = [a \in Ids |-> Unknown]
  BY <1>1 DEF IInv, TransactionOK
<1>8. \A a \in Ids : wrote'[t][a] \in Writes(t, a)'
  BY <1>1, <1>7 DEF Writes
<1>9. TransactionOK(t)'
  BY <1>1, <1>2, <1>6, <1>7, <1>8 DEF IInv, TypeOK, TransactionOK, Checked, InUpdate
<1>10. ASSUME NEW u \in Transfers \ {t} PROVE TransactionOK(u)'
  <2>1. /\ pc'[u] = pc[u] /\ read'[u] = read[u] /\ wrote'[u] = wrote[u]
        /\ \A a \in Ids : holder[a] = u => holder'[a] = u
    BY <1>1, <1>2 DEF IInv, TypeOK
  <2> QED
    BY <1>1, <2>1, OthersKeep
<1> QED
  BY <1>4, <1>5, <1>9, <1>10 DEF IInv

LEMMA UpdateSourceInv ==
  ASSUME IInv, NEW t \in Transfers, UpdateSource(t)
  PROVE  IInv'
<1>1. PICK b \in Column(read[t].source.balance - Amount(t)) :
      /\ pc[t] = "updateSource"
      /\ wrote' = [wrote EXCEPT ![t][From(t)] = Known(b)]
      /\ pc' = [pc EXCEPT ![t] = "updateDest"]
      /\ UNCHANGED <<open, opened, balance, holder, record, req, read>>
  BY DEF UpdateSource, SetBalance, Goto
<1>2. /\ From(t) \in Ids /\ To(t) \in Ids /\ Amount(t) \in Int
      /\ read[t].source.balance \in Int /\ read[t].dest.balance \in Int
      /\ From(t)' = From(t) /\ To(t)' = To(t) /\ Amount(t)' = Amount(t)
  BY <1>1, RequestTypes DEF IInv, TypeOK, Cell, From, To, Amount
<1>3. Known(b) \in Cell
  BY <1>1, <1>2, ColumnTypes, CellTypes
<1>4. /\ wrote' \in [Transfers -> [Ids -> Cell]]
      /\ wrote'[t] = [wrote[t] EXCEPT ![From(t)] = Known(b)]
      /\ \A u \in Transfers \ {t} : wrote'[u] = wrote[u]
  BY <1>1, <1>2, <1>3 DEF IInv, TypeOK
<1>5. TypeOK'
  BY <1>1, <1>4 DEF IInv, TypeOK, Stages
<1>6. NoOverdraft'
  BY <1>1 DEF IInv, NoOverdraft
<1>7. \A a \in Ids : wrote[t][a] \in Writes(t, a) /\ Writes(t, a)' = Writes(t, a)
  BY <1>1, <1>2 DEF IInv, TransactionOK, InUpdate, Writes
<1>8. Known(b) \in Writes(t, From(t))
  BY <1>1 DEF Writes
<1>9. \A a \in Ids : wrote'[t][a] \in Writes(t, a)'
  BY <1>2, <1>4, <1>7, <1>8 DEF IInv, TypeOK
<1>10. TransactionOK(t)'
  BY <1>1, <1>2, <1>9 DEF IInv, TypeOK, TransactionOK, Checked, InUpdate
<1>11. ASSUME NEW u \in Transfers \ {t} PROVE TransactionOK(u)'
  BY <1>1, <1>4, OthersKeep DEF IInv, TypeOK
<1> QED
  BY <1>5, <1>6, <1>10, <1>11 DEF IInv

LEMMA UpdateDestInv ==
  ASSUME IInv, NEW t \in Transfers, UpdateDest(t)
  PROVE  IInv'
<1>1. PICK b \in Column(read[t].dest.balance + Amount(t)) :
      /\ pc[t] = "updateDest"
      /\ wrote' = [wrote EXCEPT ![t][To(t)] = Known(b)]
      /\ pc' = [pc EXCEPT ![t] = "commit"]
      /\ UNCHANGED <<open, opened, balance, holder, record, req, read>>
  BY DEF UpdateDest, SetBalance, Goto
<1>2. /\ From(t) \in Ids /\ To(t) \in Ids /\ Amount(t) \in Int
      /\ read[t].source.balance \in Int /\ read[t].dest.balance \in Int
      /\ From(t)' = From(t) /\ To(t)' = To(t) /\ Amount(t)' = Amount(t)
  BY <1>1, RequestTypes DEF IInv, TypeOK, Cell, From, To, Amount
<1>3. Known(b) \in Cell
  BY <1>1, <1>2, ColumnTypes, CellTypes
<1>4. /\ wrote' \in [Transfers -> [Ids -> Cell]]
      /\ wrote'[t] = [wrote[t] EXCEPT ![To(t)] = Known(b)]
      /\ \A u \in Transfers \ {t} : wrote'[u] = wrote[u]
  BY <1>1, <1>2, <1>3 DEF IInv, TypeOK
<1>5. TypeOK'
  BY <1>1, <1>4 DEF IInv, TypeOK, Stages
<1>6. NoOverdraft'
  BY <1>1 DEF IInv, NoOverdraft
<1>7. \A a \in Ids : wrote[t][a] \in Writes(t, a) /\ Writes(t, a)' = Writes(t, a)
  BY <1>1, <1>2 DEF IInv, TransactionOK, InUpdate, Writes
<1>8. Known(b) \in Writes(t, To(t))
  BY <1>1 DEF Writes
<1>9. \A a \in Ids : wrote'[t][a] \in Writes(t, a)'
  BY <1>2, <1>4, <1>7, <1>8 DEF IInv, TypeOK
<1>10. TransactionOK(t)'
  BY <1>1, <1>2, <1>9 DEF IInv, TypeOK, TransactionOK, Checked, InUpdate
<1>11. ASSUME NEW u \in Transfers \ {t} PROVE TransactionOK(u)'
  BY <1>1, <1>4, OthersKeep DEF IInv, TypeOK
<1> QED
  BY <1>5, <1>6, <1>10, <1>11 DEF IInv

\* A transaction that commits writes only rows that it has locked.
LEMMA CommitInv ==
  ASSUME IInv, NEW t \in Transfers, Commit(t)
  PROVE  IInv'
<1>1. /\ pc[t] = "commit"
      /\ balance' = [a \in Ids |-> IF wrote[t][a].known THEN wrote[t][a].balance
                                                        ELSE balance[a]]
      /\ record' = [record EXCEPT ![t] = "COMPLETED"]
      /\ holder' = Unlocked(t)
      /\ pc' = [pc EXCEPT ![t] = "completed"]
      /\ UNCHANGED <<open, opened, req, read, wrote>>
  BY DEF Commit, InsertAndCommit, Goto
<1>2. TypeOK'
  BY <1>1 DEF IInv, TypeOK, Stages, Answered, Unlocked, Cell
<1>3. /\ From(t) \in Ids /\ To(t) \in Ids /\ Amount(t) \in Int /\ Amount(t) > 0
      /\ read[t].source.balance \in Int /\ read[t].dest.balance \in Int
  BY <1>1, RequestTypes DEF IInv, TypeOK, TransactionOK, Cell
<1>4. /\ holder[From(t)] = t /\ holder[To(t)] = t
      /\ read[t].dest = Known(balance[To(t)])
      /\ read[t].source.balance >= Amount(t)
      /\ \A a \in Ids : wrote[t][a] \in Writes(t, a)
  BY <1>1 DEF IInv, TransactionOK, InUpdate
<1>5. /\ read[t].source.balance - Amount(t) \in Int
      /\ read[t].source.balance - Amount(t) >= 0
      /\ read[t].dest.balance + Amount(t) \in Int
      /\ read[t].dest.balance + Amount(t) >= 0
  <2>1. read[t].dest.balance >= 0
    BY <1>3, <1>4, CellTypes DEF IInv, TypeOK, NoOverdraft
  <2> QED
    BY <1>3, <1>4, <2>1
<1>6. ASSUME NEW a \in Ids
      PROVE  \/ balance'[a] = balance[a]
             \/ holder[a] = t /\ balance'[a] \in Int /\ balance'[a] >= 0
  <2>1. CASE wrote[t][a] = Unknown
    BY <1>1, <2>1, CellTypes
  <2>2. ASSUME NEW b, wrote[t][a] = Known(b), a = From(t),
               b \in Column(read[t].source.balance - Amount(t))
        PROVE  holder[a] = t /\ balance'[a] \in Int /\ balance'[a] >= 0
    <3>1. b \in Int /\ b >= 0
      BY <1>5, <2>2, ColumnTypes
    <3> QED
      BY <1>1, <1>4, <2>2, <3>1, CellTypes
  <2>3. ASSUME NEW b, wrote[t][a] = Known(b), a = To(t),
               b \in Column(read[t].dest.balance + Amount(t))
        PROVE  holder[a] = t /\ balance'[a] \in Int /\ balance'[a] >= 0
    <3>1. b \in Int /\ b >= 0
      BY <1>5, <2>3, ColumnTypes
    <3> QED
      BY <1>1, <1>4, <2>3, <3>1, CellTypes
  <2>4. wrote[t][a] \in Writes(t, a)
    BY <1>4
  <2>5. \/ wrote[t][a] = Unknown
        \/ \E b : /\ wrote[t][a] = Known(b) /\ a = From(t)
                 /\ b \in Column(read[t].source.balance - Amount(t))
        \/ \E b : /\ wrote[t][a] = Known(b) /\ a = To(t)
                 /\ b \in Column(read[t].dest.balance + Amount(t))
    BY <2>4 DEF Writes
  <2> QED
    BY <2>1, <2>2, <2>3, <2>5
<1>7. NoOverdraft'
  <2>1. ASSUME NEW a \in Ids PROVE balance'[a] >= 0
    <3>1. balance[a] \in Int /\ balance[a] >= 0
      BY DEF IInv, TypeOK, NoOverdraft
    <3> QED
      BY <1>6, <3>1
  <2> QED
    BY <2>1 DEF NoOverdraft
<1>8. TransactionOK(t)'
  BY <1>1, <1>3 DEF IInv, TypeOK, TransactionOK, Checked, InUpdate, Amount
<1>9. ASSUME NEW u \in Transfers \ {t} PROVE TransactionOK(u)'
  <2>1. TransactionOK(u) /\ pc'[u] = pc[u]
    BY <1>1 DEF IInv, TypeOK
  <2>2. \A a \in Ids : holder[a] = u => holder'[a] = u /\ balance'[a] = balance[a]
    BY <1>1, <1>6 DEF Unlocked
  <2> QED
    BY <1>1, <2>1, <2>2, OtherTransaction
<1> QED
  BY <1>2, <1>7, <1>8, <1>9 DEF IInv

\* Whatever ends a transaction without a commit.
LEMMA EndInv ==
  ASSUME IInv, NEW t \in Transfers, pc[t] # "idle",
         NEW stage \in {"shareSource", "shareDest", "saveEvents", "error", "aborted",
                        "failed"},
         pc' = [pc EXCEPT ![t] = stage],
         holder' \in {holder, Unlocked(t)},
         record' \in {record, [record EXCEPT ![t] = "FAILED"]},
         UNCHANGED <<open, opened, balance, req, read, wrote>>
  PROVE  IInv'
<1>1. TypeOK'
  BY DEF IInv, TypeOK, Stages, Answered, Unlocked
<1>2. NoOverdraft'
  BY DEF IInv, NoOverdraft
<1>3. TransactionOK(t)'
  BY DEF IInv, TypeOK, TransactionOK, Checked, InUpdate, Amount
<1>4. ASSUME NEW u \in Transfers \ {t} PROVE TransactionOK(u)'
  <2>1. /\ pc'[u] = pc[u]
        /\ \A a \in Ids : holder[a] = u => holder'[a] = u
    BY DEF IInv, TypeOK, Unlocked
  <2> QED
    BY <2>1, OthersKeep
<1> QED
  BY <1>1, <1>2, <1>3, <1>4 DEF IInv

LEMMA InsertTransferInv ==
  ASSUME IInv, NEW t \in Transfers, NEW stage \in {"failed", "saveEvents"},
         InsertTransfer(t, "FAILED", stage)
  PROVE  IInv'
<1>1. PICK next \in {"shareDest", "failed", "saveEvents"} :
        /\ pc[t] # "idle" /\ pc' = [pc EXCEPT ![t] = next]
        /\ record' \in {record, [record EXCEPT ![t] = "FAILED"]}
        /\ UNCHANGED <<open, opened, balance, holder, req, read, wrote>>
  BY DEF InsertTransfer, Goto
<1> QED
  BY <1>1, EndInv

\* What can be a deadlock's victim is waiting.
LEMMA VictimsWait ==
  ASSUME NEW t \in Transfers, Deadlocked(t)
  PROVE  pc[t] \in {"lockSource", "lockDest", "shareSource", "shareDest"}
<1>1. \E u \in Transfers : WaitsFor(t, u)
  <2>1. {} \in SUBSET Transfers
    OBVIOUS
  <2>2. (\A u \in Transfers : (\E w \in {} \cup {t} : WaitsFor(w, u)) => u \in {})
          => t \in {}
    BY <2>1 DEF Deadlocked
  <2> QED
    BY <2>2
<1>2. Wanted(t) # {}
  BY <1>1 DEF WaitsFor
<1> QED
  BY <1>2 DEF Wanted

LEMMA StepInv == IInv /\ [Next]_vars => IInv'
<1> SUFFICES ASSUME IInv, [Next]_vars PROVE IInv'
  OBVIOUS
<1>1. ASSUME NEW a \in Accounts, OpenAccount(a) PROVE IInv'
  BY <1>1, OpenAccountInv
<1>2. ASSUME NEW t \in Transfers, Receive(t) PROVE IInv'
  BY <1>2, ReceiveInv
<1>3. ASSUME NEW t \in Transfers, Handle(t) PROVE IInv'
  <2>1. CASE Rollback(t)
    BY <2>1, EndInv DEF Rollback, RollBack, Goto
  <2>2. CASE RecordFailed(t)
    BY <2>2, InsertTransferInv DEF RecordFailed
  <2> QED
    BY <1>3, <2>1, <2>2, CheckExistsInv, LockSourceInv, LockDestInv,
       UpdateSourceInv, UpdateDestInv, CommitInv DEF Handle
<1>4. ASSUME NEW t \in Transfers, BreakDeadlock(t) \/ StatementFails(t) PROVE IInv'
  <2>1. pc[t] # "idle"
    BY <1>4, VictimsWait DEF BreakDeadlock, StatementFails
  <2> QED
    BY <1>4, <2>1, EndInv DEF BreakDeadlock, StatementFails, Fail, Goto
<1>5. ASSUME NEW t \in Transfers, Abort(t) PROVE IInv'
  BY <1>5, EndInv DEF Abort, Goto
<1>6. CASE UNCHANGED vars
  BY <1>6 DEF vars, IInv, TypeOK, NoOverdraft, TransactionOK, Checked, InUpdate,
              Writes, From, To, Amount
<1> QED
  BY <1>1, <1>2, <1>3, <1>4, <1>5, <1>6 DEF Next

\* Every transaction holds, has read and may write exactly what IInv says of
\* its stage, whatever other transactions wait, commit or are cancelled.
THEOREM Invariance == Spec => []IInv
BY InitInv, StepInv, PTL DEF Spec

\* The tables and the handlers' local state keep their types.
THEOREM TypeCorrect == Spec => []TypeOK
<1>1. IInv => TypeOK
  BY DEF IInv
<1> QED
  BY Invariance, <1>1, PTL

\* No balance is ever negative: the check made under the lock still holds
\* when the transaction commits.
THEOREM NeverOverdrawn == Spec => []NoOverdraft
<1>1. IInv => NoOverdraft
  BY DEF IInv
<1> QED
  BY Invariance, <1>1, PTL

\* Until it commits, a transaction computes with what the table says.
THEOREM NoLostUpdate == Spec => []ReadsStayCurrent
<1>1. IInv => ReadsStayCurrent
  BY DEF IInv, TransactionOK, ReadsStayCurrent
<1> QED
  BY Invariance, <1>1, PTL

-----------------------------------------------------------------------------
(* The handlers of the other variants *)

\* The service of the hexagonal variant is the n-tier one.
LEMMA HexagonalStep ==
  ASSUME NEW t \in Transfers, Hexagonal!ExecuteTransfer(t)
  PROVE  Handle(t)
BY DEF Hexagonal!ExecuteTransfer, Hexagonal!VerifyAccountExists,
       Hexagonal!FindSourceById, Hexagonal!FindDestinationById,
       Hexagonal!UpdateBalance, Hexagonal!SaveTransfer, Hexagonal!Execute,
       Hexagonal!SaveFailed, Hexagonal!SelectAccount, Hexagonal!SelectSource,
       Hexagonal!SelectDest, Hexagonal!SetBalance, Hexagonal!InsertAndCommit,
       Hexagonal!RollBack, Hexagonal!InsertTransfer, Hexagonal!Goto, Hexagonal!Lock, Hexagonal!Sharers,
       Hexagonal!From, Hexagonal!To, Hexagonal!Amount, Hexagonal!Known,
       Hexagonal!Column, Hexagonal!Unlocked,
       Handle, CheckExists, LockSource, LockDest, UpdateSource, UpdateDest, Commit,
       Rollback, RecordFailed, SelectAccount, SelectSource, SelectDest, SetBalance,
       InsertAndCommit, RollBack, InsertTransfer, Goto, Lock, Sharers, From, To, Amount,
       Known, Column, Unlocked

\* The domain service of the onion variant decides and computes the same.
LEMMA OnionStep ==
  ASSUME NEW t \in Transfers, Onion!ExecuteTransfer(t)
  PROVE  Handle(t)
BY DEF Onion!ExecuteTransfer, Onion!VerifyAccountExists, Onion!Result,
       Onion!DomainExecuteTransfer, Onion!FindSourceById,
       Onion!FindDestinationById, Onion!UpdateBalance, Onion!SaveTransfer,
       Onion!Execute, Onion!SaveFailed, Onion!SelectAccount,
       Onion!SelectSource, Onion!SelectDest, Onion!SetBalance,
       Onion!InsertAndCommit, Onion!RollBack, Onion!InsertTransfer,
       Onion!Goto, Onion!Lock, Onion!Sharers, Onion!From, Onion!To, Onion!Amount,
       Onion!Known, Onion!Column, Onion!Unlocked, Handle, CheckExists,
       LockSource, LockDest, UpdateSource, UpdateDest, Commit, Rollback,
       RecordFailed, SelectAccount, SelectSource, SelectDest, SetBalance,
       InsertAndCommit, RollBack, InsertTransfer, Goto, Lock, Sharers, From, To,
       Amount, Known, Column, Unlocked

\* The entities of the clean variant compare the other way round.
LEMMA CleanStep ==
  ASSUME IInv, NEW t \in Transfers, Clean!ExecuteTransfer(t)
  PROVE  Handle(t)
<1>1. read[t].source.balance \in Int /\ Amount(t) \in Int
  BY RequestTypes DEF IInv, TypeOK, Cell
<1>2. Clean!MayDebit(read[t].source.balance, Clean!Amount(t))
        <=> ~(read[t].source.balance < Amount(t))
  BY <1>1 DEF Clean!MayDebit, Clean!Amount, Amount
<1> QED
  BY <1>2 DEF Clean!ExecuteTransfer, Clean!ValidateAccountsExist,
         Clean!InTransaction, Clean!PersistFailedTransfer, Clean!Debited,
         Clean!Credited, Clean!FindSourceById, Clean!FindDestinationById,
         Clean!UpdateBalance, Clean!SaveTransfer, Clean!Execute,
         Clean!SaveFailed, Clean!SelectAccount, Clean!SelectSource,
         Clean!SelectDest, Clean!SetBalance, Clean!InsertAndCommit,
         Clean!RollBack, Clean!InsertTransfer, Clean!Goto, Clean!Lock, Clean!Sharers,
         Clean!From, Clean!To, Clean!Amount, Clean!Known, Clean!Column,
         Clean!Unlocked, Handle, CheckExists, LockSource, LockDest,
         UpdateSource, UpdateDest, Commit, Rollback, RecordFailed,
         SelectAccount, SelectSource, SelectDest, SetBalance, InsertAndCommit,
         RollBack, InsertTransfer, Goto, Lock, Sharers, From, To, Amount, Known, Column,
         Unlocked

\* ddd saves the row of a failed transfer and its event one after the other.
LEMMA DddStep ==
  ASSUME IInv, NEW t \in Transfers, Ddd!ExecuteTransfer(t)
  PROVE  \/ Handle(t)
         \/ InsertTransfer(t, "FAILED", "saveEvents")
         \/ /\ pc[t] = "saveEvents" /\ Goto(t, "failed")
            /\ UNCHANGED <<open, opened, balance, holder, record, req, read, wrote>>
<1>1. read[t].source.balance \in Int /\ Amount(t) \in Int
  BY RequestTypes DEF IInv, TypeOK, Cell
<1>2. Ddd!IsGreaterThanOrEqual(read[t].source.balance, Ddd!Amount(t))
        <=> ~(read[t].source.balance < Amount(t))
  BY <1>1 DEF Ddd!IsGreaterThanOrEqual, Ddd!Amount, Amount
<1>3. CASE Ddd!ValidateAccountsExist(t)
  BY <1>3 DEF Ddd!ValidateAccountsExist, Ddd!SelectAccount, Ddd!Goto,
     Ddd!From, Ddd!To, Handle, CheckExists, SelectAccount, Goto, From, To
<1>4. CASE pc[t] = "lockSource" /\ Ddd!FindSourceById(t, "lockDest")
  BY <1>4 DEF Ddd!FindSourceById, Ddd!SelectSource, Ddd!Lock, Ddd!Sharers, Ddd!Goto,
     Ddd!From, Ddd!Known, Handle, LockSource, SelectSource, Lock, Sharers, Goto,
     From, Known
<1>5. CASE /\ pc[t] = "lockDest"
           /\ Ddd!FindDestinationById(t,
                IF Ddd!IsGreaterThanOrEqual(read[t].source.balance, Ddd!Amount(t))
                  THEN "updateSource" ELSE "rollback")
  BY <1>2, <1>5 DEF Ddd!FindDestinationById, Ddd!SelectDest, Ddd!Lock, Ddd!Sharers,
     Ddd!Goto, Ddd!From, Ddd!To, Ddd!Known, Handle, LockDest, SelectDest, Lock, Sharers,
     Goto, From, To, Known
<1>6. CASE /\ pc[t] = "updateSource"
           /\ Ddd!UpdateBalance(t, Ddd!From(t),
                Ddd!Subtract(read[t].source.balance, Ddd!Amount(t)), "updateDest")
  BY <1>6 DEF Ddd!UpdateBalance, Ddd!Subtract, Ddd!SetBalance, Ddd!Column,
     Ddd!Goto, Ddd!From, Ddd!Amount, Ddd!Known, Handle, UpdateSource,
     SetBalance, Column, Goto, From, Amount, Known
<1>7. CASE /\ pc[t] = "updateDest"
           /\ Ddd!UpdateBalance(t, Ddd!To(t),
                Ddd!Add(read[t].dest.balance, Ddd!Amount(t)), "commit")
  BY <1>7 DEF Ddd!UpdateBalance, Ddd!Add, Ddd!SetBalance, Ddd!Column,
     Ddd!Goto, Ddd!To, Ddd!Amount, Ddd!Known, Handle, UpdateDest, SetBalance,
     Column, Goto, To, Amount, Known
<1>8. CASE pc[t] = "commit" /\ Ddd!SaveTransfer(t, "COMPLETED")
  BY <1>8 DEF Ddd!SaveTransfer, Ddd!InsertAndCommit, Ddd!Unlocked, Ddd!Goto,
     Handle, Commit, InsertAndCommit, Unlocked, Goto
<1>9. CASE pc[t] = "rollback" /\ Ddd!Execute(t)
  BY <1>9 DEF Ddd!Execute, Ddd!RollBack, Ddd!Unlocked, Ddd!Goto, Handle,
     Rollback, RollBack, Unlocked, Goto
<1>10. CASE Ddd!SaveFailed(t)
  BY <1>10 DEF Ddd!SaveFailed, Ddd!InsertTransfer, Ddd!Goto, Ddd!From, Ddd!To,
     InsertTransfer, Goto, From, To
<1>11. CASE pc[t] = "saveEvents" /\ Ddd!SaveEvents(t)
  BY <1>11 DEF Ddd!SaveEvents, Ddd!Goto, Goto
<1> QED
  BY <1>3, <1>4, <1>5, <1>6, <1>7, <1>8, <1>9, <1>10, <1>11
     DEF Ddd!ExecuteTransfer, Ddd!InTransaction

\* ddd's handler keeps the invariant as well.
LEMMA DddHandleInv ==
  ASSUME IInv, NEW t \in Transfers, Ddd!ExecuteTransfer(t)
  PROVE  IInv'
<1>1. CASE Handle(t)
  BY <1>1, StepInv DEF Next
<1>2. CASE InsertTransfer(t, "FAILED", "saveEvents")
  BY <1>2, InsertTransferInv
<1>3. CASE /\ pc[t] = "saveEvents" /\ Goto(t, "failed")
           /\ UNCHANGED <<open, opened, balance, holder, record, req, read, wrote>>
  BY <1>3, EndInv DEF Goto
<1> QED
  BY <1>1, <1>2, <1>3, DddStep

LEMMA VariantInvStep == IInv /\ [VariantNext]_variantVars => IInv'
<1> SUFFICES ASSUME IInv, [VariantNext]_variantVars PROVE IInv'
  OBVIOUS
<1>1. CASE Environment
  BY <1>1, StepInv DEF Environment, Next
<1>2. ASSUME NEW t \in Transfers, VariantHandle(t) PROVE IInv'
  <2>1. Handle(t) \/ Ddd!ExecuteTransfer(t)
    BY <1>2, HexagonalStep, OnionStep, CleanStep DEF VariantHandle
  <2>2. CASE Handle(t)
    BY <2>2, StepInv DEF Next
  <2> QED
    BY <2>1, <2>2, DddHandleInv
<1>3. CASE UNCHANGED variantVars
  BY <1>3, StepInv DEF variantVars
<1> QED
  BY <1>1, <1>2, <1>3 DEF VariantNext

\* The handlers of the four other architectures keep the invariant of the
\* n-tier one: each of their steps is a step of it.
THEOREM VariantInvariance == VariantSpec => []IInv
<1>1. VariantInit => IInv
  BY InitInv DEF VariantInit
<1> QED
  BY <1>1, VariantInvStep, PTL DEF VariantSpec

\* In none of the five variants is a committed balance ever negative.
THEOREM VariantsNeverOverdrawn == VariantSpec => []NoOverdraft
<1>1. IInv => NoOverdraft
  BY DEF IInv
<1> QED
  BY VariantInvariance, <1>1, PTL

\* In all of them a transaction computes with what the table says until it
\* commits.
THEOREM VariantsLoseNoUpdate == VariantSpec => []ReadsStayCurrent
<1>1. IInv => ReadsStayCurrent
  BY DEF IInv, TransactionOK, ReadsStayCurrent
<1> QED
  BY VariantInvariance, <1>1, PTL

-----------------------------------------------------------------------------
(* The domain events of ddd *)

\* A transfer that is not saved yet.
Unsaved(t) ==
  pc[t] \in {"idle", "checkSource", "checkDest", "lockSource", "lockDest",
            "updateSource", "updateDest", "commit", "rollback", "shareSource",
            "shareDest"}

EventOK(t) ==
  /\ Unsaved(t) => record[t] = "none" /\ domainEvents[t] = "none"
  /\ pc[t] = "saveEvents" => record[t] = "FAILED" /\ domainEvents[t] = "none"
  /\ domainEvents[t] # "none" => domainEvents[t] = Ddd!Raised(record[t])
  /\ domainEvents[t] = "none" =>
       \/ record[t] = "none"
       \/ record[t] = "FAILED" /\ pc[t] \in {"saveEvents", "error", "aborted"}

EventTypes ==
  domainEvents \in [Transfers -> {"none", "TransferCompleted", "TransferFailed"}]

EventsInv == EventTypes /\ (app = "ddd" => \A t \in Transfers : EventOK(t))

LEMMA InitEvents == VariantInit => EventsInv
BY DEF VariantInit, Init, EventsInv, EventTypes, EventOK, Unsaved

\* One transfer goes on and the others stay where they are.
LEMMA OthersKeepEvents ==
  ASSUME TypeOK, EventTypes, NEW t \in Transfers, NEW stage,
         \A u \in Transfers : EventOK(u),
         pc' = [pc EXCEPT ![t] = stage],
         \A u \in Transfers \ {t} :
           record'[u] = record[u] /\ domainEvents'[u] = domainEvents[u],
         EventOK(t)'
  PROVE  \A u \in Transfers : EventOK(u)'
<1> SUFFICES ASSUME NEW u \in Transfers \ {t} PROVE EventOK(u)'
  OBVIOUS
<1>1. pc'[u] = pc[u]
  BY DEF TypeOK
<1> QED
  BY <1>1 DEF EventOK, Unsaved, Ddd!Raised

\* What can happen to any of them changes neither table.
LEMMA EnvironmentKeepsEvents ==
  ASSUME TypeOK, EventsInv, Environment
  PROVE  EventsInv'
<1> SUFFICES ASSUME app = "ddd" PROVE \A t \in Transfers : EventOK(t)'
  BY DEF Environment, EventsInv, EventTypes
<1>1. UNCHANGED <<app, domainEvents>> /\ \A t \in Transfers : EventOK(t)
  BY DEF Environment, EventsInv
<1>2. ASSUME NEW a \in Accounts, OpenAccount(a)
      PROVE  \A t \in Transfers : EventOK(t)'
  BY <1>1, <1>2 DEF OpenAccount, EventOK, Unsaved, Ddd!Raised
<1>3. ASSUME NEW t \in Transfers,
             Receive(t) \/ Abort(t) \/ BreakDeadlock(t) \/ StatementFails(t)
      PROVE  \A u \in Transfers : EventOK(u)'
  <2>1. record' = record /\ domainEvents' = domainEvents /\ EventOK(t)
    BY <1>1, <1>3 DEF Receive, Abort, BreakDeadlock, StatementFails, Fail
  <2>2. CASE Receive(t)
    <3>1. pc' = [pc EXCEPT ![t] = "checkSource"] /\ pc[t] = "idle"
      BY <2>2 DEF Receive, Goto
    <3>2. EventOK(t)'
      BY <2>1, <3>1 DEF EventOK, Unsaved, Ddd!Raised, TypeOK
    <3> QED
      BY <1>1, <2>1, <3>1, <3>2, OthersKeepEvents DEF EventsInv
  <2>3. CASE Abort(t) \/ BreakDeadlock(t) \/ StatementFails(t)
    <3>1. PICK stage \in {"aborted", "error"} : pc' = [pc EXCEPT ![t] = stage]
      BY <2>3 DEF Abort, BreakDeadlock, StatementFails, Fail, Goto
    <3>2. EventOK(t)'
      BY <2>1, <3>1 DEF EventOK, Unsaved, Ddd!Raised, TypeOK
    <3> QED
      BY <1>1, <2>1, <3>1, <3>2, OthersKeepEvents DEF EventsInv
  <2> QED
    BY <1>3, <2>2, <2>3
<1> QED
  BY <1>2, <1>3 DEF Environment

\* ddd's handler saves one with the other, or one after the other.
LEMMA DddKeepsEvents ==
  ASSUME TypeOK, EventTypes, \A u \in Transfers : EventOK(u),
         NEW t \in Transfers, Ddd!ExecuteTransfer(t)
  PROVE  EventTypes' /\ \A u \in Transfers : EventOK(u)'
<1> USE DEF EventTypes
<1>1. ASSUME NEW stage, pc' = [pc EXCEPT ![t] = stage], Unsaved(t),
             UNCHANGED <<record, domainEvents>>,
             stage # "saveEvents"
      PROVE  EventTypes' /\ \A u \in Transfers : EventOK(u)'
  <2>1. EventOK(t)'
    BY <1>1 DEF EventOK, Unsaved, Ddd!Raised, TypeOK
  <2> QED
    BY <1>1, <2>1, OthersKeepEvents
<1>2. CASE Ddd!ValidateAccountsExist(t)
  BY <1>1, <1>2 DEF Ddd!ValidateAccountsExist, Ddd!SelectAccount, Ddd!Goto, Unsaved
<1>3. CASE pc[t] = "lockSource" /\ Ddd!FindSourceById(t, "lockDest")
  BY <1>1, <1>3 DEF Ddd!FindSourceById, Ddd!SelectSource, Ddd!Goto, Unsaved
<1>4. CASE /\ pc[t] = "lockDest"
           /\ Ddd!FindDestinationById(t,
                IF Ddd!IsGreaterThanOrEqual(read[t].source.balance, Ddd!Amount(t))
                  THEN "updateSource" ELSE "rollback")
  BY <1>1, <1>4 DEF Ddd!FindDestinationById, Ddd!SelectDest, Ddd!Goto, Unsaved
<1>5. CASE /\ pc[t] = "updateSource"
           /\ Ddd!UpdateBalance(t, Ddd!From(t),
                Ddd!Subtract(read[t].source.balance, Ddd!Amount(t)), "updateDest")
  BY <1>1, <1>5 DEF Ddd!UpdateBalance, Ddd!SetBalance, Ddd!Goto, Unsaved
<1>6. CASE /\ pc[t] = "updateDest"
           /\ Ddd!UpdateBalance(t, Ddd!To(t),
                Ddd!Add(read[t].dest.balance, Ddd!Amount(t)), "commit")
  BY <1>1, <1>6 DEF Ddd!UpdateBalance, Ddd!SetBalance, Ddd!Goto, Unsaved
<1>7. CASE pc[t] = "rollback" /\ Ddd!Execute(t)
  BY <1>1, <1>7 DEF Ddd!Execute, Ddd!RollBack, Ddd!Goto, Unsaved
<1>8. CASE pc[t] = "commit" /\ Ddd!SaveTransfer(t, "COMPLETED")
  <2>1. /\ pc' = [pc EXCEPT ![t] = "completed"]
        /\ record' = [record EXCEPT ![t] = "COMPLETED"]
        /\ domainEvents' = [domainEvents EXCEPT ![t] = "TransferCompleted"]
    BY <1>8 DEF Ddd!SaveTransfer, Ddd!InsertAndCommit, Ddd!Goto, Ddd!Raised
  <2>2. EventOK(t)'
    BY <2>1 DEF EventOK, Unsaved, Ddd!Raised, TypeOK
  <2>3. EventTypes'
    BY <2>1
  <2>4. \A u \in Transfers \ {t} :
          record'[u] = record[u] /\ domainEvents'[u] = domainEvents[u]
    BY <2>1 DEF TypeOK
  <2> QED
    BY <2>1, <2>2, <2>3, <2>4, OthersKeepEvents
<1>9. CASE pc[t] = "shareSource" /\ Ddd!SaveFailed(t)
  BY <1>1, <1>9 DEF Ddd!SaveFailed, Ddd!InsertTransfer, Ddd!Goto, Unsaved
<1>10. CASE pc[t] = "shareDest" /\ Ddd!SaveFailed(t)
  <2>1. /\ pc' = [pc EXCEPT ![t] = "saveEvents"]
        /\ record' = [record EXCEPT ![t] = "FAILED"]
        /\ domainEvents' = domainEvents
        /\ domainEvents[t] = "none"
    BY <1>10 DEF Ddd!SaveFailed, Ddd!InsertTransfer, Ddd!Goto, EventOK, Unsaved
  <2>2. EventOK(t)'
    BY <2>1 DEF EventOK, Unsaved, Ddd!Raised, TypeOK
  <2>3. EventTypes'
    BY <2>1
  <2>4. \A u \in Transfers \ {t} :
          record'[u] = record[u] /\ domainEvents'[u] = domainEvents[u]
    BY <2>1 DEF TypeOK
  <2> QED
    BY <2>1, <2>2, <2>3, <2>4, OthersKeepEvents
<1>11. CASE pc[t] = "saveEvents" /\ Ddd!SaveEvents(t)
  <2>1. /\ pc' = [pc EXCEPT ![t] = "failed"]
        /\ record' = record
        /\ domainEvents' = [domainEvents EXCEPT ![t] = "TransferFailed"]
        /\ record[t] = "FAILED"
    BY <1>11 DEF Ddd!SaveEvents, Ddd!Goto, Ddd!Raised, EventOK
  <2>2. EventOK(t)'
    BY <2>1 DEF EventOK, Unsaved, Ddd!Raised, TypeOK
  <2>3. EventTypes'
    BY <2>1
  <2>4. \A u \in Transfers \ {t} :
          record'[u] = record[u] /\ domainEvents'[u] = domainEvents[u]
    BY <2>1
  <2> QED
    BY <2>1, <2>2, <2>3, <2>4, OthersKeepEvents
<1> QED
  BY <1>2, <1>3, <1>4, <1>5, <1>6, <1>7, <1>8, <1>9, <1>10, <1>11
     DEF Ddd!ExecuteTransfer, Ddd!InTransaction, Ddd!SaveFailed, Ddd!InsertTransfer

LEMMA EventsStep == TypeOK /\ EventsInv /\ [VariantNext]_variantVars => EventsInv'
<1> SUFFICES ASSUME TypeOK, EventsInv, [VariantNext]_variantVars PROVE EventsInv'
  OBVIOUS
<1>1. CASE Environment
  BY <1>1, EnvironmentKeepsEvents
<1>2. ASSUME NEW t \in Transfers, VariantHandle(t) PROVE EventsInv'
  <2>1. CASE app = "ddd"
    BY <1>2, <2>1, DddKeepsEvents DEF VariantHandle, EventsInv
  <2>2. CASE app # "ddd"
    BY <1>2, <2>2 DEF VariantHandle, EventsInv, EventTypes
  <2> QED
    BY <2>1, <2>2
<1>3. CASE UNCHANGED variantVars
  BY <1>3 DEF variantVars, vars, EventsInv, EventTypes, EventOK, Unsaved, Ddd!Raised
<1> QED
  BY <1>1, <1>2, <1>3 DEF VariantNext

\* In ddd a saved transfer and its domain event never contradict each other,
\* and a completed one is never without.
THEOREM EventsAgree == VariantSpec => []EventsMatchRecords
<1>1. IInv => TypeOK
  BY DEF IInv
<1>2. EventsInv => EventsMatchRecords
  BY DEF EventsInv, EventOK, EventsMatchRecords, Ddd!EventsMatchRecords
<1> QED
  BY VariantInvariance, InitEvents, EventsStep, <1>1, <1>2, PTL DEF VariantSpec

AppOK == app \in Apps

\* The type invariant of the five variants.
THEOREM VariantTypeCorrect == VariantSpec => []VariantTypeOK
<1>1. VariantInit => AppOK
  BY DEF VariantInit, AppOK
<1>2. AppOK /\ [VariantNext]_variantVars => AppOK'
  BY DEF VariantNext, Environment, VariantHandle, variantVars, AppOK
<1>3. IInv /\ EventsInv /\ AppOK => VariantTypeOK
  BY DEF IInv, EventsInv, EventTypes, AppOK, VariantTypeOK
<1>4. IInv => TypeOK
  BY DEF IInv
<1> QED
  BY VariantInvariance, InitEvents, EventsStep, <1>1, <1>2, <1>3, <1>4, PTL
     DEF VariantSpec

-----------------------------------------------------------------------------
(* What a handler has read, written and saved at each stage *)

Nothing == [a \in Ids |-> Unknown]
Debits(t) == Column(read[t].source.balance - Amount(t))
Credits(t) == Column(read[t].dest.balance + Amount(t))

\* Nothing is written before its statement, and nothing else than the two
\* computed balances is, the destination's after the source's.
WritesOK(t) ==
  /\ pc[t] = "updateSource" => wrote[t] = Nothing
  /\ pc[t] = "updateDest" =>
       \E d \in Debits(t) : wrote[t] = [Nothing EXCEPT ![From(t)] = Known(d)]
  /\ pc[t] = "commit" =>
       \E d \in Debits(t), c \in Credits(t) :
         wrote[t] = [Nothing EXCEPT ![From(t)] = Known(d), ![To(t)] = Known(c)]

BeforeLock(t) == pc[t] \in {"idle", "checkSource", "checkDest", "lockSource"}

\* The source is read under its lock, and a transfer is only given up after
\* it was found short.
ReadsOK(t) ==
  /\ BeforeLock(t) => ~read[t].source.known
  /\ pc[t] \in {"rollback", "shareSource", "shareDest"} => t \in FoundShort

RecordOK(t) == Unsaved(t) => record[t] = "none"

HandlerOK(t) == WritesOK(t) /\ ReadsOK(t) /\ RecordOK(t)

\* The unit is half a cent and the column holds cents.
WholeBalances == \A a \in Ids : balance[a] % 2 = 0

TablesInv == WholeBalances /\ \A t \in Transfers : HandlerOK(t)

\* The column holds whole cents.
LEMMA ColumnIsWhole ==
  ASSUME NEW x \in Int
  PROVE  /\ Rounded(x) % 2 = 0
         /\ \A y \in Column(x) : y \in Int /\ y % 2 = 0
<1>1. CASE x % 2 = 0
  BY <1>1 DEF Rounded, Column
<1>2. CASE x % 2 = 1
  <2>1. /\ (x + 1) % 2 = 0 /\ (x - 1) % 2 = 0
        /\ x + 1 \in Int /\ x - 1 \in Int
    BY <1>2
  <2> QED
    BY <1>2, <2>1 DEF Rounded, Column
<1> QED
  BY <1>1, <1>2

\* Whole cents and an amount: it is the amount's part of a cent that rounds.
LEMMA RoundedByTheAmount ==
  ASSUME NEW x \in Int, NEW n \in Int, x % 2 = 0
  PROVE  /\ \A y \in Column(x - n) : x - n - (n % 2) <= y /\ y <= x - n + (n % 2)
         /\ \A y \in Column(x + n) : x + n - (n % 2) <= y /\ y <= x + n + (n % 2)
<1>1. (x - n) % 2 = n % 2 /\ (x + n) % 2 = n % 2
  OBVIOUS
<1>2. CASE n % 2 = 0
  BY <1>1, <1>2 DEF Column
<1>3. CASE n % 2 = 1
  BY <1>1, <1>3 DEF Column
<1> QED
  BY <1>2, <1>3

LEMMA TablesInit == VariantInit => TablesInv
<1> SUFFICES ASSUME VariantInit PROVE TablesInv
  OBVIOUS
<1>1. WholeBalances
  <2>1. 0 % 2 = 0
    OBVIOUS
  <2>2. \A a \in Ids : balance[a] = 0
    BY DEF VariantInit, Init
  <2> QED
    BY <2>1, <2>2 DEF WholeBalances
<1>2. ASSUME NEW t \in Transfers PROVE HandlerOK(t)
  BY CellTypes DEF VariantInit, Init, HandlerOK, WritesOK, ReadsOK, RecordOK
<1> QED
  BY <1>1, <1>2 DEF TablesInv

\* One transfer goes on and the others know what they knew.
LEMMA OthersKnow ==
  ASSUME TablesInv, TypeOK, NEW t \in Transfers, NEW stage,
         pc' = [pc EXCEPT ![t] = stage], req' = req,
         \A u \in Transfers \ {t} :
           read'[u] = read[u] /\ wrote'[u] = wrote[u] /\ record'[u] = record[u],
         HandlerOK(t)', WholeBalances'
  PROVE  TablesInv'
<1>1. ASSUME NEW u \in Transfers \ {t} PROVE HandlerOK(u)'
  <2>1. HandlerOK(u) /\ pc'[u] = pc[u]
    BY DEF TablesInv, TypeOK
  <2>2. /\ From(u)' = From(u) /\ To(u)' = To(u) /\ Amount(u)' = Amount(u)
        /\ Debits(u)' = Debits(u) /\ Credits(u)' = Credits(u)
    BY DEF From, To, Amount, Debits, Credits
  <2>3. WritesOK(u)'
    BY <2>1, <2>2 DEF HandlerOK, WritesOK, Nothing
  <2>4. ReadsOK(u)'
    BY <2>1, <2>2 DEF HandlerOK, ReadsOK, BeforeLock, FoundShort
  <2>5. RecordOK(u)'
    BY <2>1 DEF HandlerOK, RecordOK, Unsaved
  <2> QED
    BY <2>3, <2>4, <2>5 DEF HandlerOK
<1> QED
  BY <1>1 DEF TablesInv

\* A step that only changes the stage.
LEMMA AdvanceKnows ==
  ASSUME TablesInv, TypeOK, NEW t \in Transfers, NEW stage,
         pc' = [pc EXCEPT ![t] = stage],
         UNCHANGED <<balance, record, req, read, wrote>>,
         stage \in {"idle", "checkSource", "checkDest", "lockSource", "notFound",
                    "shareSource", "shareDest", "completed", "failed", "error",
                    "aborted"},
         stage \in {"idle", "checkSource", "checkDest", "lockSource"} => BeforeLock(t),
         stage = "shareSource" => pc[t] = "rollback",
         stage = "shareDest" => pc[t] = "shareSource"
  PROVE  TablesInv'
<1>1. HandlerOK(t) /\ pc'[t] = stage
  BY DEF TablesInv, TypeOK
<1>2. WritesOK(t)'
  BY <1>1 DEF WritesOK
<1>3. ReadsOK(t)'
  <2>1. Amount(t)' = Amount(t)
    BY DEF Amount
  <2> QED
    BY <1>1, <2>1 DEF HandlerOK, ReadsOK, BeforeLock, FoundShort
<1>4. RecordOK(t)'
  BY <1>1 DEF HandlerOK, RecordOK, Unsaved, BeforeLock
<1>5. WholeBalances'
  BY DEF TablesInv, WholeBalances
<1> QED
  BY <1>1, <1>2, <1>3, <1>4, <1>5, OthersKnow DEF HandlerOK

LEMMA LockSourceKnows ==
  ASSUME TablesInv, IInv, NEW t \in Transfers, LockSource(t)
  PROVE  TablesInv'
<1>1. /\ pc[t] = "lockSource" /\ pc' = [pc EXCEPT ![t] = "lockDest"]
      /\ read' = [read EXCEPT ![t].source = Known(balance[From(t)])]
      /\ UNCHANGED <<balance, record, req, wrote>>
  BY DEF LockSource, SelectSource, Goto
<1>2. TypeOK /\ HandlerOK(t) /\ pc'[t] = "lockDest"
  BY <1>1 DEF TablesInv, IInv, TypeOK
<1>3. HandlerOK(t)'
  BY <1>1, <1>2 DEF HandlerOK, WritesOK, ReadsOK, RecordOK, BeforeLock, Unsaved
<1>4. WholeBalances'
  BY <1>1 DEF TablesInv, WholeBalances
<1>5. \A u \in Transfers \ {t} : read'[u] = read[u]
  BY <1>1, <1>2 DEF TypeOK
<1> QED
  BY <1>1, <1>2, <1>3, <1>4, <1>5, OthersKnow

LEMMA LockDestKnows ==
  ASSUME TablesInv, IInv, NEW t \in Transfers, LockDest(t)
  PROVE  TablesInv'
<1>1. PICK stage \in {"rollback", "updateSource"} :
      /\ pc[t] = "lockDest" /\ pc' = [pc EXCEPT ![t] = stage]
      /\ stage = "rollback" => read[t].source.balance < Amount(t)
      /\ read' = [read EXCEPT ![t].dest = Known(balance[To(t)])]
      /\ UNCHANGED <<balance, record, req, wrote>>
  BY DEF LockDest, SelectDest, Goto
<1>2. TypeOK /\ HandlerOK(t) /\ pc'[t] = stage
  BY <1>1 DEF TablesInv, IInv, TypeOK
<1>3. /\ wrote[t] = Nothing /\ read[t].source.known
      /\ read'[t].source = read[t].source
  BY <1>1, <1>2, CellTypes, RequestTypes DEF IInv, TypeOK, TransactionOK, Nothing
<1>4. WritesOK(t)'
  BY <1>1, <1>2, <1>3 DEF WritesOK, Nothing
<1>5. ReadsOK(t)'
  <2>1. Amount(t)' = Amount(t)
    BY <1>1 DEF Amount
  <2> QED
    BY <1>1, <1>2, <1>3, <2>1 DEF ReadsOK, BeforeLock, FoundShort
<1>6. RecordOK(t)'
  BY <1>1, <1>2 DEF HandlerOK, RecordOK, Unsaved
<1>7. WholeBalances'
  BY <1>1 DEF TablesInv, WholeBalances
<1>8. \A u \in Transfers \ {t} : read'[u] = read[u]
  BY <1>1, <1>2 DEF TypeOK
<1> QED
  BY <1>1, <1>2, <1>4, <1>5, <1>6, <1>7, <1>8, OthersKnow DEF HandlerOK

LEMMA UpdateSourceKnows ==
  ASSUME TablesInv, IInv, NEW t \in Transfers, UpdateSource(t)
  PROVE  TablesInv'
<1>1. PICK d \in Debits(t) :
        /\ pc[t] = "updateSource" /\ pc' = [pc EXCEPT ![t] = "updateDest"]
        /\ wrote' = [wrote EXCEPT ![t][From(t)] = Known(d)]
        /\ UNCHANGED <<balance, record, req, read>>
  BY DEF UpdateSource, SetBalance, Goto, Debits
<1>2. TypeOK /\ HandlerOK(t) /\ pc'[t] = "updateDest"
  BY <1>1 DEF TablesInv, IInv, TypeOK
<1>3. wrote'[t] = [Nothing EXCEPT ![From(t)] = Known(d)]
  BY <1>1, <1>2 DEF TypeOK, HandlerOK, WritesOK
<1>4. From(t)' = From(t) /\ Debits(t)' = Debits(t)
  BY <1>1 DEF From, Debits, Amount
<1>5. WritesOK(t)'
  BY <1>1, <1>2, <1>3, <1>4 DEF WritesOK, Nothing
<1>6. ReadsOK(t)' /\ RecordOK(t)'
  BY <1>1, <1>2 DEF HandlerOK, ReadsOK, RecordOK, BeforeLock, Unsaved
<1>7. WholeBalances'
  BY <1>1 DEF TablesInv, WholeBalances
<1>8. \A u \in Transfers \ {t} : wrote'[u] = wrote[u]
  BY <1>1, <1>2 DEF TypeOK
<1> QED
  BY <1>1, <1>2, <1>5, <1>6, <1>7, <1>8, OthersKnow DEF HandlerOK

LEMMA UpdateDestKnows ==
  ASSUME TablesInv, IInv, NEW t \in Transfers, UpdateDest(t)
  PROVE  TablesInv'
<1>1. PICK c \in Credits(t) :
        /\ pc[t] = "updateDest" /\ pc' = [pc EXCEPT ![t] = "commit"]
        /\ wrote' = [wrote EXCEPT ![t][To(t)] = Known(c)]
        /\ UNCHANGED <<balance, record, req, read>>
  BY DEF UpdateDest, SetBalance, Goto, Credits
<1>2. TypeOK /\ HandlerOK(t) /\ pc'[t] = "commit"
  BY <1>1 DEF TablesInv, IInv, TypeOK
<1>3. wrote'[t] = [wrote[t] EXCEPT ![To(t)] = Known(c)]
  BY <1>1, <1>2 DEF TypeOK
<1>4. PICK d \in Debits(t) : wrote[t] = [Nothing EXCEPT ![From(t)] = Known(d)]
  BY <1>1, <1>2 DEF HandlerOK, WritesOK
<1>5. /\ From(t)' = From(t) /\ To(t)' = To(t)
      /\ Debits(t)' = Debits(t) /\ Credits(t)' = Credits(t)
  BY <1>1 DEF From, To, Debits, Credits, Amount
<1>6. WritesOK(t)'
  <2>1. wrote'[t] = [Nothing EXCEPT ![From(t)] = Known(d), ![To(t)] = Known(c)]
    BY <1>3, <1>4
  <2> QED
    BY <1>2, <1>5, <2>1 DEF WritesOK, Nothing
<1>7. ReadsOK(t)' /\ RecordOK(t)'
  BY <1>1, <1>2 DEF HandlerOK, ReadsOK, RecordOK, BeforeLock, Unsaved
<1>8. WholeBalances'
  BY <1>1 DEF TablesInv, WholeBalances
<1>9. \A u \in Transfers \ {t} : wrote'[u] = wrote[u]
  BY <1>1, <1>2 DEF TypeOK
<1> QED
  BY <1>1, <1>2, <1>6, <1>7, <1>8, <1>9, OthersKnow DEF HandlerOK

-----------------------------------------------------------------------------
(* What a step does to the tables *)

\* Nothing that TransfersAreAtomic sees.
Keeps ==
  /\ UNCHANGED <<open, balance, record>>
  /\ \A t \in Transfers : read'[t].source = read[t].source

\* An account opens with whole cents.
LEMMA OpenAccountOpens ==
  ASSUME TypeOK, NEW a \in Accounts, OpenAccount(a)
  PROVE  /\ AccountOpens(a) /\ opened'[a] \in Int /\ opened'[a] % 2 = 0
         /\ opened' = [opened EXCEPT ![a] = opened'[a]]
         /\ UNCHANGED <<pc, req, read, wrote>>
<1>1. PICK b \in OpeningBalances :
        /\ opened' = [opened EXCEPT ![a] = Rounded(b)]
        /\ balance' = [balance EXCEPT ![a] = Rounded(b)]
  BY DEF OpenAccount
<1>2. Rounded(b) \in Int /\ Rounded(b) % 2 = 0
  BY ColumnTypes, ColumnIsWhole
<1>3. opened'[a] = Rounded(b)
  BY <1>1 DEF TypeOK
<1> QED
  BY <1>1, <1>2, <1>3 DEF OpenAccount, AccountOpens

LEMMA OpenAccountKnows ==
  ASSUME TablesInv, IInv, NEW a \in Accounts, OpenAccount(a)
  PROVE  TablesInv'
<1>1. /\ balance' = [balance EXCEPT ![a] = opened'[a]] /\ opened'[a] % 2 = 0
      /\ UNCHANGED <<record, pc, req, read, wrote>>
  BY OpenAccountOpens DEF IInv, AccountOpens
<1>2. WholeBalances'
  BY <1>1 DEF TablesInv, WholeBalances, IInv, TypeOK
<1>3. ASSUME NEW t \in Transfers PROVE HandlerOK(t)'
  <2>1. HandlerOK(t)
    BY DEF TablesInv
  <2>2. /\ From(t)' = From(t) /\ To(t)' = To(t) /\ Amount(t)' = Amount(t)
        /\ Debits(t)' = Debits(t) /\ Credits(t)' = Credits(t)
        /\ FoundShort' = FoundShort
    BY <1>1 DEF From, To, Amount, Debits, Credits, FoundShort
  <2>3. WritesOK(t)'
    BY <1>1, <2>1, <2>2 DEF HandlerOK, WritesOK, Nothing
  <2>4. ReadsOK(t)' /\ RecordOK(t)'
    BY <1>1, <2>1, <2>2 DEF HandlerOK, ReadsOK, RecordOK, BeforeLock, Unsaved
  <2> QED
    BY <2>3, <2>4 DEF HandlerOK
<1> QED
  BY <1>2, <1>3 DEF TablesInv

\* The transaction that commits holds both rows, so what it wrote was computed
\* from the balances it replaces.
LEMMA CommitMoves ==
  ASSUME TablesInv, IInv, NEW t \in Transfers, Commit(t)
  PROVE  Moves(t)
<1>1. /\ pc[t] = "commit" /\ record' = [record EXCEPT ![t] = "COMPLETED"]
      /\ balance' = [a \in Ids |-> IF wrote[t][a].known THEN wrote[t][a].balance
                                                        ELSE balance[a]]
      /\ open' = open
  BY DEF Commit, InsertAndCommit
<1>2. /\ From(t) \in Ids /\ To(t) \in Ids /\ Amount(t) \in Int
      /\ balance \in [Ids -> Int]
  BY RequestTypes DEF IInv, TypeOK
<1>3. /\ Amount(t) > 0 /\ From(t) \in open /\ To(t) \in open
      /\ read[t].source = Known(balance[From(t)])
      /\ read[t].dest = Known(balance[To(t)])
      /\ read[t].source.balance >= Amount(t)
  BY <1>1 DEF IInv, TransactionOK, Checked, InUpdate
<1>4. /\ read[t].source.balance = balance[From(t)]
      /\ read[t].dest.balance = balance[To(t)]
  BY <1>2, <1>3, CellTypes
<1>5. PICK d \in Debits(t), c \in Credits(t) :
        wrote[t] = [Nothing EXCEPT ![From(t)] = Known(d), ![To(t)] = Known(c)]
  BY <1>1 DEF TablesInv, HandlerOK, WritesOK
<1>6. /\ d \in Column(balance[From(t)] - Amount(t))
      /\ c \in Column(balance[To(t)] + Amount(t))
  BY <1>4, <1>5 DEF Debits, Credits
<1>7. d \in Int /\ c \in Int
  BY <1>2, <1>6, ColumnIsWhole
<1>8. /\ Known(d).known /\ Known(d).balance = d
      /\ Known(c).known /\ Known(c).balance = c
  BY <1>7, CellTypes
<1>9. /\ wrote[t][To(t)] = Known(c)
      /\ From(t) # To(t) => wrote[t][From(t)] = Known(d)
      /\ \A a \in Ids \ {From(t), To(t)} : wrote[t][a] = Unknown
  BY <1>2, <1>5 DEF Nothing
<1>10. balance' = [balance EXCEPT ![From(t)] = d, ![To(t)] = c]
  <2>1. balance'[To(t)] = c /\ (From(t) # To(t) => balance'[From(t)] = d)
    BY <1>1, <1>2, <1>8, <1>9
  <2>2. \A a \in Ids \ {From(t), To(t)} : balance'[a] = balance[a]
    BY <1>1, <1>9, CellTypes
  <2>3. balance' = [a \in Ids |-> balance'[a]]
    BY <1>1
  <2> QED
    BY <1>2, <2>1, <2>2, <2>3
<1>11. record[t] = "none"
  BY <1>1 DEF TablesInv, HandlerOK, RecordOK, Unsaved
<1> QED
  BY <1>1, <1>3, <1>4, <1>6, <1>10, <1>11 DEF Moves

LEMMA CommitKnows ==
  ASSUME TablesInv, IInv, NEW t \in Transfers, Commit(t)
  PROVE  TablesInv'
<1>1. /\ pc' = [pc EXCEPT ![t] = "completed"]
      /\ UNCHANGED <<req, read, wrote>>
  BY DEF Commit, InsertAndCommit, Goto
<1>2. Moves(t)
  BY CommitMoves
<1>3. /\ From(t) \in Ids /\ To(t) \in Ids /\ Amount(t) \in Int
      /\ balance \in [Ids -> Int]
  BY RequestTypes DEF IInv, TypeOK
<1>4. PICK d \in Column(balance[From(t)] - Amount(t)),
           c \in Column(balance[To(t)] + Amount(t)) :
        balance' = [balance EXCEPT ![From(t)] = d, ![To(t)] = c]
  BY <1>2 DEF Moves
<1>5. d % 2 = 0 /\ c % 2 = 0
  BY <1>3, <1>4, ColumnIsWhole
<1>6. WholeBalances'
  BY <1>3, <1>4, <1>5 DEF TablesInv, WholeBalances
<1>7. TypeOK /\ pc'[t] = "completed"
  BY <1>1 DEF IInv, TypeOK
<1>8. HandlerOK(t)'
  BY <1>7 DEF HandlerOK, WritesOK, ReadsOK, RecordOK, BeforeLock, Unsaved
<1>9. \A u \in Transfers \ {t} : record'[u] = record[u]
  BY <1>2, <1>7 DEF Moves, TypeOK
<1> QED
  BY <1>1, <1>6, <1>7, <1>8, <1>9, OthersKnow

\* The FAILED row, whether ddd's handler has its events still to save or not:
\* it waits for its first key, or declines.
LEMMA InsertTransferEffect ==
  ASSUME TablesInv, IInv, NEW t \in Transfers, NEW stage \in {"failed", "saveEvents"},
         InsertTransfer(t, "FAILED", stage)
  PROVE  (Declines(t) \/ Keeps) /\ TablesInv'
<1>1. UNCHANGED <<open, opened, balance, req, read, wrote>>
  BY DEF InsertTransfer
<1>2. CASE pc[t] = "shareSource"
  <2>1. /\ pc' = [pc EXCEPT ![t] = "shareDest"] /\ UNCHANGED record
    BY <1>2 DEF InsertTransfer, Goto
  <2>2. TablesInv'
    BY <1>1, <1>2, <2>1, AdvanceKnows DEF IInv
  <2> QED
    BY <1>1, <2>1, <2>2 DEF Keeps
<1>3. CASE pc[t] = "shareDest"
  <2>1. /\ record' = [record EXCEPT ![t] = "FAILED"]
        /\ pc' = [pc EXCEPT ![t] = stage]
    BY <1>3 DEF InsertTransfer, Goto
  <2>2. /\ HandlerOK(t) /\ TypeOK /\ pc'[t] = stage
    BY <2>1 DEF TablesInv, IInv, TypeOK
  <2>3. Declines(t)
    BY <1>1, <1>3, <2>1, <2>2 DEF HandlerOK, ReadsOK, RecordOK, Unsaved, Declines
  <2>4. HandlerOK(t)'
    BY <2>2 DEF HandlerOK, WritesOK, ReadsOK, RecordOK, BeforeLock, Unsaved
  <2>5. WholeBalances'
    BY <1>1 DEF TablesInv, WholeBalances
  <2>6. \A u \in Transfers \ {t} : record'[u] = record[u]
    BY <2>1, <2>2 DEF TypeOK
  <2> QED
    BY <1>1, <2>1, <2>2, <2>3, <2>4, <2>5, <2>6, OthersKnow
<1> QED
  BY <1>2, <1>3 DEF InsertTransfer

LEMMA LockSourceReads ==
  ASSUME TablesInv, IInv, NEW t \in Transfers, LockSource(t)
  PROVE  ReadsSource(t)
<1>1. HandlerOK(t) /\ pc[t] = "lockSource"
  BY DEF TablesInv, LockSource
<1> QED
  BY <1>1 DEF LockSource, SelectSource, ReadsSource, HandlerOK, ReadsOK, RecordOK,
              BeforeLock, Unsaved

\* The destination's row is read, and the source stays as read.
LEMMA LockDestKeeps ==
  ASSUME IInv, NEW t \in Transfers, LockDest(t)
  PROVE  Keeps
BY DEF LockDest, SelectDest, Keeps, IInv, TypeOK

\* What a handler does changes what TransfersAreAtomic sees in one of its ways.
HandlerStep(t) == Moves(t) \/ ReadsSource(t) \/ Declines(t) \/ Keeps

\* A step of a handler, in any variant.
LEMMA HandleEffect ==
  ASSUME TablesInv, IInv, NEW t \in Transfers, Handle(t)
  PROVE  HandlerStep(t) /\ TablesInv' /\ UNCHANGED <<opened, req>>
<1>1. TypeOK
  BY DEF IInv
<1>2. CASE CheckExists(t)
  <2>1. PICK stage \in {"checkDest", "lockSource", "notFound"} :
          /\ pc[t] \in {"checkSource", "checkDest"}
          /\ pc' = [pc EXCEPT ![t] = stage]
          /\ UNCHANGED <<open, opened, balance, record, req, read, wrote>>
    BY <1>2 DEF CheckExists, SelectAccount, Goto
  <2>2. TablesInv'
    BY <1>1, <2>1, AdvanceKnows DEF BeforeLock
  <2> QED
    BY <2>1, <2>2 DEF HandlerStep, Keeps
<1>3. CASE Rollback(t)
  <2>1. /\ pc[t] = "rollback" /\ pc' = [pc EXCEPT ![t] = "shareSource"]
        /\ UNCHANGED <<open, opened, balance, record, req, read, wrote>>
    BY <1>3 DEF Rollback, RollBack, Goto
  <2>2. TablesInv'
    BY <1>1, <2>1, AdvanceKnows
  <2> QED
    BY <2>1, <2>2 DEF HandlerStep, Keeps
<1>4. CASE UpdateSource(t) \/ UpdateDest(t)
  BY <1>4, UpdateSourceKnows, UpdateDestKnows
     DEF UpdateSource, UpdateDest, SetBalance, HandlerStep, Keeps
<1>5. CASE RecordFailed(t)
  BY <1>5, InsertTransferEffect DEF RecordFailed, InsertTransfer, HandlerStep
<1>6. CASE LockSource(t)
  BY <1>6, LockSourceReads, LockSourceKnows DEF LockSource, SelectSource, HandlerStep
<1>7. CASE LockDest(t)
  BY <1>7, LockDestKeeps, LockDestKnows DEF LockDest, SelectDest, HandlerStep
<1>8. CASE Commit(t)
  BY <1>8, CommitMoves, CommitKnows DEF Commit, InsertAndCommit, HandlerStep
<1> QED
  BY <1>2, <1>3, <1>4, <1>5, <1>6, <1>7, <1>8 DEF Handle

\* What any step does: nothing that is seen, an account opens, or a transfer
\* goes on.
Effect ==
  \/ Keeps /\ UNCHANGED <<opened, req>>
  \/ \E a \in Accounts : /\ AccountOpens(a) /\ opened'[a] \in Int
                         /\ opened' = [opened EXCEPT ![a] = opened'[a]]
                         /\ UNCHANGED <<req, read>>
  \/ \E t \in Transfers : /\ Moves(t) \/ ReadsSource(t) \/ Declines(t)
                          /\ UNCHANGED <<opened, req>>

LEMMA EnvironmentEffect ==
  ASSUME TablesInv, IInv, Environment
  PROVE  Effect /\ TablesInv'
<1>1. ASSUME NEW a \in Accounts, OpenAccount(a)
      PROVE  TablesInv' /\ Effect
  BY <1>1, OpenAccountOpens, OpenAccountKnows DEF Effect, IInv
<1>2. ASSUME NEW t \in Transfers,
             Receive(t) \/ Abort(t) \/ BreakDeadlock(t) \/ StatementFails(t)
      PROVE  TablesInv' /\ Effect
  <2>1. PICK stage \in {"checkSource", "aborted", "error"} :
          /\ pc' = [pc EXCEPT ![t] = stage]
          /\ stage = "checkSource" => pc[t] = "idle"
          /\ UNCHANGED <<open, opened, balance, record, req, read, wrote>>
    BY <1>2 DEF Receive, Abort, BreakDeadlock, StatementFails, Fail, Goto
  <2>2. TablesInv'
    BY <2>1, AdvanceKnows DEF IInv, BeforeLock
  <2> QED
    BY <2>1, <2>2 DEF Effect, Keeps
<1> QED
  BY <1>1, <1>2 DEF Environment

\* Every step of every variant, on the tables.
LEMMA StepEffect ==
  ASSUME TablesInv, IInv, [VariantNext]_variantVars
  PROVE  Effect /\ TablesInv'
<1>1. ASSUME NEW t \in Transfers, VariantHandle(t)
      PROVE  HandlerStep(t) /\ TablesInv' /\ UNCHANGED <<opened, req>>
  <2>1. CASE InsertTransfer(t, "FAILED", "saveEvents")
    BY <2>1, InsertTransferEffect DEF InsertTransfer, HandlerStep
  <2>2. CASE /\ pc[t] = "saveEvents" /\ Goto(t, "failed")
             /\ UNCHANGED <<open, opened, balance, holder, record, req, read, wrote>>
    <3>1. TablesInv'
      BY <2>2, AdvanceKnows DEF IInv, Goto
    <3> QED
      BY <2>2, <3>1 DEF HandlerStep, Keeps
  <2>3. Handle(t) \/ Ddd!ExecuteTransfer(t)
    BY <1>1, HexagonalStep, OnionStep, CleanStep DEF VariantHandle
  <2> QED
    BY <2>1, <2>2, <2>3, DddStep, HandleEffect
<1>2. CASE UNCHANGED variantVars
  <2>1. UNCHANGED <<open, opened, balance, record, pc, req, read, wrote>>
    BY <1>2 DEF variantVars, vars
  <2>2. Effect
    BY <2>1 DEF Effect, Keeps
  <2>3. TablesInv'
    BY <2>1 DEF TablesInv, WholeBalances, HandlerOK, WritesOK, ReadsOK, RecordOK,
       Nothing, BeforeLock, Unsaved, Debits, Credits, FoundShort, From, To, Amount
  <2> QED
    BY <2>2, <2>3
<1> QED
  BY <1>1, <1>2, EnvironmentEffect DEF VariantNext, Effect, HandlerStep

\* What TransfersAreAtomic says of a step.
AtomicStep ==
  [\/ \E a \in Accounts : AccountOpens(a)
   \/ \E t \in Transfers : Moves(t) \/ ReadsSource(t) \/ Declines(t)
  ]_<<open, balance, record, [t \in Transfers |-> read[t].source]>>

\* In all five variants and for every request they accept, a transfer shows in
\* the tables as one step or not at all: no interleaving of the statements, no
\* lock wait, no deadlock's victim, failed statement or dead process shows
\* outside the transaction, and only a transfer that has seen its source short
\* is declined.
THEOREM TransfersAtomic == VariantSpec => TransfersAreAtomic
<1>1. IInv /\ TablesInv /\ [VariantNext]_variantVars => TablesInv' /\ AtomicStep
  BY StepEffect DEF Effect, Keeps, AtomicStep
<1> QED
  BY <1>1, VariantInvariance, TablesInit, PTL
     DEF VariantSpec, TransfersAreAtomic, AtomicStep

-----------------------------------------------------------------------------
(* The balances and the records *)

\* Finitely many transfers have completed so far, from and to open accounts.
RecordsInv ==
  /\ IsFiniteSet(Completed)
  /\ \A t \in Completed : From(t) \in open /\ To(t) \in open
  /\ RecordsBoundBalances

LEMMA InitRecords == VariantInit => RecordsInv
<1> SUFFICES ASSUME VariantInit PROVE RecordsInv
  OBVIOUS
<1>1. Completed = {} /\ open = {}
  BY DEF VariantInit, Init, Completed
<1> QED
  BY <1>1, FS_EmptySet DEF RecordsInv, RecordsBoundBalances

\* A sum of amounts is an integer, and grows by the amount of a transfer.
LEMMA AmountsOfFinite ==
  ASSUME TypeOK, NEW S \in SUBSET Transfers, IsFiniteSet(S)
  PROVE  SumOfAmounts(S) \in Int
<1>1. \A t \in S : Amount(t) \in Int
  BY RequestTypes
<1> DEFINE f == [t \in S |-> Amount(t)]
<1>2. DOMAIN f = S /\ \A t \in S : f[t] \in Int
  BY <1>1
<1> HIDE DEF f
<1>3. SumFunction(f) \in Int
  BY <1>2, TotalIsInt
<1> QED
  BY <1>3 DEF SumOfAmounts, f

LEMMA AmountsWithOneMore ==
  ASSUME TypeOK, NEW S \in SUBSET Transfers, IsFiniteSet(S),
         NEW t \in Transfers, t \notin S
  PROVE  SumOfAmounts(S \cup {t}) = SumOfAmounts(S) + Amount(t)
<1>1. \A u \in S \cup {t} : Amount(u) \in Int
  BY RequestTypes
<1> DEFINE f == [u \in S |-> Amount(u)]
           g == [u \in S \cup {t} |-> Amount(u)]
<1>2. /\ DOMAIN f = S /\ DOMAIN g = S \cup {t}
      /\ \A u \in S : g[u] = f[u]
      /\ \A u \in S \cup {t} : g[u] \in Int
      /\ g[t] = Amount(t)
  BY <1>1
<1> HIDE DEF f, g
<1>3. SumFunction(g) = SumFunction(f) + g[t]
  BY <1>2, TotalWithOneMore
<1> QED
  BY <1>2, <1>3 DEF SumOfAmounts, f, g

LEMMA AmountsOfNone == SumOfAmounts({}) = 0
<1> DEFINE f == [t \in {} |-> Amount(t)]
<1>1. DOMAIN f = {}
  OBVIOUS
<1> HIDE DEF f
<1>2. SumFunction(f) = 0
  BY <1>1, TotalOfNone
<1> QED
  BY <1>2 DEF SumOfAmounts, f

\* What RecordsBoundBalances says of one account.
Bounded(d) ==
  LET explained == opened[d] + SumOfAmounts(In(d)) - SumOfAmounts(OutToOthers(d))
      rounded == Cardinality(SubCent(d))
  IN  balance[d] \in explained - rounded .. explained + rounded

\* The other completed transfers of an account are where they were.
LEMMA SameBounds ==
  ASSUME NEW d, Completed' = Completed, req' = req,
         opened'[d] = opened[d], balance'[d] = balance[d], Bounded(d)
  PROVE  Bounded(d)'
<1>1. \A u : From(u)' = From(u) /\ To(u)' = To(u) /\ Amount(u)' = Amount(u)
  BY DEF From, To, Amount
<1>2. In(d)' = In(d) /\ OutToOthers(d)' = OutToOthers(d) /\ SubCent(d)' = SubCent(d)
  BY <1>1 DEF In, OutToOthers, SubCent
<1>3. \A S : SumOfAmounts(S)' = SumOfAmounts(S)
  BY <1>1 DEF SumOfAmounts
<1> QED
  BY <1>2, <1>3 DEF Bounded

LEMMA RecordsOfOthers ==
  ASSUME RecordsInv, Completed' = Completed, UNCHANGED <<open, opened, balance, req>>
  PROVE  RecordsInv'
<1>1. \A u : From(u)' = From(u) /\ To(u)' = To(u)
  BY DEF From, To
<1>2. \A d \in open : Bounded(d)'
  BY SameBounds DEF RecordsInv, RecordsBoundBalances, Bounded
<1> QED
  BY <1>1, <1>2 DEF RecordsInv, RecordsBoundBalances, Bounded

\* Opening an account: no transfer on record names it.
LEMMA OpensRecords ==
  ASSUME TypeOK, RecordsInv, NEW a \in Accounts, AccountOpens(a),
         opened'[a] \in Int, opened' = [opened EXCEPT ![a] = opened'[a]], req' = req
  PROVE  RecordsInv'
<1>1. /\ Completed' = Completed /\ open' = open \cup {a} /\ a \notin open
      /\ balance' = [balance EXCEPT ![a] = opened'[a]]
  BY DEF AccountOpens, Completed
<1>2. \A u : From(u)' = From(u) /\ To(u)' = To(u) /\ Amount(u)' = Amount(u)
  BY DEF From, To, Amount
<1>3. ASSUME NEW d \in open PROVE Bounded(d)'
  <2>1. opened'[d] = opened[d] /\ balance'[d] = balance[d]
    BY <1>1 DEF TypeOK
  <2>2. Bounded(d)
    BY DEF RecordsInv, RecordsBoundBalances, Bounded
  <2> QED
    BY <1>1, <2>1, <2>2, SameBounds
<1>4. Bounded(a)'
  <2>1. In(a)' = {} /\ OutToOthers(a)' = {} /\ SubCent(a)' = {}
    BY <1>1, <1>2 DEF RecordsInv, In, OutToOthers, SubCent
  <2>2. SumOfAmounts({})' = 0
    <3>1. SumOfAmounts({})' = SumOfAmounts({})
      BY <1>2 DEF SumOfAmounts
    <3> QED
      BY <3>1, AmountsOfNone
  <2>3. balance'[a] = opened'[a]
    BY <1>1 DEF TypeOK
  <2>4. Cardinality({}) = 0
    BY FS_EmptySet
  <2> QED
    BY <2>1, <2>2, <2>3, <2>4 DEF Bounded
<1> QED
  BY <1>1, <1>2, <1>3, <1>4 DEF RecordsInv, RecordsBoundBalances, Bounded

\* A completed transfer is one more into its destination and, unless that is
\* its source, one more out of it; what the two balances change by is its
\* amount, or half a cent beside it.
LEMMA MovesRecords ==
  ASSUME TypeOK, WholeBalances, RecordsInv, NEW t \in Transfers, Moves(t),
         UNCHANGED <<opened, req>>
  PROVE  RecordsInv'
<1>1. /\ Completed' = Completed \cup {t} /\ t \notin Completed
      /\ open' = open /\ From(t) \in open /\ To(t) \in open
  BY DEF Moves, Completed, TypeOK
<1>2. /\ \A u : From(u)' = From(u)
      /\ \A u : To(u)' = To(u)
      /\ \A u : Amount(u)' = Amount(u)
  BY DEF From, To, Amount
<1>3. \A S : SumOfAmounts(S)' = SumOfAmounts(S)
  BY <1>2 DEF SumOfAmounts
<1>4. PICK debited \in Column(balance[From(t)] - Amount(t)),
           credited \in Column(balance[To(t)] + Amount(t)) :
        balance' = [balance EXCEPT ![From(t)] = debited, ![To(t)] = credited]
  BY DEF Moves
<1> DEFINE odd == Amount(t) % 2
<1>5. /\ From(t) \in Ids /\ To(t) \in Ids /\ Amount(t) \in Int
      /\ balance[From(t)] \in Int /\ balance[To(t)] \in Int
      /\ balance[From(t)] % 2 = 0 /\ balance[To(t)] % 2 = 0
  BY RequestTypes DEF TypeOK, WholeBalances
<1>6. odd \in {0, 1}
  BY <1>5
<1>7. /\ debited \in Int
      /\ balance[From(t)] - Amount(t) - odd <= debited
      /\ debited <= balance[From(t)] - Amount(t) + odd
  <2>1. balance[From(t)] - Amount(t) \in Int
    BY <1>5
  <2> QED
    BY <1>5, <2>1, ColumnTypes, RoundedByTheAmount
<1>8. /\ credited \in Int
      /\ balance[To(t)] + Amount(t) - odd <= credited
      /\ credited <= balance[To(t)] + Amount(t) + odd
  <2>1. balance[To(t)] + Amount(t) \in Int
    BY <1>5
  <2> QED
    BY <1>5, <2>1, ColumnTypes, RoundedByTheAmount
<1>9. ASSUME NEW d \in open PROVE Bounded(d)'
  <2> DEFINE in == In(d)
             out == OutToOthers(d)
             sub == SubCent(d)
  <2>1. /\ in \in SUBSET Transfers /\ out \in SUBSET Transfers
        /\ IsFiniteSet(in) /\ IsFiniteSet(out) /\ IsFiniteSet(sub)
        /\ t \notin in /\ t \notin out /\ t \notin sub
    BY <1>1, FS_Subset DEF Completed, RecordsInv, In, OutToOthers, SubCent
  <2>2. d \in Ids /\ balance[d] \in Int /\ opened[d] \in Int /\ opened'[d] = opened[d]
    BY DEF TypeOK
  <2>3. /\ In(d)' = IF To(t) = d THEN in \cup {t} ELSE in
        /\ OutToOthers(d)' = IF From(t) = d /\ To(t) # d THEN out \cup {t} ELSE out
        /\ SubCent(d)' = IF d \in {From(t), To(t)} /\ odd = 1 THEN sub \cup {t} ELSE sub
    BY <1>1, <1>2 DEF In, OutToOthers, SubCent
  <2>4. balance'[d] = IF d = To(t) THEN credited
                      ELSE IF d = From(t) THEN debited
                      ELSE balance[d]
    BY <1>4, <1>5, <2>2 DEF TypeOK
  <2> HIDE DEF in, out, sub
  <2>5. SumOfAmounts(in) \in Int /\ SumOfAmounts(out) \in Int
    BY <2>1, AmountsOfFinite
  <2>6. /\ SumOfAmounts(in \cup {t}) = SumOfAmounts(in) + Amount(t)
        /\ SumOfAmounts(out \cup {t}) = SumOfAmounts(out) + Amount(t)
    BY <2>1, AmountsWithOneMore
  <2>7. /\ Cardinality(sub) \in Int
        /\ Cardinality(sub \cup {t}) = Cardinality(sub) + 1
    <3>1. Cardinality(sub) \in Nat
      BY <2>1, FS_CardinalityType
    <3>2. Cardinality(sub \cup {t}) = Cardinality(sub) + 1
      BY <2>1, FS_AddElement
    <3> QED
      BY <3>1, <3>2
  <2>8. /\ balance[d] <= opened[d] + SumOfAmounts(in) - SumOfAmounts(out) + Cardinality(sub)
        /\ opened[d] + SumOfAmounts(in) - SumOfAmounts(out) - Cardinality(sub) <= balance[d]
    <3>1. Bounded(d)
      BY DEF RecordsInv, RecordsBoundBalances, Bounded
    <3>2. /\ balance[d] <= opened[d] + SumOfAmounts(In(d)) - SumOfAmounts(OutToOthers(d))
                           + Cardinality(SubCent(d))
          /\ opened[d] + SumOfAmounts(In(d)) - SumOfAmounts(OutToOthers(d))
               - Cardinality(SubCent(d)) <= balance[d]
      BY <2>2, <2>5, <2>7, <3>1 DEF Bounded, in, out, sub
    <3> QED
      BY <3>2 DEF in, out, sub
  <2> DEFINE ins == SumOfAmounts(In(d))'
             outs == SumOfAmounts(OutToOthers(d))'
             subs == Cardinality(SubCent(d))'
  <2>9. /\ ins = IF d = To(t) THEN SumOfAmounts(in) + Amount(t) ELSE SumOfAmounts(in)
        /\ outs = IF d = From(t) /\ d # To(t) THEN SumOfAmounts(out) + Amount(t)
                                              ELSE SumOfAmounts(out)
    BY <1>3, <2>3, <2>6
  <2>10. subs = IF d \in {From(t), To(t)} THEN Cardinality(sub) + odd
                                          ELSE Cardinality(sub)
    BY <1>5, <1>6, <2>3, <2>7
  <2> HIDE DEF ins, outs, subs, odd
  <2>11. /\ balance'[d] \in Int /\ ins \in Int /\ outs \in Int /\ subs \in Int
         /\ opened[d] + ins - outs - subs <= balance'[d]
         /\ balance'[d] <= opened[d] + ins - outs + subs
    <3>1. CASE d = To(t)
      BY <1>5, <1>6, <1>8, <2>2, <2>4, <2>5, <2>7, <2>8, <2>9, <2>10, <3>1
    <3>2. CASE d = From(t) /\ d # To(t)
      BY <1>5, <1>6, <1>7, <2>2, <2>4, <2>5, <2>7, <2>8, <2>9, <2>10, <3>2
    <3>3. CASE d \notin {From(t), To(t)}
      BY <2>2, <2>4, <2>5, <2>7, <2>8, <2>9, <2>10, <3>3
    <3> QED
      BY <3>1, <3>2, <3>3
  <2> QED
    BY <2>2, <2>11 DEF Bounded, ins, outs, subs
<1>10. IsFiniteSet(Completed)'
  BY <1>1, FS_AddElement DEF RecordsInv
<1> QED
  BY <1>1, <1>2, <1>9, <1>10 DEF RecordsInv, RecordsBoundBalances, Bounded

LEMMA StepRecords ==
  ASSUME TablesInv, IInv, RecordsInv, [VariantNext]_variantVars
  PROVE  RecordsInv'
<1>1. TypeOK /\ WholeBalances
  BY DEF IInv, TablesInv
<1>2. CASE Keeps /\ UNCHANGED <<opened, req>>
  BY <1>2, RecordsOfOthers DEF Keeps, Completed
<1>3. ASSUME NEW a \in Accounts, AccountOpens(a), opened'[a] \in Int,
             opened' = [opened EXCEPT ![a] = opened'[a]], req' = req
      PROVE  RecordsInv'
  BY <1>1, <1>3, OpensRecords
<1>4. ASSUME NEW t \in Transfers, Moves(t), UNCHANGED <<opened, req>>
      PROVE  RecordsInv'
  BY <1>1, <1>4, MovesRecords
<1>5. ASSUME NEW t \in Transfers, ReadsSource(t), UNCHANGED <<opened, req>>
      PROVE  RecordsInv'
  BY <1>5, RecordsOfOthers DEF ReadsSource, Completed
<1>6. ASSUME NEW t \in Transfers, Declines(t), UNCHANGED <<opened, req>>
      PROVE  RecordsInv'
  <2>1. Completed' = Completed
    BY <1>1, <1>6 DEF Declines, Completed, TypeOK
  <2> QED
    BY <1>6, <2>1, RecordsOfOthers DEF Declines
<1> QED
  BY <1>2, <1>3, <1>4, <1>5, <1>6, StepEffect DEF Effect

\* In all five variants and for every request they accept, self-transfers and
\* parts of a cent included, the completed transfers on record bound every
\* balance: beyond the credits of an account's transfers to itself and half a
\* cent for each of its transfers of a part of a cent, no interleaving, failed
\* statement or death makes or destroys money.
THEOREM BalancesBounded == VariantSpec => []RecordsBoundBalances
<1>1. IInv /\ TablesInv /\ [VariantNext]_variantVars => TablesInv'
  BY StepEffect
<1>2. IInv /\ TablesInv /\ RecordsInv /\ [VariantNext]_variantVars => RecordsInv'
  BY StepRecords
<1>3. RecordsInv => RecordsBoundBalances
  BY DEF RecordsInv
<1> QED
  BY <1>1, <1>2, <1>3, VariantInvariance, TablesInit, InitRecords, PTL DEF VariantSpec

=============================================================================
