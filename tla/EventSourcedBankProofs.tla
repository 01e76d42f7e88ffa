----------------------- MODULE EventSourcedBankProofs -----------------------
(***************************************************************************)
(* Proofs about the event-sourced bank, for any number of accounts,        *)
(* transfers, events and snapshots: type correctness, the safety of the    *)
(* money and of the snapshots, and which transfer wrote which row; that    *)
(* money is conserved, that a loaded balance is the sum of its events and  *)
(* that a listed balance differs from the stream by exactly the            *)
(* projections still to run; that a rebuild restores what no handler works *)
(* on; and that every step of the handlers is a step of the ledger or      *)
(* leaves the ledger alone.                                                *)
(***************************************************************************)
EXTENDS ReadModelRebuild, EventSourcedLedger, TotalsProofs

-----------------------------------------------------------------------------
(* Streams *)

Kinds == {"Created", "Debited", "Credited"}
Authors == Transfers \cup {NoTransfer}

LEMMA BalanceIsInt ==
  ASSUME NEW stream \in Seq(Row)
  PROVE  /\ Len(stream) \in Nat
         /\ \A v \in 0 .. Len(stream) : BalanceAt(stream, v) \in Int
         /\ FinalBalance(stream) \in Int
<1>1. Len(stream) \in Nat
  OBVIOUS
<1>2. ASSUME NEW v \in 0 .. Len(stream)
      PROVE  BalanceAt(stream, v) \in Int
  <2>1. CASE v = 0
    BY <2>1 DEF BalanceAt
  <2>2. CASE v # 0
    <3>1. v \in 1 .. Len(stream)
      BY <1>1, <2>2
    <3>2. stream[v] \in Row
      BY <3>1
    <3>3. stream[v].balance \in Int
      BY <3>2 DEF Row
    <3>4. QED
      BY <2>2, <3>3 DEF BalanceAt
  <2>3. QED
    BY <2>1, <2>2
<1>3. QED
  BY <1>1, <1>2 DEF FinalBalance

\* Appending an event keeps the earlier rows, and the new row carries what
\* apply makes of the balance so far.
LEMMA AppendEventRows ==
  ASSUME NEW stream \in Seq(Row), NEW kind \in Kinds, NEW amount \in Int,
         NEW by \in Authors
  PROVE  /\ AppendEvent(stream, kind, amount, by) \in Seq(Row)
         /\ Len(AppendEvent(stream, kind, amount, by)) = Len(stream) + 1
         /\ \A v \in 1 .. Len(stream) :
              AppendEvent(stream, kind, amount, by)[v] = stream[v]
         /\ AppendEvent(stream, kind, amount, by)[Len(stream) + 1].kind = kind
         /\ AppendEvent(stream, kind, amount, by)[Len(stream) + 1].by = by
         /\ AppendEvent(stream, kind, amount, by)[Len(stream) + 1].amount = amount
         /\ AppendEvent(stream, kind, amount, by)[Len(stream) + 1].balance
              = Apply(FinalBalance(stream), kind, amount)
<1>1. FinalBalance(stream) \in Int
  BY BalanceIsInt
<1>2. Apply(FinalBalance(stream), kind, amount) \in Int
  BY <1>1 DEF Apply, Kinds
<1> DEFINE row == [kind |-> kind, amount |-> amount, by |-> by,
                   balance |-> Apply(FinalBalance(stream), kind, amount)]
<1>3. row \in Row
  BY <1>2 DEF Row, Kinds, Authors
<1>4. AppendEvent(stream, kind, amount, by) = Append(stream, row)
  BY DEF AppendEvent
<1>5. /\ row.kind = kind /\ row.by = by /\ row.amount = amount
      /\ row.balance = Apply(FinalBalance(stream), kind, amount)
  OBVIOUS
<1> HIDE DEF row
<1>6. /\ Append(stream, row) \in Seq(Row)
      /\ Len(Append(stream, row)) = Len(stream) + 1
      /\ \A v \in 1 .. Len(stream) : Append(stream, row)[v] = stream[v]
      /\ Append(stream, row)[Len(stream) + 1] = row
  BY <1>3
<1>7. QED
  BY <1>4, <1>5, <1>6

\* What was the replay of a prefix stays it when the stream grows.
LEMMA ReplaySurvivesAppend ==
  ASSUME NEW stream \in Seq(Row), NEW kind \in Kinds, NEW amount \in Int,
         NEW by \in Authors, NEW agg \in Aggregate, IsReplay(stream, agg)
  PROVE  IsReplay(AppendEvent(stream, kind, amount, by), agg)
<1> DEFINE s == AppendEvent(stream, kind, amount, by)
<1>1. /\ Len(s) = Len(stream) + 1
      /\ \A v \in 1 .. Len(stream) : s[v] = stream[v]
  BY AppendEventRows
<1> HIDE DEF s
<1>2. IsReplay(s, agg)
  BY <1>1 DEF IsReplay, BalanceAt, Aggregate
<1>3. QED
  BY <1>2 DEF s

\* Replaying the newer events on top of the replay of a prefix gives the
\* replay of the whole stream.
LEMMA ReplayIsWhole ==
  ASSUME NEW stream \in Seq(Row), NEW base \in Aggregate, IsReplay(stream, base)
  PROVE  /\ Replay(stream, base) = [version |-> Len(stream),
                                    balance |-> FinalBalance(stream)]
         /\ Replay(stream, base) \in Aggregate
         /\ IsReplay(stream, Replay(stream, base))
<1>1. FinalBalance(stream) \in Int
  BY BalanceIsInt
<1>2. BalanceAt(stream, base.version) \in Int
  BY BalanceIsInt DEF IsReplay
<1>3. base.version + (Len(stream) - base.version) = Len(stream)
  BY DEF Aggregate
<1>4. base.balance + (FinalBalance(stream) - BalanceAt(stream, base.version))
        = FinalBalance(stream)
  BY <1>1, <1>2 DEF IsReplay, Aggregate
<1>5. Replay(stream, base) = [version |-> Len(stream),
                              balance |-> FinalBalance(stream)]
  BY <1>3, <1>4 DEF Replay
<1>6. QED
  BY <1>1, <1>5 DEF Aggregate, IsReplay, FinalBalance

LEMMA EmptyIsReplay ==
  ASSUME NEW stream \in Seq(Row)
  PROVE  Empty \in Aggregate /\ IsReplay(stream, Empty)
BY DEF Empty, Aggregate, IsReplay, BalanceAt

-----------------------------------------------------------------------------
(* The inductive invariant *)

USE AccountsAssumption, RequestsAssumption, OpeningBalancesAssumption

\* Every prefix replay of every stream is one of the next streams too.
Grows == \A a \in Ids : \A agg \in Aggregate :
           IsReplay(log[a], agg) => IsReplay(log'[a], agg)

LEMMA RequestTypes ==
  ASSUME TypeOK, NEW t \in Transfers
  PROVE  From(t) \in Ids /\ To(t) \in Ids /\ Amount(t) \in Int
BY DEF TypeOK, From, To, Amount, Request

LEMMA HeldTypes ==
  ASSUME TypeOK, NEW t \in Transfers
  PROVE  /\ held[t].snapshot \in Aggregate
         /\ held[t].source \in Aggregate
         /\ held[t].dest \in Aggregate
BY DEF TypeOK

LEMMA InitInv == Init => IInv
<1> SUFFICES ASSUME Init PROVE IInv
  OBVIOUS
<1>1. Empty \in Aggregate
  BY DEF Empty, Aggregate
<1>2. TypeOK
  BY <1>1 DEF Init, TypeOK, Stages, Answered
<1>3. Existing
  BY DEF Init, Existing
<1>4. NoOverdraft
  BY DEF Init, NoOverdraft, Version
<1>5. \A a \in Ids : IsReplay(log[a], Empty)
  BY <1>2, EmptyIsReplay DEF TypeOK
<1>6. SnapshotIsReplay
  BY <1>5 DEF Init, SnapshotIsReplay
<1>7. ASSUME NEW t \in Transfers PROVE HandlerOK(t)
  <2>1. From(t) \in Ids /\ To(t) \in Ids
    BY <1>2, RequestTypes
  <2>2. /\ held[t] = [snapshot |-> Empty, source |-> Empty, dest |-> Empty]
        /\ pc[t] = "idle" /\ transferLog[t] = "none"
    BY DEF Init
  <2>3. QED
    BY <1>5, <2>1, <2>2 DEF HandlerOK
<1>8. QED
  BY <1>2, <1>3, <1>4, <1>6, <1>7 DEF IInv

\* A handler that does not move keeps its guarantees while streams grow.
LEMMA OtherHandler ==
  ASSUME TypeOK, Grows, NEW t \in Transfers, HandlerOK(t), req' = req,
         pc'[t] = pc[t], held'[t] = held[t], transferLog'[t] = transferLog[t]
  PROVE  HandlerOK(t)'
<1>1. From(t)' = From(t) /\ To(t)' = To(t) /\ Amount(t)' = Amount(t)
  BY DEF From, To, Amount
<1>2. \A agg \in Aggregate :
        /\ IsReplay(log[From(t)], agg) => IsReplay(log'[From(t)], agg)
        /\ IsReplay(log[To(t)], agg) => IsReplay(log'[To(t)], agg)
  BY RequestTypes DEF Grows
<1>3. QED
  BY <1>1, <1>2, HeldTypes DEF HandlerOK

\* A step that leaves the events and the snapshots alone.
LEMMA SameTables ==
  ASSUME IInv, log' = log, snap' = snap, opening' = opening
  PROVE  Grows /\ Existing' /\ NoOverdraft' /\ SnapshotIsReplay'
BY DEF IInv, Grows, Existing, NoOverdraft, SnapshotIsReplay, Version

\* A step of one handler: what remains to be shown of it.
LEMMA HandlerStep ==
  ASSUME IInv, NEW t \in Transfers, TypeOK', Grows, req' = req,
         \A u \in Transfers \ {t} : /\ pc'[u] = pc[u]
                                    /\ held'[u] = held[u]
                                    /\ transferLog'[u] = transferLog[u],
         HandlerOK(t)'
  PROVE  \A u \in Transfers : HandlerOK(u)'
<1>1. ASSUME NEW u \in Transfers, u # t PROVE HandlerOK(u)'
  BY <1>1, OtherHandler DEF IInv
<1>2. QED
  BY <1>1

LEMMA ReceiveInv ==
  ASSUME IInv, NEW t \in Transfers, Receive(t)
  PROVE  IInv'
<1>1. TypeOK'
  BY DEF IInv, TypeOK, Receive, Goto, Stages, readModels
<1>2. Grows /\ Existing' /\ NoOverdraft' /\ SnapshotIsReplay'
  BY SameTables DEF Receive
<1>3. HandlerOK(t)'
  BY DEF IInv, TypeOK, HandlerOK, Receive, Goto, BeforeAppend, From, To, Amount
<1>4. QED
  BY <1>1, <1>2, <1>3, HandlerStep DEF IInv, TypeOK, Receive, Goto

LEMMA LoadSourceSnapshotInv ==
  ASSUME IInv, NEW t \in Transfers, LoadSourceSnapshot(t)
  PROVE  IInv'
<1>1. TypeOK'
  BY RequestTypes DEF IInv, TypeOK, LoadSourceSnapshot, Goto, Stages, readModels
<1>2. Grows /\ Existing' /\ NoOverdraft' /\ SnapshotIsReplay'
  BY SameTables DEF LoadSourceSnapshot
<1>3. HandlerOK(t)'
  <2>1. IsReplay(log[From(t)], snap[From(t)])
    BY RequestTypes DEF IInv, SnapshotIsReplay
  <2>2. QED
    BY <2>1 DEF IInv, TypeOK, HandlerOK, LoadSourceSnapshot, Goto, BeforeAppend,
                From, To, Amount
<1>4. QED
  BY <1>1, <1>2, <1>3, HandlerStep DEF IInv, TypeOK, LoadSourceSnapshot, Goto

LEMMA LoadSourceEventsInv ==
  ASSUME IInv, NEW t \in Transfers, LoadSourceEvents(t)
  PROVE  IInv'
<1> DEFINE stream == log[From(t)]
           base == held[t].snapshot
           loaded == Replay(stream, base)
<1>1. /\ stream \in Seq(Row)
      /\ base \in Aggregate
      /\ IsReplay(stream, base)
  BY RequestTypes, HeldTypes DEF IInv, TypeOK, HandlerOK, LoadSourceEvents
<1>2. /\ loaded \in Aggregate
      /\ IsReplay(stream, loaded)
      /\ loaded.version = Len(stream)
  BY <1>1, ReplayIsWhole
<1>3. ~Missing(stream, base) => loaded.version > 0
  <2>1. stream = <<>> => base = Empty
    BY <1>1 DEF IsReplay, Aggregate, Empty, BalanceAt
  <2>2. QED
    BY <1>1, <1>2, <2>1 DEF Missing
<1>4. \/ held' = held /\ pc' = [pc EXCEPT ![t] = "notFound"]
      \/ /\ loaded.version > 0
         /\ held' = [held EXCEPT ![t].source = loaded]
         /\ pc' = [pc EXCEPT ![t] = "destSnapshot"]
  BY <1>3 DEF LoadSourceEvents, Goto
<1>5. Grows /\ Existing' /\ NoOverdraft' /\ SnapshotIsReplay'
  BY SameTables DEF LoadSourceEvents
<1> HIDE DEF loaded
<1>6. TypeOK'
  <2>1. held' \in [Transfers ->
                  [snapshot : Aggregate, source : Aggregate, dest : Aggregate]]
    <3>1. [held EXCEPT ![t].source = loaded] \in [Transfers ->
            [snapshot : Aggregate, source : Aggregate, dest : Aggregate]]
      BY <1>2 DEF IInv, TypeOK
    <3>2. QED
      BY <1>4, <3>1 DEF IInv, TypeOK
  <2>2. pc' \in [Transfers -> Stages]
    BY <1>4 DEF IInv, TypeOK, Stages, Answered
  <2>3. QED
    BY <2>1, <2>2 DEF IInv, TypeOK, LoadSourceEvents, readModels
<1>7. HandlerOK(t)'
  <2>1. /\ From(t)' = From(t) /\ To(t)' = To(t) /\ Amount(t)' = Amount(t)
        /\ log' = log /\ transferLog' = transferLog
    BY DEF LoadSourceEvents, From, To, Amount
  <2>2. HandlerOK(t) /\ pc[t] = "sourceEvents"
    BY DEF IInv, LoadSourceEvents
  <2>3. CASE held' = held /\ pc' = [pc EXCEPT ![t] = "notFound"]
    BY <2>1, <2>2, <2>3 DEF IInv, TypeOK, HandlerOK, BeforeAppend
  <2>4. CASE /\ loaded.version > 0
             /\ held' = [held EXCEPT ![t].source = loaded]
             /\ pc' = [pc EXCEPT ![t] = "destSnapshot"]
    BY <1>2, <2>1, <2>2, <2>4 DEF IInv, TypeOK, HandlerOK, BeforeAppend
  <2>5. QED
    BY <1>4, <2>3, <2>4
<1>8. QED
  BY <1>4, <1>5, <1>6, <1>7, HandlerStep DEF IInv, TypeOK, LoadSourceEvents

LEMMA LoadDestSnapshotInv ==
  ASSUME IInv, NEW t \in Transfers, LoadDestSnapshot(t)
  PROVE  IInv'
<1>1. TypeOK'
  BY RequestTypes DEF IInv, TypeOK, LoadDestSnapshot, Goto, Stages, readModels
<1>2. Grows /\ Existing' /\ NoOverdraft' /\ SnapshotIsReplay'
  BY SameTables DEF LoadDestSnapshot
<1>3. HandlerOK(t)'
  <2>1. IsReplay(log[To(t)], snap[To(t)])
    BY RequestTypes DEF IInv, SnapshotIsReplay
  <2>2. QED
    BY <2>1 DEF IInv, TypeOK, HandlerOK, LoadDestSnapshot, Goto, BeforeAppend,
                From, To, Amount
<1>4. QED
  BY <1>1, <1>2, <1>3, HandlerStep DEF IInv, TypeOK, LoadDestSnapshot, Goto

LEMMA LoadDestEventsInv ==
  ASSUME IInv, NEW t \in Transfers, LoadDestEvents(t)
  PROVE  IInv'
<1> DEFINE stream == log[To(t)]
           base == held[t].snapshot
           loaded == Replay(stream, base)
<1>1. /\ stream \in Seq(Row)
      /\ base \in Aggregate
      /\ IsReplay(stream, base)
  BY RequestTypes, HeldTypes DEF IInv, TypeOK, HandlerOK, LoadDestEvents
<1>2. /\ loaded \in Aggregate
      /\ IsReplay(stream, loaded)
      /\ loaded.version = Len(stream)
  BY <1>1, ReplayIsWhole
<1>3. ~Missing(stream, base) => loaded.version > 0
  <2>1. stream = <<>> => base = Empty
    BY <1>1 DEF IsReplay, Aggregate, Empty, BalanceAt
  <2>2. QED
    BY <1>1, <1>2, <2>1 DEF Missing
<1>4. \/ held' = held /\ pc' = [pc EXCEPT ![t] = "notFound"]
      \/ /\ loaded.version > 0
         /\ held' = [held EXCEPT ![t].dest = loaded]
         /\ pc' = [pc EXCEPT ![t] =
                    IF held[t].source.balance < Amount(t) THEN "appendFailed"
                                                          ELSE "append"]
  BY <1>3 DEF LoadDestEvents, Goto
<1>5. Grows /\ Existing' /\ NoOverdraft' /\ SnapshotIsReplay'
  BY SameTables DEF LoadDestEvents
<1>6. held[t].source.balance \in Int /\ Amount(t) \in Int
  BY HeldTypes, RequestTypes DEF IInv, Aggregate
<1> HIDE DEF loaded
<1>7. TypeOK'
  <2>1. held' \in [Transfers ->
                  [snapshot : Aggregate, source : Aggregate, dest : Aggregate]]
    <3>1. [held EXCEPT ![t].dest = loaded] \in [Transfers ->
            [snapshot : Aggregate, source : Aggregate, dest : Aggregate]]
      BY <1>2 DEF IInv, TypeOK
    <3>2. QED
      BY <1>4, <3>1 DEF IInv, TypeOK
  <2>2. pc' \in [Transfers -> Stages]
    BY <1>4 DEF IInv, TypeOK, Stages, Answered
  <2>3. QED
    BY <2>1, <2>2 DEF IInv, TypeOK, LoadDestEvents, readModels
<1>8. HandlerOK(t)'
  <2>1. /\ From(t)' = From(t) /\ To(t)' = To(t) /\ Amount(t)' = Amount(t)
        /\ log' = log /\ transferLog' = transferLog
    BY DEF LoadDestEvents, From, To, Amount
  <2>2. HandlerOK(t) /\ pc[t] = "destEvents"
    BY DEF IInv, LoadDestEvents
  <2>3. CASE held' = held /\ pc' = [pc EXCEPT ![t] = "notFound"]
    BY <2>1, <2>2, <2>3 DEF IInv, TypeOK, HandlerOK, BeforeAppend
  <2>4. CASE /\ loaded.version > 0
             /\ held' = [held EXCEPT ![t].dest = loaded]
             /\ pc' = [pc EXCEPT ![t] =
                           IF held[t].source.balance < Amount(t) THEN "appendFailed"
                                                                 ELSE "append"]
    BY <1>2, <2>1, <2>2, <2>4, <1>6 DEF IInv, TypeOK, HandlerOK, BeforeAppend
  <2>5. QED
    BY <1>4, <2>3, <2>4
<1>9. QED
  BY <1>4, <1>5, <1>7, <1>8, HandlerStep DEF IInv, TypeOK, LoadDestEvents

LEMMA RejectConflictInv ==
  ASSUME IInv, NEW t \in Transfers, RejectConflict(t)
  PROVE  IInv'
<1>1. TypeOK'
  BY DEF IInv, TypeOK, RejectConflict, Goto, Stages, Answered, readModels
<1>2. Grows /\ Existing' /\ NoOverdraft' /\ SnapshotIsReplay'
  BY SameTables DEF RejectConflict
<1>3. HandlerOK(t)'
  BY DEF IInv, TypeOK, HandlerOK, RejectConflict, Goto, BeforeAppend, From, To, Amount, Answered
<1>4. QED
  BY <1>1, <1>2, <1>3, HandlerStep DEF IInv, TypeOK, RejectConflict, Goto

LEMMA AppendFailedInv ==
  ASSUME IInv, NEW t \in Transfers, AppendFailed(t)
  PROVE  IInv'
<1>1. TypeOK'
  BY DEF IInv, TypeOK, AppendFailed, Goto, Stages, Answered, readModels
<1>2. Grows /\ Existing' /\ NoOverdraft' /\ SnapshotIsReplay'
  BY SameTables DEF AppendFailed
<1>3. HandlerOK(t)'
  BY DEF IInv, TypeOK, HandlerOK, AppendFailed, Goto, BeforeAppend, From, To, Amount, Answered
<1>4. QED
  BY <1>1, <1>2, <1>3, HandlerStep DEF IInv, TypeOK, AppendFailed, Goto

LEMMA ProjectDebitInv ==
  ASSUME IInv, NEW t \in Transfers, ProjectDebit(t)
  PROVE  IInv'
<1>1. TypeOK'
  BY RequestTypes DEF IInv, TypeOK, ProjectDebit, Goto, Stages, Answered, readModels, AddToShown
<1>2. Grows /\ Existing' /\ NoOverdraft' /\ SnapshotIsReplay'
  BY SameTables DEF ProjectDebit
<1>3. HandlerOK(t)'
  BY DEF IInv, TypeOK, HandlerOK, ProjectDebit, Goto, BeforeAppend, From, To, Amount, AddToShown, Answered
<1>4. QED
  BY <1>1, <1>2, <1>3, HandlerStep DEF IInv, TypeOK, ProjectDebit, Goto

LEMMA ProjectCreditInv ==
  ASSUME IInv, NEW t \in Transfers, ProjectCredit(t)
  PROVE  IInv'
<1>1. TypeOK'
  BY RequestTypes DEF IInv, TypeOK, ProjectCredit, Goto, Stages, Answered, readModels, AddToShown
<1>2. Grows /\ Existing' /\ NoOverdraft' /\ SnapshotIsReplay'
  BY SameTables DEF ProjectCredit
<1>3. HandlerOK(t)'
  BY DEF IInv, TypeOK, HandlerOK, ProjectCredit, Goto, BeforeAppend, From, To, Amount, AddToShown, Answered
<1>4. QED
  BY <1>1, <1>2, <1>3, HandlerStep DEF IInv, TypeOK, ProjectCredit, Goto

LEMMA ProjectFailedInv ==
  ASSUME IInv, NEW t \in Transfers, ProjectFailed(t)
  PROVE  IInv'
<1>1. TypeOK'
  BY DEF IInv, TypeOK, ProjectFailed, Goto, Stages, Answered, readModels
<1>2. Grows /\ Existing' /\ NoOverdraft' /\ SnapshotIsReplay'
  BY SameTables DEF ProjectFailed
<1>3. HandlerOK(t)'
  BY DEF IInv, TypeOK, HandlerOK, ProjectFailed, Goto, BeforeAppend, From, To, Amount, Answered
<1>4. QED
  BY <1>1, <1>2, <1>3, HandlerStep DEF IInv, TypeOK, ProjectFailed, Goto

LEMMA ProjectCompletedInv ==
  ASSUME IInv, NEW t \in Transfers, ProjectCompleted(t)
  PROVE  IInv'
<1>1. TypeOK'
  BY DEF IInv, TypeOK, ProjectCompleted, Goto, Stages, Answered, readModels, GotoDestSnapshot
<1>2. Grows /\ Existing' /\ NoOverdraft' /\ SnapshotIsReplay'
  BY SameTables DEF ProjectCompleted
<1>3. HandlerOK(t)'
  BY DEF IInv, TypeOK, HandlerOK, ProjectCompleted, Goto, BeforeAppend, From, To, Amount, GotoDestSnapshot, Answered
<1>4. QED
  <2>1. \A u \in Transfers \ {t} : pc'[u] = pc[u]
    BY DEF IInv, TypeOK, ProjectCompleted, Goto, GotoDestSnapshot
  <2>2. \A u \in Transfers : held'[u] = held[u] /\ transferLog'[u] = transferLog[u]
    BY DEF ProjectCompleted
  <2>3. req' = req
    BY DEF ProjectCompleted
  <2>4. QED
    BY <1>1, <1>2, <1>3, <2>1, <2>2, <2>3, HandlerStep DEF IInv

LEMMA AbortInv ==
  ASSUME IInv, NEW t \in Transfers, Abort(t)
  PROVE  IInv'
<1>1. TypeOK'
  BY DEF IInv, TypeOK, Abort, Goto, Stages, Answered, readModels
<1>2. Grows /\ Existing' /\ NoOverdraft' /\ SnapshotIsReplay'
  BY SameTables DEF Abort
<1>3. HandlerOK(t)'
  BY DEF IInv, TypeOK, HandlerOK, Abort, Goto, BeforeAppend, From, To, Amount, Answered
<1>4. QED
  BY <1>1, <1>2, <1>3, HandlerStep DEF IInv, TypeOK, Abort, Goto

LEMMA SnapshotSourceInv ==
  ASSUME IInv, NEW t \in Transfers, SnapshotSource(t)
  PROVE  IInv'
<1>1. CASE pc[t] = "readSource"
  <2> DEFINE whole == Replay(log[From(t)], Empty)
  <2>1. whole \in Aggregate /\ IsReplay(log[From(t)], whole)
    <3>1. log[From(t)] \in Seq(Row)
      BY RequestTypes DEF IInv, TypeOK
    <3>2. QED
      BY <3>1, EmptyIsReplay, ReplayIsWhole
  <2>2. /\ held' = [held EXCEPT ![t].snapshot = whole]
        /\ pc' = [pc EXCEPT ![t] = "saveSource"]
        /\ UNCHANGED <<log, transferLog, snap, readModels, opening, req>>
    BY <1>1 DEF SnapshotSource, ReadForSnapshot, Goto
  <2> HIDE DEF whole
  <2>3. TypeOK'
    BY <2>1, <2>2 DEF IInv, TypeOK, Stages, readModels
  <2>4. Grows /\ Existing' /\ NoOverdraft' /\ SnapshotIsReplay'
    BY <2>2, SameTables
  <2>5. HandlerOK(t)'
    BY <1>1, <2>1, <2>2 DEF IInv, TypeOK, HandlerOK, BeforeAppend, From, To, Amount
  <2>6. QED
    BY <2>2, <2>3, <2>4, <2>5, HandlerStep DEF IInv, TypeOK
<1>2. CASE pc[t] = "saveSource"
  <2>1. PICK next \in {"readDest", "completed"} :
          /\ snap' = [snap EXCEPT ![From(t)] = held[t].snapshot]
          /\ pc' = [pc EXCEPT ![t] = next]
          /\ UNCHANGED <<log, transferLog, readModels, opening, req, held>>
    BY <1>2 DEF SnapshotSource, SaveSnapshot, Goto, GotoDestSnapshot
  <2>2. From(t) \in Ids /\ held[t].snapshot \in Aggregate
    BY RequestTypes, HeldTypes DEF IInv
  <2>3. TypeOK'
    BY <2>1, <2>2 DEF IInv, TypeOK, Stages, Answered, readModels
  <2>4. Grows /\ Existing' /\ NoOverdraft'
    BY <2>1 DEF IInv, Grows, Existing, NoOverdraft, Version
  <2>5. SnapshotIsReplay'
    <3>1. IsReplay(log[From(t)], held[t].snapshot)
      BY <1>2 DEF IInv, HandlerOK
    <3>2. QED
      BY <2>1, <2>2, <3>1 DEF IInv, TypeOK, SnapshotIsReplay
  <2>6. HandlerOK(t)'
    BY <1>2, <2>1 DEF IInv, TypeOK, HandlerOK, BeforeAppend, From, To, Amount
  <2>7. QED
    BY <2>1, <2>3, <2>4, <2>5, <2>6, HandlerStep DEF IInv, TypeOK
<1>3. QED
  BY <1>1, <1>2 DEF SnapshotSource

LEMMA SnapshotDestInv ==
  ASSUME IInv, NEW t \in Transfers, SnapshotDest(t)
  PROVE  IInv'
<1>1. CASE pc[t] = "readDest"
  <2> DEFINE whole == Replay(log[To(t)], Empty)
  <2>1. whole \in Aggregate /\ IsReplay(log[To(t)], whole)
    <3>1. log[To(t)] \in Seq(Row)
      BY RequestTypes DEF IInv, TypeOK
    <3>2. QED
      BY <3>1, EmptyIsReplay, ReplayIsWhole
  <2>2. /\ held' = [held EXCEPT ![t].snapshot = whole]
        /\ pc' = [pc EXCEPT ![t] = "saveDest"]
        /\ UNCHANGED <<log, transferLog, snap, readModels, opening, req>>
    BY <1>1 DEF SnapshotDest, ReadForSnapshot, Goto
  <2> HIDE DEF whole
  <2>3. TypeOK'
    BY <2>1, <2>2 DEF IInv, TypeOK, Stages, readModels
  <2>4. Grows /\ Existing' /\ NoOverdraft' /\ SnapshotIsReplay'
    BY <2>2, SameTables
  <2>5. HandlerOK(t)'
    BY <1>1, <2>1, <2>2 DEF IInv, TypeOK, HandlerOK, BeforeAppend, From, To, Amount
  <2>6. QED
    BY <2>2, <2>3, <2>4, <2>5, HandlerStep DEF IInv, TypeOK
<1>2. CASE pc[t] = "saveDest"
  <2>1. PICK next \in {"completed"} :
          /\ snap' = [snap EXCEPT ![To(t)] = held[t].snapshot]
          /\ pc' = [pc EXCEPT ![t] = next]
          /\ UNCHANGED <<log, transferLog, readModels, opening, req, held>>
    BY <1>2 DEF SnapshotDest, SaveSnapshot, Goto, GotoDestSnapshot
  <2>2. To(t) \in Ids /\ held[t].snapshot \in Aggregate
    BY RequestTypes, HeldTypes DEF IInv
  <2>3. TypeOK'
    BY <2>1, <2>2 DEF IInv, TypeOK, Stages, Answered, readModels
  <2>4. Grows /\ Existing' /\ NoOverdraft'
    BY <2>1 DEF IInv, Grows, Existing, NoOverdraft, Version
  <2>5. SnapshotIsReplay'
    <3>1. IsReplay(log[To(t)], held[t].snapshot)
      BY <1>2 DEF IInv, HandlerOK
    <3>2. QED
      BY <2>1, <2>2, <3>1 DEF IInv, TypeOK, SnapshotIsReplay
  <2>6. HandlerOK(t)'
    BY <1>2, <2>1 DEF IInv, TypeOK, HandlerOK, BeforeAppend, From, To, Amount
  <2>7. QED
    BY <2>1, <2>3, <2>4, <2>5, <2>6, HandlerStep DEF IInv, TypeOK
<1>3. QED
  BY <1>1, <1>2 DEF SnapshotDest

LEMMA ListAccountInv ==
  ASSUME IInv, NEW a \in Accounts, ListAccount(a)
  PROVE  IInv'
<1>1. log[a][1].amount \in Int
  <2>1. log[a] \in Seq(Row) /\ log[a] # <<>>
    BY DEF IInv, TypeOK, Existing, ListAccount
  <2>2. log[a][1] \in Row
    BY <2>1
  <2>3. QED
    BY <2>2 DEF Row
<1>2. TypeOK'
  BY <1>1 DEF IInv, TypeOK, ListAccount
<1>3. Grows /\ Existing' /\ NoOverdraft' /\ SnapshotIsReplay'
  BY DEF IInv, TypeOK, Grows, Existing, NoOverdraft, SnapshotIsReplay, Version,
         ListAccount
<1>4. \A t \in Transfers : HandlerOK(t)'
  BY <1>3, OtherHandler DEF IInv, ListAccount
<1>5. QED
  BY <1>2, <1>3, <1>4 DEF IInv

LEMMA AbortOpeningInv ==
  ASSUME IInv, NEW a \in Accounts, AbortOpening(a)
  PROVE  IInv'
<1>1. TypeOK'
  BY DEF IInv, TypeOK, AbortOpening, readModels
<1>2. Grows /\ Existing' /\ NoOverdraft' /\ SnapshotIsReplay'
  BY DEF IInv, TypeOK, Grows, Existing, NoOverdraft, SnapshotIsReplay, Version,
         AbortOpening
<1>3. \A t \in Transfers : HandlerOK(t)'
  BY <1>2, OtherHandler DEF IInv, AbortOpening
<1>4. QED
  BY <1>1, <1>2, <1>3 DEF IInv

LEMMA OpenAccountInv ==
  ASSUME IInv, NEW a \in Accounts, OpenAccount(a)
  PROVE  IInv'
<1>1. PICK balance \in OpeningBalances :
        /\ balance >= 0
        /\ log' = [log EXCEPT ![a] = AppendEvent(@, "Created", balance, NoTransfer)]
  BY DEF OpenAccount
<1> DEFINE new == AppendEvent(log[a], "Created", balance, NoTransfer)
<1>2. /\ a \in Ids
      /\ log[a] \in Seq(Row)
      /\ balance \in Int
      /\ "Created" \in Kinds /\ NoTransfer \in Authors
  BY DEF IInv, TypeOK, Kinds, Authors
<1>3. /\ new \in Seq(Row)
      /\ Len(new) = Len(log[a]) + 1
      /\ \A v \in 1 .. Len(log[a]) : new[v] = log[a][v]
      /\ new[Len(log[a]) + 1].balance = balance
  <2>1. Apply(FinalBalance(log[a]), "Created", balance) = balance
    BY DEF Apply
  <2>2. new[Len(log[a]) + 1].balance
          = Apply(FinalBalance(log[a]), "Created", balance)
    BY <1>2, AppendEventRows
  <2>3. QED
    BY <1>2, <2>1, <2>2, AppendEventRows
<1>4. \A agg \in Aggregate : IsReplay(log[a], agg) => IsReplay(new, agg)
  BY <1>2, ReplaySurvivesAppend
<1>5. log' = [log EXCEPT ![a] = new]
  BY <1>1, <1>2
<1> HIDE DEF new
<1>6. TypeOK'
  BY <1>2, <1>3, <1>5 DEF IInv, TypeOK, OpenAccount, readModels
<1>7. Grows
  BY <1>2, <1>4, <1>5 DEF IInv, TypeOK, Grows
<1>8. Existing'
  BY <1>2, <1>3, <1>5 DEF IInv, TypeOK, Existing, OpenAccount
<1>9. NoOverdraft'
  BY <1>1, <1>2, <1>3, <1>5 DEF IInv, TypeOK, NoOverdraft, Version
<1>10. SnapshotIsReplay'
  BY <1>7 DEF IInv, TypeOK, SnapshotIsReplay, Grows, OpenAccount
<1>11. \A t \in Transfers : HandlerOK(t)'
  BY <1>7, OtherHandler DEF IInv, OpenAccount
<1>12. QED
  BY <1>6, <1>8, <1>9, <1>10, <1>11 DEF IInv

\* The step that moves the money: the version check makes the aggregates the
\* handler holds those of the whole streams.
LEMMA AppendCompletedInv ==
  ASSUME IInv, NEW t \in Transfers, AppendCompleted(t)
  PROVE  IInv'
<1> DEFINE from == From(t)
           to == To(t)
           debited == AppendEvent(log[from], "Debited", Amount(t), t)
           credited == AppendEvent(log[to], "Credited", Amount(t), t)
<1>1. /\ from \in Ids /\ log[from] \in Seq(Row)
      /\ to \in Ids /\ log[to] \in Seq(Row)
      /\ Amount(t) \in Int /\ Amount(t) > 0
  BY RequestTypes DEF IInv, TypeOK, HandlerOK, AppendCompleted
<1>2. /\ held[t].source \in Aggregate /\ held[t].dest \in Aggregate
      /\ IsReplay(log[from], held[t].source)
      /\ IsReplay(log[to], held[t].dest)
      /\ held[t].source.balance >= Amount(t)
      /\ held[t].source.version > 0 /\ held[t].dest.version > 0
  BY HeldTypes DEF IInv, HandlerOK, AppendCompleted
<1>3. /\ held[t].source.version = Len(log[from])
      /\ held[t].dest.version = Len(log[to])
      /\ from # to
  BY <1>1, <1>2 DEF AppendCompleted, UniqueViolation, Version, IsReplay, Aggregate
<1>4. /\ FinalBalance(log[from]) >= Amount(t)
      /\ log[from] # <<>> /\ log[to] # <<>>
  BY <1>1, <1>2, <1>3 DEF IsReplay, FinalBalance
<1>5. FinalBalance(log[to]) >= 0
  <2>1. Len(log[to]) \in 1 .. Len(log[to])
    BY <1>1, <1>4
  <2>2. QED
    BY <1>1, <2>1 DEF IInv, NoOverdraft, FinalBalance, BalanceAt, Version
<1>6. /\ debited \in Seq(Row)
      /\ Len(debited) = Len(log[from]) + 1
      /\ \A v \in 1 .. Len(log[from]) : debited[v] = log[from][v]
      /\ debited[Len(log[from]) + 1].balance = FinalBalance(log[from]) - Amount(t)
  <2>1. /\ Apply(FinalBalance(log[from]), "Debited", Amount(t))
             = FinalBalance(log[from]) - Amount(t)
        /\ "Debited" \in Kinds /\ t \in Authors
    BY DEF Apply, Kinds, Authors
  <2>2. QED
    BY <1>1, <2>1, AppendEventRows
<1>7. /\ credited \in Seq(Row)
      /\ Len(credited) = Len(log[to]) + 1
      /\ \A v \in 1 .. Len(log[to]) : credited[v] = log[to][v]
      /\ credited[Len(log[to]) + 1].balance = FinalBalance(log[to]) + Amount(t)
  <2>1. /\ Apply(FinalBalance(log[to]), "Credited", Amount(t))
             = FinalBalance(log[to]) + Amount(t)
        /\ "Credited" \in Kinds /\ t \in Authors
    BY DEF Apply, Kinds, Authors
  <2>2. QED
    BY <1>1, <2>1, AppendEventRows
<1>8. /\ \A agg \in Aggregate : IsReplay(log[from], agg) => IsReplay(debited, agg)
      /\ \A agg \in Aggregate : IsReplay(log[to], agg) => IsReplay(credited, agg)
  BY <1>1, ReplaySurvivesAppend DEF Kinds, Authors
<1>9. /\ log' \in [Ids -> Seq(Row)]
      /\ log'[from] = debited /\ log'[to] = credited
      /\ \A a \in Ids \ {from, to} : log'[a] = log[a]
  BY <1>1, <1>3, <1>6, <1>7 DEF IInv, TypeOK, AppendCompleted
<1>10. /\ FinalBalance(log[from]) \in Int
       /\ FinalBalance(log[to]) \in Int
  BY <1>1, BalanceIsInt
<1> HIDE DEF debited, credited, from, to
<1>11. TypeOK'
  BY <1>9 DEF IInv, TypeOK, AppendCompleted, Goto, Stages, readModels
<1>12. Grows
  BY <1>8, <1>9 DEF Grows
<1>13. Existing'
  <2>1. ASSUME NEW a \in Ids
        PROVE  log'[a] # <<>> <=> log[a] # <<>>
    <3>1. debited # <<>> /\ credited # <<>>
      BY <1>1, <1>6, <1>7
    <3>2. QED
      BY <1>4, <1>9, <3>1
  <2>2. QED
    BY <2>1 DEF IInv, Existing, AppendCompleted
<1>14. NoOverdraft'
  <2>1. ASSUME NEW a \in Ids, NEW v \in 1 .. Len(log'[a])
        PROVE  log'[a][v].balance >= 0
    <3>1. CASE a = from
      BY <1>1, <1>4, <1>6, <1>9, <1>10, <3>1 DEF IInv, NoOverdraft, Version
    <3>2. CASE a = to
      <4>1. CASE v = Len(log[to]) + 1
        BY <1>1, <1>5, <1>7, <1>9, <1>10, <3>2, <4>1
      <4>2. CASE v # Len(log[to]) + 1
        <5>1. v \in 1 .. Len(log[to])
          BY <1>1, <1>7, <1>9, <3>2, <4>2
        <5>2. QED
          BY <1>1, <1>7, <1>9, <3>2, <5>1 DEF IInv, NoOverdraft, Version
      <4>3. QED
        BY <4>1, <4>2
    <3>3. CASE a \notin {from, to}
      BY <1>9, <3>3 DEF IInv, NoOverdraft, Version
    <3>4. QED
      BY <3>1, <3>2, <3>3
  <2>2. QED
    BY <2>1 DEF NoOverdraft, Version
<1>15. SnapshotIsReplay'
  BY <1>12 DEF IInv, TypeOK, SnapshotIsReplay, Grows, AppendCompleted
<1>16. HandlerOK(t)'
  <2>1. /\ held' = held /\ req' = req /\ pc'[t] = "projectDebit"
        /\ transferLog'[t] = "Completed"
    BY DEF IInv, TypeOK, AppendCompleted, Goto
  <2>2. /\ IsReplay(log'[from], held[t].source)
        /\ IsReplay(log'[to], held[t].dest)
    BY <1>1, <1>2, <1>12 DEF Grows
  <2>3. From(t)' = from /\ To(t)' = to /\ Amount(t)' = Amount(t)
    BY <2>1 DEF from, to, From, To, Amount
  <2>4. QED
    BY <1>1, <2>1, <2>2, <2>3 DEF HandlerOK, BeforeAppend
<1>17. QED
  BY <1>11, <1>12, <1>13, <1>14, <1>15, <1>16, HandlerStep
     DEF IInv, TypeOK, AppendCompleted, Goto

LEMMA StepInv == IInv /\ [Next]_vars => IInv'
<1> SUFFICES ASSUME IInv, [Next]_vars PROVE IInv'
  OBVIOUS
<1>1. ASSUME NEW a \in Accounts, OpenAccount(a) \/ ListAccount(a) \/ AbortOpening(a)
      PROVE  IInv'
  BY <1>1, OpenAccountInv, ListAccountInv, AbortOpeningInv
<1>2. ASSUME NEW t \in Transfers, Load(t) PROVE IInv'
  BY <1>2, LoadSourceSnapshotInv, LoadSourceEventsInv, LoadDestSnapshotInv,
     LoadDestEventsInv DEF Load
<1>3. ASSUME NEW t \in Transfers, Store(t) PROVE IInv'
  BY <1>3, RejectConflictInv, AppendCompletedInv, AppendFailedInv DEF Store
<1>4. ASSUME NEW t \in Transfers, Project(t) PROVE IInv'
  BY <1>4, ProjectDebitInv, ProjectCreditInv, ProjectCompletedInv,
     ProjectFailedInv DEF Project
<1>5. ASSUME NEW t \in Transfers, Receive(t) \/ Handle(t) \/ Abort(t) PROVE IInv'
  BY <1>2, <1>3, <1>4, <1>5, ReceiveInv, SnapshotSourceInv, SnapshotDestInv,
     AbortInv DEF Handle
<1>6. CASE UNCHANGED vars
  BY <1>6 DEF vars, readModels, IInv, TypeOK, Existing, NoOverdraft,
              SnapshotIsReplay, HandlerOK, Version, From, To, Amount
<1>7. QED
  BY <1>1, <1>5, <1>6 DEF Next

\* The handlers and the tables keep to IInv, whatever requests interleave and
\* wherever they are cut off: the theorems below are read off it.
THEOREM Invariance == Spec => []IInv
BY InitInv, StepInv, PTL DEF Spec

\* The tables and the handlers' variables always have their types.
THEOREM TypeCorrect == Spec => []TypeOK
<1>1. IInv => TypeOK
  BY DEF IInv
<1>2. QED
  BY <1>1, Invariance, PTL

\* No stream of any number of racing transfers has a prefix that overdraws
\* its account: the version check makes debit's stale decision safe.
THEOREM NeverOverdrawn == Spec => []NoOverdraft
<1>1. IInv => NoOverdraft
  BY DEF IInv
<1>2. QED
  BY <1>1, Invariance, PTL

\* A snapshot row is a replay of the prefix it names, and so is what every
\* handler builds from it, whoever else overwrites the row or appends.
THEOREM SnapshotsAreReplays == Spec => [](SnapshotIsReplay /\ LoadedIsReplay)
<1>1. IInv => SnapshotIsReplay /\ LoadedIsReplay
  BY DEF IInv, HandlerOK, LoadedIsReplay
<1>2. QED
  BY <1>1, Invariance, PTL

\* Only a transfer whose source really was short is recorded as failed.
THEOREM FailuresAreJustified == Spec => []FailedWasShort
<1>1. IInv => FailedWasShort
  <2> SUFFICES ASSUME IInv, NEW t \in Transfers, transferLog[t] = "Failed"
               PROVE  \E v \in 1 .. Version(From(t)) :
                        BalanceAt(log[From(t)], v) < Amount(t)
    BY DEF FailedWasShort
  <2>1. /\ held[t].source.version \in 1 .. Version(From(t))
        /\ BalanceAt(log[From(t)], held[t].source.version) < Amount(t)
    BY HeldTypes DEF IInv, HandlerOK, IsReplay, Version, Aggregate
  <2>2. QED
    BY <2>1
<1>2. QED
  BY <1>1, Invariance, PTL

-----------------------------------------------------------------------------
(* Which transfer wrote which row of the streams: a transfer is entered in   *)
(* full or not at all, and is refused only for another one's rows.           *)

Sides == {"Debited", "Credited"}

RowsIn(stream, t, side) ==
  {v \in 1 .. Len(stream) : stream[v].by = t /\ stream[v].kind = side}

\* The first row of a stream creates the account, a transfer wrote each of
\* the others.
Authored ==
  \A a \in Ids : \A v \in 1 .. Len(log[a]) :
    /\ v = 1 => log[a][v].by = NoTransfer /\ log[a][v].kind = "Created"
    /\ v > 1 => log[a][v].by \in Transfers /\ log[a][v].kind \in Sides

\* DoubleEntry and ConflictIsContention of one transfer.
Entry(t) ==
  IF transferLog[t] = "Completed"
    THEN /\ From(t) # To(t)
         /\ \E v \in 1 .. Len(log[From(t)]), w \in 1 .. Len(log[To(t)]) :
              /\ RowsIn(log[From(t)], t, "Debited") = {v}
              /\ RowsIn(log[To(t)], t, "Credited") = {w}
              /\ log[From(t)][v].amount = Amount(t)
              /\ log[To(t)][w].amount = Amount(t)
         /\ \A a \in Ids :
              /\ a # From(t) => RowsIn(log[a], t, "Debited") = {}
              /\ a # To(t) => RowsIn(log[a], t, "Credited") = {}
    ELSE \A a \in Ids : /\ RowsIn(log[a], t, "Debited") = {}
                        /\ RowsIn(log[a], t, "Credited") = {}

Contended(t) ==
  \/ From(t) = To(t)
  \/ \E u \in Transfers \ {t} :
       \/ \E v \in held[t].source.version + 1 .. Len(log[From(t)]) :
            log[From(t)][v].by = u
       \/ \E v \in held[t].dest.version + 1 .. Len(log[To(t)]) :
            log[To(t)][v].by = u

EntryInv ==
  /\ Authored
  /\ \A t \in Transfers : Entry(t)
  /\ \A t \in Transfers : pc[t] = "conflict" => Contended(t)

LEMMA EntryInvSuffices == EntryInv => DoubleEntry /\ ConflictIsContention
BY DEF EntryInv, Entry, RowsIn, Contended, DoubleEntry, ConflictIsContention,
       RowsOf, Version

-----------------------------------------------------------------------------

\* An appended row adds its own number to its author's rows of its kind.
LEMMA AppendedRows ==
  ASSUME NEW stream \in Seq(Row), NEW kind \in Kinds, NEW amount \in Int,
         NEW by \in Authors
  PROVE  \A t \in Transfers, side \in Sides :
    /\ by = t /\ kind = side =>
         RowsIn(AppendEvent(stream, kind, amount, by), t, side)
           = RowsIn(stream, t, side) \cup {Len(stream) + 1}
    /\ by # t \/ kind # side =>
         RowsIn(AppendEvent(stream, kind, amount, by), t, side)
           = RowsIn(stream, t, side)
<1> DEFINE s == AppendEvent(stream, kind, amount, by)
<1>1. Len(stream) \in Nat
  OBVIOUS
<1>2. /\ Len(s) = Len(stream) + 1
      /\ \A v \in 1 .. Len(stream) : s[v] = stream[v]
      /\ s[Len(stream) + 1].by = by /\ s[Len(stream) + 1].kind = kind
  BY AppendEventRows
<1> HIDE DEF s
<1>3. ASSUME NEW t \in Transfers, NEW side \in Sides
      PROVE  /\ by = t /\ kind = side =>
                  RowsIn(s, t, side) = RowsIn(stream, t, side) \cup {Len(stream) + 1}
             /\ by # t \/ kind # side => RowsIn(s, t, side) = RowsIn(stream, t, side)
  <2>1. by = t /\ kind = side =>
          RowsIn(s, t, side) = RowsIn(stream, t, side) \cup {Len(stream) + 1}
    BY <1>1, <1>2 DEF RowsIn
  <2>2. by # t \/ kind # side => RowsIn(s, t, side) = RowsIn(stream, t, side)
    BY <1>1, <1>2 DEF RowsIn
  <2> QED
    BY <2>1, <2>2
<1> QED
  BY <1>3 DEF s

\* Streams only grow.
Extends ==
  \A a \in Ids : /\ Len(log'[a]) \in Nat /\ Len(log'[a]) >= Len(log[a])
                 /\ \A v \in 1 .. Len(log[a]) : log'[a][v] = log[a][v]

\* The rows of transfer t are what they were.
SameRows(t) ==
  \A a \in Ids : \A side \in Sides :
    RowsIn(log'[a], t, side) = RowsIn(log[a], t, side)

LEMMA EntryKept ==
  ASSUME TypeOK, NEW t \in Transfers, Entry(t), req' = req,
         transferLog'[t] = "Completed" <=> transferLog[t] = "Completed",
         Extends, SameRows(t)
  PROVE  Entry(t)'
<1>1. From(t)' = From(t) /\ To(t)' = To(t) /\ Amount(t)' = Amount(t)
  BY DEF From, To, Amount
<1>2. From(t) \in Ids /\ To(t) \in Ids
  BY RequestTypes
<1>3. Len(log[From(t)]) \in Nat /\ Len(log[To(t)]) \in Nat
  BY <1>2 DEF TypeOK
<1>4. CASE transferLog[t] = "Completed"
  <2>1. PICK v \in 1 .. Len(log[From(t)]), w \in 1 .. Len(log[To(t)]) :
              /\ RowsIn(log[From(t)], t, "Debited") = {v}
              /\ RowsIn(log[To(t)], t, "Credited") = {w}
              /\ log[From(t)][v].amount = Amount(t)
              /\ log[To(t)][w].amount = Amount(t)
    BY <1>4 DEF Entry
  <2>2. v \in 1 .. Len(log'[From(t)]) /\ w \in 1 .. Len(log'[To(t)])
    BY <1>2, <1>3 DEF Extends
  <2>3. /\ RowsIn(log'[From(t)], t, "Debited") = {v}
        /\ RowsIn(log'[To(t)], t, "Credited") = {w}
        /\ log'[From(t)][v].amount = Amount(t)
        /\ log'[To(t)][w].amount = Amount(t)
    BY <1>2, <2>1 DEF Extends, SameRows, Sides
  <2>4. \A a \in Ids :
              /\ a # From(t) => RowsIn(log'[a], t, "Debited") = {}
              /\ a # To(t) => RowsIn(log'[a], t, "Credited") = {}
    BY <1>4 DEF Entry, SameRows, Sides
  <2> QED
    BY <1>1, <1>4, <2>2, <2>3, <2>4 DEF Entry
<1>5. CASE transferLog[t] # "Completed"
  BY <1>5 DEF Entry, SameRows, Sides
<1> QED
  BY <1>4, <1>5

LEMMA ContendedKept ==
  ASSUME TypeOK, NEW t \in Transfers, Contended(t), req' = req,
         held'[t] = held[t], Extends
  PROVE  Contended(t)'
<1>1. From(t)' = From(t) /\ To(t)' = To(t)
  BY DEF From, To
<1>2. From(t) \in Ids /\ To(t) \in Ids
  BY RequestTypes
<1>3. /\ Len(log[From(t)]) \in Nat /\ Len(log[To(t)]) \in Nat
      /\ held[t].source.version \in Nat /\ held[t].dest.version \in Nat
  <2>1. Len(log[From(t)]) \in Nat /\ Len(log[To(t)]) \in Nat
    BY <1>2 DEF TypeOK
  <2>2. held[t].source.version \in Nat /\ held[t].dest.version \in Nat
    BY HeldTypes DEF Aggregate
  <2> QED
    BY <2>1, <2>2
<1>4. /\ \A v \in held[t].source.version + 1 .. Len(log[From(t)]) :
           /\ v \in held[t].source.version + 1 .. Len(log'[From(t)])
           /\ log'[From(t)][v] = log[From(t)][v]
      /\ \A v \in held[t].dest.version + 1 .. Len(log[To(t)]) :
           /\ v \in held[t].dest.version + 1 .. Len(log'[To(t)])
           /\ log'[To(t)][v] = log[To(t)][v]
  BY <1>2, <1>3 DEF Extends
<1> QED
  BY <1>1, <1>4 DEF Contended

\* The steps that leave the streams alone, but for the refusal of a conflict.
LEMMA QuietStep ==
  ASSUME IInv, EntryInv, log' = log, req' = req, NEW t \in Transfers,
         \A u \in Transfers \ {t} : /\ pc'[u] = pc[u] /\ held'[u] = held[u]
                                    /\ transferLog'[u] = transferLog[u],
         pc'[t] # "conflict",
         transferLog'[t] = "Completed" <=> transferLog[t] = "Completed"
  PROVE  EntryInv'
<1>1. Extends /\ \A u \in Transfers : SameRows(u)
  BY DEF IInv, TypeOK, Extends, SameRows
<1>2. Authored'
  BY DEF EntryInv, Authored
<1>3. \A u \in Transfers : Entry(u)'
  BY <1>1, EntryKept DEF IInv, EntryInv
<1>4. ASSUME NEW u \in Transfers, pc'[u] = "conflict" PROVE Contended(u)'
  BY <1>1, <1>4, ContendedKept DEF IInv, EntryInv
<1> QED
  BY <1>2, <1>3, <1>4 DEF EntryInv

\* At a refused append some row above the loaded version is another's: the
\* transfer has no row of its own yet, and the first row is below.
LEMMA RejectConflictEntries ==
  ASSUME IInv, EntryInv, NEW t \in Transfers, RejectConflict(t)
  PROVE  EntryInv'
<1>1. Extends /\ \A u \in Transfers : SameRows(u)
  BY DEF IInv, TypeOK, Extends, SameRows, RejectConflict
<1>2. Authored' /\ \A u \in Transfers : Entry(u)'
  BY <1>1, EntryKept DEF IInv, EntryInv, Authored, RejectConflict
<1>3. ASSUME NEW u \in Transfers, u # t, pc'[u] = "conflict" PROVE Contended(u)'
  BY <1>1, <1>3, ContendedKept DEF IInv, TypeOK, EntryInv, RejectConflict, Goto
<1>4. Contended(t)
  <2>1. /\ From(t) \in Ids /\ To(t) \in Ids
        /\ transferLog[t] = "none" /\ UniqueViolation(t)
        /\ held[t].source.version \in Nat \ {0} /\ held[t].dest.version \in Nat \ {0}
    BY RequestTypes, HeldTypes
       DEF IInv, HandlerOK, RejectConflict, BeforeAppend, Aggregate
  <2>2. ASSUME NEW a \in Ids, NEW n \in Nat \ {0}, n < Len(log[a])
        PROVE  \E u \in Transfers \ {t} : \E v \in n + 1 .. Len(log[a]) :
                 log[a][v].by = u
    <3>1. Len(log[a]) \in Nat /\ Len(log[a]) \in n + 1 .. Len(log[a])
      BY <2>2 DEF IInv, TypeOK
    <3>2. /\ log[a][Len(log[a])].by \in Transfers
          /\ log[a][Len(log[a])].kind \in Sides
      BY <2>2, <3>1 DEF EntryInv, Authored
    <3>3. log[a][Len(log[a])].by # t
      BY <2>1, <2>2, <3>1, <3>2 DEF EntryInv, Entry, RowsIn, Sides
    <3> QED
      BY <3>1, <3>2, <3>3
  <2>3. CASE held[t].source.version < Len(log[From(t)])
    BY <2>1, <2>2, <2>3 DEF Contended
  <2>4. CASE held[t].dest.version < Len(log[To(t)])
    BY <2>1, <2>2, <2>4 DEF Contended
  <2>5. CASE From(t) = To(t)
    BY <2>5 DEF Contended
  <2> QED
    BY <2>1, <2>3, <2>4, <2>5 DEF UniqueViolation, Version
<1>5. Contended(t)'
  BY <1>1, <1>4, ContendedKept DEF IInv, RejectConflict
<1> QED
  BY <1>2, <1>3, <1>5 DEF EntryInv

LEMMA OpenAccountEntries ==
  ASSUME IInv, EntryInv, NEW a \in Accounts, OpenAccount(a)
  PROVE  EntryInv'
<1>1. PICK balance \in OpeningBalances :
        log' = [log EXCEPT ![a] = AppendEvent(@, "Created", balance, NoTransfer)]
  BY DEF OpenAccount
<1> DEFINE new == AppendEvent(log[a], "Created", balance, NoTransfer)
<1>2. /\ a \in Ids /\ log[a] \in Seq(Row) /\ balance \in Int
      /\ "Created" \in Kinds /\ NoTransfer \in Authors
  BY AccountsAssumption, OpeningBalancesAssumption
     DEF IInv, TypeOK, Kinds, Authors
<1>3. Len(log[a]) = 0
  <2>1. log[a] = <<>>
    BY <1>2 DEF IInv, Existing, OpenAccount
  <2> QED
    BY <2>1
<1>4. /\ Len(new) = 1 /\ new[1].by = NoTransfer /\ new[1].kind = "Created"
      /\ \A t \in Transfers, side \in Sides : RowsIn(new, t, side) = RowsIn(log[a], t, side)
  <2>1. \A side \in Sides : "Created" # side
    BY DEF Sides
  <2>2. \A t \in Transfers, side \in Sides : RowsIn(new, t, side) = RowsIn(log[a], t, side)
    BY <1>2, <2>1, AppendedRows
  <2>3. /\ Len(new) = Len(log[a]) + 1
        /\ new[Len(log[a]) + 1].by = NoTransfer
        /\ new[Len(log[a]) + 1].kind = "Created"
    <3>1. Len(new) = Len(log[a]) + 1
      BY <1>2, AppendEventRows
    <3>2. new[Len(log[a]) + 1].by = NoTransfer
      BY <1>2, AppendEventRows
    <3>3. new[Len(log[a]) + 1].kind = "Created"
      BY <1>2, AppendEventRows
    <3> QED
      BY <3>1, <3>2, <3>3
  <2> QED
    BY <1>3, <2>2, <2>3
<1>5. /\ log'[a] = new
      /\ \A b \in Ids \ {a} : log'[b] = log[b]
  BY <1>1, <1>2 DEF IInv, TypeOK
<1> HIDE DEF new
<1>6. Extends /\ \A t \in Transfers : SameRows(t)
  <2>1. \A b \in Ids : Len(log[b]) \in Nat
    BY DEF IInv, TypeOK
  <2>3. Extends
    BY <1>3, <1>4, <1>5, <2>1 DEF Extends
  <2>4. \A t \in Transfers : SameRows(t)
    BY <1>2, <1>4, <1>5 DEF SameRows
  <2> QED
    BY <2>3, <2>4
<1>7. Authored'
  BY <1>4, <1>5 DEF EntryInv, Authored
<1>8. \A t \in Transfers : Entry(t)'
  BY <1>6, EntryKept DEF IInv, EntryInv, OpenAccount
<1>9. ASSUME NEW t \in Transfers, pc'[t] = "conflict" PROVE Contended(t)'
  BY <1>6, <1>9, ContendedKept DEF IInv, EntryInv, OpenAccount
<1> QED
  BY <1>7, <1>8, <1>9 DEF EntryInv

\* Both accounts are named by their whole streams, so they differ, and each
\* gets one row of the transfer.
LEMMA AppendCompletedEntries ==
  ASSUME IInv, EntryInv, NEW t \in Transfers, AppendCompleted(t)
  PROVE  EntryInv'
<1> DEFINE from == From(t)
           to == To(t)
           debited == AppendEvent(log[from], "Debited", Amount(t), t)
           credited == AppendEvent(log[to], "Credited", Amount(t), t)
<1>1. /\ from \in Ids /\ log[from] \in Seq(Row)
      /\ to \in Ids /\ log[to] \in Seq(Row)
      /\ Amount(t) \in Int
      /\ "Debited" \in Kinds /\ "Credited" \in Kinds /\ t \in Authors
  BY RequestTypes DEF IInv, TypeOK, Kinds, Authors
<1>2. /\ held[t].source.version > 0 /\ held[t].dest.version > 0
      /\ held[t].source \in Aggregate /\ held[t].dest \in Aggregate
      /\ IsReplay(log[from], held[t].source) /\ IsReplay(log[to], held[t].dest)
      /\ transferLog[t] = "none"
  BY HeldTypes DEF IInv, HandlerOK, AppendCompleted, BeforeAppend
<1>3. from # to /\ Len(log[from]) \in Nat \ {0} /\ Len(log[to]) \in Nat \ {0}
  BY <1>1, <1>2 DEF AppendCompleted, UniqueViolation, Version, IsReplay, Aggregate
<1>4. /\ Len(debited) = Len(log[from]) + 1
      /\ \A v \in 1 .. Len(log[from]) : debited[v] = log[from][v]
      /\ debited[Len(log[from]) + 1].by = t
      /\ debited[Len(log[from]) + 1].kind = "Debited"
      /\ debited[Len(log[from]) + 1].amount = Amount(t)
      /\ debited \in Seq(Row)
  <2>1. debited \in Seq(Row) /\ Len(debited) = Len(log[from]) + 1
    BY <1>1, AppendEventRows
  <2>2. \A v \in 1 .. Len(log[from]) : debited[v] = log[from][v]
    BY <1>1, AppendEventRows
  <2>3. debited[Len(log[from]) + 1].by = t
    BY <1>1, AppendEventRows
  <2>4. debited[Len(log[from]) + 1].kind = "Debited"
    BY <1>1, AppendEventRows
  <2>5. debited[Len(log[from]) + 1].amount = Amount(t)
    BY <1>1, AppendEventRows
  <2> QED
    BY <2>1, <2>2, <2>3, <2>4, <2>5
<1>5. /\ Len(credited) = Len(log[to]) + 1
      /\ \A v \in 1 .. Len(log[to]) : credited[v] = log[to][v]
      /\ credited[Len(log[to]) + 1].by = t
      /\ credited[Len(log[to]) + 1].kind = "Credited"
      /\ credited[Len(log[to]) + 1].amount = Amount(t)
      /\ credited \in Seq(Row)
  <2>1. credited \in Seq(Row) /\ Len(credited) = Len(log[to]) + 1
    BY <1>1, AppendEventRows
  <2>2. \A v \in 1 .. Len(log[to]) : credited[v] = log[to][v]
    BY <1>1, AppendEventRows
  <2>3. credited[Len(log[to]) + 1].by = t
    BY <1>1, AppendEventRows
  <2>4. credited[Len(log[to]) + 1].kind = "Credited"
    BY <1>1, AppendEventRows
  <2>5. credited[Len(log[to]) + 1].amount = Amount(t)
    BY <1>1, AppendEventRows
  <2> QED
    BY <2>1, <2>2, <2>3, <2>4, <2>5
<1>6. /\ RowsIn(debited, t, "Debited")
           = RowsIn(log[from], t, "Debited") \cup {Len(log[from]) + 1}
      /\ RowsIn(debited, t, "Credited") = RowsIn(log[from], t, "Credited")
      /\ RowsIn(credited, t, "Debited") = RowsIn(log[to], t, "Debited")
      /\ RowsIn(credited, t, "Credited")
           = RowsIn(log[to], t, "Credited") \cup {Len(log[to]) + 1}
      /\ \A u \in Transfers \ {t}, side \in Sides :
           /\ RowsIn(debited, u, side) = RowsIn(log[from], u, side)
           /\ RowsIn(credited, u, side) = RowsIn(log[to], u, side)
  <2>1. "Debited" \in Sides /\ "Credited" \in Sides /\ "Debited" # "Credited"
    BY DEF Sides
  <2>2. /\ "Debited" \in Kinds /\ "Credited" \in Kinds
    BY DEF Kinds
  <2>3. /\ RowsIn(debited, t, "Debited")
           = RowsIn(log[from], t, "Debited") \cup {Len(log[from]) + 1}
        /\ RowsIn(debited, t, "Credited") = RowsIn(log[from], t, "Credited")
    BY <1>1, <2>1, <2>2, AppendedRows
  <2>4. /\ RowsIn(credited, t, "Debited") = RowsIn(log[to], t, "Debited")
        /\ RowsIn(credited, t, "Credited")
           = RowsIn(log[to], t, "Credited") \cup {Len(log[to]) + 1}
    BY <1>1, <2>1, <2>2, AppendedRows
  <2>5. \A u \in Transfers \ {t}, side \in Sides :
          RowsIn(debited, u, side) = RowsIn(log[from], u, side)
    BY <1>1, <2>2, AppendedRows
  <2>6. \A u \in Transfers \ {t}, side \in Sides :
          RowsIn(credited, u, side) = RowsIn(log[to], u, side)
    BY <1>1, <2>2, AppendedRows
  <2> QED
    BY <2>3, <2>4, <2>5, <2>6
<1>7. /\ log'[from] = debited /\ log'[to] = credited
      /\ \A a \in Ids \ {from, to} : log'[a] = log[a]
  BY <1>1, <1>3, <1>4, <1>5 DEF IInv, TypeOK, AppendCompleted
<1>8. /\ req' = req /\ held' = held /\ transferLog'[t] = "Completed"
      /\ pc'[t] = "projectDebit"
      /\ \A u \in Transfers \ {t} : transferLog'[u] = transferLog[u] /\ pc'[u] = pc[u]
  BY DEF IInv, TypeOK, AppendCompleted, Goto
<1>9. From(t)' = from /\ To(t)' = to /\ Amount(t)' = Amount(t)
  BY <1>8 DEF From, To, Amount
<1> HIDE DEF debited, credited, from, to
<1>10. Extends
  <2>1. \A a \in Ids \ {from, to} : Len(log[a]) \in Nat
    BY DEF IInv, TypeOK
  <2> SUFFICES ASSUME NEW a \in Ids
               PROVE  /\ Len(log'[a]) \in Nat /\ Len(log'[a]) >= Len(log[a])
                      /\ \A v \in 1 .. Len(log[a]) : log'[a][v] = log[a][v]
    BY DEF Extends
  <2>2. CASE a = from
    BY <1>3, <1>4, <1>7, <2>2
  <2>3. CASE a = to
    BY <1>3, <1>5, <1>7, <2>3
  <2>4. CASE a \notin {from, to}
    BY <1>7, <2>1, <2>4
  <2> QED
    BY <2>2, <2>3, <2>4
<1>11. Authored'
  <2> SUFFICES ASSUME NEW a \in Ids, NEW v \in 1 .. Len(log'[a])
               PROVE  /\ v = 1 => log'[a][v].by = NoTransfer /\ log'[a][v].kind = "Created"
                      /\ v > 1 => log'[a][v].by \in Transfers /\ log'[a][v].kind \in Sides
    BY DEF Authored
  <2>1. CASE v \in 1 .. Len(log[a])
    <3>1. log'[a][v] = log[a][v]
      BY <1>10, <2>1 DEF Extends
    <3> QED
      BY <2>1, <3>1 DEF EntryInv, Authored
  <2>2. CASE v \notin 1 .. Len(log[a])
    BY <1>3, <1>4, <1>5, <1>7, <2>2 DEF Sides
  <2> QED
    BY <2>1, <2>2
<1>12. \A u \in Transfers \ {t} : SameRows(u)
  <2> SUFFICES ASSUME NEW u \in Transfers \ {t}, NEW a \in Ids, NEW side \in Sides
               PROVE  RowsIn(log'[a], u, side) = RowsIn(log[a], u, side)
    BY DEF SameRows
  <2>1. CASE a = from
    BY <1>6, <1>7, <2>1
  <2>2. CASE a = to
    BY <1>6, <1>7, <2>2
  <2>3. CASE a \notin {from, to}
    BY <1>7, <2>3
  <2> QED
    BY <2>1, <2>2, <2>3
<1>13. \A u \in Transfers \ {t} : Entry(u)'
  BY <1>8, <1>10, <1>12, EntryKept DEF IInv, EntryInv
<1>14. Entry(t)'
  <2>1. \A a \in Ids : RowsIn(log[a], t, "Debited") = {} /\ RowsIn(log[a], t, "Credited") = {}
    BY <1>2 DEF EntryInv, Entry
  <2>2. /\ RowsIn(log'[from], t, "Debited") = {Len(log[from]) + 1}
        /\ RowsIn(log'[from], t, "Credited") = {}
        /\ RowsIn(log'[to], t, "Debited") = {}
        /\ RowsIn(log'[to], t, "Credited") = {Len(log[to]) + 1}
    BY <1>1, <1>6, <1>7, <2>1
  <2>3. \A a \in Ids \ {from, to} :
          RowsIn(log'[a], t, "Debited") = {} /\ RowsIn(log'[a], t, "Credited") = {}
    BY <1>7, <2>1
  <2>4. /\ Len(log[from]) + 1 \in 1 .. Len(log'[from])
        /\ Len(log[to]) + 1 \in 1 .. Len(log'[to])
        /\ log'[from][Len(log[from]) + 1].amount = Amount(t)
        /\ log'[to][Len(log[to]) + 1].amount = Amount(t)
    BY <1>3, <1>4, <1>5, <1>7
  <2>5. /\ \A a \in Ids \ {from} : RowsIn(log'[a], t, "Debited") = {}
        /\ \A a \in Ids \ {to} : RowsIn(log'[a], t, "Credited") = {}
    BY <2>2, <2>3
  <2>6. \E v \in 1 .. Len(log'[from]), w \in 1 .. Len(log'[to]) :
          /\ RowsIn(log'[from], t, "Debited") = {v}
          /\ RowsIn(log'[to], t, "Credited") = {w}
          /\ log'[from][v].amount = Amount(t)
          /\ log'[to][w].amount = Amount(t)
    BY <2>2, <2>4
  <2>7. /\ From(t)' # To(t)'
        /\ \E v \in 1 .. Len(log'[From(t)']), w \in 1 .. Len(log'[To(t)']) :
             /\ RowsIn(log'[From(t)'], t, "Debited") = {v}
             /\ RowsIn(log'[To(t)'], t, "Credited") = {w}
             /\ log'[From(t)'][v].amount = Amount(t)'
             /\ log'[To(t)'][w].amount = Amount(t)'
        /\ \A a \in Ids :
             /\ a # From(t)' => RowsIn(log'[a], t, "Debited") = {}
             /\ a # To(t)' => RowsIn(log'[a], t, "Credited") = {}
    BY <1>3, <1>9, <2>5, <2>6, Zenon
  <2> QED
    BY <1>8, <2>7 DEF Entry
<1>15. ASSUME NEW u \in Transfers, pc'[u] = "conflict" PROVE Contended(u)'
  <2>1. u # t /\ pc[u] = "conflict" /\ held'[u] = held[u]
    BY <1>8, <1>15
  <2> QED
    BY <1>8, <1>10, <2>1, ContendedKept DEF IInv, EntryInv
<1> QED
  BY <1>11, <1>13, <1>14, <1>15 DEF EntryInv

-----------------------------------------------------------------------------

LEMMA InitEntries == Init => EntryInv
BY DEF Init, EntryInv, Authored, Entry, RowsIn

LEMMA StepEntries == IInv /\ EntryInv /\ [Next]_vars => EntryInv'
<1> SUFFICES ASSUME IInv, EntryInv, [Next]_vars PROVE EntryInv'
  OBVIOUS
<1> USE DEF Goto, readModels
<1>0. pc \in [Transfers -> Stages] /\ transferLog \in [Transfers -> {"none", "Completed", "Failed"}]
      /\ held \in [Transfers -> [snapshot : Aggregate, source : Aggregate, dest : Aggregate]]
  BY DEF IInv, TypeOK
<1>1. ASSUME log' = log, req' = req, pc' = pc, held' = held, transferLog' = transferLog
      PROVE  EntryInv'
  <2>1. Extends /\ \A t \in Transfers : SameRows(t)
    BY <1>1 DEF IInv, TypeOK, Extends, SameRows
  <2>2. Authored'
    BY <1>1 DEF EntryInv, Authored
  <2>3. \A t \in Transfers : Entry(t)'
    BY <1>1, <2>1, EntryKept DEF IInv, EntryInv
  <2>4. \A t \in Transfers : pc'[t] = "conflict" => Contended(t)'
    BY <1>1, <2>1, ContendedKept DEF IInv, EntryInv
  <2> QED
    BY <2>2, <2>3, <2>4 DEF EntryInv
<1>2. ASSUME NEW a \in Accounts, OpenAccount(a) \/ ListAccount(a) \/ AbortOpening(a)
      PROVE  EntryInv'
  BY <1>1, <1>2, OpenAccountEntries DEF ListAccount, AbortOpening
<1>3. ASSUME NEW t \in Transfers, Receive(t) \/ Load(t) PROVE EntryInv'
  <2>1. CASE Receive(t)
    BY <1>0, <2>1, QuietStep DEF Receive
  <2>2. CASE LoadSourceSnapshot(t)
    BY <1>0, <2>2, QuietStep DEF LoadSourceSnapshot
  <2>3. CASE LoadSourceEvents(t)
    BY <1>0, <2>3, QuietStep DEF LoadSourceEvents
  <2>4. CASE LoadDestSnapshot(t)
    BY <1>0, <2>4, QuietStep DEF LoadDestSnapshot
  <2>5. CASE LoadDestEvents(t)
    BY <1>0, <2>5, QuietStep DEF LoadDestEvents
  <2> QED
    BY <1>3, <2>1, <2>2, <2>3, <2>4, <2>5 DEF Load
<1>4. ASSUME NEW t \in Transfers, Store(t) PROVE EntryInv'
  <2>1. CASE AppendFailed(t)
    <3>1. transferLog[t] = "none"
      BY <2>1 DEF IInv, HandlerOK, AppendFailed, BeforeAppend
    <3> QED
      BY <1>0, <2>1, <3>1, QuietStep DEF AppendFailed
  <2> QED
    BY <1>4, <2>1, RejectConflictEntries, AppendCompletedEntries DEF Store
<1>5. ASSUME NEW t \in Transfers, Project(t) PROVE EntryInv'
  <2>1. CASE ProjectDebit(t)
    BY <1>0, <2>1, QuietStep DEF ProjectDebit
  <2>2. CASE ProjectCredit(t)
    BY <1>0, <2>2, QuietStep DEF ProjectCredit
  <2>3. CASE ProjectCompleted(t)
    BY <1>0, <2>3, QuietStep DEF ProjectCompleted, GotoDestSnapshot
  <2>4. CASE ProjectFailed(t)
    BY <1>0, <2>4, QuietStep DEF ProjectFailed
  <2> QED
    BY <1>5, <2>1, <2>2, <2>3, <2>4 DEF Project
<1>6. ASSUME NEW t \in Transfers, SnapshotSource(t) \/ SnapshotDest(t) \/ Abort(t)
      PROVE  EntryInv'
  <2>1. CASE SnapshotSource(t)
    BY <1>0, <2>1, QuietStep
       DEF SnapshotSource, ReadForSnapshot, SaveSnapshot, GotoDestSnapshot
  <2>2. CASE SnapshotDest(t)
    BY <1>0, <2>2, QuietStep DEF SnapshotDest, ReadForSnapshot, SaveSnapshot
  <2>3. CASE Abort(t)
    BY <1>0, <2>3, QuietStep DEF Abort
  <2> QED
    BY <1>6, <2>1, <2>2, <2>3
<1>7. CASE UNCHANGED vars
  BY <1>1, <1>7 DEF vars
<1> QED
  BY <1>2, <1>3, <1>4, <1>5, <1>6, <1>7 DEF Next, Handle

LEMMA AlwaysEntryInv == Spec => []EntryInv
BY Invariance, InitEntries, StepEntries, PTL DEF Spec

\* A transfer is in both of its streams, once and with one amount, or in none.
THEOREM DoublyEntered == Spec => []DoubleEntry
BY AlwaysEntryInv, EntryInvSuffices, PTL

\* A transfer refused at its append lost to the rows of another one.
THEOREM ConflictsAreContention == Spec => []ConflictIsContention
BY AlwaysEntryInv, EntryInvSuffices, PTL

-----------------------------------------------------------------------------
(* Streams as sums *)

Delta(row) == IF row.kind = "Debited" THEN -row.amount ELSE row.amount

\* The balance of a row is that of the row before, and the row's own amount.
Replays(stream) ==
  \A v \in 1 .. Len(stream) :
    stream[v].balance = BalanceAt(stream, v - 1) + Delta(stream[v])

LEMMA AppendEventReplays ==
  ASSUME NEW stream \in Seq(Row), NEW kind \in Kinds, NEW amount \in Int,
         NEW by \in Authors, Replays(stream), kind = "Created" => stream = <<>>
  PROVE  Replays(AppendEvent(stream, kind, amount, by))
<1> DEFINE s == AppendEvent(stream, kind, amount, by)
           n == Len(stream)
<1>1. n \in Nat /\ FinalBalance(stream) \in Int
  BY BalanceIsInt
<1>2. Len(s) = n + 1
  BY AppendEventRows
<1>3. \A v \in 1 .. n : s[v] = stream[v]
  BY AppendEventRows
<1>4. s[n + 1].kind = kind
  BY AppendEventRows
<1>5. s[n + 1].amount = amount
  BY AppendEventRows
<1>6. s[n + 1].balance = Apply(FinalBalance(stream), kind, amount)
  BY AppendEventRows
<1>7. kind = "Created" => FinalBalance(stream) = 0
  BY DEF FinalBalance, BalanceAt
<1> HIDE DEF s, n
<1>8. \A v \in 0 .. n : BalanceAt(s, v) = BalanceAt(stream, v)
  BY <1>1, <1>3 DEF BalanceAt
<1>9. Apply(FinalBalance(stream), kind, amount) = FinalBalance(stream) + Delta(s[n + 1])
  BY <1>1, <1>4, <1>5, <1>7 DEF Apply, Delta, Kinds
<1>10. s[n + 1].balance = BalanceAt(s, n) + Delta(s[n + 1])
  BY <1>1, <1>6, <1>8, <1>9 DEF FinalBalance, n
<1>11. ASSUME NEW v \in 1 .. n PROVE s[v].balance = BalanceAt(s, v - 1) + Delta(s[v])
  <2>1. stream[v].balance = BalanceAt(stream, v - 1) + Delta(stream[v])
    BY DEF Replays, n
  <2>2. v - 1 \in 0 .. n
    BY <1>1
  <2>3. QED
    BY <1>3, <1>8, <2>1, <2>2
<1>12. ASSUME NEW v \in 1 .. n + 1 PROVE s[v].balance = BalanceAt(s, v - 1) + Delta(s[v])
  <2>1. v \in 1 .. n \/ v = n + 1
    BY <1>1
  <2>2. CASE v = n + 1
    <3>1. v - 1 = n
      BY <1>1, <2>2
    <3>2. QED
      BY <1>10, <2>2, <3>1
  <2>3. QED
    BY <1>11, <2>1, <2>2
<1>13. QED
  BY <1>2, <1>12 DEF Replays, s

\* What a replay arrives at is the sum of the events it read.
LEMMA BalanceIsSum ==
  ASSUME NEW stream \in Seq(Row), Replays(stream), NEW n \in 0 .. Len(stream)
  PROVE  BalanceAt(stream, n) = SumFunction([v \in 1 .. n |-> Delta(stream[v])])
<1> DEFINE deltas(k) == [v \in 1 .. k |-> Delta(stream[v])]
           Wrong == {k \in 0 .. Len(stream) : BalanceAt(stream, k) # SumFunction(deltas(k))}
<1>1. Len(stream) \in Nat
  BY BalanceIsInt
<1>2. CASE Wrong = {}
  BY <1>2
<1>3. CASE Wrong # {}
  <2>1. PICK k \in Wrong : \A m \in Wrong : m >= k
    <3>1. Wrong \subseteq Nat
      BY <1>1
    <3> HIDE DEF Wrong
    <3>2. QED
      BY <1>3, <3>1, LeastNumber
  <2>2. k # 0
    <3>1. DOMAIN deltas(0) = {}
      OBVIOUS
    <3>2. SumFunction(deltas(0)) = 0
      BY <3>1, TotalOfNone
    <3>3. BalanceAt(stream, 0) = 0
      BY DEF BalanceAt
    <3>4. QED
      BY <3>2, <3>3
  <2>3. /\ k - 1 \in 0 .. Len(stream) /\ k - 1 \in Nat /\ k \in 1 .. Len(stream)
        /\ (k - 1) + 1 = k
    BY <1>1, <2>2
  <2>4. k - 1 \notin Wrong
    BY <1>1, <2>1, <2>3
  <2>5. BalanceAt(stream, k - 1) = SumFunction(deltas(k - 1))
    BY <2>3, <2>4
  <2>6. \A v \in 1 .. k : Delta(stream[v]) \in Int
    <3>1. \A v \in 1 .. k : stream[v] \in Row
      BY <1>1
    <3>2. QED
      BY <3>1 DEF Row, Delta
  <2>7. SumFunction(deltas(k)) = SumFunction(deltas(k - 1)) + Delta(stream[k])
    <3> DEFINE f == deltas(k - 1)
               g == deltas(k)
    <3>1. /\ DOMAIN f = 1 .. k - 1 /\ DOMAIN g = 1 .. (k - 1) + 1
          /\ \A v \in 1 .. k - 1 : g[v] = f[v]
          /\ \A v \in 1 .. (k - 1) + 1 : g[v] \in Int
          /\ g[(k - 1) + 1] = Delta(stream[k])
      BY <2>3, <2>6
    <3> HIDE DEF f, g
    <3>2. SumFunction(g) = SumFunction(f) + g[(k - 1) + 1]
      BY <2>3, <3>1, TotalOfFirst
    <3>3. QED
      BY <3>1, <3>2 DEF f, g
  <2>8. BalanceAt(stream, k) = BalanceAt(stream, k - 1) + Delta(stream[k])
    BY <2>2, <2>3 DEF Replays, BalanceAt
  <2>9. QED
    BY <2>5, <2>7, <2>8
<1>4. QED
  BY <1>2, <1>3

-----------------------------------------------------------------------------
(* The streams and their totals *)

OpenedAccounts == {a \in Accounts : log[a] # <<>>}

\* Only finitely many accounts have been opened so far, every stream replays,
\* and the balances add up to the opening balances.
TotalsInv ==
  /\ IsFiniteSet(OpenedAccounts)
  /\ \A a \in Ids : Replays(log[a])
  /\ Conservation

LEMMA InitTotals == Init => TotalsInv
<1> SUFFICES ASSUME Init PROVE TotalsInv
  OBVIOUS
<1>1. log = [a \in Ids |-> <<>>] /\ OpenedAccounts = {}
  BY AccountsAssumption DEF Init, OpenedAccounts
<1>2. IsFiniteSet(OpenedAccounts)
  BY <1>1, FS_EmptySet
<1>3. \A a \in Ids : Replays(log[a])
  BY <1>1 DEF Replays
<1>4. Conservation
  <2>1. /\ DOMAIN [a \in OpenedAccounts |-> Balance(a)] = {}
        /\ DOMAIN [a \in OpenedAccounts |-> log[a][1].amount] = {}
    BY <1>1
  <2>2. /\ SumFunction([a \in OpenedAccounts |-> Balance(a)]) = 0
        /\ SumFunction([a \in OpenedAccounts |-> log[a][1].amount]) = 0
    BY <2>1, TotalOfNone
  <2>3. QED
    BY <2>2 DEF Conservation, OpenedAccounts
<1>5. QED
  BY <1>2, <1>3, <1>4 DEF TotalsInv

\* The stream of a new account.
LEMMA FirstRow ==
  ASSUME NEW stream \in Seq(Row), stream = <<>>, NEW balance \in Int
  PROVE  /\ Len(AppendEvent(stream, "Created", balance, NoTransfer)) = 1
         /\ AppendEvent(stream, "Created", balance, NoTransfer)[1].amount = balance
         /\ AppendEvent(stream, "Created", balance, NoTransfer)[1].balance = balance
         /\ Replays(AppendEvent(stream, "Created", balance, NoTransfer))
<1> DEFINE s == AppendEvent(stream, "Created", balance, NoTransfer)
<1>1. "Created" \in Kinds /\ NoTransfer \in Authors
  BY DEF Kinds, Authors
<1>2. Replays(stream)
  BY DEF Replays
<1>3. Replays(s)
  BY <1>1, <1>2, AppendEventReplays
<1>4. s = <<[kind |-> "Created", amount |-> balance, by |-> NoTransfer,
             balance |-> balance]>>
  BY DEF AppendEvent, Apply
<1>5. QED
  BY <1>3, <1>4

\* The new account adds its opening balance to both totals.
LEMMA OpenAccountTotals ==
  ASSUME IInv, TotalsInv, NEW a \in Accounts, OpenAccount(a)
  PROVE  TotalsInv'
<1>1. PICK balance \in OpeningBalances :
        log' = [log EXCEPT ![a] = AppendEvent(@, "Created", balance, NoTransfer)]
  BY DEF OpenAccount
<1> DEFINE new == AppendEvent(log[a], "Created", balance, NoTransfer)
<1>2. /\ a \in Ids /\ log[a] \in Seq(Row) /\ balance \in Int
      /\ "Created" \in Kinds /\ NoTransfer \in Authors
  BY AccountsAssumption, OpeningBalancesAssumption
     DEF IInv, TypeOK, Kinds, Authors
<1>3. log[a] = <<>> /\ Len(log[a]) = 0
  BY <1>2 DEF IInv, Existing, OpenAccount
<1>4. Replays(new)
  BY <1>2, <1>3, FirstRow
<1>5. Len(new) = 1
  BY <1>2, <1>3, FirstRow
<1>6. new[1].amount = balance
  BY <1>2, <1>3, FirstRow
<1>7. new[1].balance = balance
  BY <1>2, <1>3, FirstRow
<1>8. /\ log'[a] = new
      /\ \A b \in Ids \ {a} : log'[b] = log[b]
  BY <1>1, <1>2 DEF IInv, TypeOK
<1> HIDE DEF new
<1>9. /\ OpenedAccounts' = OpenedAccounts \cup {a} /\ a \notin OpenedAccounts
  <2>1. new # <<>>
    BY <1>5
  <2>2. a \in OpenedAccounts' /\ a \notin OpenedAccounts
    BY <1>3, <1>8, <2>1 DEF OpenedAccounts
  <2>3. \A b \in Accounts \ {a} : b \in OpenedAccounts' <=> b \in OpenedAccounts
    BY <1>8, AccountsAssumption DEF OpenedAccounts
  <2>4. OpenedAccounts' \subseteq Accounts /\ OpenedAccounts \subseteq Accounts
    BY DEF OpenedAccounts
  <2>5. QED
    BY <2>2, <2>3, <2>4
<1>10. IsFiniteSet(OpenedAccounts) /\ IsFiniteSet(OpenedAccounts')
  BY <1>9, FS_AddElement DEF TotalsInv
<1>11. \A b \in Ids : Replays(log'[b])
  BY <1>4, <1>8 DEF TotalsInv
<1>12. Conservation'
  <2> DEFINE f == [b \in OpenedAccounts |-> Balance(b)]
             f1 == [b \in OpenedAccounts' |-> Balance(b)']
             g == [b \in OpenedAccounts |-> log[b][1].amount]
             g1 == [b \in OpenedAccounts' |-> log'[b][1].amount]
  <2>1. \A b \in OpenedAccounts : /\ b \in Ids \ {a}
                                  /\ Balance(b) \in Int /\ log[b][1].amount \in Int
    <3> SUFFICES ASSUME NEW b \in OpenedAccounts
                 PROVE  /\ b \in Ids \ {a}
                        /\ Balance(b) \in Int /\ log[b][1].amount \in Int
      OBVIOUS
    <3>1. b \in Ids \ {a} /\ log[b] \in Seq(Row) /\ log[b] # <<>>
      BY <1>9, AccountsAssumption DEF OpenedAccounts, IInv, TypeOK
    <3>2. Balance(b) \in Int
      BY <3>1, BalanceIsInt DEF Balance
    <3>3. log[b][1] \in Row
      BY <3>1
    <3>4. QED
      BY <3>1, <3>2, <3>3 DEF Row
  <2>2. Balance(a)' = balance
    <3>1. Balance(a)' = FinalBalance(new)
      BY <1>8 DEF Balance
    <3>2. FinalBalance(new) = balance
      BY <1>5, <1>7 DEF FinalBalance, BalanceAt
    <3>3. QED
      BY <3>1, <3>2
  <2>3. /\ DOMAIN f = OpenedAccounts /\ DOMAIN f1 = OpenedAccounts \cup {a}
        /\ f1[a] = balance
        /\ \A b \in OpenedAccounts : f1[b] = f[b]
        /\ \A b \in OpenedAccounts \cup {a} : f1[b] \in Int
    <3>1. \A b \in OpenedAccounts : Balance(b)' = Balance(b)
      BY <1>8, <2>1 DEF Balance
    <3>2. QED
      BY <1>2, <1>9, <2>1, <2>2, <3>1
  <2>4. /\ DOMAIN g = OpenedAccounts /\ DOMAIN g1 = OpenedAccounts \cup {a}
        /\ g1[a] = balance
        /\ \A b \in OpenedAccounts : g1[b] = g[b]
        /\ \A b \in OpenedAccounts \cup {a} : g1[b] \in Int
    BY <1>2, <1>6, <1>8, <1>9, <2>1
  <2> HIDE DEF f, f1, g, g1
  <2>5. SumFunction(f1) = SumFunction(f) + balance
    BY <1>9, <1>10, <2>3, TotalWithOneMore
  <2>6. SumFunction(g1) = SumFunction(g) + balance
    BY <1>9, <1>10, <2>4, TotalWithOneMore
  <2>7. SumFunction(f) = SumFunction(g)
    BY DEF TotalsInv, Conservation, OpenedAccounts, f, g
  <2>8. SumFunction(f1) = SumFunction(g1)
    BY <2>5, <2>6, <2>7
  <2>9. QED
    BY <2>8 DEF Conservation, OpenedAccounts, f1, g1
<1>13. QED
  BY <1>10, <1>11, <1>12 DEF TotalsInv

\* An event of a transfer keeps the first row and moves the balance.
LEMMA LaterRow ==
  ASSUME NEW stream \in Seq(Row), stream # <<>>, NEW kind \in Sides,
         NEW amount \in Int, NEW by \in Authors
  PROVE  /\ AppendEvent(stream, kind, amount, by) \in Seq(Row)
         /\ AppendEvent(stream, kind, amount, by) # <<>>
         /\ AppendEvent(stream, kind, amount, by)[1] = stream[1]
         /\ kind = "Debited" =>
              FinalBalance(AppendEvent(stream, kind, amount, by))
                = FinalBalance(stream) - amount
         /\ kind = "Credited" =>
              FinalBalance(AppendEvent(stream, kind, amount, by))
                = FinalBalance(stream) + amount
<1> DEFINE s == AppendEvent(stream, kind, amount, by)
           n == Len(stream)
<1>1. kind \in Kinds
  BY DEF Kinds, Sides
<1>2. s \in Seq(Row) /\ Len(s) = n + 1
  BY <1>1, AppendEventRows
<1>3. \A v \in 1 .. n : s[v] = stream[v]
  BY <1>1, AppendEventRows
<1>4. s[n + 1].balance = Apply(FinalBalance(stream), kind, amount)
  BY <1>1, AppendEventRows
<1>5. n \in Nat /\ n # 0 /\ FinalBalance(stream) \in Int
  BY BalanceIsInt
<1>6. /\ kind = "Debited" =>
           Apply(FinalBalance(stream), kind, amount) = FinalBalance(stream) - amount
      /\ kind = "Credited" =>
           Apply(FinalBalance(stream), kind, amount) = FinalBalance(stream) + amount
  BY <1>5 DEF Apply
<1> HIDE DEF s, n
<1>7. FinalBalance(s) = s[n + 1].balance
  BY <1>2, <1>5 DEF FinalBalance, BalanceAt
<1>8. s # <<>> /\ s[1] = stream[1]
  BY <1>2, <1>3, <1>5
<1>9. QED
  BY <1>2, <1>4, <1>6, <1>7, <1>8 DEF s

\* What a completed append does to the streams: the two accounts differ, for
\* their versions are those of the whole streams.
LEMMA AppendMoves ==
  ASSUME IInv, NEW t \in Transfers, AppendCompleted(t)
  PROVE  /\ From(t) \in Ids /\ To(t) \in Ids /\ From(t) # To(t) /\ Amount(t) \in Int
         /\ log[From(t)] # <<>> /\ log[To(t)] # <<>>
         /\ log'[From(t)] = AppendEvent(log[From(t)], "Debited", Amount(t), t)
         /\ log'[To(t)] = AppendEvent(log[To(t)], "Credited", Amount(t), t)
         /\ \A a \in Ids \ {From(t), To(t)} : log'[a] = log[a]
         /\ Balance(From(t))' = Balance(From(t)) - Amount(t)
         /\ Balance(To(t))' = Balance(To(t)) + Amount(t)
         /\ \A a \in Ids : Balance(a) \in Int
         /\ \A a \in Ids : log'[a] = <<>> <=> log[a] = <<>>
         /\ \A a \in Ids : log[a] # <<>> => log'[a][1] = log[a][1]
<1> DEFINE from == From(t)
           to == To(t)
           n == Amount(t)
<1>1. /\ from \in Ids /\ log[from] \in Seq(Row)
      /\ to \in Ids /\ log[to] \in Seq(Row)
      /\ n \in Int /\ "Debited" \in Sides /\ "Credited" \in Sides /\ t \in Authors
  BY RequestTypes DEF IInv, TypeOK, Sides, Authors
<1>2. /\ held[t].source.version > 0 /\ held[t].dest.version > 0
      /\ held[t].source \in Aggregate /\ held[t].dest \in Aggregate
      /\ IsReplay(log[from], held[t].source) /\ IsReplay(log[to], held[t].dest)
  BY HeldTypes DEF IInv, HandlerOK, AppendCompleted
<1>3. from # to /\ log[from] # <<>> /\ log[to] # <<>>
  BY <1>1, <1>2 DEF AppendCompleted, UniqueViolation, Version, IsReplay, Aggregate
<1>4. /\ log'[from] = AppendEvent(log[from], "Debited", n, t)
      /\ log'[to] = AppendEvent(log[to], "Credited", n, t)
      /\ \A a \in Ids \ {from, to} : log'[a] = log[a]
  BY <1>1, <1>3 DEF IInv, TypeOK, AppendCompleted
<1>5. \A a \in Ids : Balance(a) \in Int
  <2>1. \A a \in Ids : log[a] \in Seq(Row)
    BY DEF IInv, TypeOK
  <2>2. QED
    BY <2>1, BalanceIsInt DEF Balance
<1> HIDE DEF from, to, n
<1>6. /\ log'[from] # <<>> /\ log'[from][1] = log[from][1]
      /\ FinalBalance(log'[from]) = FinalBalance(log[from]) - n
  <2>1. log'[from] # <<>> /\ log'[from][1] = log[from][1]
    BY <1>1, <1>3, <1>4, LaterRow
  <2>2. FinalBalance(AppendEvent(log[from], "Debited", n, t))
          = FinalBalance(log[from]) - n
    BY <1>1, <1>3, LaterRow
  <2>3. QED
    BY <1>4, <2>1, <2>2
<1>7. /\ log'[to] # <<>> /\ log'[to][1] = log[to][1]
      /\ FinalBalance(log'[to]) = FinalBalance(log[to]) + n
  BY <1>1, <1>3, <1>4, LaterRow
<1>8. \A a \in Ids : log'[a] = <<>> <=> log[a] = <<>>
  BY <1>3, <1>4, <1>6, <1>7
<1>9. \A a \in Ids : log[a] # <<>> => log'[a][1] = log[a][1]
  BY <1>3, <1>4, <1>6, <1>7
<1>10. /\ From(t)' = From(t) /\ To(t)' = To(t) /\ Amount(t)' = Amount(t)
  BY DEF AppendCompleted, From, To, Amount
<1>11. Balance(From(t))' = Balance(From(t)) - Amount(t)
  BY <1>6, <1>10 DEF Balance, from, n
<1>12. Balance(To(t))' = Balance(To(t)) + Amount(t)
  BY <1>7, <1>10 DEF Balance, to, n
<1>13. QED
  BY <1>1, <1>3, <1>4, <1>5, <1>8, <1>9, <1>11, <1>12 DEF from, to, n

\* One account's debit is the other's credit.
LEMMA AppendCompletedTotals ==
  ASSUME IInv, TotalsInv, NEW t \in Transfers, AppendCompleted(t)
  PROVE  TotalsInv'
<1>1. /\ OpenedAccounts' = OpenedAccounts
      /\ \A a \in OpenedAccounts : a \in Ids /\ log'[a][1] = log[a][1]
  <2>1. \A a \in Ids : log'[a] = <<>> <=> log[a] = <<>>
    BY AppendMoves
  <2>2. \A a \in Ids : log[a] # <<>> => log'[a][1] = log[a][1]
    BY AppendMoves
  <2>3. QED
    BY <2>1, <2>2, AccountsAssumption DEF OpenedAccounts
<1>2. From(t) \in OpenedAccounts /\ To(t) \in OpenedAccounts
  BY AppendMoves DEF IInv, Existing, OpenedAccounts
<1>3. \A a \in Ids : Replays(log'[a])
  <2>1. /\ log[From(t)] \in Seq(Row) /\ log[To(t)] \in Seq(Row)
        /\ "Debited" \in Kinds /\ "Credited" \in Kinds /\ t \in Authors
        /\ "Debited" # "Created" /\ "Credited" # "Created"
    BY AppendMoves DEF IInv, TypeOK, Kinds, Authors
  <2>2. Replays(log[From(t)]) /\ Replays(log[To(t)])
    BY AppendMoves DEF TotalsInv
  <2>3. Replays(AppendEvent(log[From(t)], "Debited", Amount(t), t))
    BY <2>1, <2>2, AppendMoves, AppendEventReplays
  <2>4. Replays(AppendEvent(log[To(t)], "Credited", Amount(t), t))
    BY <2>1, <2>2, AppendMoves, AppendEventReplays
  <2>5. Replays(log'[From(t)]) /\ Replays(log'[To(t)])
    BY <2>3, <2>4, AppendMoves
  <2>6. \A a \in Ids \ {From(t), To(t)} : Replays(log'[a])
    BY AppendMoves DEF TotalsInv
  <2>7. QED
    BY <2>5, <2>6
<1>4. Conservation'
  <2> DEFINE f == [a \in OpenedAccounts |-> Balance(a)]
             f1 == [a \in OpenedAccounts |-> Balance(a)']
             g == [a \in OpenedAccounts |-> log[a][1].amount]
             g1 == [a \in OpenedAccounts |-> log'[a][1].amount]
             from == From(t)
             to == To(t)
             n == Amount(t)
  <2>1. g1 = g
    BY <1>1
  <2>2. /\ from \in Ids /\ to \in Ids /\ from # to /\ n \in Int
        /\ \A a \in OpenedAccounts : Balance(a) \in Int
    <3>1. \A a \in Ids : Balance(a) \in Int
      BY AppendMoves
    <3>2. QED
      BY <1>1, <3>1, AppendMoves
  <2>3. /\ f[from] = Balance(from) /\ f1[from] = Balance(from) - n
        /\ f[to] = Balance(to) /\ f1[to] = Balance(to) + n
    <3>1. From(t)' = From(t) /\ To(t)' = To(t)
      BY DEF AppendCompleted, From, To
    <3>2. /\ FinalBalance(log'[from]) = Balance(from) - n
          /\ FinalBalance(log'[to]) = Balance(to) + n
      BY <3>1, AppendMoves DEF Balance
    <3>3. QED
      BY <1>2, <3>2 DEF Balance
  <2>4. \A a \in OpenedAccounts \ {from, to} : f1[a] = f[a] /\ f[a] = Balance(a)
    BY <1>1, AppendMoves DEF Balance
  <2>5. DOMAIN f = OpenedAccounts /\ DOMAIN f1 = OpenedAccounts
    OBVIOUS
  <2>6. from \in OpenedAccounts /\ to \in OpenedAccounts
    BY <1>2
  <2> HIDE DEF f, f1, from, to, n
  <2>7. \A a \in OpenedAccounts : f[a] \in Int /\ f1[a] \in Int
    BY <2>2, <2>3, <2>4
  <2>8. f1[from] = f[from] - n /\ f1[to] = f[to] + n
    BY <2>3
  <2>9. SumFunction(f1) = SumFunction(f)
    BY <2>2, <2>4, <2>5, <2>6, <2>7, <2>8, TotalWithOneMoved DEF TotalsInv
  <2>10. SumFunction(f) = SumFunction(g)
    BY DEF TotalsInv, Conservation, OpenedAccounts, f, g
  <2>11. SumFunction([a \in OpenedAccounts' |-> Balance(a)'])
          = SumFunction([a \in OpenedAccounts' |-> log'[a][1].amount])
    BY <1>1, <2>1, <2>9, <2>10 DEF f1, g1
  <2>12. QED
    BY <2>11 DEF Conservation, OpenedAccounts
<1>5. QED
  BY <1>1, <1>3, <1>4 DEF TotalsInv

LEMMA SameStreamsTotals ==
  ASSUME TotalsInv, log' = log
  PROVE  TotalsInv'
BY DEF TotalsInv, Conservation, OpenedAccounts, Balance

LEMMA StepTotals == IInv /\ TotalsInv /\ [Next]_vars => TotalsInv'
<1> SUFFICES ASSUME IInv, TotalsInv, [Next]_vars PROVE TotalsInv'
  OBVIOUS
<1>1. ASSUME NEW a \in Accounts, OpenAccount(a) \/ ListAccount(a) \/ AbortOpening(a)
      PROVE  TotalsInv'
  BY <1>1, OpenAccountTotals, SameStreamsTotals DEF ListAccount, AbortOpening
<1>2. ASSUME NEW t \in Transfers, Receive(t) \/ Handle(t) \/ Abort(t)
      PROVE  AppendCompleted(t) \/ log' = log
  BY <1>2 DEF Receive, Handle, Abort, Load, Store, Project, LoadSourceSnapshot,
     LoadSourceEvents, LoadDestSnapshot, LoadDestEvents, RejectConflict,
     AppendFailed, ProjectDebit, ProjectCredit, ProjectCompleted, ProjectFailed,
     SnapshotSource, SnapshotDest, ReadForSnapshot, SaveSnapshot
<1>3. CASE UNCHANGED vars
  BY <1>3, SameStreamsTotals DEF vars
<1>4. QED
  BY <1>1, <1>2, <1>3, AppendCompletedTotals, SameStreamsTotals DEF Next

LEMMA AlwaysTotals == Spec => []TotalsInv
BY Invariance, InitTotals, StepTotals, PTL DEF Spec

\* The balances of all accounts add up to their opening balances, after any
\* transfers, conflicts and aborts.
THEOREM MoneyConserved == Spec => []Conservation
<1>1. TotalsInv => Conservation
  BY DEF TotalsInv
<1>2. QED
  BY <1>1, AlwaysTotals, PTL

\* The balance a handler decides on is the sum of the events up to the
\* version it holds, although a snapshot and a later query made it up.
THEOREM LoadedBalanceIsSum == Spec => []LoadedIsSumOfEvents
<1>1. IInv /\ TotalsInv => LoadedIsSumOfEvents
  <2> SUFFICES ASSUME IInv, TotalsInv PROVE LoadedIsSumOfEvents
    OBVIOUS
  <2>1. ASSUME NEW a \in Ids, NEW agg \in Aggregate, IsReplay(log[a], agg)
        PROVE  agg.balance = SumOfEvents(a, agg.version)
    <3>1. log[a] \in Seq(Row) /\ Replays(log[a])
      BY DEF IInv, TypeOK, TotalsInv
    <3>2. agg.version \in 0 .. Len(log[a]) /\ agg.balance = BalanceAt(log[a], agg.version)
      BY <2>1 DEF IsReplay
    <3>3. BalanceAt(log[a], agg.version)
            = SumFunction([v \in 1 .. agg.version |-> Delta(log[a][v])])
      BY <3>1, <3>2, BalanceIsSum
    <3>4. QED
      BY <3>2, <3>3 DEF SumOfEvents, Delta
  <2>2. ASSUME NEW t \in Transfers
        PROVE  /\ held[t].source.balance = SumOfEvents(From(t), held[t].source.version)
               /\ held[t].dest.balance = SumOfEvents(To(t), held[t].dest.version)
    <3>1. /\ From(t) \in Ids /\ To(t) \in Ids
          /\ held[t].source \in Aggregate /\ held[t].dest \in Aggregate
          /\ IsReplay(log[From(t)], held[t].source) /\ IsReplay(log[To(t)], held[t].dest)
      BY RequestTypes, HeldTypes DEF IInv, HandlerOK
    <3>2. QED
      BY <2>1, <3>1
  <2>3. QED
    BY <2>2 DEF LoadedIsSumOfEvents
<1>2. QED
  BY <1>1, Invariance, AlwaysTotals, PTL

-----------------------------------------------------------------------------
(* The read model and the streams *)

ActiveTransfers == {t \in Transfers : pc[t] # "idle"}

Debits(a) == {t \in Transfers : From(t) = a /\ pc[t] = "projectDebit"}
Credits(a) ==
  {t \in Transfers : To(t) = a /\ pc[t] \in {"projectDebit", "projectCredit"}}

Owed(S) == SumFunction([t \in S |-> Amount(t)])

Lags(a) == shown[a] = Balance(a) + Owed(Debits(a)) - Owed(Credits(a))

\* Finitely many requests have arrived; none names an account whose creation
\* is not answered, whose stream is then its first row; and what is projected
\* is committed.
ViewInv ==
  /\ IsFiniteSet(ActiveTransfers)
  /\ \A a \in listed : opening[a] = "done"
  /\ \A a \in Accounts : opening[a] # "done" =>
       \A t \in ActiveTransfers : a # From(t) /\ a # To(t)
  /\ \A a \in Accounts : opening[a] = "appended" => Len(log[a]) = 1
  /\ \A t \in Transfers :
       pc[t] \in {"projectDebit", "projectCredit"} => transferLog[t] = "Completed"

LagInv ==
  \A a \in listed :
    (\A t \in Transfers : CutOff(t) => a # From(t) /\ a # To(t)) => Lags(a)

LEMMA LagInvSuffices == LagInv => ReadModelLag
BY DEF LagInv, ReadModelLag, Touches, Lags, Owed, Debits, Credits

LEMMA InitView == Init => ViewInv /\ LagInv
<1> SUFFICES ASSUME Init PROVE ViewInv /\ LagInv
  OBVIOUS
<1>1. ActiveTransfers = {}
  BY DEF Init, ActiveTransfers
<1>2. IsFiniteSet(ActiveTransfers)
  BY <1>1, FS_EmptySet
<1>3. QED
  BY <1>1, <1>2 DEF Init, ViewInv, LagInv

LEMMA OwedIsInt ==
  ASSUME IInv, ViewInv, NEW a
  PROVE  /\ IsFiniteSet(Debits(a)) /\ IsFiniteSet(Credits(a))
         /\ Owed(Debits(a)) \in Int /\ Owed(Credits(a)) \in Int
<1>1. Debits(a) \in SUBSET ActiveTransfers /\ Credits(a) \in SUBSET ActiveTransfers
  BY DEF Debits, Credits, ActiveTransfers
<1>2. IsFiniteSet(Debits(a)) /\ IsFiniteSet(Credits(a))
  BY <1>1, FS_Subset DEF ViewInv
<1>3. \A t \in Transfers : Amount(t) \in Int
  BY RequestTypes DEF IInv
<1>4. ASSUME NEW S, IsFiniteSet(S), S \subseteq Transfers
      PROVE  Owed(S) \in Int
  <2> DEFINE f == [t \in S |-> Amount(t)]
  <2>1. DOMAIN f = S /\ \A t \in S : f[t] \in Int
    BY <1>3, <1>4
  <2> HIDE DEF f
  <2>2. SumFunction(f) \in Int
    BY <1>4, <2>1, TotalIsInt
  <2>3. QED
    BY <2>2 DEF Owed, f
<1>5. Debits(a) \subseteq Transfers /\ Credits(a) \subseteq Transfers
  BY DEF Debits, Credits
<1>6. QED
  BY <1>2, <1>4, <1>5

\* A transfer comes into what is owed, or goes.
LEMMA OwedMore ==
  ASSUME NEW S, IsFiniteSet(S), NEW t, t \notin S,
         \A u \in S \cup {t} : Amount(u) \in Int
  PROVE  Owed(S \cup {t}) = Owed(S) + Amount(t)
<1> DEFINE f == [u \in S |-> Amount(u)]
           g == [u \in S \cup {t} |-> Amount(u)]
<1>1. /\ DOMAIN f = S /\ DOMAIN g = S \cup {t}
      /\ \A u \in S : g[u] = f[u]
      /\ \A u \in S \cup {t} : g[u] \in Int
      /\ g[t] = Amount(t)
  OBVIOUS
<1> HIDE DEF f, g
<1>2. SumFunction(g) = SumFunction(f) + g[t]
  BY <1>1, TotalWithOneMore
<1>3. QED
  BY <1>1, <1>2 DEF Owed, f, g

LEMMA OwedLess ==
  ASSUME NEW S, IsFiniteSet(S), NEW t \in S, \A u \in S : Amount(u) \in Int
  PROVE  Owed(S \ {t}) = Owed(S) - Amount(t)
<1> DEFINE f == [u \in S |-> Amount(u)]
           g == [u \in S \ {t} |-> Amount(u)]
<1>1. /\ DOMAIN f = S /\ DOMAIN g = S \ {t}
      /\ \A u \in S \ {t} : g[u] = f[u]
      /\ \A u \in S : f[u] \in Int
      /\ f[t] = Amount(t)
  OBVIOUS
<1> HIDE DEF f, g
<1>2. SumFunction(g) = SumFunction(f) - f[t]
  BY <1>1, TotalWithOneLess
<1>3. QED
  BY <1>1, <1>2 DEF Owed, f, g

\* What is owed depends on the state only through the set and the requests.
LEMMA LagsKept ==
  ASSUME req' = req, NEW a, Lags(a), log'[a] = log[a], shown'[a] = shown[a],
         Debits(a)' = Debits(a), Credits(a)' = Credits(a)
  PROVE  Lags(a)'
<1>1. \A S : Owed(S)' = Owed(S)
  BY DEF Owed, Amount
<1>2. Balance(a)' = Balance(a)
  BY DEF Balance
<1>3. QED
  BY <1>1, <1>2 DEF Lags

\* A step of one handler, but for the accounts it touches: nobody else's
\* projections change, and a handler that is cut off stays so.
LEMMA HandlerLags ==
  ASSUME LagInv, NEW t \in Transfers, req' = req, listed' = listed,
         pc[t] # "aborted",
         \A u \in Transfers \ {t} : pc'[u] = pc[u] /\ transferLog'[u] = transferLog[u],
         \A a \in listed : a # From(t) /\ a # To(t) =>
           log'[a] = log[a] /\ shown'[a] = shown[a],
         \A a \in listed : (a = From(t) \/ a = To(t)) /\ ~CutOff(t)' /\ Lags(a) => Lags(a)'
  PROVE  LagInv'
<1> SUFFICES ASSUME NEW a \in listed,
                    \A u \in Transfers : CutOff(u)' => a # From(u) /\ a # To(u)
             PROVE  Lags(a)'
  <2>1. \A u \in Transfers : From(u)' = From(u) /\ To(u)' = To(u)
    BY DEF From, To
  <2>2. QED
    BY <2>1 DEF LagInv
<1>1. Lags(a)
  <2>1. \A u \in Transfers : CutOff(u) => CutOff(u)'
    BY DEF CutOff
  <2>2. QED
    BY <2>1 DEF LagInv
<1>2. CASE a = From(t) \/ a = To(t)
  BY <1>1, <1>2
<1>3. CASE a # From(t) /\ a # To(t)
  <2>1. Debits(a)' = Debits(a) /\ Credits(a)' = Credits(a)
    BY <1>3 DEF Debits, Credits, From, To
  <2>2. QED
    BY <1>1, <1>3, <2>1, LagsKept
<1>4. QED
  BY <1>2, <1>3

\* A step of a handler that projects nothing and commits no events.
LEMMA QuietLags ==
  ASSUME LagInv, NEW t \in Transfers, req' = req, listed' = listed,
         log' = log, shown' = shown,
         pc[t] \notin {"aborted", "projectDebit", "projectCredit"},
         pc'[t] \notin {"projectDebit", "projectCredit"},
         \A u \in Transfers \ {t} : pc'[u] = pc[u] /\ transferLog'[u] = transferLog[u]
  PROVE  LagInv'
<1>1. ASSUME NEW a, Lags(a) PROVE Lags(a)'
  <2>1. Debits(a)' = Debits(a) /\ Credits(a)' = Credits(a)
    BY DEF Debits, Credits, From, To
  <2>2. QED
    BY <1>1, <2>1, LagsKept
<1>2. QED
  BY <1>1, HandlerLags

LEMMA AppendCompletedLags ==
  ASSUME IInv, ViewInv, LagInv, NEW t \in Transfers, AppendCompleted(t)
  PROVE  LagInv'
<1>1. /\ pc[t] = "append" /\ pc'[t] = "projectDebit" /\ req' = req
      /\ listed' = listed /\ shown' = shown
      /\ \A u \in Transfers \ {t} : pc'[u] = pc[u] /\ transferLog'[u] = transferLog[u]
  BY DEF IInv, TypeOK, AppendCompleted, Goto, readModels
<1>2. \A a \in listed : a \in Ids
  BY AccountsAssumption DEF IInv, TypeOK
<1>3. \A u \in Transfers : Amount(u) \in Int
  BY RequestTypes DEF IInv
<1>4. \A S : Owed(S)' = Owed(S)
  BY <1>1 DEF Owed, Amount
<1>5. ASSUME NEW a \in listed, a = From(t), Lags(a) PROVE Lags(a)'
  <2>0. a \in Ids
    BY <1>2
  <2>1. t \notin Debits(a)
    BY <1>1 DEF Debits
  <2>2. Debits(a)' = Debits(a) \cup {t}
    BY <1>1, <1>5 DEF Debits, From
  <2>3. Credits(a)' = Credits(a)
    <3>1. To(t) # a
      BY <1>5, AppendMoves
    <3>2. QED
      BY <1>1, <3>1 DEF Credits, To
  <2>4. Owed(Debits(a) \cup {t}) = Owed(Debits(a)) + Amount(t)
    <3>1. \A u \in Debits(a) \cup {t} : Amount(u) \in Int
      BY <1>3 DEF Debits
    <3>2. QED
      BY <2>1, <3>1, OwedIsInt, OwedMore
  <2>5. Balance(a)' = Balance(a) - Amount(t)
    <3>1. Balance(From(t))' = Balance(a)'
      BY <1>1, <1>5 DEF Balance, From
    <3>2. QED
      BY <1>5, <3>1, AppendMoves
  <2>7. Owed(Debits(a)') = Owed(Debits(a)) + Amount(t)
    BY <2>2, <2>4
  <2>8. /\ Balance(a) \in Int /\ Owed(Debits(a)) \in Int /\ Owed(Credits(a)) \in Int
        /\ Amount(t) \in Int
    BY <1>3, <2>0, OwedIsInt, AppendMoves
  <2>9. shown'[a] = Balance(a)' + Owed(Debits(a)') - Owed(Credits(a)')
    BY <1>1, <1>5, <2>3, <2>5, <2>7, <2>8 DEF Lags
  <2>10. QED
    BY <1>4, <2>9 DEF Lags
<1>6. ASSUME NEW a \in listed, a = To(t), Lags(a) PROVE Lags(a)'
  <2>0. a \in Ids
    BY <1>2
  <2>1. t \notin Credits(a)
    BY <1>1 DEF Credits
  <2>2. Credits(a)' = Credits(a) \cup {t}
    BY <1>1, <1>6 DEF Credits, To
  <2>3. Debits(a)' = Debits(a)
    <3>1. From(t) # a
      BY <1>6, AppendMoves
    <3>2. QED
      BY <1>1, <3>1 DEF Debits, From
  <2>4. Owed(Credits(a) \cup {t}) = Owed(Credits(a)) + Amount(t)
    <3>1. \A u \in Credits(a) \cup {t} : Amount(u) \in Int
      BY <1>3 DEF Credits
    <3>2. QED
      BY <2>1, <3>1, OwedIsInt, OwedMore
  <2>5. Balance(a)' = Balance(a) + Amount(t)
    <3>1. Balance(To(t))' = Balance(a)'
      BY <1>1, <1>6 DEF Balance, To
    <3>2. QED
      BY <1>6, <3>1, AppendMoves
  <2>7. Owed(Credits(a)') = Owed(Credits(a)) + Amount(t)
    BY <2>2, <2>4
  <2>8. /\ Balance(a) \in Int /\ Owed(Debits(a)) \in Int /\ Owed(Credits(a)) \in Int
        /\ Amount(t) \in Int
    BY <1>3, <2>0, OwedIsInt, AppendMoves
  <2>9. shown'[a] = Balance(a)' + Owed(Debits(a)') - Owed(Credits(a)')
    BY <1>1, <1>6, <2>3, <2>5, <2>7, <2>8 DEF Lags
  <2>10. QED
    BY <1>4, <2>9 DEF Lags
<1>7. \A a \in listed : a # From(t) /\ a # To(t) => log'[a] = log[a] /\ shown'[a] = shown[a]
  BY <1>1, <1>2, AppendMoves
<1>8. QED
  BY <1>1, <1>5, <1>6, <1>7, HandlerLags

LEMMA ProjectDebitLags ==
  ASSUME IInv, EntryInv, ViewInv, LagInv, NEW t \in Transfers, ProjectDebit(t)
  PROVE  LagInv'
<1>1. /\ pc[t] = "projectDebit" /\ pc'[t] = "projectCredit" /\ req' = req
      /\ listed' = listed /\ log' = log
      /\ \A u \in Transfers \ {t} : pc'[u] = pc[u] /\ transferLog'[u] = transferLog[u]
      /\ \A a \in listed : a = From(t) => shown'[a] = shown[a] - Amount(t)
      /\ \A a \in listed : a # From(t) => shown'[a] = shown[a]
  <2>1. /\ pc[t] = "projectDebit" /\ pc'[t] = "projectCredit" /\ req' = req
        /\ listed' = listed /\ log' = log
        /\ \A u \in Transfers \ {t} : pc'[u] = pc[u] /\ transferLog'[u] = transferLog[u]
    BY DEF IInv, TypeOK, ProjectDebit, Goto
  <2>2. /\ shown \in [Ids -> Int] /\ listed \subseteq Ids /\ Amount(t) \in Int
    BY AccountsAssumption, RequestTypes DEF IInv, TypeOK
  <2>3. /\ \A a \in listed : a = From(t) => shown'[a] = shown[a] - Amount(t)
        /\ \A a \in listed : a # From(t) => shown'[a] = shown[a]
    BY <2>2 DEF ProjectDebit, AddToShown
  <2>4. QED
    BY <2>1, <2>3
<1>2. From(t) # To(t)
  BY <1>1 DEF ViewInv, EntryInv, Entry
<1>3. \A u \in Transfers : Amount(u) \in Int
  BY RequestTypes DEF IInv
<1>4. \A S : Owed(S)' = Owed(S)
  BY <1>1 DEF Owed, Amount
<1>5. ASSUME NEW a \in listed, a = From(t), Lags(a) PROVE Lags(a)'
  <2>1. t \in Debits(a)
    BY <1>1, <1>5 DEF Debits
  <2>2. Debits(a)' = Debits(a) \ {t}
    BY <1>1, <1>5 DEF Debits, From
  <2>3. Credits(a)' = Credits(a)
    BY <1>1, <1>2, <1>5 DEF Credits, From, To
  <2>4. Owed(Debits(a) \ {t}) = Owed(Debits(a)) - Amount(t)
    <3>1. \A u \in Debits(a) : Amount(u) \in Int
      BY <1>3 DEF Debits
    <3>2. QED
      BY <2>1, <3>1, OwedIsInt, OwedLess
  <2>5. Owed(Debits(a)') = Owed(Debits(a)) - Amount(t)
    BY <2>2, <2>4
  <2>6. /\ Balance(a)' = Balance(a) /\ Balance(a) \in Int
    <3>1. a \in Ids /\ log[a] \in Seq(Row)
      BY AccountsAssumption DEF IInv, TypeOK
    <3>2. QED
      BY <1>1, <3>1, BalanceIsInt DEF Balance
  <2>7. /\ Owed(Debits(a)) \in Int /\ Owed(Credits(a)) \in Int /\ Amount(t) \in Int
    BY <1>3, OwedIsInt
  <2>8. shown'[a] = Balance(a)' + Owed(Debits(a)') - Owed(Credits(a)')
    <3>1. shown'[a] = shown[a] - Amount(t)
      BY <1>1, <1>5
    <3>2. shown[a] = Balance(a) + Owed(Debits(a)) - Owed(Credits(a))
      BY <1>5 DEF Lags
    <3>3. Owed(Credits(a)') = Owed(Credits(a))
      BY <2>3
    <3>4. QED
      BY <2>5, <2>6, <2>7, <3>1, <3>2, <3>3
  <2>9. QED
    BY <1>4, <2>8 DEF Lags
<1>6. ASSUME NEW a \in listed, a = To(t), Lags(a) PROVE Lags(a)'
  <2>1. shown'[a] = shown[a]
    BY <1>1, <1>2, <1>6
  <2>2. Debits(a)' = Debits(a)
    BY <1>1, <1>2, <1>6 DEF Debits, From, To
  <2>3. Credits(a)' = Credits(a)
    BY <1>1, <1>2, <1>6 DEF Credits, From, To
  <2>4. QED
    BY <1>1, <1>6, <2>1, <2>2, <2>3, LagsKept
<1>7. QED
  BY <1>1, <1>5, <1>6, HandlerLags

LEMMA ProjectCreditLags ==
  ASSUME IInv, EntryInv, ViewInv, LagInv, NEW t \in Transfers, ProjectCredit(t)
  PROVE  LagInv'
<1>1. /\ pc[t] = "projectCredit" /\ pc'[t] = "projectTransfer" /\ req' = req
      /\ listed' = listed /\ log' = log
      /\ \A u \in Transfers \ {t} : pc'[u] = pc[u] /\ transferLog'[u] = transferLog[u]
      /\ \A a \in listed : a = To(t) => shown'[a] = shown[a] + Amount(t)
      /\ \A a \in listed : a # To(t) => shown'[a] = shown[a]
  <2>1. /\ pc[t] = "projectCredit" /\ pc'[t] = "projectTransfer" /\ req' = req
        /\ listed' = listed /\ log' = log
        /\ \A u \in Transfers \ {t} : pc'[u] = pc[u] /\ transferLog'[u] = transferLog[u]
    BY DEF IInv, TypeOK, ProjectCredit, Goto
  <2>2. /\ shown \in [Ids -> Int] /\ listed \subseteq Ids /\ Amount(t) \in Int
    BY AccountsAssumption, RequestTypes DEF IInv, TypeOK
  <2>3. /\ \A a \in listed : a = To(t) => shown'[a] = shown[a] + Amount(t)
        /\ \A a \in listed : a # To(t) => shown'[a] = shown[a]
    BY <2>2 DEF ProjectCredit, AddToShown
  <2>4. QED
    BY <2>1, <2>3
<1>2. From(t) # To(t)
  BY <1>1 DEF ViewInv, EntryInv, Entry
<1>3. \A u \in Transfers : Amount(u) \in Int
  BY RequestTypes DEF IInv
<1>4. \A S : Owed(S)' = Owed(S)
  BY <1>1 DEF Owed, Amount
<1>5. ASSUME NEW a \in listed, a = To(t), Lags(a) PROVE Lags(a)'
  <2>1. t \in Credits(a)
    BY <1>1, <1>5 DEF Credits
  <2>2. Credits(a)' = Credits(a) \ {t}
    BY <1>1, <1>5 DEF Credits, To
  <2>3. Debits(a)' = Debits(a)
    BY <1>1, <1>2, <1>5 DEF Debits, From, To
  <2>4. Owed(Credits(a) \ {t}) = Owed(Credits(a)) - Amount(t)
    <3>1. \A u \in Credits(a) : Amount(u) \in Int
      BY <1>3 DEF Credits
    <3>2. QED
      BY <2>1, <3>1, OwedIsInt, OwedLess
  <2>5. Owed(Credits(a)') = Owed(Credits(a)) - Amount(t)
    BY <2>2, <2>4
  <2>6. /\ Balance(a)' = Balance(a) /\ Balance(a) \in Int
    <3>1. a \in Ids /\ log[a] \in Seq(Row)
      BY AccountsAssumption DEF IInv, TypeOK
    <3>2. QED
      BY <1>1, <3>1, BalanceIsInt DEF Balance
  <2>7. /\ Owed(Debits(a)) \in Int /\ Owed(Credits(a)) \in Int /\ Amount(t) \in Int
    BY <1>3, OwedIsInt
  <2>8. shown'[a] = Balance(a)' + Owed(Debits(a)') - Owed(Credits(a)')
    <3>1. shown'[a] = shown[a] + Amount(t)
      BY <1>1, <1>5
    <3>2. shown[a] = Balance(a) + Owed(Debits(a)) - Owed(Credits(a))
      BY <1>5 DEF Lags
    <3>3. Owed(Debits(a)') = Owed(Debits(a))
      BY <2>3
    <3>4. QED
      BY <2>5, <2>6, <2>7, <3>1, <3>2, <3>3
  <2>9. QED
    BY <1>4, <2>8 DEF Lags
<1>6. ASSUME NEW a \in listed, a = From(t), Lags(a) PROVE Lags(a)'
  <2>1. shown'[a] = shown[a]
    BY <1>1, <1>2, <1>6
  <2>2. Debits(a)' = Debits(a)
    BY <1>1, <1>2, <1>6 DEF Debits, From, To
  <2>3. Credits(a)' = Credits(a)
    BY <1>1, <1>2, <1>6 DEF Credits, From, To
  <2>4. QED
    BY <1>1, <1>6, <2>1, <2>2, <2>3, LagsKept
<1>7. QED
  BY <1>1, <1>5, <1>6, HandlerLags

\* A handler cut off between its append and its projections leaves the rows
\* of its two accounts wrong, and no others.
LEMMA AbortLags ==
  ASSUME IInv, ViewInv, LagInv, NEW t \in Transfers, Abort(t)
  PROVE  LagInv'
<1>1. /\ pc[t] # "aborted" /\ pc'[t] = "aborted" /\ req' = req
      /\ listed' = listed /\ log' = log /\ shown' = shown /\ transferLog' = transferLog
      /\ \A u \in Transfers \ {t} : pc'[u] = pc[u]
  BY DEF IInv, TypeOK, Abort, Goto, Answered, readModels
<1>2. CASE pc[t] \in {"projectDebit", "projectCredit"}
  <2>1. CutOff(t)'
    BY <1>1, <1>2 DEF CutOff, ViewInv
  <2>2. QED
    BY <1>1, <2>1, HandlerLags
<1>3. CASE pc[t] \notin {"projectDebit", "projectCredit"}
  BY <1>1, <1>3, QuietLags
<1>4. QED
  BY <1>2, <1>3

\* The steps of an account's creation: the transfers, and what is owed, stay.
LEMMA OpeningLags ==
  ASSUME IInv, EntryInv, TotalsInv, ViewInv, LagInv, NEW b \in Accounts,
         OpenAccount(b) \/ ListAccount(b) \/ AbortOpening(b)
  PROVE  LagInv'
<1>1. /\ pc' = pc /\ req' = req /\ transferLog' = transferLog
  BY DEF OpenAccount, ListAccount, AbortOpening
<1>2. /\ \A u \in Transfers : /\ CutOff(u)' = CutOff(u)
                               /\ From(u)' = From(u) /\ To(u)' = To(u)
      /\ \A a : Debits(a)' = Debits(a) /\ Credits(a)' = Credits(a)
  BY <1>1 DEF CutOff, From, To, Debits, Credits
<1>3. ASSUME NEW a \in listed, a # b
      PROVE  log'[a] = log[a] /\ shown'[a] = shown[a]
  <2>1. a \in Ids /\ b \in Ids
    BY AccountsAssumption DEF IInv, TypeOK
  <2>2. QED
    BY <1>3, <2>1 DEF IInv, TypeOK, OpenAccount, ListAccount, AbortOpening, readModels
<1>4. b \notin listed
  BY DEF ViewInv, OpenAccount, ListAccount, AbortOpening
<1>5. ASSUME NEW a \in listed, Lags(a) PROVE Lags(a)'
  BY <1>1, <1>2, <1>3, <1>4, <1>5, LagsKept
<1>6. CASE OpenAccount(b) \/ AbortOpening(b)
  <2>1. listed' = listed
    BY <1>6 DEF OpenAccount, AbortOpening, readModels
  <2>2. QED
    BY <1>2, <1>5, <2>1 DEF LagInv
<1>7. CASE ListAccount(b)
  <2>1. /\ opening[b] = "appended" /\ listed' = listed \cup {b}
        /\ shown'[b] = log[b][1].amount /\ log' = log /\ b \in Ids
    BY <1>7, AccountsAssumption DEF ListAccount, IInv, TypeOK
  <2>2. Debits(b)' = {} /\ Credits(b)' = {}
    <3>1. \A u \in Transfers : pc[u] # "idle" => b # From(u) /\ b # To(u)
      BY <2>1 DEF ViewInv, ActiveTransfers
    <3>2. Debits(b) = {} /\ Credits(b) = {}
      BY <3>1 DEF Debits, Credits
    <3>3. QED
      BY <1>2, <3>2
  <2>3. Owed({})' = 0
    <3>1. DOMAIN [u \in {} |-> Amount(u)'] = {}
      OBVIOUS
    <3>2. QED
      BY <3>1, TotalOfNone DEF Owed
  <2>4. Balance(b)' = log[b][1].amount /\ log[b][1].amount \in Int
    <3>1. Len(log[b]) = 1 /\ log[b] \in Seq(Row)
      BY <2>1 DEF ViewInv, IInv, TypeOK
    <3>2. log[b][1] \in Row /\ log[b][1].kind = "Created"
      BY <2>1, <3>1 DEF EntryInv, Authored
    <3>3. log[b][1].balance = BalanceAt(log[b], 1 - 1) + Delta(log[b][1])
      BY <2>1, <3>1 DEF TotalsInv, Replays
    <3>4. BalanceAt(log[b], 1 - 1) = 0 /\ Delta(log[b][1]) = log[b][1].amount
      BY <3>2 DEF BalanceAt, Delta
    <3>5. log[b][1].amount \in Int
      BY <3>2 DEF Row
    <3>6. Balance(b)' = log[b][1].balance
      BY <2>1, <3>1 DEF Balance, FinalBalance, BalanceAt
    <3>7. QED
      BY <3>3, <3>4, <3>5, <3>6
  <2>5. Lags(b)'
    BY <2>1, <2>2, <2>3, <2>4 DEF Lags
  <2>6. QED
    BY <1>2, <1>5, <2>1, <2>5 DEF LagInv
<1>8. QED
  BY <1>6, <1>7

-----------------------------------------------------------------------------

\* A step of a handler that has begun touches accounts that are open.
LEMMA HandlerView ==
  ASSUME ViewInv, NEW t \in Transfers, pc[t] # "idle",
         req' = req, listed' = listed, opening' = opening,
         \A u \in Transfers \ {t} : pc'[u] = pc[u] /\ transferLog'[u] = transferLog[u],
         pc'[t] \in {"projectDebit", "projectCredit"} => transferLog'[t] = "Completed",
         \A a \in Accounts : a # From(t) /\ a # To(t) => log'[a] = log[a]
  PROVE  ViewInv'
<1>1. \A u \in Transfers : From(u)' = From(u) /\ To(u)' = To(u)
  BY DEF From, To
<1>2. t \in ActiveTransfers /\ ActiveTransfers' \in SUBSET ActiveTransfers
  BY DEF ActiveTransfers
<1>3. IsFiniteSet(ActiveTransfers')
  BY <1>2, FS_Subset DEF ViewInv
<1>4. \A a \in listed' : opening'[a] = "done"
  BY DEF ViewInv
<1>5. \A a \in Accounts : opening'[a] # "done" =>
        \A u \in ActiveTransfers' : a # From(u)' /\ a # To(u)'
  <2>1. \A a \in Accounts : opening[a] # "done" =>
          \A u \in ActiveTransfers : a # From(u) /\ a # To(u)
    BY DEF ViewInv
  <2>2. ActiveTransfers \subseteq Transfers
    BY DEF ActiveTransfers
  <2>3. QED
    BY <1>1, <1>2, <2>1, <2>2
<1>6. \A a \in Accounts : opening'[a] = "appended" => Len(log'[a]) = 1
  BY <1>2 DEF ViewInv
<1>7. \A u \in Transfers :
        pc'[u] \in {"projectDebit", "projectCredit"} => transferLog'[u] = "Completed"
  BY DEF ViewInv
<1>8. QED
  BY <1>3, <1>4, <1>5, <1>6, <1>7 DEF ViewInv

\* A request that arrives names accounts the client knows.
LEMMA ReceiveView ==
  ASSUME IInv, ViewInv, LagInv, NEW t \in Transfers, Receive(t)
  PROVE  ViewInv' /\ LagInv'
<1>1. /\ pc[t] = "idle" /\ pc'[t] = "sourceSnapshot" /\ req' = req
      /\ listed' = listed /\ opening' = opening /\ log' = log /\ shown' = shown
      /\ transferLog' = transferLog
      /\ \A u \in Transfers \ {t} : pc'[u] = pc[u]
      /\ From(t) \in Known /\ To(t) \in Known
  BY DEF IInv, TypeOK, Receive, Goto, readModels
<1>2. \A u \in Transfers : From(u)' = From(u) /\ To(u)' = To(u)
  BY <1>1 DEF From, To
<1>3. ActiveTransfers' = ActiveTransfers \cup {t}
  BY <1>1 DEF ActiveTransfers
<1>4. IsFiniteSet(ActiveTransfers')
  BY <1>3, FS_AddElement DEF ViewInv
<1>5. \A a \in Accounts : opening[a] # "done" => a # From(t) /\ a # To(t)
  BY <1>1 DEF Known, ViewInv
<1>6. \A a \in Accounts : opening'[a] # "done" =>
        \A u \in ActiveTransfers' : a # From(u)' /\ a # To(u)'
  <2>1. \A a \in Accounts : opening[a] # "done" =>
          \A u \in ActiveTransfers : a # From(u) /\ a # To(u)
    BY DEF ViewInv
  <2>2. ActiveTransfers \subseteq Transfers
    BY DEF ActiveTransfers
  <2>3. QED
    BY <1>1, <1>2, <1>3, <1>5, <2>1, <2>2
<1>7. ViewInv'
  BY <1>1, <1>4, <1>6 DEF ViewInv
<1>8. LagInv'
  BY <1>1, QuietLags
<1>9. QED
  BY <1>7, <1>8

LEMMA OpeningView ==
  ASSUME IInv, ViewInv, NEW b \in Accounts,
         OpenAccount(b) \/ ListAccount(b) \/ AbortOpening(b)
  PROVE  ViewInv'
<1>1. /\ pc' = pc /\ req' = req /\ transferLog' = transferLog
  BY DEF OpenAccount, ListAccount, AbortOpening
<1>2. /\ ActiveTransfers' = ActiveTransfers
      /\ \A u : From(u)' = From(u) /\ To(u)' = To(u)
  BY <1>1 DEF ActiveTransfers, From, To
<1>3. /\ opening \in [Accounts -> {"none", "appended", "done", "aborted"}]
      /\ b \in Ids /\ log \in [Ids -> Seq(Row)] /\ Accounts \subseteq Ids
  BY AccountsAssumption DEF IInv, TypeOK
<1>4. /\ \A a \in Accounts \ {b} : opening'[a] = opening[a] /\ log'[a] = log[a]
      /\ opening[b] # "done"
  BY <1>3 DEF OpenAccount, ListAccount, AbortOpening
<1>5. \A a \in listed' : opening'[a] = "done"
  <2>1. \A a \in listed : a \in Accounts \ {b} /\ opening[a] = "done"
    BY <1>4 DEF IInv, TypeOK, ViewInv
  <2>2. listed' = listed \/ (listed' = listed \cup {b} /\ opening'[b] = "done")
    BY <1>3 DEF OpenAccount, ListAccount, AbortOpening, readModels
  <2>3. QED
    BY <1>4, <2>1, <2>2
<1>6. \A a \in Accounts : opening'[a] # "done" =>
        \A u \in ActiveTransfers' : a # From(u)' /\ a # To(u)'
  <2>1. \A a \in Accounts : opening'[a] # "done" => opening[a] # "done"
    BY <1>4
  <2>2. QED
    BY <1>2, <2>1 DEF ViewInv
<1>7. opening'[b] = "appended" => Len(log'[b]) = 1
  <2>1. ASSUME OpenAccount(b) PROVE Len(log'[b]) = 1
    <3>1. PICK balance \in OpeningBalances :
            log' = [log EXCEPT ![b] = AppendEvent(@, "Created", balance, NoTransfer)]
      BY <2>1 DEF OpenAccount
    <3>2. log'[b] = AppendEvent(log[b], "Created", balance, NoTransfer)
      BY <1>3, <3>1
    <3>3. log[b] \in Seq(Row) /\ log[b] = <<>> /\ balance \in Int
      BY <1>3, <2>1, OpeningBalancesAssumption DEF IInv, Existing, OpenAccount
    <3>4. Len(AppendEvent(log[b], "Created", balance, NoTransfer)) = 1
      BY <3>3, FirstRow
    <3>5. QED
      BY <3>2, <3>4
  <2>2. ASSUME ListAccount(b) \/ AbortOpening(b) PROVE opening'[b] # "appended"
    BY <1>3, <2>2 DEF ListAccount, AbortOpening
  <2>3. QED
    BY <2>1, <2>2
<1>8. \A a \in Accounts : opening'[a] = "appended" => Len(log'[a]) = 1
  BY <1>4, <1>7 DEF ViewInv
<1>9. QED
  BY <1>1, <1>2, <1>5, <1>6, <1>8 DEF ViewInv

LEMMA StepView ==
  IInv /\ EntryInv /\ TotalsInv /\ ViewInv /\ LagInv /\ [Next]_vars => ViewInv' /\ LagInv'
<1> SUFFICES ASSUME IInv, EntryInv, TotalsInv, ViewInv, LagInv, [Next]_vars
             PROVE  ViewInv' /\ LagInv'
  OBVIOUS
<1>0. pc \in [Transfers -> Stages] /\ transferLog \in [Transfers -> {"none", "Completed", "Failed"}]
  BY DEF IInv, TypeOK
<1>1. ASSUME NEW a \in Accounts, OpenAccount(a) \/ ListAccount(a) \/ AbortOpening(a)
      PROVE  ViewInv' /\ LagInv'
  BY <1>1, OpeningView, OpeningLags
<1>2. ASSUME NEW t \in Transfers, Load(t) \/ RejectConflict(t) \/ AppendFailed(t)
             \/ ProjectCompleted(t) \/ ProjectFailed(t)
             \/ SnapshotSource(t) \/ SnapshotDest(t)
      PROVE  ViewInv' /\ LagInv'
  <2>1. /\ req' = req /\ listed' = listed /\ opening' = opening /\ log' = log
        /\ shown' = shown
    BY <1>2 DEF Load, LoadSourceSnapshot, LoadSourceEvents, LoadDestSnapshot,
       LoadDestEvents, RejectConflict, AppendFailed, ProjectCompleted, ProjectFailed,
       SnapshotSource, SnapshotDest, ReadForSnapshot, SaveSnapshot, readModels
  <2>2. /\ pc[t] \notin {"idle", "aborted", "projectDebit", "projectCredit"}
        /\ pc'[t] \notin {"projectDebit", "projectCredit"}
        /\ \A u \in Transfers \ {t} : pc'[u] = pc[u]
    BY <1>0, <1>2 DEF Load, LoadSourceSnapshot, LoadSourceEvents, LoadDestSnapshot,
       LoadDestEvents, RejectConflict, AppendFailed, ProjectCompleted, ProjectFailed,
       SnapshotSource, SnapshotDest, Goto, GotoDestSnapshot
  <2>3. \A u \in Transfers \ {t} : transferLog'[u] = transferLog[u]
    BY <1>0, <1>2 DEF Load, LoadSourceSnapshot, LoadSourceEvents, LoadDestSnapshot,
       LoadDestEvents, RejectConflict, AppendFailed, ProjectCompleted, ProjectFailed,
       SnapshotSource, SnapshotDest, ReadForSnapshot, SaveSnapshot
  <2>4. QED
    BY <2>1, <2>2, <2>3, HandlerView, QuietLags
<1>3. ASSUME NEW t \in Transfers, ProjectDebit(t) \/ ProjectCredit(t) \/ Abort(t)
      PROVE  ViewInv' /\ LagInv'
  <2>1. /\ req' = req /\ listed' = listed /\ opening' = opening /\ log' = log
        /\ transferLog' = transferLog /\ pc[t] # "idle"
        /\ \A u \in Transfers \ {t} : pc'[u] = pc[u]
    BY <1>0, <1>3 DEF ProjectDebit, ProjectCredit, Abort, Goto, readModels
  <2>2. pc'[t] \in {"projectDebit", "projectCredit"} => transferLog'[t] = "Completed"
    BY <1>0, <1>3 DEF ProjectDebit, ProjectCredit, Abort, Goto, ViewInv
  <2>3. ViewInv'
    BY <2>1, <2>2, HandlerView
  <2>4. LagInv'
    BY <1>3, ProjectDebitLags, ProjectCreditLags, AbortLags
  <2>5. QED
    BY <2>3, <2>4
<1>4. ASSUME NEW t \in Transfers, AppendCompleted(t)
      PROVE  ViewInv' /\ LagInv'
  <2>1. /\ req' = req /\ listed' = listed /\ opening' = opening
        /\ pc[t] # "idle" /\ transferLog'[t] = "Completed"
        /\ \A u \in Transfers \ {t} : pc'[u] = pc[u] /\ transferLog'[u] = transferLog[u]
    BY <1>0, <1>4 DEF AppendCompleted, Goto, readModels
  <2>2. \A a \in Accounts : a # From(t) /\ a # To(t) => log'[a] = log[a]
    BY <1>4, AccountsAssumption, AppendMoves
  <2>3. QED
    BY <1>4, <2>1, <2>2, HandlerView, AppendCompletedLags
<1>5. CASE UNCHANGED vars
  <2>1. ViewInv'
    BY <1>5 DEF vars, ViewInv, ActiveTransfers, From, To
  <2>2. LagInv'
    BY <1>5 DEF vars, LagInv, CutOff, Lags, Owed, Debits, Credits, Balance, From, To, Amount
  <2>3. QED
    BY <2>1, <2>2
<1>6. QED
  BY <1>1, <1>2, <1>3, <1>4, <1>5, ReceiveView DEF Next, Handle, Store, Project

\* A listed balance differs from the replayed stream by exactly the
\* projections that handlers have yet to run.
THEOREM ReadModelOnlyLags == Spec => []ReadModelLag
<1>1. Spec => [](IInv /\ EntryInv /\ TotalsInv)
  BY Invariance, AlwaysEntryInv, AlwaysTotals, PTL
<1>2. Spec => []LagInv
  BY <1>1, InitView, StepView, PTL DEF Spec
<1>3. QED
  BY <1>2, LagInvSuffices, PTL

-----------------------------------------------------------------------------
(* The rebuild *)

RebuildStages == {"none", "off", "deleted", "applying", "done", "failed"}

\* What the rebuild has yet to project is in the streams.
Selected ==
  /\ todo \subseteq Accounts \X Nat
  /\ \A a \in Accounts, v \in Nat : <<a, v>> \in todo => v \in 1 .. Len(log[a])

\* The first n events of an account are projected, the others are to come.
Applied(a, n) ==
  /\ \A v \in Nat : <<a, v>> \in todo <=> v \in n + 1 .. Len(log[a])
  /\ a \in listed <=> n > 0
  /\ n > 0 => shown[a] = BalanceAt(log[a], n)

\* While the rebuild runs, an account that no handler works on has the row of
\* a prefix of its stream.
RestoreInv ==
  /\ stage \in RebuildStages
  /\ Rebuilding => Active \subseteq disturbed
  /\ stage = "deleted" => \A a \in Accounts \ disturbed : a \notin listed
  /\ stage = "applying" =>
       /\ Selected
       /\ \A a \in Accounts \ disturbed : \E n \in 0 .. Len(log[a]) : Applied(a, n)

\* What the streams, the snapshots and the handlers keep to, with or without
\* a rebuild.
BankInv == IInv /\ EntryInv /\ TotalsInv

LEMMA ActiveAccounts ==
  ASSUME NEW a \in Accounts
  PROVE  a \in Active <=>
           \/ opening[a] = "appended"
           \/ \E t \in Transfers : InFlight(t) /\ (a = From(t) \/ a = To(t))
BY DEF Active

LEMMA EntriesKept ==
  ASSUME IInv, EntryInv, UNCHANGED <<log, transferLog, pc, req, held>>
  PROVE  EntryInv'
<1>1. Extends /\ \A u \in Transfers : SameRows(u)
  BY DEF IInv, TypeOK, Extends, SameRows
<1>2. Authored'
  BY DEF EntryInv, Authored
<1>3. \A u \in Transfers : Entry(u)'
  BY <1>1, EntryKept DEF IInv, EntryInv
<1>4. ASSUME NEW u \in Transfers, pc'[u] = "conflict" PROVE Contended(u)'
  BY <1>1, <1>4, ContendedKept DEF IInv, EntryInv
<1> QED
  BY <1>2, <1>3, <1>4 DEF EntryInv

\* The rebuild writes rows of account_read_model and nothing else.
LEMMA RowsOnly ==
  ASSUME BankInv, UNCHANGED <<log, transferLog, snap, transferRow, opening, pc, req, held>>,
         listed' \subseteq Accounts, shown' \in [Ids -> Int]
  PROVE  BankInv'
<1>1. TypeOK'
  BY DEF BankInv, IInv, TypeOK
<1>2. Grows /\ Existing' /\ NoOverdraft' /\ SnapshotIsReplay'
  BY SameTables DEF BankInv
<1>3. \A t \in Transfers : HandlerOK(t)'
  BY <1>2, OtherHandler DEF BankInv, IInv
<1>4. EntryInv'
  BY EntriesKept DEF BankInv
<1>5. TotalsInv'
  BY SameStreamsTotals DEF BankInv
<1> QED
  BY <1>1, <1>2, <1>3, <1>4, <1>5 DEF BankInv, IInv

LEMMA ListConflictKeeps ==
  ASSUME BankInv, NEW a \in Accounts, ListConflict(a)
  PROVE  BankInv'
<1>1. TypeOK'
  BY DEF BankInv, IInv, TypeOK, ListConflict, readModels
<1>2. Grows /\ Existing' /\ NoOverdraft' /\ SnapshotIsReplay'
  BY DEF BankInv, IInv, TypeOK, Grows, Existing, NoOverdraft, SnapshotIsReplay, Version,
         ListConflict
<1>3. \A t \in Transfers : HandlerOK(t)'
  BY <1>2, OtherHandler DEF BankInv, IInv, ListConflict
<1>4. EntryInv'
  BY EntriesKept DEF BankInv, ListConflict
<1>5. TotalsInv'
  BY SameStreamsTotals DEF BankInv, ListConflict
<1> QED
  BY <1>1, <1>2, <1>3, <1>4, <1>5 DEF BankInv, IInv

\* A step of a handler is one of the bank, or the refusal of a row that is
\* listed already.
LEMMA BankSteps ==
  ASSUME BankStep
  PROVE  Next \/ \E a \in Accounts : ListConflict(a)
BY DEF BankStep, Next

LEMMA BankStepKeeps == BankInv /\ [Next]_vars => BankInv'
BY StepInv, StepEntries, StepTotals DEF BankInv

\* The row of an event: the first creates the account, the others move its
\* balance.
LEMMA EventRows ==
  ASSUME BankInv, NEW a \in Accounts, NEW v \in 1 .. Len(log[a])
  PROVE  /\ log[a][v].amount \in Int
         /\ v = 1 <=> log[a][v].kind = "Created"
         /\ v = 1 => BalanceAt(log[a], 1) = log[a][v].amount
         /\ BalanceAt(log[a], v) = BalanceAt(log[a], v - 1) + Delta(log[a][v])
         /\ BalanceAt(log[a], v) \in Int
<1>1. a \in Ids /\ log[a] \in Seq(Row) /\ v \in Nat
  BY AccountsAssumption DEF BankInv, IInv, TypeOK
<1>2. log[a][v] \in Row
  BY <1>1
<1>3. /\ v = 1 => log[a][v].kind = "Created"
      /\ v > 1 => log[a][v].kind \in Sides
  BY <1>1 DEF BankInv, EntryInv, Authored
<1>4. log[a][v].balance = BalanceAt(log[a], v - 1) + Delta(log[a][v])
  BY <1>1 DEF BankInv, TotalsInv, Replays
<1>5. BalanceAt(log[a], v) = log[a][v].balance
  BY <1>1 DEF BalanceAt
<1>6. log[a][v].amount \in Int /\ log[a][v].balance \in Int
  BY <1>2 DEF Row
<1>7. v = 1 => BalanceAt(log[a], v - 1) = 0
  BY DEF BalanceAt
<1>8. v = 1 <=> log[a][v].kind = "Created"
  BY <1>1, <1>3 DEF Sides
<1>9. v = 1 => Delta(log[a][v]) = log[a][v].amount
  BY <1>3 DEF Delta
<1> QED
  BY <1>4, <1>5, <1>6, <1>7, <1>8, <1>9

-----------------------------------------------------------------------------

LEMMA InitRestore == RebuildInit => BankInv /\ RestoreInv
<1>1. RebuildInit => BankInv
  BY InitInv, InitEntries, InitTotals DEF RebuildInit, BankInv
<1>2. RebuildInit => RestoreInv
  BY DEF RebuildInit, RestoreInv, RebuildStages, Rebuilding
<1> QED BY <1>1, <1>2

\* A handler leaves the stream and the row of an account alone that it does
\* not work on before or after its step, and it only adds to streams.
LEMMA Untouched ==
  ASSUME BankInv, BankStep
  PROVE  /\ \A a \in Accounts : a \notin Active /\ a \notin Active' =>
              /\ log'[a] = log[a]
              /\ a \in listed' <=> a \in listed
              /\ shown'[a] = shown[a]
         /\ \A a \in Accounts : Len(log[a]) <= Len(log'[a])
<1>0. /\ log \in [Ids -> Seq(Row)] /\ shown \in [Ids -> Int] /\ Accounts \subseteq Ids
      /\ opening \in [Accounts -> {"none", "appended", "done", "aborted"}]
      /\ pc \in [Transfers -> Stages]
      /\ \A a \in Ids : Len(log[a]) \in Nat
  BY AccountsAssumption DEF BankInv, IInv, TypeOK
<1>1. ASSUME NEW b \in Accounts, OpenAccount(b)
      PROVE  /\ \A a \in Accounts : a \notin Active /\ a \notin Active' =>
                  log'[a] = log[a] /\ listed' = listed /\ shown' = shown
             /\ \A a \in Accounts : Len(log[a]) <= Len(log'[a])
  <2>1. /\ opening'[b] = "appended" /\ listed' = listed /\ shown' = shown
        /\ \A a \in Accounts \ {b} : log'[a] = log[a]
    BY <1>0, <1>1 DEF OpenAccount, readModels
  <2>2. b \in Active'
    BY <2>1 DEF Active
  <2>3. log[b] = <<>>
    BY <1>0, <1>1 DEF OpenAccount, BankInv, IInv, Existing
  <2>4. log' \in [Ids -> Seq(Row)]
    BY <1>1, OpenAccountInv DEF BankInv, IInv, TypeOK
  <2>5. \A a \in Accounts : Len(log[a]) <= Len(log'[a])
    <3>1. Len(log[b]) = 0 /\ Len(log'[b]) \in Nat
      BY <1>0, <2>3, <2>4
    <3> QED BY <1>0, <2>1, <3>1
  <2> QED BY <2>1, <2>2, <2>5
<1>2. ASSUME NEW b \in Accounts, ListAccount(b)
      PROVE  /\ \A a \in Accounts : a \notin Active =>
                  (a \in listed' <=> a \in listed) /\ shown'[a] = shown[a]
             /\ log' = log
  BY <1>0, <1>2 DEF ListAccount, Active
<1>3. ASSUME NEW b \in Accounts, AbortOpening(b) \/ ListConflict(b)
      PROVE  UNCHANGED <<log, listed, shown>>
  BY <1>3 DEF AbortOpening, ListConflict, readModels
<1>4. ASSUME NEW t \in Transfers, AppendCompleted(t)
      PROVE  /\ \A a \in Accounts : a \notin Active => log'[a] = log[a]
             /\ listed' = listed /\ shown' = shown
             /\ \A a \in Accounts : Len(log[a]) <= Len(log'[a])
  <2>1. InFlight(t)
    BY <1>4 DEF AppendCompleted, InFlight, Answered
  <2>2. /\ \A a \in Ids \ {From(t), To(t)} : log'[a] = log[a]
        /\ log'[From(t)] = AppendEvent(log[From(t)], "Debited", Amount(t), t)
        /\ log'[To(t)] = AppendEvent(log[To(t)], "Credited", Amount(t), t)
        /\ From(t) \in Ids /\ To(t) \in Ids /\ Amount(t) \in Int
    BY <1>4, AppendMoves DEF BankInv
  <2>3. \A a \in Accounts : a \notin Active => a # From(t) /\ a # To(t)
    BY <2>1, ActiveAccounts
  <2>4. /\ Len(log'[From(t)]) = Len(log[From(t)]) + 1
        /\ Len(log'[To(t)]) = Len(log[To(t)]) + 1
    <3>1. "Debited" \in Kinds /\ "Credited" \in Kinds /\ t \in Authors
      BY DEF Kinds, Authors
    <3> QED BY <1>0, <2>2, <3>1, AppendEventRows
  <2>5. \A a \in Accounts : Len(log[a]) <= Len(log'[a])
    <3>1. \A a \in Ids : Len(log'[a]) = Len(log[a]) \/ Len(log'[a]) = Len(log[a]) + 1
      BY <2>2, <2>4
    <3> QED BY <1>0, <3>1
  <2> QED BY <1>0, <1>4, <2>2, <2>3, <2>5 DEF AppendCompleted, readModels
<1>5. ASSUME NEW t \in Transfers, ProjectDebit(t) \/ ProjectCredit(t)
      PROVE  /\ \A a \in Accounts : a \notin Active => shown'[a] = shown[a]
             /\ listed' = listed /\ log' = log
  <2>1. InFlight(t)
    BY <1>5 DEF ProjectDebit, ProjectCredit, InFlight, Answered
  <2>2. \A a \in Accounts : a \notin Active => a # From(t) /\ a # To(t)
    BY <2>1, ActiveAccounts
  <2> QED BY <1>0, <1>5, <2>2 DEF ProjectDebit, ProjectCredit, AddToShown
<1>6. ASSUME NEW t \in Transfers, Receive(t) \/ Load(t) \/ RejectConflict(t) \/ AppendFailed(t)
             \/ ProjectCompleted(t) \/ ProjectFailed(t)
             \/ SnapshotSource(t) \/ SnapshotDest(t) \/ Abort(t)
      PROVE  UNCHANGED <<log, listed, shown>>
  BY <1>6 DEF Receive, Abort, Load, LoadSourceSnapshot, LoadSourceEvents, LoadDestSnapshot,
     LoadDestEvents, RejectConflict, AppendFailed, ProjectCompleted, ProjectFailed,
     SnapshotSource, SnapshotDest, ReadForSnapshot, SaveSnapshot, readModels
<1>7. CASE UNCHANGED <<log, listed, shown>>
  BY <1>0, <1>7
<1>8. ASSUME NEW b \in Accounts, OpenAccount(b) \/ AbortOpening(b) \/ ListConflict(b) \/ ListAccount(b)
      PROVE  /\ \A a \in Accounts : a \notin Active /\ a \notin Active' =>
                  /\ log'[a] = log[a]
                  /\ a \in listed' <=> a \in listed
                  /\ shown'[a] = shown[a]
             /\ \A a \in Accounts : Len(log[a]) <= Len(log'[a])
  BY <1>0, <1>1, <1>2, <1>3, <1>7, <1>8
<1>9. ASSUME NEW t \in Transfers, Receive(t) \/ Handle(t) \/ Abort(t)
      PROVE  /\ \A a \in Accounts : a \notin Active /\ a \notin Active' =>
                  /\ log'[a] = log[a]
                  /\ a \in listed' <=> a \in listed
                  /\ shown'[a] = shown[a]
             /\ \A a \in Accounts : Len(log[a]) <= Len(log'[a])
  BY <1>0, <1>4, <1>5, <1>6, <1>7, <1>9 DEF Handle, Store, Project
<1> QED BY <1>8, <1>9 DEF BankStep

\* The next event of an account brings its row to the next prefix; that of
\* another account leaves it alone.
LEMMA Apply1Row ==
  ASSUME BankInv, NEW b \in Accounts, NEW w \in 1 .. Len(log[b]), Apply1(b, w)
  PROVE  /\ \A a \in Accounts \ {b} : (a \in listed' <=> a \in listed) /\ shown'[a] = shown[a]
         /\ listed' \subseteq Accounts /\ shown' \in [Ids -> Int]
         /\ stage' \in {stage, "failed"}
         /\ stage' # "failed" /\ (b \in listed <=> w > 1)
              /\ (w > 1 => shown[b] = BalanceAt(log[b], w - 1)) =>
                b \in listed' /\ shown'[b] = BalanceAt(log[b], w)
<1> DEFINE row == log[b][w]
<1>1. /\ listed \subseteq Accounts /\ shown \in [Ids -> Int] /\ b \in Ids /\ w \in Nat
      /\ Accounts \subseteq Ids
  BY AccountsAssumption DEF BankInv, IInv, TypeOK
<1>2. /\ row.amount \in Int
      /\ w = 1 <=> row.kind = "Created"
      /\ w = 1 => BalanceAt(log[b], 1) = row.amount
      /\ BalanceAt(log[b], w) = BalanceAt(log[b], w - 1) + Delta(row)
  BY EventRows
<1> HIDE DEF row
<1>3. Delta(row) \in Int
  BY <1>2 DEF Delta
<1>4. CASE row.kind = "Created" /\ b \notin listed
  <2>1. /\ listed' = listed \cup {b} /\ shown' = [shown EXCEPT ![b] = row.amount]
        /\ stage' = stage
    BY <1>4 DEF Apply1, row
  <2> QED BY <1>1, <1>2, <1>4, <2>1
<1>5. CASE row.kind = "Created" /\ b \in listed
  BY <1>1, <1>5 DEF Apply1, row
<1>6. CASE row.kind # "Created"
  <2>1. /\ listed' = listed /\ stage' = stage
        /\ shown' = IF b \in listed THEN [shown EXCEPT ![b] = @ + Delta(row)] ELSE shown
    BY <1>6 DEF Apply1, AddToShown, row, Delta
  <2>2. w > 1
    BY <1>1, <1>2, <1>6
  <2>3. CASE b \in listed
    <3>1. shown' = [shown EXCEPT ![b] = shown[b] + Delta(row)]
      BY <2>1, <2>3
    <3> QED BY <1>1, <1>2, <1>3, <2>1, <2>2, <2>3, <3>1
  <2>4. CASE b \notin listed
    BY <1>1, <2>1, <2>2, <2>4
  <2> QED BY <2>3, <2>4
<1> QED BY <1>4, <1>5, <1>6

LEMMA ProjectNextRestore ==
  ASSUME BankInv, RestoreInv, ProjectNext, RebuildNext
  PROVE  BankInv' /\ RestoreInv'
<1>1. PICK e \in todo : /\ \A f \in todo : e[2] <= f[2]
                        /\ Apply1(e[1], e[2])
                        /\ todo' = todo \ {e}
  BY DEF ProjectNext
<1>2. /\ stage = "applying" /\ Selected
      /\ UNCHANGED <<log, transferLog, snap, transferRow, opening, pc, req, held>>
      /\ Rebuilding /\ Active \subseteq disturbed
      /\ \A a \in Accounts \ disturbed : \E n \in 0 .. Len(log[a]) : Applied(a, n)
  BY DEF ProjectNext, RestoreInv, Rebuilding
<1>3. PICK b \in Accounts, w \in Nat : e = <<b, w>> /\ w \in 1 .. Len(log[b])
  BY <1>1, <1>2 DEF Selected
<1>4. Apply1(b, w) /\ \A f \in todo : w <= f[2]
  BY <1>1, <1>3
<1>5. /\ \A a \in Accounts \ {b} : (a \in listed' <=> a \in listed) /\ shown'[a] = shown[a]
      /\ listed' \subseteq Accounts /\ shown' \in [Ids -> Int]
      /\ stage' \in {stage, "failed"}
      /\ stage' # "failed" /\ (b \in listed <=> w > 1)
           /\ (w > 1 => shown[b] = BalanceAt(log[b], w - 1)) =>
             b \in listed' /\ shown'[b] = BalanceAt(log[b], w)
  BY <1>3, <1>4, Apply1Row
<1>6. BankInv'
  BY <1>2, <1>5, RowsOnly
<1>7. CASE stage' = "failed"
  BY <1>6, <1>7 DEF RestoreInv, RebuildStages, Rebuilding
<1>8. CASE stage' = "applying"
  <2>1. Active' = Active /\ disturbed' = disturbed \cup Active'
    BY <1>2, <1>8 DEF Active, InFlight, From, To, RebuildNext, Rebuilding
  <2>2. disturbed' = disturbed
    BY <1>2, <2>1
  <2>3. Selected'
    BY <1>1, <1>2 DEF Selected
  <2>4. ASSUME NEW a \in Accounts \ disturbed PROVE \E n \in 0 .. Len(log'[a]) : Applied(a, n)'
    <3>1. Len(log[a]) \in Nat
      BY AccountsAssumption DEF BankInv, IInv, TypeOK
    <3>2. PICK n \in 0 .. Len(log[a]) : Applied(a, n)
      BY <1>2
    <3>3. CASE a # b
      <4>1. \A v \in Nat : <<a, v>> \in todo' <=> <<a, v>> \in todo
        BY <1>1, <1>3, <3>3
      <4>2. Applied(a, n)'
        BY <1>2, <1>5, <3>2, <3>3, <4>1 DEF Applied
      <4> QED BY <1>2, <3>2, <4>2
    <3>4. CASE a = b
      <4>1. \A v \in Nat : <<b, v>> \in todo <=> v \in n + 1 .. Len(log[b])
        BY <3>2, <3>4 DEF Applied
      <4>2. w \in n + 1 .. Len(log[b]) /\ n + 1 \in n + 1 .. Len(log[b])
        BY <1>1, <1>3, <3>1, <3>4, <4>1
      <4>3. <<b, n + 1>> \in todo
        BY <4>1, <4>2
      <4>4. w <= n + 1
        BY <1>4, <4>3
      <4>5. w = n + 1
        BY <4>2, <4>4
      <4>6. /\ b \in listed <=> w > 1
            /\ w > 1 => shown[b] = BalanceAt(log[b], w - 1)
        BY <3>2, <3>4, <4>5 DEF Applied
      <4>7. b \in listed' /\ shown'[b] = BalanceAt(log'[b], w)
        BY <1>2, <1>5, <1>8, <4>6
      <4>8. \A v \in Nat : <<b, v>> \in todo' <=> v \in w + 1 .. Len(log[b])
        <5>1. \A v \in Nat : <<b, v>> \in todo' <=> <<b, v>> \in todo /\ v # w
          BY <1>1, <1>3
        <5> QED BY <3>1, <4>1, <4>5, <5>1
      <4>9. Applied(b, w)'
        BY <1>2, <1>3, <4>7, <4>8 DEF Applied
      <4>10. w \in 0 .. Len(log'[b])
        BY <1>2, <1>3
      <4> QED BY <3>4, <4>9, <4>10
    <3> QED BY <3>3, <3>4
  <2>5. Active' \subseteq disturbed'
    BY <2>1
  <2> QED BY <1>6, <1>8, <2>2, <2>3, <2>4, <2>5 DEF RestoreInv, RebuildStages
<1> QED BY <1>2, <1>5, <1>7, <1>8

\* The SELECT finds every event, and no account that nobody works on has a row.
LEMMA SelectEventsRestore ==
  ASSUME BankInv, RestoreInv, SelectEvents, RebuildNext
  PROVE  RestoreInv'
<1>1. /\ stage = "deleted" /\ stage' = "applying" /\ UNCHANGED vars
      /\ todo' = UNION {{<<a, v>> : v \in 1 .. Version(a)} : a \in Accounts}
  BY DEF SelectEvents
<1>2. Active' = Active /\ disturbed' = disturbed \cup Active'
  BY <1>1 DEF Active, InFlight, From, To, RebuildNext, Rebuilding, vars
<1>3. Active \subseteq disturbed /\ disturbed' = disturbed
  BY <1>1, <1>2 DEF RestoreInv, Rebuilding
<1>4. \A a \in Accounts : Len(log[a]) \in Nat
  BY AccountsAssumption DEF BankInv, IInv, TypeOK
<1>5. \A x : x \in todo' <=> \E a \in Accounts : \E v \in 1 .. Len(log[a]) : x = <<a, v>>
  BY <1>1 DEF Version
<1>6. \A a \in Accounts, v \in Nat : <<a, v>> \in todo' <=> v \in 1 .. Len(log[a])
  BY <1>5
<1>7. todo' \subseteq Accounts \X Nat
  BY <1>4, <1>5
<1>8. Selected'
  BY <1>1, <1>6, <1>7 DEF Selected, vars
<1>9. ASSUME NEW a \in Accounts \ disturbed PROVE 0 \in 0 .. Len(log'[a]) /\ Applied(a, 0)'
  <2>1. a \notin listed
    BY <1>1 DEF RestoreInv
  <2>2. log' = log /\ listed' = listed
    BY <1>1 DEF vars
  <2>3. \A v \in Nat : <<a, v>> \in todo' <=> v \in 0 + 1 .. Len(log'[a])
    BY <1>6, <2>2
  <2> QED BY <1>4, <2>1, <2>2, <2>3 DEF Applied
<1> QED BY <1>1, <1>2, <1>3, <1>8, <1>9 DEF RestoreInv, RebuildStages

\* A step of a handler while the rebuild runs.
LEMMA HandlerRestore ==
  ASSUME BankInv, RestoreInv, BankStep, UNCHANGED <<stage, todo>>, RebuildNext
  PROVE  RestoreInv'
<1>1. CASE ~Rebuilding
  BY <1>1 DEF RestoreInv, Rebuilding
<1>2. CASE Rebuilding
  <2>1. /\ Active \subseteq disturbed /\ disturbed' = disturbed \cup Active'
    BY <1>2 DEF RestoreInv, RebuildNext, Rebuilding
  <2>2. \A a \in Accounts \ disturbed' :
          /\ a \notin disturbed
          /\ log'[a] = log[a] /\ (a \in listed' <=> a \in listed) /\ shown'[a] = shown[a]
    BY <2>1, Untouched
  <2>3. CASE stage = "deleted"
    BY <2>1, <2>2, <2>3 DEF RestoreInv, Rebuilding
  <2>4. CASE stage = "applying"
    <3>1. Selected
      BY <2>4 DEF RestoreInv
    <3>2. Selected'
      <4>1. \A a \in Accounts : Len(log[a]) \in Nat /\ Len(log'[a]) \in Int /\ Len(log[a]) <= Len(log'[a])
        <5>1. \A a \in Accounts : Len(log[a]) <= Len(log'[a])
          BY Untouched
        <5>2. BankInv'
          BY BankSteps, BankStepKeeps, ListConflictKeeps
        <5> QED BY <5>1, <5>2, AccountsAssumption DEF BankInv, IInv, TypeOK
      <4> QED BY <3>1, <4>1 DEF Selected
    <3>3. ASSUME NEW a \in Accounts \ disturbed' PROVE \E n \in 0 .. Len(log'[a]) : Applied(a, n)'
      <4>1. PICK n \in 0 .. Len(log[a]) : Applied(a, n)
        BY <2>2, <2>4 DEF RestoreInv
      <4>2. Applied(a, n)'
        BY <2>2, <4>1 DEF Applied
      <4> QED BY <2>2, <4>1, <4>2
    <3> QED BY <2>1, <2>4, <3>2, <3>3 DEF RestoreInv, RebuildStages
  <2> QED BY <1>2, <2>3, <2>4 DEF Rebuilding
<1> QED BY <1>1, <1>2

LEMMA StepRestore ==
  BankInv /\ RestoreInv /\ [RebuildNext]_allVars => BankInv' /\ RestoreInv'
<1> SUFFICES ASSUME BankInv, RestoreInv, [RebuildNext]_allVars PROVE BankInv' /\ RestoreInv'
  OBVIOUS
<1>1. CASE UNCHANGED allVars
  <2>1. BankInv'
    BY <1>1, BankStepKeeps DEF allVars
  <2>2. RestoreInv'
    BY <1>1 DEF allVars, vars, RestoreInv, Rebuilding, Active, InFlight, From, To, Selected, Applied
  <2> QED BY <2>1, <2>2
<1>2. CASE RebuildNext
  <2>1. CASE BankStep /\ UNCHANGED <<stage, todo>>
    <3>1. BankInv'
      BY <2>1, BankSteps, BankStepKeeps, ListConflictKeeps
    <3>2. RestoreInv'
      BY <1>2, <2>1, HandlerRestore
    <3> QED BY <3>1, <3>2
  <2>2. CASE ProjectNext
    BY <1>2, <2>2, ProjectNextRestore
  <2>3. CASE SelectEvents
    BY <1>2, <2>3, SelectEventsRestore, BankStepKeeps DEF SelectEvents
  <2>4. CASE DeleteRows
    <3>1. BankInv'
      <4>1. /\ UNCHANGED <<log, transferLog, snap, transferRow, opening, pc, req, held>>
            /\ listed' = {} /\ shown' = shown
        BY <2>4 DEF DeleteRows
      <4>2. shown' \in [Ids -> Int]
        BY <4>1 DEF BankInv, IInv, TypeOK
      <4> QED BY <4>1, <4>2, RowsOnly
    <3>2. RestoreInv'
      BY <1>2, <2>4 DEF DeleteRows, RebuildNext, RestoreInv, RebuildStages, Rebuilding
    <3> QED BY <3>1, <3>2
  <2>5. CASE Finish \/ AbortRebuild
    <3>1. UNCHANGED vars /\ stage' \in {"done", "failed"}
      BY <2>5 DEF Finish, AbortRebuild
    <3> QED BY <3>1, BankStepKeeps DEF RestoreInv, RebuildStages, Rebuilding
  <2> QED BY <1>2, <2>1, <2>2, <2>3, <2>4, <2>5 DEF RebuildNext, RebuildStep
<1> QED BY <1>1, <1>2

\* A rebuild that finishes has restored every account that no handler worked
\* on while it ran: its rows are those of the whole streams.
THEOREM RebuildRestores == RebuildSpec => UndisturbedIsRestored
<1>1. BankInv /\ RestoreInv /\ [RebuildNext]_allVars =>
        [stage # "done" /\ stage' = "done" =>
           \A a \in Accounts \ disturbed : Restored(a)']_allVars
  <2> SUFFICES ASSUME BankInv, RestoreInv, RebuildNext, stage # "done", stage' = "done",
                      NEW a \in Accounts \ disturbed
               PROVE  Restored(a)'
    BY DEF allVars
  <2>1. /\ stage = "applying" /\ todo = {} /\ UNCHANGED vars
    <3>1. ProjectNext => stage' \in {stage, "failed"}
      BY DEF ProjectNext, Apply1
    <3> QED BY <3>1 DEF RebuildNext, RebuildStep, DeleteRows, SelectEvents, Finish, AbortRebuild
  <2>2. PICK n \in 0 .. Len(log[a]) : Applied(a, n)
    BY <2>1 DEF RestoreInv
  <2>3. Len(log[a]) \in Nat /\ (log[a] = <<>> <=> Len(log[a]) = 0)
    BY AccountsAssumption DEF BankInv, IInv, TypeOK
  <2>4. n = Len(log[a])
    <3>1. n + 1 \notin n + 1 .. Len(log[a])
      BY <2>1, <2>2 DEF Applied
    <3> QED BY <2>3, <3>1
  <2>5. /\ a \in listed <=> log[a] # <<>>
        /\ a \in listed => shown[a] = FinalBalance(log[a])
    BY <2>2, <2>3, <2>4 DEF Applied, FinalBalance
  <2>6. listed' = listed /\ log' = log /\ shown' = shown
    BY <2>1 DEF vars
  <2> QED BY <2>5, <2>6 DEF Restored, Balance
<1>2. QED
  BY <1>1, InitRestore, StepRestore, PTL DEF RebuildSpec, UndisturbedIsRestored

-----------------------------------------------------------------------------
(* The ledger *)

USE AccountsAssumption, RequestsAssumption, OpeningBalancesAssumption

LedgerBalance == [a \in Ids |-> Balance(a)]

\* What the ledger sees.
Seen == <<Opened, LedgerBalance, FoundShort, transferLog, req>>

LEMMA InitRefines == Init => L!Init
BY DEF Init, L!Init, Opened, FoundShort, Balance, FinalBalance, BalanceAt, Empty

\* A step that appends no event and changes no loaded source is invisible.
LEMMA Invisible ==
  ASSUME log' = log, transferLog' = transferLog, req' = req,
         \A t \in Transfers : held'[t].source = held[t].source
  PROVE  Seen' = Seen
BY DEF Seen, Opened, LedgerBalance, Balance, FoundShort, From, To, Amount

\* A handler that stores a snapshot or its destination keeps its source.
LEMMA KeepsSource ==
  ASSUME TypeOK, NEW t \in Transfers, NEW x,
         \/ held' = held
         \/ held' = [held EXCEPT ![t].snapshot = x]
         \/ held' = [held EXCEPT ![t].dest = x]
  PROVE  \A u \in Transfers : held'[u].source = held[u].source
<1>1. ASSUME NEW u \in Transfers, u # t PROVE held'[u].source = held[u].source
  BY <1>1 DEF TypeOK
<1>2. /\ held[t] \in [snapshot : Aggregate, source : Aggregate, dest : Aggregate]
      /\ [held[t] EXCEPT !.snapshot = x].source = held[t].source
      /\ [held[t] EXCEPT !.dest = x].source = held[t].source
  BY DEF TypeOK
<1>3. \/ held'[t] = held[t]
      \/ held'[t] = [held[t] EXCEPT !.snapshot = x]
      \/ held'[t] = [held[t] EXCEPT !.dest = x]
  BY DEF TypeOK
<1>4. held'[t].source = held[t].source
  BY <1>2, <1>3
<1>5. QED
  BY <1>1, <1>4

LEMMA OpenRefines ==
  ASSUME IInv, NEW a \in Accounts, OpenAccount(a)
  PROVE  L!Open(a)
<1>1. PICK balance \in OpeningBalances :
        /\ balance >= 0
        /\ log' = [log EXCEPT ![a] = AppendEvent(@, "Created", balance, NoTransfer)]
  BY DEF OpenAccount
<1> DEFINE new == AppendEvent(log[a], "Created", balance, NoTransfer)
<1>0. log[a] = <<>>
  BY DEF IInv, Existing, OpenAccount
<1>2. /\ a \in Ids /\ log[a] \in Seq(Row)
      /\ balance \in Int /\ "Created" \in Kinds /\ NoTransfer \in Authors
  BY DEF IInv, TypeOK, Kinds, Authors
<1>3. new # <<>> /\ FinalBalance(new) = balance
  <2>0. Len(log[a]) = 0
    BY <1>0
  <2>1. new[Len(log[a]) + 1].balance
          = Apply(FinalBalance(log[a]), "Created", balance)
    BY <1>2, AppendEventRows
  <2>2. Apply(FinalBalance(log[a]), "Created", balance) = balance
    BY DEF Apply
  <2>3. new \in Seq(Row) /\ Len(new) = Len(log[a]) + 1
    BY <1>2, AppendEventRows
  <2>4. QED
    BY <2>0, <2>1, <2>2, <2>3 DEF FinalBalance, BalanceAt
<1>4. log' = [log EXCEPT ![a] = new]
  BY <1>1, <1>2
<1> HIDE DEF new
<1>5. Opened' = Opened \cup {a} /\ a \notin Opened
  BY <1>0, <1>2, <1>3, <1>4 DEF IInv, TypeOK, Opened
<1>6. LedgerBalance' = [LedgerBalance EXCEPT ![a] = balance]
  BY <1>2, <1>3, <1>4 DEF IInv, TypeOK, LedgerBalance, Balance
<1>7. FoundShort' = FoundShort
  BY DEF FoundShort, OpenAccount, Amount
<1>8. QED
  BY <1>1, <1>5, <1>6, <1>7 DEF L!Open, LedgerBalance, OpenAccount

LEMMA LoadSourceRefines ==
  ASSUME IInv, NEW t \in Transfers, LoadSourceEvents(t)
  PROVE  L!FindShort(t) \/ Seen' = Seen
<1> DEFINE stream == log[From(t)]
           base == held[t].snapshot
           loaded == Replay(stream, base)
<1>1. CASE Missing(stream, base)
  BY <1>1, Invisible DEF LoadSourceEvents
<1>2. CASE ~Missing(stream, base)
  <2>1. /\ From(t) \in Ids /\ stream \in Seq(Row)
        /\ base \in Aggregate /\ IsReplay(stream, base)
    BY RequestTypes, HeldTypes DEF IInv, TypeOK, HandlerOK, LoadSourceEvents
  <2>2. loaded.version = Len(stream) /\ loaded.balance = Balance(From(t))
    BY <2>1, ReplayIsWhole DEF Balance
  <2>3. stream # <<>>
    BY <1>2, <2>1 DEF Missing, IsReplay, Aggregate, Empty, BalanceAt
  <2>4. loaded.version > 0
    BY <2>1, <2>2, <2>3
  <2>5. held' = [held EXCEPT ![t].source = loaded]
    BY <1>2 DEF LoadSourceEvents
  <2>6. held[t].source.version = 0 /\ transferLog[t] = "none"
    BY DEF IInv, HandlerOK, LoadSourceEvents, Empty, BeforeAppend
  <2> HIDE DEF loaded
  <2>7. /\ \A u \in Transfers \ {t} : held'[u].source = held[u].source
        /\ held'[t].source = loaded
    BY <2>5 DEF IInv, TypeOK
  <2>8. Amount(t)' = Amount(t) /\ req' = req /\ log' = log /\ transferLog' = transferLog
    BY DEF LoadSourceEvents, Amount
  <2>9. Opened' = Opened /\ LedgerBalance' = LedgerBalance
    BY <2>8 DEF Opened, LedgerBalance, Balance
  <2>10. CASE loaded.balance < Amount(t)
    <3>1. FoundShort' = FoundShort \cup {t}
      BY <2>4, <2>7, <2>8, <2>10 DEF FoundShort, Amount
    <3>2. From(t) \in Opened /\ LedgerBalance[From(t)] < Amount(t)
      BY <2>1, <2>2, <2>3, <2>10 DEF Opened, LedgerBalance
    <3>3. QED
      BY <2>6, <2>8, <2>9, <3>1, <3>2 DEF L!FindShort, LedgerBalance, From, Amount
  <2>11. CASE ~(loaded.balance < Amount(t))
    <3>1. FoundShort' = FoundShort
      BY <2>6, <2>7, <2>8, <2>11 DEF FoundShort, Amount
    <3>2. QED
      BY <2>8, <2>9, <3>1 DEF Seen
  <2>12. QED
    BY <2>10, <2>11
<1>3. QED
  BY <1>1, <1>2

LEMMA AppendCompletedRefines ==
  ASSUME IInv, NEW t \in Transfers, AppendCompleted(t)
  PROVE  L!Complete(t)
<1> DEFINE from == From(t)
           to == To(t)
           debited == AppendEvent(log[from], "Debited", Amount(t), t)
           credited == AppendEvent(log[to], "Credited", Amount(t), t)
<1>1. /\ from \in Ids /\ log[from] \in Seq(Row)
      /\ to \in Ids /\ log[to] \in Seq(Row)
      /\ Amount(t) \in Int /\ Amount(t) > 0 /\ transferLog[t] = "none"
  BY RequestTypes DEF IInv, TypeOK, HandlerOK, AppendCompleted, BeforeAppend
<1>2. /\ held[t].source \in Aggregate /\ held[t].dest \in Aggregate
      /\ IsReplay(log[from], held[t].source)
      /\ IsReplay(log[to], held[t].dest)
      /\ held[t].source.balance >= Amount(t)
      /\ held[t].source.version > 0 /\ held[t].dest.version > 0
  BY HeldTypes DEF IInv, HandlerOK, AppendCompleted
<1>3. /\ held[t].source.version = Len(log[from])
      /\ held[t].dest.version = Len(log[to])
      /\ from # to
  BY <1>1, <1>2 DEF AppendCompleted, UniqueViolation, Version, IsReplay, Aggregate
<1>4. /\ Balance(from) >= Amount(t)
      /\ log[from] # <<>> /\ log[to] # <<>>
  BY <1>1, <1>2, <1>3 DEF IsReplay, Balance, FinalBalance
<1>5. debited # <<>> /\ FinalBalance(debited) = Balance(from) - Amount(t)
  <2>1. /\ Apply(FinalBalance(log[from]), "Debited", Amount(t))
             = FinalBalance(log[from]) - Amount(t)
        /\ "Debited" \in Kinds /\ t \in Authors
    BY DEF Apply, Kinds, Authors
  <2>2. /\ debited \in Seq(Row)
        /\ Len(debited) = Len(log[from]) + 1
        /\ debited[Len(log[from]) + 1].balance = FinalBalance(log[from]) - Amount(t)
    BY <1>1, <2>1, AppendEventRows
  <2>3. Len(log[from]) \in Nat
    BY <1>1
  <2>4. QED
    BY <2>2, <2>3 DEF FinalBalance, BalanceAt, Balance
<1>6. credited # <<>> /\ FinalBalance(credited) = Balance(to) + Amount(t)
  <2>1. /\ Apply(FinalBalance(log[to]), "Credited", Amount(t))
             = FinalBalance(log[to]) + Amount(t)
        /\ "Credited" \in Kinds /\ t \in Authors
    BY DEF Apply, Kinds, Authors
  <2>2. /\ credited \in Seq(Row)
        /\ Len(credited) = Len(log[to]) + 1
        /\ credited[Len(log[to]) + 1].balance = FinalBalance(log[to]) + Amount(t)
    BY <1>1, <2>1, AppendEventRows
  <2>3. Len(log[to]) \in Nat
    BY <1>1
  <2>4. QED
    BY <2>2, <2>3 DEF FinalBalance, BalanceAt, Balance
<1>7. /\ log'[from] = debited /\ log'[to] = credited
      /\ \A a \in Ids \ {from, to} : log'[a] = log[a]
  BY <1>1, <1>3 DEF IInv, TypeOK, AppendCompleted
<1> HIDE DEF debited, credited, from, to
<1>8. Opened' = Opened /\ {from, to} \subseteq Opened
  <2>1. \A a \in Ids : log'[a] # <<>> <=> log[a] # <<>>
    BY <1>1, <1>4, <1>5, <1>6, <1>7
  <2>2. QED
    BY <1>1, <1>4, <2>1 DEF Opened
<1>9. LedgerBalance' = [LedgerBalance EXCEPT ![from] = @ - Amount(t),
                                            ![to] = @ + Amount(t)]
  BY <1>1, <1>3, <1>5, <1>6, <1>7 DEF LedgerBalance, Balance
<1>10. FoundShort' = FoundShort /\ req' = req
       /\ transferLog' = [transferLog EXCEPT ![t] = "Completed"]
  BY DEF FoundShort, Amount, AppendCompleted
<1>11. LedgerBalance[from] >= Amount(t)
  BY <1>1, <1>4 DEF LedgerBalance
<1>12. QED
  BY <1>1, <1>3, <1>8, <1>9, <1>10, <1>11
     DEF L!Complete, LedgerBalance, from, to, From, To, Amount

LEMMA AppendFailedRefines ==
  ASSUME IInv, NEW t \in Transfers, AppendFailed(t)
  PROVE  L!Decline(t)
<1>1. /\ transferLog[t] = "none"
      /\ t \in FoundShort
  BY DEF IInv, HandlerOK, AppendFailed, BeforeAppend, FoundShort
<1>2. /\ Opened' = Opened /\ LedgerBalance' = LedgerBalance
      /\ FoundShort' = FoundShort
  BY DEF AppendFailed, Opened, LedgerBalance, Balance, FoundShort, Amount
<1>3. QED
  BY <1>1, <1>2 DEF L!Decline, LedgerBalance, AppendFailed

LEMMA StepRefines == IInv /\ [Next]_vars => [L!Next]_(L!vars)
<1> SUFFICES ASSUME IInv, [Next]_vars PROVE L!Next \/ Seen' = Seen
  BY DEF L!vars, Seen, LedgerBalance
<1>1. ASSUME NEW a \in Accounts, OpenAccount(a) PROVE L!Next
  BY <1>1, OpenRefines DEF L!Next
<1>2. ASSUME NEW a \in Accounts, ListAccount(a) \/ AbortOpening(a)
      PROVE  Seen' = Seen
  BY <1>2, Invisible DEF ListAccount, AbortOpening
<1>3. ASSUME NEW t \in Transfers, Load(t) PROVE L!Next \/ Seen' = Seen
  <2>1. CASE LoadSourceEvents(t)
    BY <2>1, LoadSourceRefines DEF L!Next
  <2>2. CASE LoadSourceSnapshot(t) \/ LoadDestSnapshot(t) \/ LoadDestEvents(t)
    <3>1. \A u \in Transfers : held'[u].source = held[u].source
      <4>1. CASE LoadSourceSnapshot(t)
        BY <4>1, KeepsSource DEF LoadSourceSnapshot, IInv
      <4>2. CASE LoadDestSnapshot(t)
        BY <4>2, KeepsSource DEF LoadDestSnapshot, IInv
      <4>3. CASE LoadDestEvents(t)
        BY <4>3, KeepsSource DEF LoadDestEvents, IInv
      <4>4. QED
        BY <2>2, <4>1, <4>2, <4>3
    <3>2. QED
      BY <2>2, <3>1, Invisible DEF LoadSourceSnapshot, LoadDestSnapshot, LoadDestEvents
  <2>3. QED
    BY <1>3, <2>1, <2>2 DEF Load
<1>4. ASSUME NEW t \in Transfers, Store(t) PROVE L!Next \/ Seen' = Seen
  <2>1. CASE AppendCompleted(t)
    BY <2>1, AppendCompletedRefines DEF L!Next
  <2>2. CASE AppendFailed(t)
    BY <2>2, AppendFailedRefines DEF L!Next
  <2>3. CASE RejectConflict(t)
    BY <2>3, Invisible DEF RejectConflict
  <2>4. QED
    BY <1>4, <2>1, <2>2, <2>3 DEF Store
<1>5. ASSUME NEW t \in Transfers,
             Project(t) \/ SnapshotSource(t) \/ SnapshotDest(t)
      PROVE  Seen' = Seen
  <2>1. CASE Project(t)
    BY <2>1, Invisible DEF Project, ProjectDebit, ProjectCredit,
                           ProjectCompleted, ProjectFailed
  <2>2. CASE SnapshotSource(t)
    <3>1. \A u \in Transfers : held'[u].source = held[u].source
      BY <2>2, KeepsSource DEF SnapshotSource, ReadForSnapshot, SaveSnapshot, IInv
    <3>2. QED
      BY <2>2, <3>1, Invisible DEF SnapshotSource, ReadForSnapshot, SaveSnapshot
  <2>3. CASE SnapshotDest(t)
    <3>1. \A u \in Transfers : held'[u].source = held[u].source
      BY <2>3, KeepsSource DEF SnapshotDest, ReadForSnapshot, SaveSnapshot, IInv
    <3>2. QED
      BY <2>3, <3>1, Invisible DEF SnapshotDest, ReadForSnapshot, SaveSnapshot
  <2>4. QED
    BY <1>5, <2>1, <2>2, <2>3
<1>6. ASSUME NEW t \in Transfers, Receive(t) \/ Abort(t) PROVE Seen' = Seen
  BY <1>6, Invisible DEF Receive, Abort
<1>7. CASE UNCHANGED vars
  BY <1>7, Invisible DEF vars
<1>8. QED
  BY <1>1, <1>2, <1>3, <1>4, <1>5, <1>6, <1>7 DEF Next, Handle

\* The handlers, with all their awaits, stale reads, conflicts and aborts,
\* behave to the outside as atomic transfers between accounts.
THEOREM Refinement == Spec => ImplementsLedger
BY InitRefines, StepRefines, Invariance, PTL DEF Spec, ImplementsLedger, L!Spec

=============================================================================
