-------------------------- MODULE EventSourcedBank --------------------------
(***************************************************************************)
(* The command side of the event-sourced variants (cqrs-es and             *)
(* cqrs-es-nestjs): accounts are streams of events in a Postgres table     *)
(* whose UNIQUE (aggregate_id, version) constraint is the only concurrency *)
(* control; a transfer loads two streams, decides, appends to three of     *)
(* them in one transaction, and then updates the read models and the       *)
(* snapshots in separate autocommitted statements.                         *)
(*                                                                         *)
(* Every await of a handler is a step of its own here, so the requests     *)
(* interleave as they do on the server's event loop and across instances.  *)
(* A transfer request is named by the transfer id its handler draws, an    *)
(* account creation by the account id.  Owner, status and timestamps are   *)
(* left out: no decision reads them once a request is accepted.            *)
(***************************************************************************)
EXTENDS Integers, Sequences

CONSTANTS
  Ids,            \* aggregate ids a client may name, used or not
  Accounts,       \* the ids that POST /accounts will draw
  Transfers,      \* transfer requests, one fresh transfer id each
  NoTransfer,     \* author of an AccountCreated event
  Requests,       \* bodies of POST /transfers the clients choose from
  OpeningBalances,\* opening balances the clients choose from
  SnapshotEvery,  \* SNAPSHOT_EVERY_N_EVENTS
  MayAbort        \* whether a request can die between two of its awaits

Request == [from : Ids, to : Ids, amount : Int]

ASSUME AccountsAssumption == Accounts \subseteq Ids
ASSUME RequestsAssumption == Requests \subseteq Request
ASSUME OpeningBalancesAssumption == OpeningBalances \subseteq Int
ASSUME SnapshotEveryAssumption == SnapshotEvery \in Nat \ {0}
ASSUME NoTransferAssumption == NoTransfer \notin Transfers
ASSUME MayAbortAssumption == MayAbort \in BOOLEAN

VARIABLES
  log,          \* events of each account, by version
  transferLog,  \* how the stream of each transfer ends, or "none"
  snap,         \* snapshots table: at most one row per account
  listed,       \* accounts with a row in account_read_model
  shown,        \* balance column of those rows
  transferRow,  \* status column of transfer_read_model, or "none"
  opening,      \* progress of the creation of each account
  pc,           \* progress of each transfer request
  req,          \* its body
  held          \* what its handler holds in local variables

vars == <<log, transferLog, snap, listed, shown, transferRow,
          opening, pc, req, held>>

readModels == <<listed, shown, transferRow>>

-----------------------------------------------------------------------------
(* Aggregates *)

\* The Account class reduced to what the transfer logic reads.
Aggregate == [version : Nat, balance : Int]

\* new Account('', '', 0, '', 0); a missing snapshot row is also this value.
Empty == [version |-> 0, balance |-> 0]

Row == [kind : {"Created", "Debited", "Credited"}, amount : Int,
        by : Transfers \cup {NoTransfer}, balance : Int]

\* The balance a replay of the first v events of a stream arrives at.
BalanceAt(stream, v) == IF v = 0 THEN 0 ELSE stream[v].balance

FinalBalance(stream) == BalanceAt(stream, Len(stream))

\* Account.apply, on the balance.
Apply(balance, kind, amount) ==
  CASE kind = "Created"  -> amount
    [] kind = "Debited"  -> balance - amount
    [] kind = "Credited" -> balance + amount

\* The stream with the row of one more event.  The balance field of a row is
\* a history of the replay, the table does not store it.
AppendEvent(stream, kind, amount, by) ==
  Append(stream, [kind |-> kind, amount |-> amount, by |-> by,
                  balance |-> Apply(FinalBalance(stream), kind, amount)])

\* Mutant of Replay: the query forgets version > snapshot.version.
ReplayWholeStream(stream, base) ==
  [version |-> Len(stream), balance |-> base.balance + FinalBalance(stream)]

\* Replays the events with a version above base.version on top of base.
Replay(stream, base) ==
  [version |-> base.version + (Len(stream) - base.version),
   balance |-> base.balance + (FinalBalance(stream)
                                 - BalanceAt(stream, base.version))]

\* No snapshot and no event: the handler throws AccountNotFoundError.
Missing(stream, base) == base = Empty /\ stream = <<>>

Version(a) == Len(log[a])
Balance(a) == FinalBalance(log[a])

SnapshotDue(version) == version % SnapshotEvery = 0

-----------------------------------------------------------------------------

Init ==
  /\ log = [a \in Ids |-> <<>>]
  /\ transferLog = [t \in Transfers |-> "none"]
  /\ snap = [a \in Ids |-> Empty]
  /\ listed = {}
  /\ shown = [a \in Ids |-> 0]
  /\ transferRow = [t \in Transfers |-> "none"]
  /\ opening = [a \in Accounts |-> "none"]
  /\ pc = [t \in Transfers |-> "idle"]
  /\ req \in [Transfers -> Requests]
  /\ held = [t \in Transfers |->
              [snapshot |-> Empty, source |-> Empty, dest |-> Empty]]

-----------------------------------------------------------------------------
(* POST /accounts *)

\* A negative balance is rejected before anything is written.
OpenAccount(a) ==
  /\ opening[a] = "none"
  /\ \E balance \in OpeningBalances :
       /\ balance >= 0
       /\ log' = [log EXCEPT ![a] =
                    AppendEvent(@, "Created", balance, NoTransfer)]
  /\ opening' = [opening EXCEPT ![a] = "appended"]
  /\ UNCHANGED <<transferLog, snap, readModels, pc, req, held>>

ListAccount(a) ==
  /\ opening[a] = "appended"
  /\ listed' = listed \cup {a}
  /\ shown' = [shown EXCEPT ![a] = log[a][1].amount]
  /\ opening' = [opening EXCEPT ![a] = "done"]
  /\ UNCHANGED <<log, transferLog, snap, transferRow, pc, req, held>>

AbortOpening(a) ==
  /\ MayAbort
  /\ opening[a] = "appended"
  /\ opening' = [opening EXCEPT ![a] = "aborted"]
  /\ UNCHANGED <<log, transferLog, snap, readModels, pc, req, held>>

-----------------------------------------------------------------------------
(* POST /transfers *)

Goto(t, stage) == pc' = [pc EXCEPT ![t] = stage]

From(t) == req[t].from
To(t) == req[t].to
Amount(t) == req[t].amount

\* A client learns the id of an account from the answer to its creation or
\* from the list of accounts; any other id it sends is of no account.
Known ==
  listed \cup {a \in Accounts : opening[a] = "done"} \cup (Ids \ Accounts)

Receive(t) ==
  /\ pc[t] = "idle"
  /\ {From(t), To(t)} \subseteq Known
  /\ Amount(t) > 0
  /\ Goto(t, "sourceSnapshot")
  /\ UNCHANGED <<log, transferLog, snap, readModels, opening, req, held>>

\* loadAccount awaits two queries, each with a snapshot of the database of
\* its own: the snapshot row first, the events newer than it second.
LoadSourceSnapshot(t) ==
  /\ pc[t] = "sourceSnapshot"
  /\ held' = [held EXCEPT ![t].snapshot = snap[From(t)]]
  /\ Goto(t, "sourceEvents")
  /\ UNCHANGED <<log, transferLog, snap, readModels, opening, req>>

LoadSourceEvents(t) ==
  /\ pc[t] = "sourceEvents"
  /\ IF Missing(log[From(t)], held[t].snapshot)
       THEN Goto(t, "notFound") /\ UNCHANGED held
       ELSE /\ held' = [held EXCEPT ![t].source =
                          Replay(log[From(t)], held[t].snapshot)]
            /\ Goto(t, "destSnapshot")
  /\ UNCHANGED <<log, transferLog, snap, readModels, opening, req>>

LoadDestSnapshot(t) ==
  /\ pc[t] = "destSnapshot"
  /\ held' = [held EXCEPT ![t].snapshot = snap[To(t)]]
  /\ Goto(t, "destEvents")
  /\ UNCHANGED <<log, transferLog, snap, readModels, opening, req>>

\* Mutant of LoadDestEvents: debit also refuses to empty the account.
LoadDestEventsStrict(t) ==
  /\ pc[t] = "destEvents"
  /\ IF Missing(log[To(t)], held[t].snapshot)
       THEN Goto(t, "notFound") /\ UNCHANGED held
       ELSE /\ held' = [held EXCEPT ![t].dest =
                          Replay(log[To(t)], held[t].snapshot)]
            /\ IF held[t].source.balance <= Amount(t)
                 THEN Goto(t, "appendFailed")
                 ELSE Goto(t, "append")
  /\ UNCHANGED <<log, transferLog, snap, readModels, opening, req>>

\* sourceAccount.debit decides on the aggregate loaded earlier.
LoadDestEvents(t) ==
  /\ pc[t] = "destEvents"
  /\ IF Missing(log[To(t)], held[t].snapshot)
       THEN Goto(t, "notFound") /\ UNCHANGED held
       ELSE /\ held' = [held EXCEPT ![t].dest =
                          Replay(log[To(t)], held[t].snapshot)]
            /\ IF held[t].source.balance < Amount(t)
                 THEN Goto(t, "appendFailed")
                 ELSE Goto(t, "append")
  /\ UNCHANGED <<log, transferLog, snap, readModels, opening, req>>

\* Mutants of UniqueViolation: only the destination's events carry the version
\* that was loaded; nothing stops two rows of one INSERT; the first new event
\* gets the version that was loaded instead of the next.
UniqueViolationOnDest(t) == held[t].dest.version < Version(To(t))

UniqueViolationAcrossInserts(t) ==
  \/ held[t].source.version < Version(From(t))
  \/ held[t].dest.version < Version(To(t))

UniqueViolationOffByOne(t) ==
  \/ held[t].source.version <= Version(From(t))
  \/ held[t].dest.version <= Version(To(t))

\* A row of the INSERT has a (aggregate_id, version) that is taken, or two
\* of its rows have the same.
UniqueViolation(t) ==
  \/ held[t].source.version < Version(From(t))
  \/ held[t].dest.version < Version(To(t))
  \/ From(t) = To(t) /\ held[t].source.version = held[t].dest.version

\* Mutant of RejectConflict: the handler tries again instead of answering.
RetryConflict(t) ==
  /\ pc[t] = "append"
  /\ UniqueViolation(t)
  /\ Goto(t, "sourceSnapshot")
  /\ UNCHANGED <<log, transferLog, snap, readModels, opening, req, held>>

RejectConflict(t) ==
  /\ pc[t] = "append"
  /\ UniqueViolation(t)
  /\ Goto(t, "conflict")
  /\ UNCHANGED <<log, transferLog, snap, readModels, opening, req, held>>

\* Mutant of AppendCompleted: one append per aggregate, the last one lost.
AppendDebitOnly(t) ==
  /\ pc[t] = "append"
  /\ ~UniqueViolation(t)
  /\ log' = [log EXCEPT
       ![From(t)] = AppendEvent(@, "Debited", Amount(t), t)]
  /\ transferLog' = [transferLog EXCEPT ![t] = "Completed"]
  /\ Goto(t, "projectDebit")
  /\ UNCHANGED <<snap, readModels, opening, req, held>>

\* appendMultiple: the transfer's two events and one event of each account.
AppendCompleted(t) ==
  /\ pc[t] = "append"
  /\ ~UniqueViolation(t)
  /\ log' = [log EXCEPT
       ![From(t)] = AppendEvent(@, "Debited", Amount(t), t),
       ![To(t)]   = AppendEvent(@, "Credited", Amount(t), t)]
  /\ transferLog' = [transferLog EXCEPT ![t] = "Completed"]
  /\ Goto(t, "projectDebit")
  /\ UNCHANGED <<snap, readModels, opening, req, held>>

AppendFailed(t) ==
  /\ pc[t] = "appendFailed"
  /\ transferLog' = [transferLog EXCEPT ![t] = "Failed"]
  /\ Goto(t, "projectFailed")
  /\ UNCHANGED <<log, snap, readModels, opening, req, held>>

\* UPDATE account_read_model SET balance = balance + delta WHERE id = a.
AddToShown(a, delta) ==
  shown' = IF a \in listed THEN [shown EXCEPT ![a] = @ + delta] ELSE shown

\* Mutant of ProjectDebit: SET balance to the aggregate's new balance.
ProjectDebitAbsolute(t) ==
  /\ pc[t] = "projectDebit"
  /\ shown' = [shown EXCEPT ![From(t)] = held[t].source.balance - Amount(t)]
  /\ Goto(t, "projectCredit")
  /\ UNCHANGED <<log, transferLog, snap, listed, transferRow, opening, req, held>>

ProjectDebit(t) ==
  /\ pc[t] = "projectDebit"
  /\ AddToShown(From(t), -Amount(t))
  /\ Goto(t, "projectCredit")
  /\ UNCHANGED <<log, transferLog, snap, listed, transferRow, opening, req, held>>

ProjectCredit(t) ==
  /\ pc[t] = "projectCredit"
  /\ AddToShown(To(t), Amount(t))
  /\ Goto(t, "projectTransfer")
  /\ UNCHANGED <<log, transferLog, snap, listed, transferRow, opening, req, held>>

\* Mutant of ProjectFailed: the event's word for the status.
ProjectFailedAsEvent(t) ==
  /\ pc[t] = "projectFailed"
  /\ transferRow' = [transferRow EXCEPT ![t] = transferLog[t]]
  /\ Goto(t, "failed")
  /\ UNCHANGED <<log, transferLog, snap, listed, shown, opening, req, held>>

ProjectFailed(t) ==
  /\ pc[t] = "projectFailed"
  /\ transferRow' = [transferRow EXCEPT ![t] = "FAILED"]
  /\ Goto(t, "failed")
  /\ UNCHANGED <<log, transferLog, snap, listed, shown, opening, req, held>>

\* maybeSnapshotAccount returns at once unless the new version is due.
GotoDestSnapshot(t) ==
  Goto(t, IF SnapshotDue(held[t].dest.version + 1) THEN "readDest"
                                                  ELSE "completed")

ProjectCompleted(t) ==
  /\ pc[t] = "projectTransfer"
  /\ transferRow' = [transferRow EXCEPT ![t] = "COMPLETED"]
  /\ IF SnapshotDue(held[t].source.version + 1) THEN Goto(t, "readSource")
                                                ELSE GotoDestSnapshot(t)
  /\ UNCHANGED <<log, transferLog, snap, listed, shown, opening, req, held>>

\* Mutant of ReadForSnapshot: the handler's own version on a fresh balance.
ReadForSnapshotAtOwnVersion(t, a) ==
  LET version == IF pc[t] = "readSource" THEN held[t].source.version
                                         ELSE held[t].dest.version
  IN  /\ held' = [held EXCEPT ![t].snapshot =
                     [version |-> version + 1, balance |-> Balance(a)]]
      /\ UNCHANGED <<log, transferLog, snap, readModels, opening, req>>

\* The snapshot is of the whole stream as it is now, at its own version.
ReadForSnapshot(t, a) ==
  /\ held' = [held EXCEPT ![t].snapshot = Replay(log[a], Empty)]
  /\ UNCHANGED <<log, transferLog, snap, readModels, opening, req>>

\* INSERT .. ON CONFLICT DO UPDATE, whatever version the row has.
SaveSnapshot(t, a) ==
  /\ snap' = [snap EXCEPT ![a] = held[t].snapshot]
  /\ UNCHANGED <<log, transferLog, readModels, opening, req, held>>

SnapshotSource(t) ==
  \/ /\ pc[t] = "readSource"
     /\ ReadForSnapshot(t, From(t))
     /\ Goto(t, "saveSource")
  \/ /\ pc[t] = "saveSource"
     /\ SaveSnapshot(t, From(t))
     /\ GotoDestSnapshot(t)

SnapshotDest(t) ==
  \/ /\ pc[t] = "readDest"
     /\ ReadForSnapshot(t, To(t))
     /\ Goto(t, "saveDest")
  \/ /\ pc[t] = "saveDest"
     /\ SaveSnapshot(t, To(t))
     /\ Goto(t, "completed")

Answered == {"completed", "failed", "notFound", "conflict", "aborted"}

\* The process dies, or a query of the handler fails (statement_timeout, no
\* connection): what is committed stays, the rest of the handler never runs.
Abort(t) ==
  /\ MayAbort
  /\ pc[t] \notin Answered \cup {"idle"}
  /\ Goto(t, "aborted")
  /\ UNCHANGED <<log, transferLog, snap, readModels, opening, req, held>>

-----------------------------------------------------------------------------

Load(t) ==
  \/ LoadSourceSnapshot(t) \/ LoadSourceEvents(t)
  \/ LoadDestSnapshot(t) \/ LoadDestEvents(t)

Store(t) == RejectConflict(t) \/ AppendCompleted(t) \/ AppendFailed(t)

Project(t) ==
  \/ ProjectDebit(t) \/ ProjectCredit(t)
  \/ ProjectCompleted(t) \/ ProjectFailed(t)

\* What the event loop runs once the request has arrived.
Handle(t) == Load(t) \/ Store(t) \/ Project(t) \/ SnapshotSource(t) \/ SnapshotDest(t)

Next ==
  \/ \E a \in Accounts : OpenAccount(a) \/ ListAccount(a) \/ AbortOpening(a)
  \/ \E t \in Transfers : Receive(t) \/ Handle(t) \/ Abort(t)

Spec == Init /\ [][Next]_vars

\* The event loop resumes every handler whose query has returned.
Fairness ==
  /\ \A a \in Accounts : WF_vars(ListAccount(a))
  /\ \A t \in Transfers : WF_vars(Handle(t))

FairSpec == Spec /\ Fairness

-----------------------------------------------------------------------------
(* Properties *)

Stages ==
  {"idle", "sourceSnapshot", "sourceEvents", "destSnapshot", "destEvents",
   "append", "appendFailed", "projectDebit", "projectCredit",
   "projectTransfer", "projectFailed", "readSource", "saveSource",
   "readDest", "saveDest"} \cup Answered

\* Type correctness of the tables and of the handlers' local state.
TypeOK ==
  /\ log \in [Ids -> Seq(Row)]
  /\ transferLog \in [Transfers -> {"none", "Completed", "Failed"}]
  /\ snap \in [Ids -> Aggregate]
  /\ listed \subseteq Accounts
  /\ shown \in [Ids -> Int]
  /\ transferRow \in [Transfers -> {"none", "COMPLETED", "FAILED"}]
  /\ opening \in [Accounts -> {"none", "appended", "done", "aborted"}]
  /\ pc \in [Transfers -> Stages]
  /\ req \in [Transfers -> Requests]
  /\ held \in [Transfers ->
                [snapshot : Aggregate, source : Aggregate, dest : Aggregate]]

\* No prefix of an account's stream replays to a negative balance, whatever
\* the interleaving of the transfers that debit it: debit's check is made on
\* an aggregate loaded awaits before the append.
NoOverdraft ==
  \A a \in Ids : \A v \in 1 .. Version(a) : log[a][v].balance >= 0

IsReplay(stream, agg) ==
  /\ agg.version \in 0 .. Len(stream)
  /\ agg.balance = BalanceAt(stream, agg.version)

\* A stored snapshot is the replay of the prefix its version names, although
\* the stream is read and the row written by different statements, and
\* concurrent handlers overwrite each other's rows.
SnapshotIsReplay == \A a \in Ids : IsReplay(log[a], snap[a])

\* What a handler holds of its accounts is the replay of a prefix of their
\* streams: the snapshot row and the newer events come from two queries, and
\* the row may be overwritten and events appended between them.
LoadedIsReplay ==
  \A t \in Transfers : /\ IsReplay(log[From(t)], held[t].source)
                       /\ IsReplay(log[To(t)], held[t].dest)

\* The rows of account a that transfer t wrote.
RowsOf(t, a, kind) ==
  {v \in 1 .. Version(a) : log[a][v].by = t /\ log[a][v].kind = kind}

\* A transfer is in the streams of its two accounts exactly if its own
\* stream says Completed, once on either side, with the same amount, and
\* nowhere else: appendMultiple is one transaction.
DoubleEntry ==
  \A t \in Transfers :
    IF transferLog[t] = "Completed"
      THEN /\ From(t) # To(t)
           /\ \E v \in 1 .. Version(From(t)), w \in 1 .. Version(To(t)) :
                /\ RowsOf(t, From(t), "Debited") = {v}
                /\ RowsOf(t, To(t), "Credited") = {w}
                /\ log[From(t)][v].amount = Amount(t)
                /\ log[To(t)][w].amount = Amount(t)
           /\ \A a \in Ids : /\ a # From(t) => RowsOf(t, a, "Debited") = {}
                             /\ a # To(t) => RowsOf(t, a, "Credited") = {}
      ELSE \A a \in Ids : RowsOf(t, a, "Debited") \cup RowsOf(t, a, "Credited") = {}

\* A transfer refused at its append lost to another transfer that has an event on one of
\* its accounts above the version it had loaded, or names one account twice:
\* of transfers that contend one is served, and none is refused for nothing.
ConflictIsContention ==
  \A t \in Transfers : pc[t] = "conflict" =>
    \/ From(t) = To(t)
    \/ \E u \in Transfers \ {t} :
         \/ \E v \in held[t].source.version + 1 .. Version(From(t)) :
              log[From(t)][v].by = u
         \/ \E v \in held[t].dest.version + 1 .. Version(To(t)) :
              log[To(t)][v].by = u

\* A transfer is recorded as failed only if its source was short of the
\* amount at some version of its stream, and it moves no money.
FailedWasShort ==
  \A t \in Transfers : transferLog[t] = "Failed" =>
    \E v \in 1 .. Version(From(t)) : BalanceAt(log[From(t)], v) < Amount(t)

-----------------------------------------------------------------------------
(* The inductive invariant behind the safety properties *)

\* Only a created account has events; before its creation it has none.
Existing ==
  \A a \in Ids : log[a] # <<>> <=> a \in Accounts /\ opening[a] # "none"

BeforeAppend ==
  {"idle", "sourceSnapshot", "sourceEvents", "destSnapshot", "destEvents",
   "append", "appendFailed"}

\* What a handler's local state guarantees at each of its stages.
HandlerOK(t) ==
  /\ IsReplay(log[From(t)], held[t].source)
  /\ IsReplay(log[To(t)], held[t].dest)
  /\ pc[t] \in {"sourceEvents", "saveSource"} =>
       IsReplay(log[From(t)], held[t].snapshot)
  /\ pc[t] \in {"destEvents", "saveDest"} =>
       IsReplay(log[To(t)], held[t].snapshot)
  /\ pc[t] # "idle" => Amount(t) > 0
  /\ pc[t] \in {"idle", "sourceSnapshot", "sourceEvents"} =>
       held[t].source = Empty
  /\ pc[t] \in {"destSnapshot", "destEvents", "append", "appendFailed"} =>
       held[t].source.version > 0
  /\ pc[t] = "append" =>
       held[t].dest.version > 0 /\ held[t].source.balance >= Amount(t)
  /\ pc[t] = "appendFailed" => held[t].source.balance < Amount(t)
  /\ pc[t] \in BeforeAppend => transferLog[t] = "none"
  /\ transferLog[t] = "Failed" =>
       held[t].source.version > 0 /\ held[t].source.balance < Amount(t)

IInv ==
  /\ TypeOK
  /\ Existing
  /\ NoOverdraft
  /\ SnapshotIsReplay
  /\ \A t \in Transfers : HandlerOK(t)

=============================================================================
