------------------------ MODULE NestEventSourcedBank ------------------------
(***************************************************************************)
(* The command side of cqrs-es-nestjs, on the tables of the event-sourced  *)
(* bank.  Its Account is an AggregateRoot: debit and credit change the     *)
(* object in memory and leave the event on it, the handler notes the       *)
(* versions it expects before it calls them, and the store builds the rows *)
(* from those versions and from the events found on the objects.           *)
(* A server of either variant may run here; the rebuild is in both.        *)
(***************************************************************************)
EXTENDS ReadModelRebuild, SequencesExt

VARIABLES
  app,   \* the variant that runs
  local  \* nest: what a handler holds in local variables

variantVars == <<allVars, app, local>>

-----------------------------------------------------------------------------
(* Account, an AggregateRoot *)

NewAccount == [version |-> 0, balance |-> 0, uncommitted |-> <<>>]

Event(kind, amount, by) == [kind |-> kind, amount |-> amount, by |-> by]

\* onAccountCreated, onAccountDebited, onAccountCredited.
On(account, event) ==
  [account EXCEPT !.version = @ + 1,
                  !.balance = Apply(@, event.kind, event.amount)]

\* AggregateRoot.apply: the event stays on the object until it is committed.
ApplyNew(account, event) ==
  [On(account, event) EXCEPT !.uncommitted = Append(@, event)]

LoadFromHistory(account, events) == FoldLeft(On, account, events)

Create(balance) == ApplyNew(NewAccount, Event("Created", balance, NoTransfer))

CanDebit(account, amount) == ~(amount > account.balance)
Debit(account, amount, t) == ApplyNew(account, Event("Debited", amount, t))
Credit(account, amount, t) == ApplyNew(account, Event("Credited", amount, t))

FromSnapshot(state) ==
  [version |-> state.version, balance |-> state.balance, uncommitted |-> <<>>]
ToSnapshot(account) == [version |-> account.version, balance |-> account.balance]

-----------------------------------------------------------------------------
(* EventStore *)

LoadEvents(a) == log[a]
LoadEventsSince(a, version) == SubSeq(log[a], version + 1, Len(log[a]))

BuildEventRows(a, events, expectedVersion) ==
  {[id |-> a, version |-> expectedVersion + i, event |-> events[i]] : i \in DOMAIN events}

\* The unique index on (aggregate_id, version), over the table and the INSERT.
Violates(rows) ==
  \E r \in rows :
    \/ r.version \in DOMAIN log[r.id]
    \/ \E s \in rows \ {r} : s.id = r.id /\ s.version = r.version

\* The rows of one event per account.
InsertEvents(rows) ==
  log' = [a \in Ids |->
            IF \E r \in rows : r.id = a
              THEN LET event == (CHOOSE r \in rows : r.id = a).event
                   IN  AppendEvent(log[a], event.kind, event.amount, event.by)
              ELSE log[a]]

\* append throws on a violation; here the id is fresh.
AppendRows(a, events) == InsertEvents(BuildEventRows(a, events, 0))

-----------------------------------------------------------------------------
(* CreateAccountHandler *)

CreateAccount(a) ==
  /\ opening[a] = "none"
  /\ \E balance \in OpeningBalances :
       /\ balance >= 0
       /\ AppendRows(a, Create(balance).uncommitted)
  /\ opening' = [opening EXCEPT ![a] = "appended"]
  /\ UNCHANGED <<transferLog, snap, readModels, pc, req, local>>

-----------------------------------------------------------------------------
(* InitiateTransferHandler *)

NoLocals ==
  [snapshot |-> Empty, source |-> NewAccount, destination |-> NewAccount,
   sourceVersion |-> 0, destinationVersion |-> 0]

\* loadAccount: the snapshot row, the events after it.
LoadSnapshotRow(t, a) ==
  /\ local' = [local EXCEPT ![t].snapshot = snap[a]]
  /\ UNCHANGED <<log, transferLog, snap, readModels, opening, req>>

Loaded(t, a) ==
  LET row == local[t].snapshot
  IN  IF row = Empty THEN LoadFromHistory(NewAccount, LoadEvents(a))
      ELSE LoadFromHistory(FromSnapshot(row), LoadEventsSince(a, row.version))

Found(t, a) == local[t].snapshot # Empty \/ LoadEvents(a) # <<>>

LoadSource(t) ==
  \/ /\ pc[t] = "sourceSnapshot"
     /\ LoadSnapshotRow(t, From(t))
     /\ Goto(t, "sourceEvents")
  \/ /\ pc[t] = "sourceEvents"
     /\ IF Found(t, From(t))
          THEN /\ local' = [local EXCEPT ![t].source = Loaded(t, From(t))]
               /\ Goto(t, "destSnapshot")
          ELSE Goto(t, "notFound") /\ UNCHANGED local
     /\ UNCHANGED <<log, transferLog, snap, readModels, opening, req>>

\* The versions are noted, then debit and credit change the objects.
Decided(t, destination) ==
  LET source == local[t].source
      noted  == [local[t] EXCEPT !.destination = destination,
                                 !.sourceVersion = source.version,
                                 !.destinationVersion = destination.version]
  IN  IF CanDebit(source, Amount(t))
        THEN [noted EXCEPT !.source = Debit(source, Amount(t), t),
                           !.destination = Credit(destination, Amount(t), t)]
        ELSE noted

LoadDestination(t) ==
  \/ /\ pc[t] = "destSnapshot"
     /\ LoadSnapshotRow(t, To(t))
     /\ Goto(t, "destEvents")
  \/ /\ pc[t] = "destEvents"
     /\ IF Found(t, To(t))
          THEN /\ local' = [local EXCEPT ![t] = Decided(t, Loaded(t, To(t)))]
               /\ Goto(t, IF CanDebit(local[t].source, Amount(t))
                            THEN "append" ELSE "appendFailed")
          ELSE Goto(t, "notFound") /\ UNCHANGED local
     /\ UNCHANGED <<log, transferLog, snap, readModels, opening, req>>

\* The batches of the accounts; the transfer's own has a fresh id.
Batches(t) ==
  BuildEventRows(From(t), local[t].source.uncommitted, local[t].sourceVersion)
    \cup BuildEventRows(To(t), local[t].destination.uncommitted,
                        local[t].destinationVersion)

AppendMultiple(t) ==
  /\ pc[t] = "append"
  /\ IF Violates(Batches(t))
       THEN Goto(t, "conflict") /\ UNCHANGED <<log, transferLog>>
       ELSE /\ InsertEvents(Batches(t))
            /\ transferLog' = [transferLog EXCEPT ![t] = "Completed"]
            /\ Goto(t, "projectDebit")
  /\ UNCHANGED <<snap, readModels, opening, req, local>>

PersistFailedTransfer(t) ==
  \/ /\ pc[t] = "appendFailed"
     /\ transferLog' = [transferLog EXCEPT ![t] = "Failed"]
     /\ Goto(t, "projectFailed")
     /\ UNCHANGED <<log, snap, readModels, opening, req, local>>
  \/ /\ pc[t] = "projectFailed"
     /\ transferRow' = [transferRow EXCEPT ![t] = "FAILED"]
     /\ Goto(t, "failed")
     /\ UNCHANGED <<log, transferLog, snap, listed, shown, opening, req, local>>

\* AccountProjector.project, for the event left on an object.
ProjectUncommitted(a, account) ==
  LET event == Head(account.uncommitted)
  IN  /\ AddToShown(a, Apply(0, event.kind, event.amount))
      /\ UNCHANGED <<log, transferLog, snap, listed, transferRow, opening, req, local>>

\* Mutant of NewVersion: the object's version, which has the events in it.
NewVersionCountedTwice(version, account) == account.version + Len(account.uncommitted)

NewVersion(version, account) == version + Len(account.uncommitted)

AfterSource(t) ==
  IF SnapshotDue(NewVersion(local[t].destinationVersion, local[t].destination))
    THEN "readDest" ELSE "completed"

PersistSuccessfulTransfer(t) ==
  \/ /\ pc[t] = "projectDebit"
     /\ ProjectUncommitted(From(t), local[t].source)
     /\ Goto(t, "projectCredit")
  \/ /\ pc[t] = "projectCredit"
     /\ ProjectUncommitted(To(t), local[t].destination)
     /\ Goto(t, "projectTransfer")
  \/ /\ pc[t] = "projectTransfer"
     /\ transferRow' = [transferRow EXCEPT ![t] = "COMPLETED"]
     /\ Goto(t, IF SnapshotDue(NewVersion(local[t].sourceVersion, local[t].source))
                  THEN "readSource" ELSE AfterSource(t))
     /\ UNCHANGED <<log, transferLog, snap, listed, shown, opening, req, local>>

\* loadEvents and loadFromHistory, then saveSnapshot.
ReadStream(t, a) ==
  /\ local' = [local EXCEPT ![t].snapshot =
                 ToSnapshot(LoadFromHistory(NewAccount, LoadEvents(a)))]
  /\ UNCHANGED <<log, transferLog, snap, readModels, opening, req>>

UpsertSnapshot(t, a) ==
  /\ snap' = [snap EXCEPT ![a] = local[t].snapshot]
  /\ UNCHANGED <<log, transferLog, readModels, opening, req, local>>

MaybeSnapshotAccount(t) ==
  \/ pc[t] = "readSource" /\ ReadStream(t, From(t))     /\ Goto(t, "saveSource")
  \/ pc[t] = "saveSource" /\ UpsertSnapshot(t, From(t)) /\ Goto(t, AfterSource(t))
  \/ pc[t] = "readDest"   /\ ReadStream(t, To(t))       /\ Goto(t, "saveDest")
  \/ pc[t] = "saveDest"   /\ UpsertSnapshot(t, To(t))   /\ Goto(t, "completed")

Execute(t) ==
  \/ LoadSource(t) \/ LoadDestination(t) \/ AppendMultiple(t)
  \/ PersistSuccessfulTransfer(t) \/ PersistFailedTransfer(t)
  \/ MaybeSnapshotAccount(t)

-----------------------------------------------------------------------------
(* A server of either variant, and the rebuild *)

VariantInit ==
  /\ RebuildInit
  /\ app \in {"cqrs-es", "cqrs-es-nestjs"}
  /\ local = [t \in Transfers |-> NoLocals]

VariantOpen(a) ==
  \/ app = "cqrs-es" /\ OpenAccount(a) /\ UNCHANGED local
  \/ app = "cqrs-es-nestjs" /\ CreateAccount(a) /\ UNCHANGED held

\* A row that the rebuild has inserted meanwhile ends the request.
VariantList(a) ==
  /\ IF a \in listed THEN ListConflict(a) ELSE ListAccount(a)
  /\ UNCHANGED local

VariantHandle(t) ==
  \/ app = "cqrs-es" /\ Handle(t) /\ UNCHANGED local
  \/ app = "cqrs-es-nestjs" /\ Execute(t) /\ UNCHANGED held

Stop ==
  /\ UNCHANGED local
  /\ \/ \E a \in Accounts : AbortOpening(a)
     \/ \E t \in Transfers : Abort(t)

Arrive(t) == Receive(t) /\ UNCHANGED local

VariantStep ==
  \/ \E a \in Accounts : VariantOpen(a) \/ VariantList(a)
  \/ \E t \in Transfers : Arrive(t) \/ VariantHandle(t)
  \/ Stop

Record ==
  /\ disturbed' = IF Rebuilding' THEN disturbed \cup Active' ELSE disturbed
  /\ UNCHANGED app

VariantNext ==
  \/ RebuildStep /\ UNCHANGED local /\ Record
  \/ VariantStep /\ UNCHANGED <<stage, todo>> /\ Record

VariantSpec == VariantInit /\ [][VariantNext]_variantVars

\* The event loop resumes every handler whose query has returned.
VariantFairness ==
  /\ \A a \in Accounts :
       WF_variantVars(VariantList(a) /\ UNCHANGED <<stage, todo>> /\ Record)
  /\ \A t \in Transfers :
       WF_variantVars(VariantHandle(t) /\ UNCHANGED <<stage, todo>> /\ Record)

-----------------------------------------------------------------------------
(* Properties *)

\* What an object was when it was loaded: without the events left on it.
AsLoaded(account) ==
  [version |-> account.version - Len(account.uncommitted),
   balance |-> IF account.uncommitted = <<>> THEN account.balance
               ELSE account.balance - Apply(0, Head(account.uncommitted).kind,
                                               Head(account.uncommitted).amount)]

Held ==
  IF app = "cqrs-es" THEN held
  ELSE [t \in Transfers |-> [snapshot |-> local[t].snapshot,
                             source   |-> AsLoaded(local[t].source),
                             dest     |-> AsLoaded(local[t].destination)]]

R == INSTANCE ReadModelRebuild WITH held <- Held

\* The handlers of cqrs-es-nestjs, with their aggregates changed in memory
\* before the append and the versions noted before that, and its rebuild,
\* make no step on the tables that those of cqrs-es would not make: the two
\* variants are one protocol, so what holds of the first holds of both.
ImplementsEventSourced == R!RebuildSpec

\* With no rebuild and no handler cut off, the read models end equal to the
\* streams and stay so, whatever order concurrent handlers project in.
VariantCatchesUp ==
  <>[](\/ stage # "off"
       \/ \E t \in Transfers : pc[t] = "aborted"
       \/ /\ \A a \in listed : shown[a] = Balance(a)
          /\ \A t \in Transfers :
               transferLog[t] = "Completed" => transferRow[t] = "COMPLETED")

=============================================================================
