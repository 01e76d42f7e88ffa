----------------------------- MODULE OutboxRelay -----------------------------
(***************************************************************************)
(* The outbox of the event-sourced variants: an append commits its events  *)
(* and their outbox rows together; every instance of the server polls the  *)
(* table on a timer, logs the unpublished rows and marks them one by one.  *)
(*                                                                         *)
(* The timer does not wait for the flush it started last, and nothing is   *)
(* locked, so flushes overlap within an instance and across instances.  A  *)
(* query that fails rejects the promise of flush, which nobody awaits: the *)
(* unhandledRejection hook of main.ts then exits the process.              *)
(***************************************************************************)
EXTENDS Naturals, FiniteSets

CONSTANTS
  Events,     \* events appended in the run
  Instances,  \* server processes on one database
  Slots,      \* flushes of one instance that may run at a time
  NoEvent,    \* a flush between two events
  BatchSize,  \* BATCH_SIZE, 100 in the code
  MaxExits    \* process exits in the run

ASSUME BatchSizeAssumption == BatchSize \in Nat \ {0}
ASSUME MaxExitsAssumption == MaxExits \in Nat
ASSUME NoEventAssumption == NoEvent \notin Events

Flushes == Instances \X Slots

VARIABLES
  row,        \* outbox row of each event: "none", "unpublished", "published"
  copies,     \* how often each event was published
  up,         \* running instances
  batch,      \* rows each flush has selected and not yet published
  sending,    \* row a flush has published and not yet marked
  exits,      \* processes that have exited
  overlapped  \* history: two flushes have run at a time

vars == <<row, copies, up, batch, sending, exits, overlapped>>

Running(f) == batch[f] # {} \/ sending[f] # NoEvent

Unpublished == {e \in Events : row[e] = "unpublished"}

Init ==
  /\ row = [e \in Events |-> "none"]
  /\ copies = [e \in Events |-> 0]
  /\ up = Instances
  /\ batch = [f \in Flushes |-> {}]
  /\ sending = [f \in Flushes |-> NoEvent]
  /\ exits = 0
  /\ overlapped = FALSE

\* The transaction of append or appendMultiple.
Commit(e) ==
  /\ row[e] = "none"
  /\ row' = [row EXCEPT ![e] = "unpublished"]
  /\ UNCHANGED <<copies, up, batch, sending, exits, overlapped>>

\* Mutants of Select: the isNull filter is forgotten; the rows are claimed
\* when they are selected; a batch is only taken when it is full.
SelectAnyRow(f) ==
  /\ f[1] \in up
  /\ ~Running(f)
  /\ \E B \in SUBSET {e \in Events : row[e] # "none"} :
       /\ B # {} /\ Cardinality(B) <= BatchSize
       /\ batch' = [batch EXCEPT ![f] = B]
  /\ overlapped' = (overlapped \/ \E g \in Flushes : Running(g))
  /\ UNCHANGED <<row, copies, up, sending, exits>>

SelectAndMark(f) ==
  /\ f[1] \in up
  /\ ~Running(f)
  /\ \E B \in SUBSET Unpublished :
       /\ B # {} /\ Cardinality(B) <= BatchSize
       /\ batch' = [batch EXCEPT ![f] = B]
       /\ row' = [e \in Events |-> IF e \in B THEN "published" ELSE row[e]]
  /\ overlapped' = (overlapped \/ \E g \in Flushes : Running(g))
  /\ UNCHANGED <<copies, up, sending, exits>>

SelectFullBatch(f) ==
  /\ f[1] \in up
  /\ ~Running(f)
  /\ \E B \in SUBSET Unpublished :
       /\ Cardinality(B) = BatchSize
       /\ batch' = [batch EXCEPT ![f] = B]
  /\ overlapped' = (overlapped \/ \E g \in Flushes : Running(g))
  /\ UNCHANGED <<row, copies, up, sending, exits>>

\* The timer fires: any BATCH_SIZE unpublished rows, or all of them when they
\* are fewer.  There is no ORDER BY.
Select(f) ==
  /\ f[1] \in up
  /\ ~Running(f)
  /\ \E B \in SUBSET Unpublished :
       /\ B # {}
       /\ \/ Cardinality(B) = BatchSize
          \/ B = Unpublished /\ Cardinality(B) < BatchSize
       /\ batch' = [batch EXCEPT ![f] = B]
  /\ overlapped' = (overlapped \/ \E g \in Flushes : Running(g))
  /\ UNCHANGED <<row, copies, up, sending, exits>>

\* Mutant of Publish: the event stays in the batch.
PublishAgain(f) ==
  /\ sending[f] = NoEvent
  /\ \E e \in batch[f] :
       /\ copies' = [copies EXCEPT ![e] = @ + 1]
       /\ sending' = [sending EXCEPT ![f] = e]
  /\ UNCHANGED <<row, batch, up, exits, overlapped>>

\* The log line stands for the publication.
Publish(f) ==
  /\ sending[f] = NoEvent
  /\ \E e \in batch[f] :
       /\ copies' = [copies EXCEPT ![e] = @ + 1]
       /\ sending' = [sending EXCEPT ![f] = e]
       /\ batch' = [batch EXCEPT ![f] = @ \ {e}]
  /\ UNCHANGED <<row, up, exits, overlapped>>

\* UPDATE outbox SET published_at, marked before or not.
Mark(f) ==
  /\ sending[f] # NoEvent
  /\ row' = [row EXCEPT ![sending[f]] = "published"]
  /\ sending' = [sending EXCEPT ![f] = NoEvent]
  /\ UNCHANGED <<copies, up, batch, exits, overlapped>>

\* A query of a flush fails, or the process dies for another reason.
Exit(i) ==
  /\ i \in up
  /\ exits < MaxExits
  /\ up' = up \ {i}
  /\ batch' = [f \in Flushes |-> IF f[1] = i THEN {} ELSE batch[f]]
  /\ sending' = [f \in Flushes |-> IF f[1] = i THEN NoEvent ELSE sending[f]]
  /\ exits' = exits + 1
  /\ UNCHANGED <<row, copies, overlapped>>

\* "let the orchestrator restart" (docs/production-best-practices.md:73).
Restart(i) ==
  /\ i \notin up
  /\ up' = up \cup {i}
  /\ UNCHANGED <<row, copies, batch, sending, exits, overlapped>>

Flush(f) == Select(f) \/ Publish(f) \/ Mark(f)

Next ==
  \/ \E e \in Events : Commit(e)
  \/ \E f \in Flushes : Flush(f)
  \/ \E i \in Instances : Exit(i) \/ Restart(i)

Spec == Init /\ [][Next]_vars

\* The timer keeps firing, queries return, exited processes are restarted.
Fairness ==
  /\ \A f \in Flushes : WF_vars(Flush(f))
  /\ \A i \in Instances : WF_vars(Restart(i))

FairSpec == Spec /\ Fairness

-----------------------------------------------------------------------------
(* Properties *)

\* Type correctness; flushes run in running processes only.
TypeOK ==
  /\ row \in [Events -> {"none", "unpublished", "published"}]
  /\ copies \in [Events -> Nat]
  /\ up \subseteq Instances
  /\ batch \in [Flushes -> SUBSET Events]
  /\ sending \in [Flushes -> Events \cup {NoEvent}]
  /\ exits \in 0 .. MaxExits
  /\ overlapped \in BOOLEAN
  /\ \A f \in Flushes : Running(f) => f[1] \in up

\* A row is marked only once its event was published: whenever a process
\* exits inside a flush, no event is lost.
MarkedWasPublished ==
  \A e \in Events : row[e] = "published" => copies[e] > 0

\* An event is published a second time only if two flushes overlapped or a
\* process exited.
DuplicateIsExcused ==
  \A e \in Events : copies[e] > 1 => overlapped \/ exits > 0

\* The row is marked, and no flush selected it before it was.
Settled(e) == row[e] = "published" /\ \A f \in Flushes : e \notin batch[f]

\* Once a row is settled no flush ever takes it up again, on whatever
\* instance: its event is never published again.
SettledStaysSettled ==
  [][\A e \in Events :
       Settled(e) => Settled(e)' /\ copies'[e] = copies[e]]_vars

\* Every committed event is published in the end, whatever fails meanwhile.
EveryEventPublished ==
  \A e \in Events : row[e] = "unpublished" ~> row[e] = "published"

=============================================================================
