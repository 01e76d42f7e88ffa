-------------------------- MODULE OutboxRelayProofs --------------------------
(***************************************************************************)
(* No event of the outbox is marked without having been published, for any *)
(* number of events, instances and overlapping flushes.                    *)
(***************************************************************************)
EXTENDS OutboxRelay, TLAPS

\* What a flush has published and not yet marked was published.
SendingWasPublished ==
  \A f \in Flushes : sending[f] # NoEvent => copies[sending[f]] > 0

IInv == TypeOK /\ MarkedWasPublished /\ SendingWasPublished

USE BatchSizeAssumption, MaxExitsAssumption, NoEventAssumption

LEMMA InitIInv == Init => IInv
<1> SUFFICES ASSUME Init PROVE IInv
  OBVIOUS
<1> USE DEF Init
<1>1. \A f \in Flushes : ~Running(f)
  BY DEF Running
<1>2. /\ row \in [Events -> {"none", "unpublished", "published"}]
      /\ copies \in [Events -> Nat] /\ up \subseteq Instances
      /\ exits \in 0 .. MaxExits
  BY DEF Flushes
<1>3. /\ batch \in [Flushes -> SUBSET Events]
      /\ sending \in [Flushes -> Events \cup {NoEvent}]
  OBVIOUS
<1>4. TypeOK
  <2>1. overlapped \in BOOLEAN
    BY Zenon
  <2> QED
    BY <1>1, <1>2, <1>3, <2>1 DEF TypeOK
<1> QED
  BY <1>4 DEF IInv, MarkedWasPublished, SendingWasPublished

LEMMA StepIInv == IInv /\ [Next]_vars => IInv'
<1> SUFFICES ASSUME IInv, [Next]_vars PROVE IInv'
  OBVIOUS
<1> USE DEF IInv, TypeOK, MarkedWasPublished, SendingWasPublished, Running
<1>1. ASSUME NEW e \in Events, Commit(e) PROVE IInv'
  BY <1>1 DEF Commit
<1>2. ASSUME NEW f \in Flushes, Select(f) PROVE IInv'
  BY <1>2 DEF Select, Unpublished
<1>3. ASSUME NEW f \in Flushes, Publish(f) PROVE IInv'
  <2>1. PICK e \in batch[f] : /\ copies' = [copies EXCEPT ![e] = @ + 1]
                              /\ sending' = [sending EXCEPT ![f] = e]
                              /\ batch' = [batch EXCEPT ![f] = @ \ {e}]
    BY <1>3 DEF Publish
  <2>2. e \in Events /\ copies[e] \in Nat /\ f[1] \in up
    BY <2>1
  <2>3. UNCHANGED <<row, up, exits, overlapped>>
    BY <1>3 DEF Publish
  <2>4. TypeOK'
    BY <2>1, <2>2, <2>3
  <2>5. copies'[e] > 0 /\ \A d \in Events \ {e} : copies'[d] = copies[d]
    BY <2>1, <2>2
  <2>6. MarkedWasPublished'
    BY <2>3, <2>5
  <2>7. SendingWasPublished'
    BY <2>1, <2>2, <2>5
  <2> QED
    BY <2>4, <2>6, <2>7
<1>4. ASSUME NEW f \in Flushes, Mark(f) PROVE IInv'
  BY <1>4 DEF Mark
<1>5. ASSUME NEW i \in Instances, Exit(i) PROVE IInv'
  <2>1. /\ UNCHANGED <<row, copies, overlapped>>
        /\ up' = up \ {i} /\ exits < MaxExits /\ exits' = exits + 1
        /\ batch' = [f \in Flushes |-> IF f[1] = i THEN {} ELSE batch[f]]
        /\ sending' = [f \in Flushes |-> IF f[1] = i THEN NoEvent ELSE sending[f]]
    BY <1>5 DEF Exit
  <2>2. exits' \in 0 .. MaxExits
    BY <2>1
  <2> QED
    BY <2>1, <2>2
<1>6. ASSUME NEW i \in Instances, Restart(i) PROVE IInv'
  BY <1>6 DEF Restart
<1>7. CASE UNCHANGED vars
  BY <1>7 DEF vars
<1> QED
  BY <1>1, <1>2, <1>3, <1>4, <1>5, <1>6, <1>7 DEF Next, Flush

\* The variables keep their types, and no flush survives its process.
THEOREM TypeCorrect == Spec => []TypeOK
<1>1. IInv => TypeOK
  BY DEF IInv
<1> QED
  BY InitIInv, StepIInv, <1>1, PTL DEF Spec

\* A row of the outbox is marked only after its event was published, whatever
\* flushes overlap and wherever processes exit.
THEOREM NothingLost == Spec => []MarkedWasPublished
<1>1. IInv => MarkedWasPublished
  BY DEF IInv
<1> QED
  BY InitIInv, StepIInv, <1>1, PTL DEF Spec

LEMMA SettledStep == IInv /\ [Next]_vars =>
  [\A e \in Events : Settled(e) => Settled(e)' /\ copies'[e] = copies[e]]_vars
<1> SUFFICES ASSUME IInv, Next, NEW e \in Events, Settled(e)
             PROVE  Settled(e)' /\ copies'[e] = copies[e]
  OBVIOUS
<1> USE DEF IInv, TypeOK, Settled
<1>1. ASSUME NEW d \in Events, Commit(d) PROVE Settled(e)' /\ copies'[e] = copies[e]
  BY <1>1 DEF Commit
<1>2. ASSUME NEW f \in Flushes, Select(f) PROVE Settled(e)' /\ copies'[e] = copies[e]
  BY <1>2 DEF Select, Unpublished
<1>3. ASSUME NEW f \in Flushes, Publish(f) PROVE Settled(e)' /\ copies'[e] = copies[e]
  BY <1>3 DEF Publish
<1>4. ASSUME NEW f \in Flushes, Mark(f) PROVE Settled(e)' /\ copies'[e] = copies[e]
  BY <1>4 DEF Mark
<1>5. ASSUME NEW i \in Instances, Exit(i) PROVE Settled(e)' /\ copies'[e] = copies[e]
  BY <1>5 DEF Exit
<1>6. ASSUME NEW i \in Instances, Restart(i) PROVE Settled(e)' /\ copies'[e] = copies[e]
  BY <1>6 DEF Restart
<1> QED
  BY <1>1, <1>2, <1>3, <1>4, <1>5, <1>6 DEF Next, Flush

\* A row that is marked and in no batch is never taken up or published again,
\* by any flush of any instance.
THEOREM SettledForEver == Spec => SettledStaysSettled
<1>1. Spec => []IInv
  BY InitIInv, StepIInv, PTL DEF Spec
<1> QED
  BY <1>1, SettledStep, PTL DEF Spec, SettledStaysSettled

\* While no flush has overlapped another and no process has exited, at most
\* one flush runs, and the rows it has yet to publish, like the unpublished
\* rows it has not sent, have not been published before.
Undisturbed == overlapped = FALSE /\ exits = 0

Orderly ==
  /\ \A f, g \in Flushes : Running(f) /\ Running(g) => f = g
  /\ \A e \in Events : copies[e] <= 1
  /\ \A e \in Events : copies[e] = 1 =>
       row[e] = "published" \/ \E f \in Flushes : sending[f] = e
  /\ \A f \in Flushes : \A e \in batch[f] : copies[e] = 0

OnceInv == Undisturbed => Orderly

LEMMA InitOnce == Init => OnceInv
BY DEF Init, OnceInv, Orderly, Running

LEMMA StepOnce == IInv /\ OnceInv /\ [Next]_vars => OnceInv'
<1> SUFFICES ASSUME IInv, OnceInv, [Next]_vars, Undisturbed' PROVE Orderly'
  BY DEF OnceInv
<1> USE DEF IInv, TypeOK, Orderly, Running
<1>1. ASSUME NEW e \in Events, Commit(e) PROVE Orderly'
  <2>1. UNCHANGED <<copies, batch, sending, exits, overlapped>>
    BY <1>1 DEF Commit
  <2>2. \A d \in Events : row[d] = "published" => row'[d] = "published"
    BY <1>1 DEF Commit
  <2>3. Orderly
    BY <2>1 DEF OnceInv, Undisturbed
  <2> QED
    BY <2>1, <2>2, <2>3
<1>2. ASSUME NEW f \in Flushes, Select(f) PROVE Orderly'
  <2>1. PICK B \in SUBSET Unpublished : batch' = [batch EXCEPT ![f] = B]
    BY <1>2 DEF Select
  <2>2. overlapped' = (overlapped \/ \E g \in Flushes : Running(g))
    BY <1>2, Zenon DEF Select
  <2>3. UNCHANGED <<row, copies, up, sending, exits>>
    BY <1>2 DEF Select
  <2>4. ~overlapped'
    BY Zenon DEF Undisturbed
  <2>5. overlapped = FALSE /\ \A g \in Flushes : ~Running(g)
    BY <2>2, <2>4, Zenon
  <2>6. Orderly
    BY <2>3, <2>5 DEF OnceInv, Undisturbed
  <2>7. \A e \in B : e \in Events /\ copies[e] = 0
    BY <2>5, <2>6 DEF Unpublished
  <2> QED
    BY <2>1, <2>3, <2>5, <2>6, <2>7
<1>3. ASSUME NEW f \in Flushes, Publish(f) PROVE Orderly'
  <2>1. PICK e \in batch[f] : /\ copies' = [copies EXCEPT ![e] = @ + 1]
                              /\ sending' = [sending EXCEPT ![f] = e]
                              /\ batch' = [batch EXCEPT ![f] = @ \ {e}]
    BY <1>3 DEF Publish
  <2>2. UNCHANGED <<row, up, exits, overlapped>> /\ sending[f] = NoEvent
    BY <1>3 DEF Publish
  <2>3. Orderly
    BY <2>2 DEF OnceInv, Undisturbed
  <2>4. e \in Events /\ copies[e] = 0 /\ copies'[e] = 1
    BY <2>1, <2>3
  <2>5. \A g \in Flushes : g # f => ~Running(g) /\ batch'[g] = batch[g] /\ sending'[g] = sending[g]
    BY <2>1, <2>3
  <2>6. \A d \in Events \ {e} : copies'[d] = copies[d]
    BY <2>1
  <2>7. \A g, h \in Flushes : Running(g)' /\ Running(h)' => g = h
    BY <2>5
  <2>8. \A d \in Events : copies'[d] = 1 =>
           row'[d] = "published" \/ \E g \in Flushes : sending'[g] = d
    <3>1. sending'[f] = e
      BY <2>1
    <3>2. ASSUME NEW d \in Events \ {e}, copies[d] = 1
          PROVE  row'[d] = "published" \/ \E g \in Flushes : sending'[g] = d
      <4>1. CASE row[d] = "published"
        BY <4>1, <2>2
      <4>2. CASE \E g \in Flushes : sending[g] = d
        BY <4>2, <2>2, <2>5
      <4> QED
        BY <4>1, <4>2, <3>2, <2>3
    <3> QED
      BY <3>1, <3>2, <2>6
  <2>9. \A g \in Flushes : \A d \in batch'[g] : copies'[d] = 0
    BY <2>1, <2>3, <2>5, <2>6
  <2> QED
    BY <2>3, <2>4, <2>6, <2>7, <2>8, <2>9
<1>4. ASSUME NEW f \in Flushes, Mark(f) PROVE Orderly'
  <2>1. /\ UNCHANGED <<copies, up, batch, exits, overlapped>>
        /\ row' = [row EXCEPT ![sending[f]] = "published"]
        /\ sending' = [sending EXCEPT ![f] = NoEvent]
        /\ sending[f] \in Events
    BY <1>4 DEF Mark
  <2>2. Orderly
    BY <2>1 DEF OnceInv, Undisturbed
  <2>3. \A e \in Events : copies'[e] = 1 =>
           row'[e] = "published" \/ \E g \in Flushes : sending'[g] = e
    BY <2>1, <2>2
  <2>4. \A g \in Flushes : Running(g)' => Running(g)
    BY <2>1
  <2> QED
    BY <2>1, <2>2, <2>3, <2>4
<1>5. ASSUME NEW i \in Instances, Exit(i) PROVE Orderly'
  <2>1. exits' > 0
    BY <1>5 DEF Exit
  <2> QED
    BY <2>1 DEF Undisturbed
<1>6. ASSUME NEW i \in Instances, Restart(i) PROVE Orderly'
  BY <1>6 DEF Restart, OnceInv, Undisturbed
<1>7. CASE UNCHANGED vars
  BY <1>7 DEF vars, OnceInv, Undisturbed
<1> QED
  BY <1>1, <1>2, <1>3, <1>4, <1>5, <1>6, <1>7 DEF Next, Flush

\* An event is published more than once only after flushes overlapped or a
\* process exited: the loop itself repeats nothing.
THEOREM OnceUndisturbed == Spec => []DuplicateIsExcused
<1>1. IInv /\ OnceInv => DuplicateIsExcused
  <2> SUFFICES ASSUME IInv, OnceInv, NEW e \in Events, copies[e] > 1
               PROVE  overlapped \/ exits > 0
    BY DEF DuplicateIsExcused
  <2>1. copies[e] \in Nat /\ exits \in Nat /\ overlapped \in BOOLEAN
    BY DEF IInv, TypeOK
  <2>2. ~Undisturbed
    BY <2>1 DEF OnceInv, Orderly
  <2>3. overlapped # FALSE \/ exits # 0
    BY <2>2, Zenon DEF Undisturbed
  <2>4. CASE exits # 0
    BY <2>1, <2>4
  <2>5. CASE overlapped # FALSE
    BY <2>1, <2>5, Zenon
  <2> QED
    BY <2>3, <2>4, <2>5, Zenon
<1> QED
  BY InitIInv, StepIInv, InitOnce, StepOnce, <1>1, PTL DEF Spec

=============================================================================
