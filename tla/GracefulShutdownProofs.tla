------------------------ MODULE GracefulShutdownProofs ------------------------
(***************************************************************************)
(* What a request sent after SIGTERM can get, and that the pool's queue    *)
(* and the requests agree, for any number of requests and any pool.        *)
(***************************************************************************)
EXTENDS GracefulShutdown, SequenceTheorems, TLAPS

\* The pool ends with the signal, before the flag is set: a request that
\* arrives later never gets a place in its queue.
NoLateQuery ==
  /\ pc \in [Requests -> {"idle", "connect", "queued", "busy"} \cup Answered]
  /\ late \in [Requests -> BOOLEAN]
  /\ phase \notin {"up", "down"} => poolEnding
  /\ \A r \in Requests : late[r] => poolEnding /\ pc[r] \notin {"queued", "busy", "ok"}

LEMMA InitNoLateQuery == Init => NoLateQuery
BY DEF Init, NoLateQuery, Answered

LEMMA StepNoLateQuery == NoLateQuery /\ [Next]_vars => NoLateQuery'
<1> SUFFICES ASSUME NoLateQuery, [Next]_vars PROVE NoLateQuery'
  OBVIOUS
<1> USE DEF NoLateQuery, Goto, Answered
<1>1. ASSUME NEW r \in Requests, Arrive(r) PROVE NoLateQuery'
  BY <1>1 DEF Arrive
<1>2. ASSUME NEW r \in Requests, Handle(r) PROVE NoLateQuery'
  <2>1. CASE Connect(r)
    BY <2>1 DEF Connect
  <2>2. CASE Serve(r)
    BY <2>2 DEF Serve
  <2>3. CASE Release(r)
    BY <2>3 DEF Release
  <2> QED
    BY <1>2, <2>1, <2>2, <2>3 DEF Handle
<1>3. ASSUME NEW r \in Requests, TimeOut(r) PROVE NoLateQuery'
  BY <1>3 DEF TimeOut
<1>4. CASE Sigterm
  BY <1>4 DEF Sigterm
<1>5. CASE Hooks
  BY <1>5 DEF Hooks, PoolEnded, SetFlag, CloseServer, ExitProcess
<1>6. CASE Die
  BY <1>6 DEF Die, Open
<1>7. CASE UNCHANGED vars
  BY <1>7 DEF vars
<1> QED
  BY <1>1, <1>2, <1>3, <1>4, <1>5, <1>6, <1>7 DEF Next

\* A readiness probe sent after SIGTERM never succeeds: between the signal
\* and the flag it is the ended pool that turns it away.
THEOREM LateProbesAlwaysFail == Spec => []LateProbesFail
<1>1. NoLateQuery => LateProbesFail
  BY DEF NoLateQuery, LateProbesFail, Requests
<1> QED
  BY InitNoLateQuery, StepNoLateQuery, <1>1, PTL DEF Spec

-----------------------------------------------------------------------------
(* Types *)

\* A queue in which nobody stands twice.
Once(q) ==
  /\ q \in Seq(Requests)
  /\ \A i, j \in 1 .. Len(q) : q[i] = q[j] => i = j

Stands(q, r) == \E i \in 1 .. Len(q) : q[i] = r

\* Who joins at the end, stands there.
LEMMA Joining ==
  ASSUME NEW q, Once(q), NEW r \in Requests, ~Stands(q, r)
  PROVE  /\ Once(Append(q, r))
         /\ \A x \in Requests : Stands(Append(q, r), x) <=> Stands(q, x) \/ x = r
<1> DEFINE q1 == Append(q, r)
<1>0. q \in Seq(Requests) /\ Len(q) \in Nat
  BY DEF Once
<1>1. /\ q1 \in Seq(Requests) /\ Len(q1) = Len(q) + 1
      /\ \A i \in 1 .. Len(q) : q1[i] = q[i]
      /\ q1[Len(q) + 1] = r
  BY <1>0, AppendProperties
<1> HIDE DEF q1
<1>2. \A i, j \in 1 .. Len(q1) : q1[i] = q1[j] => i = j
  <2> SUFFICES ASSUME NEW i \in 1 .. Len(q1), NEW j \in 1 .. Len(q1), q1[i] = q1[j]
               PROVE  i = j
    OBVIOUS
  <2>1. i \in 1 .. Len(q) \/ i = Len(q) + 1
    BY <1>0, <1>1
  <2>2. j \in 1 .. Len(q) \/ j = Len(q) + 1
    BY <1>0, <1>1
  <2> QED BY <1>1, <2>1, <2>2 DEF Once, Stands
<1>3. \A x \in Requests : Stands(q1, x) <=> Stands(q, x) \/ x = r
  <2>1. \A i \in 1 .. Len(q1) : i \in 1 .. Len(q) \/ i = Len(q) + 1
    BY <1>0, <1>1
  <2>2. \A i \in 1 .. Len(q) : i \in 1 .. Len(q1)
    BY <1>0, <1>1
  <2>3. Len(q) + 1 \in 1 .. Len(q1)
    BY <1>0, <1>1
  <2> QED BY <1>1, <2>1, <2>2, <2>3 DEF Stands
<1>4. Once(q1)
  BY <1>1, <1>2 DEF Once
<1> QED BY <1>3, <1>4 DEF q1

\* Who leaves, from whatever place, is gone, and nobody else is.
LEMMA Leaving ==
  ASSUME NEW q, Once(q), NEW n \in 1 .. Len(q)
  PROVE  /\ Once(RemoveAt(q, n))
         /\ \A x \in Requests : Stands(RemoveAt(q, n), x) <=> Stands(q, x) /\ x # q[n]
<1> DEFINE front == SubSeq(q, 1, n - 1)
           back == SubSeq(q, n + 1, Len(q))
           q1 == RemoveAt(q, n)
           Place(i) == IF i < n THEN i ELSE i + 1
<1>0. q \in Seq(Requests) /\ Len(q) \in Nat /\ \A i \in 1 .. Len(q) : q[i] \in Requests
  BY DEF Once
<1>1. /\ front \in Seq(Requests) /\ Len(front) = n - 1
      /\ \A i \in 1 .. n - 1 : front[i] = q[i]
  BY <1>0, SubSeqProperties
<1>2. /\ back \in Seq(Requests) /\ Len(back) = Len(q) - n
      /\ \A i \in 1 .. Len(q) - n : back[i] = q[n + i]
  <2>1. \A i \in n + 1 .. Len(q) : q[i] \in Requests
    BY <1>0
  <2>2. /\ back \in Seq(Requests)
        /\ Len(back) = IF n + 1 <= Len(q) THEN Len(q) - (n + 1) + 1 ELSE 0
        /\ \A i \in 1 .. Len(q) - (n + 1) + 1 : back[i] = q[n + 1 + i - 1]
    BY <1>0, <2>1, SubSeqProperties
  <2> HIDE DEF back
  <2> QED BY <1>0, <2>2
<1>3. q1 = front \o back
  BY DEF RemoveAt
<1> HIDE DEF front, back, q1
<1>4. /\ q1 \in Seq(Requests) /\ Len(q1) = Len(front) + Len(back)
      /\ \A i \in 1 .. Len(front) + Len(back) :
           q1[i] = IF i <= Len(front) THEN front[i] ELSE back[i - Len(front)]
  BY <1>1, <1>2, <1>3, ConcatProperties
<1>5. Len(q1) = Len(q) - 1
  BY <1>0, <1>1, <1>2, <1>4
<1>6. \A i \in 1 .. Len(q1) : Place(i) \in 1 .. Len(q) /\ Place(i) # n /\ q1[i] = q[Place(i)]
  <2> TAKE i \in 1 .. Len(q1)
  <2>1. CASE i < n
    BY <1>0, <1>1, <1>2, <1>4, <1>5, <2>1
  <2>2. CASE ~(i < n)
    <3>1. i - (n - 1) \in 1 .. Len(q) - n /\ n + (i - (n - 1)) = i + 1 /\ ~(i <= n - 1)
      BY <1>0, <1>5, <2>2
    <3>2. q1[i] = back[i - (n - 1)]
      BY <1>1, <1>2, <1>4, <3>1
    <3>3. back[i - (n - 1)] = q[n + (i - (n - 1))]
      BY <1>2, <3>1
    <3> QED BY <1>0, <1>5, <2>2, <3>1, <3>2, <3>3
  <2> QED BY <2>1, <2>2
<1>7. \A k \in 1 .. Len(q) : k # n => \E i \in 1 .. Len(q1) : Place(i) = k
  <2> SUFFICES ASSUME NEW k \in 1 .. Len(q), k # n PROVE \E i \in 1 .. Len(q1) : Place(i) = k
    OBVIOUS
  <2>1. CASE k < n
    <3>1. k \in 1 .. Len(q1) /\ Place(k) = k
      BY <1>0, <1>5, <2>1
    <3> QED BY <3>1
  <2>2. CASE k > n
    <3>1. k - 1 \in 1 .. Len(q1) /\ Place(k - 1) = k
      BY <1>0, <1>5, <2>2
    <3> QED BY <3>1
  <2> QED BY <1>0, <2>1, <2>2
<1>8. \A i, j \in 1 .. Len(q1) : Place(i) = Place(j) => i = j
  BY <1>0, <1>5
<1> HIDE DEF Place
<1>9. Once(q1)
  <2> SUFFICES ASSUME NEW i \in 1 .. Len(q1), NEW j \in 1 .. Len(q1), q1[i] = q1[j]
               PROVE  i = j
    BY <1>4 DEF Once
  <2>1. Place(i) = Place(j)
    BY <1>6 DEF Once
  <2> QED BY <1>8, <2>1
<1>10. \A x \in Requests : Stands(q1, x) <=> Stands(q, x) /\ x # q[n]
  BY <1>6, <1>7 DEF Once, Stands
<1> QED BY <1>9, <1>10 DEF q1

\* The head of the queue leaves it from the first place.
LEMMA HeadLeaves ==
  ASSUME NEW q, Once(q), q # <<>>
  PROVE  /\ 1 \in 1 .. Len(q) /\ Head(q) = q[1]
         /\ Once(Tail(q))
         /\ \A x \in Requests : Stands(Tail(q), x) <=> Stands(q, x) /\ x # q[1]
<1>1. q \in Seq(Requests) /\ Len(q) \in Nat \ {0} /\ Head(q) = q[1]
  BY DEF Once
<1>2. /\ Tail(q) \in Seq(Requests) /\ Len(Tail(q)) = Len(q) - 1
      /\ \A i \in 1 .. Len(Tail(q)) : Tail(q)[i] = q[i + 1]
  BY <1>1, HeadTailProperties
<1> DEFINE q1 == Tail(q)
<1> HIDE DEF q1
<1>3. /\ q1 \in Seq(Requests) /\ Len(q1) = Len(q) - 1
      /\ \A i \in 1 .. Len(q1) : q1[i] = q[i + 1]
  BY <1>2 DEF q1
<1>4. \A i \in 1 .. Len(q1) : i + 1 \in 1 .. Len(q) /\ i + 1 # 1
  BY <1>1, <1>3
<1>5. Once(q1)
  <2> SUFFICES ASSUME NEW i \in 1 .. Len(q1), NEW j \in 1 .. Len(q1), q1[i] = q1[j]
               PROVE  i = j
    BY <1>3 DEF Once
  <2>1. i + 1 = j + 1
    BY <1>3, <1>4 DEF Once
  <2> QED BY <2>1
<1>6. \A x \in Requests : Stands(q1, x) <=> Stands(q, x) /\ x # q[1]
  <2>1. \A k \in 1 .. Len(q) : k = 1 \/ (k - 1 \in 1 .. Len(q1) /\ (k - 1) + 1 = k)
    BY <1>1, <1>3
  <2>2. 1 \in 1 .. Len(q)
    BY <1>1
  <2>3. ASSUME NEW x \in Requests, Stands(q1, x) PROVE Stands(q, x) /\ x # q[1]
    BY <1>3, <1>4, <2>2, <2>3 DEF Stands, Once
  <2>4. ASSUME NEW x \in Requests, Stands(q, x), x # q[1] PROVE Stands(q1, x)
    <3>1. PICK k \in 1 .. Len(q) : q[k] = x
      BY <2>4 DEF Stands
    <3>2. k - 1 \in 1 .. Len(q1) /\ (k - 1) + 1 = k
      BY <2>1, <2>4, <3>1
    <3>3. q1[k - 1] = x
      BY <1>3, <3>1, <3>2
    <3> QED BY <3>2, <3>3 DEF Stands
  <2> QED BY <2>3, <2>4
<1> QED BY <1>1, <1>5, <1>6 DEF q1

\* The queue holds the queued requests, once each, and a request that is not
\* answered has a checkout left to make.
QueueInv ==
  /\ phase \in {"up", "ending", "flagging", "closing", "down"}
  /\ poolEnding \in BOOLEAN /\ shuttingDown \in BOOLEAN
  /\ pc \in [Requests -> {"idle", "connect", "queued", "busy"} \cup Answered]
  /\ left \in [Requests -> 0 .. Checkouts]
  /\ late \in [Requests -> BOOLEAN]
  /\ \A r \in Requests : pc[r] \notin Answered => left[r] > 0
  /\ Once(queue)
  /\ \A r \in Requests : pc[r] = "queued" <=> Stands(queue, r)

LEMMA InitQueueInv == Init => QueueInv
<1> SUFFICES ASSUME Init PROVE QueueInv
  OBVIOUS
<1>1. Once(queue) /\ \A r \in Requests : ~Stands(queue, r)
  BY DEF Init, Once, Stands
<1>2. left \in [Requests -> 0 .. Checkouts] /\ \A r \in Requests : left[r] > 0
  BY CheckoutsAssumption DEF Init
<1>3. /\ pc = [r \in Requests |-> "idle"] /\ late = [r \in Requests |-> FALSE]
      /\ phase = "up" /\ poolEnding = FALSE /\ shuttingDown = FALSE
  BY DEF Init
<1>4. late \in [Requests -> BOOLEAN]
  BY <1>3
<1> QED BY <1>1, <1>2, <1>3, <1>4 DEF QueueInv, Answered

LEMMA StepQueueInv == QueueInv /\ [Next]_vars => QueueInv'
<1> SUFFICES ASSUME QueueInv, [Next]_vars PROVE QueueInv'
  OBVIOUS
<1> USE DEF QueueInv
<1>1. ASSUME NEW r \in Requests, Arrive(r) PROVE QueueInv'
  BY <1>1 DEF Arrive, Goto, Answered
<1>2. ASSUME NEW r \in Requests, Connect(r) PROVE QueueInv'
  <2>1. CASE poolEnding
    BY <1>2, <2>1 DEF Connect, Goto, Answered
  <2>2. CASE ~poolEnding
    <3>1. /\ pc[r] = "connect" /\ pc' = [pc EXCEPT ![r] = "queued"] /\ queue' = Append(queue, r)
          /\ UNCHANGED <<phase, poolEnding, shuttingDown, left, late>>
      BY <1>2, <2>2 DEF Connect, Goto
    <3>2. Once(queue') /\ \A x \in Requests : Stands(queue', x) <=> Stands(queue, x) \/ x = r
      BY <3>1, Joining
    <3>3. Once(queue)'
      BY <3>2 DEF Once
    <3>4. \A x \in Requests : Stands(queue, x)' <=> Stands(queue, x) \/ x = r
      BY <3>2 DEF Stands
    <3> QED BY <3>1, <3>3, <3>4 DEF Answered
  <2> QED BY <2>1, <2>2
<1>3. ASSUME NEW r \in Requests, NEW stage \in {"busy", "timedOut"}, pc[r] = "queued",
             pc' = [pc EXCEPT ![r] = stage],
             Once(queue'), \A x \in Requests : Stands(queue', x) <=> Stands(queue, x) /\ x # r,
             UNCHANGED <<phase, poolEnding, shuttingDown, left, late>>
      PROVE  QueueInv'
  <2>1. Once(queue)'
    BY <1>3 DEF Once
  <2>2. \A x \in Requests : Stands(queue, x)' <=> Stands(queue, x) /\ x # r
    BY <1>3 DEF Stands
  <2> QED BY <1>3, <2>1, <2>2 DEF Answered
<1>4. ASSUME NEW r \in Requests, Serve(r) PROVE QueueInv'
  <2>1. r = queue[1] /\ Once(queue') /\ Stands(queue, r)
        /\ \A x \in Requests : Stands(queue', x) <=> Stands(queue, x) /\ x # r
    BY <1>4, HeadLeaves DEF Serve, Stands
  <2> QED BY <1>3, <1>4, <2>1 DEF Serve, Goto
<1>5. ASSUME NEW r \in Requests, TimeOut(r) PROVE QueueInv'
  <2>1. PICK i \in DOMAIN queue : queue[i] = r /\ queue' = RemoveAt(queue, i)
    BY <1>5 DEF TimeOut
  <2>2. i \in 1 .. Len(queue)
    BY <2>1 DEF Once
  <2>3. Once(queue') /\ \A x \in Requests : Stands(queue', x) <=> Stands(queue, x) /\ x # r
    BY <2>1, <2>2, Leaving
  <2> QED BY <1>3, <1>5, <2>3 DEF TimeOut, Goto
<1>6. ASSUME NEW r \in Requests, Release(r) PROVE QueueInv'
  <2>1. left[r] \in 1 .. Checkouts
    BY <1>6, CheckoutsAssumption DEF Release, Answered
  <2>2. left[r] - 1 \in 0 .. Checkouts /\ (left[r] # 1 => left[r] - 1 > 0)
    BY <2>1, CheckoutsAssumption
  <2> QED BY <1>6, <2>1, <2>2 DEF Release, Goto, Answered
<1>7. CASE Sigterm
  BY <1>7 DEF Sigterm
<1>8. CASE Hooks
  BY <1>8 DEF Hooks, PoolEnded, SetFlag, CloseServer, ExitProcess
<1>9. CASE Die
  <2>1. Once(queue)' /\ \A x \in Requests : ~Stands(queue, x)'
    BY <1>9 DEF Die, Once, Stands
  <2> QED BY <1>9, <2>1 DEF Die, Open, Answered
<1>10. CASE UNCHANGED vars
  BY <1>10 DEF vars, Once, Stands
<1> QED
  BY <1>1, <1>2, <1>4, <1>5, <1>6, <1>7, <1>8, <1>9, <1>10 DEF Next, Handle

\* TypeOK: the pending queue of the pool holds the requests that wait for a
\* client, once each, whoever arrives, is served or times out, and no request
\* makes more checkouts than its handler has.
THEOREM TypeCorrect == Spec => []TypeOK
<1>1. QueueInv => TypeOK
  <2> SUFFICES ASSUME QueueInv PROVE TypeOK
    OBVIOUS
  <2>1. queue \in Seq(Requests) /\ DOMAIN queue = 1 .. Len(queue)
    BY DEF QueueInv, Once
  <2>2. ToSet(queue) = {r \in Requests : pc[r] = "queued"}
    <3>1. \A i \in 1 .. Len(queue) : queue[i] \in Requests
      BY <2>1
    <3>2. \A r \in Requests : Stands(queue, r) <=> pc[r] = "queued"
      BY DEF QueueInv
    <3>3. ToSet(queue) = {queue[i] : i \in 1 .. Len(queue)}
      BY <2>1 DEF ToSet
    <3>4. \A i \in 1 .. Len(queue) : Stands(queue, queue[i])
      BY DEF Stands
    <3>5. \A x \in ToSet(queue) : x \in Requests /\ pc[x] = "queued"
      BY <3>1, <3>2, <3>3, <3>4
    <3>6. \A r \in Requests : pc[r] = "queued" => r \in ToSet(queue)
      BY <3>2, <3>3 DEF Stands
    <3> QED BY <3>5, <3>6
  <2>3. IsInjective(queue)
    BY <2>1 DEF IsInjective, QueueInv, Once
  <2> QED BY <2>2, <2>3 DEF QueueInv, TypeOK
<1> QED
  BY InitQueueInv, StepQueueInv, <1>1, PTL DEF Spec

=============================================================================
