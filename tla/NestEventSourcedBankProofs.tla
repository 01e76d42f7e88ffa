---------------------- MODULE NestEventSourcedBankProofs ----------------------
(***************************************************************************)
(* Proofs about the two event-sourced variants and their rebuild, for any  *)
(* accounts, requests and number of handlers: cqrs-es-nestjs, with its     *)
(* aggregates changed in memory before the append and its versions noted   *)
(* before that, makes no step on the tables that cqrs-es would not make.   *)
(* What is proved of the event-sourced bank therefore holds of both.       *)
(***************************************************************************)
EXTENDS NestEventSourcedBank, TotalsProofs

\* The highest number of a bounded set.
LEMMA Highest ==
  ASSUME NEW n \in Nat, NEW s \in SUBSET (1 .. n), s # {}
  PROVE  Max(s) \in s /\ \A x \in s : Max(s) >= x
<1> DEFINE N == {n - x : x \in s}
<1>1. N \subseteq Nat /\ N # {}
  <2>1. \A x \in s : x \in 1 .. n /\ n - x \in Nat
    OBVIOUS
  <2>2. PICK x \in s : TRUE
    OBVIOUS
  <2>3. n - x \in N
    OBVIOUS
  <2> QED BY <2>1, <2>3
<1>2. PICK k \in N : \A m \in N : m >= k
  <2> HIDE DEF N
  <2> QED BY <1>1, LeastNumber
<1>3. PICK x \in s : k = n - x
  OBVIOUS
<1>4. \A y \in s : x >= y
  <2>1. ASSUME NEW y \in s PROVE x >= y
    <3>1. n - y >= k
      BY <1>2
    <3> QED BY <1>3, <3>1
  <2> QED BY <2>1
<1> QED BY <1>4 DEF Max

-----------------------------------------------------------------------------
(* The recursion behind loadFromHistory *)

\* One event changes the version and the balance of an object, nothing else.
LEMMA OnObject ==
  ASSUME NEW version, NEW balance, NEW uncommitted, NEW event
  PROVE  On([version |-> version, balance |-> balance, uncommitted |-> uncommitted], event)
           = [version |-> version + 1,
              balance |-> Apply(balance, event.kind, event.amount),
              uncommitted |-> uncommitted]
<1> DEFINE object == [version |-> version, balance |-> balance, uncommitted |-> uncommitted]
           sum == version + 1
           new == Apply(balance, event.kind, event.amount)
<1>1. On(object, event) = [object EXCEPT !.version = sum, !.balance = new]
  BY DEF On
<1> HIDE DEF sum, new
<1> DEFINE counted == [version |-> sum, balance |-> balance, uncommitted |-> uncommitted]
<1>2. [object EXCEPT !.version = sum] = counted
  OBVIOUS
<1>3. [counted EXCEPT !.balance = new]
        = [version |-> sum, balance |-> new, uncommitted |-> uncommitted]
  OBVIOUS
<1>4. [object EXCEPT !.version = sum, !.balance = new]
        = [version |-> sum, balance |-> new, uncommitted |-> uncommitted]
  BY <1>2, <1>3
<1> QED BY <1>1, <1>4 DEF sum, new

\* g maps every set of positions to the object that has their events.
Loads(g, account, events, S) ==
  g = [s \in SUBSET S |-> IF s = {} THEN account
                          ELSE On(g[s \ {Max(s)}], events[Max(s)])]

\* loadFromHistory is the value, at all positions, of such a function.
LEMMA LoadIsIterated ==
  ASSUME NEW account, NEW events
  PROVE  LoadFromHistory(account, events)
           = (CHOOSE g : Loads(g, account, events, DOMAIN events))[DOMAIN events]
BY DEF LoadFromHistory, FoldLeft, MapThenFoldSet, Loads

\* What Loads says of one set.
LoadsAll(g, account, events, S) ==
  \A s \in SUBSET S :
    g[s] = IF s = {} THEN account ELSE On(g[s \ {Max(s)}], events[Max(s)])

\* Such a function has, at each set, the value the recursion gives it.
LEMMA LoadsAt ==
  ASSUME NEW account, NEW events, NEW S, NEW g, Loads(g, account, events, S)
  PROVE  LoadsAll(g, account, events, S)
<1> SUFFICES ASSUME NEW s \in SUBSET S
             PROVE  g[s] = IF s = {} THEN account ELSE On(g[s \ {Max(s)}], events[Max(s)])
  BY DEF LoadsAll
<1> DEFINE body(h) == [z \in SUBSET S |-> IF z = {} THEN account
                                          ELSE On(h[z \ {Max(z)}], events[Max(z)])]
<1>1. g = body(g)
  BY DEF Loads
<1>2. body(g)[s] = IF s = {} THEN account ELSE On(g[s \ {Max(s)}], events[Max(s)])
  OBVIOUS
<1> QED BY <1>1, <1>2

\* Two such functions agree wherever both are defined.
LEMMA LoadsAgree ==
  ASSUME NEW account, NEW events, NEW n \in Nat, NEW S \in SUBSET (1 .. n), NEW T, NEW g, NEW h,
         Loads(g, account, events, S), Loads(h, account, events, T)
  PROVE  \A s \in SUBSET (S \cap T) : g[s] = h[s]
<1> DEFINE Differ == {s \in SUBSET S : s \subseteq T /\ g[s] # h[s]}
<1>0. IsFiniteSet(S)
  <2>1. IsFiniteSet(1 .. n)
    BY FS_Interval
  <2> QED BY <2>1, FS_Subset
<1>1. CASE Differ = {}
  BY <1>1
<1>2. CASE Differ # {}
  <2>1. PICK s \in Differ : \A u \in SUBSET s : u # s => u \notin Differ
    <3> HIDE DEF Differ
    <3>1. Differ \subseteq SUBSET S
      BY DEF Differ
    <3> QED BY <1>0, <1>2, <3>1, LeastSet
  <2>2. s \in SUBSET S /\ s \in SUBSET T
    OBVIOUS
  <2> HIDE DEF Differ
  <2>3. /\ s = {} => g[s] = account
        /\ s # {} => g[s] = On(g[s \ {Max(s)}], events[Max(s)])
    <3>1. LoadsAll(g, account, events, S)
      BY LoadsAt
    <3> QED BY <2>2, <3>1 DEF LoadsAll
  <2>4. /\ s = {} => h[s] = account
        /\ s # {} => h[s] = On(h[s \ {Max(s)}], events[Max(s)])
    <3>1. LoadsAll(h, account, events, T)
      BY LoadsAt
    <3> QED BY <2>2, <3>1 DEF LoadsAll
  <2>5. s # {}
    BY <2>1, <2>3, <2>4 DEF Differ
  <2>6. g[s \ {Max(s)}] = h[s \ {Max(s)}]
    <3>1. Max(s) \in s
      BY <2>2, <2>5, Highest
    <3>2. s \ {Max(s)} \in SUBSET s /\ s \ {Max(s)} # s
      BY <3>1
    <3>3. s \ {Max(s)} \notin Differ
      BY <2>1, <3>2
    <3> QED BY <2>2, <3>2, <3>3 DEF Differ
  <2> QED BY <2>1, <2>3, <2>4, <2>5, <2>6 DEF Differ
<1> QED BY <1>1, <1>2

\* Such a function exists: the objects of those of the smaller sets.
LEMMA LoadsExists ==
  ASSUME NEW account, NEW events, NEW n \in Nat
  PROVE  \E g : Loads(g, account, events, 1 .. n)
<1> DEFINE S == 1 .. n
           Lacking == {T \in SUBSET S : ~ \E g : Loads(g, account, events, T)}
<1>1. CASE Lacking = {}
  BY <1>1
<1>2. CASE Lacking # {}
  <2>1. PICK T \in Lacking : \A u \in SUBSET T : u # T => u \notin Lacking
    <3> HIDE DEF Lacking
    <3>1. Lacking \subseteq SUBSET S /\ IsFiniteSet(S)
      BY FS_Interval DEF Lacking
    <3> QED BY <1>2, <3>1, LeastSet
  <2> DEFINE chosen(u) == CHOOSE g : Loads(g, account, events, u)
             value(u) == chosen(u)[u]
  <2>2. ASSUME NEW u \in SUBSET T, u # T
        PROVE  Loads(chosen(u), account, events, u)
    <3>1. \E g : Loads(g, account, events, u)
      BY <2>1, <2>2
    <3> QED BY <3>1
  <2>3. \A u \in SUBSET T : u # {} => Max(u) \in u
    BY Highest
  <2> HIDE DEF chosen
  <2>4. ASSUME NEW u \in SUBSET T, u # T
        PROVE  value(u) = IF u = {} THEN account
                          ELSE On(value(u \ {Max(u)}), events[Max(u)])
    <3> DEFINE g == chosen(u)
    <3>0. Loads(g, account, events, u) /\ u \in SUBSET u
      BY <2>2, <2>4
    <3> HIDE DEF g
    <3>1. value(u) = IF u = {} THEN account
                     ELSE On(chosen(u)[u \ {Max(u)}], events[Max(u)])
      <4>1. /\ u = {} => g[u] = account
            /\ u # {} => g[u] = On(g[u \ {Max(u)}], events[Max(u)])
        <5>1. LoadsAll(g, account, events, u)
          BY <3>0, LoadsAt
        <5> QED BY <3>0, <5>1 DEF LoadsAll
      <4> QED BY <4>1 DEF g
    <3>2. CASE u = {}
      BY <3>1, <3>2
    <3>3. CASE u # {}
      <4> DEFINE v == u \ {Max(u)}
      <4>1. v \in SUBSET (u \cap v) /\ v \in SUBSET T /\ v # T
        BY <2>3, <3>3
      <4>2. Loads(chosen(v), account, events, v) /\ Loads(chosen(u), account, events, u)
        BY <2>2, <2>4, <4>1
      <4>3. u \in SUBSET (1 .. n) /\ n \in Nat
        OBVIOUS
      <4>4. chosen(u)[v] = chosen(v)[v]
        <5> DEFINE first == chosen(u)
                   second == chosen(v)
        <5>1. /\ Loads(first, account, events, u) /\ Loads(second, account, events, v)
              /\ v \in SUBSET (u \cap v)
          BY <4>1, <4>2
        <5> HIDE DEF first, second, v
        <5>2. \A z \in SUBSET (u \cap v) : first[z] = second[z]
          BY <4>3, <5>1, LoadsAgree
        <5> QED BY <5>1, <5>2 DEF first, second
      <4> HIDE DEF v
      <4> QED BY <3>1, <3>3, <4>4 DEF v
    <3> QED BY <3>2, <3>3
  <2> HIDE DEF value
  <2> DEFINE total(s) == IF s = {} THEN account ELSE On(value(s \ {Max(s)}), events[Max(s)])
             g == [s \in SUBSET T |-> total(s)]
  <2>5. ASSUME NEW s \in SUBSET T, s # {}
        PROVE  g[s \ {Max(s)}] = value(s \ {Max(s)})
    <3> DEFINE u == s \ {Max(s)}
    <3>1. u \in SUBSET T /\ u # T
      BY <2>3, <2>5
    <3>2. g[u] = total(u)
      BY <3>1
    <3> QED BY <2>4, <3>1, <3>2
  <2>6. ASSUME NEW s \in SUBSET T
        PROVE  total(s) = IF s = {} THEN account ELSE On(g[s \ {Max(s)}], events[Max(s)])
    BY <2>5
  <2> HIDE DEF total
  <2>7. Loads(g, account, events, T)
    BY <2>6 DEF Loads
  <2> QED BY <2>7
<1> QED BY <1>1, <1>2

\* loadFromHistory counts the events and takes their balances one by one.
LEMMA Loading ==
  ASSUME NEW account, account.version \in Int,
         account = [version |-> account.version, balance |-> account.balance,
                    uncommitted |-> account.uncommitted],
         NEW n \in Nat, NEW events, DOMAIN events = 1 .. n,
         NEW after, after[0] = account.balance,
         \A k \in 1 .. n : after[k] = Apply(after[k - 1], events[k].kind, events[k].amount)
  PROVE  LoadFromHistory(account, events)
           = [version |-> account.version + n, balance |-> after[n],
              uncommitted |-> account.uncommitted]
<1> DEFINE g == CHOOSE h : Loads(h, account, events, 1 .. n)
           object(k) == [version |-> account.version + k, balance |-> after[k],
                         uncommitted |-> account.uncommitted]
           Wrong == {k \in 0 .. n : g[1 .. k] # object(k)}
<1>1. Loads(g, account, events, 1 .. n) /\ LoadFromHistory(account, events) = g[1 .. n]
  <2>1. \E h : Loads(h, account, events, 1 .. n)
    BY LoadsExists
  <2> QED BY <2>1, LoadIsIterated
<1> HIDE DEF g
<1>2. CASE Wrong # {}
  <2>1. PICK k \in Wrong : \A m \in Wrong : m >= k
    <3>1. Wrong \subseteq Nat
      OBVIOUS
    <3> HIDE DEF Wrong
    <3> QED BY <1>2, <3>1, LeastNumber
  <2>2. 1 .. k \in SUBSET (1 .. n)
    OBVIOUS
  <2> DEFINE s == 1 .. k
  <2>3. /\ s = {} => g[s] = account
        /\ s # {} => g[s] = On(g[s \ {Max(s)}], events[Max(s)])
    <3>1. LoadsAll(g, account, events, 1 .. n)
      BY <1>1, LoadsAt
    <3>2. s \in SUBSET (1 .. n)
      BY <2>2
    <3> HIDE DEF s
    <3> QED BY <3>1, <3>2 DEF LoadsAll
  <2>4. CASE k = 0
    <3>1. object(0) = account /\ s = {}
      BY <2>4
    <3> QED BY <2>1, <2>3, <2>4, <3>1
  <2>5. CASE k # 0
    <3>1. k \in 1 .. n /\ k \in s /\ k - 1 \in 0 .. n
      BY <2>5
    <3>2. Max(s) = k
      <4>1. s \in SUBSET (1 .. n) /\ s # {}
        BY <2>2, <3>1
      <4>2. Max(s) \in s /\ \A x \in s : Max(s) >= x
        <5> HIDE DEF s
        <5> QED BY <4>1, Highest
      <4>3. Max(s) \in 1 .. k /\ Max(s) >= k
        BY <3>1, <4>2
      <4> QED BY <4>3
    <3>3. s \ {k} = 1 .. (k - 1)
      BY <3>1
    <3>4. g[1 .. (k - 1)] = object(k - 1)
      <4>1. k - 1 \notin Wrong
        <5>1. k - 1 \in Int /\ k \in Int /\ ~(k - 1 >= k)
          BY <3>1
        <5> HIDE DEF Wrong
        <5> QED BY <2>1, <5>1
      <4> QED BY <3>1, <4>1
    <3>5. g[s] = On(object(k - 1), events[k])
      BY <2>3, <3>1, <3>2, <3>3, <3>4
    <3>6. On(object(k - 1), events[k]) = object(k)
      <4>1. account.version + (k - 1) + 1 = account.version + k
        BY <3>1
      <4>2. Apply(after[k - 1], events[k].kind, events[k].amount) = after[k]
        BY <3>1
      <4>3. On(object(k - 1), events[k])
              = [version |-> account.version + (k - 1) + 1,
                 balance |-> Apply(after[k - 1], events[k].kind, events[k].amount),
                 uncommitted |-> account.uncommitted]
        BY OnObject
      <4> QED BY <4>1, <4>2, <4>3
    <3> QED BY <2>1, <3>5, <3>6
  <2> QED BY <2>4, <2>5
<1>3. CASE Wrong = {}
  <2>1. n \in 0 .. n
    OBVIOUS
  <2>2. g[1 .. n] = object(n)
    BY <1>3, <2>1
  <2> QED BY <1>1, <2>2
<1> QED BY <1>2, <1>3

-----------------------------------------------------------------------------
(* The objects of cqrs-es-nestjs and what cqrs-es would hold in their place *)

P == INSTANCE EventSourcedBankProofs WITH held <- Held

Variants == {"cqrs-es", "cqrs-es-nestjs"}

EventRow == [kind : {"Created", "Debited", "Credited"}, amount : Int,
             by : Transfers \cup {NoTransfer}]

Object == [version : Int, balance : Int, uncommitted : Seq(EventRow)]

Locals == [snapshot : Aggregate, source : Object, destination : Object,
           sourceVersion : Int, destinationVersion : Int]

Loaders == {"idle", "sourceSnapshot", "sourceEvents", "destSnapshot", "destEvents"}
Appenders == {"append", "projectDebit", "projectCredit", "projectTransfer",
              "readSource", "saveSource", "readDest", "saveDest"}

\* Until the decision the objects are as they were loaded; from then on each
\* has the event of its side on it, and the versions were noted before that.
Undecided(l) == l.source.uncommitted = <<>> /\ l.destination.uncommitted = <<>>

DecidedOn(t, l) ==
  /\ l.source.uncommitted = <<Event("Debited", Amount(t), t)>>
  /\ l.destination.uncommitted = <<Event("Credited", Amount(t), t)>>
  /\ l.sourceVersion = l.source.version - 1
  /\ l.destinationVersion = l.destination.version - 1

HandlerObjects(t) ==
  /\ pc[t] \in Loaders => Undecided(local[t])
  /\ pc[t] \in Appenders => DecidedOn(t, local[t])

ObjectsInv ==
  /\ app \in Variants
  /\ local \in [Transfers -> Locals]
  /\ app = "cqrs-es-nestjs" => \A t \in Transfers : HandlerObjects(t)

View(l) == [snapshot |-> l.snapshot, source |-> AsLoaded(l.source),
            dest |-> AsLoaded(l.destination)]

\* Every event says what it does to the balance before it.
Readable(stream) ==
  \A v \in 1 .. Len(stream) :
    stream[v].balance = Apply(BalanceAt(stream, v - 1), stream[v].kind, stream[v].amount)

\* Balances of a stream are integers.
LEMMA IntBalances ==
  ASSUME NEW stream \in Seq(Row)
  PROVE  Len(stream) \in Nat /\ \A v \in 0 .. Len(stream) : BalanceAt(stream, v) \in Int
<1>1. \A v \in 1 .. Len(stream) : stream[v] \in Row
  OBVIOUS
<1>2. \A v \in 1 .. Len(stream) : stream[v].balance \in Int
  BY <1>1 DEF Row
<1> QED BY <1>2 DEF BalanceAt

\* What the invariants of the bank say of the tables and of what is held, in the
\* words of this module.
LEMMA BankFacts ==
  ASSUME P!BankInv
  PROVE  /\ log \in [Ids -> Seq(Row)] /\ snap \in [Ids -> Aggregate]
         /\ pc \in [Transfers -> Stages] /\ req \in [Transfers -> Requests]
         /\ \A a \in Ids : Readable(log[a]) /\ IsReplay(log[a], snap[a])
         /\ \A t \in Transfers :
              /\ IsReplay(log[From(t)], Held[t].source)
              /\ IsReplay(log[To(t)], Held[t].dest)
              /\ pc[t] = "sourceEvents" => IsReplay(log[From(t)], Held[t].snapshot)
              /\ pc[t] = "destEvents" => IsReplay(log[To(t)], Held[t].snapshot)
<1>1. P!IInv /\ P!EntryInv /\ P!TotalsInv
  BY DEF P!BankInv
<1>2. P!TypeOK /\ P!SnapshotIsReplay /\ \A t \in Transfers : P!HandlerOK(t)
  BY <1>1 DEF P!IInv
<1>3. /\ log \in [Ids -> Seq(Row)] /\ snap \in [Ids -> Aggregate]
      /\ pc \in [Transfers -> Stages] /\ req \in [Transfers -> Requests]
  BY <1>2 DEF P!TypeOK, P!Row, Row, P!Aggregate, Aggregate, P!Stages, Stages, P!Answered, Answered
<1>4. ASSUME NEW a \in Ids PROVE Readable(log[a])
  <2>1. P!Replays(log[a]) /\ P!Authored
    BY <1>1 DEF P!TotalsInv, P!EntryInv
  <2> SUFFICES ASSUME NEW v \in 1 .. Len(log[a])
               PROVE  log[a][v].balance
                        = Apply(BalanceAt(log[a], v - 1), log[a][v].kind, log[a][v].amount)
    BY DEF Readable
  <2> DEFINE row == log[a][v]
  <2>2. row.amount \in Int /\ row.kind \in {"Created", "Debited", "Credited"}
    <3>1. log[a] \in Seq(Row)
      BY <1>3
    <3>2. row \in Row
      BY <3>1
    <3> QED BY <3>2 DEF Row
  <2>3. row.balance = BalanceAt(log[a], v - 1)
                        + (IF row.kind = "Debited" THEN -row.amount ELSE row.amount)
    BY <2>1 DEF P!Replays, P!BalanceAt, P!Delta, BalanceAt
  <2>4. v = 1 <=> row.kind = "Created"
    BY <2>1 DEF P!Authored, P!Sides
  <2>5. BalanceAt(log[a], v - 1) \in Int
    BY <1>3, IntBalances
  <2>6. v = 1 => BalanceAt(log[a], v - 1) = 0
    BY DEF BalanceAt
  <2> HIDE DEF row
  <2> QED BY <2>2, <2>3, <2>4, <2>5, <2>6 DEF Apply, row
<1>5. \A a \in Ids : IsReplay(log[a], snap[a])
  BY <1>2 DEF P!SnapshotIsReplay, P!IsReplay, P!BalanceAt, IsReplay, BalanceAt
<1>6. \A t \in Transfers :
              /\ IsReplay(log[From(t)], Held[t].source)
              /\ IsReplay(log[To(t)], Held[t].dest)
              /\ pc[t] = "sourceEvents" => IsReplay(log[From(t)], Held[t].snapshot)
              /\ pc[t] = "destEvents" => IsReplay(log[To(t)], Held[t].snapshot)
  BY <1>2 DEF P!HandlerOK, P!IsReplay, P!BalanceAt, P!From, P!To, IsReplay, BalanceAt, From, To
<1> QED BY <1>3, <1>4, <1>5, <1>6

\* loadEvents and loadFromHistory: the events above a base that is a replay.
LEMMA LoadedStream ==
  ASSUME NEW stream \in Seq(Row), Readable(stream), NEW base \in Aggregate,
         IsReplay(stream, base)
  PROVE  /\ LoadFromHistory(FromSnapshot(base), SubSeq(stream, base.version + 1, Len(stream)))
              = [version |-> Len(stream), balance |-> FinalBalance(stream), uncommitted |-> <<>>]
         /\ Replay(stream, base) = [version |-> Len(stream), balance |-> FinalBalance(stream)]
         /\ FinalBalance(stream) \in Int /\ Len(stream) \in Nat
<1>1. Len(stream) \in Nat /\ base.version \in 0 .. Len(stream)
      /\ base.balance = BalanceAt(stream, base.version)
  BY DEF IsReplay
<1> DEFINE n == Len(stream) - base.version
           events == SubSeq(stream, base.version + 1, Len(stream))
           after == [k \in 0 .. n |-> BalanceAt(stream, base.version + k)]
           account == FromSnapshot(base)
<1>2. \A v \in 0 .. Len(stream) : BalanceAt(stream, v) \in Int
  BY IntBalances
<1>3. n \in Nat /\ DOMAIN events = 1 .. n
      /\ \A k \in 1 .. n : events[k] = stream[base.version + k]
  BY <1>1
<1>4. /\ account = [version |-> base.version, balance |-> base.balance, uncommitted |-> <<>>]
      /\ account.version = base.version /\ account.balance = base.balance
      /\ account.uncommitted = <<>>
  BY DEF FromSnapshot
<1>5. after[0] = account.balance
  BY <1>1, <1>3, <1>4
<1>6. ASSUME NEW k \in 1 .. n
      PROVE  after[k] = Apply(after[k - 1], events[k].kind, events[k].amount)
  <2>1. base.version + k \in 1 .. Len(stream) /\ k - 1 \in 0 .. n /\ k \in 0 .. n
        /\ base.version + (k - 1) = (base.version + k) - 1
    BY <1>1
  <2>2. after[k] = stream[base.version + k].balance
    BY <2>1 DEF BalanceAt
  <2>3. after[k - 1] = BalanceAt(stream, (base.version + k) - 1)
    BY <2>1
  <2>4. stream[base.version + k].balance
          = Apply(BalanceAt(stream, (base.version + k) - 1), stream[base.version + k].kind,
                  stream[base.version + k].amount)
    <3>1. base.version + k \in 1 .. Len(stream)
      BY <2>1
    <3> QED BY <3>1, Zenon DEF Readable
  <2>5. events[k] = stream[base.version + k]
    BY <1>3
  <2> HIDE DEF after, events
  <2> QED BY <2>2, <2>3, <2>4, <2>5
<1>7. after[n] = FinalBalance(stream) /\ base.version + n = Len(stream)
  <2>1. base.version + n = Len(stream) /\ n \in 0 .. n
    BY <1>1
  <2> QED BY <2>1 DEF FinalBalance
<1>8. LoadFromHistory(account, events)
        = [version |-> base.version + n, balance |-> after[n], uncommitted |-> <<>>]
  <2>1. account.version \in Int /\ n \in Nat
        /\ account = [version |-> account.version, balance |-> account.balance,
                      uncommitted |-> account.uncommitted]
    BY <1>1, <1>3, <1>4
  <2>2. \A k \in 1 .. n : after[k] = Apply(after[k - 1], events[k].kind, events[k].amount)
    BY <1>6
  <2>3. DOMAIN events = 1 .. n
    BY <1>3
  <2> HIDE DEF after, events, account, n
  <2>4. LoadFromHistory(account, events)
          = [version |-> account.version + n, balance |-> after[n],
             uncommitted |-> account.uncommitted]
    BY <1>5, <2>1, <2>2, <2>3, Loading
  <2> QED BY <1>4, <2>4
<1>9. Replay(stream, base) = [version |-> Len(stream), balance |-> FinalBalance(stream)]
  BY <1>1, <1>2 DEF Replay, FinalBalance
<1>10. FinalBalance(stream) \in Int
  BY <1>1, <1>2 DEF FinalBalance
<1> QED BY <1>1, <1>7, <1>8, <1>9, <1>10

\* Without a snapshot the whole stream is loaded.
LEMMA LoadedWhole ==
  ASSUME NEW stream \in Seq(Row), Readable(stream)
  PROVE  /\ LoadFromHistory(NewAccount, stream)
              = [version |-> Len(stream), balance |-> FinalBalance(stream), uncommitted |-> <<>>]
         /\ Replay(stream, Empty) = [version |-> Len(stream), balance |-> FinalBalance(stream)]
<1>1. Empty \in Aggregate /\ IsReplay(stream, Empty) /\ Empty.version + 1 = 1
  BY DEF Empty, Aggregate, IsReplay, BalanceAt
<1>2. SubSeq(stream, 1, Len(stream)) = stream
  OBVIOUS
<1>3. FromSnapshot(Empty) = NewAccount
  BY DEF FromSnapshot, Empty, NewAccount
<1> QED BY <1>1, <1>2, <1>3, LoadedStream

\* loadAccount, whatever its snapshot row, gives the object of the stream.
LEMMA LoadedObject ==
  ASSUME NEW t \in Transfers, NEW a \in Ids, log[a] \in Seq(Row), Readable(log[a]),
         local[t].snapshot \in Aggregate, IsReplay(log[a], local[t].snapshot)
  PROVE  /\ Loaded(t, a) = [version |-> Version(a), balance |-> Balance(a), uncommitted |-> <<>>]
         /\ Replay(log[a], local[t].snapshot) = [version |-> Version(a), balance |-> Balance(a)]
         /\ Version(a) \in Nat /\ Balance(a) \in Int
<1>1. CASE local[t].snapshot = Empty
  BY <1>1, LoadedWhole, LoadedStream DEF Loaded, LoadEvents, Version, Balance
<1>2. CASE local[t].snapshot # Empty
  BY <1>2, LoadedStream DEF Loaded, LoadEventsSince, Version, Balance
<1> QED BY <1>1, <1>2

-----------------------------------------------------------------------------
(* Handlers *)

USE AccountsAssumption, RequestsAssumption, OpeningBalancesAssumption,
    SnapshotEveryAssumption, NoTransferAssumption, MayAbortAssumption

\* Steps that leave the objects alone leave what is held alone.
LEMMA Kept ==
  ASSUME ObjectsInv, UNCHANGED <<app, held, local, req>>,
         \A t \in Transfers : /\ pc'[t] \in Loaders => pc[t] \in Loaders
                              /\ pc'[t] \in Appenders => pc[t] \in Appenders
  PROVE  ObjectsInv' /\ Held' = Held
<1>1. Held' = Held
  BY DEF Held, AsLoaded
<1>2. ObjectsInv'
  BY DEF ObjectsInv, HandlerObjects, Undecided, DecidedOn, Event, Amount
<1> QED BY <1>1, <1>2

\* A handler that changes its objects changes what it holds, and nobody else's.
LEMMA Changed ==
  ASSUME ObjectsInv, app = "cqrs-es-nestjs", app' = app, req' = req,
         NEW t \in Transfers, NEW new \in Locals, local' = [local EXCEPT ![t] = new],
         pc \in [Transfers -> Stages], NEW s, pc' = [pc EXCEPT ![t] = s],
         s \in Loaders => Undecided(new), s \in Appenders => DecidedOn(t, new)
  PROVE  ObjectsInv' /\ Held' = [Held EXCEPT ![t] = View(new)]
<1>1. /\ local'[t] = new /\ pc'[t] = s
      /\ \A u \in Transfers \ {t} : local'[u] = local[u] /\ pc'[u] = pc[u]
      /\ local' \in [Transfers -> Locals]
  BY DEF ObjectsInv
<1>2. Held' = [u \in Transfers |-> View(local'[u])] /\ Held = [u \in Transfers |-> View(local[u])]
  <2>1. \A u \in Transfers : View(local[u]) = [snapshot |-> local[u].snapshot,
                             source   |-> AsLoaded(local[u].source),
                             dest     |-> AsLoaded(local[u].destination)]
    BY DEF View
  <2>2. \A u \in Transfers : View(local'[u]) = [snapshot |-> local'[u].snapshot,
                             source   |-> AsLoaded(local'[u].source),
                             dest     |-> AsLoaded(local'[u].destination)]
    BY DEF View
  <2> QED BY <2>1, <2>2 DEF Held, AsLoaded
<1>3. Held' = [Held EXCEPT ![t] = View(new)]
  BY <1>1, <1>2
<1>4. ObjectsInv'
  <2>1. ASSUME NEW u \in Transfers, u # t PROVE HandlerObjects(u)'
    <3>1. HandlerObjects(u) /\ local'[u] = local[u] /\ pc'[u] = pc[u] /\ req' = req
      BY <1>1, <2>1 DEF ObjectsInv
    <3> QED BY <3>1 DEF HandlerObjects, Undecided, DecidedOn, Event, Amount
  <2>2. HandlerObjects(t)'
    BY <1>1 DEF HandlerObjects, Undecided, DecidedOn, Event, Amount
  <2>3. \A u \in Transfers : HandlerObjects(u)'
    BY <2>1, <2>2
  <2> QED BY <1>1, <2>3 DEF ObjectsInv
<1> QED BY <1>3, <1>4

\* What is held, handler by handler.
LEMMA NestView ==
  ASSUME app = "cqrs-es-nestjs"
  PROVE  Held = [t \in Transfers |-> View(local[t])]
<1>1. \A u \in Transfers : View(local[u]) = [snapshot |-> local[u].snapshot,
                             source   |-> AsLoaded(local[u].source),
                             dest     |-> AsLoaded(local[u].destination)]
  BY DEF View
<1> QED BY <1>1 DEF Held

\* loadAccount's first query.
LEMMA ReadSnapshot ==
  ASSUME P!BankInv, ObjectsInv, app = "cqrs-es-nestjs", app' = app,
         NEW t \in Transfers, NEW a \in Ids, LoadSnapshotRow(t, a), NEW s, Goto(t, s),
         pc[t] \in Loaders, s \notin Appenders
  PROVE  ObjectsInv' /\ Held' = [Held EXCEPT ![t].snapshot = snap[a]]
<1> DEFINE new == [local[t] EXCEPT !.snapshot = snap[a]]
<1>1. local' = [local EXCEPT ![t] = new] /\ req' = req /\ local[t] \in Locals
      /\ snap[a] \in Aggregate /\ pc' = [pc EXCEPT ![t] = s] /\ pc \in [Transfers -> Stages]
  BY BankFacts DEF LoadSnapshotRow, Goto, ObjectsInv
<1>2. /\ new \in Locals
      /\ new.source = local[t].source /\ new.destination = local[t].destination
      /\ new.snapshot = snap[a]
  BY <1>1 DEF Locals
<1>3. Undecided(new)
  BY <1>2 DEF ObjectsInv, HandlerObjects, Undecided
<1>4. ObjectsInv' /\ Held' = [Held EXCEPT ![t] = View(new)]
  <2> HIDE DEF new
  <2> QED BY <1>1, <1>2, <1>3, Changed
<1>5. View(new) = [Held[t] EXCEPT !.snapshot = snap[a]]
  <2>1. Held[t] = [snapshot |-> local[t].snapshot, source |-> AsLoaded(local[t].source),
                   dest |-> AsLoaded(local[t].destination)]
    BY NestView DEF View
  <2> HIDE DEF new
  <2> QED BY <1>2, <2>1 DEF View
<1> QED BY <1>4, <1>5

USE DEF From, To, Amount, P!From, P!To, P!Amount, P!Goto, Goto, P!readModels, readModels

\* A request names two ids and an integer amount.
LEMMA Named ==
  ASSUME P!BankInv, NEW t \in Transfers
  PROVE  From(t) \in Ids /\ To(t) \in Ids /\ Amount(t) \in Int
BY BankFacts DEF Request

\* debit and credit change a loaded object and leave their event on it; seen
\* without that event it is as it was loaded.
LEMMA DebitedObject ==
  ASSUME NEW version \in Int, NEW balance \in Int, NEW amount \in Int, NEW by,
         NEW account, account = [version |-> version, balance |-> balance, uncommitted |-> <<>>]
  PROVE  /\ AsLoaded(account) = [version |-> version, balance |-> balance]
         /\ Debit(account, amount, by)
              = [version |-> version + 1, balance |-> balance - amount,
                 uncommitted |-> <<Event("Debited", amount, by)>>]
         /\ AsLoaded(Debit(account, amount, by)) = [version |-> version, balance |-> balance]
<1> DEFINE event == Event("Debited", amount, by)
           changed == [version |-> version + 1, balance |-> balance - amount,
                       uncommitted |-> <<event>>]
<1>1. AsLoaded(account) = [version |-> version, balance |-> balance]
  BY DEF AsLoaded
<1>2. Debit(account, amount, by) = changed
  <2>1. On(account, event) = [version |-> version + 1,
                              balance |-> Apply(balance, event.kind, event.amount),
                              uncommitted |-> <<>>]
    BY OnObject
  <2>2. Apply(balance, event.kind, event.amount) = balance - amount
    BY DEF Event, Apply
  <2> HIDE DEF event
  <2>3. Append(<<>>, event) = <<event>>
    OBVIOUS
  <2>4. ApplyNew(account, event) = changed
    BY <2>1, <2>2, <2>3 DEF ApplyNew
  <2> QED BY <2>4 DEF Debit, event
<1>3. AsLoaded(changed) = [version |-> version, balance |-> balance]
  BY DEF AsLoaded, Event, Apply
<1> QED BY <1>1, <1>2, <1>3

LEMMA CreditedObject ==
  ASSUME NEW version \in Int, NEW balance \in Int, NEW amount \in Int, NEW by,
         NEW account, account = [version |-> version, balance |-> balance, uncommitted |-> <<>>]
  PROVE  /\ AsLoaded(account) = [version |-> version, balance |-> balance]
         /\ Credit(account, amount, by)
              = [version |-> version + 1, balance |-> balance + amount,
                 uncommitted |-> <<Event("Credited", amount, by)>>]
         /\ AsLoaded(Credit(account, amount, by)) = [version |-> version, balance |-> balance]
<1> DEFINE event == Event("Credited", amount, by)
           changed == [version |-> version + 1, balance |-> balance + amount,
                       uncommitted |-> <<event>>]
<1>1. AsLoaded(account) = [version |-> version, balance |-> balance]
  BY DEF AsLoaded
<1>2. Credit(account, amount, by) = changed
  <2>1. On(account, event) = [version |-> version + 1,
                              balance |-> Apply(balance, event.kind, event.amount),
                              uncommitted |-> <<>>]
    BY OnObject
  <2>2. Apply(balance, event.kind, event.amount) = balance + amount
    BY DEF Event, Apply
  <2> HIDE DEF event
  <2>3. Append(<<>>, event) = <<event>>
    OBVIOUS
  <2>4. ApplyNew(account, event) = changed
    BY <2>1, <2>2, <2>3 DEF ApplyNew
  <2> QED BY <2>4 DEF Credit, event
<1>3. AsLoaded(changed) = [version |-> version, balance |-> balance]
  BY DEF AsLoaded, Event, Apply
<1> QED BY <1>1, <1>2, <1>3

\* A record with the fields of an object is that object.
LEMMA ObjectFields ==
  ASSUME NEW account \in Object
  PROVE  /\ account = [version |-> account.version, balance |-> account.balance,
                       uncommitted |-> account.uncommitted]
         /\ account.version \in Int /\ account.balance \in Int
BY DEF Object

\* Deciding leaves what the handler has loaded as it is.
LEMMA DecidedView ==
  ASSUME NEW t \in Transfers, Amount(t) \in Int, local[t] \in Locals,
         local[t].source.uncommitted = <<>>,
         NEW version \in Int, NEW balance \in Int,
         NEW object, object = [version |-> version, balance |-> balance, uncommitted |-> <<>>]
  PROVE  /\ Decided(t, object) \in Locals
         /\ CanDebit(local[t].source, Amount(t)) => DecidedOn(t, Decided(t, object))
         /\ View(Decided(t, object))
              = [View(local[t]) EXCEPT !.dest = [version |-> version, balance |-> balance]]
<1> DEFINE source == local[t].source
           amount == Amount(t)
           debited == Debit(source, amount, t)
           credited == Credit(object, amount, t)
           noted == [local[t] EXCEPT !.destination = object,
                                     !.sourceVersion = source.version,
                                     !.destinationVersion = object.version]
           decided == [local[t] EXCEPT !.source = debited,
                                       !.destination = credited,
                                       !.sourceVersion = source.version,
                                       !.destinationVersion = object.version]
<1>1. source \in Object /\ amount \in Int
  BY DEF Locals
<1>2. /\ source.version \in Int /\ source.balance \in Int
      /\ source = [version |-> source.version, balance |-> source.balance, uncommitted |-> <<>>]
  <2> HIDE DEF source
  <2> QED BY <1>1, ObjectFields DEF source
<1>3. /\ AsLoaded(source) = [version |-> source.version, balance |-> source.balance]
      /\ debited = [version |-> source.version + 1, balance |-> source.balance - amount,
                    uncommitted |-> <<Event("Debited", amount, t)>>]
      /\ AsLoaded(debited) = [version |-> source.version, balance |-> source.balance]
  <2> DEFINE v == source.version
             b == source.balance
             o == source
  <2>1. v \in Int /\ b \in Int /\ amount \in Int
        /\ o = [version |-> v, balance |-> b, uncommitted |-> <<>>]
    BY <1>1, <1>2
  <2> HIDE DEF amount, v, b, o
  <2>2. /\ AsLoaded(o) = [version |-> v, balance |-> b]
        /\ Debit(o, amount, t) = [version |-> v + 1, balance |-> b - amount,
                                  uncommitted |-> <<Event("Debited", amount, t)>>]
        /\ AsLoaded(Debit(o, amount, t)) = [version |-> v, balance |-> b]
    BY <2>1, DebitedObject
  <2> QED BY <2>2 DEF v, b, o, debited
<1>4. /\ AsLoaded(object) = [version |-> version, balance |-> balance]
      /\ credited = [version |-> version + 1, balance |-> balance + amount,
                     uncommitted |-> <<Event("Credited", amount, t)>>]
      /\ AsLoaded(credited) = [version |-> version, balance |-> balance]
  <2> DEFINE v == version
             b == balance
             o == object
  <2>1. v \in Int /\ b \in Int /\ amount \in Int
        /\ o = [version |-> v, balance |-> b, uncommitted |-> <<>>]
    BY <1>1
  <2> HIDE DEF amount, v, b, o
  <2>2. /\ AsLoaded(o) = [version |-> v, balance |-> b]
        /\ Credit(o, amount, t) = [version |-> v + 1, balance |-> b + amount,
                                   uncommitted |-> <<Event("Credited", amount, t)>>]
        /\ AsLoaded(Credit(o, amount, t)) = [version |-> v, balance |-> b]
    BY <2>1, CreditedObject
  <2> QED BY <2>2 DEF v, b, o, credited
<1>5. Decided(t, object) = IF CanDebit(source, amount) THEN decided ELSE noted
  <2> HIDE DEF debited, credited
  <2>1. [noted EXCEPT !.source = debited, !.destination = credited] = decided
    BY DEF Locals
  <2>2. Decided(t, object) = IF CanDebit(source, amount)
                               THEN [noted EXCEPT !.source = debited, !.destination = credited]
                               ELSE noted
    BY DEF Decided, debited, credited
  <2> QED BY <2>1, <2>2
<1>6. object \in Object /\ debited \in Object /\ credited \in Object
  <2>1. Event("Debited", amount, t) \in EventRow /\ Event("Credited", amount, t) \in EventRow
    BY <1>1 DEF Event, EventRow
  <2> DEFINE d == Event("Debited", amount, t)
             c == Event("Credited", amount, t)
  <2> HIDE DEF d, c, source, amount, debited, credited
  <2>2. <<>> \in Seq(EventRow) /\ <<d>> \in Seq(EventRow) /\ <<c>> \in Seq(EventRow)
    BY <2>1 DEF d, c
  <2> QED BY <1>1, <1>2, <1>3, <1>4, <2>2 DEF Object, d, c
<1> HIDE DEF source, amount, debited, credited
<1>7. /\ noted \in Locals /\ decided \in Locals
      /\ decided.source = debited /\ decided.destination = credited
      /\ decided.sourceVersion = source.version /\ decided.destinationVersion = object.version
      /\ noted.source = source /\ noted.destination = object
      /\ noted.snapshot = local[t].snapshot /\ decided.snapshot = local[t].snapshot
  BY <1>2, <1>6 DEF Locals, source
<1>8. DecidedOn(t, decided)
  <2>1. /\ decided.source.uncommitted = <<Event("Debited", amount, t)>>
        /\ decided.destination.uncommitted = <<Event("Credited", amount, t)>>
    BY <1>3, <1>4, <1>7
  <2>2. /\ decided.source.version = source.version + 1
        /\ decided.destination.version = version + 1
        /\ object.version = version
    BY <1>3, <1>4, <1>7
  <2>3. /\ decided.sourceVersion = decided.source.version - 1
        /\ decided.destinationVersion = decided.destination.version - 1
    BY <1>2, <1>7, <2>2
  <2> HIDE DEF decided
  <2> QED BY <2>1, <2>3 DEF DecidedOn, amount
<1>9. /\ View(decided) = [View(local[t]) EXCEPT !.dest = [version |-> version, balance |-> balance]]
      /\ View(noted) = [View(local[t]) EXCEPT !.dest = [version |-> version, balance |-> balance]]
  BY <1>3, <1>4, <1>7 DEF View, source
<1> QED BY <1>5, <1>7, <1>8, <1>9 DEF source, amount

\* The source is loaded as cqrs-es loads it.
LEMMA LoadSourceImplements ==
  ASSUME P!BankInv, ObjectsInv, app = "cqrs-es-nestjs", UNCHANGED <<app, held>>,
         NEW t \in Transfers, LoadSource(t)
  PROVE  ObjectsInv' /\ P!Handle(t)
<1>1. CASE pc[t] = "sourceSnapshot" /\ LoadSnapshotRow(t, From(t)) /\ Goto(t, "sourceEvents")
  <2>1. ObjectsInv' /\ Held' = [Held EXCEPT ![t].snapshot = snap[From(t)]]
    BY <1>1, Named, ReadSnapshot DEF Loaders, Appenders
  <2>2. P!LoadSourceSnapshot(t)
    BY <1>1, <2>1 DEF P!LoadSourceSnapshot, LoadSnapshotRow
  <2> QED BY <2>1, <2>2 DEF P!Handle, P!Load
<1>2. CASE /\ pc[t] = "sourceEvents"
           /\ Found(t, From(t))
           /\ local' = [local EXCEPT ![t].source = Loaded(t, From(t))]
           /\ Goto(t, "destSnapshot")
           /\ UNCHANGED <<log, transferLog, snap, readModels, opening, req>>
  <2> DEFINE object == Loaded(t, From(t))
             new == [local[t] EXCEPT !.source = object]
  <2>1. Held[t] = View(local[t]) /\ local[t] \in Locals
    BY NestView DEF ObjectsInv
  <2>2. /\ object = [version |-> Version(From(t)), balance |-> Balance(From(t)),
                    uncommitted |-> <<>>]
        /\ Replay(log[From(t)], local[t].snapshot)
             = [version |-> Version(From(t)), balance |-> Balance(From(t))]
        /\ Version(From(t)) \in Nat /\ Balance(From(t)) \in Int
    <3>1. /\ log[From(t)] \in Seq(Row) /\ Readable(log[From(t)]) /\ From(t) \in Ids
          /\ IsReplay(log[From(t)], Held[t].snapshot)
      BY <1>2, BankFacts, Named
    <3>2. Held[t].snapshot = local[t].snapshot /\ local[t].snapshot \in Aggregate
      BY <2>1 DEF View, Locals
    <3> QED BY <3>1, <3>2, LoadedObject
  <2> HIDE DEF object
  <2>3. /\ new \in Locals /\ new.snapshot = local[t].snapshot /\ new.source = object
        /\ new.destination = local[t].destination
    <3>1. object \in Object
      <4>1. <<>> \in Seq(EventRow)
        OBVIOUS
      <4> QED BY <2>2, <4>1 DEF Object
    <3> QED BY <2>1, <3>1 DEF Locals
  <2>4. Undecided(new)
    BY <1>2, <2>2, <2>3 DEF ObjectsInv, HandlerObjects, Undecided, Loaders
  <2>5. ObjectsInv' /\ Held' = [Held EXCEPT ![t] = View(new)]
    <3>1. /\ local' = [local EXCEPT ![t] = new] /\ req' = req
          /\ pc' = [pc EXCEPT ![t] = "destSnapshot"] /\ pc \in [Transfers -> Stages]
          /\ "destSnapshot" \notin Appenders
      BY <1>2, BankFacts DEF object, Appenders
    <3> HIDE DEF new
    <3> QED BY <2>3, <2>4, <3>1, Changed
  <2>6. View(new) = [Held[t] EXCEPT !.source = Replay(log[From(t)], Held[t].snapshot)]
    <3>1. AsLoaded(object) = [version |-> Version(From(t)), balance |-> Balance(From(t))]
      <4> DEFINE version == Version(From(t))
                 balance == Balance(From(t))
      <4> HIDE DEF version, balance
      <4>1. object = [version |-> version, balance |-> balance, uncommitted |-> <<>>]
            /\ version \in Int
        BY <2>2 DEF version, balance
      <4>2. AsLoaded(object) = [version |-> version, balance |-> balance]
        BY <4>1 DEF AsLoaded
      <4> QED BY <4>2 DEF version, balance
    <3> HIDE DEF new
    <3> QED BY <2>1, <2>2, <2>3, <3>1 DEF View
  <2>7. ~P!Missing(log[From(t)], Held[t].snapshot)
    BY <1>2, <2>1 DEF P!Missing, P!Empty, Empty, Found, LoadEvents, View
  <2>8. P!Replay(log[From(t)], Held[t].snapshot) = Replay(log[From(t)], Held[t].snapshot)
    BY DEF P!Replay, P!FinalBalance, P!BalanceAt, Replay, FinalBalance, BalanceAt
  <2>9. Held' = [Held EXCEPT ![t].source = P!Replay(log[From(t)], Held[t].snapshot)]
    BY <2>5, <2>6, <2>8
  <2>10. P!LoadSourceEvents(t)
    BY <1>2, <2>7, <2>9 DEF P!LoadSourceEvents
  <2> QED BY <2>5, <2>10 DEF P!Handle, P!Load
<1>3. CASE /\ pc[t] = "sourceEvents"
           /\ ~Found(t, From(t)) /\ Goto(t, "notFound")
           /\ UNCHANGED <<log, transferLog, snap, readModels, opening, req, local>>
  <2>1. Held' = Held /\ ObjectsInv'
    BY <1>3, BankFacts, Kept DEF Loaders, Appenders
  <2>2. P!Missing(log[From(t)], Held[t].snapshot)
    BY <1>3, NestView DEF P!Missing, P!Empty, Empty, Found, LoadEvents, View
  <2>3. P!LoadSourceEvents(t)
    BY <1>3, <2>1, <2>2 DEF P!LoadSourceEvents
  <2> QED BY <2>1, <2>3 DEF P!Handle, P!Load
<1> QED BY <1>1, <1>2, <1>3 DEF LoadSource

\* The destination is loaded, and the debit decided, as in cqrs-es, although the
\* objects are changed at once and not by the append.
LEMMA LoadDestinationImplements ==
  ASSUME P!BankInv, ObjectsInv, app = "cqrs-es-nestjs", UNCHANGED <<app, held>>,
         NEW t \in Transfers, LoadDestination(t)
  PROVE  ObjectsInv' /\ P!Handle(t)
<1>1. CASE pc[t] = "destSnapshot" /\ LoadSnapshotRow(t, To(t)) /\ Goto(t, "destEvents")
  <2>1. ObjectsInv' /\ Held' = [Held EXCEPT ![t].snapshot = snap[To(t)]]
    BY <1>1, Named, ReadSnapshot DEF Loaders, Appenders
  <2>2. P!LoadDestSnapshot(t)
    BY <1>1, <2>1 DEF P!LoadDestSnapshot, LoadSnapshotRow
  <2> QED BY <2>1, <2>2 DEF P!Handle, P!Load
<1>2. CASE /\ pc[t] = "destEvents"
           /\ Found(t, To(t))
           /\ local' = [local EXCEPT ![t] = Decided(t, Loaded(t, To(t)))]
           /\ Goto(t, IF CanDebit(local[t].source, Amount(t)) THEN "append" ELSE "appendFailed")
           /\ UNCHANGED <<log, transferLog, snap, readModels, opening, req>>
  <2> DEFINE source == local[t].source
             object == Loaded(t, To(t))
             version == Version(To(t))
             balance == Balance(To(t))
             amount == Amount(t)
             new == Decided(t, object)
             next == IF CanDebit(source, amount) THEN "append" ELSE "appendFailed"
  <2>1. Held[t] = View(local[t]) /\ local[t] \in Locals /\ amount \in Int
    BY NestView, Named DEF ObjectsInv
  <2>2. /\ object = [version |-> version, balance |-> balance, uncommitted |-> <<>>]
        /\ Replay(log[To(t)], local[t].snapshot) = [version |-> version, balance |-> balance]
        /\ version \in Nat /\ balance \in Int
    <3>1. /\ log[To(t)] \in Seq(Row) /\ Readable(log[To(t)]) /\ To(t) \in Ids
          /\ IsReplay(log[To(t)], Held[t].snapshot)
      BY <1>2, BankFacts, Named
    <3>2. Held[t].snapshot = local[t].snapshot /\ local[t].snapshot \in Aggregate
      BY <2>1 DEF View, Locals
    <3> QED BY <3>1, <3>2, LoadedObject
  <2>3. Undecided(local[t])
    BY <1>2 DEF ObjectsInv, HandlerObjects, Loaders
  <2>4. /\ new \in Locals
        /\ CanDebit(source, amount) => DecidedOn(t, new)
        /\ View(new) = [Held[t] EXCEPT !.dest = Replay(log[To(t)], Held[t].snapshot)]
    <3>1. /\ new \in Locals
          /\ CanDebit(source, amount) => DecidedOn(t, new)
          /\ View(new) = [View(local[t]) EXCEPT !.dest = [version |-> version, balance |-> balance]]
      <4>1. local[t].source.uncommitted = <<>> /\ version \in Int
        BY <2>2, <2>3 DEF Undecided
      <4> HIDE DEF object, version, balance
      <4> QED BY <2>1, <2>2, <4>1, DecidedView
    <3>2. Held[t].snapshot = local[t].snapshot
      BY <2>1 DEF View
    <3> QED BY <2>1, <2>2, <3>1, <3>2
  <2>5. ObjectsInv' /\ Held' = [Held EXCEPT ![t] = View(new)]
    <3>1. /\ local' = [local EXCEPT ![t] = new] /\ req' = req
          /\ pc' = [pc EXCEPT ![t] = next] /\ pc \in [Transfers -> Stages]
          /\ next \notin Loaders /\ (next \in Appenders => CanDebit(source, amount))
      BY <1>2, BankFacts DEF Loaders, Appenders
    <3> HIDE DEF new, next
    <3> QED BY <2>4, <3>1, Changed
  <2>6. CanDebit(source, amount) <=> ~(Held[t].source.balance < amount)
    <3>1. source \in Object /\ source.uncommitted = <<>> /\ Held[t].source = AsLoaded(source)
      BY <2>1, <2>3 DEF Locals, Undecided, View
    <3>2. AsLoaded(source).balance = source.balance /\ source.balance \in Int
      BY <3>1 DEF Object, AsLoaded
    <3> QED BY <2>1, <3>1, <3>2 DEF CanDebit
  <2>7. ~P!Missing(log[To(t)], Held[t].snapshot)
    BY <1>2, <2>1 DEF P!Missing, P!Empty, Empty, Found, LoadEvents, View
  <2>8. P!Replay(log[To(t)], Held[t].snapshot) = Replay(log[To(t)], Held[t].snapshot)
    BY DEF P!Replay, P!FinalBalance, P!BalanceAt, Replay, FinalBalance, BalanceAt
  <2>9. Held' = [Held EXCEPT ![t].dest = P!Replay(log[To(t)], Held[t].snapshot)]
    BY <2>4, <2>5, <2>8
  <2>10. P!LoadDestEvents(t)
    BY <1>2, <2>6, <2>7, <2>9 DEF P!LoadDestEvents
  <2> QED BY <2>5, <2>10 DEF P!Handle, P!Load
<1>3. CASE /\ pc[t] = "destEvents"
           /\ ~Found(t, To(t)) /\ Goto(t, "notFound")
           /\ UNCHANGED <<log, transferLog, snap, readModels, opening, req, local>>
  <2>1. Held' = Held /\ ObjectsInv'
    BY <1>3, BankFacts, Kept DEF Loaders, Appenders
  <2>2. P!Missing(log[To(t)], Held[t].snapshot)
    BY <1>3, NestView DEF P!Missing, P!Empty, Empty, Found, LoadEvents, View
  <2>3. P!LoadDestEvents(t)
    BY <1>3, <2>1, <2>2 DEF P!LoadDestEvents
  <2> QED BY <2>1, <2>3 DEF P!Handle, P!Load
<1> QED BY <1>1, <1>2, <1>3 DEF LoadDestination

\* One event makes one row, above the version noted.
LEMMA OneRow ==
  ASSUME NEW a, NEW event, NEW version
  PROVE  BuildEventRows(a, <<event>>, version)
           = {[id |-> a, version |-> version + 1, event |-> event]}
BY DEF BuildEventRows

\* What the rows of one event each do to the streams they are for.
LEMMA InsertedOne ==
  ASSUME NEW a \in Ids, NEW event, NEW version,
         InsertEvents({[id |-> a, version |-> version, event |-> event]}),
         log = [x \in Ids |-> log[x]]
  PROVE  log' = [log EXCEPT ![a] = AppendEvent(@, event.kind, event.amount, event.by)]
<1> DEFINE row == [id |-> a, version |-> version, event |-> event]
<1>1. row.id = a /\ row.event = event
  OBVIOUS
<1> HIDE DEF row
<1>2. (CHOOSE r \in {row} : r.id = a) = row
  BY <1>1
<1>3. log' = [x \in Ids |-> IF x = a THEN AppendEvent(log[a], event.kind, event.amount, event.by)
                                     ELSE log[x]]
  BY <1>1, <1>2 DEF InsertEvents, row
<1> QED BY <1>3

\* What a batch of two rows, of different accounts, does to the streams.
LEMMA InsertedTwo ==
  ASSUME NEW row, NEW second, row.id \in Ids, second.id \in Ids, row.id # second.id,
         InsertEvents({row} \cup {second}), log = [x \in Ids |-> log[x]]
  PROVE  log' = [log EXCEPT
           ![row.id] = AppendEvent(@, row.event.kind, row.event.amount, row.event.by),
           ![second.id] = AppendEvent(@, second.event.kind, second.event.amount, second.event.by)]
<1>1. /\ (CHOOSE r \in {row} \cup {second} : r.id = row.id) = row
      /\ (CHOOSE r \in {row} \cup {second} : r.id = second.id) = second
  OBVIOUS
<1>2. log' = [x \in Ids |->
                IF x = row.id
                  THEN AppendEvent(log[x], row.event.kind, row.event.amount, row.event.by)
                ELSE IF x = second.id
                  THEN AppendEvent(log[x], second.event.kind, second.event.amount, second.event.by)
                ELSE log[x]]
  BY <1>1 DEF InsertEvents
<1> QED BY <1>2

\* The versions noted before the debit and the credit collide exactly if those
\* that cqrs-es loaded do, and the rows are the same.
LEMMA AppendImplements ==
  ASSUME P!BankInv, ObjectsInv, app = "cqrs-es-nestjs", UNCHANGED <<app, held>>,
         NEW t \in Transfers, AppendMultiple(t)
  PROVE  ObjectsInv' /\ P!Handle(t)
<1> DEFINE a == From(t)
           b == To(t)
           v == local[t].sourceVersion
           w == local[t].destinationVersion
           d == Event("Debited", Amount(t), t)
           c == Event("Credited", Amount(t), t)
           row == [id |-> a, version |-> v + 1, event |-> d]
           second == [id |-> b, version |-> w + 1, event |-> c]
<1>1. /\ pc[t] = "append" /\ DecidedOn(t, local[t]) /\ local[t] \in Locals
      /\ Held[t] = View(local[t])
      /\ a \in Ids /\ b \in Ids /\ Amount(t) \in Int
      /\ log \in [Ids -> Seq(Row)] /\ pc \in [Transfers -> Stages]
  BY BankFacts, Named, NestView DEF AppendMultiple, ObjectsInv, HandlerObjects, Appenders
<1>2. Batches(t) = {row} \cup {second}
  <2>1. /\ local[t].source.uncommitted = <<d>> /\ local[t].destination.uncommitted = <<c>>
    BY <1>1 DEF DecidedOn
  <2> HIDE DEF d, c
  <2>2. Batches(t) = BuildEventRows(a, <<d>>, v) \cup BuildEventRows(b, <<c>>, w)
    BY <2>1 DEF Batches
  <2> QED BY <2>2, OneRow
<1>3. /\ Held[t].source.version = v /\ v \in 0 .. Len(log[a])
      /\ Held[t].dest.version = w /\ w \in 0 .. Len(log[b])
      /\ Len(log[a]) \in Nat /\ Len(log[b]) \in Nat
      /\ DOMAIN log[a] = 1 .. Len(log[a]) /\ DOMAIN log[b] = 1 .. Len(log[b])
  <2>1. /\ Held[t].source.version = v /\ Held[t].dest.version = w
    <3>1. /\ Len(local[t].source.uncommitted) = 1 /\ Len(local[t].destination.uncommitted) = 1
      BY <1>1 DEF DecidedOn
    <3> QED BY <1>1, <3>1 DEF View, AsLoaded, DecidedOn
  <2>2. IsReplay(log[a], Held[t].source) /\ IsReplay(log[b], Held[t].dest)
    BY BankFacts
  <2> QED BY <1>1, <2>1, <2>2 DEF IsReplay
<1>4. Violates(Batches(t)) <=> \/ v < Len(log[a]) \/ w < Len(log[b])
                               \/ a = b /\ v = w
  <2>1. /\ row.id = a /\ row.version = v + 1 /\ second.id = b /\ second.version = w + 1
        /\ row # second
    <3>1. d # c
      BY DEF Event
    <3> QED BY <3>1
  <2> HIDE DEF row, second, a, b, v, w
  <2>2. /\ row.version \in DOMAIN log[row.id] <=> v < Len(log[a])
        /\ second.version \in DOMAIN log[second.id] <=> w < Len(log[b])
        /\ row.id = second.id /\ row.version = second.version <=> a = b /\ v = w
    BY <1>3, <2>1
  <2> QED BY <1>2, <2>1, <2>2 DEF Violates
<1>5. P!UniqueViolation(t) <=> Violates(Batches(t))
  BY <1>3, <1>4 DEF P!UniqueViolation, P!Version
<1>6. ObjectsInv' /\ Held' = Held
  BY <1>1, Kept DEF AppendMultiple, Loaders, Appenders
<1>7. CASE Violates(Batches(t))
  <2>1. P!RejectConflict(t)
    BY <1>1, <1>5, <1>6, <1>7 DEF AppendMultiple, P!RejectConflict
  <2> QED BY <1>6, <2>1 DEF P!Handle, P!Store
<1>8. CASE ~Violates(Batches(t))
  <2>1. a # b
    BY <1>3, <1>4, <1>8
  <2>2. InsertEvents({row} \cup {second})
    BY <1>2, <1>8 DEF AppendMultiple
  <2>3. log = [x \in Ids |-> log[x]]
    BY <1>1
  <2>4. log' = [log EXCEPT ![a] = AppendEvent(@, d.kind, d.amount, d.by),
                           ![b] = AppendEvent(@, c.kind, c.amount, c.by)]
    <3>1. row.id = a /\ row.event = d /\ second.id = b /\ second.event = c
      OBVIOUS
    <3> HIDE DEF row, second, a, b, c, d
    <3> QED BY <1>1, <2>1, <2>2, <2>3, <3>1, InsertedTwo
  <2>5. log' = [log EXCEPT ![From(t)] = P!AppendEvent(@, "Debited", Amount(t), t),
                           ![To(t)] = P!AppendEvent(@, "Credited", Amount(t), t)]
    BY <2>4 DEF Event, AppendEvent, P!AppendEvent, Apply, P!Apply, FinalBalance, P!FinalBalance,
                BalanceAt, P!BalanceAt
  <2>6. P!AppendCompleted(t)
    BY <1>1, <1>5, <1>6, <1>8, <2>5 DEF AppendMultiple, P!AppendCompleted
  <2> QED BY <1>6, <2>6 DEF P!Handle, P!Store
<1> QED BY <1>7, <1>8

\* A failed transfer is stored and projected as in cqrs-es.
LEMMA FailedImplements ==
  ASSUME P!BankInv, ObjectsInv, app = "cqrs-es-nestjs", UNCHANGED <<app, held>>,
         NEW t \in Transfers, PersistFailedTransfer(t)
  PROVE  ObjectsInv' /\ P!Handle(t)
<1>1. ObjectsInv' /\ Held' = Held
  BY BankFacts, Kept DEF PersistFailedTransfer, Loaders, Appenders
<1>2. P!AppendFailed(t) \/ P!ProjectFailed(t)
  BY <1>1 DEF PersistFailedTransfer, P!AppendFailed, P!ProjectFailed
<1> QED BY <1>1, <1>2 DEF P!Handle, P!Store, P!Project

\* The versions after the append, and the next snapshot they make due.
LEMMA NoteVersions ==
  ASSUME P!BankInv, ObjectsInv, app = "cqrs-es-nestjs", NEW t \in Transfers, pc[t] \in Appenders
  PROVE  /\ NewVersion(local[t].sourceVersion, local[t].source) = Held[t].source.version + 1
         /\ NewVersion(local[t].destinationVersion, local[t].destination) = Held[t].dest.version + 1
         /\ AfterSource(t) = IF P!SnapshotDue(Held[t].dest.version + 1) THEN "readDest"
                             ELSE "completed"
         /\ Apply(0, Head(local[t].source.uncommitted).kind,
                  Head(local[t].source.uncommitted).amount)
              = -Amount(t)
         /\ Apply(0, Head(local[t].destination.uncommitted).kind,
                  Head(local[t].destination.uncommitted).amount) = Amount(t)
<1>1. /\ DecidedOn(t, local[t]) /\ local[t] \in Locals /\ Held[t] = View(local[t])
      /\ Amount(t) \in Int
  BY Named, NestView DEF ObjectsInv, HandlerObjects
<1>2. /\ Len(local[t].source.uncommitted) = 1 /\ Len(local[t].destination.uncommitted) = 1
      /\ Head(local[t].source.uncommitted) = Event("Debited", Amount(t), t)
      /\ Head(local[t].destination.uncommitted) = Event("Credited", Amount(t), t)
  BY <1>1 DEF DecidedOn
<1>3. /\ Held[t].source.version = local[t].sourceVersion
      /\ Held[t].dest.version = local[t].destinationVersion
  BY <1>1, <1>2 DEF View, AsLoaded, DecidedOn
<1>4. /\ NewVersion(local[t].sourceVersion, local[t].source) = Held[t].source.version + 1
      /\ NewVersion(local[t].destinationVersion, local[t].destination) = Held[t].dest.version + 1
  BY <1>2, <1>3 DEF NewVersion
<1>5. AfterSource(t) = IF P!SnapshotDue(Held[t].dest.version + 1) THEN "readDest" ELSE "completed"
  BY <1>4 DEF AfterSource, SnapshotDue, P!SnapshotDue
<1>6. /\ Apply(0, "Debited", Amount(t)) = -Amount(t) /\ Apply(0, "Credited", Amount(t)) = Amount(t)
  BY <1>1 DEF Apply
<1> QED BY <1>2, <1>4, <1>5, <1>6 DEF Event

\* The projections are those of cqrs-es, made of the events left on the objects.
LEMMA SuccessImplements ==
  ASSUME P!BankInv, ObjectsInv, app = "cqrs-es-nestjs", UNCHANGED <<app, held>>,
         NEW t \in Transfers, PersistSuccessfulTransfer(t)
  PROVE  ObjectsInv' /\ P!Handle(t)
<1>1. pc[t] \in Appenders
  BY DEF PersistSuccessfulTransfer, Appenders
<1>2. ObjectsInv' /\ Held' = Held
  <2>1. /\ pc \in [Transfers -> Stages] /\ UNCHANGED <<app, held, local, req>>
        /\ AfterSource(t) \notin Loaders
    BY BankFacts DEF PersistSuccessfulTransfer, ProjectUncommitted, AfterSource, Loaders
  <2>2. \A u \in Transfers : u # t => pc'[u] = pc[u]
    BY <2>1 DEF PersistSuccessfulTransfer
  <2>3. pc'[t] \notin Loaders
    BY <2>1 DEF PersistSuccessfulTransfer, Loaders
  <2> QED BY <1>1, <2>1, <2>2, <2>3, Kept
<1>3. CASE pc[t] = "projectDebit"
  <2>1. P!ProjectDebit(t)
    BY <1>1, <1>2, <1>3, NoteVersions
       DEF PersistSuccessfulTransfer, ProjectUncommitted, AddToShown, P!AddToShown, P!ProjectDebit
  <2> QED BY <1>2, <2>1 DEF P!Handle, P!Project
<1>4. CASE pc[t] = "projectCredit"
  <2>1. P!ProjectCredit(t)
    BY <1>1, <1>2, <1>4, NoteVersions
       DEF PersistSuccessfulTransfer, ProjectUncommitted, AddToShown, P!AddToShown, P!ProjectCredit
  <2> QED BY <1>2, <2>1 DEF P!Handle, P!Project
<1>5. CASE pc[t] = "projectTransfer"
  <2>1. P!ProjectCompleted(t)
    <3>1. SnapshotDue(NewVersion(local[t].sourceVersion, local[t].source))
            <=> P!SnapshotDue(Held[t].source.version + 1)
      BY <1>1, NoteVersions DEF SnapshotDue, P!SnapshotDue
    <3>2. P!SnapshotDue(Held[t].source.version + 1) => pc' = [pc EXCEPT ![t] = "readSource"]
      BY <1>5, <3>1 DEF PersistSuccessfulTransfer
    <3>3. ~P!SnapshotDue(Held[t].source.version + 1) => P!GotoDestSnapshot(t)
      BY <1>1, <1>5, <3>1, NoteVersions DEF PersistSuccessfulTransfer, P!GotoDestSnapshot
    <3> QED BY <1>2, <1>5, <3>2, <3>3 DEF PersistSuccessfulTransfer, P!ProjectCompleted
  <2> QED BY <1>2, <2>1 DEF P!Handle, P!Project
<1> QED BY <1>3, <1>4, <1>5 DEF PersistSuccessfulTransfer

\* The snapshot is of the whole stream.
LEMMA ReadImplements ==
  ASSUME P!BankInv, ObjectsInv, app = "cqrs-es-nestjs", UNCHANGED <<app, held>>,
         NEW t \in Transfers, NEW a \in Ids, ReadStream(t, a), NEW s \in Appenders, Goto(t, s),
         pc[t] \in Appenders
  PROVE  ObjectsInv' /\ P!ReadForSnapshot(t, a)
<1> DEFINE row == ToSnapshot(LoadFromHistory(NewAccount, LoadEvents(a)))
           new == [local[t] EXCEPT !.snapshot = row]
<1>1. /\ local[t] \in Locals /\ Held[t] = View(local[t]) /\ DecidedOn(t, local[t])
      /\ log[a] \in Seq(Row) /\ Readable(log[a]) /\ pc \in [Transfers -> Stages]
  BY BankFacts, NestView DEF ObjectsInv, HandlerObjects
<1>2. row = Replay(log[a], Empty) /\ row \in Aggregate
  <2>1. /\ LoadFromHistory(NewAccount, log[a])
             = [version |-> Len(log[a]), balance |-> FinalBalance(log[a]), uncommitted |-> <<>>]
        /\ Replay(log[a], Empty) = [version |-> Len(log[a]), balance |-> FinalBalance(log[a])]
    BY <1>1, LoadedWhole
  <2>2. Len(log[a]) \in Nat /\ FinalBalance(log[a]) \in Int
    BY <1>1, IntBalances DEF FinalBalance
  <2> QED BY <2>1, <2>2 DEF ToSnapshot, LoadEvents, Aggregate
<1> HIDE DEF row
<1>3. /\ new \in Locals /\ new.snapshot = row
      /\ new.source = local[t].source /\ new.destination = local[t].destination
      /\ new.sourceVersion = local[t].sourceVersion
      /\ new.destinationVersion = local[t].destinationVersion
  BY <1>1, <1>2 DEF Locals
<1>4. DecidedOn(t, new) /\ View(new) = [Held[t] EXCEPT !.snapshot = row]
  <2> HIDE DEF new
  <2> QED BY <1>1, <1>3 DEF DecidedOn, View
<1>5. ObjectsInv' /\ Held' = [Held EXCEPT ![t] = View(new)]
  <2>1. /\ local' = [local EXCEPT ![t] = new] /\ req' = req /\ pc' = [pc EXCEPT ![t] = s]
        /\ s \notin Loaders
    BY DEF ReadStream, row, Appenders, Loaders
  <2> HIDE DEF new
  <2> QED BY <1>1, <1>3, <1>4, <2>1, Changed
<1>6. Held' = [Held EXCEPT ![t].snapshot = P!Replay(log[a], P!Empty)]
  <2>1. P!Replay(log[a], P!Empty) = Replay(log[a], Empty)
    BY DEF P!Replay, P!FinalBalance, P!BalanceAt, P!Empty, Replay, FinalBalance, BalanceAt, Empty
  <2> HIDE DEF new
  <2> QED BY <1>2, <1>4, <1>5, <2>1
<1>7. P!ReadForSnapshot(t, a)
  BY <1>6 DEF ReadStream, P!ReadForSnapshot
<1> QED BY <1>5, <1>7

\* The snapshot row is overwritten with what was read.
LEMMA SaveImplements ==
  ASSUME P!BankInv, ObjectsInv, app = "cqrs-es-nestjs", UNCHANGED <<app, held>>,
         NEW t \in Transfers, NEW a \in Ids, UpsertSnapshot(t, a), NEW s, Goto(t, s),
         pc[t] \in Appenders, s \notin Loaders
  PROVE  ObjectsInv' /\ P!SaveSnapshot(t, a)
<1>1. /\ Held[t].snapshot = local[t].snapshot /\ pc \in [Transfers -> Stages]
  BY NestView, BankFacts DEF View
<1>2. ObjectsInv' /\ Held' = Held
  <2>1. UNCHANGED <<app, held, local, req>>
    BY DEF UpsertSnapshot
  <2>2. \A u \in Transfers : /\ pc'[u] \in Loaders => pc[u] \in Loaders
                             /\ pc'[u] \in Appenders => pc[u] \in Appenders
    BY <1>1
  <2> QED BY <2>1, <2>2, Kept
<1>3. P!SaveSnapshot(t, a)
  BY <1>1, <1>2 DEF UpsertSnapshot, P!SaveSnapshot
<1> QED BY <1>2, <1>3

\* maybeSnapshotAccount, of either account.
LEMMA SnapshotImplements ==
  ASSUME P!BankInv, ObjectsInv, app = "cqrs-es-nestjs", UNCHANGED <<app, held>>,
         NEW t \in Transfers, MaybeSnapshotAccount(t)
  PROVE  ObjectsInv' /\ P!Handle(t)
<1>1. pc[t] \in Appenders /\ From(t) \in Ids /\ To(t) \in Ids
  BY Named DEF MaybeSnapshotAccount, Appenders
<1>2. CASE pc[t] = "readSource" /\ ReadStream(t, From(t)) /\ Goto(t, "saveSource")
  <2>1. "saveSource" \in Appenders
    BY DEF Appenders
  <2>2. ObjectsInv' /\ P!ReadForSnapshot(t, From(t))
    BY <1>1, <1>2, <2>1, ReadImplements
  <2> QED BY <1>2, <2>2 DEF P!Handle, P!SnapshotSource
<1>3. CASE pc[t] = "saveSource" /\ UpsertSnapshot(t, From(t)) /\ Goto(t, AfterSource(t))
  <2>1. AfterSource(t) \notin Loaders
    BY DEF AfterSource, Loaders
  <2>2. ObjectsInv' /\ P!SaveSnapshot(t, From(t))
    BY <1>1, <1>3, <2>1, SaveImplements
  <2>3. P!GotoDestSnapshot(t)
    BY <1>1, <1>3, NoteVersions DEF P!GotoDestSnapshot
  <2> QED BY <1>3, <2>2, <2>3 DEF P!Handle, P!SnapshotSource
<1>4. CASE pc[t] = "readDest" /\ ReadStream(t, To(t)) /\ Goto(t, "saveDest")
  <2>1. "saveDest" \in Appenders
    BY DEF Appenders
  <2>2. ObjectsInv' /\ P!ReadForSnapshot(t, To(t))
    BY <1>1, <1>4, <2>1, ReadImplements
  <2> QED BY <1>4, <2>2 DEF P!Handle, P!SnapshotDest
<1>5. CASE pc[t] = "saveDest" /\ UpsertSnapshot(t, To(t)) /\ Goto(t, "completed")
  <2>1. "completed" \notin Loaders
    BY DEF Loaders
  <2>2. ObjectsInv' /\ P!SaveSnapshot(t, To(t))
    BY <1>1, <1>5, <2>1, SaveImplements
  <2> QED BY <1>5, <2>2 DEF P!Handle, P!SnapshotDest
<1> QED BY <1>2, <1>3, <1>4, <1>5 DEF MaybeSnapshotAccount

\* CreateAccountHandler: the first event of a fresh stream.
LEMMA CreateImplements ==
  ASSUME P!BankInv, ObjectsInv, app = "cqrs-es-nestjs", UNCHANGED <<app, held>>,
         NEW a \in Accounts, CreateAccount(a)
  PROVE  ObjectsInv' /\ P!OpenAccount(a)
<1>1. ObjectsInv' /\ Held' = Held
  BY Kept DEF CreateAccount
<1>2. PICK balance \in OpeningBalances :
        balance >= 0 /\ AppendRows(a, Create(balance).uncommitted)
  BY DEF CreateAccount
<1> DEFINE event == Event("Created", balance, NoTransfer)
<1>3. Create(balance).uncommitted = <<event>>
  <2> HIDE DEF event
  <2>1. On(NewAccount, event).uncommitted = <<>>
        /\ On(NewAccount, event)
             = [version |-> 1, balance |-> Apply(0, event.kind, event.amount), uncommitted |-> <<>>]
    <3>1. On([version |-> 0, balance |-> 0, uncommitted |-> <<>>], event)
            = [version |-> 0 + 1, balance |-> Apply(0, event.kind, event.amount),
               uncommitted |-> <<>>]
      BY OnObject
    <3> QED BY <3>1 DEF NewAccount
  <2>2. Append(<<>>, event) = <<event>>
    OBVIOUS
  <2>3. ApplyNew(NewAccount, event).uncommitted = <<event>>
    BY <2>1, <2>2 DEF ApplyNew
  <2> QED BY <2>3 DEF Create, event
<1>4. log' = [log EXCEPT ![a] = AppendEvent(@, event.kind, event.amount, event.by)]
  <2> HIDE DEF event
  <2>1. InsertEvents({[id |-> a, version |-> 0 + 1, event |-> event]})
    <3>1. InsertEvents(BuildEventRows(a, <<event>>, 0))
      BY <1>2, <1>3 DEF AppendRows
    <3>2. BuildEventRows(a, <<event>>, 0) = {[id |-> a, version |-> 0 + 1, event |-> event]}
      BY OneRow
    <3> QED BY <3>1, <3>2
  <2>2. a \in Ids /\ log = [x \in Ids |-> log[x]]
    BY BankFacts
  <2> QED BY <2>1, <2>2, InsertedOne
<1>5. log' = [log EXCEPT ![a] = P!AppendEvent(@, "Created", balance, NoTransfer)]
  BY <1>4 DEF Event, AppendEvent, P!AppendEvent, Apply, P!Apply, FinalBalance, P!FinalBalance,
              BalanceAt, P!BalanceAt
<1>6. P!OpenAccount(a)
  BY <1>1, <1>2, <1>5 DEF CreateAccount, P!OpenAccount
<1> QED BY <1>1, <1>6

\* Every step of InitiateTransferHandler is one of cqrs-es.
LEMMA ExecuteImplements ==
  ASSUME P!BankInv, ObjectsInv, app = "cqrs-es-nestjs", UNCHANGED <<app, held>>,
         NEW t \in Transfers, Execute(t)
  PROVE  ObjectsInv' /\ P!Handle(t)
BY LoadSourceImplements, LoadDestinationImplements, AppendImplements, SuccessImplements,
   FailedImplements, SnapshotImplements DEF Execute

\* The handlers of cqrs-es itself: what is held is what they hold.
LEMMA OwnHandler ==
  ASSUME ObjectsInv, app = "cqrs-es", UNCHANGED <<app, local>>, NEW t \in Transfers, Handle(t)
  PROVE  ObjectsInv' /\ P!Handle(t)
<1>1. Held = held /\ Held' = held'
  BY DEF Held
<1>2. ObjectsInv'
  BY DEF ObjectsInv
<1>3. /\ LoadSourceSnapshot(t) => P!LoadSourceSnapshot(t)
      /\ LoadDestSnapshot(t) => P!LoadDestSnapshot(t)
  BY <1>1 DEF LoadSourceSnapshot, P!LoadSourceSnapshot, LoadDestSnapshot, P!LoadDestSnapshot
<1>4. (LoadSourceEvents(t) => P!LoadSourceEvents(t))
  BY <1>1 DEF LoadSourceEvents, P!LoadSourceEvents, Replay, P!Replay, Missing, P!Missing, Empty,
       P!Empty, BalanceAt, P!BalanceAt, FinalBalance, P!FinalBalance
<1>5. (LoadDestEvents(t) => P!LoadDestEvents(t))
  BY <1>1 DEF LoadDestEvents, P!LoadDestEvents, Replay, P!Replay, Missing, P!Missing, Empty,
       P!Empty, BalanceAt, P!BalanceAt, FinalBalance, P!FinalBalance
<1>6. (RejectConflict(t) => P!RejectConflict(t))
  BY <1>1 DEF RejectConflict, P!RejectConflict, UniqueViolation, P!UniqueViolation, Version,
       P!Version
<1>7. (AppendCompleted(t) => P!AppendCompleted(t))
  BY <1>1 DEF AppendCompleted, P!AppendCompleted, UniqueViolation, P!UniqueViolation, Version,
       P!Version, AppendEvent, P!AppendEvent, Apply, P!Apply, BalanceAt, P!BalanceAt,
       FinalBalance, P!FinalBalance
<1>8. (AppendFailed(t) => P!AppendFailed(t)) /\ (ProjectFailed(t) => P!ProjectFailed(t))
  BY <1>1 DEF AppendFailed, P!AppendFailed, ProjectFailed, P!ProjectFailed
<1>9. (ProjectDebit(t) => P!ProjectDebit(t)) /\ (ProjectCredit(t) => P!ProjectCredit(t))
  BY <1>1 DEF ProjectDebit, P!ProjectDebit, ProjectCredit, P!ProjectCredit, AddToShown, P!AddToShown
<1>10. (ProjectCompleted(t) => P!ProjectCompleted(t))
  BY <1>1 DEF ProjectCompleted, P!ProjectCompleted, GotoDestSnapshot, P!GotoDestSnapshot,
       SnapshotDue, P!SnapshotDue
<1>11. (SnapshotSource(t) => P!SnapshotSource(t)) /\ (SnapshotDest(t) => P!SnapshotDest(t))
  BY <1>1 DEF SnapshotSource, P!SnapshotSource, SnapshotDest, P!SnapshotDest, ReadForSnapshot,
       P!ReadForSnapshot, SaveSnapshot, P!SaveSnapshot, GotoDestSnapshot,
       P!GotoDestSnapshot, SnapshotDue, P!SnapshotDue, Replay, P!Replay, Empty, P!Empty,
       BalanceAt, P!BalanceAt, FinalBalance, P!FinalBalance
<1>12. P!Handle(t)
  BY <1>3, <1>4, <1>5, <1>6, <1>7, <1>8, <1>9, <1>10, <1>11
     DEF Handle, P!Handle, Load, P!Load, Store, P!Store, Project, P!Project
<1> QED BY <1>2, <1>12

\* Creation in cqrs-es itself.
LEMMA OwnOpening ==
  ASSUME ObjectsInv, app = "cqrs-es", UNCHANGED <<app, local>>, NEW a \in Accounts, OpenAccount(a)
  PROVE  ObjectsInv' /\ P!OpenAccount(a)
<1>1. Held = held /\ Held' = held'
  BY DEF Held
<1>2. ObjectsInv'
  BY DEF ObjectsInv
<1>3. P!OpenAccount(a)
  BY <1>1 DEF OpenAccount, P!OpenAccount, AppendEvent, P!AppendEvent, Apply, P!Apply, FinalBalance,
              P!FinalBalance, BalanceAt, P!BalanceAt
<1> QED BY <1>2, <1>3

\* Steps that neither variant's objects have a part in.
LEMMA SharedStep ==
  ASSUME P!BankInv, ObjectsInv, UNCHANGED app, VariantStep,
         ~ \E a \in Accounts : VariantOpen(a), ~ \E t \in Transfers : VariantHandle(t)
  PROVE  ObjectsInv' /\ P!BankStep
<1>1. pc \in [Transfers -> Stages]
  BY BankFacts
<1>2. ASSUME NEW a \in Accounts, VariantList(a)
      PROVE  ObjectsInv' /\ P!BankStep
  <2>1. ObjectsInv' /\ Held' = Held
    BY <1>2, Kept DEF VariantList, ListConflict, ListAccount
  <2>2. CASE a \in listed
    <3>1. P!ListConflict(a)
      BY <1>2, <2>1, <2>2 DEF VariantList, ListConflict, P!ListConflict
    <3> QED BY <2>1, <3>1 DEF P!BankStep
  <2>3. CASE a \notin listed
    <3>1. P!ListAccount(a)
      BY <1>2, <2>1, <2>3 DEF VariantList, ListAccount, P!ListAccount
    <3> QED BY <2>1, <2>3, <3>1 DEF P!BankStep
  <2> QED BY <2>2, <2>3
<1>3. ASSUME NEW t \in Transfers, Arrive(t)
      PROVE  ObjectsInv' /\ P!BankStep
  <2>1. ObjectsInv' /\ Held' = Held
    BY <1>1, <1>3, Kept DEF Arrive, Receive, Loaders, Appenders
  <2>2. P!Receive(t)
    BY <1>3, <2>1 DEF Arrive, Receive, P!Receive, Known, P!Known
  <2> QED BY <2>1, <2>2 DEF P!BankStep
<1>4. ASSUME Stop
      PROVE  ObjectsInv' /\ P!BankStep
  <2>1. ASSUME NEW a \in Accounts, AbortOpening(a)
        PROVE  ObjectsInv' /\ P!BankStep
    <3>1. ObjectsInv' /\ Held' = Held
      BY <1>4, <2>1, Kept DEF Stop, AbortOpening
    <3>2. P!AbortOpening(a)
      BY <2>1, <3>1 DEF AbortOpening, P!AbortOpening
    <3> QED BY <3>1, <3>2 DEF P!BankStep
  <2>2. ASSUME NEW t \in Transfers, Abort(t)
        PROVE  ObjectsInv' /\ P!BankStep
    <3>1. ObjectsInv' /\ Held' = Held
      BY <1>1, <1>4, <2>2, Kept DEF Stop, Abort, Loaders, Appenders
    <3>2. P!Abort(t)
      BY <2>2, <3>1 DEF Abort, P!Abort, Answered, P!Answered
    <3> QED BY <3>1, <3>2 DEF P!BankStep
  <2> QED BY <1>4, <2>1, <2>2 DEF Stop
<1> QED BY <1>2, <1>3, <1>4 DEF VariantStep

-----------------------------------------------------------------------------
(* The variants *)

\* Every step of either variant, or of the rebuild, is one of the bank.
LEMMA VariantImplements ==
  ASSUME P!BankInv, ObjectsInv, [VariantNext]_variantVars
  PROVE  ObjectsInv' /\ [P!RebuildNext]_(P!allVars)
<1>1. pc \in [Transfers -> Stages] /\ app \in Variants
  BY BankFacts DEF ObjectsInv
<1>2. CASE UNCHANGED variantVars
  <2>1. ObjectsInv' /\ Held' = Held
    BY <1>2, Kept DEF variantVars, allVars, vars
  <2>2. UNCHANGED P!allVars
    BY <1>2, <2>1 DEF variantVars, allVars, vars, P!allVars, P!vars
  <2> QED BY <2>1, <2>2
<1>3. ASSUME Record, UNCHANGED app
      PROVE  disturbed' = IF P!Rebuilding' THEN disturbed \cup P!Active' ELSE disturbed
  BY <1>3 DEF Record, Rebuilding, P!Rebuilding, Active, P!Active, InFlight, P!InFlight,
     Answered, P!Answered, From, To, P!From, P!To
<1>4. CASE RebuildStep /\ UNCHANGED local /\ Record
  <2>1. UNCHANGED <<app, held, local, req, pc>>
    BY <1>4 DEF Record, RebuildStep, DeleteRows, SelectEvents, ProjectNext, Finish, AbortRebuild,
         vars
  <2>2. ObjectsInv' /\ Held' = Held
    BY <2>1, Kept
  <2>3. P!RebuildStep
    BY <1>4, <2>2 DEF
         RebuildStep, P!RebuildStep, DeleteRows, P!DeleteRows, SelectEvents, P!SelectEvents,
       ProjectNext, P!ProjectNext, Apply1, P!Apply1, AddToShown, P!AddToShown, Finish, P!Finish,
       AbortRebuild, P!AbortRebuild, Rebuilding, P!Rebuilding, Version, P!Version, vars, P!vars
  <2> QED BY <1>3, <1>4, <2>1, <2>2, <2>3 DEF P!RebuildNext
<1>5. CASE VariantStep /\ UNCHANGED <<stage, todo>> /\ Record
  <2>1. UNCHANGED app
    BY <1>5 DEF Record
  <2>2. ObjectsInv' /\ P!BankStep
    <3>1. ASSUME NEW a \in Accounts, VariantOpen(a)
          PROVE  ObjectsInv' /\ P!BankStep
      <4>1. ObjectsInv' /\ P!OpenAccount(a)
        BY <2>1, <3>1, OwnOpening, CreateImplements DEF VariantOpen, CreateAccount
      <4> QED BY <4>1 DEF P!BankStep
    <3>2. ASSUME NEW t \in Transfers, VariantHandle(t)
          PROVE  ObjectsInv' /\ P!BankStep
      <4>1. ObjectsInv' /\ P!Handle(t)
        BY <2>1, <3>2, OwnHandler, ExecuteImplements DEF VariantHandle
      <4> QED BY <4>1 DEF P!BankStep
    <3> QED BY <1>5, <2>1, <3>1, <3>2, SharedStep
  <2> QED BY <1>3, <1>5, <2>1, <2>2 DEF P!RebuildNext
<1> QED BY <1>2, <1>4, <1>5 DEF VariantNext

\* The bank that the invariants speak of is the one that is refined.
LEMMA SameBank == [P!RebuildNext]_(P!allVars) => [R!RebuildNext]_(R!allVars)
BY DEF P!RebuildNext, R!RebuildNext, P!RebuildStep, R!RebuildStep, P!BankStep, R!BankStep,
       P!DeleteRows, R!DeleteRows, P!SelectEvents, R!SelectEvents, P!ProjectNext, R!ProjectNext,
       P!Apply1, R!Apply1, P!AddToShown, R!AddToShown, P!Finish, R!Finish, P!AbortRebuild,
       R!AbortRebuild, P!ListConflict, R!ListConflict, P!Rebuilding, R!Rebuilding, P!Active,
       R!Active, P!InFlight, R!InFlight, P!From, R!From, P!To, R!To, P!Amount, R!Amount,
       P!OpenAccount, R!OpenAccount, P!AbortOpening, R!AbortOpening, P!ListAccount, R!ListAccount,
       P!Receive, R!Receive, P!Handle, R!Handle, P!Abort, R!Abort, P!Load, R!Load, P!Store,
       R!Store, P!Project, R!Project, P!LoadSourceSnapshot, R!LoadSourceSnapshot,
       P!LoadSourceEvents, R!LoadSourceEvents, P!LoadDestSnapshot, R!LoadDestSnapshot,
       P!LoadDestEvents, R!LoadDestEvents, P!RejectConflict, R!RejectConflict, P!AppendCompleted,
       R!AppendCompleted, P!AppendFailed, R!AppendFailed, P!ProjectDebit, R!ProjectDebit,
       P!ProjectCredit, R!ProjectCredit, P!ProjectCompleted, R!ProjectCompleted, P!ProjectFailed,
       R!ProjectFailed, P!SnapshotSource, R!SnapshotSource, P!SnapshotDest, R!SnapshotDest,
       P!ReadForSnapshot, R!ReadForSnapshot, P!SaveSnapshot, R!SaveSnapshot, P!UniqueViolation,
       R!UniqueViolation, P!Goto, R!Goto, P!GotoDestSnapshot, R!GotoDestSnapshot, P!SnapshotDue,
       R!SnapshotDue, P!Replay, R!Replay, P!Missing, R!Missing, P!Empty, R!Empty, P!BalanceAt,
       R!BalanceAt, P!FinalBalance, R!FinalBalance, P!Version, R!Version, P!Known, R!Known,
       P!AppendEvent, R!AppendEvent, P!Apply, R!Apply, P!Answered, R!Answered, P!readModels,
       R!readModels, P!vars, R!vars, P!allVars, R!allVars

\* Both variants start with empty hands.
LEMMA VariantInitial ==
  VariantInit => R!RebuildInit /\ P!BankInv /\ P!RestoreInv /\ ObjectsInv
<1> SUFFICES ASSUME VariantInit PROVE R!RebuildInit /\ P!BankInv /\ P!RestoreInv /\ ObjectsInv
  OBVIOUS
<1>1. Held = [t \in Transfers |-> [snapshot |-> Empty, source |-> Empty, dest |-> Empty]]
  <2>1. CASE app = "cqrs-es"
    BY <2>1 DEF VariantInit, RebuildInit, Init, Held
  <2>2. CASE app # "cqrs-es"
    <3>1. AsLoaded(NewAccount) = Empty
      BY DEF AsLoaded, NewAccount, Empty
    <3>2. \A t \in Transfers : /\ local[t].snapshot = Empty /\ local[t].source = NewAccount
                               /\ local[t].destination = NewAccount
      BY DEF VariantInit, NoLocals
    <3> QED BY <2>2, <3>1, <3>2 DEF Held
  <2> QED BY <2>1, <2>2
<1>2. P!RebuildInit /\ R!RebuildInit
  BY <1>1 DEF VariantInit, RebuildInit, Init, P!RebuildInit, P!Init, R!RebuildInit, R!Init,
     Empty, P!Empty, R!Empty
<1>3. P!BankInv /\ P!RestoreInv
  BY <1>2, P!InitRestore, AccountsAssumption, RequestsAssumption, OpeningBalancesAssumption,
     SnapshotEveryAssumption, NoTransferAssumption, MayAbortAssumption DEF Request, P!Request
<1>4. ObjectsInv
  <2>1. NoLocals \in Locals /\ Undecided(NoLocals)
    <3>1. Empty \in Aggregate /\ NewAccount \in Object /\ NewAccount.uncommitted = <<>>
      <4>1. <<>> \in Seq(EventRow)
        OBVIOUS
      <4> QED BY <4>1 DEF Empty, Aggregate, NewAccount, Object
    <3> QED BY <3>1 DEF NoLocals, Locals, Undecided
  <2>2. /\ local = [t \in Transfers |-> NoLocals] /\ pc = [t \in Transfers |-> "idle"]
        /\ app \in Variants
    BY DEF VariantInit, RebuildInit, Init, Variants
  <2> QED BY <2>1, <2>2 DEF ObjectsInv, HandlerObjects, Appenders
<1> QED BY <1>2, <1>3, <1>4

\* The invariants of the bank, of the rebuild and of the objects carry over.
LEMMA VariantInductive ==
  P!BankInv /\ P!RestoreInv /\ ObjectsInv /\ [VariantNext]_variantVars =>
    P!BankInv' /\ P!RestoreInv' /\ ObjectsInv'
<1> SUFFICES ASSUME P!BankInv, P!RestoreInv, ObjectsInv, [VariantNext]_variantVars
             PROVE  P!BankInv' /\ P!RestoreInv' /\ ObjectsInv'
  OBVIOUS
<1>1. ObjectsInv' /\ [P!RebuildNext]_(P!allVars)
  BY VariantImplements
<1>2. P!BankInv' /\ P!RestoreInv'
  BY <1>1, P!StepRestore, AccountsAssumption, RequestsAssumption, OpeningBalancesAssumption,
     SnapshotEveryAssumption, NoTransferAssumption, MayAbortAssumption DEF Request, P!Request
<1> QED BY <1>1, <1>2

\* cqrs-es and cqrs-es-nestjs, with their rebuild, make the steps of one protocol:
\* the aggregates that change in memory before the append, and the versions noted
\* before they do, never show in the tables.
THEOREM Implementation == VariantSpec => ImplementsEventSourced
<1>1. P!BankInv /\ ObjectsInv /\ [VariantNext]_variantVars => [R!RebuildNext]_(R!allVars)
  BY VariantImplements, SameBank
<1> QED BY <1>1, VariantInitial, VariantInductive, PTL
        DEF VariantSpec, ImplementsEventSourced, R!RebuildSpec

\* What the invariants say of the money.
LEMMA MoneyOfBank ==
  P!BankInv => NoOverdraft /\ SnapshotIsReplay /\ FailedWasShort /\ DoubleEntry /\ Conservation
<1> SUFFICES ASSUME P!BankInv
             PROVE  NoOverdraft /\ SnapshotIsReplay /\ FailedWasShort /\ DoubleEntry /\ Conservation
  OBVIOUS
<1>1. P!IInv /\ P!EntryInv /\ P!TotalsInv
  BY DEF P!BankInv
<1>2. NoOverdraft
  BY <1>1 DEF P!IInv, P!NoOverdraft, P!Version, NoOverdraft, Version
<1>3. SnapshotIsReplay
  BY BankFacts DEF SnapshotIsReplay
<1>4. FailedWasShort
  <2> SUFFICES ASSUME NEW t \in Transfers, transferLog[t] = "Failed"
               PROVE  \E v \in 1 .. Version(From(t)) : BalanceAt(log[From(t)], v) < Amount(t)
    BY DEF FailedWasShort
  <2> DEFINE v == Held[t].source.version
  <2>1. /\ v > 0 /\ Held[t].source.balance < Amount(t)
        /\ v \in 0 .. Len(log[From(t)])
        /\ Held[t].source.balance = BalanceAt(log[From(t)], v)
    <3>1. P!HandlerOK(t) /\ IsReplay(log[From(t)], Held[t].source)
      BY <1>1, BankFacts DEF P!IInv
    <3> QED BY <3>1 DEF P!HandlerOK, P!Amount, Amount, IsReplay
  <2>2. v \in 1 .. Version(From(t)) /\ BalanceAt(log[From(t)], v) < Amount(t)
    BY <2>1 DEF Version
  <2> QED BY <2>2
<1>5. DoubleEntry
  <2>1. P!DoubleEntry
    BY <1>1, P!EntryInvSuffices, AccountsAssumption, RequestsAssumption, OpeningBalancesAssumption,
     SnapshotEveryAssumption, NoTransferAssumption, MayAbortAssumption DEF Request, P!Request
  <2> QED BY <2>1 DEF P!DoubleEntry, P!RowsOf, P!Version, P!From, P!To, P!Amount,
                      DoubleEntry, RowsOf, Version, From, To, Amount
<1>6. Conservation
  <2>1. P!Conservation
    BY <1>1 DEF P!TotalsInv
  <2>2. ASSUME NEW f PROVE P!SumFunction(f) = SumFunction(f)
    BY DEF P!SumFunction, SumFunction, P!SumFunctionOnSet, SumFunctionOnSet,
       P!FoldFunctionOnSet, FoldFunctionOnSet, P!MapThenFoldSet, MapThenFoldSet
  <2>3. \A a \in Ids : P!Balance(a) = Balance(a)
    BY DEF P!Balance, P!FinalBalance, P!BalanceAt, Balance, FinalBalance, BalanceAt
  <2> DEFINE opened == {a \in Accounts : log[a] # <<>>}
  <2>4. P!SumFunction([a \in opened |-> P!Balance(a)])
          = P!SumFunction([a \in opened |-> log[a][1].amount])
    BY <2>1 DEF P!Conservation
  <2>5. [a \in opened |-> P!Balance(a)] = [a \in opened |-> Balance(a)]
    BY <2>3, AccountsAssumption
  <2>6. SumFunction([a \in opened |-> Balance(a)])
          = SumFunction([a \in opened |-> log[a][1].amount])
    BY <2>2, <2>4, <2>5
  <2> QED BY <2>6 DEF Conservation
<1> QED BY <1>2, <1>3, <1>4, <1>5, <1>6

\* In both variants, beside a rebuild or without one, no stream ever replays to a
\* negative balance, snapshots are replays, failed transfers were short, transfers
\* are entered twice and money is conserved.
THEOREM MoneyIsSafe ==
  VariantSpec =>
    [](NoOverdraft /\ SnapshotIsReplay /\ FailedWasShort /\ DoubleEntry /\ Conservation)
BY MoneyOfBank, VariantInitial, VariantInductive, PTL DEF VariantSpec

\* In both variants a rebuild that finishes has restored every account that no
\* handler worked on while it ran.
THEOREM RebuildsRestore == VariantSpec => UndisturbedIsRestored
<1>1. P!BankInv /\ ObjectsInv /\ [VariantNext]_variantVars => [P!RebuildNext]_(P!allVars)
  BY VariantImplements
<1>2. VariantInit => P!RebuildInit
  BY VariantInitial DEF P!RebuildInit, R!RebuildInit, P!Init, R!Init, P!Empty, R!Empty
<1>3. VariantSpec => P!RebuildSpec
  BY <1>1, <1>2, VariantInitial, VariantInductive, PTL DEF VariantSpec, P!RebuildSpec
<1>4. P!RebuildSpec => P!UndisturbedIsRestored
  BY P!RebuildRestores, AccountsAssumption, RequestsAssumption, OpeningBalancesAssumption,
     SnapshotEveryAssumption, NoTransferAssumption, MayAbortAssumption DEF Request, P!Request
<1>5. [stage # "done" /\ stage' = "done" =>
         \A a \in Accounts \ disturbed : P!Restored(a)']_(P!allVars)
       => [stage # "done" /\ stage' = "done" =>
             \A a \in Accounts \ disturbed : Restored(a)']_allVars
  BY DEF P!Restored, P!Balance, P!FinalBalance, P!BalanceAt, P!allVars,
         Restored, Balance, FinalBalance, BalanceAt, allVars
<1> QED BY <1>3, <1>4, <1>5, PTL DEF P!UndisturbedIsRestored, UndisturbedIsRestored

=============================================================================
