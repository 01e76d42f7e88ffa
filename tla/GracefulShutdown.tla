--------------------------- MODULE GracefulShutdown ---------------------------
(***************************************************************************)
(* A server process of any variant between SIGTERM and its exit: requests  *)
(* check clients out of the pg pool, once per autocommitted query and once *)
(* per transaction, while Nest runs the shutdown hooks in its fixed order: *)
(* onModuleDestroy, where DatabaseConnection awaits pool.end();            *)
(* beforeApplicationShutdown, where ReadinessService sets its flag; and    *)
(* only then the close of the HTTP server, which waits for open requests.  *)
(***************************************************************************)
EXTENDS Integers, Sequences, FiniteSets, SequencesExt

CONSTANTS
  Commands,  \* requests that check a client out Checkouts times
  Probes,    \* GET /health/ready, one query each
  Checkouts, \* queries and transactions of a command
  PoolMax,   \* DB_POOL_MAX
  MayDie     \* whether the process can die at any moment

ASSUME PoolMaxAssumption == PoolMax \in Nat \ {0}
ASSUME CheckoutsAssumption == Checkouts \in Nat \ {0}
ASSUME ProbesAssumption == Commands \cap Probes = {}
ASSUME MayDieAssumption == MayDie \in BOOLEAN

Requests == Commands \cup Probes

VARIABLES
  phase,        \* progress of the process
  poolEnding,   \* pool.end() has been called
  shuttingDown, \* flag of ReadinessService
  pc,           \* progress of each request
  left,         \* checkouts it has still to make
  queue,        \* pending queue of the pool
  late          \* history: the request arrived after SIGTERM

vars == <<phase, poolEnding, shuttingDown, pc, left, queue, late>>

Busy == {r \in Requests : pc[r] = "busy"}

Answered == {"ok", "unready", "rejected", "timedOut", "dropped"}

Open(r) == pc[r] \notin Answered \cup {"idle"}

Goto(r, stage) == pc' = [pc EXCEPT ![r] = stage]

Init ==
  /\ phase = "up"
  /\ poolEnding = FALSE
  /\ shuttingDown = FALSE
  /\ pc = [r \in Requests |-> "idle"]
  /\ left = [r \in Requests |-> IF r \in Probes THEN 1 ELSE Checkouts]
  /\ queue = <<>>
  /\ late = [r \in Requests |-> FALSE]

\* The HTTP server accepts requests until it is closed.  pingCheck looks at
\* the flag before it queries.
Arrive(r) ==
  /\ pc[r] = "idle"
  /\ phase \in {"up", "ending", "flagging"}
  /\ Goto(r, IF r \in Probes /\ shuttingDown THEN "unready" ELSE "connect")
  /\ late' = [late EXCEPT ![r] = phase # "up"]
  /\ UNCHANGED <<phase, poolEnding, shuttingDown, left, queue>>

\* pool.connect rejects once the pool is ending and else queues the request.
Connect(r) ==
  /\ pc[r] = "connect"
  /\ IF poolEnding THEN Goto(r, "rejected") /\ UNCHANGED queue
                   ELSE Goto(r, "queued") /\ queue' = Append(queue, r)
  /\ UNCHANGED <<phase, poolEnding, shuttingDown, left, late>>

\* The pool gives a client to the head of its queue, unless it is ending.
Serve(r) ==
  /\ ~poolEnding
  /\ queue # <<>> /\ r = Head(queue)
  /\ Cardinality(Busy) < PoolMax
  /\ queue' = Tail(queue)
  /\ Goto(r, "busy")
  /\ UNCHANGED <<phase, poolEnding, shuttingDown, left, late>>

\* Mutants of TimeOut: the request keeps its place in the queue;
\* connectionTimeoutMillis is not passed to the pool.
TimeOutKeepingPlace(r) ==
  /\ pc[r] = "queued"
  /\ Goto(r, "timedOut")
  /\ UNCHANGED <<phase, poolEnding, shuttingDown, left, queue, late>>

TimeOutNever(r) == FALSE /\ UNCHANGED vars

\* connectionTimeoutMillis runs out in the queue.
TimeOut(r) ==
  /\ pc[r] = "queued"
  /\ \E i \in DOMAIN queue : queue[i] = r /\ queue' = RemoveAt(queue, i)
  /\ Goto(r, "timedOut")
  /\ UNCHANGED <<phase, poolEnding, shuttingDown, left, late>>

\* The query or transaction ends, at the latest by statement_timeout, and the
\* client goes back to the pool.
Release(r) ==
  /\ pc[r] = "busy"
  /\ left' = [left EXCEPT ![r] = @ - 1]
  /\ Goto(r, IF left[r] = 1 THEN "ok" ELSE "connect")
  /\ UNCHANGED <<phase, poolEnding, shuttingDown, queue, late>>

\* Mutant of Sigterm: DatabaseConnection has no onModuleDestroy.
SigtermWithoutEnd ==
  /\ phase = "up"
  /\ phase' = "ending"
  /\ UNCHANGED <<poolEnding, shuttingDown, pc, left, queue, late>>

\* enableShutdownHooks: the signal starts the onModuleDestroy hooks.
Sigterm ==
  /\ phase = "up"
  /\ phase' = "ending"
  /\ poolEnding' = TRUE
  /\ UNCHANGED <<shuttingDown, pc, left, queue, late>>

\* pool.end() resolves when the last checked-out client has come back.
PoolEnded ==
  /\ phase = "ending"
  /\ Busy = {}
  /\ phase' = "flagging"
  /\ UNCHANGED <<poolEnding, shuttingDown, pc, left, queue, late>>

SetFlag ==
  /\ phase = "flagging" /\ ~shuttingDown
  /\ shuttingDown' = TRUE
  /\ UNCHANGED <<phase, poolEnding, pc, left, queue, late>>

CloseServer ==
  /\ phase = "flagging" /\ shuttingDown
  /\ phase' = "closing"
  /\ UNCHANGED <<poolEnding, shuttingDown, pc, left, queue, late>>

ExitProcess ==
  /\ phase = "closing"
  /\ \A r \in Requests : ~Open(r)
  /\ phase' = "down"
  /\ UNCHANGED <<poolEnding, shuttingDown, pc, left, queue, late>>

\* process.exit(1) in the hooks of main.ts, or SIGKILL.
Die ==
  /\ MayDie
  /\ phase # "down"
  /\ phase' = "down"
  /\ pc' = [r \in Requests |-> IF Open(r) THEN "dropped" ELSE pc[r]]
  /\ queue' = <<>>
  /\ UNCHANGED <<poolEnding, shuttingDown, left, late>>

Handle(r) == Connect(r) \/ Serve(r) \/ Release(r)

Hooks == PoolEnded \/ SetFlag \/ CloseServer \/ ExitProcess

Next ==
  \/ \E r \in Requests : Arrive(r) \/ Handle(r) \/ TimeOut(r)
  \/ Sigterm \/ Hooks \/ Die

Spec == Init /\ [][Next]_vars

\* The event loop runs what is ready, queries end, and the timer of a queued
\* request fires unless it is served.
Fairness ==
  /\ \A r \in Requests : WF_vars(Handle(r)) /\ WF_vars(TimeOut(r))
  /\ WF_vars(Hooks)

FairSpec == Spec /\ Fairness

-----------------------------------------------------------------------------
(* Properties *)

\* Type correctness; the queue holds the queued requests, once each.
TypeOK ==
  /\ phase \in {"up", "ending", "flagging", "closing", "down"}
  /\ poolEnding \in BOOLEAN /\ shuttingDown \in BOOLEAN
  /\ pc \in [Requests -> {"idle", "connect", "queued", "busy"} \cup Answered]
  /\ left \in [Requests -> 0 .. Checkouts]
  /\ ToSet(queue) = {r \in Requests : pc[r] = "queued"} /\ IsInjective(queue)
  /\ late \in [Requests -> BOOLEAN]

\* "/health/ready returns 503 once shutdown begins" (cqrs-es/test/
\* health.integration.test.ts:71): a probe sent after SIGTERM never succeeds,
\* although the flag is set only after the pool has ended.
LateProbesFail == \A p \in Probes : late[p] => pc[p] # "ok"

\* After SIGTERM the process comes to its end, pending requests or not.
ShutdownCompletes == phase = "ending" ~> phase = "down"

=============================================================================
