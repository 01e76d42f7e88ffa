----------------------------- MODULE RestServer -----------------------------
(***************************************************************************)
(* One server process, whichever architecture is behind it: it boots with  *)
(* an environment or exits, and takes each request through the throttler,  *)
(* the JWT guard, the metrics interceptor, the validation pipe and the     *)
(* controller's handler to an answer, or through the exception filter.     *)
(* What a variant does at each of these points is a parameter.             *)
(***************************************************************************)
EXTENDS RestPlatform, Functions

CONSTANTS
  HasRoute(_),           \* whether a controller has a method for the url
  Bootstrap(_),          \* what becomes of the process in an environment
  SkipIf(_),             \* requests the throttler leaves alone
  CanActivate(_, _),     \* verdict of the JWT guard
  JwtStrategyProvider(_),\* whether the guard's strategy is registered
  JwtStrategy(_),        \* whether the strategy accepts the request's token
  Intercept(_),          \* requests the metrics interceptor records
  Connected(_),          \* whether the pool serves queries
  PingCheck(_, _),       \* verdict of the health indicator
  HealthController(_, _),\* status of a probe
  Handle(_, _, _, _, _), \* outcomes of the other controllers' methods
  Catch(_),              \* status the exception filter answers with
  Deployments,           \* environments, each with what is sent to it
  Accounts,              \* balances of the accounts opened before
  Limit,                 \* THROTTLE_LIMIT
  MayFail                \* whether a statement can fail or lose a race

VARIABLES
  env,          \* environment of the process
  phase,        \* "boot", "listening" or "exited"
  pool,         \* "open" or "ended"
  shuttingDown, \* flag of ReadinessService
  hits,         \* requests of the client in each handler's throttle window
  db,           \* the committed tables
  pc,           \* progress of each request
  call,         \* the request
  status,       \* status of its answer
  counted,      \* labels under which http_requests_total counted it
  thrown        \* history: what its handler threw

vars == <<env, phase, pool, shuttingDown, hits, db, pc, call, status, counted, thrown>>

process == <<env, phase, pool, shuttingDown>>

Goto(s, stage) == pc' = [pc EXCEPT ![s] = stage] /\ UNCHANGED status

Answer(s, code) ==
  /\ pc' = [pc EXCEPT ![s] = "answered"]
  /\ status' = [status EXCEPT ![s] = code]

-----------------------------------------------------------------------------

Init ==
  /\ phase = "boot"
  /\ pool = "open"
  /\ shuttingDown = FALSE
  /\ hits = [r \in Routes |-> 0]
  /\ db = [balance |-> [a \in AccountIds |->
                          IF a \in DOMAIN Accounts THEN Accounts[a] ELSE 0],
           open |-> DOMAIN Accounts,
           listed |-> DOMAIN Accounts,
           record |-> [s \in Slots |-> "none"],
           shown |-> {}]
  /\ pc = [s \in Slots |-> "idle"]
  /\ \E d \in Deployments :
       /\ env = d.env
       /\ call \in [Slots -> UNION Range(d.calls)]
       /\ \A s \in Slots : call[s] \in d.calls[s]
  /\ status = [s \in Slots |-> 0]
  /\ counted = [s \in Slots |-> <<>>]
  /\ thrown = [s \in Slots |-> NoError]

Start ==
  /\ phase = "boot"
  /\ phase' = Bootstrap(env)
  /\ UNCHANGED <<env, pool, shuttingDown, hits, db, pc, call, status, counted, thrown>>

\* /docs is a middleware that bootstrap sets up outside production; a url
\* without a route is answered 404.  Neither reaches a guard.
Arrive(s) ==
  /\ phase = "listening"
  /\ pc[s] = "idle"
  /\ IF call[s].route = "docs" /\ env.nodeEnv # "production" THEN Answer(s, 200)
     ELSE IF HasRoute(call[s]) THEN Goto(s, "throttle")
     ELSE Answer(s, Catch(Http(404)))
  /\ UNCHANGED <<process, hits, db, call, counted, thrown>>

\* ThrottlerGuard, the first guard, counts the request in its handler's window
\* and refuses it above the limit.
Throttle(s) ==
  LET r == call[s].route
  IN  /\ pc[s] = "throttle"
      /\ IF SkipIf(call[s]) \/ hits[r] < Limit THEN Goto(s, "guard")
                                               ELSE Answer(s, Catch(Http(429)))
      /\ hits' = IF SkipIf(call[s]) \/ hits[r] = Limit THEN hits
                                                      ELSE [hits EXCEPT ![r] = @ + 1]
      /\ UNCHANGED <<process, db, call, counted, thrown>>

\* THROTTLE_TTL_MS is over for a handler.
NextWindow(r) ==
  /\ hits[r] > 0
  /\ hits' = [hits EXCEPT ![r] = 0]
  /\ UNCHANGED <<process, db, pc, call, status, counted, thrown>>

\* JwtAuthGuard.  passport throws a plain Error if it has no such strategy.
Authenticate(s) ==
  /\ pc[s] = "guard"
  /\ IF CanActivate(env, call[s]) = "admit" THEN Goto(s, "handler")
     ELSE IF ~JwtStrategyProvider(env) THEN Answer(s, Catch(Named("Error")))
     ELSE IF JwtStrategy(call[s]) THEN Goto(s, "handler")
     ELSE Answer(s, Catch(Http(401)))
  /\ UNCHANGED <<process, hits, db, call, counted, thrown>>

Posts == {"createAccount", "createTransfer"}

\* record reads the status Nest has set for success before the interceptors
\* ran; the filter sets the status of an error after them.
Count(s) ==
  counted' = [counted EXCEPT ![s] =
                IF Intercept(call[s])
                  THEN Append(@, IF call[s].route \in Posts THEN 201 ELSE 200)
                  ELSE @]

Operational == {"live", "ready", "metrics"}

\* A probe, or the scrape, which needs no table.
ServeOperational(s) ==
  /\ pc[s] = "handler"
  /\ call[s].route \in Operational
  /\ \E reachable \in {Connected(pool), Connected(pool) /\ ~MayFail} :
       LET code == IF call[s].route = "metrics" THEN 200
                   ELSE HealthController(call[s].route, PingCheck(shuttingDown, reachable))
       IN  Answer(s, IF code = 503 THEN Catch(Http(503)) ELSE code)
  /\ Count(s)
  /\ UNCHANGED <<process, hits, db, call, thrown>>

\* The outcomes of a request's handler as the tables are now.
Outcomes(s) ==
  LET fresh == CHOOSE a \in AccountIds : a \notin db.open
  IN  {Handle(db, s, call[s], fresh, raced) : raced \in {FALSE, MayFail}}

CommitFirst(outcome, n) == db' = IF n = 0 THEN db ELSE outcome.commits[n]

\* The handler returns or throws by itself.
Serve(s) ==
  /\ pc[s] = "handler"
  /\ call[s].route \notin Operational
  /\ \E outcome \in Outcomes(s) :
       /\ Connected(pool) \/ (Validation(outcome.error) /\ outcome.commits = <<>>)
       /\ CommitFirst(outcome, Len(outcome.commits))
       /\ thrown' = [thrown EXCEPT ![s] = outcome.error]
       /\ Answer(s, IF outcome.error = NoError THEN outcome.status
                                               ELSE Catch(outcome.error))
  /\ Count(s)
  /\ UNCHANGED <<process, hits, call>>

\* One of its statements fails (statement_timeout, no connection, an ended
\* pool): what is committed stays.
ServeFailing(s) ==
  /\ MayFail \/ ~Connected(pool)
  /\ pc[s] = "handler"
  /\ call[s].route \notin Operational
  /\ \E outcome \in Outcomes(s) :
       /\ ~(Validation(outcome.error) /\ outcome.commits = <<>>)
       /\ \E n \in 0 .. Len(outcome.commits) :
            /\ n > 0 => n < Len(outcome.commits) /\ MayFail
            /\ CommitFirst(outcome, n)
  /\ thrown' = [thrown EXCEPT ![s] = Driver("57014")]
  /\ Answer(s, Catch(Driver("57014")))
  /\ Count(s)
  /\ UNCHANGED <<process, hits, call>>

-----------------------------------------------------------------------------
(* The end of the process *)

\* SIGTERM: DatabaseConnection.onModuleDestroy.
EndPool ==
  /\ phase = "listening" /\ pool = "open"
  /\ pool' = "ended"
  /\ UNCHANGED <<env, phase, shuttingDown, hits, db, pc, call, status, counted, thrown>>

\* ReadinessService.beforeApplicationShutdown, the hook after it.
RaiseFlag ==
  /\ pool = "ended" /\ ~shuttingDown
  /\ shuttingDown' = TRUE
  /\ UNCHANGED <<env, phase, pool, hits, db, pc, call, status, counted, thrown>>

-----------------------------------------------------------------------------

Run(s) == Throttle(s) \/ Authenticate(s) \/ ServeOperational(s) \/ Serve(s) \/ ServeFailing(s)

Next ==
  \/ Start \/ EndPool \/ RaiseFlag
  \/ \E r \in Routes : NextWindow(r)
  \/ \E s \in Slots : Arrive(s) \/ Run(s)

Spec == Init /\ [][Next]_vars

=============================================================================
