------------------------- MODULE SevenServersProofs -------------------------
(***************************************************************************)
(* The theorems of the seven servers.                                      *)
(*                                                                         *)
(* Every variant is an instance of RestServer with handlers, guards and a  *)
(* filter of its own.  The first part shows that each takes the steps of   *)
(* one server (ServerStep) in which only the filter's names, one route and *)
(* the handlers depend on the architecture.  The second part proves what   *)
(* the guards promise, from those steps alone.  The third proves that the  *)
(* handlers of each variant keep one contract (Contracted), and the last   *)
(* that answers, records and statuses are therefore as promised.           *)
(***************************************************************************)
EXTENDS SevenServers, SequenceTheorems, FiniteSetTheorems, TLAPS

-----------------------------------------------------------------------------
(* One server, whatever the architecture *)

\* The variants Step knows.
Architectures ==
  {"n-tier", "hexagonal", "onion", "clean", "ddd", "cqrs-es", "cqrs-es-nestjs"}

\* The filter of the variant, by the statuses of the names it knows.
StatusOf ==
  CASE app = "n-tier" -> <<>>
    [] EventSourced   -> ES!DomainErrorStatusMap
    [] OTHER          -> DomainErrorStatus

CatchOf(e) == CatchBy(StatusOf, e)

Routed(c) == c.route \in CommonRoutes \/ (EventSourced /\ c.route = "getAccountEvents")

\* What the variant's handler makes of a request.
HandleOf(s, fresh, raced) ==
  CASE app = "n-tier"    -> NT!Handle(db, s, call[s], fresh, raced)
    [] app = "hexagonal" -> HX!Handle(db, s, call[s], fresh, raced)
    [] app = "onion"     -> ON!Handle(db, s, call[s], fresh, raced)
    [] app = "clean"     -> CL!Handle(db, s, call[s], fresh, raced)
    [] app = "ddd"       -> DD!Handle(db, s, call[s], fresh, raced)
    [] app = "cqrs-es"   -> ES!Handle(db, s, call[s], fresh, raced)
    [] OTHER             -> NE!Handle(db, s, call[s], fresh, raced)

\* The id a new account gets.
Fresh == CHOOSE a \in AccountIds : a \notin db.open

Goes(s, stage) == pc' = [pc EXCEPT ![s] = stage] /\ status' = status
Answers(s, code) ==
  /\ pc' = [pc EXCEPT ![s] = "answered"]
  /\ status' = [status EXCEPT ![s] = code]
Counts(s) ==
  counted' = [counted EXCEPT ![s] =
                IF Recorded(call[s])
                  THEN Append(@, IF call[s].route \in {"createAccount", "createTransfer"}
                                   THEN 201 ELSE 200)
                  ELSE @]

\* The steps of RestServer, without what its handlers do.
Starts ==
  /\ phase = "boot"
  /\ phase' = Boot(EnvAccepted(env))
  /\ UNCHANGED <<env, pool, shuttingDown, hits, db, pc, call, status, counted, thrown>>

Idles ==
  /\ hits' = hits \/ \E r \in Routes : hits' = [hits EXCEPT ![r] = 0]
  /\ pool' \in {pool, "ended"} /\ shuttingDown' \in {shuttingDown, TRUE}
  /\ UNCHANGED <<env, phase, db, pc, call, status, counted, thrown>>

Arrives(s) ==
  /\ phase = "listening"
  /\ pc[s] = "idle"
  /\ \/ Answers(s, 200)
     \/ Routed(call[s]) /\ Goes(s, "throttle")
     \/ Answers(s, CatchOf(Http(404)))
  /\ UNCHANGED <<env, phase, pool, shuttingDown, hits, db, call, counted, thrown>>

Throttles(s) ==
  /\ pc[s] = "throttle"
  /\ \/ Goes(s, "guard")
     \/ ~SkipsThrottle(call[s]) /\ Answers(s, CatchOf(Http(429)))
  /\ LET r == call[s].route
     IN  hits' = IF SkipsThrottle(call[s]) \/ hits[r] = Limit THEN hits
                                                            ELSE [hits EXCEPT ![r] = @ + 1]
  /\ UNCHANGED <<env, phase, pool, shuttingDown, db, call, counted, thrown>>

Authenticates(s) ==
  /\ pc[s] = "guard"
  /\ \/ Guard(env, call[s]) = "admit" /\ Goes(s, "handler")
     \/ /\ Guard(env, call[s]) # "admit" /\ ~StrategyProvided(env)
        /\ Answers(s, CatchOf(Named("Error")))
     \/ TokenAccepted(call[s]) /\ Goes(s, "handler")
     \/ Guard(env, call[s]) # "admit" /\ Answers(s, CatchOf(Http(401)))
  /\ UNCHANGED <<env, phase, pool, shuttingDown, hits, db, call, counted, thrown>>

ServesOperational(s) ==
  /\ pc[s] = "handler"
  /\ call[s].route \in {"live", "ready", "metrics"}
  /\ \/ Answers(s, 200)
     \/ call[s].route = "ready" /\ Answers(s, CatchOf(Http(503)))
  /\ Counts(s)
  /\ UNCHANGED <<env, phase, pool, shuttingDown, hits, db, call, thrown>>

Serves(s) ==
  /\ pc[s] = "handler"
  /\ call[s].route \notin {"live", "ready", "metrics"}
  /\ \E raced \in {FALSE, MayFail} : \E o :
       /\ o = HandleOf(s, Fresh, raced)
       /\ db' = IF Len(o.commits) = 0 THEN db ELSE o.commits[Len(o.commits)]
       /\ thrown' = [thrown EXCEPT ![s] = o.error]
       /\ Answers(s, IF o.error = NoError THEN o.status ELSE CatchOf(o.error))
  /\ Counts(s)
  /\ UNCHANGED <<env, phase, pool, shuttingDown, hits, call>>

Fails(s) ==
  /\ pc[s] = "handler"
  /\ call[s].route \notin {"live", "ready", "metrics"}
  /\ \E raced \in {FALSE, MayFail} : \E o :
       /\ o = HandleOf(s, Fresh, raced)
       /\ \E n \in 0 .. Len(o.commits) : db' = IF n = 0 THEN db ELSE o.commits[n]
  /\ thrown' = [thrown EXCEPT ![s] = Driver("57014")]
  /\ Answers(s, CatchOf(Driver("57014")))
  /\ Counts(s)
  /\ UNCHANGED <<env, phase, pool, shuttingDown, hits, call>>

RequestStep(s) ==
  Arrives(s) \/ Throttles(s) \/ Authenticates(s) \/ ServesOperational(s) \/ Serves(s) \/ Fails(s)

ServerStep == Starts \/ Idles \/ \E s \in Slots : RequestStep(s)

-----------------------------------------------------------------------------
(* The variants take its steps *)

\* The n-tier server takes the steps of every server.
LEMMA NTierStep == app = "n-tier" /\ NT!S!Next => ServerStep
<1> SUFFICES ASSUME app = "n-tier", NT!S!Next PROVE ServerStep
  OBVIOUS
<1> USE app = "n-tier"
<1>0. /\ \A e : NT!Catch(e) = CatchOf(e)
      /\ NT!S!NoError = NoError
      /\ \A n : NT!S!Named(n) = Named(n)
      /\ \A n : NT!S!Http(n) = Http(n)
      /\ \A n : NT!S!Driver(n) = Driver(n)
  BY DEF NT!Catch, CatchOf, StatusOf, EventSourced,
     NT!CatchBy, CatchBy,
     NT!S!NoError, NoError, NT!S!Error, Error, NT!S!Named, Named, NT!S!Http, Http,
        NT!S!Driver, Driver
<1>1. NT!S!Start => Starts
  BY DEF NT!S!Start, Starts, NT!Bootstrap, NT!ValidateEnv, NT!EnvSchema, NT!Boot, Boot,
     NT!EnvAccepted, EnvAccepted, NT!HasIssuer, HasIssuer, NT!HasAudience, HasAudience
<1>2. (\E r \in NT!S!Routes : NT!S!NextWindow(r)) \/ NT!S!EndPool \/ NT!S!RaiseFlag => Idles
  BY DEF NT!S!NextWindow, NT!S!EndPool, NT!S!RaiseFlag, Idles, NT!S!process,
     NT!S!Routes, Routes
<1>3. ASSUME NEW s \in Slots, NT!S!Arrive(s) PROVE Arrives(s)
  BY <1>3, <1>0 DEF NT!S!Arrive, Arrives, NT!HasRoute, Routed, NT!CommonRoutes, CommonRoutes,
     NT!Routes, Routes, NT!S!Answer, Answers, NT!S!Goto, Goes, NT!S!process, EventSourced
<1>4. ASSUME NEW s \in Slots, NT!S!Throttle(s) PROVE Throttles(s)
  BY <1>4, <1>0 DEF NT!S!Throttle, Throttles, NT!SkipIf, NT!SkipsThrottle, SkipsThrottle,
     NT!SpelledOut, SpelledOut, NT!S!Answer, Answers, NT!S!Goto, Goes, NT!S!process
<1>5. ASSUME NEW s \in Slots, NT!S!Authenticate(s) PROVE Authenticates(s)
  BY <1>5, <1>0 DEF NT!S!Authenticate, Authenticates, NT!CanActivate, NT!Guard, Guard,
     NT!SpelledOut, SpelledOut, NT!IsPublic, IsPublic, NT!IsDevModeBypass, IsDevModeBypass,
     NT!JwtStrategyProvider, NT!StrategyProvided, StrategyProvided, NT!JwtStrategy,
     NT!TokenAccepted, TokenAccepted, NT!HasIssuer, HasIssuer, NT!HasAudience, HasAudience,
     NT!S!Answer, Answers, NT!S!Goto, Goes, NT!S!process
<1>6. \A s \in Slots : NT!S!Count(s) => Counts(s)
  BY DEF NT!S!Count, Counts, NT!Intercept, NT!Recorded, Recorded, NT!S!Posts
<1>7. ASSUME NEW s \in Slots, NT!S!ServeOperational(s) PROVE ServesOperational(s)
<2>1. PICK reachable \in {NT!Connected(pool), NT!Connected(pool) /\ ~MayFail} :
        LET code == IF call[s].route = "metrics" THEN 200
                    ELSE NT!HealthController(call[s].route,
                                             NT!PingCheck(shuttingDown, reachable))
        IN  NT!S!Answer(s, IF code = 503 THEN NT!Catch(NT!S!Http(503)) ELSE code)
  BY <1>7 DEF NT!S!ServeOperational
<2> DEFINE health == NT!HealthController(call[s].route, NT!PingCheck(shuttingDown, reachable))
<2>2. health \in {200, 503} /\ (call[s].route = "live" => health = 200)
  BY DEF NT!HealthController, NT!Health
<2>3. NT!S!Answer(s, IF call[s].route = "metrics" THEN 200 ELSE
            IF health = 503 THEN NT!Catch(NT!S!Http(503)) ELSE health)
  BY <2>1
<2> HIDE DEF health
<2>4. Answers(s, 200) \/ (call[s].route = "ready" /\ Answers(s, CatchOf(Http(503))))
  <3>1. \A code : NT!S!Answer(s, code) = Answers(s, code)
    BY DEF NT!S!Answer, Answers
  <3>2. call[s].route \in {"live", "ready", "metrics"}
    BY <1>7 DEF NT!S!ServeOperational, NT!S!Operational
  <3>3. CASE call[s].route = "metrics" \/ health = 200
    BY <2>3, <3>1, <3>3
  <3>4. CASE call[s].route # "metrics" /\ health # 200
    BY <2>2, <2>3, <3>1, <3>2, <3>4, <1>0
  <3> QED BY <3>3, <3>4
<2> QED
  BY <1>7, <1>6, <2>4 DEF NT!S!ServeOperational, ServesOperational, NT!S!Operational,
     NT!S!process
<1>8. ASSUME NEW s \in Slots, NT!S!Serve(s) PROVE Serves(s)
  BY <1>8, <1>0, <1>6 DEF NT!S!Serve, Serves, NT!S!Operational, NT!S!Outcomes, Fresh, HandleOf,
     NT!S!CommitFirst, NT!S!Answer, Answers, NT!S!process
<1>9. ASSUME NEW s \in Slots, NT!S!ServeFailing(s) PROVE Fails(s)
  BY <1>9, <1>0, <1>6 DEF NT!S!ServeFailing, Fails, NT!S!Operational, NT!S!Outcomes, Fresh,
     HandleOf,
     NT!S!CommitFirst, NT!S!Answer, Answers, NT!S!process
<1> QED
  BY <1>1, <1>2, <1>3, <1>4, <1>5, <1>7, <1>8, <1>9 DEF NT!S!Next, NT!S!Run, ServerStep,
     RequestStep

\* The hexagonal server takes the steps of every server.
LEMMA HexagonalStep == app = "hexagonal" /\ HX!S!Next => ServerStep
<1> SUFFICES ASSUME app = "hexagonal", HX!S!Next PROVE ServerStep
  OBVIOUS
<1> USE app = "hexagonal"
<1>0. /\ \A e : HX!Catch(e) = CatchOf(e)
      /\ HX!S!NoError = NoError
      /\ \A n : HX!S!Named(n) = Named(n)
      /\ \A n : HX!S!Http(n) = Http(n)
      /\ \A n : HX!S!Driver(n) = Driver(n)
  BY DEF HX!Catch, CatchOf, StatusOf, EventSourced, HX!DomainErrorStatusMap,
     HX!DomainErrorStatus,
     DomainErrorStatus, HX!CatchBy, CatchBy, HX!BadRequests, HX!NotFounds, BadRequests, NotFounds,
     HX!S!NoError, NoError, HX!S!Error, Error, HX!S!Named, Named, HX!S!Http, Http,
        HX!S!Driver, Driver
<1>1. HX!S!Start => Starts
  BY DEF HX!S!Start, Starts, HX!Bootstrap, HX!ValidateEnv, HX!EnvSchema, HX!Boot, Boot,
     HX!EnvAccepted, EnvAccepted, HX!HasIssuer, HasIssuer, HX!HasAudience, HasAudience
<1>2. (\E r \in HX!S!Routes : HX!S!NextWindow(r)) \/ HX!S!EndPool \/ HX!S!RaiseFlag => Idles
  BY DEF HX!S!NextWindow, HX!S!EndPool, HX!S!RaiseFlag, Idles, HX!S!process,
     HX!S!Routes, Routes
<1>3. ASSUME NEW s \in Slots, HX!S!Arrive(s) PROVE Arrives(s)
  BY <1>3, <1>0 DEF HX!S!Arrive, Arrives, HX!HasRoute, Routed, HX!CommonRoutes, CommonRoutes,
     HX!Routes, Routes, HX!S!Answer, Answers, HX!S!Goto, Goes, HX!S!process, EventSourced
<1>4. ASSUME NEW s \in Slots, HX!S!Throttle(s) PROVE Throttles(s)
  BY <1>4, <1>0 DEF HX!S!Throttle, Throttles, HX!SkipIf, HX!SkipsThrottle, SkipsThrottle,
     HX!SpelledOut, SpelledOut, HX!S!Answer, Answers, HX!S!Goto, Goes, HX!S!process
<1>5. ASSUME NEW s \in Slots, HX!S!Authenticate(s) PROVE Authenticates(s)
  BY <1>5, <1>0 DEF HX!S!Authenticate, Authenticates, HX!CanActivate, HX!Guard, Guard,
     HX!SpelledOut, SpelledOut, HX!IsPublic, IsPublic, HX!IsDevModeBypass, IsDevModeBypass,
     HX!JwtStrategyProvider, HX!StrategyProvided, StrategyProvided, HX!JwtStrategy,
     HX!TokenAccepted, TokenAccepted, HX!HasIssuer, HasIssuer, HX!HasAudience, HasAudience,
     HX!S!Answer, Answers, HX!S!Goto, Goes, HX!S!process
<1>6. \A s \in Slots : HX!S!Count(s) => Counts(s)
  BY DEF HX!S!Count, Counts, HX!Intercept, HX!Recorded, Recorded, HX!S!Posts
<1>7. ASSUME NEW s \in Slots, HX!S!ServeOperational(s) PROVE ServesOperational(s)
<2>1. PICK reachable \in {HX!Connected(pool), HX!Connected(pool) /\ ~MayFail} :
        LET code == IF call[s].route = "metrics" THEN 200
                    ELSE HX!HealthController(call[s].route,
                                             HX!PingCheck(shuttingDown, reachable))
        IN  HX!S!Answer(s, IF code = 503 THEN HX!Catch(HX!S!Http(503)) ELSE code)
  BY <1>7 DEF HX!S!ServeOperational
<2> DEFINE health == HX!HealthController(call[s].route, HX!PingCheck(shuttingDown, reachable))
<2>2. health \in {200, 503} /\ (call[s].route = "live" => health = 200)
  BY DEF HX!HealthController, HX!Health
<2>3. HX!S!Answer(s, IF call[s].route = "metrics" THEN 200 ELSE
            IF health = 503 THEN HX!Catch(HX!S!Http(503)) ELSE health)
  BY <2>1
<2> HIDE DEF health
<2>4. Answers(s, 200) \/ (call[s].route = "ready" /\ Answers(s, CatchOf(Http(503))))
  <3>1. \A code : HX!S!Answer(s, code) = Answers(s, code)
    BY DEF HX!S!Answer, Answers
  <3>2. call[s].route \in {"live", "ready", "metrics"}
    BY <1>7 DEF HX!S!ServeOperational, HX!S!Operational
  <3>3. CASE call[s].route = "metrics" \/ health = 200
    BY <2>3, <3>1, <3>3
  <3>4. CASE call[s].route # "metrics" /\ health # 200
    BY <2>2, <2>3, <3>1, <3>2, <3>4, <1>0
  <3> QED BY <3>3, <3>4
<2> QED
  BY <1>7, <1>6, <2>4 DEF HX!S!ServeOperational, ServesOperational, HX!S!Operational,
     HX!S!process
<1>8. ASSUME NEW s \in Slots, HX!S!Serve(s) PROVE Serves(s)
  BY <1>8, <1>0, <1>6 DEF HX!S!Serve, Serves, HX!S!Operational, HX!S!Outcomes, Fresh, HandleOf,
     HX!S!CommitFirst, HX!S!Answer, Answers, HX!S!process
<1>9. ASSUME NEW s \in Slots, HX!S!ServeFailing(s) PROVE Fails(s)
  BY <1>9, <1>0, <1>6 DEF HX!S!ServeFailing, Fails, HX!S!Operational, HX!S!Outcomes, Fresh,
     HandleOf,
     HX!S!CommitFirst, HX!S!Answer, Answers, HX!S!process
<1> QED
  BY <1>1, <1>2, <1>3, <1>4, <1>5, <1>7, <1>8, <1>9 DEF HX!S!Next, HX!S!Run, ServerStep,
     RequestStep

\* The onion server takes the steps of every server.
LEMMA OnionStep == app = "onion" /\ ON!S!Next => ServerStep
<1> SUFFICES ASSUME app = "onion", ON!S!Next PROVE ServerStep
  OBVIOUS
<1> USE app = "onion"
<1>0. /\ \A e : ON!Catch(e) = CatchOf(e)
      /\ ON!S!NoError = NoError
      /\ \A n : ON!S!Named(n) = Named(n)
      /\ \A n : ON!S!Http(n) = Http(n)
      /\ \A n : ON!S!Driver(n) = Driver(n)
  BY DEF ON!Catch, CatchOf, StatusOf, EventSourced, ON!DomainErrorStatusMap,
     ON!DomainErrorStatus,
     DomainErrorStatus, ON!CatchBy, CatchBy, ON!BadRequests, ON!NotFounds, BadRequests, NotFounds,
     ON!S!NoError, NoError, ON!S!Error, Error, ON!S!Named, Named, ON!S!Http, Http,
        ON!S!Driver, Driver
<1>1. ON!S!Start => Starts
  BY DEF ON!S!Start, Starts, ON!Bootstrap, ON!ValidateEnv, ON!EnvSchema, ON!Boot, Boot,
     ON!EnvAccepted, EnvAccepted, ON!HasIssuer, HasIssuer, ON!HasAudience, HasAudience
<1>2. (\E r \in ON!S!Routes : ON!S!NextWindow(r)) \/ ON!S!EndPool \/ ON!S!RaiseFlag => Idles
  BY DEF ON!S!NextWindow, ON!S!EndPool, ON!S!RaiseFlag, Idles, ON!S!process,
     ON!S!Routes, Routes
<1>3. ASSUME NEW s \in Slots, ON!S!Arrive(s) PROVE Arrives(s)
  BY <1>3, <1>0 DEF ON!S!Arrive, Arrives, ON!HasRoute, Routed, ON!CommonRoutes, CommonRoutes,
     ON!Routes, Routes, ON!S!Answer, Answers, ON!S!Goto, Goes, ON!S!process, EventSourced
<1>4. ASSUME NEW s \in Slots, ON!S!Throttle(s) PROVE Throttles(s)
  BY <1>4, <1>0 DEF ON!S!Throttle, Throttles, ON!SkipIf, ON!SkipsThrottle, SkipsThrottle,
     ON!SpelledOut, SpelledOut, ON!S!Answer, Answers, ON!S!Goto, Goes, ON!S!process
<1>5. ASSUME NEW s \in Slots, ON!S!Authenticate(s) PROVE Authenticates(s)
  BY <1>5, <1>0 DEF ON!S!Authenticate, Authenticates, ON!CanActivate, ON!Guard, Guard,
     ON!SpelledOut, SpelledOut, ON!IsPublic, IsPublic, ON!IsDevModeBypass, IsDevModeBypass,
     ON!JwtStrategyProvider, ON!StrategyProvided, StrategyProvided, ON!JwtStrategy,
     ON!TokenAccepted, TokenAccepted, ON!HasIssuer, HasIssuer, ON!HasAudience, HasAudience,
     ON!S!Answer, Answers, ON!S!Goto, Goes, ON!S!process
<1>6. \A s \in Slots : ON!S!Count(s) => Counts(s)
  BY DEF ON!S!Count, Counts, ON!Intercept, ON!Recorded, Recorded, ON!S!Posts
<1>7. ASSUME NEW s \in Slots, ON!S!ServeOperational(s) PROVE ServesOperational(s)
<2>1. PICK reachable \in {ON!Connected(pool), ON!Connected(pool) /\ ~MayFail} :
        LET code == IF call[s].route = "metrics" THEN 200
                    ELSE ON!HealthController(call[s].route,
                                             ON!PingCheck(shuttingDown, reachable))
        IN  ON!S!Answer(s, IF code = 503 THEN ON!Catch(ON!S!Http(503)) ELSE code)
  BY <1>7 DEF ON!S!ServeOperational
<2> DEFINE health == ON!HealthController(call[s].route, ON!PingCheck(shuttingDown, reachable))
<2>2. health \in {200, 503} /\ (call[s].route = "live" => health = 200)
  BY DEF ON!HealthController, ON!Health
<2>3. ON!S!Answer(s, IF call[s].route = "metrics" THEN 200 ELSE
            IF health = 503 THEN ON!Catch(ON!S!Http(503)) ELSE health)
  BY <2>1
<2> HIDE DEF health
<2>4. Answers(s, 200) \/ (call[s].route = "ready" /\ Answers(s, CatchOf(Http(503))))
  <3>1. \A code : ON!S!Answer(s, code) = Answers(s, code)
    BY DEF ON!S!Answer, Answers
  <3>2. call[s].route \in {"live", "ready", "metrics"}
    BY <1>7 DEF ON!S!ServeOperational, ON!S!Operational
  <3>3. CASE call[s].route = "metrics" \/ health = 200
    BY <2>3, <3>1, <3>3
  <3>4. CASE call[s].route # "metrics" /\ health # 200
    BY <2>2, <2>3, <3>1, <3>2, <3>4, <1>0
  <3> QED BY <3>3, <3>4
<2> QED
  BY <1>7, <1>6, <2>4 DEF ON!S!ServeOperational, ServesOperational, ON!S!Operational,
     ON!S!process
<1>8. ASSUME NEW s \in Slots, ON!S!Serve(s) PROVE Serves(s)
  BY <1>8, <1>0, <1>6 DEF ON!S!Serve, Serves, ON!S!Operational, ON!S!Outcomes, Fresh, HandleOf,
     ON!S!CommitFirst, ON!S!Answer, Answers, ON!S!process
<1>9. ASSUME NEW s \in Slots, ON!S!ServeFailing(s) PROVE Fails(s)
  BY <1>9, <1>0, <1>6 DEF ON!S!ServeFailing, Fails, ON!S!Operational, ON!S!Outcomes, Fresh,
     HandleOf,
     ON!S!CommitFirst, ON!S!Answer, Answers, ON!S!process
<1> QED
  BY <1>1, <1>2, <1>3, <1>4, <1>5, <1>7, <1>8, <1>9 DEF ON!S!Next, ON!S!Run, ServerStep,
     RequestStep

\* The clean server takes the steps of every server.
LEMMA CleanStep == app = "clean" /\ CL!S!Next => ServerStep
<1> SUFFICES ASSUME app = "clean", CL!S!Next PROVE ServerStep
  OBVIOUS
<1> USE app = "clean"
<1>0. /\ \A e : CL!Catch(e) = CatchOf(e)
      /\ CL!S!NoError = NoError
      /\ \A n : CL!S!Named(n) = Named(n)
      /\ \A n : CL!S!Http(n) = Http(n)
      /\ \A n : CL!S!Driver(n) = Driver(n)
  BY DEF CL!Catch, CatchOf, StatusOf, EventSourced, CL!DomainErrorStatusMap,
     CL!DomainErrorStatus,
     DomainErrorStatus, CL!CatchBy, CatchBy, CL!BadRequests, CL!NotFounds, BadRequests, NotFounds,
     CL!S!NoError, NoError, CL!S!Error, Error, CL!S!Named, Named, CL!S!Http, Http,
        CL!S!Driver, Driver
<1>1. CL!S!Start => Starts
  BY DEF CL!S!Start, Starts, CL!Bootstrap, CL!ValidateEnv, CL!EnvSchema, CL!Boot, Boot,
     CL!EnvAccepted, EnvAccepted, CL!HasIssuer, HasIssuer, CL!HasAudience, HasAudience
<1>2. (\E r \in CL!S!Routes : CL!S!NextWindow(r)) \/ CL!S!EndPool \/ CL!S!RaiseFlag => Idles
  BY DEF CL!S!NextWindow, CL!S!EndPool, CL!S!RaiseFlag, Idles, CL!S!process,
     CL!S!Routes, Routes
<1>3. ASSUME NEW s \in Slots, CL!S!Arrive(s) PROVE Arrives(s)
  BY <1>3, <1>0 DEF CL!S!Arrive, Arrives, CL!HasRoute, Routed, CL!CommonRoutes, CommonRoutes,
     CL!Routes, Routes, CL!S!Answer, Answers, CL!S!Goto, Goes, CL!S!process, EventSourced
<1>4. ASSUME NEW s \in Slots, CL!S!Throttle(s) PROVE Throttles(s)
  BY <1>4, <1>0 DEF CL!S!Throttle, Throttles, CL!SkipIf, CL!SkipsThrottle, SkipsThrottle,
     CL!SpelledOut, SpelledOut, CL!S!Answer, Answers, CL!S!Goto, Goes, CL!S!process
<1>5. ASSUME NEW s \in Slots, CL!S!Authenticate(s) PROVE Authenticates(s)
  BY <1>5, <1>0 DEF CL!S!Authenticate, Authenticates, CL!CanActivate, CL!Guard, Guard,
     CL!SpelledOut, SpelledOut, CL!IsPublic, IsPublic, CL!IsDevModeBypass, IsDevModeBypass,
     CL!JwtStrategyProvider, CL!StrategyProvided, StrategyProvided, CL!JwtStrategy,
     CL!TokenAccepted, TokenAccepted, CL!HasIssuer, HasIssuer, CL!HasAudience, HasAudience,
     CL!S!Answer, Answers, CL!S!Goto, Goes, CL!S!process
<1>6. \A s \in Slots : CL!S!Count(s) => Counts(s)
  BY DEF CL!S!Count, Counts, CL!Intercept, CL!Recorded, Recorded, CL!S!Posts
<1>7. ASSUME NEW s \in Slots, CL!S!ServeOperational(s) PROVE ServesOperational(s)
<2>1. PICK reachable \in {CL!Connected(pool), CL!Connected(pool) /\ ~MayFail} :
        LET code == IF call[s].route = "metrics" THEN 200
                    ELSE CL!HealthController(call[s].route,
                                             CL!PingCheck(shuttingDown, reachable))
        IN  CL!S!Answer(s, IF code = 503 THEN CL!Catch(CL!S!Http(503)) ELSE code)
  BY <1>7 DEF CL!S!ServeOperational
<2> DEFINE health == CL!HealthController(call[s].route, CL!PingCheck(shuttingDown, reachable))
<2>2. health \in {200, 503} /\ (call[s].route = "live" => health = 200)
  BY DEF CL!HealthController, CL!Health
<2>3. CL!S!Answer(s, IF call[s].route = "metrics" THEN 200 ELSE
            IF health = 503 THEN CL!Catch(CL!S!Http(503)) ELSE health)
  BY <2>1
<2> HIDE DEF health
<2>4. Answers(s, 200) \/ (call[s].route = "ready" /\ Answers(s, CatchOf(Http(503))))
  <3>1. \A code : CL!S!Answer(s, code) = Answers(s, code)
    BY DEF CL!S!Answer, Answers
  <3>2. call[s].route \in {"live", "ready", "metrics"}
    BY <1>7 DEF CL!S!ServeOperational, CL!S!Operational
  <3>3. CASE call[s].route = "metrics" \/ health = 200
    BY <2>3, <3>1, <3>3
  <3>4. CASE call[s].route # "metrics" /\ health # 200
    BY <2>2, <2>3, <3>1, <3>2, <3>4, <1>0
  <3> QED BY <3>3, <3>4
<2> QED
  BY <1>7, <1>6, <2>4 DEF CL!S!ServeOperational, ServesOperational, CL!S!Operational,
     CL!S!process
<1>8. ASSUME NEW s \in Slots, CL!S!Serve(s) PROVE Serves(s)
  BY <1>8, <1>0, <1>6 DEF CL!S!Serve, Serves, CL!S!Operational, CL!S!Outcomes, Fresh, HandleOf,
     CL!S!CommitFirst, CL!S!Answer, Answers, CL!S!process
<1>9. ASSUME NEW s \in Slots, CL!S!ServeFailing(s) PROVE Fails(s)
  BY <1>9, <1>0, <1>6 DEF CL!S!ServeFailing, Fails, CL!S!Operational, CL!S!Outcomes, Fresh,
     HandleOf,
     CL!S!CommitFirst, CL!S!Answer, Answers, CL!S!process
<1> QED
  BY <1>1, <1>2, <1>3, <1>4, <1>5, <1>7, <1>8, <1>9 DEF CL!S!Next, CL!S!Run, ServerStep,
     RequestStep

\* The ddd server takes the steps of every server.
LEMMA DddStep == app = "ddd" /\ DD!S!Next => ServerStep
<1> SUFFICES ASSUME app = "ddd", DD!S!Next PROVE ServerStep
  OBVIOUS
<1> USE app = "ddd"
<1>0. /\ \A e : DD!Catch(e) = CatchOf(e)
      /\ DD!S!NoError = NoError
      /\ \A n : DD!S!Named(n) = Named(n)
      /\ \A n : DD!S!Http(n) = Http(n)
      /\ \A n : DD!S!Driver(n) = Driver(n)
  BY DEF DD!Catch, CatchOf, StatusOf, EventSourced, DD!DomainErrorStatusMap,
     DD!DomainErrorStatus,
     DomainErrorStatus, DD!CatchBy, CatchBy, DD!BadRequests, DD!NotFounds, BadRequests, NotFounds,
     DD!S!NoError, NoError, DD!S!Error, Error, DD!S!Named, Named, DD!S!Http, Http,
        DD!S!Driver, Driver
<1>1. DD!S!Start => Starts
  BY DEF DD!S!Start, Starts, DD!Bootstrap, DD!ValidateEnv, DD!EnvSchema, DD!Boot, Boot,
     DD!EnvAccepted, EnvAccepted, DD!HasIssuer, HasIssuer, DD!HasAudience, HasAudience
<1>2. (\E r \in DD!S!Routes : DD!S!NextWindow(r)) \/ DD!S!EndPool \/ DD!S!RaiseFlag => Idles
  BY DEF DD!S!NextWindow, DD!S!EndPool, DD!S!RaiseFlag, Idles, DD!S!process,
     DD!S!Routes, Routes
<1>3. ASSUME NEW s \in Slots, DD!S!Arrive(s) PROVE Arrives(s)
  BY <1>3, <1>0 DEF DD!S!Arrive, Arrives, DD!HasRoute, Routed, DD!CommonRoutes, CommonRoutes,
     DD!Routes, Routes, DD!S!Answer, Answers, DD!S!Goto, Goes, DD!S!process, EventSourced
<1>4. ASSUME NEW s \in Slots, DD!S!Throttle(s) PROVE Throttles(s)
  BY <1>4, <1>0 DEF DD!S!Throttle, Throttles, DD!SkipIf, DD!SkipsThrottle, SkipsThrottle,
     DD!SpelledOut, SpelledOut, DD!S!Answer, Answers, DD!S!Goto, Goes, DD!S!process
<1>5. ASSUME NEW s \in Slots, DD!S!Authenticate(s) PROVE Authenticates(s)
  BY <1>5, <1>0 DEF DD!S!Authenticate, Authenticates, DD!CanActivate, DD!Guard, Guard,
     DD!SpelledOut, SpelledOut, DD!IsPublic, IsPublic, DD!IsDevModeBypass, IsDevModeBypass,
     DD!JwtStrategyProvider, DD!StrategyProvided, StrategyProvided, DD!JwtStrategy,
     DD!TokenAccepted, TokenAccepted, DD!HasIssuer, HasIssuer, DD!HasAudience, HasAudience,
     DD!S!Answer, Answers, DD!S!Goto, Goes, DD!S!process
<1>6. \A s \in Slots : DD!S!Count(s) => Counts(s)
  BY DEF DD!S!Count, Counts, DD!Intercept, DD!Recorded, Recorded, DD!S!Posts
<1>7. ASSUME NEW s \in Slots, DD!S!ServeOperational(s) PROVE ServesOperational(s)
<2>1. PICK reachable \in {DD!Connected(pool), DD!Connected(pool) /\ ~MayFail} :
        LET code == IF call[s].route = "metrics" THEN 200
                    ELSE DD!HealthController(call[s].route,
                                             DD!PingCheck(shuttingDown, reachable))
        IN  DD!S!Answer(s, IF code = 503 THEN DD!Catch(DD!S!Http(503)) ELSE code)
  BY <1>7 DEF DD!S!ServeOperational
<2> DEFINE health == DD!HealthController(call[s].route, DD!PingCheck(shuttingDown, reachable))
<2>2. health \in {200, 503} /\ (call[s].route = "live" => health = 200)
  BY DEF DD!HealthController, DD!Health
<2>3. DD!S!Answer(s, IF call[s].route = "metrics" THEN 200 ELSE
            IF health = 503 THEN DD!Catch(DD!S!Http(503)) ELSE health)
  BY <2>1
<2> HIDE DEF health
<2>4. Answers(s, 200) \/ (call[s].route = "ready" /\ Answers(s, CatchOf(Http(503))))
  <3>1. \A code : DD!S!Answer(s, code) = Answers(s, code)
    BY DEF DD!S!Answer, Answers
  <3>2. call[s].route \in {"live", "ready", "metrics"}
    BY <1>7 DEF DD!S!ServeOperational, DD!S!Operational
  <3>3. CASE call[s].route = "metrics" \/ health = 200
    BY <2>3, <3>1, <3>3
  <3>4. CASE call[s].route # "metrics" /\ health # 200
    BY <2>2, <2>3, <3>1, <3>2, <3>4, <1>0
  <3> QED BY <3>3, <3>4
<2> QED
  BY <1>7, <1>6, <2>4 DEF DD!S!ServeOperational, ServesOperational, DD!S!Operational,
     DD!S!process
<1>8. ASSUME NEW s \in Slots, DD!S!Serve(s) PROVE Serves(s)
  BY <1>8, <1>0, <1>6 DEF DD!S!Serve, Serves, DD!S!Operational, DD!S!Outcomes, Fresh, HandleOf,
     DD!S!CommitFirst, DD!S!Answer, Answers, DD!S!process
<1>9. ASSUME NEW s \in Slots, DD!S!ServeFailing(s) PROVE Fails(s)
  BY <1>9, <1>0, <1>6 DEF DD!S!ServeFailing, Fails, DD!S!Operational, DD!S!Outcomes, Fresh,
     HandleOf,
     DD!S!CommitFirst, DD!S!Answer, Answers, DD!S!process
<1> QED
  BY <1>1, <1>2, <1>3, <1>4, <1>5, <1>7, <1>8, <1>9 DEF DD!S!Next, DD!S!Run, ServerStep,
     RequestStep

\* The cqrs-es server takes the steps of every server.
LEMMA CqrsEsStep == app = "cqrs-es" /\ ES!S!Next => ServerStep
<1> SUFFICES ASSUME app = "cqrs-es", ES!S!Next PROVE ServerStep
  OBVIOUS
<1> USE app = "cqrs-es"
<1>0. /\ \A e : ES!Catch(e) = CatchOf(e)
      /\ ES!S!NoError = NoError
      /\ \A n : ES!S!Named(n) = Named(n)
      /\ \A n : ES!S!Http(n) = Http(n)
      /\ \A n : ES!S!Driver(n) = Driver(n)
  BY DEF ES!Catch, CatchOf, StatusOf, EventSourced, ES!DomainErrorStatusMap,
     ES!DomainErrorStatus,
     DomainErrorStatus, ES!CatchBy, CatchBy, ES!BadRequests, ES!NotFounds, BadRequests, NotFounds,
     ES!S!NoError, NoError, ES!S!Error, Error, ES!S!Named, Named, ES!S!Http, Http,
        ES!S!Driver, Driver
<1>1. ES!S!Start => Starts
  BY DEF ES!S!Start, Starts, ES!Bootstrap, ES!ValidateEnv, ES!EnvSchema, ES!Boot, Boot,
     ES!EnvAccepted, EnvAccepted, ES!HasIssuer, HasIssuer, ES!HasAudience, HasAudience
<1>2. (\E r \in ES!S!Routes : ES!S!NextWindow(r)) \/ ES!S!EndPool \/ ES!S!RaiseFlag => Idles
  BY DEF ES!S!NextWindow, ES!S!EndPool, ES!S!RaiseFlag, Idles, ES!S!process,
     ES!S!Routes, Routes
<1>3. ASSUME NEW s \in Slots, ES!S!Arrive(s) PROVE Arrives(s)
  BY <1>3, <1>0 DEF ES!S!Arrive, Arrives, ES!HasRoute, Routed, ES!CommonRoutes, CommonRoutes,
     ES!Routes, Routes, ES!S!Answer, Answers, ES!S!Goto, Goes, ES!S!process, EventSourced
<1>4. ASSUME NEW s \in Slots, ES!S!Throttle(s) PROVE Throttles(s)
  BY <1>4, <1>0 DEF ES!S!Throttle, Throttles, ES!SkipIf, ES!SkipsThrottle, SkipsThrottle,
     ES!SpelledOut, SpelledOut, ES!S!Answer, Answers, ES!S!Goto, Goes, ES!S!process
<1>5. ASSUME NEW s \in Slots, ES!S!Authenticate(s) PROVE Authenticates(s)
  BY <1>5, <1>0 DEF ES!S!Authenticate, Authenticates, ES!CanActivate, ES!Guard, Guard,
     ES!SpelledOut, SpelledOut, ES!IsPublic, IsPublic, ES!IsDevModeBypass, IsDevModeBypass,
     ES!JwtStrategyProvider, ES!StrategyProvided, StrategyProvided, ES!JwtStrategy,
     ES!TokenAccepted, TokenAccepted, ES!HasIssuer, HasIssuer, ES!HasAudience, HasAudience,
     ES!S!Answer, Answers, ES!S!Goto, Goes, ES!S!process
<1>6. \A s \in Slots : ES!S!Count(s) => Counts(s)
  BY DEF ES!S!Count, Counts, ES!Intercept, ES!Recorded, Recorded, ES!S!Posts
<1>7. ASSUME NEW s \in Slots, ES!S!ServeOperational(s) PROVE ServesOperational(s)
<2>1. PICK reachable \in {ES!Connected(pool), ES!Connected(pool) /\ ~MayFail} :
        LET code == IF call[s].route = "metrics" THEN 200
                    ELSE ES!HealthController(call[s].route,
                                             ES!PingCheck(shuttingDown, reachable))
        IN  ES!S!Answer(s, IF code = 503 THEN ES!Catch(ES!S!Http(503)) ELSE code)
  BY <1>7 DEF ES!S!ServeOperational
<2> DEFINE health == ES!HealthController(call[s].route, ES!PingCheck(shuttingDown, reachable))
<2>2. health \in {200, 503} /\ (call[s].route = "live" => health = 200)
  BY DEF ES!HealthController, ES!Health
<2>3. ES!S!Answer(s, IF call[s].route = "metrics" THEN 200 ELSE
            IF health = 503 THEN ES!Catch(ES!S!Http(503)) ELSE health)
  BY <2>1
<2> HIDE DEF health
<2>4. Answers(s, 200) \/ (call[s].route = "ready" /\ Answers(s, CatchOf(Http(503))))
  <3>1. \A code : ES!S!Answer(s, code) = Answers(s, code)
    BY DEF ES!S!Answer, Answers
  <3>2. call[s].route \in {"live", "ready", "metrics"}
    BY <1>7 DEF ES!S!ServeOperational, ES!S!Operational
  <3>3. CASE call[s].route = "metrics" \/ health = 200
    BY <2>3, <3>1, <3>3
  <3>4. CASE call[s].route # "metrics" /\ health # 200
    BY <2>2, <2>3, <3>1, <3>2, <3>4, <1>0
  <3> QED BY <3>3, <3>4
<2> QED
  BY <1>7, <1>6, <2>4 DEF ES!S!ServeOperational, ServesOperational, ES!S!Operational,
     ES!S!process
<1>8. ASSUME NEW s \in Slots, ES!S!Serve(s) PROVE Serves(s)
  BY <1>8, <1>0, <1>6 DEF ES!S!Serve, Serves, ES!S!Operational, ES!S!Outcomes, Fresh, HandleOf,
     ES!S!CommitFirst, ES!S!Answer, Answers, ES!S!process
<1>9. ASSUME NEW s \in Slots, ES!S!ServeFailing(s) PROVE Fails(s)
  BY <1>9, <1>0, <1>6 DEF ES!S!ServeFailing, Fails, ES!S!Operational, ES!S!Outcomes, Fresh,
     HandleOf,
     ES!S!CommitFirst, ES!S!Answer, Answers, ES!S!process
<1> QED
  BY <1>1, <1>2, <1>3, <1>4, <1>5, <1>7, <1>8, <1>9 DEF ES!S!Next, ES!S!Run, ServerStep,
     RequestStep

\* The cqrs-es-nestjs server takes the steps of every server.
LEMMA CqrsEsNestStep == app = "cqrs-es-nestjs" /\ NE!S!Next => ServerStep
<1> SUFFICES ASSUME app = "cqrs-es-nestjs", NE!S!Next PROVE ServerStep
  OBVIOUS
<1> USE app = "cqrs-es-nestjs"
<1>0. /\ \A e : NE!Catch(e) = CatchOf(e)
      /\ NE!S!NoError = NoError
      /\ \A n : NE!S!Named(n) = Named(n)
      /\ \A n : NE!S!Http(n) = Http(n)
      /\ \A n : NE!S!Driver(n) = Driver(n)
  BY DEF NE!Catch, CatchOf, StatusOf, EventSourced, ES!DomainErrorStatusMap,
     ES!DomainErrorStatus, ES!BadRequests, ES!NotFounds, NE!DomainErrorStatusMap,
     NE!DomainErrorStatus,
     DomainErrorStatus, NE!CatchBy, CatchBy, NE!BadRequests, NE!NotFounds, BadRequests, NotFounds,
     NE!S!NoError, NoError, NE!S!Error, Error, NE!S!Named, Named, NE!S!Http, Http,
        NE!S!Driver, Driver
<1>1. NE!S!Start => Starts
  BY DEF NE!S!Start, Starts, NE!Bootstrap, NE!ValidateEnv, NE!EnvSchema, NE!Boot, Boot,
     NE!EnvAccepted, EnvAccepted, NE!HasIssuer, HasIssuer, NE!HasAudience, HasAudience
<1>2. (\E r \in NE!S!Routes : NE!S!NextWindow(r)) \/ NE!S!EndPool \/ NE!S!RaiseFlag => Idles
  BY DEF NE!S!NextWindow, NE!S!EndPool, NE!S!RaiseFlag, Idles, NE!S!process,
     NE!S!Routes, Routes
<1>3. ASSUME NEW s \in Slots, NE!S!Arrive(s) PROVE Arrives(s)
  BY <1>3, <1>0 DEF NE!S!Arrive, Arrives, NE!HasRoute, Routed, NE!CommonRoutes, CommonRoutes,
     NE!Routes, Routes, NE!S!Answer, Answers, NE!S!Goto, Goes, NE!S!process, EventSourced
<1>4. ASSUME NEW s \in Slots, NE!S!Throttle(s) PROVE Throttles(s)
  BY <1>4, <1>0 DEF NE!S!Throttle, Throttles, NE!SkipIf, NE!SkipsThrottle, SkipsThrottle,
     NE!SpelledOut, SpelledOut, NE!S!Answer, Answers, NE!S!Goto, Goes, NE!S!process
<1>5. ASSUME NEW s \in Slots, NE!S!Authenticate(s) PROVE Authenticates(s)
  BY <1>5, <1>0 DEF NE!S!Authenticate, Authenticates, NE!CanActivate, NE!Guard, Guard,
     NE!SpelledOut, SpelledOut, NE!IsPublic, IsPublic, NE!IsDevModeBypass, IsDevModeBypass,
     NE!JwtStrategyProvider, NE!StrategyProvided, StrategyProvided, NE!JwtStrategy,
     NE!TokenAccepted, TokenAccepted, NE!HasIssuer, HasIssuer, NE!HasAudience, HasAudience,
     NE!S!Answer, Answers, NE!S!Goto, Goes, NE!S!process
<1>6. \A s \in Slots : NE!S!Count(s) => Counts(s)
  BY DEF NE!S!Count, Counts, NE!Intercept, NE!Recorded, Recorded, NE!S!Posts
<1>7. ASSUME NEW s \in Slots, NE!S!ServeOperational(s) PROVE ServesOperational(s)
<2>1. PICK reachable \in {NE!Connected(pool), NE!Connected(pool) /\ ~MayFail} :
        LET code == IF call[s].route = "metrics" THEN 200
                    ELSE NE!HealthController(call[s].route,
                                             NE!PingCheck(shuttingDown, reachable))
        IN  NE!S!Answer(s, IF code = 503 THEN NE!Catch(NE!S!Http(503)) ELSE code)
  BY <1>7 DEF NE!S!ServeOperational
<2> DEFINE health == NE!HealthController(call[s].route, NE!PingCheck(shuttingDown, reachable))
<2>2. health \in {200, 503} /\ (call[s].route = "live" => health = 200)
  BY DEF NE!HealthController, NE!Health
<2>3. NE!S!Answer(s, IF call[s].route = "metrics" THEN 200 ELSE
            IF health = 503 THEN NE!Catch(NE!S!Http(503)) ELSE health)
  BY <2>1
<2> HIDE DEF health
<2>4. Answers(s, 200) \/ (call[s].route = "ready" /\ Answers(s, CatchOf(Http(503))))
  <3>1. \A code : NE!S!Answer(s, code) = Answers(s, code)
    BY DEF NE!S!Answer, Answers
  <3>2. call[s].route \in {"live", "ready", "metrics"}
    BY <1>7 DEF NE!S!ServeOperational, NE!S!Operational
  <3>3. CASE call[s].route = "metrics" \/ health = 200
    BY <2>3, <3>1, <3>3
  <3>4. CASE call[s].route # "metrics" /\ health # 200
    BY <2>2, <2>3, <3>1, <3>2, <3>4, <1>0
  <3> QED BY <3>3, <3>4
<2> QED
  BY <1>7, <1>6, <2>4 DEF NE!S!ServeOperational, ServesOperational, NE!S!Operational,
     NE!S!process
<1>8. ASSUME NEW s \in Slots, NE!S!Serve(s) PROVE Serves(s)
  BY <1>8, <1>0, <1>6 DEF NE!S!Serve, Serves, NE!S!Operational, NE!S!Outcomes, Fresh, HandleOf,
     NE!S!CommitFirst, NE!S!Answer, Answers, NE!S!process
<1>9. ASSUME NEW s \in Slots, NE!S!ServeFailing(s) PROVE Fails(s)
  BY <1>9, <1>0, <1>6 DEF NE!S!ServeFailing, Fails, NE!S!Operational, NE!S!Outcomes, Fresh,
     HandleOf,
     NE!S!CommitFirst, NE!S!Answer, Answers, NE!S!process
<1> QED
  BY <1>1, <1>2, <1>3, <1>4, <1>5, <1>7, <1>8, <1>9 DEF NE!S!Next, NE!S!Run, ServerStep,
     RequestStep

\* So does the server of a behaviour, whichever it picked.
LEMMA Stepping == Step => ServerStep /\ app \in Architectures
BY NTierStep, HexagonalStep, OnionStep, CleanStep, DddStep, CqrsEsStep, CqrsEsNestStep
   DEF Step, Architectures

-----------------------------------------------------------------------------
(* The guards *)

\* An exception of Nest is answered with its status.
LEMMA HttpIsItsStatus == \A n : CatchOf(Http(n)) = n
BY DEF Http, Error, CatchOf, CatchBy

\* An error no filter knows is answered 500.
LEMMA PlainErrorIsServerError == CatchOf(Named("Error")) = 500
BY DEF Named, Error, CatchOf, CatchBy, StatusOf, DomainErrorStatus, EventSourced,
   ES!DomainErrorStatusMap, ES!DomainErrorStatus, BadRequests, NotFounds,
   ES!BadRequests, ES!NotFounds

LEMMA DriverIsServerError == \A n : CatchOf(Driver(n)) = 500
BY DEF Driver, Error, CatchOf, CatchBy, StatusOf, DomainErrorStatus, EventSourced,
   ES!DomainErrorStatusMap, ES!DomainErrorStatus, BadRequests, NotFounds,
   ES!BadRequests, ES!NotFounds

\* A request that has arrived is at a listening server that accepted its
\* environment, and one that has passed the router has a route.
ProgressInv ==
  /\ pc \in [Slots -> {"idle", "throttle", "guard", "handler", "answered"}]
  /\ status = [s \in Slots |-> status[s]]
  /\ phase \in {"boot", "listening", "exited"}
  /\ phase = "listening" => EnvAccepted(env)
  /\ \A s \in Slots : pc[s] # "idle" => phase = "listening"
  /\ \A s \in Slots : pc[s] \in {"throttle", "guard", "handler"} => Routed(call[s])

\* The strengthening of the properties of the guards.
GateInv == ProgressInv /\ VerifiedInProduction /\ ProbesAreNotRefused

\* A request that is taken on is answered or gets to the next stage.
LEMMA TakenOn ==
  ASSUME NEW s \in Slots, RequestStep(s)
  PROVE  /\ \/ \E code : Answers(s, code)
            \/ \E stage \in {"throttle", "guard", "handler"} :
                 Goes(s, stage) /\ (Routed(call[s]) \/ pc[s] \in {"throttle", "guard"})
         /\ UNCHANGED <<env, phase, call>>
         /\ phase = "listening" \/ pc[s] # "idle"
<1>1. CASE Arrives(s)
  BY <1>1 DEF Arrives
<1>2. CASE Throttles(s)
  BY <1>2 DEF Throttles
<1>3. CASE Authenticates(s)
  BY <1>3 DEF Authenticates
<1>4. CASE ServesOperational(s)
  BY <1>4 DEF ServesOperational
<1>5. CASE Serves(s)
  <2>1. \E code : Answers(s, code)
    BY <1>5 DEF Serves
  <2> QED BY <1>5, <2>1 DEF Serves
<1>6. CASE Fails(s)
  <2>1. \E code : Answers(s, code)
    BY <1>6 DEF Fails
  <2> QED BY <1>6, <2>1 DEF Fails
<1> QED BY <1>1, <1>2, <1>3, <1>4, <1>5, <1>6 DEF RequestStep

\* It leaves the others where they are.
LEMMA OneRequest ==
  ASSUME ProgressInv, NEW s \in Slots, RequestStep(s)
  PROVE  /\ \A t \in Slots : t # s => pc'[t] = pc[t] /\ status'[t] = status[t]
         /\ pc' \in [Slots -> {"idle", "throttle", "guard", "handler", "answered"}]
         /\ status' = [t \in Slots |-> status'[t]]
         /\ pc'[s] = "answered" \/ Routed(call[s])
<1>1. CASE \E code : Answers(s, code)
  BY <1>1 DEF Answers, ProgressInv
<1>2. CASE \E stage \in {"throttle", "guard", "handler"} :
             Goes(s, stage) /\ (Routed(call[s]) \/ pc[s] \in {"throttle", "guard"})
  BY <1>2 DEF Goes, ProgressInv
<1> QED BY <1>1, <1>2, TakenOn

\* The guard, the schema and the provider of the strategy agree.
LEMMA SettingsAgree ==
  ASSUME EnvAccepted(env), NEW c, Guard(env, c) # "admit"
  PROVE  StrategyProvided(env)
BY DEF EnvAccepted, Guard, IsDevModeBypass, StrategyProvided

\* Who is admitted without a token in production.
LEMMA AdmittedUnverified ==
  ASSUME env.nodeEnv = "production", NEW c, Routed(c), Guard(env, c) = "admit"
  PROVE  OpenToAll(c)
BY DEF Guard, IsDevModeBypass, SpelledOut, IsPublic, OpenToAll, Routed, CommonRoutes

LEMMA GateInitially == Init => GateInv
BY DEF Init, NT!S!Init, GateInv, ProgressInv, VerifiedInProduction, ProbesAreNotRefused

LEMMA ProgressKept == ProgressInv /\ [Next]_vars => ProgressInv'
<1> SUFFICES ASSUME ProgressInv, [Next]_vars PROVE ProgressInv'
  OBVIOUS
<1> USE DEF ProgressInv
<1>1. CASE UNCHANGED vars
  BY <1>1 DEF vars, Routed, EventSourced
<1>2. CASE Step /\ UNCHANGED app
  <2>0. \A c : Routed(c)' <=> Routed(c)
    BY <1>2 DEF Routed, EventSourced
  <2>1. CASE Starts
    <3>1. phase' = "listening" => EnvAccepted(env)'
      BY <2>1 DEF Starts, Boot, EnvAccepted, HasIssuer, HasAudience
    <3>2. \A s \in Slots : pc[s] = "idle"
      BY <2>1 DEF Starts
    <3> QED BY <1>2, <2>1, <3>1, <3>2 DEF Starts, Boot
  <2>2. CASE Idles
    BY <1>2, <2>2, <2>0 DEF Idles, EnvAccepted, HasIssuer, HasAudience
  <2>3. CASE \E s \in Slots : RequestStep(s)
    <3> PICK s \in Slots : RequestStep(s)
      BY <2>3
    <3>1. env' = env /\ phase' = phase /\ call' = call /\ phase = "listening"
      BY TakenOn
    <3>2. /\ pc' \in [Slots -> {"idle", "throttle", "guard", "handler", "answered"}]
          /\ status' = [t \in Slots |-> status'[t]]
      BY OneRequest
    <3>3. pc'[s] = "answered" \/ Routed(call[s])
      BY OneRequest
    <3>4. \A t \in Slots : t # s => pc'[t] = pc[t]
      BY OneRequest
    <3>5. EnvAccepted(env)' <=> EnvAccepted(env)
      BY <3>1 DEF EnvAccepted, HasIssuer, HasAudience
    <3>6. \A t \in Slots : pc'[t] \in {"throttle", "guard", "handler"} => Routed(call[t])
      BY <3>3, <3>4
    <3> QED BY <2>0, <3>1, <3>2, <3>5, <3>6
  <2> QED BY <1>2, <2>1, <2>2, <2>3, Stepping DEF ServerStep
<1> QED BY <1>1, <1>2 DEF Next

LEMMA GateKept == GateInv /\ [Next]_vars => GateInv'
<1> SUFFICES ASSUME GateInv, [Next]_vars PROVE GateInv'
  OBVIOUS
<1>0. ProgressInv /\ ProgressInv'
  BY ProgressKept DEF GateInv
<1>1. CASE UNCHANGED vars
  BY <1>0, <1>1 DEF vars, GateInv, VerifiedInProduction, ProbesAreNotRefused
<1>2. CASE Step /\ UNCHANGED app
  <2>1. CASE Starts \/ Idles
    <3>1. UNCHANGED <<env, call, pc, status>>
      BY <2>1 DEF Starts, Idles
    <3> QED BY <1>0, <3>1 DEF GateInv, VerifiedInProduction, ProbesAreNotRefused
  <2>2. CASE \E s \in Slots : RequestStep(s)
    <3> PICK s \in Slots : RequestStep(s)
      BY <2>2
    <3>1. env' = env /\ call' = call
      BY TakenOn
    <3>2. \A t \in Slots : t # s => pc'[t] = pc[t] /\ status'[t] = status[t]
      BY <1>0, OneRequest
    <3>3. pc'[s] = "handler" /\ env.nodeEnv = "production" =>
            OpenToAll(call[s]) \/ call[s].token = "valid"
      BY <1>0, AdmittedUnverified DEF RequestStep, Arrives, Throttles, Authenticates,
         ServesOperational,
         Serves, Fails, Goes, Answers, ProgressInv, TokenAccepted
    <3>4. OpenToAll(call[s]) => status'[s] \notin {401, 429}
      <4>1. OpenToAll(call[s]) => SkipsThrottle(call[s]) /\ Guard(env, call[s]) = "admit"
        BY DEF OpenToAll, SkipsThrottle, SpelledOut, Guard, IsPublic
      <4>2. OpenToAll(call[s]) => call[s].route \in {"live", "ready", "metrics"}
        BY DEF OpenToAll
      <4>3. OpenToAll(call[s]) => status[s] \notin {401, 429}
        BY DEF GateInv, ProbesAreNotRefused
      <4>4. \A code : Answers(s, code) => status'[s] = code
        BY <1>0 DEF Answers, ProgressInv
      <4>5. \A stage : Goes(s, stage) => status'[s] = status[s]
        BY DEF Goes
      <4>6. CASE Arrives(s)
        BY <4>3, <4>4, <4>5, <4>6, HttpIsItsStatus DEF Arrives
      <4>7. CASE Throttles(s)
        BY <4>1, <4>3, <4>5, <4>7 DEF Throttles
      <4>8. CASE Authenticates(s)
        BY <4>1, <4>3, <4>5, <4>8 DEF Authenticates
      <4>9. CASE ServesOperational(s)
        BY <4>4, <4>9, HttpIsItsStatus DEF ServesOperational
      <4>10. CASE Serves(s) \/ Fails(s)
        BY <4>2, <4>10 DEF Serves, Fails
      <4> QED BY <4>6, <4>7, <4>8, <4>9, <4>10 DEF RequestStep
    <3>5. VerifiedInProduction'
      BY <3>1, <3>2, <3>3 DEF GateInv, VerifiedInProduction
    <3>6. ProbesAreNotRefused'
      BY <3>1, <3>2, <3>4 DEF GateInv, ProbesAreNotRefused
    <3> QED BY <1>0, <3>5, <3>6 DEF GateInv
  <2> QED BY <1>2, <2>1, <2>2, Stepping DEF ServerStep
<1> QED BY <1>1, <1>2 DEF Next

\* The guards' invariant is one.
THEOREM Gated == Spec => []GateInv
BY GateInitially, GateKept, PTL DEF Spec

\* VerifiedInProduction: no handler runs in production for a request without a
\* verified token, the probes and the scrape excepted (JwtAuthGuard, envSchema).
THEOREM OnlyVerifiedAreServed == Spec => []VerifiedInProduction
BY Gated, PTL DEF GateInv

\* ProbesAreNotRefused: no probe is told 401 or 429 (@Public, @SkipThrottle,
\* skipIf, isUnauthenticatedEndpoint).
THEOREM ProbesAlwaysServed == Spec => []ProbesAreNotRefused
BY Gated, PTL DEF GateInv

\* ChallengeHasItsStrategy: a request refused at the guard is told 401, for the
\* guard never asks for a strategy that is not registered.
THEOREM ChallengesAreTold401 == Spec => ChallengeHasItsStrategy
<1>1. ASSUME GateInv, Next, NEW s \in Slots, pc[s] = "guard", pc'[s] = "answered"
      PROVE  status'[s] = 401
  <2>1. ProgressInv
    BY <1>1 DEF GateInv
  <2>2. EnvAccepted(env)
    BY <1>1, <2>1 DEF ProgressInv
  <2>3. RequestStep(s)
    BY <1>1, <2>1, OneRequest, Stepping DEF ServerStep, Next, Starts, Idles
  <2> QED
    BY <1>1, <2>1, <2>2, <2>3, SettingsAgree, HttpIsItsStatus DEF RequestStep, Arrives,
       Throttles,
       Authenticates, ServesOperational, Serves, Fails, Goes, Answers, ProgressInv
<1>2. GateInv /\ [Next]_vars =>
        [\A s \in Slots : pc[s] = "guard" /\ pc'[s] = "answered" => status'[s] = 401]_vars
  BY <1>1
<1> QED BY <1>2, Gated, PTL DEF Spec, ChallengeHasItsStrategy

-----------------------------------------------------------------------------
(* The contract of the handlers *)

\* No check fails.
LEMMA CheckedHolds ==
  ASSUME NEW checks, NEW rest, \A i \in DOMAIN checks : checks[i] = NoError
  PROVE  Checked(checks, rest) = rest
BY DEF Checked

\* The first check that fails.
LEMMA CheckedFails ==
  ASSUME NEW checks, NEW rest, DOMAIN checks \subseteq Int, NEW i \in DOMAIN checks,
         checks[i] # NoError,
         \A j \in DOMAIN checks : j < i => checks[j] = NoError
  PROVE  Checked(checks, rest) = Throw(checks[i])
<1> DEFINE failing == {j \in DOMAIN checks : checks[j] # NoError}
<1>1. i \in failing /\ \A j \in failing : i <= j
  OBVIOUS
<1>2. (CHOOSE k \in failing : \A j \in failing : k <= j) = i
  BY <1>1
<1>3. failing # {}
  BY <1>1
<1> QED BY <1>2, <1>3 DEF Checked

\* The checks of a handler, one after the other.
LEMMA Checked1 ==
  ASSUME NEW e1, NEW rest
  PROVE  Checked(<<e1>>, rest) =
           IF e1 # NoError THEN Throw(e1) ELSE rest
<1> DEFINE checks == <<e1>>
<1>1. /\ DOMAIN checks = 1 .. 1
      /\ checks[1] = e1
  OBVIOUS
<1> HIDE DEF checks
<1>2. \A i \in 1 .. 1 : i = 1
  OBVIOUS
<1>3. ASSUME NEW i \in 1 .. 1, checks[i] # NoError,
             \A j \in 1 .. 1 : j < i => checks[j] = NoError
      PROVE  Checked(checks, rest) = Throw(checks[i])
  BY <1>1, <1>3, CheckedFails
<1>4. (\A i \in 1 .. 1 : checks[i] = NoError) => Checked(checks, rest) = rest
  BY <1>1, CheckedHolds
<1>5. Checked(checks, rest) =
           IF e1 # NoError THEN Throw(e1) ELSE rest
  BY <1>1, <1>2, <1>3, <1>4
<1> QED BY <1>5 DEF checks

LEMMA Checked2 ==
  ASSUME NEW e1, NEW e2, NEW rest
  PROVE  Checked(<<e1, e2>>, rest) =
           IF e1 # NoError THEN Throw(e1) ELSE
           IF e2 # NoError THEN Throw(e2) ELSE rest
<1> DEFINE checks == <<e1, e2>>
<1>1. /\ DOMAIN checks = 1 .. 2
      /\ checks[1] = e1
      /\ checks[2] = e2
  OBVIOUS
<1> HIDE DEF checks
<1>2. \A i \in 1 .. 2 : i = 1 \/ i = 2
  OBVIOUS
<1>3. ASSUME NEW i \in 1 .. 2, checks[i] # NoError,
             \A j \in 1 .. 2 : j < i => checks[j] = NoError
      PROVE  Checked(checks, rest) = Throw(checks[i])
  BY <1>1, <1>3, CheckedFails
<1>4. (\A i \in 1 .. 2 : checks[i] = NoError) => Checked(checks, rest) = rest
  BY <1>1, CheckedHolds
<1>5. Checked(checks, rest) =
           IF e1 # NoError THEN Throw(e1) ELSE
           IF e2 # NoError THEN Throw(e2) ELSE rest
  BY <1>1, <1>2, <1>3, <1>4
<1> QED BY <1>5 DEF checks

LEMMA Checked3 ==
  ASSUME NEW e1, NEW e2, NEW e3, NEW rest
  PROVE  Checked(<<e1, e2, e3>>, rest) =
           IF e1 # NoError THEN Throw(e1) ELSE
           IF e2 # NoError THEN Throw(e2) ELSE
           IF e3 # NoError THEN Throw(e3) ELSE rest
<1> DEFINE checks == <<e1, e2, e3>>
<1>1. /\ DOMAIN checks = 1 .. 3
      /\ checks[1] = e1
      /\ checks[2] = e2
      /\ checks[3] = e3
  OBVIOUS
<1> HIDE DEF checks
<1>2. \A i \in 1 .. 3 : i = 1 \/ i = 2 \/ i = 3
  OBVIOUS
<1>3. ASSUME NEW i \in 1 .. 3, checks[i] # NoError,
             \A j \in 1 .. 3 : j < i => checks[j] = NoError
      PROVE  Checked(checks, rest) = Throw(checks[i])
  BY <1>1, <1>3, CheckedFails
<1>4. (\A i \in 1 .. 3 : checks[i] = NoError) => Checked(checks, rest) = rest
  BY <1>1, CheckedHolds
<1>5. Checked(checks, rest) =
           IF e1 # NoError THEN Throw(e1) ELSE
           IF e2 # NoError THEN Throw(e2) ELSE
           IF e3 # NoError THEN Throw(e3) ELSE rest
  BY <1>1, <1>2, <1>3, <1>4
<1> QED BY <1>5 DEF checks

LEMMA Checked5 ==
  ASSUME NEW e1, NEW e2, NEW e3, NEW e4, NEW e5, NEW rest
  PROVE  Checked(<<e1, e2, e3, e4, e5>>, rest) =
           IF e1 # NoError THEN Throw(e1) ELSE
           IF e2 # NoError THEN Throw(e2) ELSE
           IF e3 # NoError THEN Throw(e3) ELSE
           IF e4 # NoError THEN Throw(e4) ELSE
           IF e5 # NoError THEN Throw(e5) ELSE rest
<1> DEFINE checks == <<e1, e2, e3, e4, e5>>
<1>1. /\ DOMAIN checks = 1 .. 5
      /\ checks[1] = e1
      /\ checks[2] = e2
      /\ checks[3] = e3
      /\ checks[4] = e4
      /\ checks[5] = e5
  OBVIOUS
<1> HIDE DEF checks
<1>2. \A i \in 1 .. 5 : i = 1 \/ i = 2 \/ i = 3 \/ i = 4 \/ i = 5
  OBVIOUS
<1>3. ASSUME NEW i \in 1 .. 5, checks[i] # NoError,
             \A j \in 1 .. 5 : j < i => checks[j] = NoError
      PROVE  Checked(checks, rest) = Throw(checks[i])
  BY <1>1, <1>3, CheckedFails
<1>4. (\A i \in 1 .. 5 : checks[i] = NoError) => Checked(checks, rest) = rest
  BY <1>1, CheckedHolds
<1>5. Checked(checks, rest) =
           IF e1 # NoError THEN Throw(e1) ELSE
           IF e2 # NoError THEN Throw(e2) ELSE
           IF e3 # NoError THEN Throw(e3) ELSE
           IF e4 # NoError THEN Throw(e4) ELSE
           IF e5 # NoError THEN Throw(e5) ELSE rest
  BY <1>1, <1>2, <1>3, <1>4
<1> QED BY <1>5 DEF checks

LEMMA Checked6 ==
  ASSUME NEW e1, NEW e2, NEW e3, NEW e4, NEW e5, NEW e6, NEW rest
  PROVE  Checked(<<e1, e2, e3, e4, e5, e6>>, rest) =
           IF e1 # NoError THEN Throw(e1) ELSE
           IF e2 # NoError THEN Throw(e2) ELSE
           IF e3 # NoError THEN Throw(e3) ELSE
           IF e4 # NoError THEN Throw(e4) ELSE
           IF e5 # NoError THEN Throw(e5) ELSE
           IF e6 # NoError THEN Throw(e6) ELSE rest
<1> DEFINE checks == <<e1, e2, e3, e4, e5, e6>>
<1>1. /\ DOMAIN checks = 1 .. 6
      /\ checks[1] = e1
      /\ checks[2] = e2
      /\ checks[3] = e3
      /\ checks[4] = e4
      /\ checks[5] = e5
      /\ checks[6] = e6
  OBVIOUS
<1> HIDE DEF checks
<1>2. \A i \in 1 .. 6 : i = 1 \/ i = 2 \/ i = 3 \/ i = 4 \/ i = 5 \/ i = 6
  OBVIOUS
<1>3. ASSUME NEW i \in 1 .. 6, checks[i] # NoError,
             \A j \in 1 .. 6 : j < i => checks[j] = NoError
      PROVE  Checked(checks, rest) = Throw(checks[i])
  BY <1>1, <1>3, CheckedFails
<1>4. (\A i \in 1 .. 6 : checks[i] = NoError) => Checked(checks, rest) = rest
  BY <1>1, CheckedHolds
<1>5. Checked(checks, rest) =
           IF e1 # NoError THEN Throw(e1) ELSE
           IF e2 # NoError THEN Throw(e2) ELSE
           IF e3 # NoError THEN Throw(e3) ELSE
           IF e4 # NoError THEN Throw(e4) ELSE
           IF e5 # NoError THEN Throw(e5) ELSE
           IF e6 # NoError THEN Throw(e6) ELSE rest
  BY <1>1, <1>2, <1>3, <1>4
<1> QED BY <1>5 DEF checks

\* The status a handler's outcome is answered with.
Code(o) == IF o.error = NoError THEN o.status ELSE CatchOf(o.error)

\* The statuses of what handlers return and throw, in every variant.
LEMMA Codes ==
  /\ \A n, x : Code(Done(n, x)) = n /\ Done(n, x).commits = x /\ Done(n, x).error = NoError
  /\ \A e, x : ThrowAfter(x, e).commits = x /\ ThrowAfter(x, e).error = e
  /\ \A x, n : Code(ThrowAfter(x, Http(n))) = n /\ Http(n) # NoError
  /\ \A x : Code(ThrowAfter(x, Zod)) = 400 /\ Zod # NoError
  /\ \A n : Named(n) # NoError
  /\ app # "n-tier" =>
       /\ \A x : \A n \in BadRequests : Code(ThrowAfter(x, Named(n))) = 400
       /\ \A x : \A n \in NotFounds : Code(ThrowAfter(x, Named(n))) = 404
  /\ EventSourced => \A x : Code(ThrowAfter(x, Named("ConcurrencyError"))) = 409
  /\ \A x, n : Code(ThrowAfter(x, Driver(n))) = 500 /\ Driver(n) # NoError
<1>1. /\ \A n : Named(n) # NoError /\ Http(n) # NoError /\ Zod # NoError /\ Driver(n) # NoError
      /\ \A n : CatchOf(Http(n)) = n
      /\ CatchOf(Zod) = 400
  BY DEF Named, Http, Zod, Driver, NoError, Error, CatchOf, CatchBy
<1>2. ASSUME app # "n-tier"
      PROVE  /\ \A n \in BadRequests : CatchOf(Named(n)) = 400
             /\ \A n \in NotFounds : CatchOf(Named(n)) = 404
  BY <1>2 DEF Named, Error, CatchOf, CatchBy, StatusOf, DomainErrorStatus, EventSourced,
     ES!DomainErrorStatusMap, ES!DomainErrorStatus, BadRequests, NotFounds,
     ES!BadRequests, ES!NotFounds
<1>3. ASSUME EventSourced PROVE CatchOf(Named("ConcurrencyError")) = 409
  BY <1>3 DEF Named, Error, CatchOf, CatchBy, StatusOf, EventSourced,
     ES!DomainErrorStatusMap
<1>4. \A n : CatchOf(Driver(n)) = 500
  BY DEF Driver, Error, CatchOf, CatchBy, StatusOf, DomainErrorStatus, EventSourced,
     ES!DomainErrorStatusMap, ES!DomainErrorStatus, BadRequests, NotFounds,
     ES!BadRequests, ES!NotFounds
<1> QED
  BY <1>1, <1>2, <1>3, <1>4 DEF Code, Done, ThrowAfter

\* The commits of a handler that creates, completes or fails: with an accounts
\* table the rows, without one the events and then the projections.
Created(s, fresh) ==
  LET stored == Opened(db, fresh, call[s].amount)
  IN  IF EventSourced THEN { << stored, Listed(stored, fresh) >> }
                      ELSE { << CreatedRow(db, fresh, call[s]) >> }

Completed(s) ==
  LET stored == Stored(Moved(db, call[s]), s, "COMPLETED")
  IN  { << TransferRow(Moved(db, call[s]), s, "COMPLETED") >>,
        << stored, Shown(stored, s), Shown(stored, s) >> }

Failed(s) ==
  LET stored == Stored(db, s, "FAILED")
      row == TransferRow(db, s, "FAILED")
  IN  { << row >>, << row, row >>, << stored, Shown(stored, s) >> }

\* The contract of an outcome: its status is promised, and what it commits is
\* what its status says.
Contracted(s, o, fresh) ==
  LET c == call[s] IN
  /\ ~WellFormed(c) => o.commits = <<>> /\ Code(o) = 400
  /\ WellFormed(c) /\ ~Found(c) => o.commits = <<>> /\ Code(o) = 404
  /\ WellFormed(c) /\ Found(c) =>
      /\ c.route = "createAccount" => Code(o) = 201 /\ o.commits \in Created(s, fresh)
      /\ c.route = "createTransfer" =>
           \/ ~Short(c) /\ Code(o) = 201 /\ o.commits \in Completed(s)
           \/ Short(c) /\ Code(o) = (IF EventSourced THEN 201 ELSE 400) /\ o.commits \in Failed(s)
           \/ EventSourced /\ ~Short(c) /\ Code(o) \in {409, 500} /\ o.commits = <<>>
      /\ c.route \notin {"createAccount", "createTransfer"} => Code(o) = 200 /\ o.commits = <<>>

\* The checks that decide between the refusals.
Valid(c, e) == IF WellFormed(c) THEN NoError ELSE e
Existing(c, e) == IF Found(c) THEN NoError ELSE e
IsOpen(id, e) == IF id \in db.open THEN NoError ELSE e

\* The pipe refuses a malformed body before the handler sees it.
LEMMA BodyRefused ==
  ASSUME NEW s, NEW fresh, NEW o, NEW handled,
         o = Checked(<< Valid(call[s], Zod) >>, handled),
         WellFormed(call[s]) => Contracted(s, handled, fresh)
  PROVE  Contracted(s, o, fresh)
<1>1. CASE WellFormed(call[s])
  BY <1>1, Checked1 DEF Valid
<1>2. CASE ~WellFormed(call[s])
  BY <1>2, Checked1, Codes DEF Contracted, Throw, Valid
<1> QED BY <1>1, <1>2

\* A query checks the id and then looks it up.
LEMMA LookedUp ==
  ASSUME NEW s, NEW fresh, NEW o, NEW invalid, NEW missing,
         call[s].route \notin {"createAccount", "createTransfer"},
         o = Checked(<< Valid(call[s], invalid), Existing(call[s], missing) >>, Done(200, <<>>)),
         invalid # NoError, Code(ThrowAfter(<<>>, invalid)) = 400,
         missing # NoError, Code(ThrowAfter(<<>>, missing)) = 404
  PROVE  Contracted(s, o, fresh)
BY Checked2, Codes DEF Contracted, Throw, Valid, Existing

\* A well-formed account is created.
LEMMA AccountCreated ==
  ASSUME NEW s, NEW fresh, NEW o, NEW commits \in Created(s, fresh),
         call[s].route = "createAccount", WellFormed(call[s]), o = Done(201, commits)
  PROVE  Contracted(s, o, fresh)
BY Codes DEF Contracted, Found

\* The handler of a well-formed transfer: both accounts are there, or the
\* error of an account that is not.
LEMMA TransferHandled ==
  ASSUME NEW s, NEW fresh, NEW o, NEW missing, NEW handled,
         call[s].route = "createTransfer", WellFormed(call[s]),
         missing # NoError, Code(ThrowAfter(<<>>, missing)) = 404,
         o = Checked(<< IsOpen(call[s].id, missing), IsOpen(call[s].to, missing) >>, handled),
         Found(call[s]) => Contracted(s, handled, fresh)
  PROVE  Contracted(s, o, fresh)
<1>1. CASE Found(call[s])
  BY <1>1, Checked2 DEF IsOpen, Found
<1>2. CASE ~Found(call[s])
  <2>1. o = ThrowAfter(<<>>, missing)
    BY <1>2, Checked2 DEF IsOpen, Found, Throw
  <2> QED BY <1>2, <2>1, Codes DEF Contracted
<1> QED BY <1>1, <1>2

\* Two lists of checks, one after the other.
LEMMA Joined ==
  \A e1, e2, e3, e4, e5 : << e1, e2, e3 >> \o << e4, e5 >> = << e1, e2, e3, e4, e5 >>
<1> TAKE e1, e2, e3, e4, e5
<1> DEFINE S == {e1, e2, e3, e4, e5}
           front == << e1, e2, e3 >>
           back == << e4, e5 >>
           all == << e1, e2, e3, e4, e5 >>
<1>1. front \in Seq(S) /\ back \in Seq(S) /\ all \in Seq(S)
  OBVIOUS
<1>2. Len(front) = 3 /\ Len(back) = 2 /\ Len(all) = 5
  OBVIOUS
<1>3. front \o back \in Seq(S) /\ Len(front \o back) = 5
  BY <1>1, <1>2
<1>4. \A i \in 1 .. 5 : (front \o back)[i] = IF i <= 3 THEN front[i] ELSE back[i - 3]
  BY <1>1, <1>2, ConcatProperties
<1>5. \A i \in 1 .. 5 : (front \o back)[i] = all[i]
  BY <1>4
<1> HIDE DEF S, front, back, all
<1>6. front \o back = all
  BY <1>1, <1>2, <1>3, <1>5, SeqEqual
<1> QED BY <1>6 DEF front, back, all

-----------------------------------------------------------------------------
(* The handlers of the seven *)

\* The n-tier variant has its own copy of the vocabulary of handlers.
LEMMA NTierWords ==
  /\ NT!NoError = NoError
  /\ \A n : NT!Named(n) = Named(n)
  /\ \A n : NT!Http(n) = Http(n)
  /\ \A n : NT!Driver(n) = Driver(n)
  /\ NT!Zod = Zod
  /\ \A checks, rest : NT!Checked(checks, rest) = Checked(checks, rest)
  /\ \A e : NT!Throw(e) = Throw(e)
  /\ \A x, e : NT!ThrowAfter(x, e) = ThrowAfter(x, e)
  /\ \A x, e : NT!Done(x, e) = Done(x, e)
  /\ \A d, s, x : NT!Stored(d, s, x) = Stored(d, s, x)
  /\ \A d, s : NT!Shown(d, s) = Shown(d, s)
  /\ \A d, s, x : NT!TransferRow(d, s, x) = TransferRow(d, s, x)
  /\ \A d, c : NT!Moved(d, c) = Moved(d, c)
  /\ \A d, a, x : NT!Opened(d, a, x) = Opened(d, a, x)
  /\ \A d, a : NT!Listed(d, a) = Listed(d, a)
  /\ \A d, a, c : NT!CreatedRow(d, a, c) = CreatedRow(d, a, c)
BY DEF NT!Checked, Checked, NT!Error, Error, NT!NoError, NoError, NT!Throw, Throw,
  NT!ThrowAfter, ThrowAfter, NT!Named, Named, NT!Http, Http, NT!Driver, Driver, NT!Zod, Zod,
  NT!Done, Done, NT!TransferRow, TransferRow, NT!Shown, Shown, NT!Stored, Stored,
  NT!Moved, Moved, NT!CreatedRow, CreatedRow, NT!Listed, Listed, NT!Opened, Opened

\* Every handler of the n-tier server keeps the contract.
LEMMA NTierContract ==
  ASSUME app = "n-tier", NEW s \in Slots, call[s] \in Call, db \in Database,
         db.open = db.listed,
         NEW fresh, NEW raced, call[s].route \in CommonRoutes \ {"live", "ready", "metrics"}
  PROVE  Contracted(s, HandleOf(s, fresh, raced), fresh)
<1> DEFINE c == call[s]
           o == HandleOf(s, fresh, raced)
           invalid == Http(400)
           noAccount == Http(404)
           noTransfer == Http(404)
<1>0. ~EventSourced
  BY DEF EventSourced
<1>1. o = NT!Handle(db, s, c, fresh, raced)
  BY DEF HandleOf
<1>8. /\ invalid # NoError /\ Code(ThrowAfter(<<>>, invalid)) = 400
      /\ noAccount # NoError /\ Code(ThrowAfter(<<>>, noAccount)) = 404
      /\ noTransfer # NoError /\ Code(ThrowAfter(<<>>, noTransfer)) = 404
  BY Codes
<1>9. c.amount \in Int
  BY DEF Call
<1> SUFFICES Contracted(s, o, fresh)
  OBVIOUS
<1> HIDE DEF o
<1>2. CASE c.route = "createAccount"
  <2>1. o = Checked(<< Valid(c, Zod) >>, NT!CreateAccount(db, c, fresh))
    BY <1>1, <1>2, NTierWords DEF NT!Handle, NT!AccountsController, NT!CreateAccountDto,
       NT!AccountBody,
       NT!Check, WellFormed, Valid
  <2>2. ASSUME WellFormed(c) PROVE Contracted(s, NT!CreateAccount(db, c, fresh), fresh)
    <3>1. NT!CreateAccount(db, c, fresh) =
            Checked(<< NoError, NoError >>, Done(201, << CreatedRow(db, fresh, c) >>))
      BY <1>2, <2>2, NTierWords DEF NT!CreateAccount, NT!Check, NT!SaveAccount, WellFormed
    <3>2. NT!CreateAccount(db, c, fresh) =
            Done(201, << CreatedRow(db, fresh, c) >>)
      BY <3>1, Checked2
    <3>3. << CreatedRow(db, fresh, c) >> \in Created(s, fresh)
      BY <1>0 DEF Created
    <3> QED BY <1>2, <2>2, <3>2, <3>3, AccountCreated
  <2> QED BY <2>1, <2>2, BodyRefused
<1>3. CASE c.route = "getAccount"
  <2>1. o = Checked(<< Valid(c, invalid), Existing(c, noAccount) >>, Done(200, <<>>))
    BY <1>1, <1>3, NTierWords DEF NT!Handle, NT!AccountsController, NT!GetAccountById,
       NT!Check, NT!IsUuid, NT!FindById,
       WellFormed, NeedsId, Found, Valid, Existing
  <2> QED BY <1>3, <1>8, <2>1, LookedUp
<1>4. CASE c.route = "listAccounts"
  <2>1. o = Done(200, <<>>) /\ WellFormed(c) /\ Found(c)
    BY <1>1, <1>4, NTierWords DEF NT!Handle, NT!AccountsController, NT!GetAllAccounts,
       WellFormed, Found, NeedsId
  <2> QED BY <1>4, <2>1, Codes DEF Contracted
<1>5. CASE c.route = "getTransfer"
  <2>1. o = Checked(<< Valid(c, invalid), Existing(c, noTransfer) >>, Done(200, <<>>))
    BY <1>1, <1>5, NTierWords DEF NT!Handle, NT!TransfersController, NT!GetTransferById,
       NT!Check, NT!IsUuid, NT!FindTransferById,
       WellFormed, NeedsId, Found, Valid, Existing
  <2> QED BY <1>5, <1>8, <2>1, LookedUp
<1>6. CASE c.route = "createTransfer"
  <2>1. o = Checked(<< Valid(c, Zod) >>, NT!ExecuteTransfer(db, s, c))
    BY <1>1, <1>6, NTierWords DEF NT!Handle, NT!TransfersController, NT!InitiateTransferDto,
       NT!TransferBody,
       NT!IsUuid, NT!Check, WellFormed, Valid
  <2>2. ASSUME WellFormed(c) PROVE Contracted(s, NT!ExecuteTransfer(db, s, c), fresh)
    <3> DEFINE failed == << TransferRow(db, s, "FAILED") >>
    <3> DEFINE rest ==
                 IF db.balance[c.id] < c.amount
                   THEN ThrowAfter(failed, Http(400))
                   ELSE Done(201, << TransferRow(Moved(db, c), s, "COMPLETED") >>)
    <3>1. NT!ExecuteTransfer(db, s, c) =
            Checked(<< NoError, NoError, NoError, IsOpen(c.id, noAccount), IsOpen(c.to, noAccount) >>, rest)
      BY <1>9, <1>6, <2>2, NTierWords DEF NT!ExecuteTransfer, NT!Check, NT!IsUuid,
         NT!FindById, WellFormed, IsOpen
    <3>2. ASSUME Found(c) PROVE Contracted(s, rest, fresh)
      <4>1. c.id \in AccountIds /\ db.balance[c.id] \in Int /\ c.amount \in Int
        BY <1>6, <3>2 DEF Found, Database, Call
      <4>2. /\ failed \in Failed(s)
            /\ << TransferRow(Moved(db, c), s, "COMPLETED") >> \in Completed(s)
        BY DEF Failed, Completed
      <4>3. Code(ThrowAfter(failed, Http(400))) = 400
        BY Codes
      <4> QED BY <1>0, <1>6, <2>2, <3>2, <4>1, <4>2, <4>3, Codes DEF Contracted, Short
    <3> HIDE DEF rest
    <3>3. NT!ExecuteTransfer(db, s, c) =
            Checked(<< IsOpen(c.id, noAccount), IsOpen(c.to, noAccount) >>, rest)
      BY <3>1, Checked5, Checked2
    <3> QED BY <1>6, <1>8, <2>2, <3>2, <3>3, TransferHandled
  <2> QED BY <2>1, <2>2, BodyRefused
<1> QED BY <1>2, <1>3, <1>4, <1>5, <1>6 DEF CommonRoutes, Routes

\* The hexagonal variant has its own copy of the vocabulary of handlers.
LEMMA HexagonalWords ==
  /\ HX!NoError = NoError
  /\ \A n : HX!Named(n) = Named(n)
  /\ \A n : HX!Http(n) = Http(n)
  /\ \A n : HX!Driver(n) = Driver(n)
  /\ HX!Zod = Zod
  /\ \A checks, rest : HX!Checked(checks, rest) = Checked(checks, rest)
  /\ \A e : HX!Throw(e) = Throw(e)
  /\ \A x, e : HX!ThrowAfter(x, e) = ThrowAfter(x, e)
  /\ \A x, e : HX!Done(x, e) = Done(x, e)
  /\ \A d, s, x : HX!Stored(d, s, x) = Stored(d, s, x)
  /\ \A d, s : HX!Shown(d, s) = Shown(d, s)
  /\ \A d, s, x : HX!TransferRow(d, s, x) = TransferRow(d, s, x)
  /\ \A d, c : HX!Moved(d, c) = Moved(d, c)
  /\ \A d, a, x : HX!Opened(d, a, x) = Opened(d, a, x)
  /\ \A d, a : HX!Listed(d, a) = Listed(d, a)
  /\ \A d, a, c : HX!CreatedRow(d, a, c) = CreatedRow(d, a, c)
BY DEF HX!Checked, Checked, HX!Error, Error, HX!NoError, NoError, HX!Throw, Throw,
  HX!ThrowAfter, ThrowAfter, HX!Named, Named, HX!Http, Http, HX!Driver, Driver, HX!Zod, Zod,
  HX!Done, Done, HX!TransferRow, TransferRow, HX!Shown, Shown, HX!Stored, Stored,
  HX!Moved, Moved, HX!CreatedRow, CreatedRow, HX!Listed, Listed, HX!Opened, Opened

\* Every handler of the hexagonal server keeps the contract.
LEMMA HexagonalContract ==
  ASSUME app = "hexagonal", NEW s \in Slots, call[s] \in Call, db \in Database,
         db.open = db.listed,
         NEW fresh, NEW raced, call[s].route \in CommonRoutes \ {"live", "ready", "metrics"}
  PROVE  Contracted(s, HandleOf(s, fresh, raced), fresh)
<1> DEFINE c == call[s]
           o == HandleOf(s, fresh, raced)
           invalid == Named("InvalidIdError")
           noAccount == Named("AccountNotFoundError")
           noTransfer == Named("TransferNotFoundError")
<1>0. ~EventSourced /\ app # "n-tier"
  BY DEF EventSourced
<1>1. o = HX!Handle(db, s, c, fresh, raced)
  BY DEF HandleOf
<1>8. /\ invalid # NoError /\ Code(ThrowAfter(<<>>, invalid)) = 400
      /\ noAccount # NoError /\ Code(ThrowAfter(<<>>, noAccount)) = 404
      /\ noTransfer # NoError /\ Code(ThrowAfter(<<>>, noTransfer)) = 404
  BY Codes DEF BadRequests, NotFounds
<1>9. c.amount \in Int
  BY DEF Call
<1> SUFFICES Contracted(s, o, fresh)
  OBVIOUS
<1> HIDE DEF o
<1>2. CASE c.route = "createAccount"
  <2>1. o = Checked(<< Valid(c, Zod) >>, HX!CreateAccount(db, c, fresh))
    BY <1>1, <1>2, HexagonalWords DEF HX!Handle, HX!AccountController, HX!CreateAccountDto,
       HX!AccountBody,
       HX!Check, WellFormed, Valid
  <2>2. ASSUME WellFormed(c) PROVE Contracted(s, HX!CreateAccount(db, c, fresh), fresh)
    <3>1. HX!CreateAccount(db, c, fresh) =
            Checked(<< NoError, NoError >>, Done(201, << CreatedRow(db, fresh, c) >>))
      BY <1>2, <2>2, HexagonalWords DEF HX!CreateAccount, HX!Check, HX!SaveAccount,
         HX!NewAccount, WellFormed
    <3>2. HX!CreateAccount(db, c, fresh) =
            Done(201, << CreatedRow(db, fresh, c) >>)
      BY <3>1, Checked2
    <3>3. << CreatedRow(db, fresh, c) >> \in Created(s, fresh)
      BY <1>0 DEF Created
    <3> QED BY <1>2, <2>2, <3>2, <3>3, AccountCreated
  <2> QED BY <2>1, <2>2, BodyRefused
<1>3. CASE c.route = "getAccount"
  <2>1. o = Checked(<< Valid(c, invalid), Existing(c, noAccount) >>, Done(200, <<>>))
    BY <1>1, <1>3, HexagonalWords DEF HX!Handle, HX!AccountController, HX!GetAccountById,
       HX!Check, HX!IsUuid, HX!FindById,
       WellFormed, NeedsId, Found, Valid, Existing
  <2> QED BY <1>3, <1>8, <2>1, LookedUp
<1>4. CASE c.route = "listAccounts"
  <2>1. o = Done(200, <<>>) /\ WellFormed(c) /\ Found(c)
    BY <1>1, <1>4, HexagonalWords DEF HX!Handle, HX!AccountController, HX!GetAllAccounts,
       WellFormed, Found, NeedsId
  <2> QED BY <1>4, <2>1, Codes DEF Contracted
<1>5. CASE c.route = "getTransfer"
  <2>1. o = Checked(<< Valid(c, invalid), Existing(c, noTransfer) >>, Done(200, <<>>))
    BY <1>1, <1>5, HexagonalWords DEF HX!Handle, HX!TransferController, HX!GetTransferById,
       HX!Check, HX!IsUuid, HX!FindTransferById,
       WellFormed, NeedsId, Found, Valid, Existing
  <2> QED BY <1>5, <1>8, <2>1, LookedUp
<1>6. CASE c.route = "createTransfer"
  <2>1. o = Checked(<< Valid(c, Zod) >>, HX!ExecuteTransfer(db, s, c))
    BY <1>1, <1>6, HexagonalWords DEF HX!Handle, HX!TransferController,
       HX!InitiateTransferDto, HX!TransferBody,
       HX!IsUuid, HX!Check, WellFormed, Valid
  <2>2. ASSUME WellFormed(c) PROVE Contracted(s, HX!ExecuteTransfer(db, s, c), fresh)
    <3> DEFINE failed == << TransferRow(db, s, "FAILED") >>
    <3> DEFINE rest ==
                 IF db.balance[c.id] < c.amount
                   THEN ThrowAfter(failed, Named("InsufficientFundsError"))
                   ELSE Done(201, << TransferRow(Moved(db, c), s, "COMPLETED") >>)
    <3>1. HX!ExecuteTransfer(db, s, c) =
            Checked(<< NoError, NoError, NoError, IsOpen(c.id, noAccount), IsOpen(c.to, noAccount) >>, rest)
      BY <1>9, <1>6, <2>2, HexagonalWords DEF HX!ExecuteTransfer, HX!Check, HX!IsUuid,
         HX!FindById, WellFormed, IsOpen
    <3>2. ASSUME Found(c) PROVE Contracted(s, rest, fresh)
      <4>1. c.id \in AccountIds /\ db.balance[c.id] \in Int /\ c.amount \in Int
        BY <1>6, <3>2 DEF Found, Database, Call
      <4>2. /\ failed \in Failed(s)
            /\ << TransferRow(Moved(db, c), s, "COMPLETED") >> \in Completed(s)
        BY DEF Failed, Completed
      <4>3. Code(ThrowAfter(failed, Named("InsufficientFundsError"))) = 400
        BY Codes DEF BadRequests
      <4> QED BY <1>0, <1>6, <2>2, <3>2, <4>1, <4>2, <4>3, Codes DEF Contracted, Short
    <3> HIDE DEF rest
    <3>3. HX!ExecuteTransfer(db, s, c) =
            Checked(<< IsOpen(c.id, noAccount), IsOpen(c.to, noAccount) >>, rest)
      BY <3>1, Checked5, Checked2
    <3> QED BY <1>6, <1>8, <2>2, <3>2, <3>3, TransferHandled
  <2> QED BY <2>1, <2>2, BodyRefused
<1> QED BY <1>2, <1>3, <1>4, <1>5, <1>6 DEF CommonRoutes, Routes

\* The onion variant has its own copy of the vocabulary of handlers.
LEMMA OnionWords ==
  /\ ON!NoError = NoError
  /\ \A n : ON!Named(n) = Named(n)
  /\ \A n : ON!Http(n) = Http(n)
  /\ \A n : ON!Driver(n) = Driver(n)
  /\ ON!Zod = Zod
  /\ \A checks, rest : ON!Checked(checks, rest) = Checked(checks, rest)
  /\ \A e : ON!Throw(e) = Throw(e)
  /\ \A x, e : ON!ThrowAfter(x, e) = ThrowAfter(x, e)
  /\ \A x, e : ON!Done(x, e) = Done(x, e)
  /\ \A d, s, x : ON!Stored(d, s, x) = Stored(d, s, x)
  /\ \A d, s : ON!Shown(d, s) = Shown(d, s)
  /\ \A d, s, x : ON!TransferRow(d, s, x) = TransferRow(d, s, x)
  /\ \A d, c : ON!Moved(d, c) = Moved(d, c)
  /\ \A d, a, x : ON!Opened(d, a, x) = Opened(d, a, x)
  /\ \A d, a : ON!Listed(d, a) = Listed(d, a)
  /\ \A d, a, c : ON!CreatedRow(d, a, c) = CreatedRow(d, a, c)
BY DEF ON!Checked, Checked, ON!Error, Error, ON!NoError, NoError, ON!Throw, Throw,
  ON!ThrowAfter, ThrowAfter, ON!Named, Named, ON!Http, Http, ON!Driver, Driver, ON!Zod, Zod,
  ON!Done, Done, ON!TransferRow, TransferRow, ON!Shown, Shown, ON!Stored, Stored,
  ON!Moved, Moved, ON!CreatedRow, CreatedRow, ON!Listed, Listed, ON!Opened, Opened

\* Every handler of the onion server keeps the contract.
LEMMA OnionContract ==
  ASSUME app = "onion", NEW s \in Slots, call[s] \in Call, db \in Database,
         db.open = db.listed,
         NEW fresh, NEW raced, call[s].route \in CommonRoutes \ {"live", "ready", "metrics"}
  PROVE  Contracted(s, HandleOf(s, fresh, raced), fresh)
<1> DEFINE c == call[s]
           o == HandleOf(s, fresh, raced)
           invalid == Named("InvalidIdError")
           noAccount == Named("AccountNotFoundError")
           noTransfer == Named("TransferNotFoundError")
<1>0. ~EventSourced /\ app # "n-tier"
  BY DEF EventSourced
<1>1. o = ON!Handle(db, s, c, fresh, raced)
  BY DEF HandleOf
<1>8. /\ invalid # NoError /\ Code(ThrowAfter(<<>>, invalid)) = 400
      /\ noAccount # NoError /\ Code(ThrowAfter(<<>>, noAccount)) = 404
      /\ noTransfer # NoError /\ Code(ThrowAfter(<<>>, noTransfer)) = 404
  BY Codes DEF BadRequests, NotFounds
<1>9. c.amount \in Int
  BY DEF Call
<1> SUFFICES Contracted(s, o, fresh)
  OBVIOUS
<1> HIDE DEF o
<1>2. CASE c.route = "createAccount"
  <2>1. o = Checked(<< Valid(c, Zod) >>, ON!CreateAccount(db, c, fresh))
    BY <1>1, <1>2, OnionWords DEF ON!Handle, ON!AccountController, ON!CreateAccountDto,
       ON!AccountBody,
       ON!Check, WellFormed, Valid
  <2>2. ASSUME WellFormed(c) PROVE Contracted(s, ON!CreateAccount(db, c, fresh), fresh)
    <3>1. ON!CreateAccount(db, c, fresh) =
            Checked(<< NoError, NoError >>, Done(201, << CreatedRow(db, fresh, c) >>))
      BY <1>2, <2>2, OnionWords DEF ON!CreateAccount, ON!Check, ON!SaveAccount,
         ON!NewAccount, WellFormed
    <3>2. ON!CreateAccount(db, c, fresh) =
            Done(201, << CreatedRow(db, fresh, c) >>)
      BY <3>1, Checked2
    <3>3. << CreatedRow(db, fresh, c) >> \in Created(s, fresh)
      BY <1>0 DEF Created
    <3> QED BY <1>2, <2>2, <3>2, <3>3, AccountCreated
  <2> QED BY <2>1, <2>2, BodyRefused
<1>3. CASE c.route = "getAccount"
  <2>1. o = Checked(<< Valid(c, invalid), Existing(c, noAccount) >>, Done(200, <<>>))
    BY <1>1, <1>3, OnionWords DEF ON!Handle, ON!AccountController, ON!GetAccountById,
       ON!Check, ON!IsUuid, ON!FindById,
       WellFormed, NeedsId, Found, Valid, Existing
  <2> QED BY <1>3, <1>8, <2>1, LookedUp
<1>4. CASE c.route = "listAccounts"
  <2>1. o = Done(200, <<>>) /\ WellFormed(c) /\ Found(c)
    BY <1>1, <1>4, OnionWords DEF ON!Handle, ON!AccountController, ON!GetAllAccounts,
       WellFormed, Found, NeedsId
  <2> QED BY <1>4, <2>1, Codes DEF Contracted
<1>5. CASE c.route = "getTransfer"
  <2>1. o = Checked(<< Valid(c, invalid), Existing(c, noTransfer) >>, Done(200, <<>>))
    BY <1>1, <1>5, OnionWords DEF ON!Handle, ON!TransferController, ON!GetTransferById,
       ON!Check, ON!IsUuid, ON!FindTransferById,
       WellFormed, NeedsId, Found, Valid, Existing
  <2> QED BY <1>5, <1>8, <2>1, LookedUp
<1>6. CASE c.route = "createTransfer"
  <2>1. o = Checked(<< Valid(c, Zod) >>, ON!ExecuteTransfer(db, s, c))
    BY <1>1, <1>6, OnionWords DEF ON!Handle, ON!TransferController, ON!InitiateTransferDto,
       ON!TransferBody,
       ON!IsUuid, ON!Check, WellFormed, Valid
  <2>2. ASSUME WellFormed(c) PROVE Contracted(s, ON!ExecuteTransfer(db, s, c), fresh)
    <3> DEFINE failed == << TransferRow(db, s, "FAILED") >>
    <3> DEFINE rest ==
                 IF db.balance[c.id] < c.amount
                   THEN ThrowAfter(failed, Named("InsufficientFundsError"))
                   ELSE Done(201, << TransferRow(Moved(db, c), s, "COMPLETED") >>)
    <3>1. ON!ExecuteTransfer(db, s, c) =
            Checked(<< NoError, NoError, NoError, IsOpen(c.id, noAccount), IsOpen(c.to, noAccount) >>, rest)
      BY <1>9, <1>6, <2>2, OnionWords DEF ON!ExecuteTransfer, ON!Check, ON!IsUuid,
         ON!FindById, WellFormed, ON!DomainTransfer, Throw, ThrowAfter, Done, NoError,
         Named, Error, IsOpen
    <3>2. ASSUME Found(c) PROVE Contracted(s, rest, fresh)
      <4>1. c.id \in AccountIds /\ db.balance[c.id] \in Int /\ c.amount \in Int
        BY <1>6, <3>2 DEF Found, Database, Call
      <4>2. /\ failed \in Failed(s)
            /\ << TransferRow(Moved(db, c), s, "COMPLETED") >> \in Completed(s)
        BY DEF Failed, Completed
      <4>3. Code(ThrowAfter(failed, Named("InsufficientFundsError"))) = 400
        BY Codes DEF BadRequests
      <4> QED BY <1>0, <1>6, <2>2, <3>2, <4>1, <4>2, <4>3, Codes DEF Contracted, Short
    <3> HIDE DEF rest
    <3>3. ON!ExecuteTransfer(db, s, c) =
            Checked(<< IsOpen(c.id, noAccount), IsOpen(c.to, noAccount) >>, rest)
      BY <3>1, Checked5, Checked2
    <3> QED BY <1>6, <1>8, <2>2, <3>2, <3>3, TransferHandled
  <2> QED BY <2>1, <2>2, BodyRefused
<1> QED BY <1>2, <1>3, <1>4, <1>5, <1>6 DEF CommonRoutes, Routes

\* The clean variant has its own copy of the vocabulary of handlers.
LEMMA CleanWords ==
  /\ CL!NoError = NoError
  /\ \A n : CL!Named(n) = Named(n)
  /\ \A n : CL!Http(n) = Http(n)
  /\ \A n : CL!Driver(n) = Driver(n)
  /\ CL!Zod = Zod
  /\ \A checks, rest : CL!Checked(checks, rest) = Checked(checks, rest)
  /\ \A e : CL!Throw(e) = Throw(e)
  /\ \A x, e : CL!ThrowAfter(x, e) = ThrowAfter(x, e)
  /\ \A x, e : CL!Done(x, e) = Done(x, e)
  /\ \A d, s, x : CL!Stored(d, s, x) = Stored(d, s, x)
  /\ \A d, s : CL!Shown(d, s) = Shown(d, s)
  /\ \A d, s, x : CL!TransferRow(d, s, x) = TransferRow(d, s, x)
  /\ \A d, c : CL!Moved(d, c) = Moved(d, c)
  /\ \A d, a, x : CL!Opened(d, a, x) = Opened(d, a, x)
  /\ \A d, a : CL!Listed(d, a) = Listed(d, a)
  /\ \A d, a, c : CL!CreatedRow(d, a, c) = CreatedRow(d, a, c)
BY DEF CL!Checked, Checked, CL!Error, Error, CL!NoError, NoError, CL!Throw, Throw,
  CL!ThrowAfter, ThrowAfter, CL!Named, Named, CL!Http, Http, CL!Driver, Driver, CL!Zod, Zod,
  CL!Done, Done, CL!TransferRow, TransferRow, CL!Shown, Shown, CL!Stored, Stored,
  CL!Moved, Moved, CL!CreatedRow, CreatedRow, CL!Listed, Listed, CL!Opened, Opened

\* Every handler of the clean server keeps the contract.
LEMMA CleanContract ==
  ASSUME app = "clean", NEW s \in Slots, call[s] \in Call, db \in Database,
         db.open = db.listed,
         NEW fresh, NEW raced, call[s].route \in CommonRoutes \ {"live", "ready", "metrics"}
  PROVE  Contracted(s, HandleOf(s, fresh, raced), fresh)
<1> DEFINE c == call[s]
           o == HandleOf(s, fresh, raced)
           invalid == Named("InvalidIdError")
           noAccount == Named("AccountNotFoundError")
           noTransfer == Named("TransferNotFoundError")
<1>0. ~EventSourced /\ app # "n-tier"
  BY DEF EventSourced
<1>1. o = CL!Handle(db, s, c, fresh, raced)
  BY DEF HandleOf
<1>8. /\ invalid # NoError /\ Code(ThrowAfter(<<>>, invalid)) = 400
      /\ noAccount # NoError /\ Code(ThrowAfter(<<>>, noAccount)) = 404
      /\ noTransfer # NoError /\ Code(ThrowAfter(<<>>, noTransfer)) = 404
  BY Codes DEF BadRequests, NotFounds
<1>9. c.amount \in Int
  BY DEF Call
<1> SUFFICES Contracted(s, o, fresh)
  OBVIOUS
<1> HIDE DEF o
<1>2. CASE c.route = "createAccount"
  <2>1. o = Checked(<< Valid(c, Zod) >>, CL!CreateAccountUseCase(db, c, fresh))
    BY <1>1, <1>2, CleanWords DEF CL!Handle, CL!AccountController, CL!CreateAccountDto,
       CL!AccountBody,
       CL!Check, WellFormed, Valid
  <2>2. ASSUME WellFormed(c) PROVE Contracted(s, CL!CreateAccountUseCase(db, c, fresh), fresh)
    <3>1. CL!CreateAccountUseCase(db, c, fresh) =
            Checked(<< NoError, NoError >>, Done(201, << CreatedRow(db, fresh, c) >>))
      BY <1>2, <2>2, CleanWords DEF CL!CreateAccountUseCase, CL!Check, CL!SaveAccount,
         CL!NewAccount, WellFormed
    <3>2. CL!CreateAccountUseCase(db, c, fresh) =
            Done(201, << CreatedRow(db, fresh, c) >>)
      BY <3>1, Checked2
    <3>3. << CreatedRow(db, fresh, c) >> \in Created(s, fresh)
      BY <1>0 DEF Created
    <3> QED BY <1>2, <2>2, <3>2, <3>3, AccountCreated
  <2> QED BY <2>1, <2>2, BodyRefused
<1>3. CASE c.route = "getAccount"
  <2>1. o = Checked(<< Valid(c, invalid), Existing(c, noAccount) >>, Done(200, <<>>))
    BY <1>1, <1>3, CleanWords DEF CL!Handle, CL!AccountController, CL!GetAccountUseCase,
       CL!Check, CL!IsUuid, CL!FindById,
       WellFormed, NeedsId, Found, Valid, Existing
  <2> QED BY <1>3, <1>8, <2>1, LookedUp
<1>4. CASE c.route = "listAccounts"
  <2>1. o = Done(200, <<>>) /\ WellFormed(c) /\ Found(c)
    BY <1>1, <1>4, CleanWords DEF CL!Handle, CL!AccountController, CL!ListAccountsUseCase,
       WellFormed, Found, NeedsId
  <2> QED BY <1>4, <2>1, Codes DEF Contracted
<1>5. CASE c.route = "getTransfer"
  <2>1. o = Checked(<< Valid(c, invalid), Existing(c, noTransfer) >>, Done(200, <<>>))
    BY <1>1, <1>5, CleanWords DEF CL!Handle, CL!TransferController, CL!GetTransferUseCase,
       CL!Check, CL!IsUuid, CL!FindTransferById,
       WellFormed, NeedsId, Found, Valid, Existing
  <2> QED BY <1>5, <1>8, <2>1, LookedUp
<1>6. CASE c.route = "createTransfer"
  <2>1. o = Checked(<< Valid(c, Zod) >>, CL!InitiateTransferUseCase(db, s, c))
    BY <1>1, <1>6, CleanWords DEF CL!Handle, CL!TransferController, CL!InitiateTransferDto,
       CL!TransferBody,
       CL!IsUuid, CL!Check, WellFormed, Valid
  <2>2. ASSUME WellFormed(c) PROVE Contracted(s, CL!InitiateTransferUseCase(db, s, c), fresh)
    <3> DEFINE failed == << TransferRow(db, s, "FAILED") >>
    <3> DEFINE rest ==
                 IF c.amount > db.balance[c.id]
                   THEN ThrowAfter(failed, Named("InsufficientFundsError"))
                   ELSE Done(201, << TransferRow(Moved(db, c), s, "COMPLETED") >>)
    <3>0. CL!ValidateInput(c) \o CL!ValidateAccountsExist(db, c) =
            << NoError, NoError, NoError, IsOpen(c.id, noAccount), IsOpen(c.to, noAccount) >>
      <4>2. CL!ValidateInput(c) = << NoError, NoError, NoError >>
        BY <1>9, <1>6, <2>2, CleanWords DEF CL!ValidateInput, CL!Check, CL!IsUuid, WellFormed
      <4>3. CL!ValidateAccountsExist(db, c) = << IsOpen(c.id, noAccount), IsOpen(c.to, noAccount) >>
        BY CleanWords DEF CL!ValidateAccountsExist, CL!Check, CL!FindById, IsOpen
      <4> QED BY Joined, <4>2, <4>3
    <3>1. CL!InitiateTransferUseCase(db, s, c) =
            Checked(<< NoError, NoError, NoError, IsOpen(c.id, noAccount), IsOpen(c.to, noAccount) >>, rest)
      BY <3>0, <1>9, <1>6, <2>2, CleanWords DEF CL!InitiateTransferUseCase, CL!Check,
         CL!IsUuid, CL!FindById, WellFormed, IsOpen
    <3>2. ASSUME Found(c) PROVE Contracted(s, rest, fresh)
      <4>1. c.id \in AccountIds /\ db.balance[c.id] \in Int /\ c.amount \in Int
        BY <1>6, <3>2 DEF Found, Database, Call
      <4>2. /\ failed \in Failed(s)
            /\ << TransferRow(Moved(db, c), s, "COMPLETED") >> \in Completed(s)
        BY DEF Failed, Completed
      <4>3. Code(ThrowAfter(failed, Named("InsufficientFundsError"))) = 400
        BY Codes DEF BadRequests
      <4> QED BY <1>0, <1>6, <2>2, <3>2, <4>1, <4>2, <4>3, Codes DEF Contracted, Short
    <3> HIDE DEF rest
    <3>3. CL!InitiateTransferUseCase(db, s, c) =
            Checked(<< IsOpen(c.id, noAccount), IsOpen(c.to, noAccount) >>, rest)
      BY <3>1, Checked5, Checked2
    <3> QED BY <1>6, <1>8, <2>2, <3>2, <3>3, TransferHandled
  <2> QED BY <2>1, <2>2, BodyRefused
<1> QED BY <1>2, <1>3, <1>4, <1>5, <1>6 DEF CommonRoutes, Routes

\* The ddd variant has its own copy of the vocabulary of handlers.
LEMMA DddWords ==
  /\ DD!NoError = NoError
  /\ \A n : DD!Named(n) = Named(n)
  /\ \A n : DD!Http(n) = Http(n)
  /\ \A n : DD!Driver(n) = Driver(n)
  /\ DD!Zod = Zod
  /\ \A checks, rest : DD!Checked(checks, rest) = Checked(checks, rest)
  /\ \A e : DD!Throw(e) = Throw(e)
  /\ \A x, e : DD!ThrowAfter(x, e) = ThrowAfter(x, e)
  /\ \A x, e : DD!Done(x, e) = Done(x, e)
  /\ \A d, s, x : DD!Stored(d, s, x) = Stored(d, s, x)
  /\ \A d, s : DD!Shown(d, s) = Shown(d, s)
  /\ \A d, s, x : DD!TransferRow(d, s, x) = TransferRow(d, s, x)
  /\ \A d, c : DD!Moved(d, c) = Moved(d, c)
  /\ \A d, a, x : DD!Opened(d, a, x) = Opened(d, a, x)
  /\ \A d, a : DD!Listed(d, a) = Listed(d, a)
  /\ \A d, a, c : DD!CreatedRow(d, a, c) = CreatedRow(d, a, c)
BY DEF DD!Checked, Checked, DD!Error, Error, DD!NoError, NoError, DD!Throw, Throw,
  DD!ThrowAfter, ThrowAfter, DD!Named, Named, DD!Http, Http, DD!Driver, Driver, DD!Zod, Zod,
  DD!Done, Done, DD!TransferRow, TransferRow, DD!Shown, Shown, DD!Stored, Stored,
  DD!Moved, Moved, DD!CreatedRow, CreatedRow, DD!Listed, Listed, DD!Opened, Opened

\* Every handler of the ddd server keeps the contract.
LEMMA DddContract ==
  ASSUME app = "ddd", NEW s \in Slots, call[s] \in Call, db \in Database,
         db.open = db.listed,
         NEW fresh, NEW raced, call[s].route \in CommonRoutes \ {"live", "ready", "metrics"}
  PROVE  Contracted(s, HandleOf(s, fresh, raced), fresh)
<1> DEFINE c == call[s]
           o == HandleOf(s, fresh, raced)
           invalid == Named("InvalidIdError")
           noAccount == Named("AccountNotFoundError")
           noTransfer == Named("TransferNotFoundError")
<1>0. ~EventSourced /\ app # "n-tier"
  BY DEF EventSourced
<1>1. o = DD!Handle(db, s, c, fresh, raced)
  BY DEF HandleOf
<1>8. /\ invalid # NoError /\ Code(ThrowAfter(<<>>, invalid)) = 400
      /\ noAccount # NoError /\ Code(ThrowAfter(<<>>, noAccount)) = 404
      /\ noTransfer # NoError /\ Code(ThrowAfter(<<>>, noTransfer)) = 404
  BY Codes DEF BadRequests, NotFounds
<1>9. c.amount \in Int
  BY DEF Call
<1> SUFFICES Contracted(s, o, fresh)
  OBVIOUS
<1> HIDE DEF o
<1>2. CASE c.route = "createAccount"
  <2>1. o = Checked(<< Valid(c, Zod) >>, DD!CreateAccount(db, c, fresh))
    BY <1>1, <1>2, DddWords DEF DD!Handle, DD!AccountController, DD!CreateAccountDto,
       DD!AccountBody,
       DD!Check, WellFormed, Valid
  <2>2. ASSUME WellFormed(c) PROVE Contracted(s, DD!CreateAccount(db, c, fresh), fresh)
    <3>1. DD!CreateAccount(db, c, fresh) =
            Checked(<< NoError, NoError >>, Done(201, << CreatedRow(db, fresh, c) >>))
      BY <1>2, <2>2, DddWords DEF DD!CreateAccount, DD!Check, DD!SaveAccount, DD!ValidMoney,
         WellFormed
    <3>2. DD!CreateAccount(db, c, fresh) =
            Done(201, << CreatedRow(db, fresh, c) >>)
      BY <3>1, Checked2
    <3>3. << CreatedRow(db, fresh, c) >> \in Created(s, fresh)
      BY <1>0 DEF Created
    <3> QED BY <1>2, <2>2, <3>2, <3>3, AccountCreated
  <2> QED BY <2>1, <2>2, BodyRefused
<1>3. CASE c.route = "getAccount"
  <2>1. o = Checked(<< Valid(c, invalid), Existing(c, noAccount) >>, Done(200, <<>>))
    BY <1>1, <1>3, DddWords DEF DD!Handle, DD!AccountController, DD!GetAccountById,
       DD!Check, DD!IsUuid, DD!ValidId, DD!FindById,
       WellFormed, NeedsId, Found, Valid, Existing
  <2> QED BY <1>3, <1>8, <2>1, LookedUp
<1>4. CASE c.route = "listAccounts"
  <2>1. o = Done(200, <<>>) /\ WellFormed(c) /\ Found(c)
    BY <1>1, <1>4, DddWords DEF DD!Handle, DD!AccountController, DD!ListAccounts,
       WellFormed, Found, NeedsId
  <2> QED BY <1>4, <2>1, Codes DEF Contracted
<1>5. CASE c.route = "getTransfer"
  <2>1. o = Checked(<< Valid(c, invalid), Existing(c, noTransfer) >>, Done(200, <<>>))
    BY <1>1, <1>5, DddWords DEF DD!Handle, DD!TransferController, DD!GetTransferById,
       DD!Check, DD!IsUuid, DD!ValidId, DD!FindTransferById,
       WellFormed, NeedsId, Found, Valid, Existing
  <2> QED BY <1>5, <1>8, <2>1, LookedUp
<1>6. CASE c.route = "createTransfer"
  <2>1. o = Checked(<< Valid(c, Zod) >>, DD!InitiateTransfer(db, s, c))
    BY <1>1, <1>6, DddWords DEF DD!Handle, DD!TransferController, DD!InitiateTransferDto,
       DD!TransferBody,
       DD!IsUuid, DD!Check, WellFormed, Valid
  <2>2. ASSUME WellFormed(c) PROVE Contracted(s, DD!InitiateTransfer(db, s, c), fresh)
    <3> DEFINE failed == << TransferRow(db, s, "FAILED"), TransferRow(db, s, "FAILED") >>
    <3> DEFINE rest ==
                 IF ~(db.balance[c.id] >= c.amount)
                   THEN ThrowAfter(failed, Named("InsufficientFundsError"))
                   ELSE Done(201, << TransferRow(Moved(db, c), s, "COMPLETED") >>)
    <3>1. DD!InitiateTransfer(db, s, c) =
            Checked(<< NoError, NoError, NoError, NoError, IsOpen(c.id, noAccount), IsOpen(c.to, noAccount) >>, rest)
      BY <1>9, <1>6, <2>2, DddWords DEF DD!InitiateTransfer, DD!Check, DD!IsUuid,
         DD!FindById, WellFormed, DD!ValidId, DD!ValidMoney, IsOpen
    <3>2. ASSUME Found(c) PROVE Contracted(s, rest, fresh)
      <4>1. c.id \in AccountIds /\ db.balance[c.id] \in Int /\ c.amount \in Int
        BY <1>6, <3>2 DEF Found, Database, Call
      <4>2. /\ failed \in Failed(s)
            /\ << TransferRow(Moved(db, c), s, "COMPLETED") >> \in Completed(s)
        BY DEF Failed, Completed
      <4>3. Code(ThrowAfter(failed, Named("InsufficientFundsError"))) = 400
        BY Codes DEF BadRequests
      <4> QED BY <1>0, <1>6, <2>2, <3>2, <4>1, <4>2, <4>3, Codes DEF Contracted, Short
    <3> HIDE DEF rest
    <3>3. DD!InitiateTransfer(db, s, c) =
            Checked(<< IsOpen(c.id, noAccount), IsOpen(c.to, noAccount) >>, rest)
      BY <3>1, Checked6, Checked2
    <3> QED BY <1>6, <1>8, <2>2, <3>2, <3>3, TransferHandled
  <2> QED BY <2>1, <2>2, BodyRefused
<1> QED BY <1>2, <1>3, <1>4, <1>5, <1>6 DEF CommonRoutes, Routes

\* The cqrs-es variant has its own copy of the vocabulary of handlers.
LEMMA CqrsEsWords ==
  /\ ES!NoError = NoError
  /\ \A n : ES!Named(n) = Named(n)
  /\ \A n : ES!Http(n) = Http(n)
  /\ \A n : ES!Driver(n) = Driver(n)
  /\ ES!Zod = Zod
  /\ \A checks, rest : ES!Checked(checks, rest) = Checked(checks, rest)
  /\ \A e : ES!Throw(e) = Throw(e)
  /\ \A x, e : ES!ThrowAfter(x, e) = ThrowAfter(x, e)
  /\ \A x, e : ES!Done(x, e) = Done(x, e)
  /\ \A d, s, x : ES!Stored(d, s, x) = Stored(d, s, x)
  /\ \A d, s : ES!Shown(d, s) = Shown(d, s)
  /\ \A d, s, x : ES!TransferRow(d, s, x) = TransferRow(d, s, x)
  /\ \A d, c : ES!Moved(d, c) = Moved(d, c)
  /\ \A d, a, x : ES!Opened(d, a, x) = Opened(d, a, x)
  /\ \A d, a : ES!Listed(d, a) = Listed(d, a)
  /\ \A d, a, c : ES!CreatedRow(d, a, c) = CreatedRow(d, a, c)
BY DEF ES!Checked, Checked, ES!Error, Error, ES!NoError, NoError, ES!Throw, Throw,
  ES!ThrowAfter, ThrowAfter, ES!Named, Named, ES!Http, Http, ES!Driver, Driver, ES!Zod, Zod,
  ES!Done, Done, ES!TransferRow, TransferRow, ES!Shown, Shown, ES!Stored, Stored,
  ES!Moved, Moved, ES!CreatedRow, CreatedRow, ES!Listed, Listed, ES!Opened, Opened

\* Every handler of the cqrs-es server keeps the contract.
LEMMA CqrsEsContract ==
  ASSUME app = "cqrs-es", NEW s \in Slots, call[s] \in Call, db \in Database,
         NEW fresh, NEW raced, call[s].route \in (CommonRoutes \cup {"getAccountEvents"}) \ {"live", "ready", "metrics"}
  PROVE  Contracted(s, HandleOf(s, fresh, raced), fresh)
<1> DEFINE c == call[s]
           o == HandleOf(s, fresh, raced)
           invalid == Named("InvalidIdError")
           noAccount == Named("AccountNotFoundError")
           noTransfer == Named("TransferNotFoundError")
<1>0. EventSourced
  BY DEF EventSourced
<1>1. o = ES!Handle(db, s, c, fresh, raced)
  BY DEF HandleOf
<1>8. /\ invalid # NoError /\ Code(ThrowAfter(<<>>, invalid)) = 400
      /\ noAccount # NoError /\ Code(ThrowAfter(<<>>, noAccount)) = 404
      /\ noTransfer # NoError /\ Code(ThrowAfter(<<>>, noTransfer)) = 404
  BY Codes DEF BadRequests, NotFounds
<1>9. c.amount \in Int
  BY DEF Call
<1> SUFFICES Contracted(s, o, fresh)
  OBVIOUS
<1> HIDE DEF o
<1>2. CASE c.route = "createAccount"
  <2>1. o = Checked(<< Valid(c, Zod) >>, ES!CreateAccountHandler(db, c, fresh))
    BY <1>1, <1>2, CqrsEsWords DEF ES!Handle, ES!AccountController, ES!CreateAccountDto,
       ES!AccountBody,
       ES!Check, WellFormed, Valid
  <2>2. ASSUME WellFormed(c) PROVE Contracted(s, ES!CreateAccountHandler(db, c, fresh), fresh)
    <3>1. ES!CreateAccountHandler(db, c, fresh) =
            Checked(<< NoError, NoError >>, Done(201, << Opened(db, fresh, c.amount), Listed(Opened(db, fresh, c.amount), fresh) >>))
      BY <1>2, <2>2, CqrsEsWords DEF ES!CreateAccountHandler, ES!Check, ES!NewAccount,
         WellFormed
    <3>2. ES!CreateAccountHandler(db, c, fresh) =
            Done(201, << Opened(db, fresh, c.amount), Listed(Opened(db, fresh, c.amount), fresh) >>)
      BY <3>1, Checked2
    <3>3. << Opened(db, fresh, c.amount), Listed(Opened(db, fresh, c.amount), fresh) >> \in Created(s, fresh)
      BY <1>0 DEF Created
    <3> QED BY <1>2, <2>2, <3>2, <3>3, AccountCreated
  <2> QED BY <2>1, <2>2, BodyRefused
<1>3. CASE c.route = "getAccount"
  <2>1. o = Checked(<< Valid(c, invalid), Existing(c, noAccount) >>, Done(200, <<>>))
    BY <1>1, <1>3, CqrsEsWords DEF ES!Handle, ES!AccountController, ES!GetAccountHandler,
       ES!Check, ES!IsUuid,
       WellFormed, NeedsId, Found, Valid, Existing
  <2> QED BY <1>3, <1>8, <2>1, LookedUp
<1>4. CASE c.route = "listAccounts"
  <2>1. o = Done(200, <<>>) /\ WellFormed(c) /\ Found(c)
    BY <1>1, <1>4, CqrsEsWords DEF ES!Handle, ES!AccountController, ES!ListAccountsHandler,
       WellFormed, Found, NeedsId
  <2> QED BY <1>4, <2>1, Codes DEF Contracted
<1>5. CASE c.route = "getTransfer"
  <2>1. o = Checked(<< Valid(c, invalid), Existing(c, noTransfer) >>, Done(200, <<>>))
    BY <1>1, <1>5, CqrsEsWords DEF ES!Handle, ES!TransferController, ES!GetTransferHandler,
       ES!Check, ES!IsUuid,
       WellFormed, NeedsId, Found, Valid, Existing
  <2> QED BY <1>5, <1>8, <2>1, LookedUp
<1>6. CASE c.route = "createTransfer"
  <2>1. o = Checked(<< Valid(c, Zod) >>, ES!InitiateTransferHandler(db, s, c, raced))
    BY <1>1, <1>6, CqrsEsWords DEF ES!Handle, ES!TransferController, ES!InitiateTransferDto,
       ES!TransferBody,
       ES!IsUuid, ES!Check, WellFormed, Valid
  <2>2. ASSUME WellFormed(c) PROVE Contracted(s, ES!InitiateTransferHandler(db, s, c, raced), fresh)
    <3> DEFINE rest ==
                 IF db.balance[c.id] < c.amount
                      THEN Done(201, << Stored(db, s, "FAILED"), Shown(Stored(db, s, "FAILED"), s) >>)
                    ELSE IF raced \/ c.id = c.to THEN Throw(Driver(UniqueViolationState))
                    ELSE LET stored == Stored(Moved(db, c), s, "COMPLETED")
                         IN  Done(201, << stored, Shown(stored, s), Shown(stored, s) >>)
    <3>1. ES!InitiateTransferHandler(db, s, c, raced) =
            Checked(<< NoError, IsOpen(c.id, noAccount), IsOpen(c.to, noAccount) >>, rest)
      BY <1>9, <1>6, <2>2, CqrsEsWords DEF ES!InitiateTransferHandler, ES!Check,
         ES!AppendError, ES!IsUniqueViolation, Driver, Error, ES!UniqueViolationState,
         UniqueViolationState, WellFormed, IsOpen
    <3>2. ASSUME Found(c) PROVE Contracted(s, rest, fresh)
      <4>1. c.id \in AccountIds /\ db.balance[c.id] \in Int /\ c.amount \in Int
        BY <1>6, <3>2 DEF Found, Database, Call
      <4>2. << Stored(db, s, "FAILED"), Shown(Stored(db, s, "FAILED"), s) >> \in Failed(s)
        BY DEF Failed
      <4>3. << Stored(Moved(db, c), s, "COMPLETED"), Shown(Stored(Moved(db, c), s, "COMPLETED"), s),
               Shown(Stored(Moved(db, c), s, "COMPLETED"), s) >> \in Completed(s)
        BY DEF Completed
      <4> QED BY <1>0, <1>6, <2>2, <3>2, <4>1, <4>2, <4>3, Codes DEF Contracted, Short, Throw
    <3> HIDE DEF rest
    <3>3. ES!InitiateTransferHandler(db, s, c, raced) =
            Checked(<< IsOpen(c.id, noAccount), IsOpen(c.to, noAccount) >>, rest)
      BY <3>1, Checked3, Checked2
    <3> QED BY <1>6, <1>8, <2>2, <3>2, <3>3, TransferHandled
  <2> QED BY <2>1, <2>2, BodyRefused
<1>7. CASE c.route = "getAccountEvents"
  <2>1. o = Checked(<< Valid(c, invalid), Existing(c, noAccount) >>, Done(200, <<>>))
    BY <1>1, <1>7, CqrsEsWords DEF ES!Handle, ES!AccountController,
       ES!GetAccountEventsHandler, ES!Check, ES!IsUuid,
       WellFormed, NeedsId, Found, Valid, Existing
  <2> QED BY <1>7, <1>8, <2>1, LookedUp
<1> QED BY <1>2, <1>3, <1>4, <1>5, <1>6, <1>7 DEF CommonRoutes, Routes

\* The cqrs-es-nestjs variant has its own copy of the vocabulary of handlers.
LEMMA CqrsEsNestWords ==
  /\ NE!NoError = NoError
  /\ \A n : NE!Named(n) = Named(n)
  /\ \A n : NE!Http(n) = Http(n)
  /\ \A n : NE!Driver(n) = Driver(n)
  /\ NE!Zod = Zod
  /\ \A checks, rest : NE!Checked(checks, rest) = Checked(checks, rest)
  /\ \A e : NE!Throw(e) = Throw(e)
  /\ \A x, e : NE!ThrowAfter(x, e) = ThrowAfter(x, e)
  /\ \A x, e : NE!Done(x, e) = Done(x, e)
  /\ \A d, s, x : NE!Stored(d, s, x) = Stored(d, s, x)
  /\ \A d, s : NE!Shown(d, s) = Shown(d, s)
  /\ \A d, s, x : NE!TransferRow(d, s, x) = TransferRow(d, s, x)
  /\ \A d, c : NE!Moved(d, c) = Moved(d, c)
  /\ \A d, a, x : NE!Opened(d, a, x) = Opened(d, a, x)
  /\ \A d, a : NE!Listed(d, a) = Listed(d, a)
  /\ \A d, a, c : NE!CreatedRow(d, a, c) = CreatedRow(d, a, c)
BY DEF NE!Checked, Checked, NE!Error, Error, NE!NoError, NoError, NE!Throw, Throw,
  NE!ThrowAfter, ThrowAfter, NE!Named, Named, NE!Http, Http, NE!Driver, Driver, NE!Zod, Zod,
  NE!Done, Done, NE!TransferRow, TransferRow, NE!Shown, Shown, NE!Stored, Stored,
  NE!Moved, Moved, NE!CreatedRow, CreatedRow, NE!Listed, Listed, NE!Opened, Opened

\* Every handler of the cqrs-es-nestjs server keeps the contract.
LEMMA CqrsEsNestContract ==
  ASSUME app = "cqrs-es-nestjs", NEW s \in Slots, call[s] \in Call, db \in Database,
         NEW fresh, NEW raced, call[s].route \in (CommonRoutes \cup {"getAccountEvents"}) \ {"live", "ready", "metrics"}
  PROVE  Contracted(s, HandleOf(s, fresh, raced), fresh)
<1> DEFINE c == call[s]
           o == HandleOf(s, fresh, raced)
           invalid == Named("InvalidIdError")
           noAccount == Named("AccountNotFoundError")
           noTransfer == Named("TransferNotFoundError")
<1>0. EventSourced
  BY DEF EventSourced
<1>1. o = NE!Handle(db, s, c, fresh, raced)
  BY DEF HandleOf
<1>8. /\ invalid # NoError /\ Code(ThrowAfter(<<>>, invalid)) = 400
      /\ noAccount # NoError /\ Code(ThrowAfter(<<>>, noAccount)) = 404
      /\ noTransfer # NoError /\ Code(ThrowAfter(<<>>, noTransfer)) = 404
  BY Codes DEF BadRequests, NotFounds
<1>9. c.amount \in Int
  BY DEF Call
<1> SUFFICES Contracted(s, o, fresh)
  OBVIOUS
<1> HIDE DEF o
<1>2. CASE c.route = "createAccount"
  <2>1. o = Checked(<< Valid(c, Zod) >>, NE!CreateAccountHandler(db, c, fresh))
    BY <1>1, <1>2, CqrsEsNestWords DEF NE!Handle, NE!AccountController, NE!CreateAccountDto,
       NE!AccountBody,
       NE!Check, WellFormed, Valid
  <2>2. ASSUME WellFormed(c) PROVE Contracted(s, NE!CreateAccountHandler(db, c, fresh), fresh)
    <3>1. NE!CreateAccountHandler(db, c, fresh) =
            Checked(<< NoError, NoError >>, Done(201, << Opened(db, fresh, c.amount), Listed(Opened(db, fresh, c.amount), fresh) >>))
      BY <1>2, <2>2, CqrsEsNestWords DEF NE!CreateAccountHandler, NE!Check, NE!NewAccount,
         WellFormed
    <3>2. NE!CreateAccountHandler(db, c, fresh) =
            Done(201, << Opened(db, fresh, c.amount), Listed(Opened(db, fresh, c.amount), fresh) >>)
      BY <3>1, Checked2
    <3>3. << Opened(db, fresh, c.amount), Listed(Opened(db, fresh, c.amount), fresh) >> \in Created(s, fresh)
      BY <1>0 DEF Created
    <3> QED BY <1>2, <2>2, <3>2, <3>3, AccountCreated
  <2> QED BY <2>1, <2>2, BodyRefused
<1>3. CASE c.route = "getAccount"
  <2>1. o = Checked(<< Valid(c, invalid), Existing(c, noAccount) >>, Done(200, <<>>))
    BY <1>1, <1>3, CqrsEsNestWords DEF NE!Handle, NE!AccountController,
       NE!GetAccountHandler, NE!Check, NE!IsUuid,
       WellFormed, NeedsId, Found, Valid, Existing
  <2> QED BY <1>3, <1>8, <2>1, LookedUp
<1>4. CASE c.route = "listAccounts"
  <2>1. o = Done(200, <<>>) /\ WellFormed(c) /\ Found(c)
    BY <1>1, <1>4, CqrsEsNestWords DEF NE!Handle, NE!AccountController,
       NE!ListAccountsHandler, WellFormed, Found, NeedsId
  <2> QED BY <1>4, <2>1, Codes DEF Contracted
<1>5. CASE c.route = "getTransfer"
  <2>1. o = Checked(<< Valid(c, invalid), Existing(c, noTransfer) >>, Done(200, <<>>))
    BY <1>1, <1>5, CqrsEsNestWords DEF NE!Handle, NE!TransferController,
       NE!GetTransferHandler, NE!Check, NE!IsUuid,
       WellFormed, NeedsId, Found, Valid, Existing
  <2> QED BY <1>5, <1>8, <2>1, LookedUp
<1>6. CASE c.route = "createTransfer"
  <2>1. o = Checked(<< Valid(c, Zod) >>, NE!InitiateTransferHandler(db, s, c, raced))
    BY <1>1, <1>6, CqrsEsNestWords DEF NE!Handle, NE!TransferController,
       NE!InitiateTransferDto, NE!TransferBody,
       NE!IsUuid, NE!Check, WellFormed, Valid
  <2>2. ASSUME WellFormed(c) PROVE Contracted(s, NE!InitiateTransferHandler(db, s, c, raced), fresh)
    <3> DEFINE rest ==
                 IF db.balance[c.id] < c.amount
                      THEN Done(201, << Stored(db, s, "FAILED"), Shown(Stored(db, s, "FAILED"), s) >>)
                    ELSE IF raced \/ c.id = c.to THEN Throw(Driver(UniqueViolationState))
                    ELSE LET stored == Stored(Moved(db, c), s, "COMPLETED")
                         IN  Done(201, << stored, Shown(stored, s), Shown(stored, s) >>)
    <3>1. NE!InitiateTransferHandler(db, s, c, raced) =
            Checked(<< NoError, IsOpen(c.id, noAccount), IsOpen(c.to, noAccount) >>, rest)
      BY <1>9, <1>6, <2>2, CqrsEsNestWords DEF NE!InitiateTransferHandler, NE!Check,
         NE!AppendError, NE!IsUniqueViolation, Driver, Error, NE!UniqueViolationState,
         UniqueViolationState, WellFormed, IsOpen
    <3>2. ASSUME Found(c) PROVE Contracted(s, rest, fresh)
      <4>1. c.id \in AccountIds /\ db.balance[c.id] \in Int /\ c.amount \in Int
        BY <1>6, <3>2 DEF Found, Database, Call
      <4>2. << Stored(db, s, "FAILED"), Shown(Stored(db, s, "FAILED"), s) >> \in Failed(s)
        BY DEF Failed
      <4>3. << Stored(Moved(db, c), s, "COMPLETED"), Shown(Stored(Moved(db, c), s, "COMPLETED"), s),
               Shown(Stored(Moved(db, c), s, "COMPLETED"), s) >> \in Completed(s)
        BY DEF Completed
      <4> QED BY <1>0, <1>6, <2>2, <3>2, <4>1, <4>2, <4>3, Codes DEF Contracted, Short, Throw
    <3> HIDE DEF rest
    <3>3. NE!InitiateTransferHandler(db, s, c, raced) =
            Checked(<< IsOpen(c.id, noAccount), IsOpen(c.to, noAccount) >>, rest)
      BY <3>1, Checked3, Checked2
    <3> QED BY <1>6, <1>8, <2>2, <3>2, <3>3, TransferHandled
  <2> QED BY <2>1, <2>2, BodyRefused
<1>7. CASE c.route = "getAccountEvents"
  <2>1. o = Checked(<< Valid(c, invalid), Existing(c, noAccount) >>, Done(200, <<>>))
    BY <1>1, <1>7, CqrsEsNestWords DEF NE!Handle, NE!AccountController,
       NE!GetAccountEventsHandler, NE!Check, NE!IsUuid,
       WellFormed, NeedsId, Found, Valid, Existing
  <2> QED BY <1>7, <1>8, <2>1, LookedUp
<1> QED BY <1>2, <1>3, <1>4, <1>5, <1>6, <1>7 DEF CommonRoutes, Routes

-----------------------------------------------------------------------------
(* The tables *)

\* The hypothesis of the theorems about the tables: a new account gets an id
\* no account has (randomUUID).
UnlimitedIds == ~IsFiniteSet(AccountIds)

\* The tables are tables, and a variant with an accounts table lists what is
\* open.
TablesInv ==
  /\ db \in Database
  /\ IsFiniteSet(db.open)
  /\ ~EventSourced => db.open = db.listed

\* What was sent is what the deployment says.
RequestsInv ==
  /\ env \in Env /\ call \in [Slots -> Call]
  /\ thrown = [s \in Slots |-> thrown[s]]

\* The strengthening of the properties of the answers.
ServedInv == ProgressInv /\ RequestsInv /\ TablesInv

\* The writes of the handlers keep the type of the tables.
LEMMA Fits ==
  ASSUME db \in Database, NEW s \in Slots, call[s] \in Call, NEW fresh \in AccountIds
  PROVE  /\ Opened(db, fresh, call[s].amount) \in Database
         /\ \A d \in Database : Listed(d, fresh) \in Database
         /\ \A d \in Database : \A x \in {"COMPLETED", "FAILED"} : Stored(d, s, x) \in Database
         /\ \A d \in Database : Shown(d, s) \in Database
         /\ {call[s].id, call[s].to} \subseteq db.open => Moved(db, call[s]) \in Database
<1>0. call[s].amount \in Int
  BY DEF Call
<1>1. Opened(db, fresh, call[s].amount) \in Database
  BY <1>0 DEF Opened, Database
<1>2. \A d \in Database : Listed(d, fresh) \in Database
  BY DEF Listed, Database
<1>3. \A d \in Database : \A x \in {"COMPLETED", "FAILED"} : Stored(d, s, x) \in Database
  BY DEF Stored, Database
<1>4. \A d \in Database : Shown(d, s) \in Database
  BY DEF Shown, Database
<1>5. ASSUME {call[s].id, call[s].to} \subseteq db.open PROVE Moved(db, call[s]) \in Database
  <2> DEFINE paid == [db.balance EXCEPT ![call[s].id] = db.balance[call[s].id] - call[s].amount]
             both == [paid EXCEPT ![call[s].to] = db.balance[call[s].to] + call[s].amount]
  <2>1. db.balance \in [AccountIds -> Int] /\ db.open \subseteq AccountIds
    BY DEF Database
  <2>2. both \in [AccountIds -> Int]
    BY <1>0, <1>5, <2>1
  <2>3. Moved(db, call[s]) = [db EXCEPT !.balance = both]
    BY DEF Moved, Database
  <2> HIDE DEF both
  <2> QED BY <2>2, <2>3 DEF Database
<1> QED BY <1>1, <1>2, <1>3, <1>4, <1>5

\* What a statement or transaction of a contracted handler leaves behind.
LEMMA CommitsFit ==
  ASSUME TablesInv, NEW s \in Slots, call[s] \in Call, NEW fresh \in AccountIds,
         NEW o, Contracted(s, o, fresh)
  PROVE  /\ Len(o.commits) \in Nat
         /\ \A n \in 1 .. Len(o.commits) :
              /\ o.commits[n] \in Database
              /\ IsFiniteSet(o.commits[n].open)
              /\ ~EventSourced => o.commits[n].open = o.commits[n].listed
<1> DEFINE c == call[s]
           Fit(d) == /\ d \in Database /\ IsFiniteSet(d.open)
                     /\ ~EventSourced => d.open = d.listed
           opened == Opened(db, fresh, c.amount)
           moved == Moved(db, c)
<1>0. db \in Database /\ Fit(db)
  BY DEF TablesInv
<1>1. CASE o.commits = <<>>
  BY <1>1
<1>2. CASE o.commits \in Created(s, fresh)
  <2>1. opened \in Database /\ Listed(opened, fresh) \in Database
    BY <1>0, Fits
  <2>2. /\ opened.open = db.open \cup {fresh} /\ opened.listed = db.listed
        /\ Listed(opened, fresh).open = db.open \cup {fresh}
        /\ Listed(opened, fresh).listed = db.listed \cup {fresh}
    BY <1>0 DEF Opened, Listed, Database
  <2>3. IsFiniteSet(db.open \cup {fresh})
    BY <1>0, FS_AddElement
  <2>4. Fit(Listed(opened, fresh)) /\ (EventSourced => Fit(opened))
    BY <1>0, <2>1, <2>2, <2>3
  <2> HIDE DEF Fit, opened
  <2>5. CASE EventSourced
    <3>1. o.commits = << opened, Listed(opened, fresh) >>
      BY <1>2, <2>5 DEF Created, opened
    <3> QED BY <2>4, <2>5, <3>1 DEF Fit
  <2>6. CASE ~EventSourced
    <3>1. o.commits = << Listed(opened, fresh) >>
      BY <1>2, <2>6 DEF Created, CreatedRow, opened
    <3> QED BY <2>4, <2>6, <3>1 DEF Fit
  <2> QED BY <2>5, <2>6
<1>3. ASSUME NEW d \in Database, NEW x \in {"COMPLETED", "FAILED"}, Fit(d)
      PROVE  Fit(Stored(d, s, x)) /\ Fit(Shown(Stored(d, s, x), s))
  <2>1. Stored(d, s, x) \in Database /\ Shown(Stored(d, s, x), s) \in Database
    BY <1>0, <1>3, Fits
  <2>2. /\ Stored(d, s, x).open = d.open /\ Stored(d, s, x).listed = d.listed
        /\ Shown(Stored(d, s, x), s).open = d.open /\ Shown(Stored(d, s, x), s).listed = d.listed
    BY DEF Stored, Shown, Database
  <2> QED BY <1>3, <2>1, <2>2
<1>4. CASE o.commits \in Failed(s)
  <2> DEFINE stored == Stored(db, s, "FAILED")
  <2>1. Fit(stored) /\ Fit(Shown(stored, s))
    BY <1>0, <1>3
  <2>2. o.commits \in {<< Shown(stored, s) >>, << Shown(stored, s), Shown(stored, s) >>,
                       << stored, Shown(stored, s) >>}
    BY <1>4 DEF Failed, TransferRow
  <2> HIDE DEF Fit, stored
  <2>3. \A n \in 1 .. Len(o.commits) : o.commits[n] \in {stored, Shown(stored, s)}
    BY <2>2
  <2>4. Len(o.commits) \in Nat
    BY <2>2
  <2> QED BY <2>1, <2>3, <2>4 DEF Fit
<1>5. CASE o.commits \in Completed(s) /\ {c.id, c.to} \subseteq db.open
  <2> DEFINE stored == Stored(moved, s, "COMPLETED")
  <2>1. moved \in Database /\ moved.open = db.open /\ moved.listed = db.listed
    BY <1>0, <1>5, Fits DEF Moved, Database
  <2>2. Fit(stored) /\ Fit(Shown(stored, s))
    BY <1>0, <1>3, <2>1
  <2>3. o.commits \in {<< Shown(stored, s) >>, << stored, Shown(stored, s), Shown(stored, s) >>}
    BY <1>5 DEF Completed, TransferRow
  <2> HIDE DEF Fit, stored
  <2>4. \A n \in 1 .. Len(o.commits) : o.commits[n] \in {stored, Shown(stored, s)}
    BY <2>3
  <2>5. Len(o.commits) \in Nat
    BY <2>3
  <2> QED BY <2>2, <2>4, <2>5 DEF Fit
<1> QED BY <1>1, <1>2, <1>4, <1>5 DEF Contracted, Found

\* There is an id for a new account.
LEMMA FreshId ==
  ASSUME UnlimitedIds, TablesInv
  PROVE  Fresh \in AccountIds /\ Fresh \notin db.open
<1>1. db.open \subseteq AccountIds /\ IsFiniteSet(db.open)
  BY DEF TablesInv, Database
<1>2. \E a \in AccountIds : a \notin db.open
  BY <1>1, FS_Subset DEF UnlimitedIds
<1> QED BY <1>2 DEF Fresh

\* All seven keep the contract, whatever the tables.
LEMMA EveryContract ==
  ASSUME UnlimitedIds, ServedInv, app \in Architectures, NEW s \in Slots, NEW raced,
         pc[s] = "handler", call[s].route \notin {"live", "ready", "metrics"}
  PROVE  Contracted(s, HandleOf(s, Fresh, raced), Fresh)
<1>1. /\ call[s] \in Call /\ db \in Database /\ (~EventSourced => db.open = db.listed)
      /\ Routed(call[s])
  BY DEF ServedInv, ProgressInv, RequestsInv, TablesInv
<1>2. CASE EventSourced
  <2>1. call[s].route \in (CommonRoutes \cup {"getAccountEvents"}) \ {"live", "ready", "metrics"}
    BY <1>1 DEF Routed
  <2> QED BY <1>1, <1>2, <2>1, CqrsEsContract, CqrsEsNestContract DEF EventSourced
<1>3. CASE ~EventSourced
  <2>1. call[s].route \in CommonRoutes \ {"live", "ready", "metrics"}
    BY <1>1, <1>3 DEF Routed
  <2> QED BY <1>1, <1>3, <2>1, NTierContract, HexagonalContract, OnionContract, CleanContract,
             DddContract DEF Architectures, EventSourced
<1> QED BY <1>2, <1>3

\* A handler that ends by itself has ended as contracted, and left the tables
\* of its last commit.
LEMMA ServedAsContracted ==
  ASSUME UnlimitedIds, ServedInv, app \in Architectures, NEW s \in Slots, Serves(s)
  PROVE  \E o : /\ Contracted(s, o, Fresh)
                /\ db' = IF Len(o.commits) = 0 THEN db ELSE o.commits[Len(o.commits)]
                /\ thrown' = [thrown EXCEPT ![s] = o.error]
                /\ Answers(s, Code(o))
BY EveryContract DEF Serves, Code

\* One of whose statements fails leaves the tables of one of its commits.
LEMMA FailedAsContracted ==
  ASSUME UnlimitedIds, ServedInv, app \in Architectures, NEW s \in Slots, Fails(s)
  PROVE  /\ \E o : /\ Contracted(s, o, Fresh)
                   /\ \E n \in 0 .. Len(o.commits) : db' = IF n = 0 THEN db ELSE o.commits[n]
         /\ thrown' = [thrown EXCEPT ![s] = Driver("57014")]
         /\ Answers(s, 500)
<1>1. \A n : CatchOf(Driver(n)) = 500
  BY DriverIsServerError
<1> QED BY <1>1, EveryContract DEF Fails

LEMMA TablesKept ==
  ASSUME UnlimitedIds, ServedInv, app \in Architectures, Next
  PROVE  TablesInv'
<1>1. EventSourced' <=> EventSourced
  BY DEF Next, EventSourced
<1>2. CASE db' = db
  BY <1>1, <1>2 DEF ServedInv, TablesInv
<1>3. ASSUME NEW s \in Slots, NEW o, Contracted(s, o, Fresh), NEW n \in 1 .. Len(o.commits),
             db' = o.commits[n]
      PROVE  TablesInv'
  <2>1. call[s] \in Call /\ TablesInv /\ Fresh \in AccountIds
    BY FreshId DEF ServedInv, RequestsInv
  <2> QED BY <1>1, <1>3, <2>1, CommitsFit DEF TablesInv
<1>4. ASSUME NEW s \in Slots, Serves(s) PROVE TablesInv'
  <2>1. PICK o : /\ Contracted(s, o, Fresh)
                 /\ db' = IF Len(o.commits) = 0 THEN db ELSE o.commits[Len(o.commits)]
    BY <1>4, ServedAsContracted
  <2>2. Len(o.commits) \in Nat
    BY <2>1, CommitsFit, FreshId DEF ServedInv, RequestsInv
  <2> QED BY <1>2, <1>3, <2>1, <2>2
<1>5. ASSUME NEW s \in Slots, Fails(s) PROVE TablesInv'
  <2>1. PICK o : /\ Contracted(s, o, Fresh)
                 /\ \E n \in 0 .. Len(o.commits) : db' = IF n = 0 THEN db ELSE o.commits[n]
    BY <1>5, FailedAsContracted
  <2>2. Len(o.commits) \in Nat
    BY <2>1, CommitsFit, FreshId DEF ServedInv, RequestsInv
  <2> QED BY <1>2, <1>3, <2>1, <2>2
<1>6. ServerStep => db' = db \/ (\E s \in Slots : Serves(s) \/ Fails(s))
  BY DEF ServerStep, RequestStep, Starts, Idles, Arrives, Throttles, Authenticates,
     ServesOperational
<1> QED BY <1>2, <1>4, <1>5, <1>6, Stepping DEF Next

LEMMA RequestsKept == RequestsInv /\ ServerStep => RequestsInv'
<1> SUFFICES ASSUME RequestsInv, ServerStep PROVE RequestsInv'
  OBVIOUS
<1>1. CASE Starts \/ Idles
  BY <1>1 DEF Starts, Idles, RequestsInv
<1>2. ASSUME NEW s \in Slots, RequestStep(s) PROVE RequestsInv'
  <2>1. thrown' = thrown \/ \E e : thrown' = [thrown EXCEPT ![s] = e]
    BY <1>2 DEF RequestStep, Arrives, Throttles, Authenticates, ServesOperational, Serves, Fails
  <2> QED BY <1>2, <2>1, TakenOn DEF RequestsInv
<1> QED BY <1>1, <1>2 DEF ServerStep

LEMMA ServedInitially == Init => ServedInv
<1> SUFFICES ASSUME Init PROVE ServedInv
  OBVIOUS
<1>1. ProgressInv
  BY GateInitially DEF GateInv
<1>2. RequestsInv
  BY DeploymentsAssumption DEF Init, NT!S!Init, RequestsInv
<1>3. TablesInv
  BY AccountsAssumption DEF Init, NT!S!Init, TablesInv, Database
<1> QED BY <1>1, <1>2, <1>3 DEF ServedInv

LEMMA ServedKept == UnlimitedIds /\ ServedInv /\ [Next]_vars => ServedInv'
<1> SUFFICES ASSUME UnlimitedIds, ServedInv, [Next]_vars PROVE ServedInv'
  OBVIOUS
<1>1. ProgressInv'
  BY ProgressKept DEF ServedInv
<1>2. CASE UNCHANGED vars
  BY <1>1, <1>2 DEF vars, ServedInv, RequestsInv, TablesInv, EventSourced
<1>3. CASE Next
  BY <1>1, <1>3, RequestsKept, TablesKept, Stepping DEF ServedInv, Next
<1> QED BY <1>2, <1>3

\* The strengthening is an invariant of the seven servers.
THEOREM ServedInvariance ==
  ASSUME UnlimitedIds
  PROVE  Spec => []ServedInv
<1>1. ServedInv /\ [Next]_vars => ServedInv'
  BY ServedKept
<1> QED BY <1>1, ServedInitially, PTL DEF Spec

\* The statuses a contracted handler ends with.
LEMMA ContractedCodes ==
  ASSUME NEW s, NEW o, NEW fresh, Contracted(s, o, fresh)
  PROVE  Code(o) \in {200, 201, 400, 404, 409, 500}
BY DEF Contracted

\* Which step served a request.
LEMMA ServedBy ==
  ASSUME ProgressInv, Next, NEW s \in Slots, Served(s)
  PROVE  ServesOperational(s) \/ Serves(s) \/ Fails(s)
<1>1. ServerStep
  BY Stepping DEF Next
<1>2. pc[s] = "handler" /\ pc'[s] # pc[s]
  BY DEF Served
<1>3. RequestStep(s)
  BY <1>1, <1>2, OneRequest DEF ServerStep, Starts, Idles
<1> QED BY <1>2, <1>3 DEF RequestStep, Arrives, Throttles, Authenticates

LEMMA AnsweredWith ==
  ASSUME ProgressInv, NEW s \in Slots, NEW code, Answers(s, code)
  PROVE  status'[s] = code
BY DEF ProgressInv, Answers

\* What a contracted handler ends with is promised.
LEMMA ContractedIsPromised ==
  ASSUME NEW s, NEW o, NEW fresh, Contracted(s, o, fresh),
         call[s].route \notin {"live", "ready", "metrics"}
  PROVE  Code(o) \in Promised(call[s])
<1> DEFINE c == call[s]
<1>1. CASE ~WellFormed(c)
  BY <1>1 DEF Contracted, Promised
<1>2. CASE WellFormed(c) /\ ~Found(c)
  BY <1>2 DEF Contracted, Promised
<1>3. CASE WellFormed(c) /\ Found(c)
  BY <1>3 DEF Contracted, Promised
<1> QED BY <1>1, <1>2, <1>3

\* AnswersFollowContract: in all seven variants, for every number of requests,
\* accounts and amounts, the answer is what the request and the tables at its
\* service say, or 500 if a statement failed.
THEOREM AnswersAreContracted ==
  ASSUME UnlimitedIds
  PROVE  Spec => AnswersFollowContract
<1>1. ASSUME ServedInv, Next, NEW s \in Slots, Served(s)
      PROVE  \/ status'[s] \in Promised(call[s])
             \/ StatementFailed(s) /\ status'[s] = 500
  <2>0. ProgressInv /\ app \in Architectures
    BY <1>1, Stepping DEF ServedInv, Next
  <2>1. CASE ServesOperational(s)
    <3>1. WellFormed(call[s]) /\ Found(call[s])
      BY <2>1 DEF ServesOperational, WellFormed, NeedsId, Found
    <3>2. status'[s] = 200 \/ (call[s].route = "ready" /\ status'[s] = 503)
      BY <2>0, <2>1, AnsweredWith, HttpIsItsStatus DEF ServesOperational
    <3> QED BY <2>1, <3>1, <3>2 DEF ServesOperational, Promised
  <2>2. CASE Serves(s)
    <3>1. PICK o : Contracted(s, o, Fresh) /\ Answers(s, Code(o))
      BY <1>1, <2>0, <2>2, ServedAsContracted
    <3>2. call[s].route \notin {"live", "ready", "metrics"}
      BY <2>2 DEF Serves
    <3> QED BY <2>0, <3>1, <3>2, ContractedIsPromised, AnsweredWith
  <2>3. CASE Fails(s)
    <3>1. thrown' = [thrown EXCEPT ![s] = Driver("57014")] /\ Answers(s, 500)
      BY <1>1, <2>0, <2>3, FailedAsContracted
    <3>2. thrown'[s].cause = "57014"
      BY <1>1, <3>1 DEF ServedInv, RequestsInv, Driver, Error
    <3> QED BY <2>0, <3>1, <3>2, AnsweredWith DEF StatementFailed
  <2> QED BY <1>1, <2>0, <2>1, <2>2, <2>3, ServedBy
<1>2. ServedInv /\ [Next]_vars =>
        [\A s \in Slots : Served(s) =>
           \/ status'[s] \in Promised(call[s])
           \/ StatementFailed(s) /\ status'[s] = 500]_vars
  BY <1>1
<1> QED BY <1>2, ServedInvariance, PTL DEF Spec, AnswersFollowContract

\* The records of a contracted handler that has ended by itself.
OnRecord(s, o, after) ==
  /\ call[s].route = "createAccount" /\ Code(o) = 201 =>
       \E a \in after.listed : a \notin db.open
  /\ call[s].route = "createTransfer" /\ WellFormed(call[s]) /\ Found(call[s]) =>
       \/ s \in after.shown /\ after.record[s] = "COMPLETED" /\ ~Short(call[s])
       \/ /\ s \in after.shown /\ after.record[s] = "FAILED" /\ Short(call[s])
          /\ after.balance = db.balance
       \/ EventSourced /\ Code(o) \in {409, 500} /\ after = db

LEMMA ContractedIsOnRecord ==
  ASSUME TablesInv, NEW s \in Slots, call[s] \in Call, NEW fresh \in AccountIds, fresh \notin db.open,
         NEW o, Contracted(s, o, fresh), NEW after,
         after = IF Len(o.commits) = 0 THEN db ELSE o.commits[Len(o.commits)]
  PROVE  OnRecord(s, o, after)
<1> DEFINE c == call[s]
<1>0. db \in Database
  BY DEF TablesInv
<1>1. ASSUME c.route = "createAccount", Code(o) = 201
      PROVE  \E a \in after.listed : a \notin db.open
  <2> DEFINE stored == Opened(db, fresh, c.amount)
  <2>1. WellFormed(c) /\ Found(c)
    BY <1>1 DEF Contracted
  <2>2. o.commits \in Created(s, fresh)
    BY <1>1, <2>1 DEF Contracted
  <2>3. o.commits \in {<< Listed(stored, fresh) >>, << stored, Listed(stored, fresh) >>}
    BY <2>2 DEF Created, CreatedRow
  <2>4. fresh \in Listed(stored, fresh).listed
    <3>1. stored \in Database
      BY <1>0, Fits
    <3> QED BY <3>1 DEF Listed, Database
  <2> HIDE DEF stored
  <2>5. CASE o.commits = << Listed(stored, fresh) >>
    BY <2>4, <2>5
  <2>6. CASE o.commits = << stored, Listed(stored, fresh) >>
    BY <2>4, <2>6
  <2> QED BY <2>3, <2>5, <2>6
<1>2. ASSUME c.route = "createTransfer", WellFormed(c), Found(c)
      PROVE  \/ s \in after.shown /\ after.record[s] = "COMPLETED" /\ ~Short(c)
             \/ /\ s \in after.shown /\ after.record[s] = "FAILED" /\ Short(c)
                /\ after.balance = db.balance
             \/ EventSourced /\ Code(o) \in {409, 500} /\ after = db
  <2>0. \A d \in Database : \A x \in {"COMPLETED", "FAILED"} :
          /\ s \in Shown(Stored(d, s, x), s).shown
          /\ Shown(Stored(d, s, x), s).record[s] = x
          /\ Shown(Stored(d, s, x), s).balance = d.balance
    BY DEF Stored, Shown, Database
  <2>1. CASE ~Short(c) /\ o.commits \in Completed(s)
    <3> DEFINE shown == Shown(Stored(Moved(db, c), s, "COMPLETED"), s)
               stored == Stored(Moved(db, c), s, "COMPLETED")
    <3>1. Moved(db, c) \in Database
      BY <1>0, <1>2, Fits DEF Found
    <3>2. o.commits \in {<< shown >>, << stored, shown, shown >>}
      BY <2>1 DEF Completed, TransferRow
    <3>3. s \in shown.shown /\ shown.record[s] = "COMPLETED"
      BY <2>0, <3>1
    <3> HIDE DEF shown, stored
    <3>4. CASE o.commits = << shown >>
      BY <2>1, <3>3, <3>4
    <3>5. CASE o.commits = << stored, shown, shown >>
      BY <2>1, <3>3, <3>5
    <3> QED BY <3>2, <3>4, <3>5
  <2>2. CASE Short(c) /\ o.commits \in Failed(s)
    <3> DEFINE shown == Shown(Stored(db, s, "FAILED"), s)
               stored == Stored(db, s, "FAILED")
    <3>1. o.commits \in {<< shown >>, << shown, shown >>, << stored, shown >>}
      BY <2>2 DEF Failed, TransferRow
    <3>2. s \in shown.shown /\ shown.record[s] = "FAILED" /\ shown.balance = db.balance
      BY <1>0, <2>0
    <3> HIDE DEF shown, stored
    <3>3. CASE o.commits = << shown >>
      BY <2>2, <3>2, <3>3
    <3>4. CASE o.commits = << shown, shown >>
      BY <2>2, <3>2, <3>4
    <3>5. CASE o.commits = << stored, shown >>
      BY <2>2, <3>2, <3>5
    <3> QED BY <3>1, <3>3, <3>4, <3>5
  <2>3. CASE EventSourced /\ Code(o) \in {409, 500} /\ o.commits = <<>>
    BY <2>3
  <2> QED BY <1>2, <2>1, <2>2, <2>3 DEF Contracted
<1> QED BY <1>1, <1>2 DEF OnRecord

\* AnsweredIsOnRecord: a created account is listed, and a transfer is shown with
\* the status its client was told, or lost its race and left no trace.
THEOREM AnswersAreOnRecord ==
  ASSUME UnlimitedIds
  PROVE  Spec => AnsweredIsOnRecord
<1> DEFINE Kept(s) ==
      /\ call[s].route = "createAccount" /\ status'[s] = 201 =>
           \E a \in db'.listed : a \notin db.open
      /\ call[s].route = "createTransfer" /\ WellFormed(call[s]) /\ Found(call[s]) =>
           \/ s \in db'.shown /\ db'.record[s] = "COMPLETED" /\ ~Short(call[s])
           \/ /\ s \in db'.shown /\ db'.record[s] = "FAILED" /\ Short(call[s])
              /\ db'.balance = db.balance
           \/ EventSourced /\ status'[s] \in {409, 500} /\ db' = db
<1>1. ASSUME ServedInv, Next, NEW s \in Slots, Served(s), ~StatementFailed(s)
      PROVE  Kept(s)
  <2>0. ProgressInv /\ app \in Architectures /\ TablesInv /\ call[s] \in Call
    BY <1>1, Stepping DEF ServedInv, RequestsInv, Next
  <2>1. CASE ServesOperational(s)
    BY <2>1 DEF ServesOperational
  <2>2. CASE Serves(s)
    <3>1. PICK o : /\ Contracted(s, o, Fresh)
                   /\ db' = IF Len(o.commits) = 0 THEN db ELSE o.commits[Len(o.commits)]
                   /\ Answers(s, Code(o))
      BY <1>1, <2>0, <2>2, ServedAsContracted
    <3>2. OnRecord(s, o, db')
      BY <1>1, <2>0, <3>1, FreshId, ContractedIsOnRecord
    <3>3. status'[s] = Code(o)
      BY <2>0, <3>1, AnsweredWith
    <3> QED BY <3>2, <3>3 DEF OnRecord
  <2>3. CASE Fails(s)
    <3>1. thrown' = [thrown EXCEPT ![s] = Driver("57014")]
      BY <1>1, <2>0, <2>3, FailedAsContracted
    <3>2. thrown'[s].cause = "57014"
      BY <1>1, <3>1 DEF ServedInv, RequestsInv, Driver, Error
    <3> QED BY <1>1, <3>2 DEF StatementFailed
  <2> QED BY <1>1, <2>0, <2>1, <2>2, <2>3, ServedBy
<1>2. ServedInv /\ [Next]_vars =>
        [\A s \in Slots : Served(s) /\ ~StatementFailed(s) => Kept(s)]_vars
  BY <1>1
<1> QED BY <1>2, ServedInvariance, PTL DEF Spec, AnsweredIsOnRecord

-----------------------------------------------------------------------------

\* The statuses a client can be answered with, and none.
Statuses == {0, 200, 201, 400, 401, 404, 409, 429, 500, 503}

\* The rest of the types; an answer is counted once, when it is given.
CountersInv ==
  /\ app \in Apps
  /\ pool \in {"open", "ended"} /\ shuttingDown \in BOOLEAN
  /\ hits \in [Routes -> 0 .. Limit]
  /\ status \in [Slots -> Statuses]
  /\ counted \in [Slots -> Seq({200, 201})]
  /\ \A s \in Slots : Len(counted[s]) <= 1
  /\ \A s \in Slots : pc[s] # "answered" => counted[s] = <<>>

LEMMA CountersInitially == Init => CountersInv
<1> SUFFICES ASSUME Init PROVE CountersInv
  OBVIOUS
<1>1. counted = [s \in Slots |-> <<>>] /\ <<>> \in Seq({200, 201}) /\ Len(<<>>) = 0
  BY DEF Init, NT!S!Init
<1>2. status = [s \in Slots |-> 0] /\ hits = [r \in Routes |-> 0] /\ pool = "open" /\ shuttingDown = FALSE /\ app \in Apps
  BY DEF Init, NT!S!Init, NT!S!Routes, Routes
<1>3. status \in [Slots -> Statuses] /\ counted \in [Slots -> Seq({200, 201})]
  BY <1>1, <1>2 DEF Statuses
<1>4. \A s \in Slots : counted[s] = <<>> /\ Len(counted[s]) <= 1
  BY <1>1
<1> QED
  <2>1. hits \in [Routes -> 0 .. Limit]
    BY <1>2, LimitAssumption
  <2>2. shuttingDown \in BOOLEAN /\ pool \in {"open", "ended"} /\ app \in Apps
    BY <1>2
  <2> QED BY <1>3, <1>4, <2>1, <2>2 DEF CountersInv

\* An answer is counted once, at the end of the handler.
LEMMA CountedOnce ==
  ASSUME CountersInv, NEW s \in Slots, pc[s] = "handler", Counts(s)
  PROVE  /\ counted' \in [Slots -> Seq({200, 201})]
         /\ Len(counted'[s]) <= 1
         /\ \A t \in Slots : t # s => counted'[t] = counted[t]
<1>1. counted[s] = <<>>
  BY DEF CountersInv
<1>2. \A x \in {200, 201} : Append(<<>>, x) \in Seq({200, 201}) /\ Len(Append(<<>>, x)) = 1
  OBVIOUS
<1>3. \/ counted' = counted
      \/ \E x \in {200, 201} : counted' = [counted EXCEPT ![s] = Append(<<>>, x)]
  <2>1. CASE Recorded(call[s])
    <3> DEFINE x == IF call[s].route \in {"createAccount", "createTransfer"} THEN 201 ELSE 200
    <3>1. x \in {200, 201}
      OBVIOUS
    <3>2. counted' = [counted EXCEPT ![s] = Append(counted[s], x)]
      BY <2>1 DEF Counts
    <3> HIDE DEF x
    <3> QED BY <1>1, <3>1, <3>2
  <2>2. CASE ~Recorded(call[s])
    BY <1>1, <2>2 DEF Counts, CountersInv
  <2> QED BY <2>1, <2>2
<1>4. CASE counted' = counted
  BY <1>4 DEF CountersInv
<1>5. ASSUME NEW x \in {200, 201}, counted' = [counted EXCEPT ![s] = Append(<<>>, x)]
      PROVE  /\ counted' \in [Slots -> Seq({200, 201})]
             /\ Len(counted'[s]) <= 1
             /\ \A t \in Slots : t # s => counted'[t] = counted[t]
  BY <1>2, <1>5 DEF CountersInv
<1> QED BY <1>3, <1>4, <1>5

LEMMA CountersKept ==
  UnlimitedIds /\ ServedInv /\ CountersInv /\ [Next]_vars => CountersInv'
<1> SUFFICES ASSUME UnlimitedIds, ServedInv, CountersInv, [Next]_vars PROVE CountersInv'
  OBVIOUS
<1>0. ProgressInv
  BY DEF ServedInv
<1>1. CASE UNCHANGED vars
  BY <1>1 DEF vars, CountersInv
<1>2. CASE Next
  <2>0. app' = app /\ app \in Architectures
    BY <1>2, Stepping DEF Next
  <2>1. CASE Starts \/ Idles
    <3>1. /\ pool' \in {pool, "ended"} /\ shuttingDown' \in {shuttingDown, TRUE}
          /\ hits' = hits \/ \E r \in Routes : hits' = [hits EXCEPT ![r] = 0]
          /\ UNCHANGED <<pc, status, counted>>
      BY <2>1 DEF Starts, Idles
    <3>2. hits' \in [Routes -> 0 .. Limit]
      BY <3>1, LimitAssumption DEF CountersInv
    <3>3. shuttingDown' \in BOOLEAN /\ pool' \in {"open", "ended"}
      BY <3>1 DEF CountersInv
    <3> QED BY <2>0, <3>1, <3>2, <3>3 DEF CountersInv
  <2>2. ASSUME NEW s \in Slots, RequestStep(s) PROVE CountersInv'
    <3>1. /\ pool' = pool /\ shuttingDown' = shuttingDown
          /\ hits' \in [Routes -> 0 .. Limit]
      <4>1. CASE Throttles(s)
        <5> DEFINE r == call[s].route
        <5>1. /\ hits' = IF SkipsThrottle(call[s]) \/ hits[r] = Limit THEN hits
                                               ELSE [hits EXCEPT ![r] = @ + 1]
              /\ pool' = pool /\ shuttingDown' = shuttingDown
          BY <4>1 DEF Throttles
        <5> HIDE DEF r
        <5>2. hits' = hits \/ (hits[r] # Limit /\ hits' = [hits EXCEPT ![r] = @ + 1])
          BY <5>1
        <5>3. \A n \in 0 .. Limit : n # Limit => n + 1 \in 0 .. Limit
          BY LimitAssumption
        <5> QED BY <5>1, <5>2, <5>3 DEF CountersInv
      <4>2. CASE ~Throttles(s)
        BY <2>2, <4>2 DEF RequestStep, Arrives, Authenticates, ServesOperational, Serves,
           Fails, CountersInv
      <4> QED BY <4>1, <4>2
    <3>2. status' = status \/ \E code \in Statuses : Answers(s, code)
      <4>1. CASE Arrives(s)
        BY <4>1, HttpIsItsStatus DEF Arrives, Goes, Statuses
      <4>2. CASE Throttles(s)
        BY <4>2, HttpIsItsStatus DEF Throttles, Goes, Statuses
      <4>3. CASE Authenticates(s)
        BY <4>3, HttpIsItsStatus, PlainErrorIsServerError DEF Authenticates, Goes, Statuses
      <4>4. CASE ServesOperational(s)
        BY <4>4, HttpIsItsStatus DEF ServesOperational, Statuses
      <4>5. CASE Serves(s)
        BY <2>0, <4>5, ServedAsContracted, ContractedCodes DEF Statuses
      <4>6. CASE Fails(s)
        BY <2>0, <4>6, FailedAsContracted DEF Statuses
      <4> QED BY <2>2, <4>1, <4>2, <4>3, <4>4, <4>5, <4>6 DEF RequestStep
    <3>3. status' \in [Slots -> Statuses]
      BY <3>2 DEF Answers, CountersInv
    <3>4. \A t \in Slots : t # s => pc'[t] = pc[t]
      BY <1>0, <2>2, OneRequest
    <3>5. CASE counted' = counted
      <4>1. pc[s] # "answered"
        BY <2>2 DEF RequestStep, Arrives, Throttles, Authenticates, ServesOperational,
           Serves, Fails
      <4>2. \A t \in Slots : pc'[t] # "answered" => counted[t] = <<>>
        BY <3>4, <4>1 DEF CountersInv
      <4> QED BY <2>0, <3>1, <3>3, <3>5, <4>2 DEF CountersInv
    <3>6. CASE pc[s] = "handler" /\ Counts(s) /\ pc'[s] = "answered"
      <4>1. /\ counted' \in [Slots -> Seq({200, 201})]
            /\ Len(counted'[s]) <= 1
            /\ \A t \in Slots : t # s => counted'[t] = counted[t]
        BY <3>6, CountedOnce
      <4>2. \A t \in Slots : Len(counted'[t]) <= 1
        BY <4>1 DEF CountersInv
      <4>3. \A t \in Slots : pc'[t] # "answered" => counted'[t] = <<>>
        BY <3>4, <3>6, <4>1 DEF CountersInv
      <4> QED BY <2>0, <3>1, <3>3, <4>1, <4>2, <4>3 DEF CountersInv
    <3>7. \A code : Answers(s, code) => pc'[s] = "answered"
      BY <1>0 DEF Answers, ProgressInv
    <3>8. CASE Serves(s) \/ Fails(s) \/ ServesOperational(s)
      <4>1. \E code : Answers(s, code)
        BY <3>8 DEF Serves, Fails, ServesOperational
      <4> QED BY <3>6, <3>7, <3>8, <4>1 DEF Serves, Fails, ServesOperational
    <3>9. CASE Arrives(s) \/ Throttles(s) \/ Authenticates(s)
      BY <3>5, <3>9 DEF Arrives, Throttles, Authenticates
    <3> QED BY <2>2, <3>8, <3>9 DEF RequestStep
  <2> QED BY <1>2, <2>1, <2>2, Stepping DEF Next, ServerStep
<1> QED BY <1>1, <1>2

\* TypeOK: the servers answer with no other status, count no answer twice and
\* keep the throttler within its limit.
THEOREM TypeCorrect ==
  ASSUME UnlimitedIds
  PROVE  Spec => []TypeOK
<1>1. /\ ServedInv /\ [Next]_vars => ServedInv'
      /\ ServedInv /\ CountersInv /\ [Next]_vars => CountersInv'
  BY ServedKept, CountersKept
<1>2. ServedInv /\ CountersInv => TypeOK
  BY DEF ServedInv, CountersInv, ProgressInv, RequestsInv, TablesInv, TypeOK, Statuses
<1> QED
  BY <1>1, <1>2, ServedInitially, CountersInitially, PTL DEF Spec

=============================================================================
