---------------------------- MODULE RestPlatform ----------------------------
(***************************************************************************)
(* What the seven servers have in common: the environment they accept, the *)
(* guards, the interceptor and the pipes a request passes, the probes, and *)
(* the vocabulary of their handlers.  The files behind these definitions   *)
(* are copied from variant to variant; each variant's module names its own *)
(* copy and adds what is its own.                                          *)
(*                                                                         *)
(* A handler is a function from a request and the committed tables to an   *)
(* outcome: the tables after each statement or transaction it commits, and *)
(* the status or the error it ends with.  How the statements of concurrent *)
(* handlers interleave is the subject of the modules of the transfers.     *)
(***************************************************************************)
EXTENDS Integers, FiniteSets, Sequences

CONSTANTS
  AccountIds,  \* the ids POST /accounts will draw
  Slots,       \* requests; a transfer has the id of its request
  UnknownId,   \* a well-formed id of nothing
  MalformedId  \* an id that is no UUID

-----------------------------------------------------------------------------
(* Configuration *)

Env == [nodeEnv : {"development", "production"},
        required : BOOLEAN,                    \* PORT and DATABASE_URL are there
        issuer : {"absent", "notUrl", "url"},  \* OIDC_ISSUER
        audience : {"absent", "empty", "set"}] \* OIDC_AUDIENCE

HasIssuer(env) == env.issuer # "absent"
HasAudience(env) == env.audience = "set"

\* Mutant of EnvAccepted: production needs an issuer only.
EnvAcceptedWithoutAudience(env) ==
  /\ env.required
  /\ env.issuer # "notUrl"
  /\ env.nodeEnv = "production" => HasIssuer(env)

\* envSchema, with its superRefine.
EnvAccepted(env) ==
  /\ env.required
  /\ env.issuer # "notUrl"
  /\ env.nodeEnv = "production" => HasIssuer(env) /\ HasAudience(env)

\* The provider of JwtStrategy is null without issuer or audience.
StrategyProvided(env) == HasIssuer(env) /\ HasAudience(env)

\* validateEnv throws, and bootstrap's rejection is unhandled: exit code 1.
Boot(accepted) == IF accepted THEN "listening" ELSE "exited"

-----------------------------------------------------------------------------
(* Guards *)

Routes ==
  {"createAccount", "listAccounts", "getAccount", "getAccountEvents",
   "createTransfer", "getTransfer", "live", "ready", "metrics", "docs", "nowhere"}

\* What the controllers of all variants route; bootstrap adds the docs.
CommonRoutes == Routes \ {"getAccountEvents", "docs", "nowhere"}

\* id is the :id of a GET or fromAccountId, amount also the opening balance.
\* slash: the url ends in a slash, which Express routes like one without.
Call == [route : Routes, slash : BOOLEAN, token : {"none", "bad", "valid"},
         id : AccountIds \cup Slots \cup {UnknownId, MalformedId},
         to : AccountIds \cup {UnknownId, MalformedId},
         amount : Int, owner : {"named", "blank"}]

\* The urls that skipIf and isUnauthenticatedEndpoint spell out.
SpelledOut(call) == call.route \in {"metrics", "docs"} /\ ~call.slash

\* The health controller is @Public() and @SkipThrottle().
IsPublic(call) == call.route \in {"live", "ready"}
SkipsThrottle(call) == SpelledOut(call) \/ call.route \in {"live", "ready"}

IsDevModeBypass(env) ==
  env.nodeEnv # "production" /\ ~(HasIssuer(env) /\ HasAudience(env))

\* Mutant of Guard: the decorator is not read.
GuardIgnoresPublic(env, call) ==
  IF SpelledOut(call) \/ IsDevModeBypass(env) THEN "admit" ELSE "challenge"

\* JwtAuthGuard.canActivate: admit, or leave it to the strategy.
Guard(env, call) ==
  IF SpelledOut(call) \/ IsPublic(call) \/ IsDevModeBypass(env)
    THEN "admit" ELSE "challenge"

\* Mutant of TokenAccepted: an expired or foreign token will do.
TokenAcceptedUnverified(call) == call.token # "none"

\* passport-jwt with the issuer, audience and keys of the strategy.
TokenAccepted(call) == call.token = "valid"

-----------------------------------------------------------------------------
(* Probes and metrics *)

\* DatabaseConnection: its pool serves no query after onModuleDestroy has
\* called pool.end().
PoolServes(pool) == pool = "open"

\* pingCheck: the flag of ReadinessService first, then SELECT 1.
Ping(shuttingDown, reachable) == ~shuttingDown /\ reachable

\* HealthController: live answers at once, ready with what the ping says.
Health(route, ping) == IF route = "live" \/ ping THEN 200 ELSE 503

\* HttpMetricsInterceptor leaves out its own scrape.
Recorded(call) == ~(call.route = "metrics" /\ ~call.slash)

-----------------------------------------------------------------------------
(* Errors *)

\* What is thrown: an exception of Nest with a status of its own, an error of
\* the domain, or a driver's error as drizzle-orm hands it on, which keeps
\* the SQLSTATE in its cause and has no code.
Error(class, name, status, cause) ==
  [class |-> class, name |-> name, status |-> status, code |-> "none", cause |-> cause]
NoError == Error("none", "none", 0, "none")
Http(status) == Error("HttpException", "HttpException", status, "none")
Zod == Error("ZodValidationException", "ZodValidationException", 400, "none")
Named(name) == Error("Error", name, 0, "none")
Driver(sqlState) == Error("Error", "DrizzleQueryError", 0, sqlState)

UniqueViolationState == "23505"

\* catch of the filters, given the statuses of the names they know.
CatchBy(statusOf, e) ==
  IF e.class \in {"ZodValidationException", "HttpException"} THEN e.status
  ELSE IF e.name \in DOMAIN statusOf THEN statusOf[e.name]
  ELSE 500

BadRequests ==
  {"InvalidOwnerError", "InvalidBalanceError", "InvalidIdError",
   "InsufficientFundsError", "InvalidAmountError"}
NotFounds == {"AccountNotFoundError", "TransferNotFoundError"}

\* Mutant of DomainErrorStatus: the map forgets a name.
DomainErrorStatusForgetful ==
  [name \in BadRequests \cup {"AccountNotFoundError"} |->
     IF name \in BadRequests THEN 400 ELSE 404]

\* Mutant of DomainErrorStatus: another convention for invalid input.
DomainErrorStatusUnprocessable ==
  [name \in BadRequests \cup NotFounds |-> IF name \in BadRequests THEN 422 ELSE 404]

\* DOMAIN_ERROR_STATUS_MAP.
DomainErrorStatus ==
  [name \in BadRequests \cup NotFounds |-> IF name \in BadRequests THEN 400 ELSE 404]

-----------------------------------------------------------------------------
(* Handlers *)

\* The committed tables, as far as an answer depends on them.
Database ==
  [balance : [AccountIds -> Int],
   open : SUBSET AccountIds,     \* accounts that exist
   listed : SUBSET AccountIds,   \* accounts the queries find
   record : [Slots -> {"none", "COMPLETED", "FAILED"}],
   shown : SUBSET Slots]         \* transfers the queries find

\* What an error says of the handler that threw it: its arguments were bad.
Validation(e) ==
  \/ e.status = 400
  \/ e.name \in BadRequests \ {"InsufficientFundsError"}

\* An outcome: the tables after each commit, and the status or the error.
Done(status, commits) == [status |-> status, error |-> NoError, commits |-> commits]
ThrowAfter(commits, e) == [status |-> 0, error |-> e, commits |-> commits]
Throw(e) == ThrowAfter(<<>>, e)

\* A check is NoError, or what is thrown if it does not hold.
Check(holds, e) == IF holds THEN NoError ELSE e

\* The first check that fails decides the error; if none fails, the rest runs.
Checked(checks, rest) ==
  LET failing == {i \in DOMAIN checks : checks[i] # NoError}
  IN  IF failing = {} THEN rest
      ELSE Throw(checks[CHOOSE i \in failing : \A j \in failing : i <= j])

IsUuid(id) == id # MalformedId

\* ZodValidationPipe parses the body before the controller's method runs.
AccountBody(call) == Check(call.owner = "named" /\ call.amount >= 0, Zod)
TransferBody(call) ==
  Check(IsUuid(call.id) /\ IsUuid(call.to) /\ call.amount > 0, Zod)

Opened(db, a, balance) == [db EXCEPT !.open = @ \cup {a}, !.balance[a] = balance]
Listed(db, a) == [db EXCEPT !.listed = @ \cup {a}]
\* Two writes of what was read before both: a transfer to the own account
\* ends with the second.
Moved(db, call) ==
  [db EXCEPT !.balance[call.id] = db.balance[call.id] - call.amount,
             !.balance[call.to] = db.balance[call.to] + call.amount]
Stored(db, s, status) == [db EXCEPT !.record[s] = status]
Shown(db, s) == [db EXCEPT !.shown = @ \cup {s}]

\* The variants with an accounts table read the rows they have written.
CreatedRow(db, a, call) == Listed(Opened(db, a, call.amount), a)
TransferRow(db, s, status) == Shown(Stored(db, s, status), s)

=============================================================================
