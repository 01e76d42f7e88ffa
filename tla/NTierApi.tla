------------------------------ MODULE NTierApi ------------------------------
(***************************************************************************)
(* The n-tier server: its services throw exceptions of Nest, so its filter *)
(* knows no names.                                                         *)
(***************************************************************************)
EXTENDS RestPlatform

CONSTANTS Deployments, Accounts, Limit, MayFail

VARIABLES env, phase, pool, shuttingDown, hits, db, pc, call, status, counted, thrown

-----------------------------------------------------------------------------
(* What the variant has a copy of *)

HasRoute(c) == c.route \in CommonRoutes
EnvSchema(e) == EnvAccepted(e)
ValidateEnv(e) == EnvSchema(e)
Bootstrap(e) == Boot(ValidateEnv(e))
SkipIf(c) == SkipsThrottle(c)
CanActivate(e, c) == Guard(e, c)
JwtStrategyProvider(e) == StrategyProvided(e)
JwtStrategy(c) == TokenAccepted(c)
Intercept(c) == Recorded(c)
Connected(p) == PoolServes(p)
PingCheck(flag, reachable) == Ping(flag, reachable)
HealthController(route, ping) == Health(route, ping)
CreateAccountDto(c) == AccountBody(c)
InitiateTransferDto(c) == TransferBody(c)

Catch(e) == CatchBy(<<>>, e)

-----------------------------------------------------------------------------
(* Repositories *)

SaveAccount(d, a, c) == CreatedRow(d, a, c)
FindById(d, id) == id \in d.listed
FindTransferById(d, id) == id \in d.shown

-----------------------------------------------------------------------------
(* Controllers and services *)

CreateAccount(d, c, fresh) ==
  Checked(<< Check(c.owner = "named", Http(400)), Check(c.amount >= 0, Http(400)) >>,
          Done(201, << SaveAccount(d, fresh, c) >>))

GetAccountById(d, c) ==
  Checked(<< Check(IsUuid(c.id), Http(400)), Check(FindById(d, c.id), Http(404)) >>,
          Done(200, <<>>))

GetAllAccounts == Done(200, <<>>)

GetTransferById(d, c) ==
  Checked(<< Check(IsUuid(c.id), Http(400)), Check(FindTransferById(d, c.id), Http(404)) >>,
          Done(200, <<>>))

\* Mutant of ExecuteTransfer: the FAILED row is part of what is rolled back.
ExecuteTransferRollsBack(d, s, c) ==
  Checked(<< Check(c.amount > 0, Http(400)),
             Check(IsUuid(c.id), Http(400)), Check(IsUuid(c.to), Http(400)),
             Check(FindById(d, c.id), Http(404)), Check(FindById(d, c.to), Http(404)) >>,
          IF d.balance[c.id] < c.amount THEN Throw(Http(400))
            ELSE Done(201, << TransferRow(Moved(d, c), s, "COMPLETED") >>))

\* One transaction, or, after its rollback, the FAILED row by itself.
ExecuteTransfer(d, s, c) ==
  Checked(<< Check(c.amount > 0, Http(400)),
             Check(IsUuid(c.id), Http(400)), Check(IsUuid(c.to), Http(400)),
             Check(FindById(d, c.id), Http(404)), Check(FindById(d, c.to), Http(404)) >>,
          IF d.balance[c.id] < c.amount
            THEN ThrowAfter(<< TransferRow(d, s, "FAILED") >>, Http(400))
            ELSE Done(201, << TransferRow(Moved(d, c), s, "COMPLETED") >>))

AccountsController(d, c, fresh) ==
  CASE c.route = "createAccount" ->
         Checked(<< CreateAccountDto(c) >>, CreateAccount(d, c, fresh))
    [] c.route = "getAccount"   -> GetAccountById(d, c)
    [] c.route = "listAccounts" -> GetAllAccounts

TransfersController(d, s, c) ==
  CASE c.route = "createTransfer" ->
         Checked(<< InitiateTransferDto(c) >>, ExecuteTransfer(d, s, c))
    [] c.route = "getTransfer" -> GetTransferById(d, c)

Handle(d, s, c, fresh, raced) ==
  IF c.route \in {"createTransfer", "getTransfer"} THEN TransfersController(d, s, c)
  ELSE AccountsController(d, c, fresh)

-----------------------------------------------------------------------------

S == INSTANCE RestServer

=============================================================================
