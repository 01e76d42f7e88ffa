---------------------------- MODULE HexagonalApi ----------------------------
(***************************************************************************)
(* The hexagonal server: services behind the REST adapter throw the errors *)
(* of the domain, which the filter maps by name.                           *)
(***************************************************************************)
EXTENDS RestPlatform

CONSTANTS Deployments, Accounts, Limit, MayFail

VARIABLES env, phase, pool, shuttingDown, hits, db, pc, call, status, counted, thrown

-----------------------------------------------------------------------------
(* What the variant has a copy of *)

HasRoute(c) == c.route \in CommonRoutes
EnvSchema(e) == EnvAccepted(e)
ValidateEnv(e) == EnvSchema(e)
Bootstrap(e) == Boot(ValidateEnv(e))
SkipIf(c) == SkipsThrottle(c)
CanActivate(e, c) == Guard(e, c)
JwtStrategyProvider(e) == StrategyProvided(e)
JwtStrategy(c) == TokenAccepted(c)
Intercept(c) == Recorded(c)
Connected(p) == PoolServes(p)
PingCheck(flag, reachable) == Ping(flag, reachable)
HealthController(route, ping) == Health(route, ping)
CreateAccountDto(c) == AccountBody(c)
InitiateTransferDto(c) == TransferBody(c)

DomainErrorStatusMap == DomainErrorStatus

Catch(e) == CatchBy(DomainErrorStatusMap, e)

-----------------------------------------------------------------------------
(* Repositories *)

SaveAccount(d, a, c) == CreatedRow(d, a, c)
FindById(d, id) == id \in d.listed
FindTransferById(d, id) == id \in d.shown

-----------------------------------------------------------------------------
(* Controllers, application services and domain *)

\* createAccount of the domain model: the owner, then the balance.
NewAccount(c) ==
  << Check(c.owner = "named", Named("InvalidOwnerError")),
     Check(c.amount >= 0, Named("InvalidBalanceError")) >>

CreateAccount(d, c, fresh) ==
  Checked(NewAccount(c), Done(201, << SaveAccount(d, fresh, c) >>))

GetAccountById(d, c) ==
  Checked(<< Check(IsUuid(c.id), Named("InvalidIdError")),
             Check(FindById(d, c.id), Named("AccountNotFoundError")) >>,
          Done(200, <<>>))

GetAllAccounts == Done(200, <<>>)

GetTransferById(d, c) ==
  Checked(<< Check(IsUuid(c.id), Named("InvalidIdError")),
             Check(FindTransferById(d, c.id), Named("TransferNotFoundError")) >>,
          Done(200, <<>>))

ExecuteTransfer(d, s, c) ==
  Checked(<< Check(c.amount > 0, Named("InvalidAmountError")),
             Check(IsUuid(c.id), Named("InvalidIdError")),
             Check(IsUuid(c.to), Named("InvalidIdError")),
             Check(FindById(d, c.id), Named("AccountNotFoundError")),
             Check(FindById(d, c.to), Named("AccountNotFoundError")) >>,
          IF d.balance[c.id] < c.amount
            THEN ThrowAfter(<< TransferRow(d, s, "FAILED") >>,
                            Named("InsufficientFundsError"))
            ELSE Done(201, << TransferRow(Moved(d, c), s, "COMPLETED") >>))

AccountController(d, c, fresh) ==
  CASE c.route = "createAccount" ->
         Checked(<< CreateAccountDto(c) >>, CreateAccount(d, c, fresh))
    [] c.route = "getAccount"   -> GetAccountById(d, c)
    [] c.route = "listAccounts" -> GetAllAccounts

TransferController(d, s, c) ==
  CASE c.route = "createTransfer" ->
         Checked(<< InitiateTransferDto(c) >>, ExecuteTransfer(d, s, c))
    [] c.route = "getTransfer" -> GetTransferById(d, c)

Handle(d, s, c, fresh, raced) ==
  IF c.route \in {"createTransfer", "getTransfer"} THEN TransferController(d, s, c)
  ELSE AccountController(d, c, fresh)

-----------------------------------------------------------------------------

S == INSTANCE RestServer

=============================================================================
