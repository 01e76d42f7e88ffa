------------------------------ MODULE CleanApi ------------------------------
(***************************************************************************)
(* The clean-architecture server: one use case per operation, whose        *)
(* transfer checks the ids before the amount and leaves the funds to the   *)
(* entity.                                                                 *)
(***************************************************************************)
EXTENDS RestPlatform

CONSTANTS Deployments, Accounts, Limit, MayFail

VARIABLES env, phase, pool, shuttingDown, hits, db, pc, call, status, counted, thrown

-----------------------------------------------------------------------------
(* What the variant has a copy of *)

HasRoute(c) == c.route \in CommonRoutes
EnvSchema(e) == EnvAccepted(e)
ValidateEnv(e) == EnvSchema(e)
Bootstrap(e) == Boot(ValidateEnv(e))
SkipIf(c) == SkipsThrottle(c)
CanActivate(e, c) == Guard(e, c)
JwtStrategyProvider(e) == StrategyProvided(e)
JwtStrategy(c) == TokenAccepted(c)
Intercept(c) == Recorded(c)
Connected(p) == PoolServes(p)
PingCheck(flag, reachable) == Ping(flag, reachable)
HealthController(route, ping) == Health(route, ping)
CreateAccountDto(c) == AccountBody(c)
InitiateTransferDto(c) == TransferBody(c)

DomainErrorStatusMap == DomainErrorStatus

Catch(e) == CatchBy(DomainErrorStatusMap, e)

-----------------------------------------------------------------------------
(* Repositories *)

SaveAccount(d, a, c) == CreatedRow(d, a, c)
FindById(d, id) == id \in d.listed
FindTransferById(d, id) == id \in d.shown

-----------------------------------------------------------------------------
(* Controllers, use cases and entities *)

\* The constructor of the Account entity.
NewAccount(c) ==
  << Check(c.owner = "named", Named("InvalidOwnerError")),
     Check(c.amount >= 0, Named("InvalidBalanceError")) >>

CreateAccountUseCase(d, c, fresh) ==
  Checked(NewAccount(c), Done(201, << SaveAccount(d, fresh, c) >>))

GetAccountUseCase(d, c) ==
  Checked(<< Check(IsUuid(c.id), Named("InvalidIdError")),
             Check(FindById(d, c.id), Named("AccountNotFoundError")) >>,
          Done(200, <<>>))

ListAccountsUseCase == Done(200, <<>>)

GetTransferUseCase(d, c) ==
  Checked(<< Check(IsUuid(c.id), Named("InvalidIdError")),
             Check(FindTransferById(d, c.id), Named("TransferNotFoundError")) >>,
          Done(200, <<>>))

ValidateInput(c) ==
  << Check(IsUuid(c.id), Named("InvalidIdError")),
     Check(IsUuid(c.to), Named("InvalidIdError")),
     Check(c.amount > 0, Named("InvalidAmountError")) >>

ValidateAccountsExist(d, c) ==
  << Check(FindById(d, c.id), Named("AccountNotFoundError")),
     Check(FindById(d, c.to), Named("AccountNotFoundError")) >>

InitiateTransferUseCase(d, s, c) ==
  Checked(ValidateInput(c) \o ValidateAccountsExist(d, c),
          IF c.amount > d.balance[c.id]
            THEN ThrowAfter(<< TransferRow(d, s, "FAILED") >>,
                            Named("InsufficientFundsError"))
            ELSE Done(201, << TransferRow(Moved(d, c), s, "COMPLETED") >>))

AccountController(d, c, fresh) ==
  CASE c.route = "createAccount" ->
         Checked(<< CreateAccountDto(c) >>, CreateAccountUseCase(d, c, fresh))
    [] c.route = "getAccount"   -> GetAccountUseCase(d, c)
    [] c.route = "listAccounts" -> ListAccountsUseCase

TransferController(d, s, c) ==
  CASE c.route = "createTransfer" ->
         Checked(<< InitiateTransferDto(c) >>, InitiateTransferUseCase(d, s, c))
    [] c.route = "getTransfer" -> GetTransferUseCase(d, c)

Handle(d, s, c, fresh, raced) ==
  IF c.route \in {"createTransfer", "getTransfer"} THEN TransferController(d, s, c)
  ELSE AccountController(d, c, fresh)

-----------------------------------------------------------------------------

S == INSTANCE RestServer

=============================================================================
