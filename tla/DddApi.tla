------------------------------- MODULE DddApi -------------------------------
(***************************************************************************)
(* The DDD server: value objects validate on creation, and a failed        *)
(* transfer is saved in two statements, its row and then its domain event. *)
(***************************************************************************)
EXTENDS RestPlatform

CONSTANTS Deployments, Accounts, Limit, MayFail

VARIABLES env, phase, pool, shuttingDown, hits, db, pc, call, status, counted, thrown

-----------------------------------------------------------------------------
(* What the variant has a copy of *)

HasRoute(c) == c.route \in CommonRoutes
EnvSchema(e) == EnvAccepted(e)
ValidateEnv(e) == EnvSchema(e)
Bootstrap(e) == Boot(ValidateEnv(e))
SkipIf(c) == SkipsThrottle(c)
CanActivate(e, c) == Guard(e, c)
JwtStrategyProvider(e) == StrategyProvided(e)
JwtStrategy(c) == TokenAccepted(c)
Intercept(c) == Recorded(c)
Connected(p) == PoolServes(p)
PingCheck(flag, reachable) == Ping(flag, reachable)
HealthController(route, ping) == Health(route, ping)
CreateAccountDto(c) == AccountBody(c)
InitiateTransferDto(c) == TransferBody(c)

DomainErrorStatusMap == DomainErrorStatus

Catch(e) == CatchBy(DomainErrorStatusMap, e)

-----------------------------------------------------------------------------
(* Repositories *)

SaveAccount(d, a, c) == CreatedRow(d, a, c)
FindById(d, id) == id \in d.listed
FindTransferById(d, id) == id \in d.shown

-----------------------------------------------------------------------------
(* Controllers, application services and aggregates *)

\* AccountId.create, TransferId.create and Money.create.
ValidId(id) == Check(IsUuid(id), Named("InvalidIdError"))
ValidMoney(amount) == Check(amount >= 0, Named("InvalidBalanceError"))

CreateAccount(d, c, fresh) ==
  Checked(<< ValidMoney(c.amount), Check(c.owner = "named", Named("InvalidOwnerError")) >>,
          Done(201, << SaveAccount(d, fresh, c) >>))

GetAccountById(d, c) ==
  Checked(<< ValidId(c.id), Check(FindById(d, c.id), Named("AccountNotFoundError")) >>,
          Done(200, <<>>))

ListAccounts == Done(200, <<>>)

GetTransferById(d, c) ==
  Checked(<< ValidId(c.id), Check(FindTransferById(d, c.id), Named("TransferNotFoundError")) >>,
          Done(200, <<>>))

\* The second statement of the failed transfer inserts its event.
InitiateTransfer(d, s, c) ==
  Checked(<< ValidId(c.id), ValidId(c.to), ValidMoney(c.amount),
             Check(c.amount # 0, Named("InvalidAmountError")),
             Check(FindById(d, c.id), Named("AccountNotFoundError")),
             Check(FindById(d, c.to), Named("AccountNotFoundError")) >>,
          IF ~(d.balance[c.id] >= c.amount)
            THEN LET failed == TransferRow(d, s, "FAILED")
                 IN  ThrowAfter(<< failed, failed >>, Named("InsufficientFundsError"))
            ELSE Done(201, << TransferRow(Moved(d, c), s, "COMPLETED") >>))

AccountController(d, c, fresh) ==
  CASE c.route = "createAccount" ->
         Checked(<< CreateAccountDto(c) >>, CreateAccount(d, c, fresh))
    [] c.route = "getAccount"   -> GetAccountById(d, c)
    [] c.route = "listAccounts" -> ListAccounts

TransferController(d, s, c) ==
  CASE c.route = "createTransfer" ->
         Checked(<< InitiateTransferDto(c) >>, InitiateTransfer(d, s, c))
    [] c.route = "getTransfer" -> GetTransferById(d, c)

Handle(d, s, c, fresh, raced) ==
  IF c.route \in {"createTransfer", "getTransfer"} THEN TransferController(d, s, c)
  ELSE AccountController(d, c, fresh)

-----------------------------------------------------------------------------

S == INSTANCE RestServer

=============================================================================
