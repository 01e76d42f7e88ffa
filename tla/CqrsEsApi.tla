----------------------------- MODULE CqrsEsApi ------------------------------
(***************************************************************************)
(* The hand-rolled CQRS server: commands write the event store and then    *)
(* the read models, queries read the read models.                          *)
(***************************************************************************)
EXTENDS RestPlatform

CONSTANTS Deployments, Accounts, Limit, MayFail

VARIABLES env, phase, pool, shuttingDown, hits, db, pc, call, status, counted, thrown

-----------------------------------------------------------------------------
(* What the variant has a copy of *)

HasRoute(c) == c.route \in CommonRoutes \cup {"getAccountEvents"}
EnvSchema(e) == EnvAccepted(e)
ValidateEnv(e) == EnvSchema(e)
Bootstrap(e) == Boot(ValidateEnv(e))
SkipIf(c) == SkipsThrottle(c)
CanActivate(e, c) == Guard(e, c)
JwtStrategyProvider(e) == StrategyProvided(e)
JwtStrategy(c) == TokenAccepted(c)
Intercept(c) == Recorded(c)
Connected(p) == PoolServes(p)
PingCheck(flag, reachable) == Ping(flag, reachable)
HealthController(route, ping) == Health(route, ping)
CreateAccountDto(c) == AccountBody(c)
InitiateTransferDto(c) == TransferBody(c)

\* The map has one name more, for the lost race.
DomainErrorStatusMap ==
  [name \in DOMAIN DomainErrorStatus \cup {"ConcurrencyError"} |->
     IF name = "ConcurrencyError" THEN 409 ELSE DomainErrorStatus[name]]

Catch(e) == CatchBy(DomainErrorStatusMap, e)

-----------------------------------------------------------------------------
(* Event store *)

IsUniqueViolation(e) == e.code = UniqueViolationState

\* What the handler of a lost append sees: the store's own error for a
\* violated UNIQUE (aggregate_id, version), the driver's error as it is
\* otherwise.
AppendError(e) == IF IsUniqueViolation(e) THEN Named("ConcurrencyError") ELSE e

-----------------------------------------------------------------------------
(* Controllers, command and query handlers *)

\* Account.create.
NewAccount(c) ==
  << Check(c.owner = "named", Named("InvalidOwnerError")),
     Check(c.amount >= 0, Named("InvalidBalanceError")) >>

\* The event is stored, then projected.
CreateAccountHandler(d, c, fresh) ==
  Checked(NewAccount(c),
          LET stored == Opened(d, fresh, c.amount)
          IN  Done(201, << stored, Listed(stored, fresh) >>))

GetAccountHandler(d, c) ==
  Checked(<< Check(IsUuid(c.id), Named("InvalidIdError")),
             Check(c.id \in d.listed, Named("AccountNotFoundError")) >>,
          Done(200, <<>>))

\* Answered from the event store, not from the read model.
GetAccountEventsHandler(d, c) ==
  Checked(<< Check(IsUuid(c.id), Named("InvalidIdError")),
             Check(c.id \in d.open, Named("AccountNotFoundError")) >>,
          Done(200, <<>>))

ListAccountsHandler == Done(200, <<>>)

GetTransferHandler(d, c) ==
  Checked(<< Check(IsUuid(c.id), Named("InvalidIdError")),
             Check(c.id \in d.shown, Named("TransferNotFoundError")) >>,
          Done(200, <<>>))

\* A transfer that is short is stored, projected and answered 201; the
\* append of the others may find a version taken, by another transfer or, if
\* the accounts are the same, by itself.
InitiateTransferHandler(d, s, c, raced) ==
  Checked(<< Check(c.amount > 0, Named("InvalidAmountError")),
             Check(c.id \in d.open, Named("AccountNotFoundError")),
             Check(c.to \in d.open, Named("AccountNotFoundError")) >>,
          IF d.balance[c.id] < c.amount
            THEN LET stored == Stored(d, s, "FAILED")
                 IN  Done(201, << stored, Shown(stored, s) >>)
          ELSE IF raced \/ c.id = c.to
            THEN Throw(AppendError(Driver(UniqueViolationState)))
          ELSE LET stored == Stored(Moved(d, c), s, "COMPLETED")
               IN  Done(201, << stored, Shown(stored, s), Shown(stored, s) >>))

AccountController(d, c, fresh) ==
  CASE c.route = "createAccount" ->
         Checked(<< CreateAccountDto(c) >>, CreateAccountHandler(d, c, fresh))
    [] c.route = "getAccount"       -> GetAccountHandler(d, c)
    [] c.route = "getAccountEvents" -> GetAccountEventsHandler(d, c)
    [] c.route = "listAccounts"     -> ListAccountsHandler

TransferController(d, s, c, raced) ==
  CASE c.route = "createTransfer" ->
         Checked(<< InitiateTransferDto(c) >>, InitiateTransferHandler(d, s, c, raced))
    [] c.route = "getTransfer" -> GetTransferHandler(d, c)

Handle(d, s, c, fresh, raced) ==
  IF c.route \in {"createTransfer", "getTransfer"}
    THEN TransferController(d, s, c, raced)
    ELSE AccountController(d, c, fresh)

-----------------------------------------------------------------------------

S == INSTANCE RestServer

=============================================================================
