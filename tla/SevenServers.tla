---------------------------- MODULE SevenServers ----------------------------
(***************************************************************************)
(* The seven servers side by side: a behaviour picks one architecture and  *)
(* runs it.  README.md promises one API with "identical" behaviour; the    *)
(* contract below is that API, stated without any variant's handlers.      *)
(***************************************************************************)
EXTENDS RestPlatform

CONSTANTS Apps, Deployments, Accounts, Limit, MayFail

\* What is deployed, and the accounts that were opened before.
ASSUME DeploymentsAssumption ==
  \A d \in Deployments :
    /\ d.env \in Env
    /\ DOMAIN d.calls = Slots
    /\ \A s \in Slots : d.calls[s] \subseteq Call
ASSUME AccountsAssumption ==
  /\ IsFiniteSet(DOMAIN Accounts) /\ DOMAIN Accounts \subseteq AccountIds
  /\ \A a \in DOMAIN Accounts : Accounts[a] \in Int
ASSUME LimitAssumption == Limit \in Nat

VARIABLES app, env, phase, pool, shuttingDown, hits, db, pc, call, status, counted, thrown

vars == <<app, env, phase, pool, shuttingDown, hits, db, pc, call, status, counted, thrown>>

NT == INSTANCE NTierApi
HX == INSTANCE HexagonalApi
ON == INSTANCE OnionApi
CL == INSTANCE CleanApi
DD == INSTANCE DddApi
ES == INSTANCE CqrsEsApi
NE == INSTANCE CqrsEsNestApi

-----------------------------------------------------------------------------

Init == app \in Apps /\ NT!S!Init

Step ==
  \/ app = "n-tier" /\ NT!S!Next
  \/ app = "hexagonal" /\ HX!S!Next
  \/ app = "onion" /\ ON!S!Next
  \/ app = "clean" /\ CL!S!Next
  \/ app = "ddd" /\ DD!S!Next
  \/ app = "cqrs-es" /\ ES!S!Next
  \/ app = "cqrs-es-nestjs" /\ NE!S!Next

Next == Step /\ UNCHANGED app

Spec == Init /\ [][Next]_vars

-----------------------------------------------------------------------------
(* Properties *)

\* Type correctness.
TypeOK ==
  /\ app \in Apps /\ env \in Env
  /\ phase \in {"boot", "listening", "exited"}
  /\ pool \in {"open", "ended"} /\ shuttingDown \in BOOLEAN
  /\ hits \in [Routes -> 0 .. Limit]
  /\ db \in Database
  /\ pc \in [Slots -> {"idle", "throttle", "guard", "handler", "answered"}]
  /\ call \in [Slots -> Call]
  /\ status \in [Slots -> {0, 200, 201, 400, 401, 404, 409, 429, 500, 503}]
  /\ \A s \in Slots : Len(counted[s]) <= 1

\* What anybody may ask: the probes and the scrape.
OpenToAll(c) == c.route \in {"live", "ready"} \/ (c.route = "metrics" /\ ~c.slash)

\* In production no handler but those of the probes and the scrape ever runs
\* for a request whose token the strategy has not accepted, whatever of the
\* OIDC settings is missing: such a process does not get to listen.
VerifiedInProduction ==
  \A s \in Slots : pc[s] = "handler" /\ env.nodeEnv = "production" =>
    OpenToAll(call[s]) \/ call[s].token = "valid"

\* A request the guard challenges is told 401, never 500: the guard's own
\* reading of the settings, the schema's and the one that registers the
\* strategy agree, though they are three files.
ChallengeHasItsStrategy ==
  [][\A s \in Slots : pc[s] = "guard" /\ pc'[s] = "answered" => status'[s] = 401]_vars

\* The orchestrator's probes and Prometheus' scrape are never refused for a
\* token or for their rate, however many requests share their window.
ProbesAreNotRefused ==
  \A s \in Slots : OpenToAll(call[s]) => status[s] \notin {401, 429}

Served(s) == pc[s] = "handler" /\ pc'[s] = "answered"

StatementFailed(s) == thrown'[s].cause = "57014"

EventSourced == app \in {"cqrs-es", "cqrs-es-nestjs"}

NeedsId(c) == c.route \in {"getAccount", "getAccountEvents", "getTransfer"}

WellFormed(c) ==
  CASE c.route = "createAccount"  -> c.owner = "named" /\ c.amount >= 0
    [] c.route = "createTransfer" -> MalformedId \notin {c.id, c.to} /\ c.amount > 0
    [] OTHER                      -> NeedsId(c) => c.id # MalformedId

\* Whether what a request names is there for its handler to find.
Found(c) ==
  CASE c.route = "getAccount"       -> c.id \in db.listed
    [] c.route = "getAccountEvents" -> c.id \in db.open
    [] c.route = "getTransfer"      -> c.id \in db.shown
    [] c.route = "createTransfer"   -> {c.id, c.to} \subseteq db.open
    [] OTHER                        -> TRUE

Short(c) == db.balance[c.id] < c.amount

\* The one divergence: a transfer that is short is an error of the request in
\* the variants with an accounts table and a created transfer in the others,
\* which in turn may lose a race for the next version of a stream.
Promised(c) ==
  IF ~WellFormed(c) THEN {400}
  ELSE IF ~Found(c) THEN {404}
  ELSE CASE c.route = "createAccount"  -> {201}
         [] c.route = "createTransfer" ->
              IF ~EventSourced THEN IF Short(c) THEN {400} ELSE {201}
              ELSE IF Short(c) THEN {201} ELSE {201, 409, 500}
         [] c.route = "ready"          -> {200, 503}
         [] OTHER                      -> {200}

\* PROBLEM.md, "identical endpoints, request/response shapes, status codes":
\* in all seven the answer is what the request and the tables at its service
\* say, by whatever layers the check is made and the error is thrown, renamed
\* and caught, or 500 if a statement failed.
AnswersFollowContract ==
  [][\A s \in Slots : Served(s) =>
       \/ status'[s] \in Promised(call[s])
       \/ StatementFailed(s) /\ status'[s] = 500]_vars

\* What a client is told of an account or a transfer it can read from then
\* on: created accounts are listed, and a transfer is shown COMPLETED or, if
\* it was short and whatever the status it was answered with, FAILED, with
\* the balances as they were.
AnsweredIsOnRecord ==
  [][\A s \in Slots : Served(s) /\ ~StatementFailed(s) =>
       /\ call[s].route = "createAccount" /\ status'[s] = 201 =>
            \E a \in db'.listed : a \notin db.open
       /\ call[s].route = "createTransfer" /\ WellFormed(call[s]) /\ Found(call[s]) =>
            \/ s \in db'.shown /\ db'.record[s] = "COMPLETED" /\ ~Short(call[s])
            \/ /\ s \in db'.shown /\ db'.record[s] = "FAILED" /\ Short(call[s])
               /\ db'.balance = db.balance
            \/ EventSourced /\ status'[s] \in {409, 500} /\ db' = db]_vars

\* cqrs-es/README.md:112, "`409` concurrency conflict (duplicate event
\* version)": the transfer that loses the race for a version is told 409.
ConflictsAre409 ==
  \A s \in Slots : thrown[s].cause = UniqueViolationState => status[s] = 409

=============================================================================
