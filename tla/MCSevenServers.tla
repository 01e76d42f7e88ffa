--------------------------- MODULE MCSevenServers ---------------------------
(* Two requests at one server of any of the seven architectures. *)
EXTENDS SevenServers, TLC

CONSTANTS a1, a2, a3, s1, s2, unknown, malformed

MCAccounts == (a1 :> 2) @@ (a2 :> 0)

Setting(nodeEnv, issuer, audience) ==
  [nodeEnv |-> nodeEnv, required |-> TRUE, issuer |-> issuer, audience |-> audience]

\* A request with a token, and its variations.
Ask(route, id) ==
  [route |-> route, slash |-> FALSE, token |-> "valid", id |-> id, to |-> a2,
   amount |-> 1, owner |-> "named"]

Pay(id, to, amount) == [Ask("createTransfer", id) EXCEPT !.to = to, !.amount = amount]

Create(amount, owner) ==
  [Ask("createAccount", a1) EXCEPT !.amount = amount, !.owner = owner]

WithToken(c, token) == [c EXCEPT !.token = token]

Traffic ==
  {Create(1, "named"), Create(1, "blank"), Create(-1, "named"),
   Ask("getAccount", a1), Ask("getAccount", unknown), Ask("getAccount", malformed),
   Ask("getAccountEvents", a3), Ask("listAccounts", a1),
   Pay(a1, a2, 2), Pay(a2, a1, 1), Pay(a1, a1, 1), Pay(a1, unknown, 1),
   Pay(malformed, a2, 1), Pay(a1, a2, 0),
   Ask("getTransfer", s1), Ask("getTransfer", unknown), Ask("getTransfer", malformed)}

Probes ==
  {WithToken(Ask(route, a1), "none") : route \in {"live", "ready", "metrics", "docs", "nowhere"}}

Intruders ==
  {WithToken(Pay(a1, a2, 2), "none"), WithToken(Ask("getAccount", a1), "bad"),
   [WithToken(Ask("metrics", a1), "none") EXCEPT !.slash = TRUE]}

\* What the second request may be.
Followers ==
  {Ask("getAccount", a3), Pay(a1, a2, 2), Ask("getTransfer", s1),
   WithToken(Ask("ready", a1), "none"), WithToken(Ask("metrics", a1), "none")}

Sent(first, second) == (s1 :> first) @@ (s2 :> second)

MCDeployments ==
  {[env |-> Setting("production", "url", "set"),
    calls |-> Sent(Traffic \cup Probes \cup Intruders, Followers)]}
  \cup
  {[env |-> Setting("development", i, a), calls |-> Sent(Intruders, Intruders)] :
     i \in {"absent", "url"}, a \in {"absent", "empty", "set"}}
  \cup
  {[env |-> [Setting("production", i, a) EXCEPT !.required = r],
    calls |-> Sent(Intruders, Intruders)] :
     i \in {"absent", "notUrl", "url"}, a \in {"absent", "empty"}, r \in BOOLEAN}

=============================================================================
