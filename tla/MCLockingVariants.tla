-------------------------- MODULE MCLockingVariants --------------------------
(* Small instances of the locking transfer in its five variants. *)
EXTENDS LockingLedger, TLC

CONSTANTS a, b, c, t1, t2, t3

Body(from, to, amount) == [from |-> from, to |-> to, amount |-> amount]

\* Three transfers round a ring, whose lock waits can close a cycle; the same
\* account may be debited twice.  The ring looks the same from each account,
\* so the first transfer may as well start at a.  Amounts and balances are in
\* half cents.
Ring == {Body(a, b, 2), Body(b, c, 2), Body(c, a, 2)}

\* More than any account has: the INSERT of its FAILED row locks both keys and
\* can close a cycle with a transfer the other way.
Dear == {Body(b, a, 6)}

\* Two transfers over the same two accounts; the third request is invalid
\* and never gets as far as a handler.
There == {Body(a, b, 2)}
Back == There \cup Dear \cup {Body(b, a, 2)}
Invalid == {Body(c, a, 0)}

RingBodies == Ring \cup Back \cup Invalid

RingSent ==
  [variant \in Apps |->
     IF variant = "n-tier" THEN (t1 :> There) @@ (t2 :> Ring) @@ (t3 :> Ring \cup Dear)
     ELSE (t1 :> There) @@ (t2 :> Back) @@ (t3 :> Invalid)]

SelfBodies == {Body(a, a, 2)}
SelfSent == [variant \in Apps |-> [t \in Transfers |-> SelfBodies]]

\* Half a cent.
SubCentBodies == {Body(a, b, 1)}
SubCentSent == [variant \in Apps |-> [t \in Transfers |-> SubCentBodies]]

Balances == {-2, 2}
=============================================================================
