------------------------- MODULE EventSourcedLedger -------------------------
(***************************************************************************)
(* The event-sourced bank implements the ledger: an account's balance is   *)
(* what its stream replays to, and a transfer takes effect in the one step *)
(* that appends its events.                                                *)
(***************************************************************************)
EXTENDS EventSourcedBank

Opened == {a \in Ids : log[a] # <<>>}

\* The handler holds a source aggregate that cannot pay.
FoundShort ==
  {t \in Transfers : /\ held[t].source.version > 0
                     /\ held[t].source.balance < Amount(t)}

L == INSTANCE Ledger WITH
       open <- Opened,
       balance <- [a \in Ids |-> Balance(a)],
       short <- FoundShort,
       outcome <- transferLog

\* Every behaviour of the handlers, with their stale reads, conflicts and
\* aborts, is one of the ledger: no interleaving moves money in part, twice
\* or from an account that cannot pay, and none declines a transfer whose
\* source could pay at every moment of the request.
ImplementsLedger == L!Spec

=============================================================================
