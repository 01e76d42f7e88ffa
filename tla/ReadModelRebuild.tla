-------------------------- MODULE ReadModelRebuild --------------------------
(***************************************************************************)
(* AccountProjector.rebuild beside the event-sourced bank: delete every    *)
(* row of account_read_model, select the account events by version, and    *)
(* project them one statement at a time.  It takes no lock and knows       *)
(* nothing of the handlers that project their own events meanwhile.        *)
(***************************************************************************)
EXTENDS EventSourcedReadModels

VARIABLES
  stage,  \* progress of the rebuild
  todo,   \* events it has selected and not yet projected
  disturbed \* history: accounts a handler worked on while it ran

allVars == <<vars, stage, todo, disturbed>>

Rebuilding == stage \in {"deleted", "applying"}

InFlight(t) == pc[t] \notin Answered \cup {"idle"}

\* Accounts that a handler is opening or moving money of.
Active ==
  {a \in Accounts : opening[a] = "appended"}
    \cup UNION {{From(t), To(t)} : t \in {u \in Transfers : InFlight(u)}}

\* Nothing in the servers calls rebuild; somebody may.
RebuildInit == Init /\ stage \in {"none", "off"} /\ todo = {} /\ disturbed = {}

DeleteRows ==
  /\ stage = "none"
  /\ listed' = {}
  /\ stage' = "deleted"
  /\ UNCHANGED <<log, transferLog, snap, shown, transferRow, opening, pc, req,
                 held, todo>>

SelectEvents ==
  /\ stage = "deleted"
  /\ todo' = UNION {{<<a, v>> : v \in 1 .. Version(a)} : a \in Accounts}
  /\ stage' = "applying"
  /\ UNCHANGED vars

\* project: an INSERT for AccountCreated, an UPDATE for the others.  The
\* INSERT of a row that is there ends the rebuild with an error.
Apply1(a, v) ==
  LET event == log[a][v]
  IN  \/ /\ event.kind = "Created" /\ a \notin listed
         /\ listed' = listed \cup {a}
         /\ shown' = [shown EXCEPT ![a] = event.amount]
         /\ UNCHANGED stage
      \/ /\ event.kind = "Created" /\ a \in listed
         /\ stage' = "failed"
         /\ UNCHANGED <<listed, shown>>
      \/ /\ event.kind # "Created"
         /\ AddToShown(a, IF event.kind = "Debited" THEN -event.amount
                                                    ELSE event.amount)
         /\ UNCHANGED <<listed, stage>>

\* Mutant of ProjectNext: the rows come in any order.
ProjectAny ==
  /\ stage = "applying"
  /\ \E e \in todo : /\ Apply1(e[1], e[2])
                     /\ todo' = todo \ {e}
  /\ UNCHANGED <<log, transferLog, snap, transferRow, opening, pc, req, held>>

\* The rows come by version; nothing orders the accounts among themselves.
ProjectNext ==
  /\ stage = "applying"
  /\ \E e \in todo : /\ \A f \in todo : e[2] <= f[2]
                     /\ Apply1(e[1], e[2])
                     /\ todo' = todo \ {e}
  /\ UNCHANGED <<log, transferLog, snap, transferRow, opening, pc, req, held>>

Finish ==
  /\ stage = "applying" /\ todo = {}
  /\ stage' = "done"
  /\ UNCHANGED <<vars, todo>>

AbortRebuild ==
  /\ MayAbort
  /\ Rebuilding
  /\ stage' = "failed"
  /\ UNCHANGED <<vars, todo>>

\* A handler's INSERT into account_read_model meets the row of the rebuild;
\* the request is answered with an error.
ListConflict(a) ==
  /\ opening[a] = "appended" /\ a \in listed
  /\ opening' = [opening EXCEPT ![a] = "aborted"]
  /\ UNCHANGED <<log, transferLog, snap, readModels, pc, req, held>>

BankStep ==
  \/ \E a \in Accounts :
       \/ OpenAccount(a) \/ AbortOpening(a) \/ ListConflict(a)
       \/ a \notin listed /\ ListAccount(a)
  \/ \E t \in Transfers : Receive(t) \/ Handle(t) \/ Abort(t)

RebuildStep ==
  DeleteRows \/ SelectEvents \/ ProjectNext \/ Finish \/ AbortRebuild

RebuildNext ==
  /\ \/ RebuildStep
     \/ BankStep /\ UNCHANGED <<stage, todo>>
  /\ disturbed' = IF Rebuilding' THEN disturbed \cup Active' ELSE disturbed

RebuildSpec == RebuildInit /\ [][RebuildNext]_allVars

-----------------------------------------------------------------------------
(* Properties *)

Restored(a) ==
  /\ a \in listed <=> log[a] # <<>>
  /\ a \in listed => shown[a] = Balance(a)

\* A rebuild that finishes has restored every account that no handler worked
\* on while it ran, whatever the projections of earlier handlers left undone
\* and whatever is done to other accounts meanwhile.
UndisturbedIsRestored ==
  [][stage # "done" /\ stage' = "done" =>
       \A a \in Accounts \ disturbed : Restored(a)']_allVars

=============================================================================
