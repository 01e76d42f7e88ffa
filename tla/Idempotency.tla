----------------------------- MODULE Idempotency -----------------------------
(***************************************************************************)
(* The Idempotency-Key interceptor of the event-sourced variants: look the *)
(* key up, replay the stored response or run the handler and store its     *)
(* response.  The three steps are separate statements, so attempts with    *)
(* one key can overlap, and a process can die between them.                *)
(*                                                                         *)
(* A key stands for the pair (key, endpoint) of the primary key, a body    *)
(* for its hash, and a response for the attempt whose handler produced it. *)
(* The handler is one step: the moment its events are committed.           *)
(***************************************************************************)
CONSTANTS
  Attempts,   \* POST requests, each sent once; a retry is another attempt
  Keys,       \* (Idempotency-Key, endpoint) pairs
  NoKey,      \* the header is missing or empty
  Bodies,     \* request bodies
  Nothing,    \* no row, no response
  MayFail     \* whether statements fail and processes die

ASSUME KeysAssumption == NoKey \notin Keys
ASSUME NothingAssumption ==
  Nothing \notin Attempts \cup [hash : Bodies, response : Attempts]
ASSUME MayFailAssumption == MayFail \in BOOLEAN

VARIABLES
  stored,   \* idempotency_keys: [hash, response] of each key, or Nothing
  executed, \* attempts whose handler has committed
  pc,       \* progress of each attempt
  req,      \* its key and body
  answer,   \* the success response it was given, or Nothing
  cached,   \* history: whether its key had a row when it arrived
  exposed   \* history: keys whose attempts overlapped, or that were executed
            \* without their response being stored

vars == <<stored, executed, pc, req, answer, cached, exposed>>

Key(t) == req[t].key
Body(t) == req[t].body

Goto(t, stage) == pc' = [pc EXCEPT ![t] = stage]

Answered == {"created", "replayed", "reused", "refused", "aborted"}

InFlight(t) == pc[t] \notin Answered \cup {"idle"}

Init ==
  /\ stored = [k \in Keys |-> Nothing]
  /\ executed = {}
  /\ pc = [t \in Attempts |-> "idle"]
  /\ req \in [Attempts -> [key : Keys \cup {NoKey}, body : Bodies]]
  /\ answer = [t \in Attempts |-> Nothing]
  /\ cached = [t \in Attempts |-> FALSE]
  /\ exposed = {}

Expose(k, condition) ==
  exposed' = IF condition THEN exposed \cup {k} ELSE exposed

\* intercept: without a key the handler runs as if there were no interceptor.
Receive(t) ==
  /\ pc[t] = "idle"
  /\ Goto(t, IF Key(t) = NoKey THEN "execute" ELSE "find")
  /\ cached' = [cached EXCEPT ![t] =
                  Key(t) \in Keys /\ stored[Key(t)] # Nothing]
  /\ Expose(Key(t), \E u \in Attempts : Key(u) = Key(t) /\ InFlight(u))
  /\ UNCHANGED <<stored, executed, req, answer>>

\* Mutant of FindExisting: a row with another body's hash counts as a miss.
FindExistingSameBody(t) ==
  /\ pc[t] = "find"
  /\ LET row == stored[Key(t)]
     IN  \/ /\ ~(row # Nothing /\ row.hash = Body(t))
            /\ Goto(t, "execute") /\ UNCHANGED answer
         \/ /\ row # Nothing /\ row.hash = Body(t)
            /\ answer' = [answer EXCEPT ![t] = row.response]
            /\ Goto(t, "replayed")
  /\ UNCHANGED <<stored, executed, req, cached, exposed>>

\* findExisting and replayCachedResponse.
FindExisting(t) ==
  /\ pc[t] = "find"
  /\ LET row == stored[Key(t)]
     IN  \/ /\ row = Nothing
            /\ Goto(t, "execute") /\ UNCHANGED answer
         \/ /\ row # Nothing /\ row.hash # Body(t)
            /\ Goto(t, "reused") /\ UNCHANGED answer
         \/ /\ row # Nothing /\ row.hash = Body(t)
            /\ answer' = [answer EXCEPT ![t] = row.response]
            /\ Goto(t, "replayed")
  /\ UNCHANGED <<stored, executed, req, cached, exposed>>

\* The handler commits and returns.
Execute(t) ==
  /\ pc[t] = "execute"
  /\ executed' = executed \cup {t}
  /\ IF Key(t) = NoKey
       THEN Goto(t, "created") /\ answer' = [answer EXCEPT ![t] = t]
       ELSE Goto(t, "persist") /\ UNCHANGED answer
  /\ UNCHANGED <<stored, req, cached, exposed>>

\* The handler throws: nothing is stored, so a retry runs it again.
Refuse(t) ==
  /\ pc[t] = "execute"
  /\ Goto(t, "refused")
  /\ UNCHANGED <<stored, executed, req, answer, cached, exposed>>

\* The handler throws after its events are committed, in a projection or a
\* snapshot.
FailAfterCommit(t) ==
  /\ MayFail
  /\ pc[t] = "execute"
  /\ executed' = executed \cup {t}
  /\ Goto(t, "refused")
  /\ Expose(Key(t), TRUE)
  /\ UNCHANGED <<stored, req, answer, cached>>

\* Mutant of PersistResponse: onConflictDoUpdate.
PersistResponseOverwriting(t) ==
  /\ pc[t] = "persist"
  /\ stored' = [stored EXCEPT ![Key(t)] = [hash |-> Body(t), response |-> t]]
  /\ answer' = [answer EXCEPT ![t] = t]
  /\ Goto(t, "created")
  /\ UNCHANGED <<executed, req, cached, exposed>>

\* Mutant of PersistResponse: the row lacks the request hash.
PersistResponseUnhashed(t) ==
  /\ pc[t] = "persist"
  /\ stored' = [stored EXCEPT ![Key(t)] = [response |-> t]]
  /\ answer' = [answer EXCEPT ![t] = t]
  /\ Goto(t, "created")
  /\ UNCHANGED <<executed, req, cached, exposed>>

\* Mutant of PersistResponse: nothing is stored.
PersistResponseForgotten(t) ==
  /\ pc[t] = "persist"
  /\ answer' = [answer EXCEPT ![t] = t]
  /\ Goto(t, "created")
  /\ UNCHANGED <<stored, executed, req, cached, exposed>>

\* INSERT .. ON CONFLICT DO NOTHING; an error of the INSERT is swallowed.
\* Either way the client gets the response of its own handler.
PersistResponse(t) ==
  /\ pc[t] = "persist"
  /\ \/ /\ stored[Key(t)] = Nothing
        /\ stored' = [stored EXCEPT ![Key(t)] =
                        [hash |-> Body(t), response |-> t]]
        /\ UNCHANGED exposed
     \/ /\ stored[Key(t)] # Nothing \/ MayFail
        /\ UNCHANGED stored
        /\ Expose(Key(t), stored[Key(t)] = Nothing)
  /\ answer' = [answer EXCEPT ![t] = t]
  /\ Goto(t, "created")
  /\ UNCHANGED <<executed, req, cached>>

\* The process dies, or the lookup fails.
Abort(t) ==
  /\ MayFail
  /\ InFlight(t)
  /\ Goto(t, "aborted")
  /\ Expose(Key(t), pc[t] = "persist")
  /\ UNCHANGED <<stored, executed, req, answer, cached>>

Next ==
  \E t \in Attempts :
    \/ Receive(t) \/ FindExisting(t) \/ Execute(t) \/ Refuse(t)
    \/ FailAfterCommit(t) \/ PersistResponse(t) \/ Abort(t)

Spec == Init /\ [][Next]_vars

-----------------------------------------------------------------------------
(* Properties *)

\* Type correctness.
TypeOK ==
  /\ stored \in [Keys -> [hash : Bodies, response : Attempts] \cup {Nothing}]
  /\ executed \subseteq Attempts
  /\ pc \in [Attempts -> {"idle", "find", "execute", "persist"} \cup Answered]
  /\ req \in [Attempts -> [key : Keys \cup {NoKey}, body : Bodies]]
  /\ answer \in [Attempts -> Attempts \cup {Nothing}]
  /\ cached \in [Attempts -> BOOLEAN]
  /\ exposed \subseteq Keys \cup {NoKey}

\* A replayed response is of a handler that ran for the same key and the same
\* body, and all replays of a key are of one execution, even if overlapping
\* attempts executed the key several times: the first row stored stays.
ReplaysAgree ==
  \A t, u \in Attempts : pc[t] = "replayed" =>
    /\ answer[t] \in executed
    /\ req[answer[t]] = req[t]
    /\ pc[u] = "replayed" /\ Key(u) = Key(t) => answer[u] = answer[t]

\* An attempt that arrives once its key has a stored response never runs the
\* handler, whatever its body and whatever happens in between.
CachedIsNotExecuted == \A t \in executed : ~cached[t]

\* The inductive invariant behind the two properties above: what a row is
\* derived from, and what each stage of an attempt knows of its key.
IInv ==
  /\ TypeOK
  /\ \A k \in Keys : stored[k] # Nothing =>
       /\ stored[k].response \in executed
       /\ req[stored[k].response] = [key |-> k, body |-> stored[k].hash]
  /\ \A t \in Attempts :
       /\ pc[t] \in {"find", "persist", "replayed"} => Key(t) \in Keys
       /\ pc[t] = "persist" => t \in executed
       /\ pc[t] = "replayed" =>
            /\ stored[Key(t)] # Nothing
            /\ answer[t] = stored[Key(t)].response
            /\ Body(t) = stored[Key(t)].hash
       /\ cached[t] =>
            /\ Key(t) \in Keys
            /\ stored[Key(t)] # Nothing
            /\ pc[t] \notin {"execute", "persist"}
            /\ t \notin executed
       /\ pc[t] = "idle" => t \notin executed

\* A key is executed twice, or two successes answered with different
\* responses, only if attempts with it overlapped or an execution was never
\* stored: a retry of what was answered is safe.
RepeatIsExposed ==
  /\ \A t, u \in executed : Key(t) = Key(u) /\ t # u => Key(t) \in exposed \cup {NoKey}
  /\ \A t, u \in Attempts :
       Key(t) = Key(u) /\ Nothing \notin {answer[t], answer[u]} =>
         answer[t] = answer[u] \/ Key(t) \in exposed \cup {NoKey}

\* docs/production-best-practices.md:128, "so retries are safe": a keyed
\* command takes effect at most once.
AtMostOnce ==
  \A t, u \in executed : Key(t) = Key(u) /\ Key(t) # NoKey => t = u

=============================================================================
