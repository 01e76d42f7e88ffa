-------------------------- MODULE IdempotencyProofs --------------------------
(***************************************************************************)
(* The interceptor's replays, for any number of attempts, keys and bodies. *)
(***************************************************************************)
EXTENDS Idempotency, TLAPS

USE KeysAssumption, NothingAssumption, MayFailAssumption

LEMMA InitIInv == Init => IInv
BY DEF Init, IInv, TypeOK, Key, Body, Answered

LEMMA StepIInv == IInv /\ [Next]_vars => IInv'
<1> SUFFICES ASSUME IInv, [Next]_vars PROVE IInv'
  OBVIOUS
<1> USE DEF IInv, TypeOK, Key, Body, Goto, Expose, InFlight, Answered
<1>1. ASSUME NEW t \in Attempts, Receive(t) PROVE IInv'
  BY <1>1 DEF Receive
<1>2. ASSUME NEW t \in Attempts, FindExisting(t) PROVE IInv'
  <2>1. /\ Key(t) \in Keys /\ pc[t] = "find"
        /\ UNCHANGED <<stored, executed, req, cached, exposed>>
    BY <1>2 DEF FindExisting
  <2>2. CASE /\ stored[Key(t)] = Nothing
             /\ Goto(t, "execute") /\ UNCHANGED answer
    BY <2>1, <2>2
  <2>3. CASE Goto(t, "reused") /\ UNCHANGED answer
    BY <2>1, <2>3
  <2>4. CASE /\ stored[Key(t)] # Nothing /\ stored[Key(t)].hash = Body(t)
             /\ answer' = [answer EXCEPT ![t] = stored[Key(t)].response]
             /\ Goto(t, "replayed")
    <3>1. stored[Key(t)].response \in Attempts
      BY <2>1, <2>4
    <3>2. TypeOK'
      BY <2>1, <2>4, <3>1
    <3> QED
      BY <2>1, <2>4, <3>1, <3>2
  <2> QED
    BY <1>2, <2>2, <2>3, <2>4 DEF FindExisting
<1>3. ASSUME NEW t \in Attempts, Execute(t) PROVE IInv'
  <2>1. /\ pc[t] = "execute" /\ ~cached[t]
        /\ executed' = executed \cup {t}
        /\ UNCHANGED <<stored, req, cached, exposed>>
    BY <1>3 DEF Execute
  <2>2. CASE /\ Key(t) = NoKey
             /\ Goto(t, "created") /\ answer' = [answer EXCEPT ![t] = t]
    BY <2>1, <2>2
  <2>3. CASE Key(t) # NoKey /\ Goto(t, "persist") /\ UNCHANGED answer
    <3>1. Key(t) \in Keys
      BY <2>3
    <3> QED
      BY <2>1, <2>3, <3>1
  <2> QED
    BY <1>3, <2>2, <2>3 DEF Execute
<1>4. ASSUME NEW t \in Attempts, Refuse(t) PROVE IInv'
  BY <1>4 DEF Refuse
<1>5. ASSUME NEW t \in Attempts, FailAfterCommit(t) PROVE IInv'
  BY <1>5 DEF FailAfterCommit
<1>6. ASSUME NEW t \in Attempts, PersistResponse(t) PROVE IInv'
  <2>1. Key(t) \in Keys /\ t \in executed /\ req[t] = [key |-> Key(t), body |-> Body(t)]
    BY <1>6 DEF PersistResponse
  <2>2. CASE UNCHANGED stored
    BY <1>6, <2>1, <2>2 DEF PersistResponse
  <2>3. CASE stored[Key(t)] = Nothing /\ stored' =
               [stored EXCEPT ![Key(t)] = [hash |-> Body(t), response |-> t]]
    BY <1>6, <2>1, <2>3 DEF PersistResponse
  <2> QED
    BY <1>6, <2>2, <2>3 DEF PersistResponse
<1>7. ASSUME NEW t \in Attempts, Abort(t) PROVE IInv'
  BY <1>7 DEF Abort
<1>8. CASE UNCHANGED vars
  BY <1>8 DEF vars
<1> QED
  BY <1>1, <1>2, <1>3, <1>4, <1>5, <1>6, <1>7, <1>8 DEF Next

LEMMA AlwaysIInv == Spec => []IInv
BY InitIInv, StepIInv, PTL DEF Spec

\* Replays of a key agree with one another and with the request they were
\* made for, whatever attempts overlap and whatever fails.
THEOREM ReplaysAlwaysAgree == Spec => []ReplaysAgree
<1>1. IInv => ReplaysAgree
  BY DEF IInv, TypeOK, ReplaysAgree, Key, Body
<1> QED
  BY AlwaysIInv, <1>1, PTL

\* An attempt that finds its key stored when it arrives is never executed.
THEOREM CachedNeverExecuted == Spec => []CachedIsNotExecuted
<1>1. IInv => CachedIsNotExecuted
  BY DEF IInv, TypeOK, CachedIsNotExecuted
<1> QED
  BY AlwaysIInv, <1>1, PTL

\* The variables are of their types in every state.
THEOREM TypeCorrect == Spec => []TypeOK
<1>1. IInv => TypeOK
  BY DEF IInv
<1> QED
  BY AlwaysIInv, <1>1, PTL

-----------------------------------------------------------------------------
(* Executions that repeat *)

\* While a key is not exposed, one attempt at most is on its way; what it
\* finds is still so when it executes; an execution is the stored one or is
\* about to be stored; every answer is the stored response.
Alone(k) ==
  /\ \A t, u \in Attempts :
       Key(t) = k /\ Key(u) = k /\ InFlight(t) /\ InFlight(u) => t = u
  /\ \A t \in Attempts : Key(t) = k =>
       /\ pc[t] \in {"execute", "persist"} => stored[k] = Nothing
       /\ t \in executed =>
            \/ pc[t] = "persist"
            \/ stored[k] # Nothing /\ stored[k].response = t
       /\ answer[t] # Nothing => stored[k] # Nothing /\ stored[k].response = answer[t]

AloneInv == \A k \in Keys \ exposed : Alone(k)

LEMMA InitAlone == Init => AloneInv
BY DEF Init, AloneInv, Alone, Key, InFlight, Answered

LEMMA StepAlone == IInv /\ AloneInv /\ [Next]_vars => AloneInv'
<1> SUFFICES ASSUME IInv, AloneInv, [Next]_vars PROVE AloneInv'
  OBVIOUS
<1> SUFFICES ASSUME NEW k \in Keys, k \notin exposed' PROVE Alone(k)'
  BY DEF AloneInv
<1>0. TypeOK
  BY DEF IInv
<1> USE <1>0 DEF TypeOK, Key, Goto, Expose, InFlight, Answered
<1>1. ASSUME NEW t \in Attempts, Receive(t) PROVE Alone(k)'
  <2>1. Alone(k) /\ UNCHANGED <<stored, executed, req, answer>>
    BY <1>1 DEF Receive, AloneInv
  <2>2. Key(t) = k => \A u \in Attempts : Key(u) = k => ~InFlight(u)
    BY <1>1 DEF Receive
  <2>3. Key(t) = k => pc' = [pc EXCEPT ![t] = "find"]
    BY <1>1 DEF Receive
  <2>4. \A u \in Attempts : Key(u) = k /\ u # t => pc'[u] = pc[u]
    BY <1>1 DEF Receive
  <2>5. t \notin executed
    BY <1>1 DEF IInv, Receive
  <2> QED
    BY <2>1, <2>2, <2>3, <2>4, <2>5 DEF Alone
<1>2. ASSUME NEW t \in Attempts, FindExisting(t) PROVE Alone(k)'
  <2>1. Alone(k) /\ UNCHANGED <<stored, executed, req>> /\ pc[t] = "find"
    BY <1>2 DEF FindExisting, AloneInv
  <2>2. \A u \in Attempts : u # t => pc'[u] = pc[u] /\ answer'[u] = answer[u]
    BY <1>2 DEF FindExisting
  <2>3. \/ pc'[t] = "execute" /\ stored[Key(t)] = Nothing /\ answer'[t] = answer[t]
        \/ pc'[t] = "reused" /\ answer'[t] = answer[t]
        \/ /\ pc'[t] = "replayed" /\ stored[Key(t)] # Nothing
           /\ answer'[t] = stored[Key(t)].response
    BY <1>2 DEF FindExisting, IInv
  <2> QED
    BY <2>1, <2>2, <2>3 DEF Alone
<1>3. ASSUME NEW t \in Attempts, Execute(t) PROVE Alone(k)'
  <2>1. Alone(k) /\ UNCHANGED <<stored, req>> /\ pc[t] = "execute"
    BY <1>3 DEF Execute, AloneInv
  <2>2. Key(t) = k => /\ pc' = [pc EXCEPT ![t] = "persist"] /\ UNCHANGED answer
    BY <1>3 DEF Execute
  <2>3. \A u \in Attempts : u # t => pc'[u] = pc[u] /\ answer'[u] = answer[u]
    BY <1>3 DEF Execute
  <2>4. executed' = executed \cup {t}
    BY <1>3 DEF Execute
  <2> QED
    BY <2>1, <2>2, <2>3, <2>4 DEF Alone
<1>4. ASSUME NEW t \in Attempts, Refuse(t) PROVE Alone(k)'
  BY <1>4 DEF Refuse, AloneInv, Alone
<1>5. ASSUME NEW t \in Attempts, FailAfterCommit(t) PROVE Alone(k)'
  <2>1. Alone(k) /\ Key(t) # k
    BY <1>5 DEF FailAfterCommit, AloneInv
  <2> QED
    BY <1>5, <2>1 DEF FailAfterCommit, Alone
<1>6. ASSUME NEW t \in Attempts, PersistResponse(t) PROVE Alone(k)'
  <2>1. /\ Alone(k) /\ UNCHANGED <<executed, req>> /\ pc[t] = "persist"
        /\ pc' = [pc EXCEPT ![t] = "created"]
        /\ answer' = [answer EXCEPT ![t] = t]
        /\ \A u \in Attempts : u # t => pc'[u] = pc[u] /\ answer'[u] = answer[u]
    BY <1>6 DEF PersistResponse, AloneInv
  <2>2. CASE Key(t) # k
    <3>1. stored'[k] = stored[k]
      BY <1>6, <2>2 DEF PersistResponse
    <3> QED
      BY <2>1, <2>2, <3>1 DEF Alone
  <2>3. CASE Key(t) = k
    <3>1. stored[k] = Nothing
      BY <2>1, <2>3 DEF Alone
    <3>2. stored'[k] = [hash |-> Body(t), response |-> t]
      BY <1>6, <2>3, <3>1 DEF PersistResponse
    <3>3. stored'[k] # Nothing /\ stored'[k].response = t
      BY <3>2 DEF Body
    <3>4. \A u \in Attempts : Key(u) = k /\ u \in executed => u = t
      BY <2>1, <2>3, <3>1 DEF Alone
    <3>5. \A u \in Attempts : Key(u) = k => u = t \/ (~InFlight(u) /\ answer[u] = Nothing)
      BY <2>1, <2>3, <3>1 DEF Alone
    <3> QED
      BY <2>1, <2>3, <3>3, <3>4, <3>5 DEF Alone
  <2> QED
    BY <2>2, <2>3
<1>7. ASSUME NEW t \in Attempts, Abort(t) PROVE Alone(k)'
  <2>1. Alone(k) /\ (Key(t) = k => pc[t] # "persist")
    BY <1>7 DEF Abort, AloneInv
  <2> QED
    BY <1>7, <2>1 DEF Abort, Alone
<1>8. CASE UNCHANGED vars
  BY <1>8 DEF vars, AloneInv, Alone
<1> QED
  BY <1>1, <1>2, <1>3, <1>4, <1>5, <1>6, <1>7, <1>8 DEF Next

\* A key is executed twice, or answered differently, only if its attempts
\* overlapped or an execution of it was never stored.
THEOREM RepeatsAreExposed == Spec => []RepeatIsExposed
<1>1. IInv /\ AloneInv => RepeatIsExposed
  <2> SUFFICES ASSUME IInv, AloneInv PROVE RepeatIsExposed
    OBVIOUS
  <2>1. ASSUME NEW t \in executed, NEW u \in executed, Key(t) = Key(u), t # u,
               Key(t) \notin exposed \cup {NoKey}
        PROVE FALSE
    <3>1. Key(t) \in Keys \ exposed /\ t \in Attempts /\ u \in Attempts
      BY <2>1 DEF IInv, TypeOK, Key
    <3> QED
      BY <2>1, <3>1 DEF AloneInv, Alone, InFlight, Answered
  <2>2. ASSUME NEW t \in Attempts, NEW u \in Attempts, Key(t) = Key(u),
               Nothing \notin {answer[t], answer[u]},
               Key(t) \notin exposed \cup {NoKey}
        PROVE answer[t] = answer[u]
    <3>1. Key(t) \in Keys \ exposed
      BY <2>2 DEF IInv, TypeOK, Key
    <3> QED
      BY <2>2, <3>1 DEF AloneInv, Alone
  <2> QED
    BY <2>1, <2>2 DEF RepeatIsExposed
<1> QED
  BY AlwaysIInv, InitAlone, StepAlone, <1>1, PTL DEF Spec

=============================================================================
