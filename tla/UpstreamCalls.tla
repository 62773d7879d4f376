---------------------------- MODULE UpstreamCalls ---------------------------
(***************************************************************************)
(* What the rest of the mirror relies on of client.Do and of the process   *)
(* around it, without challenges, tokens, redirects or flights: a call     *)
(* ends in one of three ways, an upstream's success never comes after the  *)
(* deadline, nothing takes longer than two of them, and a call is cut off  *)
(* only by a listener that failed or by a grace period that is over.       *)
(***************************************************************************)
EXTENDS Integers

CONSTANTS
    Request,        \* concurrent calls of client.Do
    Timeout,        \* --client-timeout
    Grace,          \* how long Shutdown waits
    ListenerFails   \* whether the listener may fail

VARIABLES
    state,  \* "none", "out", or what the call returned
    time,   \* how long a call has been out
    open    \* whether requests are accepted

vars == <<state, time, open>>

Out == {r \in Request : state[r] = "out"}

Init ==
    /\ state = [r \in Request |-> "none"]
    /\ time = [r \in Request |-> 0]
    /\ open = TRUE

Begin(r) ==
    /\ open
    /\ state[r] = "none"
    /\ state' = [state EXCEPT ![r] = "out"]
    /\ time' = [time EXCEPT ![r] = 0]
    /\ UNCHANGED open

\* A call may succeed as long as its deadline is not over.
Outcomes(r) == {"unauthorized", "error"} \cup IF time[r] <= Timeout THEN {"ok"} ELSE {}

\* Calls that share a failure return together.
Return ==
    \E calls \in SUBSET Out : \E outcome \in [calls -> {"ok", "unauthorized", "error"}] :
      /\ \A r \in calls : outcome[r] \in Outcomes(r)
      /\ state' = [r \in Request |-> IF r \in calls THEN outcome[r] ELSE state[r]]
      /\ time' = [r \in Request |-> IF r \in calls THEN 0 ELSE time[r]]
      /\ UNCHANGED open

\* Whoever called takes the result.
Take(r) ==
    /\ state[r] \notin {"none", "out"}
    /\ state' = [state EXCEPT ![r] = "none"]
    /\ UNCHANGED <<time, open>>

Pass ==
    /\ \A r \in Out : time[r] < 2 * Timeout
    /\ time' = [r \in Request |-> IF r \in Out THEN time[r] + 1 ELSE time[r]]
    /\ UNCHANGED <<state, open>>

Close ==
    /\ open
    /\ open' = FALSE
    /\ UNCHANGED <<state, time>>

\* The process ends.
End ==
    /\ IF open THEN ListenerFails ELSE \A r \in Out : time[r] >= Grace
    /\ state' = [r \in Request |-> "none"]
    /\ time' = [r \in Request |-> 0]
    /\ open' = FALSE

Next ==
    \/ \E r \in Request : Begin(r) \/ Take(r)
    \/ Return
    \/ Pass
    \/ Close
    \/ End

Spec == Init /\ [][Next]_vars

=============================================================================
