----------------------------- MODULE ProcessCalls -----------------------------
(***************************************************************************)
(* Process implements UpstreamCalls: whatever RoundTrip does in between, a *)
(* call is out, or it has returned.                                        *)
(***************************************************************************)
EXTENDS Process

\* Where a request is for whoever called client.Do.
Seen(q) == IF q.pc = "idle" THEN "none" ELSE IF q.pc = "done" THEN q.result ELSE "out"

Promise == INSTANCE UpstreamCalls WITH
    state <- [r \in Request |-> Seen(request[r])],
    time  <- [r \in Request |-> IF Active(r) THEN request[r].age ELSE 0],
    open  <- phase = "serving"

\* Rediscovery, retries, redirects and shared flights add nothing a caller
\* could see: no success after the deadline, no call beyond twice the timeout,
\* none cut off by a signal before the grace period is over
\* (RoundTrip's clones keep the request's context; getOrFetch; runServer).
ImplementsCalls == Promise!Spec

=============================================================================
