------------------------------- MODULE Process -------------------------------
(***************************************************************************)
(* One run of the program around its upstream client (main.go): serve,     *)
(* stop accepting on a signal, let the requests under way finish for as    *)
(* long as the grace period lasts, exit.  A request here is an HTTP request *)
(* whose handler waits in client.Do.                                       *)
(***************************************************************************)
EXTENDS OCIAuth

CONSTANTS
    Grace,          \* how long Shutdown waits
    ListenerFails   \* whether Serve may end by itself

ASSUME GraceAssumption == Grace \in Nat

VARIABLES
    phase,          \* "serving", "draining" or "exited"
    graceLeft       \* how much is left of the grace period

processVars == <<challenges, tokens, flight, request, phase, graceLeft>>

lifecycle == <<phase, graceLeft>>

\* Requests are accepted while the listener is open.
Accept(r) == phase = "serving" /\ Start(r) /\ UNCHANGED lifecycle

\* Everything else in the transport goes on until the process exits.
Runs(A) == phase # "exited" /\ A /\ UNCHANGED lifecycle

\* Mutant: the shutdown context descends from the one the signal cancelled.
SignalledCancelled ==
    /\ phase = "serving"
    /\ phase' = "draining"
    /\ graceLeft' = 0
    /\ UNCHANGED vars

\* SIGINT or SIGTERM: Shutdown closes the listener.  Further signals change
\* nothing.
Signalled ==
    /\ phase = "serving"
    /\ phase' = "draining"
    /\ graceLeft' = Grace
    /\ UNCHANGED vars

\* run returns, and all that was in memory is gone.
Exits ==
    /\ phase' = "exited"
    /\ graceLeft' = 0
    /\ challenges' = [k \in Keys |-> None]
    /\ tokens' = [c \in Challenge |-> None]
    /\ flight' = [c \in Challenge |-> None]
    /\ request' = [r \in Request |-> Idle]

\* Shutdown returns, as no handler is left or as its context expires.
ShutdownReturns ==
    /\ phase = "draining"
    /\ (\A r \in Request : request[r].pc = "idle") \/ graceLeft = 0
    /\ Exits

\* Serve returns an error.
ServeFails ==
    /\ ListenerFails
    /\ phase = "serving"
    /\ Exits

\* Time runs, down to the end of the grace period if it has begun.
TimePasses ==
    /\ phase # "exited"
    /\ Tick
    /\ IF phase = "draining" THEN graceLeft > 0 /\ graceLeft' = graceLeft - 1
       ELSE UNCHANGED graceLeft
    /\ UNCHANGED phase

ProcessInit ==
    /\ Init
    /\ phase = "serving"
    /\ graceLeft = 0

ProcessNext ==
    \/ \E r \in Request : Accept(r) \/ Runs(Leave(r)) \/ Runs(Progress(r))
    \/ Runs(Sweep)
    \/ Runs(Revoke)
    \/ TimePasses
    \/ Signalled
    \/ ShutdownReturns
    \/ ServeFails

ProcessSpec == ProcessInit /\ [][ProcessNext]_processVars

\* Calls return, by the client timeout if by nothing else; the sweeper's
\* ticker ticks; time goes on, although it waits for whoever computes.
ProcessFairSpec ==
    /\ ProcessSpec
    /\ \A r \in Request : WF_processVars(Runs(Progress(r)))
    /\ WF_processVars(Runs(Sweep))
    /\ SF_processVars(TimePasses)

-----------------------------------------------------------------------------
(* Properties                                                              *)

\* A signal cuts off only requests that have been under way for all of the
\* grace period: none is accepted after it, and none is dropped early
\* (runServer's fresh shutdown context).
DrainIsPatient ==
    [][\A r \in Request :
         phase = "draining" /\ phase' = "exited" /\ Active(r)
         => request[r].age >= Grace]_processVars

\* Every call of client.Do returns, also out of a redirect loop and from a
\* flight whose leader is in trouble
\* (newUpstreamClient's timeout, getOrFetch).
RoundTripsEnd == \A r \in Request : Active(r) ~> ~Active(r)

=============================================================================
