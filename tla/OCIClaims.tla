------------------------------ MODULE OCIClaims ------------------------------
(* What the design of the token transport says of it, and the code does not. *)
EXTENDS OCIAuth

\* Why a request may be answered with the registry's 401: it may not be sent
\* twice, no anonymous token opens the target, the one it has is invalid, its
\* token endpoint is of no use, or its own time is up.
Unresolvable(r) ==
    LET q == request[r]
    IN  \/ q.own # None
        \/ q.target.repo = None
        \/ q.method \notin Idempotent
        \/ q.target \in Private
        \/ q.token # None /\ ~q.token.good
        \/ Faults # {}
        \/ ~(Asks[q.target] \subseteq SecureRealm)
        \/ Overdue(r)

\* "Clients never see auth challenges for successful public OCI flows", only
\* "when the transport cannot resolve a challenge -- token endpoint down,
\* malformed response, or invalid token"
\* (docs/design-plans/2026-03-09-oci-token-auth.md:11).
UnauthorizedOnlyIfUnresolvable ==
    [][\A r \in Request :
         Active(r) /\ request'[r].result = "unauthorized" => Unresolvable(r)]_vars

=============================================================================
