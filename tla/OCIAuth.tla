------------------------------- MODULE OCIAuth -------------------------------
(***************************************************************************)
(* The upstream transport (oci_auth.go): concurrent RoundTrips over a map  *)
(* of learned challenges, a cache of bearer tokens, one token flight per   *)
(* challenge (singleflight) and a sweeper, in front of registries that     *)
(* answer bare requests with a challenge and revoke tokens at any time.    *)
(*                                                                         *)
(* A request is one client.Do: a RoundTrip, and one more for each redirect *)
(* it follows, all under the deadline of --client-timeout.  Each call that *)
(* waits (an upstream request, a token fetch, a flight somebody else       *)
(* leads) and each critical section is a step; computing takes no time.    *)
(*                                                                         *)
(* Time is kept as what is left of an entry's life and as the age of a     *)
(* request, and a revocation as a mark on the tokens it hits, so neither   *)
(* needs a bound.                                                          *)
(***************************************************************************)
EXTENDS Integers

CONSTANTS
    Request,        \* concurrent calls of client.Do
    None,           \* no entry, no token, no header
    Target,         \* URLs: records with a host, a repo (None off the
                    \* OCI paths) and what the URL asks for
    Method,         \* methods requests are made with
    Credentials,    \* Authorization values a request may bring along

    \* Registries and token endpoints.
    Challenge,      \* realm, service and scope, as a value
    Asks,           \* Asks[t]: challenges t answers a bare request with
    Private,        \* targets no anonymous token opens
    SecureRealm,    \* challenges whose realm is an https URL
    Redirects,      \* Redirects[t]: where t may redirect to
    Lifetime,       \* how long fetchToken says a token may be cached
    Faults,         \* a subset of FaultKinds
    Revokes,        \* whether registries revoke tokens

    \* Times of the mirror.
    Timeout,        \* --client-timeout, not 0
    ChallengeTTL

FaultKinds == {"conn", "token", "plain401"}

Idempotent == {"GET", "HEAD"}

\* Requests off the OCI paths (extractOCIRepository) have no repository.
Registry == {t \in Target : t.repo # None}

\* Mutant: one challenge for all the repositories of a host.
ChallengeKeyHost(t) == <<t.host>>

\* The map key of the challenge learned for a repository.
ChallengeKey(t) == <<t.host, t.repo>>

Keys == {ChallengeKey(t) : t \in Registry}

\* A token: for which challenge, and whether it is still accepted.
Token == [challenge : Challenge, good : BOOLEAN]

\* challengeEntry and tokenEntry with the time they have left; time up reads
\* 0, and -1 from then on.  A run of getOrFetch's function: the request that
\* leads it, and whether tokens were revoked since it began.
ChallengeEntry == [challenge : Challenge, left : Nat \cup {-1}]
TokenEntry     == [token : Token, left : Nat \cup {-1}]
Flight         == [leader : Request, revoked : BOOLEAN]

ASSUME TransportAssumption ==
    /\ {Timeout, ChallengeTTL} \subseteq Nat
    /\ Lifetime \subseteq Nat \ {0}
    /\ Asks \in [Target -> SUBSET Challenge]
    /\ Redirects \in [Target -> SUBSET Target]
    /\ Private \subseteq Target
    /\ SecureRealm \subseteq Challenge
    /\ Faults \subseteq FaultKinds
    /\ Revokes \in BOOLEAN
    /\ None \notin Challenge \cup Token \cup Credentials
    /\ None \notin ChallengeEntry \cup TokenEntry \cup Flight

\* A registry asks the same of a repository, whatever a URL wants of it.
ASSUME RepositoryAssumption ==
    \A t, u \in Registry :
        t.host = u.host /\ t.repo = u.repo => Asks[t] = Asks[u]

VARIABLES
    challenges, \* the learned challenge of each repository, or None
    tokens,     \* the token cache
    flight,     \* the token flights
    request     \* the requests

vars == <<challenges, tokens, flight, request>>

-----------------------------------------------------------------------------
(* Requests                                                                *)

Idle == [pc |-> "idle", target |-> None, method |-> None, own |-> None,
         age |-> 0, challenge |-> None, failed |-> None, token |-> None,
         again |-> FALSE, sends |-> 0, result |-> None]

Active(r) == request[r].pc \notin {"idle", "done"}

\* Mutant: a token is fetched under a context of its own.
InCallDetached == {"bypass", "attach", "bare", "retry"}

\* Where a request waits under its own context: upstream, or as the leader of
\* a token flight.  A follower ("wait") is not among them: singleflight's Do
\* does not look at the context of whoever joins.
InCall == {"bypass", "attach", "bare", "retry", "fetch"}

\* Between two calls.
Computing == {"get", "join", "evict"}

\* A call made by r returns by its deadline, with an answer or an error.
Answerable(r) == request[r].age <= Timeout
Overdue(r)    == request[r].age >= Timeout

\* RoundTrip up to its first call or critical section but one: a request off
\* the OCI paths, or with an Authorization of its own, is not the mirror's
\* business; an unexpired challenge starts the proactive path.
Entering(t, method, own, age) ==
    LET base == [Idle EXCEPT !.target = t, !.method = method, !.own = own,
                             !.age = age]
        key  == ChallengeKey(t)
    IN  IF own # None \/ t.repo = None
        THEN [base EXCEPT !.pc = "bypass", !.sends = 1]
        ELSE IF challenges[key] # None /\ challenges[key].left > 0
        THEN [base EXCEPT !.pc = "get", !.challenge = challenges[key].challenge]
        ELSE [base EXCEPT !.pc = "bare", !.sends = 1]

\* client.Do returned.
Done(result) == [Idle EXCEPT !.pc = "done", !.result = result]

\* Record q, about to be sent without a token (discoveryPath).
Discovering(q, failed) ==
    [q EXCEPT !.pc = "bare", !.sends = @ + 1, !.challenge = None, !.token = None,
              !.failed = failed]

\* Record q, about to be sent on a clone that carries the token.
Carrying(q, token) ==
    [q EXCEPT !.pc = IF q.again THEN "retry" ELSE "attach",
              !.sends = @ + 1, !.token = token]

\* Mutant: the error is not looked at.
TokenlessIgnored(q) == Carrying(q, None)

\* getOrFetch returned an error: the proactive path falls back to discovery
\* and remembers what failed, discovery gives up and relays the 401.
Tokenless(q) ==
    IF q.again THEN Done("unauthorized") ELSE Discovering(q, q.challenge)

Becomes(r, q) == request' = [request EXCEPT ![r] = q]

\* The registry lets the request through, and may redirect it.  http.Client
\* follows with the request's own headers, minus Authorization on another
\* host; the mirror's token was only on the clone.
Succeeds(r) ==
    LET q == request[r]
    IN  \/ Becomes(r, Done("ok"))
        \/ \E t \in Redirects[q.target] :
             Becomes(r, Entering(t, q.method, IF t.host = q.target.host THEN q.own ELSE None,
                                 q.age))

Refused(r) == Becomes(r, Done("unauthorized"))

\* client.Do begins.
Start(r) ==
    /\ request[r].pc = "idle"
    /\ \E t \in Target, m \in Method, own \in Credentials \cup {None} :
         Becomes(r, Entering(t, m, own, 0))
    /\ UNCHANGED <<challenges, tokens, flight>>

\* Whoever called client.Do has taken the result.
Leave(r) ==
    /\ request[r].pc = "done"
    /\ Becomes(r, Idle)
    /\ UNCHANGED <<challenges, tokens, flight>>

-----------------------------------------------------------------------------
(* RoundTrip                                                               *)

\* A request the transport stays out of is answered, one way or the other.
Bypassed(r) ==
    /\ request[r].pc = "bypass"
    /\ Answerable(r)
    /\ Succeeds(r) \/ Refused(r)
    /\ UNCHANGED <<challenges, tokens, flight>>

\* base.RoundTrip returns an error, wherever RoundTrip calls it.
CallFails(r) ==
    /\ request[r].pc \in {"bypass", "attach", "bare", "retry"}
    /\ "conn" \in Faults \/ Overdue(r)
    /\ Becomes(r, Done("error"))
    /\ UNCHANGED <<challenges, tokens, flight>>

\* getOrFetch looks in the token cache.
LookUp(r) ==
    LET q == request[r]
        e == tokens[q.challenge]
    IN  /\ q.pc = "get"
        /\ Becomes(r, IF e # None /\ e.left >= 0
                      THEN Carrying(q, e.token)
                      ELSE [q EXCEPT !.pc = "join"])
        /\ UNCHANGED <<challenges, tokens, flight>>

\* It found nothing: lead a flight for the challenge, or wait for the one
\* under way.
Join(r) ==
    LET c == request[r].challenge
    IN  /\ request[r].pc = "join"
        /\ IF flight[c] = None
           THEN /\ flight' = [flight EXCEPT ![c] = [leader |-> r, revoked |-> FALSE]]
                /\ Becomes(r, [request[r] EXCEPT !.pc = "fetch"])
           ELSE /\ Becomes(r, [request[r] EXCEPT !.pc = "wait"])
                /\ UNCHANGED flight
        /\ UNCHANGED <<challenges, tokens>>

\* The requests a flight for c answers.
Joined(c) == {r \in Request : /\ request[r].pc \in {"fetch", "wait"}
                              /\ request[r].challenge = c}

\* fetchToken returns a token, issued at some time since it was asked for.
\* It is cached, and everyone on the flight has it.
TokenArrives(r) ==
    LET c == request[r].challenge
    IN  /\ request[r].pc = "fetch"
        /\ Answerable(r)
        /\ c \in SecureRealm
        /\ \E good \in {TRUE, ~flight[c].revoked}, life \in Lifetime :
             LET token == [challenge |-> c, good |-> good]
             IN  /\ tokens' = [tokens EXCEPT ![c] = [token |-> token, left |-> life]]
                 /\ request' = [q \in Request |-> IF q \in Joined(c)
                                                  THEN Carrying(request[q], token)
                                                  ELSE request[q]]
        /\ flight' = [flight EXCEPT ![c] = None]
        /\ UNCHANGED <<challenges>>

\* Mutant: the error reaches the leader alone.
TokenFailsLeader(r) ==
    LET c == request[r].challenge
    IN  /\ request[r].pc = "fetch"
        /\ "token" \in Faults \/ Overdue(r) \/ c \notin SecureRealm
        /\ Becomes(r, Tokenless(request[r]))
        /\ flight' = [flight EXCEPT ![c] = None]
        /\ UNCHANGED <<challenges, tokens>>

\* fetchToken fails: the realm is not https, the endpoint's answer is no
\* good, or the leader's deadline strikes.  Everyone on the flight fails.
TokenFails(r) ==
    LET c == request[r].challenge
    IN  /\ request[r].pc = "fetch"
        /\ "token" \in Faults \/ Overdue(r) \/ c \notin SecureRealm
        /\ request' = [q \in Request |-> IF q \in Joined(c) THEN Tokenless(request[q])
                                         ELSE request[q]]
        /\ flight' = [flight EXCEPT ![c] = None]
        /\ UNCHANGED <<challenges, tokens>>

\* Whether target t takes the token.
Accepts(t, token) ==
    /\ t \notin Private
    /\ Asks[t] = {} \/ token.challenge \in Asks[t]
    /\ token.good

\* The proactive request is answered.  On a 401 the challenge is forgotten and
\* the token will be evicted, if the request may be sent again.
Attached(r) ==
    LET q == request[r]
    IN  /\ q.pc = "attach"
        /\ Answerable(r)
        /\ \/ /\ Accepts(q.target, q.token)
              /\ Succeeds(r)
              /\ UNCHANGED challenges
           \/ /\ ~Accepts(q.target, q.token)
              /\ q.method \notin Idempotent
              /\ Refused(r)
              /\ UNCHANGED challenges
           \/ /\ ~Accepts(q.target, q.token)
              /\ q.method \in Idempotent
              /\ challenges' = [challenges EXCEPT ![ChallengeKey(q.target)] = None]
              /\ Becomes(r, [q EXCEPT !.pc = "evict"])
        /\ UNCHANGED <<tokens, flight>>

\* Whatever the cache holds for the challenge by now goes, and discovery
\* begins.
Evict(r) ==
    LET q == request[r]
    IN  /\ q.pc = "evict"
        /\ tokens' = [tokens EXCEPT ![q.challenge] = None]
        /\ Becomes(r, Discovering(q, None))
        /\ UNCHANGED <<challenges, flight>>

\* The bare request is answered with something else than an OCI challenge, or
\* may not be sent again.
Answered(r) ==
    LET q == request[r]
    IN  /\ q.pc = "bare"
        /\ Answerable(r)
        /\ \/ Asks[q.target] = {} /\ Succeeds(r)
           \/ /\ Asks[q.target] # {}
              /\ q.method \notin Idempotent \/ "plain401" \in Faults
              /\ Refused(r)
        /\ UNCHANGED <<challenges, tokens, flight>>

\* The bare request is answered with a challenge.  It is learned, and unless
\* it is the one whose token could not be had, a token is looked for.
Challenged(r) ==
    LET q == request[r]
    IN  /\ q.pc = "bare"
        /\ Answerable(r)
        /\ q.method \in Idempotent
        /\ \E c \in Asks[q.target] :
             /\ challenges' = [challenges EXCEPT ![ChallengeKey(q.target)] =
                                 [challenge |-> c, left |-> ChallengeTTL]]
             /\ Becomes(r, IF q.failed = c
                           THEN Done("unauthorized")
                           ELSE [q EXCEPT !.pc = "get", !.challenge = c, !.again = TRUE])
        /\ UNCHANGED <<tokens, flight>>

\* Mutant: a refused token starts another discovery.
RetriedAgain(r) ==
    LET q == request[r]
    IN  /\ q.pc = "retry"
        /\ Answerable(r)
        /\ IF Accepts(q.target, q.token) THEN Succeeds(r)
           ELSE Becomes(r, Discovering(q, None))
        /\ UNCHANGED <<challenges, tokens, flight>>

\* Mutant: the clone does not carry the request's context.
RetriedLate(r) ==
    LET q == request[r]
    IN  /\ q.pc = "retry"
        /\ IF Accepts(q.target, q.token) THEN Succeeds(r) ELSE Refused(r)
        /\ UNCHANGED <<challenges, tokens, flight>>

\* The request with the token discovery got is answered, whatever the answer.
Retried(r) ==
    LET q == request[r]
    IN  /\ q.pc = "retry"
        /\ Answerable(r)
        /\ IF Accepts(q.target, q.token) THEN Succeeds(r) ELSE Refused(r)
        /\ UNCHANGED <<challenges, tokens, flight>>

-----------------------------------------------------------------------------
(* The background                                                          *)

Stale(entry) == entry # None /\ entry.left = -1

\* sweepLoop: first the challenges, then the tokens.
SweepChallenges ==
    /\ \E k \in Keys : Stale(challenges[k])
    /\ challenges' = [k \in Keys |-> IF Stale(challenges[k]) THEN None ELSE challenges[k]]
    /\ UNCHANGED <<tokens, flight, request>>

SweepTokens ==
    /\ \E c \in Challenge : Stale(tokens[c])
    /\ tokens' = [c \in Challenge |-> IF Stale(tokens[c]) THEN None ELSE tokens[c]]
    /\ UNCHANGED <<challenges, flight, request>>

Revoked(token) == IF token = None THEN None ELSE [token EXCEPT !.good = FALSE]

\* Every token issued so far stops being accepted.
Revoke ==
    /\ Revokes
    /\ tokens' = [c \in Challenge |->
                    IF tokens[c] = None THEN None
                    ELSE [tokens[c] EXCEPT !.token = Revoked(@)]]
    /\ flight' = [c \in Challenge |->
                    IF flight[c] = None THEN None
                    ELSE [flight[c] EXCEPT !.revoked = TRUE]]
    /\ request' = [r \in Request |-> [request[r] EXCEPT !.token = Revoked(@)]]
    /\ UNCHANGED challenges

Shorter(entry) ==
    IF entry = None \/ entry.left = -1 THEN entry ELSE [entry EXCEPT !.left = @ - 1]

\* Time passes, but not over a deadline somebody waits under, nor while a
\* request computes.
Tick ==
    /\ \A r \in Request : /\ request[r].pc \notin Computing
                          /\ request[r].pc \in InCall => ~Overdue(r)
    /\ challenges' = [k \in Keys |-> Shorter(challenges[k])]
    /\ tokens' = [c \in Challenge |-> Shorter(tokens[c])]
    /\ request' = [r \in Request |-> IF Active(r) THEN [request[r] EXCEPT !.age = @ + 1]
                                     ELSE request[r]]
    /\ UNCHANGED flight

-----------------------------------------------------------------------------

Init ==
    /\ challenges = [k \in Keys |-> None]
    /\ tokens = [c \in Challenge |-> None]
    /\ flight = [c \in Challenge |-> None]
    /\ request = [r \in Request |-> Idle]

\* The steps that move a request on.
Progress(r) ==
    \/ Bypassed(r)
    \/ CallFails(r)
    \/ LookUp(r)
    \/ Join(r)
    \/ TokenArrives(r)
    \/ TokenFails(r)
    \/ Attached(r)
    \/ Evict(r)
    \/ Answered(r)
    \/ Challenged(r)
    \/ Retried(r)

Sweep == SweepChallenges \/ SweepTokens

Next ==
    \/ \E r \in Request : Start(r) \/ Leave(r) \/ Progress(r)
    \/ Sweep
    \/ Revoke
    \/ Tick

Spec == Init /\ [][Next]_vars

-----------------------------------------------------------------------------
(* Properties                                                              *)

RequestRecord ==
    [pc        : {"idle", "bypass", "get", "join", "fetch", "wait", "attach",
                  "evict", "bare", "retry", "done"},
     target    : Target \cup {None},
     method    : Method \cup {None},
     own       : Credentials \cup {None},
     age       : Nat,
     challenge : Challenge \cup {None},
     failed    : Challenge \cup {None},
     token     : Token \cup {None},
     again     : BOOLEAN,
     sends     : Nat,
     result    : {"ok", "unauthorized", "error", None}]

\* What a request holds for its next step.
Holds(q) ==
    /\ q.pc \notin {"idle", "done"} => q.target \in Target
    /\ q.pc \notin {"idle", "done", "bypass"} => q.target \in Registry
    /\ q.pc \in {"get", "join", "fetch", "wait", "attach", "evict", "retry"}
         => q.challenge \in Challenge
    /\ q.pc \in {"attach", "evict", "retry"} => q.token \in Token

\* Every variable and every field has its type, and a request has what its
\* next step uses.
TypeOK ==
    /\ challenges \in [Keys -> ChallengeEntry \cup {None}]
    /\ tokens \in [Challenge -> TokenEntry \cup {None}]
    /\ flight \in [Challenge -> Flight \cup {None}]
    /\ request \in [Request -> RequestRecord]
    /\ \A r \in Request : Holds(request[r])

\* A token goes only where its own challenge came from: not to another
\* repository of the host, not to another registry through a redirect or a
\* shared flight, and never beside the request's own Authorization
\* (challengeKey, the clones in RoundTrip and discoveryPath).
TokenConfined ==
    \A r \in Request :
      request[r].pc \in {"attach", "retry"}
      => /\ request[r].token.challenge \in Asks[request[r].target]
         /\ request[r].own = None

\* Nobody waits for a flight that is gone, or for one that fetches another
\* challenge's token: whoever waits is led by a request that is fetching
\* (getOrFetch on singleflight.Do).
WaitersLed ==
    \A r \in Request :
      request[r].pc = "wait"
      => LET f == flight[request[r].challenge]
         IN  /\ f # None
             /\ request[f.leader].pc = "fetch"
             /\ request[f.leader].challenge = request[r].challenge

\* However stale tokens, failed fetches and changing challenges follow each
\* other, an upstream sees one request at most three times, and one that is
\* not idempotent once (RoundTrip, discoveryPath: no retry loop).
SendsBounded ==
    \A r \in Request :
      /\ request[r].sends <= 3
      /\ request[r].method \notin Idempotent => request[r].sends <= 1

\* A request takes at most twice the client timeout: the flight it may be
\* waiting on ends by the deadline of its leader, which began before this
\* request's own deadline (getOrFetch under the leader's context).
OvertimeBounded ==
    \A r \in Request : Active(r) => request[r].age <= 2 * Timeout

=============================================================================
