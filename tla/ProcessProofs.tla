---------------------------- MODULE ProcessProofs ----------------------------
(***************************************************************************)
(* The invariants of the token transport, proved of every run of the       *)
(* program, for any number of requests, registries, challenges, and any    *)
(* timeout.                                                                *)
(*                                                                         *)
(* What each request owes by itself (RequestOK) is kept apart from what    *)
(* flights and their followers owe each other (FlightsLed).                *)
(***************************************************************************)
EXTENDS ProcessCalls, TLAPS

\* Where a request takes the mirror's own path.
Mine(q) == q.pc \notin {"idle", "done", "bypass"}

\* How often a request has been sent by each point of its way.
SendsSoFar(q) ==
    /\ q.pc \in {"idle", "done"} => q.sends = 0
    /\ q.pc \in {"bypass", "attach", "evict"} => q.sends = 1
    /\ q.pc \in {"attach", "evict", "bare"} => ~q.again
    /\ q.pc \in {"get", "join", "fetch", "wait"} =>
         IF q.again THEN q.sends <= 2 ELSE q.sends = 0
    /\ q.pc = "bare" => q.sends <= 2 /\ (q.method \notin Idempotent => q.sends <= 1)
    /\ q.pc = "retry" => q.again /\ q.sends <= 3
    /\ q.pc = "evict" => q.method \in Idempotent
    /\ q.again = TRUE /\ Mine(q) => q.method \in Idempotent

\* A request leaves what it computes in time; only a follower, and whoever was
\* one, is late.
InTime(q) ==
    /\ q.pc \in Computing \cup {"fetch"} => q.age <= Timeout
    /\ q.pc \notin {"idle", "done"} => q.age <= 2 * Timeout

\* The challenge is the target's, the token the challenge's.
Confined(q) ==
    /\ Mine(q) => q.own = None
    /\ Mine(q) /\ q.pc # "bare" => q.challenge \in Asks[q.target]
    /\ q.pc \in {"attach", "retry"} => q.token.challenge = q.challenge

RequestOK(q) ==
    /\ q \in RequestRecord
    /\ Holds(q)
    /\ SendsSoFar(q)
    /\ InTime(q)
    /\ Confined(q)

EntriesOK ==
    /\ challenges \in [Keys -> ChallengeEntry \cup {None}]
    /\ tokens \in [Challenge -> TokenEntry \cup {None}]
    /\ \A t \in Registry :
         challenges[ChallengeKey(t)] # None
         => challenges[ChallengeKey(t)].challenge \in Asks[t]
    /\ \A c \in Challenge : tokens[c] # None => tokens[c].token.challenge = c

FlightsLed ==
    /\ flight \in [Challenge -> Flight \cup {None}]
    /\ request \in [Request -> RequestRecord]
    /\ \A c \in Challenge :
         flight[c] # None => /\ request[flight[c].leader].pc = "fetch"
                             /\ request[flight[c].leader].challenge = c
    /\ \A r \in Request :
         request[r].pc = "fetch"
         => /\ flight[request[r].challenge] # None
            /\ flight[request[r].challenge].leader = r
    /\ \A r \in Request :
         request[r].pc = "wait"
         => /\ flight[request[r].challenge] # None
            /\ request[r].age <= request[flight[request[r].challenge].leader].age + Timeout

\* The inductive invariant.
TransportInv ==
    /\ EntriesOK
    /\ FlightsLed
    /\ \A r \in Request : RequestOK(request[r])

-----------------------------------------------------------------------------
(* Request records                                                         *)

LEMMA IdleOK == RequestOK(Idle)
  BY DEF RequestOK, RequestRecord, Holds, SendsSoFar, InTime, Confined, Mine, Idle, Computing

LEMMA DoneOK ==
  ASSUME NEW result \in {"ok", "unauthorized", "error"}
  PROVE  RequestOK(Done(result)) /\ Done(result).pc = "done"
  BY DEF RequestOK, RequestRecord, Holds, SendsSoFar, InTime, Confined, Mine, Idle, Computing, Done

LEMMA EnteringOK ==
  ASSUME EntriesOK,
         NEW t \in Target, NEW method \in Method \cup {None}, NEW own \in Credentials \cup {None},
         NEW age \in Nat, age <= Timeout
  PROVE  /\ RequestOK(Entering(t, method, own, age))
         /\ Entering(t, method, own, age).pc \in {"bypass", "get", "bare"}
        /\ Entering(t, method, own, age).age = age
  <1> DEFINE base == [Idle EXCEPT !.target = t, !.method = method, !.own = own, !.age = age]
             key  == ChallengeKey(t)
  <1>0. Timeout \in Nat
    BY TransportAssumption
  <1>b. /\ base \in RequestRecord
        /\ base.target = t /\ base.age = age /\ base.own = own
        /\ base.sends = 0 /\ base.again = FALSE
    BY DEF RequestRecord, Idle
  <1>s. SUFFICES ASSUME NEW q, q = Entering(t, method, own, age)
                 PROVE  RequestOK(q) /\ q.pc \in {"bypass", "get", "bare"} /\ q.age = age
    OBVIOUS
  <1> HIDE DEF base
  <1>1. CASE own # None \/ t.repo = None
    <2>1. q = [base EXCEPT !.pc = "bypass", !.sends = 1]
      BY <1>s, <1>1 DEF Entering, base
    <2>2. q \in RequestRecord
      BY <1>b, <2>1 DEF RequestRecord
    <2>3. q.pc = "bypass" /\ q.sends = 1 /\ q.target = t /\ q.age = age /\ q.again = FALSE
      BY <1>b, <2>1 DEF RequestRecord
    <2> QED
      BY <1>0, <2>2, <2>3 DEF RequestOK, Holds, SendsSoFar, InTime, Confined, Mine, Computing
  <1>2. CASE own = None /\ t.repo # None
    <2>1. t \in Registry /\ key \in Keys
      BY <1>2 DEF Registry, Keys
    <2>2. CASE challenges[key] # None /\ challenges[key].left > 0
      <3>1. challenges[key].challenge \in Challenge \cap Asks[t]
        BY <2>1, <2>2 DEF EntriesOK, ChallengeEntry
      <3>2. q = [base EXCEPT !.pc = "get", !.challenge = challenges[key].challenge]
        BY <1>s, <1>2, <2>2 DEF Entering, base
      <3>3. q \in RequestRecord
        BY <1>b, <3>1, <3>2 DEF RequestRecord
      <3>4. /\ q.pc = "get" /\ q.sends = 0 /\ q.target = t /\ q.age = age /\ q.again = FALSE
            /\ q.own = None /\ q.challenge \in Challenge \cap Asks[t]
        BY <1>b, <1>2, <3>1, <3>2 DEF RequestRecord
      <3> QED
        BY <1>0, <2>1, <3>3, <3>4
        DEF RequestOK, Holds, SendsSoFar, InTime, Confined, Mine, Computing
    <2>3. CASE ~(challenges[key] # None /\ challenges[key].left > 0)
      <3>1. q = [base EXCEPT !.pc = "bare", !.sends = 1]
        BY <1>s, <1>2, <2>3 DEF Entering, base
      <3>2. q \in RequestRecord
        BY <1>b, <3>1 DEF RequestRecord
      <3>3. /\ q.pc = "bare" /\ q.sends = 1 /\ q.target = t /\ q.age = age /\ q.again = FALSE
            /\ q.own = None
        BY <1>b, <1>2, <3>1 DEF RequestRecord
      <3> QED
        BY <1>0, <2>1, <3>2, <3>3
        DEF RequestOK, Holds, SendsSoFar, InTime, Confined, Mine, Computing
    <2> QED
      BY <2>2, <2>3
  <1> QED
    BY <1>1, <1>2

LEMMA DiscoveringOK ==
  ASSUME NEW p, RequestOK(p), p.pc \in {"fetch", "wait", "evict"},
         p.pc # "evict" => p.again = FALSE,
         NEW failed \in Challenge \cup {None}
  PROVE  /\ RequestOK(Discovering(p, failed)) /\ Discovering(p, failed).pc = "bare"
         /\ Discovering(p, failed).age = p.age
  <1>1. p \in RequestRecord
    BY DEF RequestOK
  <1>2. SUFFICES ASSUME NEW q, q = Discovering(p, failed)
                 PROVE  RequestOK(q) /\ q.pc = "bare" /\ q.age = p.age
    OBVIOUS
  <1>3. q \in RequestRecord
    <2> DEFINE n == p.sends + 1
    <2>1. n \in Nat
      BY <1>1 DEF RequestRecord
    <2>2. q = [p EXCEPT !.pc = "bare", !.sends = n, !.challenge = None, !.token = None,
                        !.failed = failed]
      BY <1>2 DEF Discovering
    <2> HIDE DEF n
    <2> QED
      BY <1>1, <2>1, <2>2 DEF RequestRecord
  <1>4. /\ q.pc = "bare" /\ q.sends = p.sends + 1 /\ q.age = p.age /\ q.own = p.own
        /\ q.target = p.target /\ q.method = p.method /\ q.again = p.again
    BY <1>1, <1>2 DEF RequestRecord, Discovering
  <1>5. p.again \in BOOLEAN /\ p.sends \in Nat /\ p.age \in Nat /\ Timeout \in Nat
    BY <1>1, TransportAssumption DEF RequestRecord
  <1>6. /\ p.own = None /\ p.target \in Registry /\ p.age <= 2 * Timeout
        /\ p.again = FALSE
        /\ p.pc = "evict" => p.method \in Idempotent /\ p.sends = 1
        /\ p.pc # "evict" => p.sends = 0
    <2>1. p.again = FALSE
      BY <1>5 DEF RequestOK, SendsSoFar
    <2>2. p.own = None /\ p.target \in Registry
      BY DEF RequestOK, Holds, Confined, Mine
    <2>3. p.age <= 2 * Timeout
      BY DEF RequestOK, InTime
    <2>4. /\ p.pc = "evict" => p.method \in Idempotent /\ p.sends = 1
          /\ p.pc # "evict" => p.sends = 0
      BY <2>1 DEF RequestOK, SendsSoFar
    <2> QED
      BY <2>1, <2>2, <2>3, <2>4
  <1>7. p.target \in Target
    BY <1>6 DEF Registry
  <1> QED
    BY <1>3, <1>4, <1>5, <1>6, <1>7
    DEF RequestOK, Holds, Confined, InTime, SendsSoFar, Mine, Computing

LEMMA CarryingOK ==
  ASSUME NEW p, RequestOK(p), p.pc \in {"get", "fetch", "wait"},
         NEW token \in Token, token.challenge = p.challenge
  PROVE  /\ RequestOK(Carrying(p, token)) /\ Carrying(p, token).pc \in {"attach", "retry"}
         /\ Carrying(p, token).age = p.age
  <1>1. p \in RequestRecord
    BY DEF RequestOK
  <1>2. SUFFICES ASSUME NEW q, q = Carrying(p, token)
                 PROVE  RequestOK(q) /\ q.pc \in {"attach", "retry"} /\ q.age = p.age
    OBVIOUS
  <1>3. q \in RequestRecord
    <2> DEFINE n  == p.sends + 1
               pc == IF p.again THEN "retry" ELSE "attach"
    <2>1. n \in Nat /\ pc \in {"retry", "attach"}
      BY <1>1 DEF RequestRecord
    <2>2. q = [p EXCEPT !.pc = pc, !.sends = n, !.token = token]
      BY <1>2 DEF Carrying
    <2> HIDE DEF n, pc
    <2> QED
      BY <1>1, <2>1, <2>2 DEF RequestRecord
  <1>4. /\ q.pc = (IF p.again THEN "retry" ELSE "attach")
        /\ q.sends = p.sends + 1 /\ q.age = p.age /\ q.own = p.own
        /\ q.target = p.target /\ q.method = p.method /\ q.again = p.again
        /\ q.challenge = p.challenge /\ q.token = token
    BY <1>1, <1>2 DEF RequestRecord, Carrying
  <1>5. p.again \in BOOLEAN /\ p.sends \in Nat /\ p.age \in Nat /\ Timeout \in Nat
    BY <1>1, TransportAssumption DEF RequestRecord
  <1>6. /\ p.own = None /\ p.target \in Registry /\ p.age <= 2 * Timeout
        /\ p.challenge \in Challenge /\ p.challenge \in Asks[p.target]
        /\ p.again = TRUE => p.sends <= 2 /\ p.method \in Idempotent
        /\ p.again = FALSE => p.sends = 0
    <2>1. p.own = None /\ p.target \in Registry
      BY DEF RequestOK, Holds, Confined, Mine
    <2>2. p.age <= 2 * Timeout
      BY <1>5 DEF RequestOK, InTime, Computing
    <2>3. p.challenge \in Challenge /\ p.challenge \in Asks[p.target]
      BY DEF RequestOK, Holds, Confined, Mine
    <2>4. /\ p.again = TRUE => p.sends <= 2 /\ p.method \in Idempotent
          /\ p.again = FALSE => p.sends = 0
      BY <1>5 DEF RequestOK, SendsSoFar, Mine
    <2> QED
      BY <2>1, <2>2, <2>3, <2>4
  <1>7. p.target \in Target
    BY <1>6 DEF Registry
  <1>8. CASE p.again = TRUE
    BY <1>3, <1>4, <1>5, <1>6, <1>7, <1>8
    DEF RequestOK, Holds, Confined, InTime, SendsSoFar, Mine, Computing
  <1>9. CASE p.again = FALSE
    BY <1>3, <1>4, <1>5, <1>6, <1>7, <1>9
    DEF RequestOK, Holds, Confined, InTime, SendsSoFar, Mine, Computing
  <1> QED
    BY <1>5, <1>8, <1>9

LEMMA TokenlessOK ==
  ASSUME NEW p, RequestOK(p), p.pc \in {"fetch", "wait"}
  PROVE  RequestOK(Tokenless(p)) /\ Tokenless(p).pc \in {"done", "bare"}
  <1>1. p.again \in BOOLEAN /\ p.challenge \in Challenge
    BY DEF RequestOK, RequestRecord, Holds
  <1>2. CASE p.again
    BY <1>2, DoneOK DEF Tokenless
  <1>3. CASE ~p.again
    <2>1. p.again = FALSE /\ Tokenless(p) = Discovering(p, p.challenge)
      BY <1>1, <1>3 DEF Tokenless
    <2> QED
      BY <1>1, <2>1, DiscoveringOK
  <1> QED
    BY <1>1, <1>2, <1>3

\* A change of pc alone, where what is owed stays the same or gets less.
LEMMA MovedOK ==
  ASSUME NEW p, RequestOK(p), NEW pc,
         \/ p.pc = "get" /\ pc = "join"
         \/ p.pc = "join" /\ pc \in {"fetch", "wait"}
         \/ p.pc = "attach" /\ pc = "evict" /\ p.method \in Idempotent /\ p.age <= Timeout
  PROVE  RequestOK([p EXCEPT !.pc = pc]) /\ [p EXCEPT !.pc = pc].pc = pc
  <1>1. p \in RequestRecord
    BY DEF RequestOK
  <1>2. SUFFICES ASSUME NEW q, q = [p EXCEPT !.pc = pc]
                 PROVE  RequestOK(q) /\ q.pc = pc
    OBVIOUS
  <1>3. q \in RequestRecord
    BY <1>1, <1>2 DEF RequestRecord
  <1>4. /\ q.pc = pc
        /\ q.sends = p.sends /\ q.age = p.age /\ q.own = p.own
        /\ q.target = p.target /\ q.method = p.method /\ q.again = p.again
        /\ q.challenge = p.challenge /\ q.token = p.token
    BY <1>1, <1>2 DEF RequestRecord
  <1>5. p.again \in BOOLEAN /\ p.sends \in Nat /\ p.age \in Nat /\ Timeout \in Nat
    BY <1>1, TransportAssumption DEF RequestRecord
  <1> QED
    BY <1>3, <1>4, <1>5
    DEF RequestOK, Holds, Confined, InTime, SendsSoFar, Mine, Computing

\* Discovery has learned the challenge.
LEMMA LearnedOK ==
  ASSUME NEW p, RequestOK(p), p.pc = "bare", p.age <= Timeout, p.method \in Idempotent,
         NEW c \in Challenge, c \in Asks[p.target]
  PROVE  LET q == [p EXCEPT !.pc = "get", !.challenge = c, !.again = TRUE]
         IN  RequestOK(q) /\ q.pc = "get"
  <1>1. p \in RequestRecord
    BY DEF RequestOK
  <1>2. SUFFICES ASSUME NEW q, q = [p EXCEPT !.pc = "get", !.challenge = c, !.again = TRUE]
                 PROVE  RequestOK(q) /\ q.pc = "get"
    OBVIOUS
  <1>3. q \in RequestRecord
    BY <1>1, <1>2 DEF RequestRecord
  <1>4. /\ q.pc = "get" /\ q.again = TRUE /\ q.challenge = c
        /\ q.sends = p.sends /\ q.age = p.age /\ q.own = p.own
        /\ q.target = p.target /\ q.method = p.method
    BY <1>1, <1>2 DEF RequestRecord
  <1>5. p.sends \in Nat /\ p.age \in Nat /\ Timeout \in Nat
    BY <1>1, TransportAssumption DEF RequestRecord
  <1> QED
    BY <1>3, <1>4, <1>5
    DEF RequestOK, Holds, Confined, InTime, SendsSoFar, Mine, Computing

-----------------------------------------------------------------------------
(* Steps of one request that is on no flight                               *)

LEMMA AloneOK ==
  ASSUME TransportInv, NEW r \in Request, request[r].pc \notin {"fetch", "wait"},
         NEW q, RequestOK(q), q.pc \notin {"fetch", "wait"},
         Becomes(r, q), UNCHANGED flight
  PROVE  FlightsLed' /\ \A s \in Request : RequestOK(request'[s])
  <1>1. request' \in [Request -> RequestRecord] /\ request'[r] = q
    BY DEF TransportInv, FlightsLed, Becomes, RequestOK
  <1>2. \A s \in Request \ {r} : request'[s] = request[s]
    BY DEF TransportInv, FlightsLed, Becomes
  <1>3. \A c \in Challenge : flight[c] # None => flight[c].leader \in Request \ {r}
    BY DEF TransportInv, FlightsLed, Flight
  <1>4. \A s \in Request \ {r} : request[s].pc \in {"fetch", "wait"}
                                 => request[s].challenge \in Challenge
    BY DEF TransportInv, RequestOK, Holds
  <1> QED
    BY <1>1, <1>2, <1>3, <1>4 DEF TransportInv, FlightsLed

LEMMA SucceedsOK ==
  ASSUME TransportInv, NEW r \in Request, Active(r), Answerable(r), Succeeds(r)
  PROVE  \E q : RequestOK(q) /\ q.pc \notin {"fetch", "wait"} /\ Becomes(r, q)
  <1>1. CASE Becomes(r, Done("ok"))
    BY <1>1, DoneOK
  <1>2. CASE \E t \in Redirects[request[r].target] :
               Becomes(r, Entering(t, request[r].method,
                                   IF t.host = request[r].target.host
                                   THEN request[r].own ELSE None,
                                   request[r].age))
    <2>0. PICK t \in Redirects[request[r].target] :
               Becomes(r, Entering(t, request[r].method,
                                   IF t.host = request[r].target.host
                                   THEN request[r].own ELSE None,
                                   request[r].age))
      BY <1>2
    <2> DEFINE own == IF t.host = request[r].target.host THEN request[r].own ELSE None
               q   == Entering(t, request[r].method, own, request[r].age)
    <2>1. request[r] \in RequestRecord /\ request[r].target \in Target
      BY DEF TransportInv, RequestOK, Holds, Active
    <2>2. /\ t \in Target /\ own \in Credentials \cup {None}
          /\ request[r].method \in Method \cup {None}
          /\ request[r].age \in Nat /\ request[r].age <= Timeout
      BY <2>1, TransportAssumption DEF RequestRecord, Answerable
    <2>3. EntriesOK
      BY DEF TransportInv
    <2> HIDE DEF own
    <2>4. RequestOK(q) /\ q.pc \in {"bypass", "get", "bare"}
      BY <2>2, <2>3, EnteringOK
    <2>5. Becomes(r, q)
      BY <2>0 DEF own
    <2> QED
      BY <2>4, <2>5
  <1> QED
    BY <1>1, <1>2 DEF Succeeds

LEMMA RefusedOK ==
  ASSUME NEW r \in Request, Refused(r)
  PROVE  \E q : RequestOK(q) /\ q.pc \notin {"fetch", "wait"} /\ Becomes(r, q)
  BY DoneOK DEF Refused

\* What is left to show of a step of one request.
LEMMA OneMoves ==
  ASSUME TransportInv, NEW r \in Request, request[r].pc \notin {"fetch", "wait"},
         \E q : RequestOK(q) /\ q.pc \notin {"fetch", "wait"} /\ Becomes(r, q),
         UNCHANGED flight, EntriesOK'
  PROVE  TransportInv'
  BY AloneOK DEF TransportInv

LEMMA EntriesStay ==
  ASSUME EntriesOK, UNCHANGED <<challenges, tokens>>
  PROVE  EntriesOK'
  BY DEF EntriesOK

LEMMA StartStep ==
  ASSUME TransportInv, NEW r \in Request, Start(r)
  PROVE  TransportInv'
  <1>1. PICK t \in Target, m \in Method, own \in Credentials \cup {None} :
          Becomes(r, Entering(t, m, own, 0))
    BY DEF Start
  <1>2. EntriesOK /\ 0 \in Nat /\ 0 <= Timeout
    BY TransportAssumption DEF TransportInv
  <1>3. /\ RequestOK(Entering(t, m, own, 0))
        /\ Entering(t, m, own, 0).pc \in {"bypass", "get", "bare"}
    BY <1>2, EnteringOK
  <1>4. EntriesOK'
    BY <1>2, EntriesStay DEF Start
  <1> QED
    BY <1>1, <1>3, <1>4, OneMoves DEF Start

LEMMA LeaveStep ==
  ASSUME TransportInv, NEW r \in Request, Leave(r)
  PROVE  TransportInv'
  <1>1. EntriesOK'
    BY EntriesStay DEF Leave, TransportInv
  <1>2. RequestOK(Idle) /\ Idle.pc = "idle"
    BY IdleOK DEF Idle
  <1> QED
    BY <1>1, <1>2, OneMoves DEF Leave

LEMMA BypassedStep ==
  ASSUME TransportInv, NEW r \in Request, Bypassed(r)
  PROVE  TransportInv'
  <1>1. EntriesOK'
    BY EntriesStay DEF Bypassed, TransportInv
  <1>2. Active(r)
    BY DEF Bypassed, Active
  <1> QED
    BY <1>1, <1>2, SucceedsOK, RefusedOK, OneMoves DEF Bypassed

LEMMA CallFailsStep ==
  ASSUME TransportInv, NEW r \in Request, CallFails(r)
  PROVE  TransportInv'
  <1>1. EntriesOK'
    BY EntriesStay DEF CallFails, TransportInv
  <1> QED
    BY <1>1, DoneOK, OneMoves DEF CallFails

LEMMA LookUpStep ==
  ASSUME TransportInv, NEW r \in Request, LookUp(r)
  PROVE  TransportInv'
  <1> DEFINE q == request[r]
             e == tokens[q.challenge]
  <1>1. EntriesOK'
    BY EntriesStay DEF LookUp, TransportInv
  <1>2. RequestOK(q) /\ q.pc = "get" /\ q.challenge \in Challenge
    BY DEF LookUp, TransportInv, RequestOK, Holds
  <1>3. CASE e # None /\ e.left >= 0
    <2>1. e.token \in Token /\ e.token.challenge = q.challenge
      BY <1>2, <1>3 DEF TransportInv, EntriesOK, TokenEntry
    <2>2. Becomes(r, Carrying(q, e.token))
      BY <1>3 DEF LookUp
    <2> QED
      BY <1>1, <1>2, <2>1, <2>2, CarryingOK, OneMoves DEF LookUp
  <1>4. CASE ~(e # None /\ e.left >= 0)
    <2>1. Becomes(r, [q EXCEPT !.pc = "join"])
      BY <1>4 DEF LookUp
    <2> QED
      BY <1>1, <1>2, <2>1, MovedOK, OneMoves DEF LookUp
  <1> QED
    BY <1>3, <1>4

LEMMA AttachedStep ==
  ASSUME TransportInv, NEW r \in Request, Attached(r)
  PROVE  TransportInv'
  <1> DEFINE q == request[r]
  <1>1. RequestOK(q) /\ q.pc = "attach" /\ Active(r) /\ Answerable(r)
    BY DEF Attached, TransportInv, Active
  <1> DEFINE e == [q EXCEPT !.pc = "evict"]
  <1>0. q.method \in Idempotent => RequestOK(e) /\ e.pc = "evict"
    <2>1. q.age <= Timeout
      BY <1>1 DEF Answerable
    <2> HIDE DEF q
    <2> QED
      BY <1>1, <2>1, MovedOK
  <1> HIDE DEF e
  <1>2. CASE UNCHANGED challenges
    <2>1. EntriesOK'
      BY <1>2, EntriesStay DEF Attached, TransportInv
    <2>2. CASE Succeeds(r)
      BY <1>1, <2>1, <2>2, SucceedsOK, OneMoves DEF Attached
    <2>3. CASE Refused(r)
      BY <1>1, <2>1, <2>3, RefusedOK, OneMoves DEF Attached
    <2>4. CASE q.method \in Idempotent /\ Becomes(r, e)
      BY <1>0, <1>1, <2>1, <2>4, OneMoves DEF Attached
    <2> QED
      BY <2>2, <2>3, <2>4 DEF Attached, e
  <1>3. CASE /\ q.method \in Idempotent
             /\ challenges' = [challenges EXCEPT ![ChallengeKey(q.target)] = None]
             /\ Becomes(r, e)
    <2>1. EntriesOK'
      BY <1>3 DEF Attached, TransportInv, EntriesOK, Keys
    <2> QED
      BY <1>0, <1>1, <1>3, <2>1, OneMoves DEF Attached
  <1> QED
    BY <1>2, <1>3 DEF Attached, e

LEMMA EvictStep ==
  ASSUME TransportInv, NEW r \in Request, Evict(r)
  PROVE  TransportInv'
  <1>1. RequestOK(request[r]) /\ request[r].pc = "evict"
    BY DEF Evict, TransportInv
  <1>2. EntriesOK'
    BY DEF Evict, TransportInv, EntriesOK
  <1>3. /\ RequestOK(Discovering(request[r], None))
        /\ Discovering(request[r], None).pc = "bare"
    BY <1>1, DiscoveringOK
  <1> QED
    BY <1>1, <1>2, <1>3, OneMoves DEF Evict

LEMMA AnsweredStep ==
  ASSUME TransportInv, NEW r \in Request, Answered(r)
  PROVE  TransportInv'
  <1>1. EntriesOK'
    BY EntriesStay DEF Answered, TransportInv
  <1>2. Active(r)
    BY DEF Answered, Active
  <1> QED
    BY <1>1, <1>2, SucceedsOK, RefusedOK, OneMoves DEF Answered

LEMMA ChallengedStep ==
  ASSUME TransportInv, NEW r \in Request, Challenged(r)
  PROVE  TransportInv'
  <1> DEFINE q == request[r]
             k == ChallengeKey(q.target)
  <1>1. /\ RequestOK(q) /\ q.pc = "bare" /\ q.age <= Timeout /\ q.method \in Idempotent
        /\ q.target \in Registry /\ q.target \in Target
    BY DEF Challenged, TransportInv, Answerable, RequestOK, Holds, Registry
  <1>2. PICK c \in Asks[q.target] :
          /\ challenges' = [challenges EXCEPT ![k] = [challenge |-> c, left |-> ChallengeTTL]]
          /\ Becomes(r, IF q.failed = c THEN Done("unauthorized")
                        ELSE [q EXCEPT !.pc = "get", !.challenge = c, !.again = TRUE])
    BY DEF Challenged
  <1>3. c \in Challenge
    BY <1>1, <1>2, TransportAssumption
  <1>4. EntriesOK'
    <2>1. k \in Keys /\ [challenge |-> c, left |-> ChallengeTTL] \in ChallengeEntry
      BY <1>1, <1>3, TransportAssumption DEF Keys, ChallengeEntry
    <2>2. \A t \in Registry : ChallengeKey(t) \in Keys
      BY DEF Keys
    <2>3. \A t \in Registry : ChallengeKey(t) = k => c \in Asks[t]
      BY <1>1, <1>2, RepositoryAssumption DEF ChallengeKey
    <2>4. EntriesOK /\ UNCHANGED tokens
      BY DEF Challenged, TransportInv
    <2> HIDE DEF k
    <2> QED
      BY <1>2, <2>1, <2>2, <2>3, <2>4 DEF EntriesOK
  <1>5. CASE q.failed = c
    BY <1>1, <1>2, <1>4, <1>5, DoneOK, OneMoves DEF Challenged
  <1>6. CASE q.failed # c
    BY <1>1, <1>2, <1>3, <1>4, <1>6, LearnedOK, OneMoves DEF Challenged
  <1> QED
    BY <1>5, <1>6

LEMMA RetriedStep ==
  ASSUME TransportInv, NEW r \in Request, Retried(r)
  PROVE  TransportInv'
  <1>1. EntriesOK'
    BY EntriesStay DEF Retried, TransportInv
  <1>2. Active(r)
    BY DEF Retried, Active
  <1> QED
    BY <1>1, <1>2, SucceedsOK, RefusedOK, OneMoves DEF Retried

-----------------------------------------------------------------------------
(* Flights                                                                 *)

LEMMA JoinStep ==
  ASSUME TransportInv, NEW r \in Request, Join(r)
  PROVE  TransportInv'
  <1> DEFINE c == request[r].challenge
  <1>1. EntriesOK'
    BY EntriesStay DEF Join, TransportInv
  <1>2. /\ RequestOK(request[r]) /\ request[r].pc = "join" /\ c \in Challenge
        /\ request[r].age \in Nat /\ request[r].age <= Timeout
    BY DEF Join, TransportInv, RequestOK, RequestRecord, Holds, InTime, Computing
  <1>3. ASSUME NEW pc \in {"fetch", "wait"}, Becomes(r, [request[r] EXCEPT !.pc = pc])
        PROVE  /\ request' \in [Request -> RequestRecord]
               /\ \A s \in Request : RequestOK(request'[s])
               /\ request'[r].pc = pc /\ request'[r].challenge = c
               /\ request'[r].age = request[r].age
               /\ \A s \in Request \ {r} : request'[s] = request[s]
    <2> DEFINE q == [request[r] EXCEPT !.pc = pc]
    <2>1. RequestOK(q) /\ q.pc = pc
      BY <1>2, MovedOK
    <2>2. q.challenge = c /\ q.age = request[r].age
      BY <1>2 DEF RequestOK, RequestRecord
    <2>3. q \in RequestRecord
      BY <2>1 DEF RequestOK
    <2> HIDE DEF q
    <2>4. Becomes(r, q)
      BY <1>3 DEF q
    <2> QED
      BY <2>1, <2>2, <2>3, <2>4 DEF Becomes, TransportInv, FlightsLed
  <1>4. /\ \A d \in Challenge : flight[d] # None => flight[d].leader \in Request \ {r}
        /\ \A s \in Request : request[s].pc \in {"fetch", "wait"}
                               => request[s].challenge \in Challenge
    BY <1>2 DEF TransportInv, FlightsLed, Flight, RequestOK, Holds
  <1>5. CASE flight[c] = None
    <2>1. /\ flight' = [flight EXCEPT ![c] = [leader |-> r, revoked |-> FALSE]]
          /\ Becomes(r, [request[r] EXCEPT !.pc = "fetch"])
      BY <1>5 DEF Join
    <2>2. [leader |-> r, revoked |-> FALSE] \in Flight
      BY DEF Flight
    <2>3. [leader |-> r, revoked |-> FALSE] # None
      BY <2>2, TransportAssumption
    <2>4. FlightsLed'
      BY <1>2, <1>3, <1>4, <1>5, <2>1, <2>2, <2>3 DEF TransportInv, FlightsLed
    <2> QED
      BY <1>1, <1>3, <2>1, <2>4 DEF TransportInv
  <1>6. CASE flight[c] # None
    <2>1. UNCHANGED flight /\ Becomes(r, [request[r] EXCEPT !.pc = "wait"])
      BY <1>6 DEF Join
    <2>2. request[flight[c].leader].age \in Nat
      BY <1>2, <1>4, <1>6 DEF TransportInv, FlightsLed, RequestRecord
    <2>3. Timeout \in Nat
      BY TransportAssumption
    <2>4. FlightsLed'
      BY <1>2, <1>3, <1>4, <1>6, <2>1, <2>2, <2>3 DEF TransportInv, FlightsLed
    <2> QED
      BY <1>1, <1>3, <2>1, <2>4 DEF TransportInv
  <1> QED
    BY <1>5, <1>6

\* A flight ends, and with it everyone on it moves on.
LEMMA FlightEnds ==
  ASSUME TransportInv, NEW c \in Challenge,
         flight' = [flight EXCEPT ![c] = None],
         request' \in [Request -> RequestRecord],
         \A s \in Joined(c) : RequestOK(request'[s]) /\ request'[s].pc \notin {"fetch", "wait"},
         \A s \in Request \ Joined(c) : request'[s] = request[s]
  PROVE  FlightsLed' /\ \A s \in Request : RequestOK(request'[s])
  <1>1. \A s \in Request : request[s].pc \in {"fetch", "wait"}
                           => request[s].challenge \in Challenge
    BY DEF TransportInv, RequestOK, Holds
  <1>2. \A d \in Challenge \ {c} : flight[d] # None
                                  => flight[d].leader \in Request \ Joined(c)
    BY DEF TransportInv, FlightsLed, Flight, Joined
  <1>3. \A s \in Request \ Joined(c) : request[s].pc \in {"fetch", "wait"}
                                       => request[s].challenge # c
    BY DEF Joined
  <1>4. Joined(c) \subseteq Request
    BY DEF Joined
  <1>5. \A s \in Request : RequestOK(request'[s])
    BY <1>4 DEF TransportInv
  <1>6. flight' \in [Challenge -> Flight \cup {None}]
    BY DEF TransportInv, FlightsLed
  <1>7. \A d \in Challenge :
          flight'[d] # None => /\ request'[flight'[d].leader].pc = "fetch"
                               /\ request'[flight'[d].leader].challenge = d
    BY <1>2 DEF TransportInv, FlightsLed
  <1>8. \A s \in Request :
          request'[s].pc = "fetch"
          => /\ flight'[request'[s].challenge] # None
             /\ flight'[request'[s].challenge].leader = s
    BY <1>1, <1>3, <1>4 DEF TransportInv, FlightsLed
  <1>9. \A s \in Request :
          request'[s].pc = "wait"
          => /\ flight'[request'[s].challenge] # None
             /\ request'[s].age
                  <= request'[flight'[request'[s].challenge].leader].age + Timeout
    BY <1>1, <1>2, <1>3, <1>4 DEF TransportInv, FlightsLed
  <1> QED
    BY <1>5, <1>6, <1>7, <1>8, <1>9 DEF FlightsLed

LEMMA TokenArrivesStep ==
  ASSUME TransportInv, NEW r \in Request, TokenArrives(r)
  PROVE  TransportInv'
  <1> DEFINE c == request[r].challenge
  <1>1. c \in Challenge
    BY DEF TokenArrives, TransportInv, RequestOK, Holds
  <1>2. PICK good \in {TRUE, ~flight[c].revoked}, life \in Lifetime :
          LET token == [challenge |-> c, good |-> good]
          IN  /\ tokens' = [tokens EXCEPT ![c] = [token |-> token, left |-> life]]
              /\ request' = [q \in Request |-> IF q \in Joined(c)
                                               THEN Carrying(request[q], token)
                                               ELSE request[q]]
    BY DEF TokenArrives
  <1> DEFINE token == [challenge |-> c, good |-> good]
  <1>3. token \in Token /\ token.challenge = c
    BY <1>1 DEF Token
  <1>4. life \in Nat
    BY TransportAssumption
  <1> HIDE DEF c, token
  <1>5. EntriesOK'
    <2>1. [token |-> token, left |-> life] \in TokenEntry
      BY <1>3, <1>4 DEF TokenEntry
    <2>2. tokens' = [tokens EXCEPT ![c] = [token |-> token, left |-> life]]
      BY <1>2 DEF token
    <2> QED
      BY <1>1, <1>3, <2>1, <2>2 DEF TokenArrives, TransportInv, EntriesOK
  <1>6. \A s \in Joined(c) : /\ RequestOK(Carrying(request[s], token))
                             /\ Carrying(request[s], token).pc \in {"attach", "retry"}
    BY <1>3, CarryingOK DEF Joined, TransportInv
  <1>7. request' = [q \in Request |-> IF q \in Joined(c) THEN Carrying(request[q], token)
                                      ELSE request[q]]
    BY <1>2 DEF token
  <1>8. /\ \A s \in Joined(c) : /\ RequestOK(request'[s])
                               /\ request'[s].pc \notin {"fetch", "wait"}
        /\ \A s \in Request \ Joined(c) : request'[s] = request[s]
    BY <1>6, <1>7 DEF Joined
  <1>9. request' \in [Request -> RequestRecord]
    BY <1>6, <1>7 DEF Joined, TransportInv, FlightsLed, RequestOK
  <1>10. flight' = [flight EXCEPT ![c] = None]
    BY DEF TokenArrives, c
  <1> QED
    BY <1>1, <1>5, <1>8, <1>9, <1>10, FlightEnds DEF TransportInv

LEMMA TokenFailsStep ==
  ASSUME TransportInv, NEW r \in Request, TokenFails(r)
  PROVE  TransportInv'
  <1> DEFINE c == request[r].challenge
  <1>1. c \in Challenge
    BY DEF TokenFails, TransportInv, RequestOK, Holds
  <1>2. EntriesOK'
    BY EntriesStay DEF TokenFails, TransportInv
  <1>3. request' = [q \in Request |-> IF q \in Joined(c) THEN Tokenless(request[q])
                                      ELSE request[q]]
    BY DEF TokenFails
  <1>4. flight' = [flight EXCEPT ![c] = None]
    BY DEF TokenFails
  <1> HIDE DEF c
  <1>5. \A s \in Joined(c) : /\ RequestOK(Tokenless(request[s]))
                             /\ Tokenless(request[s]).pc \in {"done", "bare"}
    BY TokenlessOK DEF Joined, TransportInv
  <1>6. /\ \A s \in Joined(c) : /\ RequestOK(request'[s])
                               /\ request'[s].pc \notin {"fetch", "wait"}
        /\ \A s \in Request \ Joined(c) : request'[s] = request[s]
    BY <1>3, <1>5 DEF Joined
  <1>7. request' \in [Request -> RequestRecord]
    BY <1>3, <1>5 DEF Joined, TransportInv, FlightsLed, RequestOK
  <1> QED
    BY <1>1, <1>2, <1>4, <1>6, <1>7, FlightEnds DEF TransportInv

-----------------------------------------------------------------------------
(* The background                                                          *)

LEMMA SweepStep ==
  ASSUME TransportInv, Sweep
  PROVE  TransportInv'
  <1>1. EntriesOK'
    BY DEF Sweep, SweepChallenges, SweepTokens, TransportInv, EntriesOK, Keys
  <1>2. UNCHANGED <<flight, request>>
    BY DEF Sweep, SweepChallenges, SweepTokens
  <1> QED
    BY <1>1, <1>2 DEF TransportInv, FlightsLed

\* A token that is revoked is still its challenge's.
LEMMA RevokedOK ==
  ASSUME NEW q, RequestOK(q)
  PROVE  RequestOK([q EXCEPT !.token = Revoked(@)])
  <1>1. SUFFICES ASSUME NEW p, p = [q EXCEPT !.token = Revoked(@)]
                 PROVE  RequestOK(p)
    OBVIOUS
  <1>2. q \in RequestRecord
    BY DEF RequestOK
  <1>3. /\ Revoked(q.token) \in Token \cup {None}
        /\ q.token \in Token => /\ Revoked(q.token) \in Token
                                /\ Revoked(q.token).challenge = q.token.challenge
    <2>1. CASE q.token = None
      BY <2>1, TransportAssumption DEF Revoked
    <2>2. CASE q.token \in Token
      BY <2>2, TransportAssumption DEF Revoked, Token
    <2> QED
      BY <1>2, <2>1, <2>2 DEF RequestRecord
  <1>4. p \in RequestRecord
    BY <1>1, <1>2, <1>3 DEF RequestRecord
  <1>5. /\ p.pc = q.pc /\ p.target = q.target /\ p.method = q.method /\ p.own = q.own
        /\ p.age = q.age /\ p.challenge = q.challenge /\ p.again = q.again
        /\ p.sends = q.sends /\ p.token = Revoked(q.token)
    BY <1>1, <1>2 DEF RequestRecord
  <1>6. Holds(p)
    BY <1>3, <1>5 DEF RequestOK, Holds
  <1>7. SendsSoFar(p) /\ InTime(p)
    BY <1>5 DEF RequestOK, SendsSoFar, InTime, Mine
  <1>8. Confined(p)
    BY <1>3, <1>5 DEF RequestOK, Confined, Holds, Mine
  <1> QED
    BY <1>4, <1>6, <1>7, <1>8 DEF RequestOK

LEMMA RevokeStep ==
  ASSUME TransportInv, Revoke
  PROVE  TransportInv'
  <1>1. \A r \in Request : RequestOK(request'[r])
    BY RevokedOK DEF Revoke, TransportInv
  <1>2. /\ request' \in [Request -> RequestRecord]
        /\ \A r \in Request : /\ request'[r].pc = request[r].pc
                              /\ request'[r].challenge = request[r].challenge
                              /\ request'[r].age = request[r].age
    <2>1. request' \in [Request -> RequestRecord]
      BY <1>1 DEF Revoke, RequestOK
    <2> QED
      BY <2>1 DEF Revoke, TransportInv, FlightsLed, RequestRecord
  <1>3. /\ flight' \in [Challenge -> Flight \cup {None}]
        /\ \A c \in Challenge :
             /\ flight'[c] = None <=> flight[c] = None
             /\ flight[c] # None => flight'[c].leader = flight[c].leader
    <2>1. \A f \in Flight : /\ [f EXCEPT !.revoked = TRUE] \in Flight
                            /\ [f EXCEPT !.revoked = TRUE].leader = f.leader
      BY DEF Flight
    <2>2. None \notin Flight
      BY TransportAssumption
    <2>3. \A c \in Challenge : flight[c] # None => flight[c] \in Flight
      BY DEF TransportInv, FlightsLed
    <2> QED
      BY <2>1, <2>2, <2>3 DEF Revoke
  <1>4. FlightsLed'
    <2>1. \A c \in Challenge : flight[c] # None => flight[c].leader \in Request
      BY DEF TransportInv, FlightsLed, Flight
    <2>2. \A r \in Request : request[r].pc \in {"fetch", "wait"}
                             => request[r].challenge \in Challenge
      BY DEF TransportInv, RequestOK, Holds
    <2> QED
      BY <1>2, <1>3, <2>1, <2>2 DEF TransportInv, FlightsLed
  <1>5. EntriesOK'
    <2>1. \A c \in Challenge : tokens[c] # None
            => /\ tokens[c] \in TokenEntry
               /\ tokens'[c] \in TokenEntry
               /\ tokens'[c].token.challenge = tokens[c].token.challenge
      <3>1. SUFFICES ASSUME NEW c \in Challenge, tokens[c] # None
                     PROVE  /\ tokens[c] \in TokenEntry
                            /\ tokens'[c] \in TokenEntry
                            /\ tokens'[c].token.challenge = tokens[c].token.challenge
        OBVIOUS
      <3>2. tokens[c] \in TokenEntry
        BY <3>1 DEF TransportInv, EntriesOK
      <3>3. tokens'[c] = [tokens[c] EXCEPT !.token = Revoked(tokens[c].token)]
        BY <3>1, <3>2 DEF Revoke, TokenEntry
      <3>4. /\ Revoked(tokens[c].token) \in Token
            /\ Revoked(tokens[c].token).challenge = tokens[c].token.challenge
        BY <3>2, TransportAssumption DEF Revoked, TokenEntry, Token
      <3> QED
        BY <3>2, <3>3, <3>4 DEF TokenEntry
    <2>2. \A c \in Challenge : tokens[c] = None => tokens'[c] = None
      BY DEF Revoke
    <2>3. tokens' \in [Challenge -> TokenEntry \cup {None}]
      BY <2>1, <2>2 DEF Revoke
    <2> QED
      BY <2>1, <2>2, <2>3 DEF Revoke, TransportInv, EntriesOK
  <1> QED
    BY <1>1, <1>4, <1>5 DEF TransportInv

\* Time leaves a request as it was, but for its age.
LEMMA AgedOK ==
  ASSUME NEW q, RequestOK(q), q.pc \notin {"idle", "done"},
         q.pc \notin Computing, q.pc = "fetch" => q.age + 1 <= Timeout,
         q.age + 1 <= 2 * Timeout
  PROVE  RequestOK([q EXCEPT !.age = @ + 1])
  <1> DEFINE n == q.age + 1
  <1>1. SUFFICES ASSUME NEW p, p = [q EXCEPT !.age = n]
                 PROVE  RequestOK(p)
    OBVIOUS
  <1>2. q \in RequestRecord
    BY DEF RequestOK
  <1>3. n \in Nat /\ n <= 2 * Timeout /\ (q.pc = "fetch" => n <= Timeout)
    BY <1>2 DEF RequestRecord
  <1> HIDE DEF n
  <1>4. p \in RequestRecord
    BY <1>1, <1>2, <1>3 DEF RequestRecord
  <1>5. /\ p.pc = q.pc /\ p.target = q.target /\ p.method = q.method /\ p.own = q.own
        /\ p.age = n /\ p.challenge = q.challenge /\ p.again = q.again
        /\ p.sends = q.sends /\ p.token = q.token
    BY <1>1, <1>2 DEF RequestRecord
  <1>6. Holds(p) /\ Confined(p)
    BY <1>5 DEF RequestOK, Holds, Confined, Mine
  <1>7. SendsSoFar(p)
    BY <1>5 DEF RequestOK, SendsSoFar, Mine
  <1>8. InTime(p)
    BY <1>3, <1>5 DEF InTime
  <1> QED
    BY <1>4, <1>6, <1>7, <1>8 DEF RequestOK

LEMMA TickStep ==
  ASSUME TransportInv, Tick
  PROVE  TransportInv'
  <1>0. Timeout \in Nat
    BY TransportAssumption
  <1>1. /\ \A r \in Request : request[r] \in RequestRecord /\ request[r].age \in Nat
        /\ \A r \in Request : request[r].pc = "fetch" => request[r].age + 1 <= Timeout
    <2>1. \A r \in Request : request[r] \in RequestRecord /\ request[r].age \in Nat
      BY DEF TransportInv, FlightsLed, RequestRecord
    <2> QED
      BY <1>0, <2>1 DEF Tick, InCall, Overdue
  <1>2. \A r \in Request : request[r].pc = "wait"
          => /\ request[r].challenge \in Challenge
             /\ flight[request[r].challenge] # None
             /\ flight[request[r].challenge].leader \in Request
             /\ request[flight[request[r].challenge].leader].pc = "fetch"
             /\ request[r].age <= request[flight[request[r].challenge].leader].age + Timeout
    BY DEF TransportInv, FlightsLed, Flight, RequestOK, Holds
  <1>3. \A r \in Request : Active(r) => request[r].age + 1 <= 2 * Timeout
    <2>1. SUFFICES ASSUME NEW r \in Request, Active(r)
                   PROVE  request[r].age + 1 <= 2 * Timeout
      OBVIOUS
    <2>2. CASE request[r].pc = "wait"
      BY <1>0, <1>1, <1>2, <2>2
    <2>3. CASE request[r].pc \in InCall
      BY <1>0, <1>1, <2>3 DEF Tick, Overdue
    <2>4. request[r].pc \in {"wait"} \cup InCall
      BY <1>1, <2>1 DEF Tick, Active, InCall, Computing, RequestRecord
    <2> QED
      BY <2>2, <2>3, <2>4
  <1>4. /\ \A r \in Request : Active(r) => request'[r] = [request[r] EXCEPT !.age = @ + 1]
        /\ \A r \in Request : ~Active(r) => request'[r] = request[r]
        /\ DOMAIN request' = Request /\ request' = [r \in Request |-> request'[r]]
    BY DEF Tick
  <1>5. \A r \in Request : RequestOK(request'[r])
    BY <1>1, <1>3, <1>4, AgedOK DEF Tick, Active, TransportInv
  <1>6. request' \in [Request -> RequestRecord]
    BY <1>4, <1>5 DEF RequestOK
  <1>7. \A r \in Request : /\ request'[r].pc = request[r].pc
                           /\ request'[r].challenge = request[r].challenge
                           /\ Active(r) => request'[r].age = request[r].age + 1
    BY <1>1, <1>4 DEF RequestRecord
  <1>8. FlightsLed'
    <2>1. \A c \in Challenge : flight[c] # None => flight[c].leader \in Request
      BY DEF TransportInv, FlightsLed, Flight
    <2>2. flight' = flight
      BY DEF Tick
    <2>3. \A r \in Request :
            request'[r].pc = "wait"
            => request'[r].age
                 <= request'[flight[request[r].challenge].leader].age + Timeout
      <3>1. SUFFICES ASSUME NEW r \in Request, request'[r].pc = "wait"
                     PROVE  request'[r].age
                              <= request'[flight[request[r].challenge].leader].age + Timeout
        OBVIOUS
      <3>2. request[r].pc = "wait"
        BY <1>7, <3>1
      <3> DEFINE l == flight[request[r].challenge].leader
      <3>3. l \in Request /\ Active(l) /\ Active(r)
        BY <1>2, <3>2 DEF Active
      <3>4. request[r].age <= request[l].age + Timeout
        BY <1>2, <3>2
      <3>5. request'[r].age = request[r].age + 1 /\ request'[l].age = request[l].age + 1
        BY <1>7, <3>3
      <3> QED
        BY <1>0, <1>1, <3>3, <3>4, <3>5
    <2> QED
      BY <1>6, <1>7, <2>1, <2>2, <2>3 DEF TransportInv, FlightsLed
  <1>9. EntriesOK'
    <2>1. \A k \in Keys : challenges[k] # None
            => /\ challenges'[k] \in ChallengeEntry
               /\ challenges'[k].challenge = challenges[k].challenge
      <3>1. SUFFICES ASSUME NEW k \in Keys, challenges[k] # None
                     PROVE  /\ Shorter(challenges[k]) \in ChallengeEntry
                            /\ Shorter(challenges[k]).challenge = challenges[k].challenge
        BY DEF Tick
      <3>2. challenges[k] \in ChallengeEntry
        BY <3>1 DEF TransportInv, EntriesOK
      <3> DEFINE e == challenges[k]
                 n == e.left - 1
      <3>3. e.left # -1 => n \in Nat \cup {-1}
        BY <3>2 DEF ChallengeEntry
      <3>4. Shorter(e) = IF e.left = -1 THEN e ELSE [e EXCEPT !.left = n]
        BY <3>1 DEF Shorter
      <3> HIDE DEF n
      <3> QED
        BY <3>2, <3>3, <3>4 DEF ChallengeEntry
    <2>2. \A c \in Challenge : tokens[c] # None
            => /\ tokens'[c] \in TokenEntry
               /\ tokens'[c].token = tokens[c].token
      <3>1. SUFFICES ASSUME NEW c \in Challenge, tokens[c] # None
                     PROVE  /\ Shorter(tokens[c]) \in TokenEntry
                            /\ Shorter(tokens[c]).token = tokens[c].token
        BY DEF Tick
      <3>2. tokens[c] \in TokenEntry
        BY <3>1 DEF TransportInv, EntriesOK
      <3> DEFINE e == tokens[c]
                 n == e.left - 1
      <3>3. e.left # -1 => n \in Nat \cup {-1}
        BY <3>2 DEF TokenEntry
      <3>4. Shorter(e) = IF e.left = -1 THEN e ELSE [e EXCEPT !.left = n]
        BY <3>1 DEF Shorter
      <3> HIDE DEF n
      <3> QED
        BY <3>2, <3>3, <3>4 DEF TokenEntry
    <2>3. /\ \A k \in Keys : challenges[k] = None => challenges'[k] = None
          /\ \A c \in Challenge : tokens[c] = None => tokens'[c] = None
      BY DEF Tick, Shorter
    <2>4. /\ challenges' \in [Keys -> ChallengeEntry \cup {None}]
          /\ tokens' \in [Challenge -> TokenEntry \cup {None}]
      BY <2>1, <2>2, <2>3 DEF Tick
    <2>5. \A t \in Registry : ChallengeKey(t) \in Keys
      BY DEF Keys
    <2> QED
      BY <2>1, <2>2, <2>3, <2>4, <2>5 DEF TransportInv, EntriesOK
  <1> QED
    BY <1>5, <1>8, <1>9 DEF TransportInv

-----------------------------------------------------------------------------
(* The process                                                             *)

LEMMA EmptyOK == Init => TransportInv
  <1> SUFFICES ASSUME Init
               PROVE  TransportInv
    OBVIOUS
  <1>1. \A t \in Registry : ChallengeKey(t) \in Keys
    BY DEF Keys
  <1>2. EntriesOK
    BY <1>1 DEF EntriesOK, Init
  <1>3. \A r \in Request : RequestOK(request[r]) /\ request[r].pc = "idle"
    BY IdleOK DEF Idle, Init
  <1>4. FlightsLed
    BY <1>3 DEF FlightsLed, RequestOK, Init
  <1> QED
    BY <1>2, <1>3, <1>4 DEF TransportInv

LEMMA ProcessStep ==
  ASSUME TransportInv, [ProcessNext]_processVars
  PROVE  TransportInv'
  <1>1. ASSUME NEW r \in Request, Accept(r)
        PROVE  TransportInv'
    BY <1>1, StartStep DEF Accept
  <1>2. ASSUME NEW r \in Request, Runs(Leave(r))
        PROVE  TransportInv'
    BY <1>2, LeaveStep DEF Runs
  <1>3. ASSUME NEW r \in Request, Runs(Progress(r))
        PROVE  TransportInv'
    BY <1>3, BypassedStep, CallFailsStep, LookUpStep, JoinStep, TokenArrivesStep,
       TokenFailsStep, AttachedStep, EvictStep, AnsweredStep, ChallengedStep, RetriedStep
    DEF Runs, Progress
  <1>4. ASSUME Runs(Sweep)
        PROVE  TransportInv'
    BY <1>4, SweepStep DEF Runs
  <1>5. ASSUME Runs(Revoke)
        PROVE  TransportInv'
    BY <1>5, RevokeStep DEF Runs
  <1>6. ASSUME TimePasses
        PROVE  TransportInv'
    BY <1>6, TickStep DEF TimePasses
  <1>7. ASSUME Exits
        PROVE  TransportInv'
    <2>1. Init'
      BY <1>7 DEF Exits, Init
    <2> QED
      BY <2>1, EmptyOK, PTL
  <1>8. ASSUME UNCHANGED vars
        PROVE  TransportInv'
    BY <1>8 DEF vars, TransportInv, EntriesOK, FlightsLed
  <1> QED
    BY <1>1, <1>2, <1>3, <1>4, <1>5, <1>6, <1>7, <1>8
    DEF ProcessNext, Signalled, ShutdownReturns, ServeFails, processVars, vars

LEMMA Invariance == ProcessSpec => []TransportInv
  <1>1. ProcessInit => TransportInv
    BY EmptyOK DEF ProcessInit
  <1>2. TransportInv /\ [ProcessNext]_processVars => TransportInv'
    BY ProcessStep
  <1> QED
    BY <1>1, <1>2, PTL DEF ProcessSpec

-----------------------------------------------------------------------------

\* Every variable keeps its type in every run of the process, and a request
\* always holds the target, challenge and token its next step uses.
THEOREM TransportTyped == ProcessSpec => []TypeOK
  <1>1. TransportInv => TypeOK
    BY DEF TransportInv, EntriesOK, FlightsLed, RequestOK, TypeOK
  <1> QED
    BY <1>1, Invariance, PTL

\* A token is only ever sent to a repository whose registry asked for that
\* challenge, for any number of hosts, redirects and shared flights
\* (challengeKey, tokenCacheKey, RoundTrip's clones).
THEOREM TokensConfined == ProcessSpec => []TokenConfined
  <1>1. TransportInv => TokenConfined
    BY DEF TransportInv, RequestOK, Confined, Mine, TokenConfined
  <1> QED
    BY <1>1, Invariance, PTL

\* A follower of a token flight always has a leader that is fetching, so it is
\* never left behind (getOrFetch).
THEOREM FollowersLed == ProcessSpec => []WaitersLed
  <1>1. TransportInv => WaitersLed
    BY DEF TransportInv, FlightsLed, RequestOK, Holds, WaitersLed
  <1> QED
    BY <1>1, Invariance, PTL

\* Three sends are the most an upstream sees of one request, and one the most
\* of a request that is not idempotent (RoundTrip, discoveryPath).
THEOREM FewSends == ProcessSpec => []SendsBounded
  <1>1. TransportInv => SendsBounded
    <2>1. SUFFICES ASSUME TransportInv, NEW r \in Request
                   PROVE  /\ request[r].sends <= 3
                          /\ request[r].method \notin Idempotent => request[r].sends <= 1
      BY DEF SendsBounded
    <2>2. request[r].sends \in Nat /\ SendsSoFar(request[r]) /\ request[r] \in RequestRecord
      BY <2>1 DEF TransportInv, RequestOK, RequestRecord
    <2>3. request[r].pc \in {"idle", "bypass", "get", "join", "fetch", "wait", "attach",
                             "evict", "bare", "retry", "done"}
      BY <2>2 DEF RequestRecord
    <2>4. request[r].again \in BOOLEAN
      BY <2>2 DEF RequestRecord
    <2> QED
      BY <2>2, <2>3, <2>4 DEF SendsSoFar, Mine
  <1> QED
    BY <1>1, Invariance, PTL

\* No request outlives twice the client timeout, whoever it waits for: the
\* bound of getOrFetch's followers, for every timeout.
THEOREM Overtime == ProcessSpec => []OvertimeBounded
  <1>1. TransportInv => OvertimeBounded
    BY DEF TransportInv, RequestOK, InTime, Active, OvertimeBounded
  <1> QED
    BY <1>1, Invariance, PTL

-----------------------------------------------------------------------------
(* What a caller of client.Do sees of the steps of the transport           *)

Busy(q) == q.pc \notin {"idle", "done"}

\* A request goes on unseen, or returns: with a success only by its deadline.
Goes(p, q) ==
    \/ q.pc = p.pc /\ q.age = p.age /\ q.result = p.result
    \/ Busy(p) /\ Busy(q) /\ q.age = p.age
    \/ /\ Busy(p)
       /\ q.pc = "done"
       /\ q.result \in {"unauthorized", "error"} \cup IF p.age <= Timeout THEN {"ok"} ELSE {}

\* All requests do.
AllGo == \A s \in Request : Goes(request[s], request'[s])

LEMMA DoneGoes ==
  ASSUME NEW p, Busy(p), NEW result \in {"ok", "unauthorized", "error"},
         result = "ok" => p.age <= Timeout
  PROVE  Goes(p, Done(result))
  BY DEF Goes, Done, Idle

LEMMA OneGoes ==
  ASSUME TransportInv, NEW r \in Request, NEW q, Becomes(r, q), Goes(request[r], q)
  PROVE  AllGo
  BY DEF TransportInv, FlightsLed, Becomes, AllGo, Goes

LEMMA SucceedsGoes ==
  ASSUME TransportInv, NEW r \in Request, Active(r), Answerable(r), Succeeds(r)
  PROVE  AllGo
  <1>1. Busy(request[r]) /\ request[r].age <= Timeout
    BY DEF Active, Busy, Answerable
  <1>2. CASE Becomes(r, Done("ok"))
    BY <1>1, <1>2, DoneGoes, OneGoes
  <1>3. CASE \E t \in Redirects[request[r].target] :
               Becomes(r, Entering(t, request[r].method,
                                   IF t.host = request[r].target.host
                                   THEN request[r].own ELSE None,
                                   request[r].age))
    <2>0. PICK t \in Redirects[request[r].target] :
               Becomes(r, Entering(t, request[r].method,
                                   IF t.host = request[r].target.host
                                   THEN request[r].own ELSE None,
                                   request[r].age))
      BY <1>3
    <2> DEFINE own == IF t.host = request[r].target.host THEN request[r].own ELSE None
               q   == Entering(t, request[r].method, own, request[r].age)
    <2>1. request[r] \in RequestRecord /\ request[r].target \in Target
      BY DEF TransportInv, RequestOK, Holds, Active
    <2>2. /\ t \in Target /\ own \in Credentials \cup {None}
          /\ request[r].method \in Method \cup {None}
          /\ request[r].age \in Nat /\ request[r].age <= Timeout
      BY <2>1, TransportAssumption DEF RequestRecord, Answerable
    <2>3. EntriesOK
      BY DEF TransportInv
    <2> HIDE DEF own
    <2>4. q.pc \in {"bypass", "get", "bare"} /\ q.age = request[r].age
      BY <2>2, <2>3, EnteringOK
    <2>5. Goes(request[r], q)
      BY <1>1, <2>4 DEF Goes, Busy
    <2>6. Becomes(r, q)
      BY <2>0 DEF own
    <2> QED
      BY <2>5, <2>6, OneGoes
  <1> QED
    BY <1>2, <1>3 DEF Succeeds

LEMMA RefusedGoes ==
  ASSUME TransportInv, NEW r \in Request, Active(r), Refused(r)
  PROVE  AllGo
  BY DoneGoes, OneGoes DEF Refused, Active, Busy

\* A change of pc between two points of the way.
LEMMA MovedGoes ==
  ASSUME TransportInv, NEW r \in Request, Active(r),
         NEW q, q.pc \notin {"idle", "done"}, q.age = request[r].age, Becomes(r, q)
  PROVE  AllGo
  BY OneGoes DEF Active, Goes, Busy

LEMMA TokenlessGoes ==
  ASSUME NEW p, RequestOK(p), p.pc \in {"fetch", "wait"}
  PROVE  Goes(p, Tokenless(p))
  <1>1. p.again \in BOOLEAN /\ p.challenge \in Challenge /\ Busy(p)
    BY DEF RequestOK, RequestRecord, Holds, Busy
  <1>2. CASE p.again
    BY <1>1, <1>2, DoneGoes DEF Tokenless
  <1>3. CASE ~p.again
    <2>1. p.again = FALSE /\ Tokenless(p) = Discovering(p, p.challenge)
      BY <1>1, <1>3 DEF Tokenless
    <2>2. Discovering(p, p.challenge).pc = "bare" /\ Discovering(p, p.challenge).age = p.age
      BY <1>1, <2>1, DiscoveringOK
    <2> QED
      BY <1>1, <2>1, <2>2 DEF Goes, Busy
  <1> QED
    BY <1>1, <1>2, <1>3

LEMMA ProgressGoes ==
  ASSUME TransportInv, NEW r \in Request, Progress(r)
  PROVE  AllGo
  <1>0. request[r] \in RequestRecord /\ RequestOK(request[r])
    BY DEF TransportInv, RequestOK
  <1> DEFINE q == request[r]
             c == q.challenge
  <1>1. CASE Bypassed(r)
    BY <1>1, SucceedsGoes, RefusedGoes DEF Bypassed, Active
  <1>2. CASE CallFails(r)
    BY <1>2, DoneGoes, OneGoes DEF CallFails, Busy
  <1>3. CASE LookUp(r)
    <2> DEFINE e == tokens[c]
    <2>1. Active(r) /\ q.pc = "get" /\ c \in Challenge
      BY <1>0, <1>3 DEF LookUp, Active, RequestOK, Holds
    <2>2. CASE e # None /\ e.left >= 0
      <3>1. e.token \in Token /\ e.token.challenge = c
        BY <2>1, <2>2 DEF TransportInv, EntriesOK, TokenEntry
      <3>2. Becomes(r, Carrying(q, e.token))
        BY <1>3, <2>2 DEF LookUp
      <3>3. Carrying(q, e.token).pc \in {"attach", "retry"} /\ Carrying(q, e.token).age = q.age
        BY <1>0, <2>1, <3>1, CarryingOK
      <3> QED
        BY <2>1, <3>2, <3>3, MovedGoes
    <2>3. CASE ~(e # None /\ e.left >= 0)
      <3>1. Becomes(r, [q EXCEPT !.pc = "join"])
        BY <1>3, <2>3 DEF LookUp
      <3>2. [q EXCEPT !.pc = "join"].pc = "join" /\ [q EXCEPT !.pc = "join"].age = q.age
        BY <1>0 DEF RequestRecord
      <3> QED
        BY <2>1, <3>1, <3>2, MovedGoes
    <2> QED
      BY <2>2, <2>3
  <1>4. CASE Join(r)
    <2>1. PICK pc \in {"fetch", "wait"} : Becomes(r, [q EXCEPT !.pc = pc])
      BY <1>4 DEF Join
    <2>2. [q EXCEPT !.pc = pc].pc = pc /\ [q EXCEPT !.pc = pc].age = q.age
      BY <1>0 DEF RequestRecord
    <2>3. Active(r)
      BY <1>4 DEF Join, Active
    <2> QED
      BY <2>1, <2>2, <2>3, MovedGoes
  <1>5. CASE TokenArrives(r)
    <2>1. c \in Challenge
      BY <1>0, <1>5 DEF TokenArrives, RequestOK, Holds
    <2>2. PICK good \in {TRUE, ~flight[c].revoked} :
            request' = [s \in Request |->
                          IF s \in Joined(c)
                          THEN Carrying(request[s], [challenge |-> c, good |-> good])
                          ELSE request[s]]
      BY <1>5 DEF TokenArrives
    <2> DEFINE token == [challenge |-> c, good |-> good]
    <2>3. token \in Token /\ token.challenge = c
      BY <2>1 DEF Token
    <2>4. request' = [s \in Request |-> IF s \in Joined(c) THEN Carrying(request[s], token)
                                        ELSE request[s]]
      BY <2>2
    <2> HIDE DEF token, c
    <2>5. \A s \in Joined(c) : /\ Carrying(request[s], token).pc \in {"attach", "retry"}
                               /\ Carrying(request[s], token).age = request[s].age
                               /\ request[s].pc \in {"fetch", "wait"}
      BY <2>3, CarryingOK DEF Joined, TransportInv
    <2> QED
      BY <2>4, <2>5 DEF AllGo, Goes, Busy
  <1>6. CASE TokenFails(r)
    <2>1. request' = [s \in Request |-> IF s \in Joined(c) THEN Tokenless(request[s])
                                        ELSE request[s]]
      BY <1>6 DEF TokenFails
    <2> HIDE DEF c
    <2>2. \A s \in Joined(c) : Goes(request[s], Tokenless(request[s]))
      BY TokenlessGoes DEF Joined, TransportInv
    <2> QED
      BY <2>1, <2>2 DEF AllGo, Goes
  <1>7. CASE Attached(r)
    <2>1. Active(r) /\ Answerable(r)
      BY <1>7 DEF Attached, Active
    <2>2. [q EXCEPT !.pc = "evict"].pc = "evict" /\ [q EXCEPT !.pc = "evict"].age = q.age
      BY <1>0 DEF RequestRecord
    <2>3. Succeeds(r) \/ Refused(r) \/ Becomes(r, [q EXCEPT !.pc = "evict"])
      BY <1>7 DEF Attached
    <2> QED
      BY <2>1, <2>2, <2>3, SucceedsGoes, RefusedGoes, MovedGoes
  <1>8. CASE Evict(r)
    <2>1. Active(r) /\ q.pc = "evict" /\ Becomes(r, Discovering(q, None))
      BY <1>8 DEF Evict, Active
    <2>2. Discovering(q, None).pc = "bare" /\ Discovering(q, None).age = q.age
      BY <1>0, <2>1, DiscoveringOK
    <2> QED
      BY <2>1, <2>2, MovedGoes
  <1>9. CASE Answered(r)
    BY <1>9, SucceedsGoes, RefusedGoes DEF Answered, Active
  <1>10. CASE Challenged(r)
    <2>1. Active(r) /\ Busy(q)
      BY <1>10 DEF Challenged, Active, Busy
    <2>2. PICK d \in Asks[q.target] :
            Becomes(r, IF q.failed = d THEN Done("unauthorized")
                       ELSE [q EXCEPT !.pc = "get", !.challenge = d, !.again = TRUE])
      BY <1>10 DEF Challenged
    <2>3. CASE q.failed = d
      BY <2>1, <2>2, <2>3, DoneGoes, OneGoes
    <2>4. CASE q.failed # d
      <3>1. PICK u : u = [q EXCEPT !.pc = "get", !.challenge = d, !.again = TRUE]
        OBVIOUS
      <3>2. u.pc = "get" /\ u.age = q.age
        BY <1>0, <3>1 DEF RequestRecord
      <3> QED
        BY <2>1, <2>2, <2>4, <3>1, <3>2, MovedGoes
    <2> QED
      BY <2>3, <2>4
  <1>11. CASE Retried(r)
    BY <1>11, SucceedsGoes, RefusedGoes DEF Retried, Active
  <1> QED
    BY <1>1, <1>2, <1>3, <1>4, <1>5, <1>6, <1>7, <1>8, <1>9, <1>10, <1>11 DEF Progress

\* The sweeper and revocation are not seen at all.
LEMMA BackgroundGoes ==
  ASSUME TransportInv, Sweep \/ Revoke
  PROVE  AllGo
  <1>1. \A r \in Request : request[r] \in RequestRecord
    BY DEF TransportInv, FlightsLed
  <1>2. CASE Sweep
    BY <1>2 DEF Sweep, SweepChallenges, SweepTokens, AllGo, Goes
  <1>3. CASE Revoke
    BY <1>1, <1>3 DEF Revoke, RequestRecord, AllGo, Goes
  <1> QED
    BY <1>2, <1>3

-----------------------------------------------------------------------------
(* The grace period                                                        *)

\* Who is under way while the process drains will have been so for the grace
\* period when it is over, nothing is under way when the process is gone, and
\* whoever is done has a result.
CallsInv ==
    /\ phase \in {"serving", "draining", "exited"}
    /\ graceLeft \in Nat
    /\ phase = "draining"
       => \A r \in Request : Active(r) => request[r].age + graceLeft >= Grace
    /\ phase = "exited" => \A r \in Request : request[r].pc = "idle"
    /\ \A r \in Request :
         request[r].pc = "done" => request[r].result \in {"ok", "unauthorized", "error"}

\* What is owed to a request under way that only grew older is still owed.
LEMMA StillOwed ==
  ASSUME TransportInv, CallsInv, AllGo, UNCHANGED lifecycle, phase # "exited"
  PROVE  CallsInv'
  BY DEF CallsInv, AllGo, Goes, Busy, Active, lifecycle

LEMMA DrainStep ==
  ASSUME TransportInv, CallsInv, [ProcessNext]_processVars
  PROVE  CallsInv'
  <1>1. ASSUME NEW r \in Request, Accept(r)
        PROVE  CallsInv'
    <2>1. PICK t \in Target, m \in Method, own \in Credentials \cup {None} :
            Becomes(r, Entering(t, m, own, 0))
      BY <1>1 DEF Accept, Start
    <2>2. EntriesOK /\ 0 \in Nat /\ 0 <= Timeout
      BY TransportAssumption DEF TransportInv
    <2>3. Entering(t, m, own, 0).pc \in {"bypass", "get", "bare"}
      BY <2>2, EnteringOK
    <2>4. \A s \in Request : request'[s].pc = "done" => request'[s] = request[s]
      BY <2>1, <2>3 DEF Becomes, TransportInv, FlightsLed
    <2> QED
      BY <1>1, <2>4 DEF Accept, CallsInv, lifecycle
  <1>2. ASSUME NEW r \in Request, Runs(Leave(r))
        PROVE  CallsInv'
    <2>1. \A s \in Request : request'[s].pc # "idle" => request'[s] = request[s]
      BY <1>2 DEF Runs, Leave, Becomes, Idle, Active, TransportInv, FlightsLed
    <2> QED
      BY <1>2, <2>1 DEF CallsInv, Runs, lifecycle, Active, Leave
  <1>3. ASSUME NEW r \in Request, Runs(Progress(r))
        PROVE  CallsInv'
    BY <1>3, ProgressGoes, StillOwed DEF Runs
  <1>4. ASSUME Runs(Sweep) \/ Runs(Revoke)
        PROVE  CallsInv'
    BY <1>4, BackgroundGoes, StillOwed DEF Runs
  <1>5. ASSUME TimePasses
        PROVE  CallsInv'
    <2>1. \A r \in Request :
            Active(r)' => /\ Active(r)
                          /\ request[r].age \in Nat
                          /\ request'[r].age = request[r].age + 1
      BY <1>5 DEF TimePasses, Tick, Active, TransportInv, FlightsLed, RequestRecord
    <2>2. /\ Grace \in Nat
          /\ \A r \in Request : request'[r].pc = "done" => request'[r] = request[r]
          /\ phase' # "exited"
      BY <1>5, GraceAssumption DEF TimePasses, Tick, Active, TransportInv, FlightsLed, RequestRecord
    <2>3. CASE phase = "draining"
      <3>1. phase' = "draining" /\ graceLeft' \in Nat /\ graceLeft = graceLeft' + 1
        BY <1>5, <2>3 DEF TimePasses, CallsInv
      <3>2. ASSUME NEW r \in Request, Active(r)'
            PROVE  request'[r].age + graceLeft' >= Grace
        <4>1. request[r].age + graceLeft >= Grace
          BY <2>1, <2>3, <3>2 DEF CallsInv
        <4> QED
          BY <2>1, <2>2, <3>1, <3>2, <4>1
      <3> QED
        BY <2>2, <3>1, <3>2 DEF CallsInv
    <2>4. CASE phase # "draining"
      BY <1>5, <2>2, <2>4 DEF TimePasses, CallsInv
    <2> QED
      BY <2>3, <2>4
  <1>6. ASSUME Signalled
        PROVE  CallsInv'
    <2>1. \A r \in Request : request'[r].age \in Nat /\ request'[r].age + Grace >= Grace
      BY <1>6, GraceAssumption DEF Signalled, vars, TransportInv, FlightsLed, RequestRecord
    <2> QED
      BY <1>6, <2>1, GraceAssumption DEF Signalled, vars, CallsInv
  <1>7. ASSUME Exits
        PROVE  CallsInv'
    BY <1>7 DEF Exits, CallsInv, Idle
  <1>8. ASSUME UNCHANGED processVars
        PROVE  CallsInv'
    BY <1>8 DEF processVars, CallsInv, Active
  <1> QED
    BY <1>1, <1>2, <1>3, <1>4, <1>5, <1>6, <1>7, <1>8
    DEF ProcessNext, ShutdownReturns, ServeFails

LEMMA Drained == ProcessSpec => [](TransportInv /\ CallsInv)
  <1>1. ProcessInit => CallsInv
    BY DEF ProcessInit, Init, Idle, CallsInv
  <1>2. TransportInv /\ CallsInv /\ [ProcessNext]_processVars => CallsInv'
    BY DrainStep
  <1> QED
    BY <1>1, <1>2, Invariance, PTL DEF ProcessSpec

\* Only the end of Shutdown leads from draining to the exit, and then the
\* grace period is used up or nobody is left.
LEMMA EndIsPatient ==
  ASSUME TransportInv, CallsInv, [ProcessNext]_processVars,
         phase = "draining", phase' = "exited",
         NEW r \in Request, Active(r)
  PROVE  request[r].age >= Grace
  <1>1. ShutdownReturns
    BY DEF ProcessNext, Accept, Runs, lifecycle, TimePasses, Signalled, ServeFails, processVars
  <1>2. graceLeft = 0
    BY <1>1 DEF ShutdownReturns, Active
  <1>3. request[r].age + graceLeft >= Grace /\ request[r].age \in Nat
    BY DEF CallsInv, TransportInv, FlightsLed, RequestRecord
  <1> QED
    BY <1>2, <1>3, GraceAssumption

\* A signal never cuts off a request that has not been under way for the whole
\* grace period, for any grace period, any timeout and any number of requests
\* (runServer's shutdown context is not the signal's).
THEOREM DrainPatient == ProcessSpec => DrainIsPatient
  <1> DEFINE Patient == \A r \in Request :
                          phase = "draining" /\ phase' = "exited" /\ Active(r)
                          => request[r].age >= Grace
  <1>1. TransportInv /\ CallsInv /\ [ProcessNext]_processVars => [Patient]_processVars
    BY EndIsPatient
  <1> QED
    BY <1>1, Drained, PTL DEF ProcessSpec, DrainIsPatient

-----------------------------------------------------------------------------
(* Process implements UpstreamCalls: its steps, as a caller sees them      *)

\* A step of UpstreamCalls, or none.
Maps == [Promise!Next]_(Promise!vars)

LEMMA OutActive ==
  ASSUME CallsInv, NEW r \in Request
  PROVE  Active(r) <=> Seen(request[r]) = "out"
  BY DEF Seen, Active, CallsInv

LEMMA CallBegins ==
  ASSUME TransportInv, CallsInv, NEW r \in Request, Accept(r)
  PROVE  Promise!Begin(r)
  <1>1. PICK t \in Target, m \in Method, own \in Credentials \cup {None} :
          Becomes(r, Entering(t, m, own, 0))
    BY DEF Accept, Start
  <1>2. EntriesOK /\ 0 \in Nat /\ 0 <= Timeout
    BY TransportAssumption DEF TransportInv
  <1>3. /\ Entering(t, m, own, 0).pc \in {"bypass", "get", "bare"}
        /\ Entering(t, m, own, 0).age = 0
    BY <1>2, EnteringOK
  <1>4. /\ request'[r].pc \in {"bypass", "get", "bare"} /\ request'[r].age = 0
        /\ \A s \in Request \ {r} : request'[s] = request[s]
    BY <1>1, <1>3 DEF Becomes, TransportInv, FlightsLed
  <1>5. request[r].pc = "idle"
    BY DEF Accept, Start
  <1> DEFINE state == [s \in Request |-> Seen(request[s])]
             time  == [s \in Request |-> IF Active(s) THEN request[s].age ELSE 0]
  <1>6. state[r] = "none" /\ state' = [state EXCEPT ![r] = "out"]
    BY <1>4, <1>5 DEF Seen
  <1>7. time' = [time EXCEPT ![r] = 0]
    BY <1>4 DEF Active
  <1>8. phase = "serving" /\ phase' = "serving"
    BY DEF Accept, lifecycle
  <1> QED
    BY <1>6, <1>7, <1>8 DEF Promise!Begin

\* Whoever returns in a step returns in it together; that may be nobody.
LEMMA CallsReturn ==
  ASSUME TransportInv, CallsInv, AllGo, UNCHANGED phase
  PROVE  Promise!Return
  <1> DEFINE state   == [s \in Request |-> Seen(request[s])]
             time    == [s \in Request |-> IF Active(s) THEN request[s].age ELSE 0]
             calls   == {s \in Request : Active(s) /\ request'[s].pc = "done"}
             outcome == [s \in calls |-> request'[s].result]
  <1>1. \A s \in calls : request'[s].result
          \in {"unauthorized", "error"} \cup IF request[s].age <= Timeout THEN {"ok"} ELSE {}
    BY DEF AllGo, Goes, Busy, Active
  <1>2. \A s \in Request : Seen(request'[s]) = IF s \in calls THEN request'[s].result
                                               ELSE Seen(request[s])
    BY DEF AllGo, Goes, Busy, Active, Seen
  <1>3. \A s \in Request : (IF Active(s)' THEN request'[s].age ELSE 0)
                           = IF s \in calls THEN 0 ELSE time[s]
    BY DEF AllGo, Goes, Busy, Active
  <1>4. calls \in SUBSET Promise!Out
    BY OutActive DEF Promise!Out
  <1>5. outcome \in [calls -> {"ok", "unauthorized", "error"}]
    BY <1>1
  <1>6. \A s \in calls : outcome[s] \in Promise!Outcomes(s)
    BY <1>1 DEF Promise!Outcomes
  <1>7. state' = [s \in Request |-> IF s \in calls THEN outcome[s] ELSE state[s]]
    BY <1>2
  <1>8. time' = [s \in Request |-> IF s \in calls THEN 0 ELSE time[s]]
    BY <1>3
  <1> HIDE DEF calls, outcome
  <1> QED
    BY <1>4, <1>5, <1>6, <1>7, <1>8 DEF Promise!Return

LEMMA ResultTaken ==
  ASSUME TransportInv, CallsInv, NEW r \in Request, Leave(r), UNCHANGED phase
  PROVE  Promise!Take(r)
  <1>1. /\ request[r].pc = "done" /\ request'[r].pc = "idle"
        /\ \A s \in Request \ {r} : request'[s] = request[s]
    BY DEF Leave, Becomes, Idle, TransportInv, FlightsLed
  <1> DEFINE state == [s \in Request |-> Seen(request[s])]
             time  == [s \in Request |-> IF Active(s) THEN request[s].age ELSE 0]
  <1>2. state[r] \notin {"none", "out"} /\ state' = [state EXCEPT ![r] = "none"]
    BY <1>1 DEF Seen, CallsInv
  <1>3. time' = time
    BY <1>1 DEF Active
  <1> QED
    BY <1>2, <1>3 DEF Promise!Take

LEMMA CallsGrowOlder ==
  ASSUME TransportInv, CallsInv, TimePasses
  PROVE  Promise!Pass
  <1> DEFINE state == [s \in Request |-> Seen(request[s])]
             time  == [s \in Request |-> IF Active(s) THEN request[s].age ELSE 0]
  <1>1. /\ \A s \in Request : request[s] \in RequestRecord /\ request[s].age \in Nat
        /\ \A s \in Request : Active(s) => request'[s] = [request[s] EXCEPT !.age = @ + 1]
        /\ \A s \in Request : ~Active(s) => request'[s] = request[s]
    BY DEF TimePasses, Tick, TransportInv, FlightsLed, RequestRecord
  <1>2. \A s \in Request : /\ Active(s)' <=> Active(s)
                           /\ Active(s) => request'[s].age = request[s].age + 1
                           /\ Seen(request'[s]) = Seen(request[s])
    BY <1>1 DEF Active, Seen, RequestRecord
  <1>3. TransportInv'
    BY TickStep DEF TimePasses
  <1>4. \A s \in Request : Active(s) => request[s].age + 1 <= 2 * Timeout
    BY <1>2, <1>3 DEF TransportInv, RequestOK, InTime, Active
  <1>5. Promise!Out = {s \in Request : Active(s)}
    BY OutActive DEF Promise!Out
  <1>6. \A s \in Promise!Out : time[s] < 2 * Timeout
    BY <1>1, <1>4, <1>5, TransportAssumption
  <1>7. time' = [s \in Request |-> IF s \in Promise!Out THEN time[s] + 1 ELSE time[s]]
    BY <1>2, <1>5
  <1>8. state' = state /\ phase' = phase
    BY <1>2 DEF TimePasses
  <1> HIDE DEF state
  <1> QED
    BY <1>6, <1>7, <1>8 DEF Promise!Pass, state

LEMMA ListenerCloses ==
  ASSUME Signalled
  PROVE  Promise!Close
  BY DEF Signalled, vars, Promise!Close, Active

LEMMA ProcessEnds ==
  ASSUME TransportInv, CallsInv, ShutdownReturns \/ ServeFails
  PROVE  Promise!End
  <1>1. Exits
    BY DEF ShutdownReturns, ServeFails
  <1>2. \A s \in Request : request'[s].pc = "idle"
    BY <1>1 DEF Exits, Idle
  <1>3. IF phase = "serving" THEN ListenerFails
        ELSE \A s \in Request : Active(s) => request[s].age >= Grace
    <2>1. CASE ServeFails
      BY <2>1 DEF ServeFails
    <2>2. CASE ShutdownReturns
      <3>1. \A s \in Request : request[s].age \in Nat
        BY DEF TransportInv, FlightsLed, RequestRecord
      <3>2. ASSUME NEW s \in Request, Active(s)
            PROVE  request[s].age >= Grace
        <4>1. phase = "draining" /\ graceLeft = 0
          BY <2>2, <3>2 DEF ShutdownReturns, Active
        <4>2. request[s].age + graceLeft >= Grace
          BY <3>2, <4>1 DEF CallsInv
        <4> QED
          BY <3>1, <4>1, <4>2, GraceAssumption
      <3> QED
        BY <2>2, <3>2 DEF ShutdownReturns
    <2> QED
      BY <2>1, <2>2
  <1>4. Promise!Out = {s \in Request : Active(s)}
    BY OutActive DEF Promise!Out
  <1> DEFINE state == [s \in Request |-> Seen(request[s])]
             time  == [s \in Request |-> IF Active(s) THEN request[s].age ELSE 0]
  <1>5. state' = [s \in Request |-> "none"] /\ time' = [s \in Request |-> 0]
    BY <1>2 DEF Seen, Active
  <1>6. (phase = "serving")' = FALSE
    BY <1>1 DEF Exits
  <1>7. IF phase = "serving" THEN ListenerFails
        ELSE \A s \in Promise!Out : time[s] >= Grace
    BY <1>3, <1>4
  <1> HIDE DEF state, time
  <1> QED
    BY <1>5, <1>6, <1>7 DEF Promise!End, state, time

LEMMA CallsStep ==
  ASSUME TransportInv, CallsInv, [ProcessNext]_processVars
  PROVE  Maps
  <1>1. ASSUME NEW r \in Request, Accept(r)
        PROVE  Maps
    BY <1>1, CallBegins DEF Maps, Promise!Next
  <1>2. ASSUME NEW r \in Request, Runs(Leave(r))
        PROVE  Maps
    <2>1. Promise!Take(r)
      BY <1>2, ResultTaken DEF Runs, lifecycle
    <2> QED
      BY <2>1 DEF Maps, Promise!Next
  <1>3. ASSUME AllGo, UNCHANGED lifecycle
        PROVE  Maps
    <2>1. Promise!Return
      BY <1>3, CallsReturn DEF lifecycle
    <2> QED
      BY <2>1 DEF Maps, Promise!Next
  <1>4. ASSUME NEW r \in Request, Runs(Progress(r))
        PROVE  Maps
    BY <1>3, <1>4, ProgressGoes DEF Runs
  <1>5. ASSUME Runs(Sweep) \/ Runs(Revoke)
        PROVE  Maps
    BY <1>3, <1>5, BackgroundGoes DEF Runs
  <1>6. CASE TimePasses
    BY <1>6, CallsGrowOlder DEF Maps, Promise!Next
  <1>7. CASE Signalled
    BY <1>7, ListenerCloses DEF Maps, Promise!Next
  <1>8. CASE ShutdownReturns \/ ServeFails
    BY <1>8, ProcessEnds DEF Maps, Promise!Next
  <1>9. CASE UNCHANGED processVars
    BY <1>9 DEF processVars, Maps, Promise!vars, Active
  <1> QED
    BY <1>1, <1>2, <1>4, <1>5, <1>6, <1>7, <1>8, <1>9 DEF ProcessNext

\* To whoever calls client.Do, the transport and the process are
\* UpstreamCalls, for any number of requests, registries and challenges and
\* any timeouts (RoundTrip, discoveryPath, getOrFetch, runServer).
THEOREM ImplementsUpstreamCalls == ProcessSpec => ImplementsCalls
  <1>1. ProcessInit => Promise!Init
    BY DEF ProcessInit, Init, Idle, Active, Seen, Promise!Init
  <1>2. TransportInv /\ CallsInv /\ [ProcessNext]_processVars => Maps
    BY CallsStep
  <1> QED
    BY <1>1, <1>2, Drained, PTL DEF ProcessSpec, ImplementsCalls, Promise!Spec, Maps

=============================================================================
