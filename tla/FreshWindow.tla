---------------------------- MODULE FreshWindow ----------------------------
(***************************************************************************)
(* The freshness window of one cached entry over time: the gate of         *)
(* internal/freshness run against an origin that declares lifetimes, S3    *)
(* writes that take a while and are stamped by S3's clock, and the touch   *)
(* that re-arms the window after a revalidation (server.go maybeTouch).    *)
(*                                                                         *)
(* The specification keeps, beside what the mirror stores, what the origin *)
(* said: the declaration in force and the instant it runs out.  The        *)
(* properties compare the mirror's relative arithmetic (lifetimes, ages,   *)
(* resident times) with that absolute deadline.                            *)
(***************************************************************************)
EXTENDS Freshness

CONSTANTS
    None,
    MaxTime,        \* bound: the mirror's clock stops here
    MaxLatency,     \* bound: how long an S3 write takes to land
    Offsets,        \* S3's clock minus the mirror's
    FreshnessCap,
    Lifetimes,      \* the max-age values the origin uses
    Ages            \* how long a CDN may have held a response

ASSUME WindowAssumption ==
    /\ {MaxTime, MaxLatency, FreshnessCap} \subseteq Nat
    /\ Offsets \subseteq Int
    /\ Lifetimes \cup Ages \subseteq Nat

VARIABLES
    now,        \* the mirror's clock, and the origin's
    offset,     \* S3's clock minus now
    object,     \* the stored headers and S3's LastModified, or None
    pending,    \* the Put or CopyObject under way, or None
    declared,   \* the origin's declaration in force for the stored object
    promised,   \* when it runs out
    checked     \* when the origin gave or last confirmed the stored object

\* The header sets of this model, without validators and Vary, and what S3
\* keeps: the headers and the time of the write.
Header ==
    [etag : {Absent}, lastModified : {Absent}, vary : {Absent}, contentType : {Absent},
     cacheControl : CacheControl \cup {Absent},
     expires : HTTPDate, age : DeltaSeconds, date : HTTPDate]

Object == [hdr : Header, storedAt : Int]

ASSUME EntryAssumption == None \notin Object

vars == <<now, offset, object, pending, declared, promised, checked>>

-----------------------------------------------------------------------------
(* The origin                                                              *)

\* A declaration as the origin means it.
NoDeclaration == [noCache |-> FALSE, maxAge |-> Absent, expires |-> Absent]

Declarations ==
    {NoDeclaration, [NoDeclaration EXCEPT !.noCache = TRUE]}
    \cup {[NoDeclaration EXCEPT !.maxAge = n] : n \in Lifetimes}
    \cup {[NoDeclaration EXCEPT !.expires = t] : t \in 0..MaxTime}

\* The headers that carry declaration d in a response generated a ago.  A
\* response fresh from the origin may come without a Date.
Carrying(d, a, dated) ==
    [etag         |-> Absent,
     lastModified |-> Absent,
     cacheControl |-> IF d.noCache \/ d.maxAge # Absent
                      THEN [noCache |-> d.noCache, sMaxAge |-> Absent, maxAge |-> d.maxAge]
                      ELSE Absent,
     expires      |-> d.expires,
     vary         |-> Absent,
     age          |-> IF a = 0 THEN Absent ELSE a,
     date         |-> IF dated THEN now - a ELSE Absent,
     contentType  |-> Absent]

\* The declaration in force once a confirmation adds d: what d leaves out
\* still stands.
Amend(old, d) ==
    [noCache |-> IF d.noCache \/ d.maxAge # Absent THEN d.noCache ELSE old.noCache,
     maxAge  |-> IF d.noCache \/ d.maxAge # Absent THEN d.maxAge ELSE old.maxAge,
     expires |-> IF d.expires # Absent THEN d.expires ELSE old.expires]

\* When declaration d, in a response generated at time t, runs out.
Deadline(d, t) ==
    IF d.noCache THEN 0
    ELSE IF d.maxAge # Absent THEN t + d.maxAge
    ELSE IF d.expires # Absent THEN d.expires
    ELSE 0

-----------------------------------------------------------------------------
(* The mirror                                                              *)

IsFresh == object # None /\ Fresh(object.hdr, object.storedAt, now, FreshnessCap, {})

\* evaluateFreshness fails, so the origin is asked, and answers 200.
Changed ==
    /\ pending = None
    /\ ~IsFresh
    /\ \E d \in Declarations, a \in Ages, dated \in BOOLEAN :
         /\ a # 0 => dated
         /\ pending' = [hdr |-> Carrying(d, a, dated), touch |-> FALSE, at |-> now,
                        declared |-> d, promised |-> Deadline(d, now - a)]
    /\ UNCHANGED <<now, offset, object, declared, promised, checked>>

\* Mutant: every confirmation is written back.
ConfirmedAlways ==
    /\ pending = None
    /\ object # None
    /\ ~IsFresh
    /\ \E d \in Declarations, a \in Ages, dated \in BOOLEAN :
         /\ a # 0 => dated
         /\ pending' = [hdr |-> Merge(object.hdr, Carrying(d, a, dated)), touch |-> TRUE,
                        at |-> now, declared |-> Amend(declared, d),
                        promised |-> Deadline(Amend(declared, d), now - a)]
    /\ UNCHANGED <<now, offset, object, declared, promised, checked>>

\* evaluateFreshness fails and the origin confirms the entry.  maybeTouch
\* writes the merged headers if they would be fresh from now on.
Confirmed ==
    /\ pending = None
    /\ object # None
    /\ ~IsFresh
    /\ \E d \in Declarations, a \in Ages, dated \in BOOLEAN :
         LET merged  == Merge(object.hdr, Carrying(d, a, dated))
             amended == Amend(declared, d)
         IN  /\ a # 0 => dated
             /\ IF Fresh(merged, now, now, FreshnessCap, {})
                THEN /\ pending' = [hdr |-> merged, touch |-> TRUE, at |-> now,
                                    declared |-> amended,
                                    promised |-> Deadline(amended, now - a)]
                     /\ UNCHANGED <<declared, promised>>
                ELSE \* Nothing is stored: the entry keeps its declaration,
                     \* and must have nothing to gain from this answer.
                     /\ promised' = Deadline(amended, now - a)
                     /\ UNCHANGED <<pending, declared>>
    /\ UNCHANGED <<now, offset, object, checked>>

\* Mutant: the response's Date stands in for S3's LastModified.
LandsUnstamped ==
    /\ pending # None
    /\ object' = [hdr |-> pending.hdr,
                  storedAt |-> IF Given(pending.hdr.date) THEN pending.hdr.date
                               ELSE now + offset]
    /\ declared' = pending.declared
    /\ promised' = pending.promised
    /\ checked' = pending.at
    /\ pending' = None
    /\ UNCHANGED <<now, offset>>

\* The write lands, stamped with S3's clock.
Lands ==
    /\ pending # None
    /\ object' = [hdr |-> pending.hdr, storedAt |-> now + offset]
    /\ declared' = pending.declared
    /\ promised' = pending.promised
    /\ checked' = pending.at
    /\ pending' = None
    /\ UNCHANGED <<now, offset>>

\* The write fails: a touch is only advisory, a put fails its request.
Fails ==
    /\ pending # None
    /\ pending' = None
    /\ UNCHANGED <<now, offset, object, declared, promised, checked>>

Tick ==
    /\ now < MaxTime
    /\ pending # None => now < pending.at + MaxLatency
    /\ now' = now + 1
    /\ UNCHANGED <<offset, object, pending, declared, promised, checked>>

Init ==
    /\ now = 0
    /\ offset \in Offsets
    /\ object = None
    /\ pending = None
    /\ declared = NoDeclaration
    /\ promised = 0
    /\ checked = 0

Next == Changed \/ Confirmed \/ Lands \/ Fails \/ Tick

Spec == Init /\ [][Next]_vars

-----------------------------------------------------------------------------
(* Properties                                                              *)

TypeOK ==
    /\ now \in 0..MaxTime
    /\ offset \in Offsets
    /\ object # None => /\ object.storedAt - offset \in 0..now
                        /\ object.hdr.age \in DeltaSeconds
    /\ pending # None => pending.at \in 0..now
    /\ {promised, checked} \subseteq Int

Magnitude(n) == IF n < 0 THEN -n ELSE n

\* S3's clock running ahead makes an entry look younger than it is.
Ahead == IF offset > 0 THEN offset ELSE 0

\* No entry is served as fresh past the instant the origin's declaration runs
\* out, however often revalidations have re-armed it and whatever headers they
\* left out, but for the time its last write took to land and S3's clock
\* running ahead (Evaluate, Merge, maybeTouch).
FreshWithinPromise == IsFresh => now < promised + MaxLatency + Ahead

\* No entry is served as fresh longer than the cap after the origin last gave
\* or confirmed it, with the same allowance (Evaluate's residency axis).
FreshWithinCap == IsFresh => now < checked + FreshnessCap + MaxLatency + Ahead

\* The gate gives nothing away: until the declaration runs out or the cap
\* strikes, the entry is fresh, but for a difference of the clocks.  Holding a
\* later answer against the Age or Date of an earlier one would break it
\* (Merge).
WholePromise ==
    /\ object # None
    /\ now + Magnitude(offset) < promised
    /\ now + Magnitude(offset) < object.storedAt - offset + FreshnessCap
    => IsFresh \/ pending # None

\* An entry that is not fresh stays so until it is written again (Evaluate as
\* time passes).
DecayIsFinal == [][object # None /\ object' = object /\ ~IsFresh => ~IsFresh']_vars

\* A touch that lands at once under agreeing clocks makes the entry fresh: it
\* is not a write per request (maybeTouch's gate).
TouchPays ==
    [][/\ pending # None /\ pending.touch /\ pending' = None /\ object' # object
       /\ now = pending.at /\ offset = 0
       => IsFresh']_vars

=============================================================================
