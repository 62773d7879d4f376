----------------------------- MODULE Freshness -----------------------------
(***************************************************************************)
(* The pure half of the mirror: internal/freshness.  Evaluate decides      *)
(* whether a cached response may be served without asking the origin, and  *)
(* Merge computes the header set a revalidated entry is stored with.       *)
(*                                                                         *)
(* A header set is a record with one field per header the mirror reads     *)
(* back.  Its values are already parsed: a time is an integer number of    *)
(* seconds, a Cache-Control value is the three directives the gate reads,  *)
(* a Vary value is the set of names it lists.  Absent stands for a header  *)
(* or directive that is not there, Invalid for one that is duplicated,     *)
(* garbled or out of range.                                                *)
(***************************************************************************)
EXTENDS Integers

CONSTANTS Absent, Invalid

ASSUME SentinelAssumption ==
    /\ Absent # Invalid
    /\ Absent \notin Int
    /\ Invalid \notin Int

Given(x) == x \notin {Absent, Invalid}

\* Parsed delta-seconds: max-age, s-maxage and Age (parseDeltaSeconds).
DeltaSeconds == Nat \cup {Absent, Invalid}

\* An HTTP date.  A list that is not exactly one parseable date is Invalid.
HTTPDate == Int \cup {Absent, Invalid}

\* The names a Vary value may list, as far as the gate tells them apart.
FieldName == {"Accept", "Accept-Encoding", "Cookie", "*"}

\* The subset of Cache-Control the gate reads (ccDirectives).
CacheControl == [noCache : BOOLEAN, sMaxAge : DeltaSeconds, maxAge : DeltaSeconds]

ASSUME DirectiveAssumption == Absent \notin CacheControl

NoDirectives == [noCache |-> FALSE, sMaxAge |-> Absent, maxAge |-> Absent]

\* parseCacheControl on an absent header yields no directive at all.
Directives(h) == IF h.cacheControl = Absent THEN NoDirectives ELSE h.cacheControl

-----------------------------------------------------------------------------
(* Evaluate                                                                *)

\* Every name in the stored Vary must be one the cache key encodes; the
\* mirror never forwards Accept-Encoding, so that name selects nothing.
VarySatisfied(vary, keyHeaders) ==
    \/ vary = Absent
    \/ \A name \in vary \ {"Accept-Encoding"} : name # "*" /\ name \in keyHeaders

\* s-maxage, else max-age, else Expires - Date with storedAt standing in for
\* a missing Date.  A directive that is there but unusable disqualifies the
\* lifetime instead of yielding to a weaker source.
DeclaredLifetime(h, storedAt) ==
    LET cc == Directives(h)
    IN  IF cc.sMaxAge # Absent THEN cc.sMaxAge
        ELSE IF cc.maxAge # Absent THEN cc.maxAge
        ELSE IF Given(h.expires)
             THEN h.expires - (IF Given(h.date) THEN h.date ELSE storedAt)
             ELSE Invalid

\* parseAge: no Age header counts as zero.
StoredAge(h) == IF h.age = Absent THEN 0 ELSE h.age

\* Mutant: clocks that disagree count as elapsed time either way.
ResidentUnsigned(storedAt, now) == IF now > storedAt THEN now - storedAt ELSE storedAt - now

\* now - storedAt, clamped: storedAt is S3's clock and now is the mirror's.
Resident(storedAt, now) == IF now > storedAt THEN now - storedAt ELSE 0

ReasonFresh        == "within freshness lifetime"
ReasonNoCache      == "no-cache"
ReasonVaryMismatch == "vary mismatch"
ReasonNoLifetime   == "no declared lifetime"
ReasonInvalidAge   == "invalid age"
ReasonNoStoredAt   == "missing stored-at"
ReasonTTLExpired   == "ttl expired"
ReasonCapExpired   == "cap expired"

\* Mutant: the cap is left to the touch.
EvaluateUncapped(h, storedAt, now, cap, keyHeaders) ==
    IF /\ storedAt # Absent
       /\ ~Directives(h).noCache
       /\ VarySatisfied(h.vary, keyHeaders)
       /\ Given(DeclaredLifetime(h, storedAt))
       /\ StoredAge(h) # Invalid
       /\ Resident(storedAt, now) + StoredAge(h) < DeclaredLifetime(h, storedAt)
    THEN ReasonFresh
    ELSE ReasonTTLExpired

\* Mutant: one age for both axes, so that CDN residency uses up the cap.
EvaluateMin(h, storedAt, now, cap, keyHeaders) ==
    IF /\ EvaluateUncapped(h, storedAt, now, cap, keyHeaders) = ReasonFresh
       /\ Resident(storedAt, now) + StoredAge(h) < cap
    THEN ReasonFresh
    ELSE ReasonCapExpired

\* The gate's verdict, in the order the code asks its questions.
Evaluate(h, storedAt, now, cap, keyHeaders) ==
    LET lifetime == DeclaredLifetime(h, storedAt)
        resident == Resident(storedAt, now)
    IN  IF storedAt = Absent THEN ReasonNoStoredAt
        ELSE IF Directives(h).noCache THEN ReasonNoCache
        ELSE IF ~VarySatisfied(h.vary, keyHeaders) THEN ReasonVaryMismatch
        ELSE IF lifetime = Invalid THEN ReasonNoLifetime
        ELSE IF StoredAge(h) = Invalid THEN ReasonInvalidAge
        ELSE IF resident + StoredAge(h) >= lifetime THEN ReasonTTLExpired
        ELSE IF resident >= cap THEN ReasonCapExpired
        ELSE ReasonFresh

Fresh(h, storedAt, now, cap, keyHeaders) ==
    Evaluate(h, storedAt, now, cap, keyHeaders) = ReasonFresh

-----------------------------------------------------------------------------
(* Merge                                                                   *)

\* Mutant: a Date the validating response leaves out is kept.
MergeKeepingDate(stored, validating) ==
    LET Update(old, new) == IF new = Absent THEN old ELSE new
    IN  [etag         |-> Update(stored.etag, validating.etag),
         lastModified |-> Update(stored.lastModified, validating.lastModified),
         cacheControl |-> Update(stored.cacheControl, validating.cacheControl),
         expires      |-> Update(stored.expires, validating.expires),
         vary         |-> Update(stored.vary, validating.vary),
         age          |-> validating.age,
         date         |-> Update(stored.date, validating.date),
         contentType  |-> stored.contentType]

\* The header set stored after a revalidation: what the validating response
\* carries replaces its stored counterpart and what it omits is kept, except
\* that Age and Date are only ever the validating response's own, and fields
\* that describe the body (contentType stands for all four of them) are only
\* ever the stored entry's.
Merge(stored, validating) ==
    LET Update(old, new) == IF new = Absent THEN old ELSE new
    IN  [etag         |-> Update(stored.etag, validating.etag),
         lastModified |-> Update(stored.lastModified, validating.lastModified),
         cacheControl |-> Update(stored.cacheControl, validating.cacheControl),
         expires      |-> Update(stored.expires, validating.expires),
         vary         |-> Update(stored.vary, validating.vary),
         age          |-> validating.age,
         date         |-> validating.date,
         contentType  |-> stored.contentType]
=============================================================================
