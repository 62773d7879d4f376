------------------------- MODULE FreshWindowProofs -------------------------
(***************************************************************************)
(* The freshness window for every lifetime, age, cap, clock offset and     *)
(* write latency.  The invariant says what the stored header set means: it *)
(* carries the declaration in force and is dated by its own response.      *)
(***************************************************************************)
EXTENDS FreshWindow, TLAPS

Decl == [noCache : BOOLEAN, maxAge : Nat \cup {Absent}, expires : Nat \cup {Absent}]

\* Header set h says what declaration d means.
Describes(h, d) ==
    /\ Directives(h).noCache = d.noCache
    /\ Directives(h).maxAge = d.maxAge
    /\ Directives(h).sMaxAge = Absent
    /\ h.expires = d.expires

\* ... and h came at time t, in a response as old as its own Age and Date say.
Vouched(h, d, t) ==
    /\ h \in Header
    /\ d \in Decl
    /\ Describes(h, d)
    /\ StoredAge(h) \in Nat
    /\ \/ h.date = t - StoredAge(h)
       \/ h.date = Absent /\ StoredAge(h) = 0

\* Whether d, at time t in a response of age a and date s, lasts r longer.
Outlasts(d, a, s, r) ==
    /\ ~d.noCache
    /\ \/ d.maxAge # Absent /\ r + a < d.maxAge
       \/ d.maxAge = Absent /\ d.expires # Absent /\ r + a < d.expires - s

DateOr(h, s) == IF h.date = Absent THEN s ELSE h.date

ClockInv ==
    /\ now \in 0..MaxTime
    /\ offset \in Offsets
    /\ declared \in Decl
    /\ promised \in Int
    /\ checked \in Nat

WriteInv ==
    pending # None =>
      /\ pending.at \in Nat
      /\ pending.at <= now
      /\ now <= pending.at + MaxLatency
      /\ Vouched(pending.hdr, pending.declared, pending.at)
      /\ pending.promised = Deadline(pending.declared, pending.at - StoredAge(pending.hdr))
      /\ pending.touch => Fresh(pending.hdr, pending.at, pending.at, FreshnessCap, {})

\* A confirmation that stores nothing moves the promise of an entry that is
\* not fresh, and only where it has run out.
EntryInv ==
    object # None =>
      /\ object \in Object
      /\ Vouched(object.hdr, declared, checked)
      /\ checked <= object.storedAt - offset
      /\ object.storedAt - offset <= now
      /\ object.storedAt - offset <= checked + MaxLatency
      /\ \/ promised = Deadline(declared, checked - StoredAge(object.hdr))
         \/ (promised <= now \/ FreshnessCap = 0) /\ ~IsFresh

WindowInv == ClockInv /\ WriteInv /\ EntryInv

-----------------------------------------------------------------------------
(* What the gate says of a header set that is vouched for.                 *)

LEMMA SentinelsDiffer ==
  /\ Absent # Invalid
  /\ \A n \in Int : n # Absent /\ n # Invalid /\ Given(n)
  /\ \A c \in CacheControl : c # Absent
  BY SentinelAssumption, DirectiveAssumption DEF Given

LEMMA ResidentBounds ==
  \A s, n \in Int : /\ Resident(s, n) \in Nat
                    /\ Resident(s, n) >= n - s
                    /\ n <= s => Resident(s, n) = 0
                    /\ n > s => Resident(s, n) = n - s
                    /\ Resident(s, s) = 0
                    /\ Resident(s, n) <= Resident(s, n + 1)
  BY DEF Resident

\* The verdict of Evaluate in the terms of the declaration.
LEMMA FreshIff ==
  \A h, d, t, s, n, cap :
    t \in Int /\ s \in Int /\ n \in Int /\ cap \in Nat /\ Vouched(h, d, t)
    => (Fresh(h, s, n, cap, {}) <=>
          /\ Outlasts(d, StoredAge(h), DateOr(h, s), Resident(s, n))
          /\ Resident(s, n) < cap)
  <1>0. SUFFICES ASSUME NEW h, NEW d, NEW t, NEW s, NEW n, NEW cap,
                        t \in Int, s \in Int, n \in Int, cap \in Nat, Vouched(h, d, t)
                 PROVE  Fresh(h, s, n, cap, {}) <=>
                          /\ Outlasts(d, StoredAge(h), DateOr(h, s), Resident(s, n))
                          /\ Resident(s, n) < cap
    OBVIOUS
  <1> DEFINE r == Resident(s, n)
             a == StoredAge(h)
             l == DeclaredLifetime(h, s)
             v == DateOr(h, s)
  <1>1. r \in Nat /\ a \in Nat
    BY <1>0, ResidentBounds DEF Vouched
  <1>2. v \in Int /\ v = (IF Given(h.date) THEN h.date ELSE s)
    BY <1>0, SentinelsDiffer DEF Vouched, DateOr, Given
  <1>3. VarySatisfied(h.vary, {})
    BY <1>0 DEF Vouched, Header, VarySatisfied
  <1>4. s # Absent /\ a # Invalid
    BY <1>0, <1>1, SentinelsDiffer
  <1>5. /\ d.maxAge # Absent => l = d.maxAge /\ l \in Nat
        /\ d.maxAge = Absent /\ d.expires # Absent => l = d.expires - v /\ l \in Int
        /\ d.maxAge = Absent /\ d.expires = Absent => l = Invalid
    <2>1. /\ Directives(h).sMaxAge = Absent /\ Directives(h).maxAge = d.maxAge
          /\ h.expires = d.expires
          /\ d.maxAge \in Nat \cup {Absent} /\ d.expires \in Nat \cup {Absent}
      BY <1>0 DEF Vouched, Describes, Decl
    <2>2. d.expires # Absent => Given(h.expires)
      BY <2>1, SentinelsDiffer
    <2>3. d.expires = Absent => ~Given(h.expires)
      BY <2>1 DEF Given
    <2> QED
      BY <1>2, <2>1, <2>2, <2>3 DEF DeclaredLifetime
  <1>6. Directives(h).noCache = d.noCache /\ d.noCache \in BOOLEAN
    BY <1>0 DEF Vouched, Describes, Decl
  <1>7. Fresh(h, s, n, cap, {}) <=>
          ~d.noCache /\ l # Invalid /\ ~(r + a >= l) /\ ~(r >= cap)
    <2> HIDE DEF r, a, l, v
    <2>1. Evaluate(h, s, n, cap, {}) =
            IF d.noCache THEN ReasonNoCache
            ELSE IF l = Invalid THEN ReasonNoLifetime
            ELSE IF r + a >= l THEN ReasonTTLExpired
            ELSE IF r >= cap THEN ReasonCapExpired
            ELSE ReasonFresh
      BY <1>3, <1>4, <1>6 DEF Evaluate, r, a, l
    <2> QED
      BY <2>1 DEF Fresh, ReasonFresh, ReasonNoCache, ReasonNoLifetime,
                  ReasonTTLExpired, ReasonCapExpired
  <1>8. l # Invalid <=> d.maxAge # Absent \/ d.expires # Absent
    BY <1>5, SentinelsDiffer
  <1> HIDE DEF r, a, l, v
  <1>9. Fresh(h, s, n, cap, {}) <=> Outlasts(d, a, v, r) /\ r < cap
    <2>0. d.maxAge \in Nat \cup {Absent} /\ d.expires \in Nat \cup {Absent}
      BY <1>0 DEF Vouched, Decl
    <2>1. CASE d.maxAge # Absent
      BY <1>0, <1>1, <1>5, <1>7, <1>8, <2>1 DEF Outlasts
    <2>2. CASE d.maxAge = Absent /\ d.expires # Absent
      BY <1>0, <1>1, <1>2, <1>5, <1>7, <1>8, <2>0, <2>2 DEF Outlasts
    <2>3. CASE d.maxAge = Absent /\ d.expires = Absent
      BY <1>7, <1>8, <2>3 DEF Outlasts
    <2> QED
      BY <2>1, <2>2, <2>3
  <1> QED
    BY <1>9 DEF r, a, v

\* What is not fresh does not become so as time passes.
LEMMA Decay ==
  \A h, d, t, s, n, cap :
    /\ t \in Int /\ s \in Int /\ n \in Int /\ cap \in Nat /\ Vouched(h, d, t)
    /\ Fresh(h, s, n + 1, cap, {})
    => Fresh(h, s, n, cap, {})
  <1>0. SUFFICES ASSUME NEW h, NEW d, NEW t, NEW s, NEW n, NEW cap,
                        t \in Int, s \in Int, n \in Int, cap \in Nat, Vouched(h, d, t),
                        Fresh(h, s, n + 1, cap, {})
                 PROVE  Fresh(h, s, n, cap, {})
    OBVIOUS
  <1> DEFINE r == Resident(s, n)
             q == Resident(s, n + 1)
             a == StoredAge(h)
             v == DateOr(h, s)
  <1>1. r \in Nat /\ q \in Nat /\ r <= q /\ a \in Nat
    BY <1>0, ResidentBounds DEF Vouched
  <1>2. v \in Int
    BY <1>0 DEF Vouched, DateOr
  <1>3. Outlasts(d, a, v, q) /\ q < cap
    <2>1. n + 1 \in Int
      BY <1>0
    <2> QED
      BY <1>0, <2>1, FreshIff
  <1>4. Outlasts(d, a, v, r) /\ r < cap
    <2> HIDE DEF r, q, a, v
    <2>1. d.maxAge \in Nat \cup {Absent} /\ d.expires \in Nat \cup {Absent}
      BY <1>0 DEF Vouched, Decl
    <2> QED
      BY <1>0, <1>1, <1>2, <1>3, <2>1 DEF Outlasts
  <1> QED
    BY <1>0, <1>4, FreshIff

-----------------------------------------------------------------------------
(* What the origin's answers and the merge make of it.                     *)

LEMMA ConstantsTyped ==
  /\ MaxTime \in Nat /\ MaxLatency \in Nat /\ FreshnessCap \in Nat
  /\ Offsets \subseteq Int /\ Lifetimes \subseteq Nat /\ Ages \subseteq Nat
  BY WindowAssumption

LEMMA DeclarationTyped == Declarations \subseteq Decl
  <1>1. NoDeclaration \in Decl
    BY DEF NoDeclaration, Decl
  <1>2. [NoDeclaration EXCEPT !.noCache = TRUE] \in Decl
    BY DEF NoDeclaration, Decl
  <1>3. \A n \in Nat : [NoDeclaration EXCEPT !.maxAge = n] \in Decl
    BY DEF NoDeclaration, Decl
  <1>4. \A t \in Nat : [NoDeclaration EXCEPT !.expires = t] \in Decl
    BY DEF NoDeclaration, Decl
  <1>5. Lifetimes \subseteq Nat /\ 0..MaxTime \subseteq Nat
    BY ConstantsTyped
  <1> QED
    BY <1>1, <1>2, <1>3, <1>4, <1>5 DEF Declarations

LEMMA AmendTyped == \A old, d \in Decl : Amend(old, d) \in Decl
  BY DEF Amend, Decl

LEMMA DeadlineTyped == \A d \in Decl, t \in Int : Deadline(d, t) \in Int
  BY SentinelsDiffer DEF Deadline, Decl

\* An answer carries its own declaration and its own age.
LEMMA CarryingFields ==
  \A d \in Decl, a \in Nat, dated \in BOOLEAN :
    now \in Int /\ (a # 0 => dated) =>
      /\ Carrying(d, a, dated) \in Header
      /\ Describes(Carrying(d, a, dated), d)
      /\ StoredAge(Carrying(d, a, dated)) = a
      /\ \/ Carrying(d, a, dated).date = now - a
         \/ Carrying(d, a, dated).date = Absent /\ a = 0
  <1>0. SUFFICES ASSUME NEW d \in Decl, NEW a \in Nat, NEW dated \in BOOLEAN,
                        now \in Int, a # 0 => dated
                 PROVE  /\ Carrying(d, a, dated) \in Header
                        /\ Describes(Carrying(d, a, dated), d)
                        /\ StoredAge(Carrying(d, a, dated)) = a
                        /\ \/ Carrying(d, a, dated).date = now - a
                           \/ Carrying(d, a, dated).date = Absent /\ a = 0
    OBVIOUS
  <1> DEFINE cc == [noCache |-> d.noCache, sMaxAge |-> Absent, maxAge |-> d.maxAge]
             h  == Carrying(d, a, dated)
  <1>1. cc \in CacheControl /\ cc # Absent
    BY SentinelsDiffer DEF CacheControl, Decl, DeltaSeconds
  <1>2. /\ h.cacheControl = IF d.noCache \/ d.maxAge # Absent THEN cc ELSE Absent
        /\ h.expires = d.expires
        /\ h.age = IF a = 0 THEN Absent ELSE a
        /\ h.date = IF dated THEN now - a ELSE Absent
    BY DEF Carrying
  <1>3. h \in Header
    BY <1>0, <1>1 DEF Carrying, Header, HTTPDate, DeltaSeconds, Decl
  <1>4. Describes(h, d)
    <2>1. CASE d.noCache \/ d.maxAge # Absent
      BY <1>1, <1>2, <2>1 DEF Describes, Directives
    <2>2. CASE ~d.noCache /\ d.maxAge = Absent
      <3>1. d.noCache = FALSE
        BY <2>2 DEF Decl
      <3> QED
        BY <1>2, <2>2, <3>1 DEF Describes, Directives, NoDirectives
    <2> QED
      BY <2>1, <2>2
  <1>5. StoredAge(h) = a
    BY <1>2, SentinelsDiffer DEF StoredAge
  <1> QED
    BY <1>0, <1>2, <1>3, <1>4, <1>5

LEMMA CarryingVouched ==
  \A d \in Declarations, a \in Ages, dated \in BOOLEAN :
    now \in Int /\ (a # 0 => dated) =>
      /\ Vouched(Carrying(d, a, dated), d, now)
      /\ StoredAge(Carrying(d, a, dated)) = a
  BY CarryingFields, DeclarationTyped, WindowAssumption DEF Vouched

\* The merge amends the stored declaration, and is dated by the confirmation
\* alone.
LEMMA MergeVouched ==
  \A h, old, t : \A d \in Declarations, a \in Ages, dated \in BOOLEAN :
    now \in Int /\ (a # 0 => dated) /\ Vouched(h, old, t) =>
      /\ Vouched(Merge(h, Carrying(d, a, dated)), Amend(old, d), now)
      /\ StoredAge(Merge(h, Carrying(d, a, dated))) = a
  <1>0. SUFFICES ASSUME NEW h, NEW old, NEW t, NEW d \in Declarations,
                        NEW a \in Ages, NEW dated \in BOOLEAN,
                        now \in Int, a # 0 => dated, Vouched(h, old, t)
                 PROVE  /\ Vouched(Merge(h, Carrying(d, a, dated)), Amend(old, d), now)
                        /\ StoredAge(Merge(h, Carrying(d, a, dated))) = a
    OBVIOUS
  <1> DEFINE c == Carrying(d, a, dated)
             m == Merge(h, c)
             e == Amend(old, d)
  <1>1. a \in Nat /\ d \in Decl /\ old \in Decl /\ e \in Decl /\ h \in Header
    BY <1>0, WindowAssumption, DeclarationTyped, AmendTyped DEF Vouched
  <1>2. /\ c \in Header /\ Describes(c, d) /\ StoredAge(c) = a
        /\ (c.date = now - a) \/ (c.date = Absent /\ a = 0)
    BY <1>0, <1>1, CarryingFields
  <1>3. c.cacheControl = Absent <=> ~d.noCache /\ d.maxAge = Absent
    <2>1. [noCache |-> d.noCache, sMaxAge |-> Absent, maxAge |-> d.maxAge] \in CacheControl
      BY <1>1 DEF CacheControl, Decl, DeltaSeconds
    <2> QED
      BY <2>1, SentinelsDiffer DEF Carrying
  <1> HIDE DEF c
  <1>4. /\ m.cacheControl = IF c.cacheControl = Absent THEN h.cacheControl ELSE c.cacheControl
        /\ m.expires = IF c.expires = Absent THEN h.expires ELSE c.expires
        /\ m.age = c.age /\ m.date = c.date
    BY DEF Merge
  <1>5. m \in Header
    BY <1>1, <1>2 DEF Merge, Header
  <1>6. StoredAge(m) = a
    BY <1>2, <1>4 DEF StoredAge
  <1>7. Describes(m, e)
    <2>1. Describes(h, old)
      BY <1>0 DEF Vouched
    <2>2. m.expires = e.expires
      BY <1>2, <1>4, <2>1 DEF Describes, Amend
    <2>3. Directives(m) = IF c.cacheControl = Absent THEN Directives(h) ELSE Directives(c)
      BY <1>4 DEF Directives
    <2>4. /\ e.noCache = (IF d.noCache \/ d.maxAge # Absent THEN d.noCache ELSE old.noCache)
          /\ e.maxAge = (IF d.noCache \/ d.maxAge # Absent THEN d.maxAge ELSE old.maxAge)
      BY DEF Amend
    <2> QED
      BY <1>2, <1>3, <2>1, <2>2, <2>3, <2>4 DEF Describes
  <1>8. (m.date = now - a) \/ (m.date = Absent /\ a = 0)
    BY <1>2, <1>4
  <1> HIDE DEF m, e
  <1>9. Vouched(m, e, now)
    BY <1>1, <1>5, <1>6, <1>7, <1>8 DEF Vouched
  <1> QED
    BY <1>6, <1>9 DEF m, e, c

-----------------------------------------------------------------------------
(* Every step keeps the invariant.                                         *)

\* What the invariant says of the stored entry, as the gate sees it.
LEMMA EntryGate ==
  ASSUME WindowInv, object # None
  PROVE  /\ now \in Nat /\ offset \in Int /\ object.storedAt \in Int
         /\ checked \in Nat /\ promised \in Int
         /\ Vouched(object.hdr, declared, checked)
         /\ IsFresh <=> Fresh(object.hdr, object.storedAt, now, FreshnessCap, {})
  BY ConstantsTyped DEF WindowInv, ClockInv, EntryInv, Object, IsFresh

\* Time does not make an entry fresh.
LEMMA StaleStays ==
  ASSUME WindowInv, object # None, ~IsFresh, object' = object,
         now' = now \/ now' = now + 1
  PROVE  ~IsFresh'
  <1>1. /\ now \in Int /\ object.storedAt \in Int /\ checked \in Int
        /\ Vouched(object.hdr, declared, checked)
        /\ ~Fresh(object.hdr, object.storedAt, now, FreshnessCap, {})
    BY EntryGate
  <1>2. ~Fresh(object.hdr, object.storedAt, now + 1, FreshnessCap, {})
    BY <1>1, Decay, ConstantsTyped
  <1>3. ~Fresh(object.hdr, object.storedAt, now', FreshnessCap, {})
    BY <1>1, <1>2
  <1> QED
    BY <1>3 DEF IsFresh

\* A declaration that gives nothing at the time it is confirmed has run out.
LEMMA NothingToGain ==
  \A h, d :
    now \in Nat /\ Vouched(h, d, now) /\ ~Fresh(h, now, now, FreshnessCap, {})
    => \/ Deadline(d, now - StoredAge(h)) <= now
       \/ FreshnessCap = 0
  <1>0. SUFFICES ASSUME NEW h, NEW d,
                        now \in Nat, Vouched(h, d, now),
                        ~Fresh(h, now, now, FreshnessCap, {}), FreshnessCap # 0
                 PROVE  Deadline(d, now - StoredAge(h)) <= now
    OBVIOUS
  <1> DEFINE a == StoredAge(h)
             v == DateOr(h, now)
  <1>1. a \in Nat /\ (v = now - a) /\ d \in Decl
    BY <1>0, SentinelsDiffer DEF Vouched, DateOr
  <1>2. ~Outlasts(d, a, v, 0)
    <2>1. /\ now \in Int /\ Resident(now, now) = 0 /\ 0 < FreshnessCap
      BY <1>0, ResidentBounds, ConstantsTyped
    <2> QED
      BY <1>0, <2>1, FreshIff, ConstantsTyped
  <1> HIDE DEF a, v
  <1>3. d.noCache \in BOOLEAN /\ d.maxAge \in Nat \cup {Absent} /\ d.expires \in Nat \cup {Absent}
    BY <1>1 DEF Decl
  <1>4. Deadline(d, now - a) <= now
    BY <1>0, <1>1, <1>2, <1>3 DEF Outlasts, Deadline
  <1> QED
    BY <1>4 DEF a

\* An entry that is left alone keeps its part of the invariant.
LEMMA EntryKept ==
  ASSUME WindowInv, UNCHANGED <<offset, object, declared, promised, checked>>,
         now' = now \/ now' = now + 1
  PROVE  EntryInv'
  <1>0. SUFFICES ASSUME object # None
                 PROVE  EntryInv'
    BY DEF EntryInv
  <1>1. /\ now \in Nat /\ offset \in Int /\ object.storedAt \in Int /\ promised \in Int
    BY <1>0, EntryGate
  <1>2. EntryInv
    BY DEF WindowInv
  <1>3. ~IsFresh => ~IsFresh'
    BY <1>0, StaleStays
  <1>4. \/ promised' = Deadline(declared', checked' - StoredAge(object'.hdr))
        \/ (promised' <= now' \/ FreshnessCap = 0) /\ ~IsFresh'
    BY <1>0, <1>1, <1>2, <1>3 DEF EntryInv
  <1> QED
    BY <1>0, <1>1, <1>2, <1>4 DEF EntryInv

LEMMA ChangedKeeps ==
  ASSUME WindowInv, Changed
  PROVE  WindowInv'
  <1>1. PICK d \in Declarations, a \in Ages, dated \in BOOLEAN :
          /\ a # 0 => dated
          /\ pending' = [hdr |-> Carrying(d, a, dated), touch |-> FALSE, at |-> now,
                         declared |-> d, promised |-> Deadline(d, now - a)]
    BY DEF Changed
  <1>2. UNCHANGED <<now, offset, object, declared, promised, checked>>
    BY DEF Changed
  <1>3. now \in Nat /\ now \in Int /\ MaxLatency \in Nat
    BY ConstantsTyped DEF WindowInv, ClockInv
  <1>4. ClockInv'
    BY <1>2 DEF WindowInv, ClockInv
  <1>5. EntryInv'
    BY <1>2, EntryKept
  <1>6. WriteInv'
    <2> DEFINE h == Carrying(d, a, dated)
    <2>1. Vouched(h, d, now) /\ StoredAge(h) = a
      BY <1>1, <1>3, CarryingVouched
    <2> HIDE DEF h
    <2>2. pending' = [hdr |-> h, touch |-> FALSE, at |-> now,
                      declared |-> d, promised |-> Deadline(d, now - a)]
      BY <1>1 DEF h
    <2> QED
      BY <1>2, <1>3, <2>1, <2>2 DEF WriteInv
  <1> QED
    BY <1>4, <1>5, <1>6 DEF WindowInv

LEMMA ConfirmedKeeps ==
  ASSUME WindowInv, Confirmed
  PROVE  WindowInv'
  <1>1. PICK d \in Declarations, a \in Ages, dated \in BOOLEAN :
          /\ a # 0 => dated
          /\ IF Fresh(Merge(object.hdr, Carrying(d, a, dated)), now, now, FreshnessCap, {})
             THEN /\ pending' = [hdr |-> Merge(object.hdr, Carrying(d, a, dated)), touch |-> TRUE,
                                 at |-> now, declared |-> Amend(declared, d),
                                 promised |-> Deadline(Amend(declared, d), now - a)]
                  /\ UNCHANGED <<declared, promised>>
             ELSE /\ promised' = Deadline(Amend(declared, d), now - a)
                  /\ UNCHANGED <<pending, declared>>
    BY DEF Confirmed
  <1>2. /\ UNCHANGED <<now, offset, object, checked>>
        /\ object # None /\ ~IsFresh /\ pending = None
    BY DEF Confirmed
  <1>3. /\ now \in Nat /\ now \in Int /\ MaxLatency \in Nat
        /\ object.storedAt \in Int /\ Vouched(object.hdr, declared, checked)
    BY <1>2, EntryGate, ConstantsTyped
  <1> DEFINE h == Merge(object.hdr, Carrying(d, a, dated))
             k == Amend(declared, d)
  <1>4. Vouched(h, k, now) /\ StoredAge(h) = a
    BY <1>1, <1>3, MergeVouched
  <1>5. Deadline(k, now - a) \in Int
    <2>1. k \in Decl /\ now - a \in Int
      BY <1>3, <1>4, ConstantsTyped DEF Vouched
    <2> QED
      BY <2>1, DeadlineTyped
  <1> HIDE DEF h, k
  <1>6. CASE Fresh(h, now, now, FreshnessCap, {})
    <2>1. /\ pending' = [hdr |-> h, touch |-> TRUE, at |-> now,
                         declared |-> k, promised |-> Deadline(k, now - a)]
          /\ UNCHANGED <<now, offset, object, declared, promised, checked>>
      BY <1>1, <1>2, <1>6 DEF h, k
    <2>2. ClockInv'
      BY <2>1 DEF WindowInv, ClockInv
    <2>3. EntryInv'
      BY <2>1, EntryKept
    <2>4. WriteInv'
      BY <1>3, <1>4, <1>6, <2>1 DEF WriteInv
    <2> QED
      BY <2>2, <2>3, <2>4 DEF WindowInv
  <1>7. CASE ~Fresh(h, now, now, FreshnessCap, {})
    <2>1. /\ promised' = Deadline(k, now - a)
          /\ UNCHANGED <<now, offset, object, declared, pending, checked>>
      BY <1>1, <1>2, <1>7 DEF h, k
    <2>2. promised' <= now \/ FreshnessCap = 0
      BY <1>3, <1>4, <1>7, <2>1, NothingToGain
    <2>3. ~IsFresh'
      BY <1>2, <2>1, StaleStays
    <2>4. ClockInv'
      BY <1>5, <2>1 DEF WindowInv, ClockInv
    <2>5. WriteInv'
      BY <1>2, <2>1 DEF WriteInv
    <2>6. EntryInv'
      BY <1>3, <2>1, <2>2, <2>3 DEF WindowInv, EntryInv
    <2> QED
      BY <2>4, <2>5, <2>6 DEF WindowInv
  <1> QED
    BY <1>6, <1>7

LEMMA LandsKeeps ==
  ASSUME WindowInv, Lands
  PROVE  WindowInv'
  <1>1. /\ pending # None
        /\ object' = [hdr |-> pending.hdr, storedAt |-> now + offset]
        /\ declared' = pending.declared /\ promised' = pending.promised
        /\ checked' = pending.at /\ pending' = None
        /\ now' = now /\ offset' = offset
    BY DEF Lands
  <1>2. /\ now \in Nat /\ offset \in Int /\ now \in 0..MaxTime /\ offset \in Offsets
    BY ConstantsTyped DEF WindowInv, ClockInv
  <1>3. /\ pending.at \in Nat /\ pending.at <= now /\ now <= pending.at + MaxLatency
        /\ Vouched(pending.hdr, pending.declared, pending.at)
        /\ pending.promised = Deadline(pending.declared, pending.at - StoredAge(pending.hdr))
    BY <1>1 DEF WindowInv, WriteInv
  <1>4. /\ pending.declared \in Decl /\ pending.hdr \in Header
        /\ StoredAge(pending.hdr) \in Nat
    BY <1>3 DEF Vouched
  <1>5. pending.promised \in Int
    <2>1. pending.at - StoredAge(pending.hdr) \in Int
      BY <1>3, <1>4
    <2> QED
      BY <1>3, <1>4, <2>1, DeadlineTyped
  <1>6. ClockInv'
    BY <1>1, <1>2, <1>3, <1>4, <1>5 DEF ClockInv
  <1>7. WriteInv'
    BY <1>1 DEF WriteInv
  <1>8. EntryInv'
    <2>1. object'.hdr = pending.hdr /\ object'.storedAt = now + offset /\ object' \in Object
      BY <1>1, <1>2, <1>4 DEF Object
    <2> QED
      BY <1>1, <1>2, <1>3, <2>1, ConstantsTyped DEF EntryInv
  <1> QED
    BY <1>6, <1>7, <1>8 DEF WindowInv

LEMMA FailsKeeps ==
  ASSUME WindowInv, Fails
  PROVE  WindowInv'
  <1>1. pending' = None /\ UNCHANGED <<now, offset, object, declared, promised, checked>>
    BY DEF Fails
  <1>2. EntryInv'
    BY <1>1, EntryKept
  <1> QED
    BY <1>1, <1>2 DEF WindowInv, ClockInv, WriteInv

LEMMA TickKeeps ==
  ASSUME WindowInv, Tick
  PROVE  WindowInv'
  <1>1. /\ now < MaxTime /\ now' = now + 1
        /\ pending # None => now < pending.at + MaxLatency
        /\ UNCHANGED <<offset, object, pending, declared, promised, checked>>
    BY DEF Tick
  <1>2. now \in Nat /\ MaxTime \in Nat /\ MaxLatency \in Nat
    BY ConstantsTyped DEF WindowInv, ClockInv
  <1>3. ClockInv'
    BY <1>1, <1>2 DEF WindowInv, ClockInv
  <1>4. WriteInv'
    BY <1>1, <1>2 DEF WindowInv, WriteInv
  <1>5. EntryInv'
    BY <1>1, EntryKept
  <1> QED
    BY <1>3, <1>4, <1>5 DEF WindowInv

LEMMA WindowStep == WindowInv /\ [Next]_vars => WindowInv'
  <1>0. SUFFICES ASSUME WindowInv, [Next]_vars
                 PROVE  WindowInv'
    OBVIOUS
  <1>1. CASE Changed
    BY <1>0, <1>1, ChangedKeeps
  <1>2. CASE Confirmed
    BY <1>0, <1>2, ConfirmedKeeps
  <1>3. CASE Lands
    BY <1>0, <1>3, LandsKeeps
  <1>4. CASE Fails
    BY <1>0, <1>4, FailsKeeps
  <1>5. CASE Tick
    BY <1>0, <1>5, TickKeeps
  <1>6. CASE UNCHANGED vars
    <2>1. EntryInv'
      BY <1>0, <1>6, EntryKept DEF vars
    <2> QED
      BY <1>0, <1>6, <2>1 DEF vars, WindowInv, ClockInv, WriteInv
  <1> QED
    BY <1>0, <1>1, <1>2, <1>3, <1>4, <1>5, <1>6 DEF Next

LEMMA WindowInit == Init => WindowInv
  BY ConstantsTyped DEF Init, WindowInv, ClockInv, WriteInv, EntryInv, NoDeclaration, Decl

LEMMA WindowHolds == Spec => []WindowInv
  BY WindowInit, WindowStep, PTL DEF Spec

-----------------------------------------------------------------------------
(* What follows for the entry that is served.                              *)

\* The clocks of a stored entry, in one place.
LEMMA EntryClocks ==
  ASSUME WindowInv, object # None
  PROVE  /\ now \in Nat /\ offset \in Int /\ object.storedAt \in Int
         /\ checked \in Nat /\ promised \in Int
         /\ MaxLatency \in Nat /\ FreshnessCap \in Nat
         /\ checked <= object.storedAt - offset
         /\ object.storedAt - offset <= now
         /\ object.storedAt - offset <= checked + MaxLatency
         /\ Resident(object.storedAt, now) \in Nat
         /\ Resident(object.storedAt, now) >= now - object.storedAt
         /\ now <= object.storedAt => Resident(object.storedAt, now) = 0
         /\ now > object.storedAt => Resident(object.storedAt, now) = now - object.storedAt
         /\ IsFresh <=>
              /\ Outlasts(declared, StoredAge(object.hdr), DateOr(object.hdr, object.storedAt),
                          Resident(object.storedAt, now))
              /\ Resident(object.storedAt, now) < FreshnessCap
  <1>1. /\ now \in Nat /\ now \in Int /\ offset \in Int /\ object.storedAt \in Int
        /\ checked \in Nat /\ checked \in Int /\ promised \in Int
        /\ Vouched(object.hdr, declared, checked)
        /\ IsFresh <=> Fresh(object.hdr, object.storedAt, now, FreshnessCap, {})
        /\ MaxLatency \in Nat /\ FreshnessCap \in Nat
    BY EntryGate, ConstantsTyped
  <1>2. Fresh(object.hdr, object.storedAt, now, FreshnessCap, {}) <=>
          /\ Outlasts(declared, StoredAge(object.hdr), DateOr(object.hdr, object.storedAt),
                      Resident(object.storedAt, now))
          /\ Resident(object.storedAt, now) < FreshnessCap
    BY <1>1, FreshIff
  <1>3. /\ checked <= object.storedAt - offset
        /\ object.storedAt - offset <= now
        /\ object.storedAt - offset <= checked + MaxLatency
    BY DEF WindowInv, EntryInv
  <1> QED
    BY <1>1, <1>2, <1>3, ResidentBounds

\* What a vouched-for declaration and age are.
LEMMA EntryTerms ==
  ASSUME WindowInv, object # None
  PROVE  /\ declared.noCache \in BOOLEAN
         /\ declared.maxAge \in Nat \cup {Absent} /\ declared.expires \in Nat \cup {Absent}
         /\ StoredAge(object.hdr) \in Nat
         /\ \/ DateOr(object.hdr, object.storedAt) = checked - StoredAge(object.hdr)
            \/ /\ DateOr(object.hdr, object.storedAt) = object.storedAt
               /\ StoredAge(object.hdr) = 0
         /\ \/ promised = Deadline(declared, checked - StoredAge(object.hdr))
            \/ (promised <= now \/ FreshnessCap = 0) /\ ~IsFresh
  <1>1. Vouched(object.hdr, declared, checked) /\ checked \in Int
    BY EntryGate
  <1>2. \/ promised = Deadline(declared, checked - StoredAge(object.hdr))
        \/ (promised <= now \/ FreshnessCap = 0) /\ ~IsFresh
    BY DEF WindowInv, EntryInv
  <1> QED
    BY <1>1, <1>2, SentinelsDiffer DEF Vouched, Decl, DateOr

LEMMA PromiseBound ==
  ASSUME WindowInv
  PROVE  FreshWithinPromise
  <1>0. SUFFICES ASSUME IsFresh
                 PROVE  now < promised + MaxLatency + Ahead
    BY DEF FreshWithinPromise
  <1>1. object # None
    BY <1>0 DEF IsFresh
  <1> DEFINE r == Resident(object.storedAt, now)
             a == StoredAge(object.hdr)
             v == DateOr(object.hdr, object.storedAt)
             s == object.storedAt
  <1>2. /\ now \in Nat /\ offset \in Int /\ s \in Int /\ checked \in Nat /\ promised \in Int
        /\ MaxLatency \in Nat /\ s - offset <= checked + MaxLatency
        /\ r \in Nat /\ r >= now - s /\ Outlasts(declared, a, v, r)
    BY <1>0, <1>1, EntryClocks
  <1>3. /\ declared.noCache \in BOOLEAN
        /\ declared.maxAge \in Nat \cup {Absent} /\ declared.expires \in Nat \cup {Absent}
        /\ a \in Nat
        /\ (v = checked - a) \/ (v = s /\ a = 0)
        /\ promised = Deadline(declared, checked - a)
    BY <1>0, <1>1, EntryTerms
  <1>4. Ahead \in Nat /\ offset <= Ahead
    BY <1>2 DEF Ahead
  <1> HIDE DEF r, a, v, s
  <1>5. CASE declared.maxAge # Absent
    <2>1. r + a < declared.maxAge /\ promised = checked - a + declared.maxAge
      BY <1>2, <1>3, <1>5 DEF Outlasts, Deadline
    <2> QED
      BY <1>2, <1>3, <1>4, <1>5, <2>1
  <1>6. CASE declared.maxAge = Absent
    <2>1. /\ declared.expires # Absent /\ r + a < declared.expires - v
          /\ promised = declared.expires
      BY <1>2, <1>3, <1>6 DEF Outlasts, Deadline
    <2> QED
      BY <1>2, <1>3, <1>4, <2>1
  <1> QED
    BY <1>5, <1>6

LEMMA CapBound ==
  ASSUME WindowInv
  PROVE  FreshWithinCap
  <1>0. SUFFICES ASSUME IsFresh
                 PROVE  now < checked + FreshnessCap + MaxLatency + Ahead
    BY DEF FreshWithinCap
  <1>1. object # None
    BY <1>0 DEF IsFresh
  <1> DEFINE r == Resident(object.storedAt, now)
             s == object.storedAt
  <1>2. /\ now \in Nat /\ offset \in Int /\ s \in Int /\ checked \in Nat
        /\ MaxLatency \in Nat /\ FreshnessCap \in Nat /\ s - offset <= checked + MaxLatency
        /\ r \in Nat /\ r >= now - s /\ r < FreshnessCap
    BY <1>0, <1>1, EntryClocks
  <1>3. Ahead \in Nat /\ offset <= Ahead
    BY <1>2 DEF Ahead
  <1> HIDE DEF r, s
  <1> QED
    BY <1>2, <1>3

LEMMA PromiseKept ==
  ASSUME WindowInv
  PROVE  WholePromise
  <1>0. SUFFICES ASSUME object # None,
                        now + Magnitude(offset) < promised,
                        now + Magnitude(offset) < object.storedAt - offset + FreshnessCap
                 PROVE  IsFresh
    BY DEF WholePromise
  <1> DEFINE r == Resident(object.storedAt, now)
             a == StoredAge(object.hdr)
             v == DateOr(object.hdr, object.storedAt)
             s == object.storedAt
             g == Magnitude(offset)
  <1>1. /\ now \in Nat /\ offset \in Int /\ s \in Int /\ checked \in Nat /\ promised \in Int
        /\ FreshnessCap \in Nat /\ checked <= s - offset /\ s - offset <= now
        /\ r \in Nat /\ (now <= s => r = 0) /\ (now > s => r = now - s)
        /\ IsFresh <=> Outlasts(declared, a, v, r) /\ r < FreshnessCap
    BY <1>0, EntryClocks
  <1>2. /\ declared.noCache \in BOOLEAN
        /\ declared.maxAge \in Nat \cup {Absent} /\ declared.expires \in Nat \cup {Absent}
        /\ a \in Nat
        /\ (v = checked - a) \/ (v = s /\ a = 0)
        /\ \/ promised = Deadline(declared, checked - a)
           \/ (promised <= now \/ FreshnessCap = 0) /\ ~IsFresh
    BY <1>0, EntryTerms
  <1>3. g \in Nat /\ offset <= g /\ -offset <= g
    BY <1>1 DEF Magnitude
  <1>4. now + g < promised /\ now + g < s - offset + FreshnessCap
    BY <1>0
  <1> HIDE DEF r, a, v, s, g
  <1>5. r < FreshnessCap /\ FreshnessCap # 0 /\ now < promised
    BY <1>1, <1>3, <1>4
  <1>6. promised = Deadline(declared, checked - a)
    BY <1>1, <1>2, <1>5
  <1>7. Outlasts(declared, a, v, r)
    <2>1. ~declared.noCache
      BY <1>1, <1>5, <1>6 DEF Deadline
    <2>2. CASE declared.maxAge # Absent
      <3>1. promised = checked - a + declared.maxAge
        BY <1>6, <2>1, <2>2 DEF Deadline
      <3>2. r + a < declared.maxAge
        BY <1>1, <1>2, <1>3, <1>4, <2>2, <3>1
      <3> QED
        BY <2>1, <2>2, <3>2 DEF Outlasts
    <2>3. CASE declared.maxAge = Absent
      <3>1. declared.expires # Absent /\ promised = declared.expires
        BY <1>1, <1>5, <1>6, <2>1, <2>3 DEF Deadline
      <3>2. r + a < declared.expires - v
        BY <1>1, <1>2, <1>3, <1>4, <3>1
      <3> QED
        BY <2>1, <2>3, <3>1, <3>2 DEF Outlasts
    <2> QED
      BY <2>2, <2>3
  <1> QED
    BY <1>1, <1>5, <1>7

LEMMA Typed ==
  ASSUME WindowInv
  PROVE  TypeOK
  <1>1. /\ now \in 0..MaxTime /\ offset \in Offsets /\ {promised, checked} \subseteq Int
    BY DEF WindowInv, ClockInv
  <1>2. object # None => object.storedAt - offset \in 0..now /\ object.hdr.age \in DeltaSeconds
    <2>1. SUFFICES ASSUME object # None
                   PROVE  object.storedAt - offset \in 0..now /\ object.hdr.age \in DeltaSeconds
      OBVIOUS
    <2>2. object.hdr \in Header
      BY <2>1 DEF WindowInv, EntryInv, Object
    <2> QED
      BY <2>1, <2>2, EntryClocks DEF Header
  <1>3. pending # None => pending.at \in 0..now
    BY <1>1, ConstantsTyped DEF WindowInv, WriteInv
  <1> QED
    BY <1>1, <1>2, <1>3 DEF TypeOK

-----------------------------------------------------------------------------
(* The theorems                                                            *)

\* For all lifetimes, ages, offsets and latencies, times, declarations and
\* stored entries stay of their types (Evaluate, Merge, maybeTouch).
THEOREM WindowTyped == Spec => []TypeOK
  <1>1. WindowInv => TypeOK
    BY Typed
  <1> QED
    BY <1>1, WindowHolds, PTL

\* However often revalidations re-arm an entry, the gate of Evaluate never
\* serves it past the instant the origin's declaration runs out, but for the
\* time its write took and S3's clock running ahead.
THEOREM PromiseRespected == Spec => []FreshWithinPromise
  <1>1. WindowInv => FreshWithinPromise
    BY PromiseBound
  <1> QED
    BY <1>1, WindowHolds, PTL

\* ... nor longer than the cap after the origin last gave or confirmed it.
THEOREM CapRespected == Spec => []FreshWithinCap
  <1>1. WindowInv => FreshWithinCap
    BY CapBound
  <1> QED
    BY <1>1, WindowHolds, PTL

\* Merge and maybeTouch give nothing away: an entry is fresh until its
\* declaration runs out or the cap strikes, but for a difference of the clocks.
THEOREM PromiseUsed == Spec => []WholePromise
  <1>1. WindowInv => WholePromise
    BY PromiseKept
  <1> QED
    BY <1>1, WindowHolds, PTL

\* Time alone never makes an entry fresh again (Evaluate as time passes).
THEOREM DecayFinal == Spec => DecayIsFinal
  <1>1. WindowInv /\ [Next]_vars
        => [object # None /\ object' = object /\ ~IsFresh => ~IsFresh']_vars
    <2>0. SUFFICES ASSUME WindowInv, [Next]_vars, object # None, object' = object, ~IsFresh
                   PROVE  ~IsFresh'
      OBVIOUS
    <2>1. now' = now \/ now' = now + 1
      BY <2>0 DEF Next, Changed, Confirmed, Lands, Fails, Tick, vars
    <2> QED
      BY <2>0, <2>1, StaleStays
  <1> QED
    BY <1>1, WindowHolds, PTL DEF Spec, DecayIsFinal

\* A touch that maybeTouch's gate let through and that lands at once under
\* agreeing clocks makes the entry fresh.
THEOREM TouchesPay == Spec => TouchPays
  <1>1. WindowInv /\ [Next]_vars
        => [/\ pending # None /\ pending.touch /\ pending' = None /\ object' # object
            /\ now = pending.at /\ offset = 0
            => IsFresh']_vars
    <2>0. SUFFICES ASSUME WindowInv, [Next]_vars, pending # None, pending.touch,
                          object' # object, now = pending.at, offset = 0
                   PROVE  IsFresh'
      OBVIOUS
    <2>1. Lands
      BY <2>0 DEF Next, Changed, Confirmed, Fails, Tick, vars
    <2>2. /\ Fresh(pending.hdr, pending.at, pending.at, FreshnessCap, {})
          /\ pending.hdr \in Header /\ now \in Nat
      BY <2>0, ConstantsTyped DEF WindowInv, ClockInv, WriteInv, Vouched
    <2>3. object' = [hdr |-> pending.hdr, storedAt |-> now + 0] /\ now' = now
      BY <2>0, <2>1 DEF Lands
    <2>4. now + 0 = now
      BY <2>2
    <2>5. object'.hdr = pending.hdr /\ object'.storedAt = now
      BY <2>3, <2>4
    <2>6. object' # None
      BY <2>2, <2>3, <2>4, EntryAssumption DEF Object
    <2> QED
      BY <2>0, <2>2, <2>3, <2>5, <2>6 DEF IsFresh
  <1> QED
    BY <1>1, WindowHolds, PTL DEF Spec, TouchPays
=============================================================================
