------------------------ MODULE MirrorVariantProofs ------------------------
(***************************************************************************)
(* Clients of a negotiated resource download their own variant, for every  *)
(* fleet, set of Accept values and corpus, from origins whose entity tags  *)
(* tell variants apart and whose earlier responses named Accept in Vary.   *)
(***************************************************************************)
EXTENDS MirrorRedirectProofs

\* Neither an entity tag nor bytes are shared by two variants.
VariantsTold ==
    \A a, b \in Body :
      /\ ETagOf[a] # Absent
      /\ BytesOf[a] = BytesOf[b] \/ ETagOf[a] = ETagOf[b] => a.accept = b.accept

VariesOnAccept(hdr) == hdr.vary # Absent /\ "Accept" \in hdr.vary

\* What is stored under k is what k selects ...
Own(o, k) == o = None \/ o.body.accept = k

\* ... unless it is an older object under the URL-only key, which says that it
\* varies.
OwnOrVaries ==
    \A k \in Variant : Own(store[k], k) \/ (k = NoAccept /\ VariesOnAccept(store[k].hdr))

LateOwn == \A k \in Variant : limbo[k] # None => limbo[k].body.accept = k

\* A flight only ever writes its own variant.
Writes(f, k) ==
    /\ f.pc = "put" => f.body.accept = k
    /\ f.pc \in {"touch", "copying"} => f.entry.body.accept = k

\* Once a key holds its own variant it keeps to it, so where a flight has seen
\* that variant it still is.
Seen(f, o, k) == f.entry # None /\ f.entry.body.accept = k => Own(o, k)

FlightsOwn ==
    \A i \in Instance, k \in Variant :
      Writes(flight[i][k], k) /\ Seen(flight[i][k], store[k], k)

Served(c)  == Redirected(c) /\ client[c].answer.action # "stale"
ClientsOwn == \A c \in Client : Served(c) => Own(store[client[c].key], client[c].key)

VariantInv == OwnOrVaries /\ LateOwn /\ FlightsOwn /\ ClientsOwn

Settled == \A k \in Variant : Own(store[k], k) => Own(store'[k], k)

-----------------------------------------------------------------------------
(* What confirms an entry                                                  *)

\* An entry with the origin's present entity tag is of the variant the origin
\* selected.
LEMMA TagTells ==
    ASSUME VariantsTold, NEW entry \in Entry, NEW b \in Body,
           Labels(entry.body, entry.hdr), entry.hdr.etag = ETagOf[b]
    PROVE  entry.body.accept = b.accept
  <1>1. entry.body \in Body
    BY DEF Entry
  <1>2. PICK c \in Body : BytesOf[c] = BytesOf[entry.body] /\ entry.hdr.etag = ETagOf[c]
    BY DEF Labels
  <1> QED
    BY <1>1, <1>2 DEF VariantsTold

\* An origin that compares entity tags confirms its own variant only.
LEMMA ConfirmedOwn ==
    ASSUME VariantsTold, Negotiates, Revalidator \in {"etag", "none"},
           version \in Version, NEW k \in Variant, NEW entry \in Entry,
           Labels(entry.body, entry.hdr),
           Confirms(Conditions(entry), Selected(k))
    PROVE  entry.body.accept = k
  <1>1. Selected(k) \in Body
    BY SelectedType
  <1>2. entry.hdr.etag # Absent
    BY DEF Labels, VariantsTold
  <1>3. Conditions(entry).ifNoneMatch = entry.hdr.etag
    BY DEF Conditions
  <1>4. Revalidator = "etag"
    BY DEF Confirms
  <1>5. entry.hdr.etag = ETagOf[Selected(k)]
    BY <1>2, <1>3, <1>4 DEF Confirms
  <1>6. Selected(k).accept = k
    BY DEF Selected
  <1> QED
    BY <1>1, <1>5, <1>6, TagTells

\* So does a full response under the stored tag.
LEMMA MatchedOwn ==
    ASSUME VariantsTold, Negotiates, version \in Version, NEW k \in Variant,
           NEW entry \in Entry, NEW d, Labels(entry.body, entry.hdr),
           EtagStrongMatch(entry.hdr.etag, Response(Selected(k), d).etag)
    PROVE  entry.body.accept = k
  <1>1. Selected(k) \in Body
    BY SelectedType
  <1>2. Response(Selected(k), d).etag = ETagOf[Selected(k)]
    BY DEF Response
  <1>3. entry.hdr.etag = ETagOf[Selected(k)]
    BY <1>2 DEF EtagStrongMatch
  <1>4. Selected(k).accept = k
    BY DEF Selected
  <1> QED
    BY <1>1, <1>3, <1>4, TagTells

\* The URL-only key does not cover an object that varies on Accept.
LEMMA VaryingNotFresh ==
    ASSUME NEW entry, NEW resident, VariesOnAccept(entry.hdr)
    PROVE  ~ServesFresh(entry, resident, NoAccept)
  <1>1. KeyHeaders(NoAccept) = {}
    BY DEF KeyHeaders
  <1>2. ~VarySatisfied(entry.hdr.vary, {})
    BY DEF VariesOnAccept, VarySatisfied
  <1>3. Evaluate(entry.hdr, 0, resident, FreshnessCap, {}) # ReasonFresh
    BY <1>2 DEF Evaluate, ReasonFresh, ReasonNoStoredAt, ReasonNoCache, ReasonVaryMismatch
  <1> QED
    BY <1>1, <1>3 DEF ServesFresh, Fresh

-----------------------------------------------------------------------------
(* How a step of a flight changes who is served what                       *)

\* A request is answered by its own key's flight, with that flight's action.
LEMMA ServedAs ==
    ASSUME TypeOK, NEW i \in Instance, NEW k \in Variant,
           NEW action, NEW cause, NEW body, Redirect(i, k, action, cause, body),
           NEW c \in Client, Redirected(c)'
    PROVE  \/ client'[c] = client[c]
           \/ client'[c].key = k /\ client'[c].answer.action = action
  <1>1. CASE Fail(i, k, "presign", 502)
    BY <1>1, FailRedirectsNobody
  <1> DEFINE answer == [action |-> action, cause |-> cause, status |-> 303,
                        body   |-> body, cached |-> flight[i][k].entry # None,
                        floor  |-> flight[i][k].floor]
  <1>2. CASE Finish(i, k, answer)
    <2>1. answer.action = action
      OBVIOUS
    <2> HIDE DEF answer
    <2>2. client'[c] = IF Waiting(c) /\ client[c].at = i /\ client[c].key = k
                       THEN [client[c] EXCEPT !.answer = answer]
                       ELSE client[c]
      BY <1>2 DEF Finish
    <2>3. CASE Waiting(c) /\ client[c].at = i /\ client[c].key = k
      <3>1. client[c] \in Request /\ client'[c] = [client[c] EXCEPT !.answer = answer]
        BY <2>2, <2>3 DEF Waiting, TypeOK
      <3>2. client'[c].answer = answer /\ client'[c].key = k
        BY <2>3, <3>1 DEF Request
      <3> QED
        BY <2>1, <3>2
    <2> QED
      BY <2>2, <2>3
  <1> QED
    BY <1>1, <1>2 DEF Redirect

\* A served client is served the key it asked for.
LEMMA ServedKey ==
    ASSUME TypeOK, NEW c \in Client, Served(c)
    PROVE  client[c].key \in Variant
  BY DEF TypeOK, Served, Redirected, Answered, Request

\* Where nobody is newly served, settled keys keep everybody right.
LEMMA ClientsStay ==
    ASSUME TypeOK, ClientsOwn, Settled,
           \A c \in Client : Redirected(c)' => client'[c] = client[c]
    PROVE  ClientsOwn'
  <1>1. SUFFICES ASSUME NEW c \in Client, Served(c)'
                 PROVE  Own(store'[client'[c].key], client'[c].key)
    BY DEF ClientsOwn
  <1>2. client'[c] = client[c] /\ Served(c)
    BY <1>1 DEF Served, Redirected, Answered
  <1>3. Own(store[client[c].key], client[c].key) /\ client[c].key \in Variant
    BY <1>1, <1>2, ServedKey DEF ClientsOwn
  <1> QED
    BY <1>2, <1>3 DEF Settled

\* Where no flight learns an entry or a write, likewise.
LEMMA FlightsStay ==
    ASSUME TypeOK, FlightsOwn, Settled,
           \A i \in Instance, k \in Variant :
             flight'[i][k] = flight[i][k] \/ flight'[i][k] = Idle
    PROVE  FlightsOwn'
  <1>1. SUFFICES ASSUME NEW i \in Instance, NEW k \in Variant
                 PROVE  Writes(flight'[i][k], k) /\ Seen(flight'[i][k], store'[k], k)
    BY DEF FlightsOwn, Writes
  <1>2. /\ Writes(flight[i][k], k) /\ Seen(flight[i][k], store[k], k)
        /\ (Own(store[k], k) => Own(store'[k], k))
    BY <1>1 DEF FlightsOwn, Settled
  <1>3. CASE flight'[i][k] = flight[i][k]
    BY <1>2, <1>3 DEF Seen
  <1>4. CASE flight'[i][k] = Idle
    BY <1>4 DEF Idle, Seen, Writes
  <1> QED
    BY <1>1, <1>3, <1>4

\* A step of a flight to (i, k) keeps clients and flights right if keys stay
\* settled and it serves, reads and will write what is the key's own.
LEMMA VariantStep ==
    ASSUME TypeOK, VariantInv, NEW i \in Instance, NEW k \in Variant, Settled,
           \/ \E cause, status : Fail(i, k, cause, status)
           \/ \E action, cause, body : /\ Redirect(i, k, action, cause, body)
                                       /\ action = "stale" \/ Own(store'[k], k)
           \/ \E pc, entry, hdr, body :
                /\ Continue(i, k, pc, entry, hdr, body)
                /\ pc = "put" => body.accept = k
                /\ pc \in {"touch", "copying"} => entry.body.accept = k
                /\ entry # None /\ entry.body.accept = k => Own(store'[k], k)
    PROVE  FlightsOwn' /\ ClientsOwn'
  <1>0. FlightsOwn /\ ClientsOwn
    BY DEF VariantInv
  <1>1. CASE \E cause, status : Fail(i, k, cause, status)
    <2>1. \A c \in Client : Redirected(c)' => client'[c] = client[c]
      BY <1>1, FailRedirectsNobody
    <2>2. \A j \in Instance, l \in Variant : flight'[j][l] = flight[j][l] \/ flight'[j][l] = Idle
      BY <1>1, FlightEnds
    <2> QED
      BY <1>0, <2>1, <2>2, ClientsStay, FlightsStay
  <1>2. CASE \E action, cause, body : /\ Redirect(i, k, action, cause, body)
                                      /\ action = "stale" \/ Own(store'[k], k)
    <2>1. \A j \in Instance, l \in Variant : flight'[j][l] = flight[j][l] \/ flight'[j][l] = Idle
      BY <1>2, FlightEnds
    <2>2. PICK action, cause, body : /\ Redirect(i, k, action, cause, body)
                                     /\ action = "stale" \/ Own(store'[k], k)
      BY <1>2
    <2>3. ASSUME NEW c \in Client, Served(c)'
          PROVE  Own(store'[client'[c].key], client'[c].key)
      <3>1. CASE client'[c] = client[c]
        <4>1. Served(c)
          BY <2>3, <3>1 DEF Served, Redirected, Answered
        <4>2. Own(store[client[c].key], client[c].key) /\ client[c].key \in Variant
          BY <1>0, <4>1, ServedKey DEF ClientsOwn
        <4> QED
          BY <3>1, <4>2 DEF Settled
      <3>2. CASE client'[c].key = k /\ client'[c].answer.action = action
        BY <2>2, <2>3, <3>2 DEF Served
      <3>3. Redirected(c)'
        BY <2>3 DEF Served
      <3> QED
        BY <2>2, <3>1, <3>2, <3>3, ServedAs
    <2>4. ClientsOwn'
      BY <2>3 DEF ClientsOwn
    <2> QED
      BY <1>0, <2>1, <2>4, FlightsStay
  <1>3. CASE \E pc, entry, hdr, body :
                /\ Continue(i, k, pc, entry, hdr, body)
                /\ pc = "put" => body.accept = k
                /\ pc \in {"touch", "copying"} => entry.body.accept = k
                /\ entry # None /\ entry.body.accept = k => Own(store'[k], k)
    <2>1. PICK pc, entry, hdr, body :
                /\ Continue(i, k, pc, entry, hdr, body)
                /\ pc = "put" => body.accept = k
                /\ pc \in {"touch", "copying"} => entry.body.accept = k
                /\ entry # None /\ entry.body.accept = k => Own(store'[k], k)
      BY <1>3
    <2>2. ClientsOwn'
      BY <1>0, <2>1, ClientsStay DEF Continue
    <2> DEFINE next == [pc |-> pc, entry |-> entry, hdr |-> hdr, body |-> body,
                        floor |-> flight[i][k].floor]
    <2>3. \A j \in Instance, l \in Variant :
            flight'[j][l] = IF j = i /\ l = k THEN next ELSE flight[j][l]
      BY <2>1, FlightContinues
    <2>4. /\ next.pc = "put" => next.body.accept = k
          /\ next.pc \in {"touch", "copying"} => next.entry.body.accept = k
          /\ next.entry # None /\ next.entry.body.accept = k => Own(store'[k], k)
      BY <2>1
    <2> HIDE DEF next
    <2>5. \A j \in Instance, l \in Variant :
            Writes(flight'[j][l], l) /\ Seen(flight'[j][l], store'[l], l)
      <3>1. SUFFICES ASSUME NEW j \in Instance, NEW l \in Variant
                     PROVE  Writes(flight'[j][l], l) /\ Seen(flight'[j][l], store'[l], l)
        OBVIOUS
      <3>2. CASE j = i /\ l = k
        BY <2>3, <2>4, <3>2 DEF Writes, Seen
      <3>3. CASE ~(j = i /\ l = k)
        <4>1. flight'[j][l] = flight[j][l]
          BY <2>3, <3>3
        <4>2. /\ Writes(flight[j][l], l) /\ Seen(flight[j][l], store[l], l)
              /\ (Own(store[l], l) => Own(store'[l], l))
          BY <1>0 DEF FlightsOwn, Settled
        <4> QED
          BY <4>1, <4>2 DEF Seen
      <3> QED
        BY <3>2, <3>3
    <2> QED
      BY <2>2, <2>5 DEF FlightsOwn, Writes
  <1> QED
    BY <1>1, <1>2, <1>3

-----------------------------------------------------------------------------
(* Every step keeps the invariant                                          *)

\* Whoever writes the key's own variant settles it.
LEMMA OwnWrite ==
    ASSUME TypeOK, VariantInv, NEW k \in Variant, NEW o, o.body.accept = k,
           store' = [store EXCEPT ![k] = o]
    PROVE  Settled /\ OwnOrVaries' /\ Own(store'[k], k)
  <1>1. \A l \in Variant : store'[l] = IF l = k THEN o ELSE store[l]
    BY DEF TypeOK
  <1>2. Own(o, k)
    BY DEF Own
  <1> QED
    BY <1>1, <1>2 DEF Settled, OwnOrVaries, VariantInv

LEMMA StoreStays ==
    ASSUME VariantInv, UNCHANGED store
    PROVE  Settled /\ OwnOrVaries'
  BY DEF VariantInv, OwnOrVaries, Settled

\* What a flight writes is its key's own.
LEMMA WrittenOwn ==
    ASSUME TypeOK, VariantInv, VariantsTold, NEW i \in Instance, NEW k \in Variant
    PROVE  LET f == flight[i][k]
           IN  /\ f.pc = "put" => NewObject(f.body, f.hdr).body.accept = k
               /\ f.pc \in {"touch", "copying"} =>
                    /\ f.entry # None /\ f.entry.body.accept = k
                    /\ NewObject(f.entry.body, f.hdr).body.accept = k
                    /\ CopyMatches(i, k) => NewObject(store[k].body, f.hdr).body.accept = k
                    /\ Own(store[k], k)
  <1> DEFINE f == flight[i][k]
  <1>1. Writes(f, k) /\ Seen(f, store[k], k) /\ Equipped(f)
    BY DEF TypeOK, VariantInv, FlightsOwn
  <1>2. \A b, h : NewObject(b, h).body = b
    BY DEF NewObject
  <1>3. f.entry \in Entry => f.entry # None /\ f.entry.body \in Body
    BY ConstantsAssumption DEF Entry
  <1>4. store[k] # None => store[k].body \in Body
    BY DEF TypeOK, Object
  <1> HIDE DEF f
  <1>5. f.pc \in {"touch", "copying"} =>
          /\ f.entry # None /\ f.entry.body.accept = k /\ f.entry.body \in Body
          /\ Own(store[k], k)
    BY <1>1, <1>3 DEF Writes, Equipped, Seen
  <1>6. f.pc \in {"touch", "copying"} /\ CopyMatches(i, k) => store[k].body.accept = k
    BY <1>4, <1>5 DEF CopyMatches, VariantsTold, f
  <1>7. f.pc = "put" => f.body.accept = k
    BY <1>1 DEF Writes
  <1> QED
    BY <1>2, <1>5, <1>6, <1>7 DEF f

LEMMA VariantProgress ==
    ASSUME TypeOK, LabelInv, VariantInv, VariantsTold, Negotiates,
           Revalidator \in {"etag", "none"}, NEW i \in Instance, NEW k \in Variant,
           Progress(i, k) \/ PutUnacknowledged(i, k)
    PROVE  VariantInv'
  <1> DEFINE f == flight[i][k]
  <1>1. /\ LateOwn /\ OwnOrVaries /\ FlightsOwn /\ ClientsOwn
        /\ f.entry # None => f.entry \in Entry /\ Labels(f.entry.body, f.entry.hdr)
        /\ version \in Version /\ Seen(f, store[k], k)
    BY DEF VariantInv, TypeOK, Flight, LabelInv, FlightsLabelled, Labelled, FlightsOwn
  <1>2. UNCHANGED limbo => LateOwn'
    BY <1>1 DEF LateOwn
  <1>calm. ASSUME UNCHANGED <<store, limbo>>,
                  \/ \E cause, status : Fail(i, k, cause, status)
                  \/ \E action, cause, body : /\ Redirect(i, k, action, cause, body)
                                              /\ action = "stale" \/ Own(store[k], k)
                  \/ \E pc, entry, hdr, body :
                       /\ Continue(i, k, pc, entry, hdr, body)
                       /\ pc = "put" => body.accept = k
                       /\ pc \in {"touch", "copying"} => entry.body.accept = k
                       /\ entry # None /\ entry.body.accept = k => Own(store[k], k)
           PROVE  VariantInv'
    <2>1. Settled /\ OwnOrVaries' /\ LateOwn' /\ store' = store
      BY <1>2, <1>calm, StoreStays
    <2>2. FlightsOwn' /\ ClientsOwn'
      BY <1>calm, <2>1, VariantStep
    <2> QED
      BY <2>1, <2>2 DEF VariantInv
  <1>puts. ASSUME NEW o, o.body.accept = k, store' = [store EXCEPT ![k] = o],
                  UNCHANGED limbo,
                  \E action, cause, body : Redirect(i, k, action, cause, body)
           PROVE  VariantInv'
    <2>1. Settled /\ OwnOrVaries' /\ Own(store'[k], k)
      BY <1>puts, OwnWrite
    <2>2. FlightsOwn' /\ ClientsOwn'
      BY <1>puts, <2>1, VariantStep
    <2> QED
      BY <1>2, <1>puts, <2>1, <2>2 DEF VariantInv
  <1>rev. ASSUME NEW hdr, f.entry # None, f.entry.body.accept = k, Revalidated(i, k, hdr),
                 UNCHANGED <<store, limbo>>
          PROVE  VariantInv'
    <2>1. Own(store[k], k)
      BY <1>1, <1>rev DEF Seen
    <2>2. CASE Redirect(i, k, "revalidated", "none", f.entry.body)
      BY <1>calm, <1>rev, <2>1, <2>2
    <2>3. CASE Continue(i, k, "touch", f.entry, Merge(f.entry.hdr, hdr), None)
      <3> DEFINE merged == Merge(f.entry.hdr, hdr)
      <3> HIDE DEF merged
      <3>1. Continue(i, k, "touch", f.entry, merged, None)
        BY <2>3 DEF merged
      <3> QED
        BY <1>calm, <1>rev, <2>1, <3>1
    <2> QED
      BY <1>rev, <2>2, <2>3 DEF Revalidated
  <1>3. CASE ServeFresh(i, k)
    <2>1. Own(store[k], k)
      <3> DEFINE entry == [body |-> store[k].body, hdr |-> store[k].hdr]
      <3>1. ServesFresh(entry, store[k].resident, k) /\ entry.hdr = store[k].hdr
        BY <1>3 DEF ServeFresh
      <3> HIDE DEF entry
      <3>2. ~(k = NoAccept /\ VariesOnAccept(store[k].hdr))
        BY <3>1, VaryingNotFresh
      <3> QED
        BY <1>1, <3>2 DEF OwnOrVaries
    <2> QED
      BY <1>3, <1>calm, <2>1 DEF ServeFresh
  <1>4. CASE StartFetch(i, k)
    <2>1. ASSUME Continue(i, k, "fetch", None, None, None)
          PROVE  VariantInv'
      BY <1>4, <1>calm, <2>1 DEF StartFetch
    <2>2. ASSUME store[k] # None,
                 Continue(i, k, "fetch", [body |-> store[k].body, hdr |-> store[k].hdr], None, None)
          PROVE  VariantInv'
      <3> DEFINE entry == [body |-> store[k].body, hdr |-> store[k].hdr]
      <3>1. Continue(i, k, "fetch", entry, None, None) /\ entry.body = store[k].body
        BY <2>2
      <3> HIDE DEF entry
      <3>2. entry # None /\ entry.body.accept = k => Own(store[k], k)
        BY <3>1 DEF Own
      <3> QED
        BY <1>4, <1>calm, <3>1, <3>2 DEF StartFetch
    <2> QED
      BY <1>4, <2>1, <2>2 DEF StartFetch
  <1>5. CASE FetchFails(i, k)
    BY <1>5, <1>calm DEF FetchFails
  <1>6. CASE UpstreamStatus(i, k)
    BY <1>6, <1>calm DEF UpstreamStatus
  <1>7. CASE NotModified(i, k)
    <2>1. /\ f.entry # None /\ Confirms(Conditions(f.entry), Selected(k))
          /\ UNCHANGED <<store, limbo>>
          /\ \E hdr : Revalidated(i, k, hdr)
      BY <1>7 DEF NotModified
    <2>2. f.entry.body.accept = k
      BY <1>1, <2>1, ConfirmedOwn
    <2> QED
      BY <1>rev, <2>1, <2>2
  <1>8. CASE FullResponse(i, k)
    <2>1. PICK d \in Declaration :
            \/ /\ f.entry # None
               /\ EtagStrongMatch(f.entry.hdr.etag, Response(Selected(k), d).etag)
               /\ Revalidated(i, k, Response(Selected(k), d))
            \/ Continue(i, k, "put", f.entry, Response(Selected(k), d), Selected(k))
      BY <1>8 DEF FullResponse
    <2>2. UNCHANGED <<store, limbo>>
      BY <1>8 DEF FullResponse
    <2> DEFINE hdr == Response(Selected(k), d)
    <2>3. CASE /\ f.entry # None
               /\ EtagStrongMatch(f.entry.hdr.etag, hdr.etag)
               /\ Revalidated(i, k, hdr)
      <3>1. f.entry.body.accept = k
        BY <1>1, <2>3, MatchedOwn
      <3> HIDE DEF hdr
      <3> QED
        BY <1>rev, <2>2, <2>3, <3>1
    <2>4. CASE Continue(i, k, "put", f.entry, hdr, Selected(k))
      <3>1. Selected(k).accept = k
        BY DEF Selected
      <3>2. f.entry # None /\ f.entry.body.accept = k => Own(store[k], k)
        BY <1>1 DEF Seen
      <3> DEFINE body == Selected(k)
      <3> HIDE DEF hdr, body
      <3>3. Continue(i, k, "put", f.entry, hdr, body) /\ body.accept = k
        BY <2>4, <3>1 DEF body
      <3> QED
        BY <1>calm, <2>2, <3>2, <3>3
    <2> QED
      BY <2>1, <2>3, <2>4
  <1>9. CASE PutLands(i, k)
    <2>1. NewObject(f.body, f.hdr).body.accept = k
      BY <1>9, WrittenOwn DEF PutLands
    <2>2. /\ store' = [store EXCEPT ![k] = NewObject(f.body, f.hdr)] /\ UNCHANGED limbo
          /\ \E action, cause, body : Redirect(i, k, action, cause, body)
      BY <1>9 DEF PutLands
    <2> QED
      BY <1>puts, <2>1, <2>2
  <1>10. CASE PutUnacknowledged(i, k)
    <2>1. NewObject(f.body, f.hdr).body.accept = k
      BY <1>10, WrittenOwn DEF PutUnacknowledged
    <2>2. /\ store' = [store EXCEPT ![k] = NewObject(f.body, f.hdr)]
          /\ UNCHANGED <<limbo, flight, client>>
      BY <1>10 DEF PutUnacknowledged
    <2>3. Settled /\ OwnOrVaries'
      BY <2>1, <2>2, OwnWrite
    <2>4. FlightsOwn' /\ ClientsOwn'
      BY <1>1, <2>2, <2>3, FlightsStay, ClientsStay
    <2> QED
      BY <1>2, <2>2, <2>3, <2>4 DEF VariantInv
  <1>11. CASE PutFails(i, k)
    <2>1. NewObject(f.body, f.hdr).body.accept = k
      BY <1>11, WrittenOwn DEF PutFails
    <2>2. /\ UNCHANGED store /\ \E cause, status : Fail(i, k, cause, status)
          /\ limbo' = limbo \/ limbo' = [limbo EXCEPT ![k] = NewObject(f.body, f.hdr)]
      BY <1>11 DEF PutFails
    <2> DEFINE o == NewObject(f.body, f.hdr)
    <2> HIDE DEF o
    <2>3. \A l \in Variant : limbo'[l] = limbo[l] \/ (l = k /\ limbo'[l] = o)
      BY <2>2 DEF TypeOK, o
    <2>4. LateOwn'
      BY <1>1, <2>1, <2>3 DEF LateOwn, o
    <2>5. Settled /\ OwnOrVaries'
      BY <2>2, StoreStays
    <2>6. FlightsOwn' /\ ClientsOwn'
      BY <2>2, <2>5, VariantStep
    <2> QED
      BY <2>4, <2>5, <2>6 DEF VariantInv
  <1>12. CASE BodyBreaks(i, k)
    BY <1>12, <1>calm DEF BodyBreaks
  <1>13. CASE TouchLands(i, k)
    <2>1. NewObject(store[k].body, f.hdr).body.accept = k
      BY <1>13, WrittenOwn DEF TouchLands
    <2>2. /\ store' = [store EXCEPT ![k] = NewObject(store[k].body, f.hdr)] /\ UNCHANGED limbo
          /\ \E action, cause, body : Redirect(i, k, action, cause, body)
      BY <1>13 DEF TouchLands
    <2> QED
      BY <1>puts, <2>1, <2>2
  <1>14. CASE TouchFails(i, k)
    <2>1. Own(store[k], k)
      BY <1>14, WrittenOwn DEF TouchFails
    <2> QED
      BY <1>14, <1>calm, <2>1 DEF TouchFails
  <1>15. CASE CopyStarts(i, k)
    <2>1. f.entry.body.accept = k /\ Own(store[k], k)
      BY <1>15, WrittenOwn DEF CopyStarts
    <2>2. Continue(i, k, "copying", f.entry, f.hdr, None) /\ UNCHANGED <<store, limbo>>
      BY <1>15 DEF CopyStarts
    <2> QED
      BY <1>calm, <2>1, <2>2
  <1>16. CASE CopyLands(i, k)
    <2>1. NewObject(f.entry.body, f.hdr).body.accept = k
      BY <1>16, WrittenOwn DEF CopyLands
    <2>2. /\ store' = [store EXCEPT ![k] = NewObject(f.entry.body, f.hdr)] /\ UNCHANGED limbo
          /\ \E action, cause, body : Redirect(i, k, action, cause, body)
      BY <1>16 DEF CopyLands
    <2> QED
      BY <1>puts, <2>1, <2>2
  <1> QED
    BY <1>3, <1>4, <1>5, <1>6, <1>7, <1>8, <1>9, <1>10, <1>11, <1>12, <1>13, <1>14,
       <1>15, <1>16 DEF Progress

\* A step that serves nobody and moves no flight on keeps the invariant if
\* keys stay settled.
LEMMA VariantStays ==
    ASSUME TypeOK, VariantInv, Settled, OwnOrVaries', LateOwn',
           \A c \in Client : Redirected(c)' => client'[c] = client[c],
           \A i \in Instance, k \in Variant :
             flight'[i][k] = flight[i][k] \/ flight'[i][k] = Idle
    PROVE  VariantInv'
  <1>1. FlightsOwn /\ ClientsOwn
    BY DEF VariantInv
  <1>2. FlightsOwn' /\ ClientsOwn'
    BY <1>1, FlightsStay, ClientsStay
  <1> QED
    BY <1>2 DEF VariantInv

LEMMA VariantEnvironment ==
    ASSUME TypeOK, VariantInv
    PROVE  /\ \A c \in Client : Refuse(c) \/ Leave(c) => VariantInv'
           /\ \A c \in Client, i \in Instance, k \in Variant : Arrive(c, i, k) => VariantInv'
           /\ \A i \in Instance : Crash(i) => VariantInv'
           /\ \A k \in Variant : LateWriteLands(k) \/ Delete(k) => VariantInv'
           /\ Publish \/ Tick => VariantInv'
  <1>1. LateOwn /\ OwnOrVaries /\ FlightsOwn /\ ClientsOwn
    BY DEF VariantInv
  <1>2. UNCHANGED limbo => LateOwn'
    BY <1>1 DEF LateOwn
  <1>3. ASSUME NEW c \in Client, Refuse(c)
        PROVE  VariantInv'
    <2>1. PICK i \in Instance, k \in Variant, s \in {200, 400, 405} :
            client' = [client EXCEPT ![c] =
                         [at |-> i, key |-> k,
                          answer |-> [action |-> "refused", cause |-> "none", status |-> s,
                                      body |-> None, cached |-> FALSE, floor |-> 0]]]
      BY <1>3 DEF Refuse
    <2>2. client'[c].answer.action = "refused" /\ \A d \in Client \ {c} : client'[d] = client[d]
      BY <2>1 DEF TypeOK
    <2>3. \A d \in Client : Redirected(d)' => client'[d] = client[d]
      BY <2>2 DEF Redirected, Redirects
    <2> QED
      BY <1>2, <1>3, <2>3, StoreStays, VariantStays DEF Refuse
  <1>4. ASSUME NEW c \in Client, Leave(c)
        PROVE  VariantInv'
    <2>1. \A d \in Client : Redirected(d)' => client'[d] = client[d]
      BY <1>4 DEF Leave, TypeOK, Redirected, Answered
    <2> QED
      BY <1>2, <1>4, <2>1, StoreStays, VariantStays DEF Leave
  <1>5. ASSUME NEW c \in Client, NEW i \in Instance, NEW k \in Variant, Arrive(c, i, k)
        PROVE  VariantInv'
    <2>1. client' = [client EXCEPT ![c] = [at |-> i, key |-> k, answer |-> None]]
      BY <1>5 DEF Arrive
    <2>2. \A d \in Client : Redirected(d)' => client'[d] = client[d]
      BY <2>1 DEF TypeOK, Redirected, Answered
    <2>3. Settled /\ OwnOrVaries' /\ UNCHANGED <<store, limbo>>
      BY <1>5, StoreStays DEF Arrive
    <2>4. ClientsOwn'
      BY <1>1, <2>2, <2>3, ClientsStay
    <2> DEFINE led == [Idle EXCEPT !.pc = "head", !.floor = version]
    <2>5. led.entry = None /\ led.pc = "head"
      BY DEF Idle
    <2>6. flight' = flight \/ flight' = [flight EXCEPT ![i][k] = led]
      BY <1>5 DEF Arrive
    <2> HIDE DEF led
    <2>7. \A j \in Instance, l \in Variant : flight'[j][l] \in {flight[j][l], led}
      BY <2>6 DEF TypeOK
    <2>8. FlightsOwn'
      BY <1>1, <2>3, <2>5, <2>7 DEF FlightsOwn, Writes, Seen
    <2> QED
      BY <1>2, <2>3, <2>4, <2>8 DEF VariantInv
  <1>6. ASSUME NEW i \in Instance, Crash(i)
        PROVE  VariantInv'
    <2>1. \A j \in Instance, l \in Variant : flight'[j][l] = flight[j][l] \/ flight'[j][l] = Idle
      BY <1>6 DEF Crash, TypeOK
    <2>2. \A d \in Client : Redirected(d)' => client'[d] = client[d]
      BY <1>6 DEF Crash, Redirected, Answered
    <2>3. \A l \in Variant : flight[i][l].pc = "put"
            => NewObject(flight[i][l].body, flight[i][l].hdr).body.accept = l
      BY <1>1 DEF FlightsOwn, Writes, NewObject
    <2>4. LateOwn'
      <3>1. CASE UNCHANGED limbo
        BY <1>2, <3>1
      <3>2. CASE \E k \in Variant :
                   /\ flight[i][k].pc = "put"
                   /\ limbo' = [limbo EXCEPT ![k] = NewObject(flight[i][k].body, flight[i][k].hdr)]
        <4>1. PICK k \in Variant :
                /\ flight[i][k].pc = "put"
                /\ limbo' = [limbo EXCEPT ![k] = NewObject(flight[i][k].body, flight[i][k].hdr)]
          BY <3>2
        <4> DEFINE o == NewObject(flight[i][k].body, flight[i][k].hdr)
        <4>2. o.body.accept = k
          BY <2>3, <4>1
        <4> HIDE DEF o
        <4>3. \A l \in Variant : limbo'[l] = IF l = k THEN o ELSE limbo[l]
          BY <4>1 DEF TypeOK, o
        <4> QED
          BY <1>1, <4>2, <4>3 DEF LateOwn
      <3> QED
        BY <1>6, <3>1, <3>2 DEF Crash
    <2> QED
      BY <1>6, <2>1, <2>2, <2>4, StoreStays, VariantStays DEF Crash
  <1>7. ASSUME NEW k \in Variant, LateWriteLands(k)
        PROVE  VariantInv'
    <2>1. /\ limbo[k] # None /\ store' = [store EXCEPT ![k] = limbo[k]]
          /\ limbo' = [limbo EXCEPT ![k] = None] /\ UNCHANGED <<flight, client>>
      BY <1>7 DEF LateWriteLands
    <2>2. Settled /\ OwnOrVaries'
      BY <1>1, <2>1, OwnWrite DEF LateOwn
    <2>3. LateOwn'
      BY <1>1, <2>1 DEF LateOwn, TypeOK
    <2> QED
      BY <2>1, <2>2, <2>3, VariantStays
  <1>8. ASSUME NEW k \in Variant, Delete(k)
        PROVE  VariantInv'
    <2>1. \A l \in Variant : store'[l] = IF l = k THEN None ELSE store[l]
      BY <1>8 DEF Delete, TypeOK
    <2>2. Settled /\ OwnOrVaries'
      BY <1>1, <2>1 DEF Settled, OwnOrVaries, Own
    <2> QED
      BY <1>2, <1>8, <2>2, VariantStays DEF Delete
  <1>9. ASSUME Publish
        PROVE  VariantInv'
    BY <1>2, <1>9, StoreStays, VariantStays DEF Publish
  <1>10. ASSUME Tick
         PROVE  VariantInv'
    <2>1. \A k \in Variant :
            \/ store'[k] = store[k]
            \/ /\ store[k] # None
               /\ store'[k].body = store[k].body /\ store'[k].hdr = store[k].hdr
      BY <1>10 DEF Tick, TypeOK, Object
    <2>2. Settled /\ OwnOrVaries'
      BY <1>1, <2>1 DEF Settled, OwnOrVaries, Own
    <2> QED
      BY <1>2, <1>10, <2>2, VariantStays DEF Tick
  <1> QED
    BY <1>3, <1>4, <1>5, <1>6, <1>7, <1>8, <1>9, <1>10

\* If the origin's tags tell variants apart and earlier responses named Accept
\* in Vary, no interleaving of puts, touches, crashes and late writes has a
\* client of a negotiated resource download another client's variant
\* (acceptVariantKeyFunc, varySatisfied, fetchAndCache, maybeTouch).
THEOREM VariantsIsolated ==
    ASSUME Negotiates, Revalidator \in {"etag", "none"}, VariantsTold,
           \A o \in Corpus : VariesOnAccept(o.hdr)
    PROVE  Spec => []VariantIsolation
  <1>1. Init => VariantInv
    <2> SUFFICES ASSUME Init PROVE VariantInv
      OBVIOUS
    <2>1. OwnOrVaries
      BY DEF Init, OwnOrVaries, Own
    <2>2. LateOwn /\ FlightsOwn
      BY DEF Init, LateOwn, FlightsOwn, Idle, Writes, Seen
    <2>3. ClientsOwn
      BY DEF Init, ClientsOwn, Served, Redirected, Answered
    <2> QED
      BY <2>1, <2>2, <2>3 DEF VariantInv
  <1>2. TypeOK /\ LabelInv /\ VariantInv /\ [Next]_vars => VariantInv'
    <2> SUFFICES ASSUME TypeOK, LabelInv, VariantInv, [Next]_vars PROVE VariantInv'
      OBVIOUS
    <2>1. CASE \E i \in Instance, k \in Variant : Progress(i, k) \/ PutUnacknowledged(i, k)
      BY <2>1, VariantProgress
    <2>2. CASE UNCHANGED vars
      <3>1. LateOwn'
        BY <2>2 DEF vars, VariantInv, LateOwn
      <3> QED
        BY <2>2, <3>1, StoreStays, VariantStays DEF vars
    <2> QED
      BY <2>1, <2>2, VariantEnvironment DEF Next
  <1>3. VariantInv => VariantIsolation
    BY DEF VariantInv, ClientsOwn, Served, Own, VariantIsolation
  <1> QED
    BY TypeCorrect, LabelInvHolds, <1>1, <1>2, <1>3, PTL DEF Spec
=============================================================================
