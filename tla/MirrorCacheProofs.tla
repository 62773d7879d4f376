------------------------- MODULE MirrorCacheProofs -------------------------
(***************************************************************************)
(* Theorems about MirrorCache for every fleet, every set of clients and    *)
(* keys, every origin and every fault: its types, and what the bucket and  *)
(* the redirects can be relied upon for.                                   *)
(***************************************************************************)
EXTENDS MirrorCache, TLAPS

\* TypeOK in two halves: what a mirror instance keeps, and what is outside.
FlightsTyped ==
    /\ flight \in [Instance -> [Variant -> Flight]]
    /\ client \in [Client -> Request \cup {None}]
    /\ \A i \in Instance, k \in Variant : Equipped(flight[i][k])

BucketTyped ==
    /\ version \in Version
    /\ store \in [Variant -> Object \cup {None}]
    /\ limbo \in [Variant -> Object \cup {None}]

-----------------------------------------------------------------------------
(* The values the actions build have their types                           *)

\* What the origin sends for a representation of its is a header set
\* (Response, Confirmation).
LEMMA ResponseType ==
    ASSUME NEW b \in Body, NEW d \in Declaration
    PROVE  Response(b, d) \in Header
  <1>1. /\ ETagOf[b] \in ETag \cup {Absent}
        /\ LastModifiedOf[b] \in HTTPDate
        /\ ContentTypeOf[b] \in ContentType
    BY ConstantsAssumption DEF HTTPDate
  <1>2. d.cacheControl \in CacheControl \cup {Absent} /\ d.age \in DeltaSeconds
    BY ConstantsAssumption
  <1>3. (IF Negotiates THEN {"Accept"} ELSE Absent) \in (SUBSET FieldName) \cup {Absent}
    BY DEF FieldName
  <1>4. Absent \in HTTPDate
    BY DEF HTTPDate
  <1> QED
    BY <1>1, <1>2, <1>3, <1>4 DEF Response, Header

LEMMA ConfirmationType ==
    ASSUME NEW b \in Body, NEW hdr \in Confirmation(b)
    PROVE  hdr \in Header
  <1>1. PICK d \in Declaration :
          hdr \in {Response(b, d), [Response(b, d) EXCEPT !.etag = Absent]}
    BY DEF Confirmation
  <1>2. Response(b, d) \in Header
    BY ResponseType
  <1> QED
    BY <1>1, <1>2 DEF Header

\* A merge of header sets is a header set (Merge).
LEMMA MergeType ==
    ASSUME NEW stored \in Header, NEW validating \in Header
    PROVE  Merge(stored, validating) \in Header
  BY DEF Merge, Header

LEMMA NewObjectType ==
    ASSUME NEW body \in Body, NEW hdr \in Header
    PROVE  NewObject(body, hdr) \in Object
  BY ConstantsAssumption DEF NewObject, Object, Header

\* The origin's representation for a key is one of its bodies.
LEMMA SelectedType ==
    ASSUME version \in Version, NEW k \in Variant
    PROVE  Selected(k) \in Body
  BY DEF Selected, Body, Variant

-----------------------------------------------------------------------------
(* A flight's end and its next step keep the types                         *)

\* The end of a flight leaves the table of flights and the clients well typed
\* (Finish).
LEMMA FinishType ==
    ASSUME TypeOK, NEW i \in Instance, NEW k \in Variant,
           NEW answer \in Answer, Finish(i, k, answer)
    PROVE  FlightsTyped'
  <1>1. Idle \in Flight /\ Equipped(Idle)
    BY ConstantsAssumption DEF Idle, Flight, Equipped
  <1>2. flight' = [flight EXCEPT ![i][k] = Idle]
    BY DEF Finish
  <1>3. \A c \in Client : client'[c] \in Request \cup {None}
    <2> SUFFICES ASSUME NEW c \in Client PROVE client'[c] \in Request \cup {None}
      OBVIOUS
    <2>1. client[c] \in Request \cup {None}
      BY DEF TypeOK
    <2>2. CASE Waiting(c) /\ client[c].at = i /\ client[c].key = k
      <3>1. client'[c] = [client[c] EXCEPT !.answer = answer] /\ client[c] \in Request
        BY <2>1, <2>2 DEF Finish, Waiting
      <3> QED
        BY <3>1 DEF Request
    <2>3. CASE ~(Waiting(c) /\ client[c].at = i /\ client[c].key = k)
      BY <2>1, <2>3 DEF Finish
    <2> QED
      BY <2>2, <2>3
  <1>4. DOMAIN client' = Client /\ client' = [c \in Client |-> client'[c]]
    BY DEF Finish
  <1> QED
    BY <1>1, <1>2, <1>3, <1>4 DEF TypeOK, FlightsTyped

LEMMA FailType ==
    ASSUME TypeOK, NEW i \in Instance, NEW k \in Variant,
           NEW cause \in {"none", "status", "cache", "body", "presign"} \cup FetchErrors,
           NEW status \in Nat, Fail(i, k, cause, status)
    PROVE  FlightsTyped'
  <1> DEFINE answer == [action |-> "error", cause |-> cause, status |-> status,
                        body   |-> None, cached |-> flight[i][k].entry # None,
                        floor  |-> flight[i][k].floor]
  <1>1. flight[i][k].floor \in 0..MaxVersion
    BY DEF TypeOK, Flight
  <1>2. answer \in Answer
    BY <1>1 DEF Answer
  <1>3. Finish(i, k, answer)
    BY DEF Fail
  <1> QED
    BY <1>2, <1>3, FinishType

LEMMA RedirectType ==
    ASSUME TypeOK, NEW i \in Instance, NEW k \in Variant,
           NEW action \in Redirects,
           NEW cause \in {"none", "status", "cache", "body", "presign"} \cup FetchErrors,
           NEW body \in Body, Redirect(i, k, action, cause, body)
    PROVE  FlightsTyped'
  <1> DEFINE answer == [action |-> action, cause |-> cause, status |-> 303,
                        body   |-> body, cached |-> flight[i][k].entry # None,
                        floor  |-> flight[i][k].floor]
  <1>1. flight[i][k].floor \in 0..MaxVersion
    BY DEF TypeOK, Flight
  <1>2. answer \in Answer
    BY <1>1 DEF Answer, Redirects
  <1>3. CASE Finish(i, k, answer)
    BY <1>2, <1>3, FinishType
  <1>4. CASE Fail(i, k, "presign", 502)
    BY <1>4, FailType
  <1> QED
    BY <1>3, <1>4 DEF Redirect

LEMMA ContinueType ==
    ASSUME TypeOK, NEW i \in Instance, NEW k \in Variant,
           NEW pc \in {"fetch", "put", "touch", "copying"},
           NEW entry \in Entry \cup {None}, NEW hdr \in Header \cup {None},
           NEW body \in Body \cup {None},
           pc = "put" => hdr \in Header /\ body \in Body,
           pc \in {"touch", "copying"} => hdr \in Header /\ entry \in Entry,
           Continue(i, k, pc, entry, hdr, body)
    PROVE  FlightsTyped'
  <1> DEFINE next == [pc |-> pc, entry |-> entry, hdr |-> hdr, body |-> body,
                      floor |-> flight[i][k].floor]
  <1>1. flight[i][k].floor \in 0..MaxVersion
    BY DEF TypeOK, Flight
  <1>2. next \in Flight /\ Equipped(next)
    BY <1>1 DEF Flight, Equipped
  <1>3. flight' = [flight EXCEPT ![i][k] = next] /\ client' = client
    BY DEF Continue
  <1> HIDE DEF next
  <1> QED
    BY <1>2, <1>3 DEF TypeOK, FlightsTyped

-----------------------------------------------------------------------------
(* Type correctness                                                        *)

LEMMA TypeInit == Init => TypeOK
  <1> SUFFICES ASSUME Init PROVE TypeOK
    OBVIOUS
  <1>1. Idle \in Flight /\ Equipped(Idle)
    BY ConstantsAssumption DEF Idle, Flight, Equipped
  <1>2. store \in [Variant -> Object \cup {None}]
    BY ConstantsAssumption DEF Init
  <1>3. version \in Version
    BY ConstantsAssumption DEF Init, Version
  <1> QED
    BY <1>1, <1>2, <1>3 DEF Init, TypeOK

\* What the actions of a flight leave alone or write has its type.
LEMMA TypeProgress ==
    ASSUME TypeOK, NEW i \in Instance, NEW k \in Variant,
           Progress(i, k) \/ PutUnacknowledged(i, k)
    PROVE  TypeOK'
  <1> DEFINE f == flight[i][k]
  <1>1. f \in Flight /\ Equipped(f)
    BY DEF TypeOK
  <1>2. /\ store \in [Variant -> Object \cup {None}]
        /\ limbo \in [Variant -> Object \cup {None}]
        /\ version \in Version
    BY DEF TypeOK
  <1>split. FlightsTyped' /\ BucketTyped' => TypeOK'
    BY DEF TypeOK, FlightsTyped, BucketTyped
  <1>calm. UNCHANGED <<version, store, limbo>> => BucketTyped'
    BY <1>2 DEF BucketTyped
  <1>3. \A o \in Object : [body |-> o.body, hdr |-> o.hdr] \in Entry
    BY DEF Object, Entry
  <1>4. 502 \in Nat
    OBVIOUS
  <1>5. f.entry # None => f.entry \in Entry /\ f.entry.body \in Body /\ f.entry.hdr \in Header
    BY <1>1 DEF Flight, Entry
  <1>6. f.pc = "put" => f.body \in Body /\ f.hdr \in Header /\ NewObject(f.body, f.hdr) \in Object
    BY <1>1, NewObjectType DEF Equipped
  <1>7. f.pc \in {"touch", "copying"} => /\ f.entry \in Entry /\ f.hdr \in Header
                                        /\ f.entry.body \in Body
    BY <1>1 DEF Equipped, Entry
  <1>8. \A e \in Entry, hdr \in Header :
          f.entry = e /\ Revalidated(i, k, hdr) => FlightsTyped'
    <2> SUFFICES ASSUME NEW hdr \in Header, f.entry \in Entry, Revalidated(i, k, hdr)
                 PROVE  FlightsTyped'
      OBVIOUS
    <2>1. f.entry.hdr \in Header /\ f.entry.body \in Body
      BY DEF Entry
    <2>2. Merge(f.entry.hdr, hdr) \in Header
      BY <2>1, MergeType
    <2>3. CASE Continue(i, k, "touch", f.entry, Merge(f.entry.hdr, hdr), None)
      BY <2>2, <2>3, ContinueType
    <2>4. CASE Redirect(i, k, "revalidated", "none", f.entry.body)
      BY <2>1, <2>4, RedirectType DEF Redirects
    <2> QED
      BY <2>3, <2>4 DEF Revalidated
  <1> HIDE DEF f
  <1>9. CASE ServeFresh(i, k)
    <2>1. store[k] \in Object /\ store[k].body \in Body
      BY <1>2, <1>9 DEF ServeFresh, Object
    <2>2. FlightsTyped'
      BY <1>9, <2>1, RedirectType DEF ServeFresh, Redirects
    <2> QED
      BY <1>split, <1>calm, <1>9, <2>2 DEF ServeFresh
  <1>10. CASE StartFetch(i, k)
    <2>1. store[k] # None => [body |-> store[k].body, hdr |-> store[k].hdr] \in Entry
      BY <1>2, <1>3
    <2>2. FlightsTyped'
      BY <1>10, <2>1, ContinueType DEF StartFetch
    <2> QED
      BY <1>split, <1>calm, <1>10, <2>2 DEF StartFetch
  <1>11. CASE FetchFails(i, k)
    <2>1. PICK err \in FetchErrors :
            IF flight[i][k].entry # None /\ ShouldFallback(err, 0)
            THEN Redirect(i, k, "stale", err, flight[i][k].entry.body)
            ELSE Fail(i, k, err, 502)
      BY <1>11 DEF FetchFails
    <2>2. ASSUME flight[i][k].entry # None /\ Redirect(i, k, "stale", err, flight[i][k].entry.body)
          PROVE  FlightsTyped'
      BY <1>5, <2>2, RedirectType DEF Redirects, f
    <2>3. ASSUME Fail(i, k, err, 502)
          PROVE  FlightsTyped'
      BY <1>4, <2>3, FailType
    <2>4. FlightsTyped'
      BY <2>1, <2>2, <2>3
    <2> QED
      BY <1>split, <1>calm, <1>11, <2>4 DEF FetchFails
  <1>12. CASE UpstreamStatus(i, k)
    <2>1. PICK status \in Statuses :
            IF flight[i][k].entry # None /\ ShouldFallback(None, status)
            THEN Redirect(i, k, "stale", "status", flight[i][k].entry.body)
            ELSE Fail(i, k, "status", status)
      BY <1>12 DEF UpstreamStatus
    <2>2. ASSUME flight[i][k].entry # None /\ Redirect(i, k, "stale", "status", flight[i][k].entry.body)
          PROVE  FlightsTyped'
      BY <1>5, <2>2, RedirectType DEF Redirects, f
    <2>3. ASSUME Fail(i, k, "status", status)
          PROVE  FlightsTyped'
      BY <2>3, FailType, ConstantsAssumption
    <2>4. FlightsTyped'
      BY <2>1, <2>2, <2>3
    <2> QED
      BY <1>split, <1>calm, <1>12, <2>4 DEF UpstreamStatus
  <1>13. CASE NotModified(i, k)
    <2>1. PICK hdr \in Confirmation(Selected(k)) : Revalidated(i, k, hdr)
      BY <1>13 DEF NotModified
    <2>2. hdr \in Header
      BY <1>2, SelectedType, ConfirmationType
    <2>3. f.entry \in Entry
      BY <1>5, <1>13 DEF NotModified, f
    <2>4. FlightsTyped'
      BY <1>8, <2>1, <2>2, <2>3
    <2> QED
      BY <1>split, <1>calm, <1>13, <2>4 DEF NotModified
  <1>14. CASE FullResponse(i, k)
    <2>1. PICK d \in Declaration :
            LET hdr == Response(Selected(k), d)
            IN  IF flight[i][k].entry # None /\ EtagStrongMatch(flight[i][k].entry.hdr.etag, hdr.etag)
                THEN Revalidated(i, k, hdr)
                ELSE Continue(i, k, "put", flight[i][k].entry, hdr, Selected(k))
      BY <1>14 DEF FullResponse
    <2> DEFINE hdr == Response(Selected(k), d)
    <2>2. hdr \in Header /\ Selected(k) \in Body
      BY <1>2, SelectedType, ResponseType
    <2>3. ASSUME flight[i][k].entry # None /\ Revalidated(i, k, hdr)
          PROVE  FlightsTyped'
      <3>1. f.entry \in Entry
        BY <1>5, <2>3 DEF f
      <3> QED
        BY <1>8, <2>2, <2>3, <3>1
    <2>4. ASSUME Continue(i, k, "put", flight[i][k].entry, hdr, Selected(k))
          PROVE  FlightsTyped'
      <3>1. flight[i][k].entry \in Entry \cup {None}
        BY <1>1 DEF f, Flight
      <3> HIDE DEF hdr
      <3> QED
        BY <2>2, <2>4, <3>1, ContinueType
    <2>5. FlightsTyped'
      BY <2>1, <2>3, <2>4
    <2> QED
      BY <1>split, <1>calm, <1>14, <2>5 DEF FullResponse
  <1>15. CASE PutLands(i, k)
    <2>1. FlightsTyped'
      BY <1>6, <1>15, RedirectType DEF PutLands, Redirects, f
    <2>2. BucketTyped'
      BY <1>2, <1>6, <1>15 DEF BucketTyped, PutLands, f
    <2> QED
      BY <1>split, <2>1, <2>2
  <1>16. CASE PutUnacknowledged(i, k)
    <2>1. BucketTyped'
      BY <1>2, <1>6, <1>16 DEF BucketTyped, PutUnacknowledged, f
    <2> QED
      BY <1>16, <2>1 DEF PutUnacknowledged, TypeOK, BucketTyped
  <1>17. CASE PutFails(i, k)
    <2>1. FlightsTyped'
      BY <1>4, <1>17, FailType DEF PutFails
    <2>2. BucketTyped'
      BY <1>2, <1>6, <1>17 DEF BucketTyped, PutFails, f
    <2> QED
      BY <1>split, <2>1, <2>2
  <1>18. CASE BodyBreaks(i, k)
    <2>1. FlightsTyped'
      BY <1>4, <1>18, FailType DEF BodyBreaks
    <2> QED
      BY <1>split, <1>calm, <1>18, <2>1 DEF BodyBreaks
  <1>19. CASE TouchLands(i, k)
    <2>1. FlightsTyped'
      BY <1>7, <1>19, RedirectType DEF TouchLands, Redirects, f
    <2>2. store[k] \in Object /\ store[k].body \in Body
      BY <1>2, <1>19 DEF TouchLands, CopyMatches, Object
    <2>3. NewObject(store[k].body, f.hdr) \in Object
      BY <1>7, <1>19, <2>2, NewObjectType DEF TouchLands, f
    <2>4. BucketTyped'
      BY <1>2, <1>19, <2>3 DEF BucketTyped, TouchLands, f
    <2> QED
      BY <1>split, <2>1, <2>4
  <1>20. CASE TouchFails(i, k)
    <2>1. FlightsTyped'
      BY <1>7, <1>20, RedirectType DEF TouchFails, Redirects, f
    <2> QED
      BY <1>split, <1>calm, <1>20, <2>1 DEF TouchFails
  <1>21. CASE CopyStarts(i, k)
    <2>1. FlightsTyped'
      BY <1>7, <1>21, ContinueType DEF CopyStarts, f
    <2> QED
      BY <1>split, <1>calm, <1>21, <2>1 DEF CopyStarts
  <1>22. CASE CopyLands(i, k)
    <2>1. FlightsTyped'
      BY <1>7, <1>22, RedirectType DEF CopyLands, Redirects, f
    <2>2. NewObject(f.entry.body, f.hdr) \in Object
      BY <1>7, <1>22, NewObjectType DEF CopyLands, f
    <2>3. BucketTyped'
      BY <1>2, <1>22, <2>2 DEF BucketTyped, CopyLands, f
    <2> QED
      BY <1>split, <2>1, <2>3
  <1> QED
    BY <1>9, <1>10, <1>11, <1>12, <1>13, <1>14, <1>15, <1>16, <1>17, <1>18, <1>19,
       <1>20, <1>21, <1>22 DEF Progress

\* The same for the clients' comings and goings and for the environment.
LEMMA TypeEnvironment ==
    ASSUME TypeOK,
           \/ \E c \in Client : Refuse(c) \/ Leave(c)
           \/ \E c \in Client, i \in Instance, k \in Variant : Arrive(c, i, k)
           \/ \E i \in Instance : Crash(i)
           \/ \E k \in Variant : LateWriteLands(k) \/ Delete(k)
           \/ Publish
           \/ Tick
    PROVE  TypeOK'
  <1>1. CASE \E c \in Client : Refuse(c)
    <2>1. PICK c \in Client, i \in Instance, k \in Variant, s \in {200, 400, 405} :
            client' = [client EXCEPT ![c] =
                         [at |-> i, key |-> k,
                          answer |-> [action |-> "refused", cause |-> "none", status |-> s,
                                      body |-> None, cached |-> FALSE, floor |-> 0]]]
      BY <1>1 DEF Refuse
    <2> DEFINE answer == [action |-> "refused", cause |-> "none", status |-> s,
                          body |-> None, cached |-> FALSE, floor |-> 0]
    <2>2. answer \in Answer
      BY ConstantsAssumption DEF Answer
    <2> HIDE DEF answer
    <2>3. [at |-> i, key |-> k, answer |-> answer] \in Request
      BY <2>2 DEF Request
    <2>4. client' = [client EXCEPT ![c] = [at |-> i, key |-> k, answer |-> answer]]
      BY <2>1 DEF answer
    <2>5. client' \in [Client -> Request \cup {None}]
      BY <2>3, <2>4 DEF TypeOK
    <2>6. UNCHANGED <<version, store, limbo, flight>>
      BY <1>1 DEF Refuse
    <2> QED
      BY <2>5, <2>6 DEF TypeOK
  <1>2. CASE \E c \in Client : Leave(c)
    BY <1>2 DEF Leave, TypeOK
  <1>3. CASE \E c \in Client, i \in Instance, k \in Variant : Arrive(c, i, k)
    <2>1. PICK c \in Client, i \in Instance, k \in Variant : Arrive(c, i, k)
      BY <1>3
    <2> DEFINE led == [Idle EXCEPT !.pc = "head", !.floor = version]
    <2>2. led \in Flight /\ Equipped(led)
      <3>1. version \in 0..MaxVersion
        BY ConstantsAssumption DEF TypeOK, Version
      <3> DEFINE head == [Idle EXCEPT !.pc = "head"]
      <3>2. head = [pc |-> "head", entry |-> None, hdr |-> None, body |-> None, floor |-> 0]
        BY DEF Idle
      <3>3. led = [head EXCEPT !.floor = version]
        BY DEF Idle
      <3> HIDE DEF head
      <3>4. led = [pc |-> "head", entry |-> None, hdr |-> None, body |-> None, floor |-> version]
        BY <3>2, <3>3
      <3> QED
        BY <3>1, <3>4 DEF Flight, Equipped
    <2>3. [at |-> i, key |-> k, answer |-> None] \in Request
      BY DEF Request
    <2>4. client' \in [Client -> Request \cup {None}]
      BY <2>1, <2>3 DEF Arrive, TypeOK
    <2> HIDE DEF led
    <2>5. flight' = flight \/ flight' = [flight EXCEPT ![i][k] = led]
      BY <2>1 DEF Arrive, led
    <2>6. /\ flight' \in [Instance -> [Variant -> Flight]]
          /\ \A j \in Instance, l \in Variant : Equipped(flight'[j][l])
      <3>1. flight' \in [Instance -> [Variant -> Flight]]
        BY <2>2, <2>5 DEF TypeOK
      <3>2. \A j \in Instance, l \in Variant : flight'[j][l] \in {flight[j][l], led}
        BY <2>5 DEF TypeOK
      <3> QED
        BY <2>2, <3>1, <3>2 DEF TypeOK
    <2> QED
      BY <2>1, <2>4, <2>6 DEF Arrive, TypeOK
  <1>4. CASE \E i \in Instance : Crash(i)
    <2>1. PICK i \in Instance : Crash(i)
      BY <1>4
    <2>2. Idle \in Flight /\ Equipped(Idle)
      BY ConstantsAssumption DEF Idle, Flight, Equipped
    <2>3. /\ flight' \in [Instance -> [Variant -> Flight]]
          /\ \A j \in Instance, l \in Variant : Equipped(flight'[j][l])
      <3> DEFINE row == [k \in Variant |-> Idle]
      <3>1. row \in [Variant -> Flight] /\ \A l \in Variant : row[l] = Idle
        BY <2>2
      <3> HIDE DEF row
      <3>2. flight' = [flight EXCEPT ![i] = row]
        BY <2>1 DEF Crash, row
      <3>3. flight' \in [Instance -> [Variant -> Flight]]
        BY <3>1, <3>2 DEF TypeOK
      <3>4. \A j \in Instance, l \in Variant : flight'[j][l] \in {flight[j][l], Idle}
        BY <3>1, <3>2 DEF TypeOK
      <3> QED
        BY <2>2, <3>3, <3>4 DEF TypeOK
    <2>4. client' \in [Client -> Request \cup {None}]
      BY <2>1 DEF Crash, TypeOK
    <2>5. \A k \in Variant : flight[i][k].pc = "put"
            => NewObject(flight[i][k].body, flight[i][k].hdr) \in Object
      BY NewObjectType DEF TypeOK, Equipped
    <2>6. limbo' \in [Variant -> Object \cup {None}]
      BY <2>1, <2>5 DEF Crash, TypeOK
    <2> QED
      BY <2>1, <2>3, <2>4, <2>6 DEF Crash, TypeOK
  <1>5. CASE \E k \in Variant : LateWriteLands(k)
    BY <1>5 DEF LateWriteLands, TypeOK
  <1>6. CASE \E k \in Variant : Delete(k)
    BY <1>6 DEF Delete, TypeOK
  <1>7. CASE Publish
    BY <1>7, ConstantsAssumption DEF Publish, TypeOK, Version
  <1>8. CASE Tick
    <2>1. \A o \in Object : o.resident < Horizon => [o EXCEPT !.resident = @ + 1] \in Object
      BY ConstantsAssumption DEF Object
    <2>2. store' \in [Variant -> Object \cup {None}]
      BY <1>8, <2>1 DEF Tick, TypeOK
    <2> QED
      BY <1>8, <2>2 DEF Tick, TypeOK
  <1> QED
    BY <1>1, <1>2, <1>3, <1>4, <1>5, <1>6, <1>7, <1>8

\* Every variable keeps its type through every step of every instance, and a
\* flight that uploads or touches holds what it is about to write (server.go
\* fetchAndCache, s3_cache.go Put and Touch).
THEOREM TypeCorrect == Spec => []TypeOK
  <1>1. TypeOK /\ [Next]_vars => TypeOK'
    <2> SUFFICES ASSUME TypeOK, [Next]_vars PROVE TypeOK'
      OBVIOUS
    <2>1. CASE \E i \in Instance, k \in Variant : Progress(i, k) \/ PutUnacknowledged(i, k)
      BY <2>1, TypeProgress
    <2>2. CASE UNCHANGED vars
      BY <2>2 DEF vars, TypeOK
    <2> QED
      BY <2>1, <2>2, TypeEnvironment DEF Next
  <1> QED
    BY TypeInit, <1>1, PTL DEF Spec

-----------------------------------------------------------------------------
(* How a step changes the table of flights                                 *)

\* A flight that answers is gone, and no other flight changes (Finish).
LEMMA FlightEnds ==
    ASSUME TypeOK, NEW i \in Instance, NEW k \in Variant,
           \/ \E answer : Finish(i, k, answer)
           \/ \E cause, status : Fail(i, k, cause, status)
           \/ \E action, cause, body : Redirect(i, k, action, cause, body)
    PROVE  \A j \in Instance, l \in Variant :
             flight'[j][l] = IF j = i /\ l = k THEN Idle ELSE flight[j][l]
  <1>1. flight' = [flight EXCEPT ![i][k] = Idle]
    BY DEF Fail, Redirect, Finish
  <1> QED
    BY <1>1 DEF TypeOK

\* A flight that goes on holds what its next step needs, and no other flight
\* changes (Continue).
LEMMA FlightContinues ==
    ASSUME TypeOK, NEW i \in Instance, NEW k \in Variant,
           NEW pc, NEW entry, NEW hdr, NEW body,
           Continue(i, k, pc, entry, hdr, body)
    PROVE  \A j \in Instance, l \in Variant :
             flight'[j][l] = IF j = i /\ l = k
                             THEN [pc |-> pc, entry |-> entry, hdr |-> hdr, body |-> body,
                                   floor |-> flight[i][k].floor]
                             ELSE flight[j][l]
  <1> DEFINE next == [pc |-> pc, entry |-> entry, hdr |-> hdr, body |-> body,
                      floor |-> flight[i][k].floor]
  <1>1. flight' = [flight EXCEPT ![i][k] = next]
    BY DEF Continue
  <1> HIDE DEF next
  <1>2. \A j \in Instance, l \in Variant :
          flight'[j][l] = IF j = i /\ l = k THEN next ELSE flight[j][l]
    BY <1>1 DEF TypeOK
  <1> QED
    BY <1>2 DEF next

-----------------------------------------------------------------------------
(* Labels                                                                  *)

\* The inductive invariant behind LabelConsistent: it is not only the bucket
\* that holds bytes under their own labels, but every write on its way there
\* and every flight that may yet write.
StoreLabelled == \A k \in Variant : store[k] # None => WellLabelled(store[k])
LimboLabelled == \A k \in Variant : limbo[k] # None => WellLabelled(limbo[k])

Labelled(f) ==
    /\ f.entry # None => Labels(f.entry.body, f.entry.hdr)
    /\ f.pc = "put" => Labels(f.body, f.hdr)
    /\ f.pc \in {"touch", "copying"} => Labels(f.entry.body, f.hdr)

FlightsLabelled == \A i \in Instance, k \in Variant : Labelled(flight[i][k])

LabelInv == StoreLabelled /\ LimboLabelled /\ FlightsLabelled

\* What the origin sends is labelled as its own (Response).
LEMMA ResponseLabelled ==
    ASSUME NEW b \in Body, NEW d
    PROVE  Labels(b, Response(b, d))
  BY DEF Labels, Response

\* Merging keeps the labels of the stored bytes wherever maybeTouch merges:
\* the guard lets through no other entity tag, and body fields are stored ones.
LEMMA TouchKeepsLabels ==
    ASSUME NEW entry \in Entry, NEW hdr \in Header, NEW k \in Variant,
           ShouldTouch(entry, hdr, k), Labels(entry.body, entry.hdr)
    PROVE  Labels(entry.body, Merge(entry.hdr, hdr))
  <1> DEFINE merged == Merge(entry.hdr, hdr)
  <1>1. merged.contentType = entry.hdr.contentType
    BY DEF Merge
  <1>2. merged.etag = IF hdr.etag = Absent THEN entry.hdr.etag ELSE hdr.etag
    BY DEF Merge
  <1>3. hdr.etag = Absent \/ hdr.etag = entry.hdr.etag
    BY DEF ShouldTouch, EtagStrongMatch
  <1>4. merged.etag = entry.hdr.etag
    BY <1>2, <1>3
  <1> HIDE DEF merged
  <1>5. Labels(entry.body, merged)
    BY <1>1, <1>4 DEF Labels
  <1> QED
    BY <1>5 DEF merged

\* Bytes labelled by some body are labelled the same wherever they are stored.
LEMMA SameBytesSameLabels ==
    ASSUME NEW a, NEW b, NEW hdr, BytesOf[a] = BytesOf[b], Labels(a, hdr)
    PROVE  Labels(b, hdr)
  BY DEF Labels

LEMMA NewObjectLabelled ==
    ASSUME NEW body, NEW hdr, Labels(body, hdr)
    PROVE  WellLabelled(NewObject(body, hdr))
  BY DEF WellLabelled, NewObject

LEMMA IdleLabelled == Labelled(Idle)
  BY DEF Labelled, Idle

LEMMA LabelProgress ==
    ASSUME TypeOK, LabelInv, NEW i \in Instance, NEW k \in Variant,
           Progress(i, k) \/ PutUnacknowledged(i, k)
    PROVE  LabelInv'
  <1> DEFINE f == flight[i][k]
  <1>1. f \in Flight /\ Equipped(f) /\ Labelled(f)
    BY DEF TypeOK, LabelInv, FlightsLabelled
  <1>2. StoreLabelled /\ LimboLabelled /\ FlightsLabelled
    BY DEF LabelInv
  <1>calm. UNCHANGED <<store, limbo>> => StoreLabelled' /\ LimboLabelled'
    BY <1>2 DEF StoreLabelled, LimboLabelled
  <1>ends. ASSUME \/ \E answer : Finish(i, k, answer)
                  \/ \E cause, status : Fail(i, k, cause, status)
                  \/ \E action, cause, body : Redirect(i, k, action, cause, body)
           PROVE  FlightsLabelled'
    BY <1>2, <1>ends, FlightEnds, IdleLabelled DEF FlightsLabelled
  <1>goes. ASSUME NEW pc, NEW entry, NEW hdr, NEW body,
                  Continue(i, k, pc, entry, hdr, body),
                  Labelled([pc |-> pc, entry |-> entry, hdr |-> hdr, body |-> body,
                            floor |-> f.floor])
           PROVE  FlightsLabelled'
    BY <1>2, <1>goes, FlightContinues DEF FlightsLabelled
  <1>writes. ASSUME NEW o, WellLabelled(o), store' = [store EXCEPT ![k] = o]
             PROVE  StoreLabelled'
    BY <1>2, <1>writes DEF StoreLabelled, TypeOK
  <1>rev. ASSUME NEW hdr \in Header, f.entry # None, Revalidated(i, k, hdr)
          PROVE  FlightsLabelled'
    <2>1. f.entry \in Entry /\ Labels(f.entry.body, f.entry.hdr)
      BY <1>1, <1>rev DEF Flight, Labelled
    <2>2. ASSUME ShouldTouch(f.entry, hdr, k),
                 Continue(i, k, "touch", f.entry, Merge(f.entry.hdr, hdr), None)
          PROVE  FlightsLabelled'
      <3>1. Labels(f.entry.body, Merge(f.entry.hdr, hdr))
        BY <2>1, <2>2, TouchKeepsLabels
      <3> DEFINE merged == Merge(f.entry.hdr, hdr)
      <3> HIDE DEF merged
      <3>2. Labelled([pc |-> "touch", entry |-> f.entry, hdr |-> merged, body |-> None,
                      floor |-> f.floor])
        BY <2>1, <3>1 DEF Labelled, merged
      <3> QED
        BY <1>goes, <2>2, <3>2 DEF merged
    <2> QED
      BY <1>ends, <1>rev, <2>2 DEF Revalidated
  <1> HIDE DEF f
  <1>3. CASE ServeFresh(i, k)
    BY <1>3, <1>calm, <1>ends DEF ServeFresh, LabelInv
  <1>4. CASE StartFetch(i, k)
    <2>1. ASSUME store[k] # None,
                 Continue(i, k, "fetch", [body |-> store[k].body, hdr |-> store[k].hdr], None, None)
          PROVE  FlightsLabelled'
      <3> DEFINE entry == [body |-> store[k].body, hdr |-> store[k].hdr]
      <3>1. Labels(entry.body, entry.hdr)
        BY <1>2, <2>1 DEF StoreLabelled, WellLabelled
      <3> HIDE DEF entry
      <3>2. Labelled([pc |-> "fetch", entry |-> entry, hdr |-> None, body |-> None,
                      floor |-> f.floor])
        BY <3>1 DEF Labelled
      <3> QED
        BY <1>goes, <2>1, <3>2 DEF entry
    <2>2. ASSUME Continue(i, k, "fetch", None, None, None)
          PROVE  FlightsLabelled'
      <3>1. Labelled([pc |-> "fetch", entry |-> None, hdr |-> None, body |-> None,
                      floor |-> f.floor])
        BY DEF Labelled
      <3> QED
        BY <1>goes, <2>2, <3>1
    <2> QED
      BY <1>4, <1>calm, <2>1, <2>2 DEF StartFetch, LabelInv
  <1>5. CASE FetchFails(i, k)
    BY <1>5, <1>calm, <1>ends DEF FetchFails, LabelInv
  <1>6. CASE UpstreamStatus(i, k)
    BY <1>6, <1>calm, <1>ends DEF UpstreamStatus, LabelInv
  <1>7. CASE NotModified(i, k)
    <2>1. PICK hdr \in Confirmation(Selected(k)) : Revalidated(i, k, hdr)
      BY <1>7 DEF NotModified
    <2>2. hdr \in Header
      BY SelectedType, ConfirmationType DEF TypeOK
    <2>3. FlightsLabelled'
      BY <1>7, <1>rev, <2>1, <2>2 DEF NotModified, f
    <2> QED
      BY <1>7, <1>calm, <2>3 DEF NotModified, LabelInv
  <1>8. CASE FullResponse(i, k)
    <2>1. PICK d \in Declaration :
            LET hdr == Response(Selected(k), d)
            IN  IF flight[i][k].entry # None /\ EtagStrongMatch(flight[i][k].entry.hdr.etag, hdr.etag)
                THEN Revalidated(i, k, hdr)
                ELSE Continue(i, k, "put", flight[i][k].entry, hdr, Selected(k))
      BY <1>8 DEF FullResponse
    <2> DEFINE hdr == Response(Selected(k), d)
    <2>2. hdr \in Header /\ Labels(Selected(k), hdr)
      BY SelectedType, ResponseType, ResponseLabelled DEF TypeOK
    <2> HIDE DEF hdr
    <2>3. Labelled([pc |-> "put", entry |-> f.entry, hdr |-> hdr, body |-> Selected(k),
                    floor |-> f.floor])
      BY <1>1, <2>2 DEF Labelled
    <2>4. ASSUME Continue(i, k, "put", f.entry, hdr, Selected(k))
          PROVE  FlightsLabelled'
      BY <1>goes, <2>3, <2>4
    <2>5. FlightsLabelled'
      BY <1>rev, <2>1, <2>2, <2>4 DEF f, hdr
    <2> QED
      BY <1>8, <1>calm, <2>5 DEF FullResponse, LabelInv
  <1>9. CASE PutLands(i, k)
    <2>1. StoreLabelled'
      BY <1>1, <1>9, <1>writes, NewObjectLabelled DEF PutLands, Labelled, f
    <2> QED
      BY <1>2, <1>9, <1>ends, <2>1 DEF PutLands, LabelInv, LimboLabelled
  <1>10. CASE PutUnacknowledged(i, k)
    <2>1. StoreLabelled'
      BY <1>1, <1>10, <1>writes, NewObjectLabelled DEF PutUnacknowledged, Labelled, f
    <2> QED
      BY <1>2, <1>10, <2>1 DEF PutUnacknowledged, LabelInv, LimboLabelled, FlightsLabelled
  <1>11. CASE PutFails(i, k)
    <2>1. WellLabelled(NewObject(f.body, f.hdr))
      BY <1>1, <1>11, NewObjectLabelled DEF PutFails, Labelled, f
    <2>2. LimboLabelled'
      BY <1>2, <1>11, <2>1 DEF PutFails, LimboLabelled, TypeOK, f
    <2> QED
      BY <1>2, <1>11, <1>ends, <2>2 DEF PutFails, LabelInv, StoreLabelled
  <1>12. CASE BodyBreaks(i, k)
    BY <1>12, <1>calm, <1>ends DEF BodyBreaks, LabelInv
  <1>13. CASE TouchLands(i, k)
    <2>1. Labels(store[k].body, f.hdr)
      BY <1>1, <1>13, SameBytesSameLabels DEF TouchLands, CopyMatches, Labelled, f
    <2>2. StoreLabelled'
      BY <1>13, <1>writes, <2>1, NewObjectLabelled DEF TouchLands, f
    <2> QED
      BY <1>2, <1>13, <1>ends, <2>2 DEF TouchLands, LabelInv, LimboLabelled
  <1>14. CASE TouchFails(i, k)
    BY <1>14, <1>calm, <1>ends DEF TouchFails, LabelInv
  <1>15. CASE CopyStarts(i, k)
    <2>1. Labelled([pc |-> "copying", entry |-> f.entry, hdr |-> f.hdr, body |-> None,
                    floor |-> f.floor])
      BY <1>1, <1>15 DEF CopyStarts, Labelled, f
    <2>2. FlightsLabelled'
      BY <1>15, <1>goes, <2>1 DEF CopyStarts, f
    <2> QED
      BY <1>15, <1>calm, <2>2 DEF CopyStarts, LabelInv
  <1>16. CASE CopyLands(i, k)
    <2>1. StoreLabelled'
      BY <1>1, <1>16, <1>writes, NewObjectLabelled DEF CopyLands, Labelled, f
    <2> QED
      BY <1>2, <1>16, <1>ends, <2>1 DEF CopyLands, LabelInv, LimboLabelled
  <1> QED
    BY <1>3, <1>4, <1>5, <1>6, <1>7, <1>8, <1>9, <1>10, <1>11, <1>12, <1>13, <1>14,
       <1>15, <1>16 DEF Progress

LEMMA LabelInvHolds == Spec => []LabelInv
  <1>1. Init => LabelInv
    <2> SUFFICES ASSUME Init PROVE LabelInv
      OBVIOUS
    <2>1. StoreLabelled
      BY CorpusAssumption DEF Init, StoreLabelled
    <2>2. LimboLabelled
      BY DEF Init, LimboLabelled
    <2>3. FlightsLabelled
      BY IdleLabelled DEF Init, FlightsLabelled
    <2> QED
      BY <2>1, <2>2, <2>3 DEF LabelInv
  <1>2. TypeOK /\ LabelInv /\ [Next]_vars => LabelInv'
    <2> SUFFICES ASSUME TypeOK, LabelInv, [Next]_vars PROVE LabelInv'
      OBVIOUS
    <2>1. StoreLabelled /\ LimboLabelled /\ FlightsLabelled
      BY DEF LabelInv
    <2>2. CASE \E i \in Instance, k \in Variant : Progress(i, k) \/ PutUnacknowledged(i, k)
      BY <2>2, LabelProgress
    <2>3. ASSUME UNCHANGED <<store, limbo, flight>>
          PROVE  LabelInv'
      BY <2>1, <2>3 DEF LabelInv, StoreLabelled, LimboLabelled, FlightsLabelled
    <2>4. CASE \E c \in Client : Refuse(c) \/ Leave(c)
      BY <2>3, <2>4 DEF Refuse, Leave
    <2>5. CASE \E c \in Client, i \in Instance, k \in Variant : Arrive(c, i, k)
      <3>1. PICK c \in Client, i \in Instance, k \in Variant : Arrive(c, i, k)
        BY <2>5
      <3> DEFINE led == [Idle EXCEPT !.pc = "head", !.floor = version]
      <3>2. Labelled(led)
        BY DEF Labelled, Idle
      <3>3. flight' = flight \/ flight' = [flight EXCEPT ![i][k] = led]
        BY <3>1 DEF Arrive
      <3> HIDE DEF led
      <3>4. \A j \in Instance, l \in Variant : flight'[j][l] \in {flight[j][l], led}
        BY <3>3 DEF TypeOK
      <3>5. FlightsLabelled'
        BY <2>1, <3>2, <3>4 DEF FlightsLabelled
      <3> QED
        BY <2>1, <3>1, <3>5 DEF Arrive, LabelInv, StoreLabelled, LimboLabelled
    <2>6. CASE \E i \in Instance : Crash(i)
      <3>1. PICK i \in Instance : Crash(i)
        BY <2>6
      <3>2. \A j \in Instance, l \in Variant : flight'[j][l] \in {flight[j][l], Idle}
        BY <3>1 DEF Crash, TypeOK
      <3>3. FlightsLabelled'
        BY <2>1, <3>2, IdleLabelled DEF FlightsLabelled
      <3>4. \A l \in Variant : flight[i][l].pc = "put"
              => WellLabelled(NewObject(flight[i][l].body, flight[i][l].hdr))
        BY <2>1, NewObjectLabelled DEF FlightsLabelled, Labelled
      <3>5. LimboLabelled'
        BY <2>1, <3>1, <3>4 DEF Crash, LimboLabelled, TypeOK
      <3> QED
        BY <2>1, <3>1, <3>3, <3>5 DEF Crash, LabelInv, StoreLabelled
    <2>7. CASE \E k \in Variant : LateWriteLands(k)
      <3>1. PICK k \in Variant : LateWriteLands(k)
        BY <2>7
      <3>2. StoreLabelled' /\ LimboLabelled'
        BY <2>1, <3>1 DEF LateWriteLands, StoreLabelled, LimboLabelled, TypeOK
      <3> QED
        BY <2>1, <3>1, <3>2 DEF LateWriteLands, LabelInv, FlightsLabelled
    <2>8. CASE \E k \in Variant : Delete(k)
      <3>1. StoreLabelled'
        BY <2>1, <2>8 DEF Delete, StoreLabelled, TypeOK
      <3> QED
        BY <2>1, <2>8, <3>1 DEF Delete, LabelInv, LimboLabelled, FlightsLabelled
    <2>9. CASE Publish
      BY <2>3, <2>9 DEF Publish
    <2>10. CASE Tick
      <3>1. \A k \in Variant : store'[k] # None =>
              /\ store[k] # None
              /\ store'[k].body = store[k].body
              /\ store'[k].hdr = store[k].hdr
              /\ store'[k].ctype = store[k].ctype
        BY <2>10 DEF Tick, TypeOK, Object
      <3>2. StoreLabelled'
        BY <2>1, <3>1 DEF StoreLabelled, WellLabelled
      <3> QED
        BY <2>1, <2>10, <3>2 DEF Tick, LabelInv, LimboLabelled, FlightsLabelled
    <2>11. CASE UNCHANGED vars
      BY <2>3, <2>11 DEF vars
    <2> QED
      BY <2>2, <2>4, <2>5, <2>6, <2>7, <2>8, <2>9, <2>10, <2>11 DEF Next
  <1> QED
    BY TypeCorrect, <1>1, <1>2, PTL DEF Spec

\* No interleaving of any number of instances labels bytes as others: neither
\* a put, nor a retried or late one, nor a touch, atomic or not (fetchAndCache,
\* maybeTouch, Merge, Touch).
THEOREM LabelsHold == Spec => []LabelConsistent
  <1>1. LabelInv => LabelConsistent
    BY DEF LabelInv, StoreLabelled, LabelConsistent
  <1> QED
    BY LabelInvHolds, <1>1, PTL
=============================================================================
