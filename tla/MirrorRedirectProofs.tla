------------------------ MODULE MirrorRedirectProofs ------------------------
(***************************************************************************)
(* Theorems about the answers of MirrorCache, for every fleet, client set  *)
(* and origin: a redirect leads to an object, nobody waits on a flight     *)
(* that is gone, and a touch that races a put loses.                       *)
(***************************************************************************)
EXTENDS MirrorCacheProofs

-----------------------------------------------------------------------------
(* Redirects resolve                                                       *)

\* The inductive invariant behind RedirectResolves: an entry a flight holds is
\* still in the bucket when the flight redirects to it.
EntriesStored ==
    \A i \in Instance, k \in Variant : flight[i][k].entry # None => store[k] # None

ResolveInv == RedirectResolves /\ EntriesStored

\* What is stored under a key may be replaced, and is not removed.
Kept == \A k \in Variant : store[k] # None => store'[k] # None

\* A request is redirected only by its own key's flight (Finish).
LEMMA RedirectedBy ==
    ASSUME NEW i \in Instance, NEW k \in Variant,
           \/ \E cause, status : Fail(i, k, cause, status)
           \/ \E action, cause, body : Redirect(i, k, action, cause, body),
           NEW c \in Client, Redirected(c)'
    PROVE  client'[c] = client[c] \/ client'[c].key = k
  <1>1. PICK answer : Finish(i, k, answer)
    BY DEF Fail, Redirect
  <1>2. CASE Waiting(c) /\ client[c].at = i /\ client[c].key = k
    <2>1. client'[c] = [client[c] EXCEPT !.answer = answer]
      BY <1>1, <1>2 DEF Finish
    <2> QED
      BY <1>2, <2>1
  <1>3. CASE ~(Waiting(c) /\ client[c].at = i /\ client[c].key = k)
    BY <1>1, <1>3 DEF Finish
  <1> QED
    BY <1>2, <1>3

\* Nobody is redirected by a failure (Fail).
LEMMA FailRedirectsNobody ==
    ASSUME TypeOK, NEW i \in Instance, NEW k \in Variant, NEW cause, NEW status,
           Fail(i, k, cause, status), NEW c \in Client, Redirected(c)'
    PROVE  client'[c] = client[c]
  <1> DEFINE answer == [action |-> "error", cause |-> cause, status |-> status,
                        body   |-> None, cached |-> flight[i][k].entry # None,
                        floor  |-> flight[i][k].floor]
  <1>1. Finish(i, k, answer)
    BY DEF Fail
  <1>2. answer.action \notin Redirects
    BY DEF Redirects
  <1> HIDE DEF answer
  <1>3. client'[c] = IF Waiting(c) /\ client[c].at = i /\ client[c].key = k
                     THEN [client[c] EXCEPT !.answer = answer]
                     ELSE client[c]
    BY <1>1 DEF Finish
  <1>4. CASE Waiting(c) /\ client[c].at = i /\ client[c].key = k
    <2>1. client[c] \in Request /\ client'[c] = [client[c] EXCEPT !.answer = answer]
      BY <1>3, <1>4 DEF Waiting, TypeOK
    <2>2. client'[c].answer = answer
      BY <2>1 DEF Request
    <2> QED
      BY <1>2, <2>2 DEF Redirected
  <1> QED
    BY <1>3, <1>4

\* A step of a flight to (i, k) keeps ResolveInv if the bucket keeps its
\* objects and holds one under k whenever the flight redirects or goes on with
\* an entry.
LEMMA ResolveStep ==
    ASSUME TypeOK, ResolveInv, NEW i \in Instance, NEW k \in Variant, Kept,
           \/ \E cause, status : Fail(i, k, cause, status)
           \/ /\ store'[k] # None
              /\ \E action, cause, body : Redirect(i, k, action, cause, body)
           \/ \E pc, entry, hdr, body : /\ Continue(i, k, pc, entry, hdr, body)
                                        /\ entry # None => store'[k] # None
    PROVE  ResolveInv'
  <1>1. CASE \E cause, status : Fail(i, k, cause, status)
    <2>1. \A c \in Client : Redirected(c)' => client'[c] = client[c] /\ Redirected(c)
      BY <1>1, FailRedirectsNobody DEF Redirected, Answered
    <2>2. \A j \in Instance, l \in Variant : flight'[j][l].entry # None => flight[j][l].entry # None
      BY <1>1, FlightEnds DEF Idle
    <2>3. \A c \in Client : Redirected(c) => client[c].key \in Variant
      BY DEF TypeOK, Redirected, Answered, Request
    <2> QED
      BY <2>1, <2>2, <2>3 DEF ResolveInv, RedirectResolves, EntriesStored, Kept
  <1>2. CASE store'[k] # None /\ \E action, cause, body : Redirect(i, k, action, cause, body)
    <2>1. \A c \in Client : Redirected(c)' => \/ client'[c] = client[c] /\ Redirected(c)
                                              \/ client'[c].key = k
      BY <1>2, RedirectedBy DEF Redirected, Answered
    <2>2. \A j \in Instance, l \in Variant : flight'[j][l].entry # None => flight[j][l].entry # None
      BY <1>2, FlightEnds DEF Idle
    <2>3. \A c \in Client : Redirected(c) => client[c].key \in Variant
      BY DEF TypeOK, Redirected, Answered, Request
    <2> QED
      BY <1>2, <2>1, <2>2, <2>3 DEF ResolveInv, RedirectResolves, EntriesStored, Kept
  <1>3. CASE \E pc, entry, hdr, body : /\ Continue(i, k, pc, entry, hdr, body)
                                       /\ entry # None => store'[k] # None
    <2>1. client' = client
      BY <1>3 DEF Continue
    <2>2. \A j \in Instance, l \in Variant :
            flight'[j][l].entry # None => \/ flight[j][l].entry # None
                                          \/ l = k /\ store'[k] # None
      <3>1. PICK pc, entry, hdr, body : /\ Continue(i, k, pc, entry, hdr, body)
                                        /\ entry # None => store'[k] # None
        BY <1>3
      <3> DEFINE next == [pc |-> pc, entry |-> entry, hdr |-> hdr, body |-> body,
                          floor |-> flight[i][k].floor]
      <3>2. \A j \in Instance, l \in Variant :
              flight'[j][l] = IF j = i /\ l = k THEN next ELSE flight[j][l]
        BY <3>1, FlightContinues
      <3>3. next.entry = entry
        OBVIOUS
      <3> HIDE DEF next
      <3> QED
        BY <3>1, <3>2, <3>3
    <2>3. \A c \in Client : Redirected(c) => client[c].key \in Variant
      BY DEF TypeOK, Redirected, Answered, Request
    <2> QED
      BY <2>1, <2>2, <2>3 DEF ResolveInv, RedirectResolves, EntriesStored, Kept, Redirected, Answered
  <1> QED
    BY <1>1, <1>2, <1>3

\* What puts and touches write is an object.
LEMMA WritesObjects ==
    ASSUME TypeOK, NEW i \in Instance, NEW k \in Variant
    PROVE  /\ flight[i][k].pc = "put" => NewObject(flight[i][k].body, flight[i][k].hdr) # None
           /\ flight[i][k].pc \in {"touch", "copying"}
                => /\ flight[i][k].entry # None
                   /\ NewObject(flight[i][k].entry.body, flight[i][k].hdr) # None
                   /\ store[k] # None => NewObject(store[k].body, flight[i][k].hdr) # None
  <1>1. Equipped(flight[i][k])
    BY DEF TypeOK
  <1>2. ASSUME NEW b \in Body, NEW h \in Header
        PROVE  NewObject(b, h) # None
    BY NewObjectType, ConstantsAssumption
  <1>3. flight[i][k].entry \in Entry => /\ flight[i][k].entry # None
                                        /\ flight[i][k].entry.body \in Body
    BY ConstantsAssumption DEF Entry
  <1>4. store[k] # None => store[k].body \in Body
    BY DEF TypeOK, Object
  <1> QED
    BY <1>1, <1>2, <1>3, <1>4 DEF Equipped

LEMMA ResolveProgress ==
    ASSUME TypeOK, ResolveInv, NEW i \in Instance, NEW k \in Variant,
           Progress(i, k) \/ PutUnacknowledged(i, k)
    PROVE  ResolveInv'
  <1> DEFINE f == flight[i][k]
  <1>1. f.entry # None => store[k] # None
    BY DEF ResolveInv, EntriesStored
  <1>2. UNCHANGED store => Kept
    BY DEF Kept
  <1>3. \A o : o # None /\ store' = [store EXCEPT ![k] = o] => Kept /\ store'[k] # None
    BY DEF Kept, TypeOK
  <1>4. \A hdr : /\ f.entry # None
                 /\ Revalidated(i, k, hdr)
                 => \/ \E action, cause, body : Redirect(i, k, action, cause, body)
                    \/ \E pc, entry, h, body : Continue(i, k, pc, entry, h, body)
    BY DEF Revalidated
  <1>5. CASE ServeFresh(i, k)
    BY <1>2, <1>5, ResolveStep DEF ServeFresh
  <1>6. CASE StartFetch(i, k)
    BY <1>2, <1>6, ResolveStep DEF StartFetch
  <1>7. CASE FetchFails(i, k)
    BY <1>1, <1>2, <1>7, ResolveStep DEF FetchFails
  <1>8. CASE UpstreamStatus(i, k)
    BY <1>1, <1>2, <1>8, ResolveStep DEF UpstreamStatus
  <1>9. CASE NotModified(i, k)
    BY <1>1, <1>2, <1>4, <1>9, ResolveStep DEF NotModified
  <1>10. CASE FullResponse(i, k)
    BY <1>1, <1>2, <1>4, <1>10, ResolveStep DEF FullResponse
  <1>11. CASE PutLands(i, k)
    BY <1>3, <1>11, ResolveStep, WritesObjects DEF PutLands
  <1>12. CASE PutUnacknowledged(i, k)
    <2>1. Kept /\ UNCHANGED <<flight, client>>
      BY <1>3, <1>12, WritesObjects DEF PutUnacknowledged
    <2>2. \A c \in Client : Redirected(c) => client[c].key \in Variant
      BY DEF TypeOK, Redirected, Answered, Request
    <2> QED
      BY <2>1, <2>2 DEF ResolveInv, RedirectResolves, EntriesStored, Kept, Redirected, Answered
  <1>13. CASE PutFails(i, k)
    BY <1>2, <1>13, ResolveStep DEF PutFails
  <1>14. CASE BodyBreaks(i, k)
    BY <1>2, <1>14, ResolveStep DEF BodyBreaks
  <1>15. CASE TouchLands(i, k)
    BY <1>3, <1>15, ResolveStep, WritesObjects DEF TouchLands, CopyMatches
  <1>16. CASE TouchFails(i, k)
    BY <1>1, <1>2, <1>16, ResolveStep, WritesObjects DEF TouchFails
  <1>17. CASE CopyStarts(i, k)
    BY <1>2, <1>17, ResolveStep DEF CopyStarts, CopyMatches
  <1>18. CASE CopyLands(i, k)
    BY <1>3, <1>18, ResolveStep, WritesObjects DEF CopyLands
  <1> QED
    BY <1>5, <1>6, <1>7, <1>8, <1>9, <1>10, <1>11, <1>12, <1>13, <1>14, <1>15, <1>16,
       <1>17, <1>18 DEF Progress

\* Unless an operator deletes objects, a redirect leads to an object whatever
\* puts, touches, failures, crashes and late writes of any instance do between
\* the lookup and the download (fetchAndCache, GetPresignedURL).
THEOREM RedirectsResolve ==
    ASSUME "delete" \notin Faults
    PROVE  Spec => []RedirectResolves
  <1>1. Init => ResolveInv
    BY DEF Init, ResolveInv, RedirectResolves, EntriesStored, Redirected, Answered, Idle
  <1>2. TypeOK /\ ResolveInv /\ [Next]_vars => ResolveInv'
    <2> SUFFICES ASSUME TypeOK, ResolveInv, [Next]_vars PROVE ResolveInv'
      OBVIOUS
    <2>1. \A c \in Client : Redirected(c) => client[c].key \in Variant
      BY DEF TypeOK, Redirected, Answered, Request
    <2>2. ASSUME Kept,
                 \A c \in Client : Redirected(c)' => client'[c] = client[c],
                 \A i \in Instance, k \in Variant :
                   flight'[i][k].entry # None => flight[i][k].entry # None
          PROVE  ResolveInv'
      BY <2>1, <2>2 DEF ResolveInv, RedirectResolves, EntriesStored, Kept, Redirected, Answered
    <2>3. UNCHANGED store => Kept
      BY DEF Kept
    <2>4. CASE \E i \in Instance, k \in Variant : Progress(i, k) \/ PutUnacknowledged(i, k)
      BY <2>4, ResolveProgress
    <2>5. CASE \E c \in Client : Refuse(c)
      <3>1. PICK c \in Client : Refuse(c)
        BY <2>5
      <3>2. PICK i \in Instance, k \in Variant, s \in {200, 400, 405} :
              client' = [client EXCEPT ![c] =
                           [at |-> i, key |-> k,
                            answer |-> [action |-> "refused", cause |-> "none", status |-> s,
                                        body |-> None, cached |-> FALSE, floor |-> 0]]]
        BY <3>1 DEF Refuse
      <3>3. client'[c].answer.action = "refused" /\ \A d \in Client \ {c} : client'[d] = client[d]
        BY <3>2 DEF TypeOK
      <3>4. \A d \in Client : Redirected(d)' => client'[d] = client[d]
        BY <3>3 DEF Redirected, Redirects
      <3> QED
        BY <2>2, <2>3, <3>1, <3>4 DEF Refuse
    <2>6. CASE \E c \in Client : Leave(c)
      <3>1. \A d \in Client : Redirected(d)' => client'[d] = client[d]
        BY <2>6 DEF Leave, TypeOK, Redirected, Answered
      <3> QED
        BY <2>2, <2>3, <2>6, <3>1 DEF Leave
    <2>7. CASE \E c \in Client, i \in Instance, k \in Variant : Arrive(c, i, k)
      <3>1. PICK c \in Client, i \in Instance, k \in Variant : Arrive(c, i, k)
        BY <2>7
      <3>2. client' = [client EXCEPT ![c] = [at |-> i, key |-> k, answer |-> None]]
        BY <3>1 DEF Arrive
      <3>3. \A d \in Client : Redirected(d)' => client'[d] = client[d]
        BY <3>2 DEF TypeOK, Redirected, Answered
      <3> DEFINE led == [Idle EXCEPT !.pc = "head", !.floor = version]
      <3>4. led.entry = None
        BY DEF Idle
      <3>5. flight' = flight \/ flight' = [flight EXCEPT ![i][k] = led]
        BY <3>1 DEF Arrive
      <3> HIDE DEF led
      <3>6. \A j \in Instance, l \in Variant : flight'[j][l] \in {flight[j][l], led}
        BY <3>5 DEF TypeOK
      <3>7. \A j \in Instance, l \in Variant :
              flight'[j][l].entry # None => flight[j][l].entry # None
        BY <3>4, <3>6
      <3> QED
        BY <2>2, <2>3, <3>1, <3>3, <3>7 DEF Arrive
    <2>8. CASE \E i \in Instance : Crash(i)
      <3>1. PICK i \in Instance : Crash(i)
        BY <2>8
      <3>2. \A j \in Instance, l \in Variant : flight'[j][l] \in {flight[j][l], Idle}
        BY <3>1 DEF Crash, TypeOK
      <3>3. \A j \in Instance, l \in Variant :
              flight'[j][l].entry # None => flight[j][l].entry # None
        BY <3>2 DEF Idle
      <3>4. \A d \in Client : Redirected(d)' => client'[d] = client[d]
        BY <3>1 DEF Crash, Redirected, Answered
      <3> QED
        BY <2>2, <2>3, <3>1, <3>3, <3>4 DEF Crash
    <2>9. CASE \E k \in Variant : LateWriteLands(k)
      <3>1. Kept
        BY <2>9 DEF LateWriteLands, Kept, TypeOK
      <3> QED
        BY <2>2, <2>9, <3>1 DEF LateWriteLands
    <2>10. CASE \E k \in Variant : Delete(k)
      BY <2>10 DEF Delete
    <2>11. CASE Publish
      BY <2>2, <2>3, <2>11 DEF Publish
    <2>12. CASE Tick
      <3>1. \A o \in Object : o.resident < Horizon => [o EXCEPT !.resident = @ + 1] \in Object
        BY ConstantsAssumption DEF Object
      <3>2. \A k \in Variant : store[k] # None => store'[k] \in Object
        BY <2>12, <3>1 DEF Tick, TypeOK
      <3>3. Kept
        BY <3>2, ConstantsAssumption DEF Kept
      <3> QED
        BY <2>2, <2>12, <3>3 DEF Tick
    <2>13. CASE UNCHANGED vars
      BY <2>2, <2>3, <2>13 DEF vars
    <2> QED
      BY <2>4, <2>5, <2>6, <2>7, <2>8, <2>9, <2>10, <2>11, <2>12, <2>13 DEF Next
  <1>3. ResolveInv => RedirectResolves
    BY DEF ResolveInv
  <1> QED
    BY TypeCorrect, <1>1, <1>2, <1>3, PTL DEF Spec

-----------------------------------------------------------------------------
(* A flight answers or goes on                                             *)

\* The calls a flight may go on to.
Further == {"fetch", "put", "touch"} \cup (IF CopyIsAtomic THEN {} ELSE {"copying"})

Ends(i, k) == \E answer \in Answer : Finish(i, k, answer)
GoesOn(i, k) ==
    \E pc \in Further : \E entry, hdr, body : Continue(i, k, pc, entry, hdr, body)

LEMMA FailEnds ==
    ASSUME TypeOK, NEW i \in Instance, NEW k \in Variant,
           NEW cause \in {"none", "status", "cache", "body", "presign"} \cup FetchErrors,
           NEW status \in Nat, Fail(i, k, cause, status)
    PROVE  Ends(i, k)
  <1> DEFINE answer == [action |-> "error", cause |-> cause, status |-> status,
                        body   |-> None, cached |-> flight[i][k].entry # None,
                        floor  |-> flight[i][k].floor]
  <1>1. flight[i][k].floor \in 0..MaxVersion
    BY DEF TypeOK, Flight
  <1>2. answer \in Answer
    BY <1>1 DEF Answer
  <1>3. Finish(i, k, answer)
    BY DEF Fail
  <1> HIDE DEF answer
  <1> QED
    BY <1>2, <1>3 DEF Ends

LEMMA RedirectEnds ==
    ASSUME TypeOK, NEW i \in Instance, NEW k \in Variant,
           NEW action \in Redirects,
           NEW cause \in {"none", "status", "cache", "body", "presign"} \cup FetchErrors,
           NEW body \in Body, Redirect(i, k, action, cause, body)
    PROVE  Ends(i, k)
  <1> DEFINE answer == [action |-> action, cause |-> cause, status |-> 303,
                        body   |-> body, cached |-> flight[i][k].entry # None,
                        floor  |-> flight[i][k].floor]
  <1>1. flight[i][k].floor \in 0..MaxVersion
    BY DEF TypeOK, Flight
  <1>2. answer \in Answer
    BY <1>1 DEF Answer, Redirects
  <1>3. CASE Finish(i, k, answer)
    <2> HIDE DEF answer
    <2> QED
      BY <1>2, <1>3 DEF Ends
  <1>4. CASE Fail(i, k, "presign", 502)
    BY <1>4, FailEnds
  <1> QED
    BY <1>3, <1>4 DEF Redirect

\* Every step of a flight hands its requests an answer or goes on to another
\* call: no path of fetchAndCache drops them.
LEMMA FlightStep ==
    ASSUME TypeOK, NEW i \in Instance, NEW k \in Variant, Progress(i, k)
    PROVE  Ends(i, k) \/ GoesOn(i, k)
  <1> DEFINE f == flight[i][k]
  <1>1. f.entry # None => f.entry.body \in Body
    BY DEF TypeOK, Flight, Entry
  <1>2. f.pc = "put" => f.body \in Body
    BY DEF TypeOK, Equipped
  <1>3. f.pc \in {"touch", "copying"} => f.entry.body \in Body
    BY DEF TypeOK, Equipped, Entry
  <1>4. {"fetch", "put", "touch"} \subseteq Further
    BY DEF Further
  <1>5. \A hdr : /\ f.entry # None
                 /\ Revalidated(i, k, hdr)
                 => Ends(i, k) \/ GoesOn(i, k)
    BY <1>1, <1>4, RedirectEnds DEF Revalidated, GoesOn, Redirects
  <1>6. CASE ServeFresh(i, k)
    <2>1. store[k].body \in Body
      BY <1>6 DEF ServeFresh, TypeOK, Object
    <2> QED
      BY <1>6, <2>1, RedirectEnds DEF ServeFresh, Redirects
  <1>7. CASE StartFetch(i, k)
    BY <1>4, <1>7 DEF StartFetch, GoesOn
  <1>8. CASE FetchFails(i, k)
    <2>1. PICK err \in FetchErrors :
            \/ f.entry # None /\ Redirect(i, k, "stale", err, f.entry.body)
            \/ Fail(i, k, err, 502)
      BY <1>8 DEF FetchFails
    <2>2. err \in {"none", "status", "cache", "body", "presign"} \cup FetchErrors
      OBVIOUS
    <2>3. 502 \in Nat /\ "stale" \in Redirects
      BY DEF Redirects
    <2> QED
      BY <1>1, <2>1, <2>2, <2>3, RedirectEnds, FailEnds
  <1>9. CASE UpstreamStatus(i, k)
    BY <1>1, <1>9, ConstantsAssumption, RedirectEnds, FailEnds DEF UpstreamStatus, Redirects
  <1>10. CASE NotModified(i, k)
    BY <1>5, <1>10 DEF NotModified
  <1>11. CASE FullResponse(i, k)
    <2>1. PICK d \in Declaration :
            \/ f.entry # None /\ Revalidated(i, k, Response(Selected(k), d))
            \/ Continue(i, k, "put", f.entry, Response(Selected(k), d), Selected(k))
      BY <1>11 DEF FullResponse
    <2> QED
      BY <1>4, <1>5, <2>1 DEF GoesOn
  <1>12. CASE PutLands(i, k)
    BY <1>2, <1>12, RedirectEnds DEF PutLands, Redirects
  <1>13. CASE PutFails(i, k)
    BY <1>13, FailEnds DEF PutFails
  <1>14. CASE BodyBreaks(i, k)
    BY <1>14, FailEnds DEF BodyBreaks
  <1>15. CASE TouchLands(i, k)
    BY <1>3, <1>15, RedirectEnds DEF TouchLands, Redirects
  <1>16. CASE TouchFails(i, k)
    BY <1>3, <1>16, RedirectEnds DEF TouchFails, Redirects
  <1>17. CASE CopyStarts(i, k)
    <2>1. "copying" \in Further
      BY <1>17 DEF CopyStarts, Further
    <2> QED
      BY <1>17, <2>1 DEF CopyStarts, GoesOn
  <1>18. CASE CopyLands(i, k)
    BY <1>3, <1>18, RedirectEnds DEF CopyLands, Redirects
  <1> QED
    BY <1>6, <1>7, <1>8, <1>9, <1>10, <1>11, <1>12, <1>13, <1>14, <1>15, <1>16,
       <1>17, <1>18 DEF Progress

-----------------------------------------------------------------------------
(* Nobody waits on a flight that is gone                                   *)

LEMMA OrphanProgress ==
    ASSUME TypeOK, NoOrphans, NEW i \in Instance, NEW k \in Variant, Progress(i, k)
    PROVE  NoOrphans'
  <1>1. CASE Ends(i, k)
    <2>1. PICK answer \in Answer : Finish(i, k, answer)
      BY <1>1 DEF Ends
    <2>2. answer # None
      BY AnswerAssumption
    <2>3. \A c \in Client : Waiting(c)' => /\ client'[c] = client[c] /\ Waiting(c)
                                          /\ ~(client[c].at = i /\ client[c].key = k)
      <3> SUFFICES ASSUME NEW c \in Client, Waiting(c)'
                   PROVE  /\ client'[c] = client[c] /\ Waiting(c)
                          /\ ~(client[c].at = i /\ client[c].key = k)
        OBVIOUS
      <3>1. CASE Waiting(c) /\ client[c].at = i /\ client[c].key = k
        <4>1. client[c] \in Request /\ client'[c] = [client[c] EXCEPT !.answer = answer]
          BY <2>1, <3>1 DEF Finish, Waiting, TypeOK
        <4>2. client'[c].answer = answer
          BY <4>1 DEF Request
        <4> QED
          BY <2>2, <4>2 DEF Waiting
      <3>2. CASE ~(Waiting(c) /\ client[c].at = i /\ client[c].key = k)
        BY <2>1, <3>2 DEF Finish, Waiting
      <3> QED
        BY <3>1, <3>2
    <2>4. \A j \in Instance, l \in Variant :
            flight'[j][l] = IF j = i /\ l = k THEN Idle ELSE flight[j][l]
      BY <2>1, FlightEnds
    <2>5. \A c \in Client : Waiting(c) => client[c].at \in Instance /\ client[c].key \in Variant
      BY DEF TypeOK, Waiting, Request
    <2> QED
      BY <2>3, <2>4, <2>5 DEF NoOrphans
  <1>2. CASE GoesOn(i, k)
    <2>0. PICK pc \in Further : \E entry, hdr, body : Continue(i, k, pc, entry, hdr, body)
      BY <1>2 DEF GoesOn
    <2>1. PICK entry, hdr, body : Continue(i, k, pc, entry, hdr, body)
      BY <2>0
    <2> DEFINE next == [pc |-> pc, entry |-> entry, hdr |-> hdr, body |-> body,
                        floor |-> flight[i][k].floor]
    <2>2. \A j \in Instance, l \in Variant :
            flight'[j][l] = IF j = i /\ l = k THEN next ELSE flight[j][l]
      BY <2>1, FlightContinues
    <2>3. next.pc # "idle"
      BY DEF Further
    <2> HIDE DEF next
    <2>4. client' = client
      BY <2>1 DEF Continue
    <2>5. \A c \in Client : Waiting(c) => client[c].at \in Instance /\ client[c].key \in Variant
      BY DEF TypeOK, Waiting, Request
    <2> QED
      BY <2>2, <2>3, <2>4, <2>5 DEF NoOrphans, Waiting
  <1> QED
    BY <1>1, <1>2, FlightStep

\* Whoever joined a flight is answered by it or goes with it: no failure,
\* retry, crash or late joiner leaves a request waiting for a flight that is
\* not under way (ServeHTTP on singleflight.Do).
THEOREM OrphansNever == Spec => []NoOrphans
  <1>1. Init => NoOrphans
    BY DEF Init, NoOrphans, Waiting
  <1>2. TypeOK /\ NoOrphans /\ [Next]_vars => NoOrphans'
    <2> SUFFICES ASSUME TypeOK, NoOrphans, [Next]_vars PROVE NoOrphans'
      OBVIOUS
    <2>1. \A c \in Client : Waiting(c) => client[c].at \in Instance /\ client[c].key \in Variant
      BY DEF TypeOK, Waiting, Request
    <2>2. ASSUME \A c \in Client : Waiting(c)' => client'[c] = client[c],
                 UNCHANGED flight
          PROVE  NoOrphans'
      BY <2>2 DEF NoOrphans, Waiting
    <2>3. CASE \E i \in Instance, k \in Variant : Progress(i, k)
      BY <2>3, OrphanProgress
    <2>4. CASE \E i \in Instance, k \in Variant : PutUnacknowledged(i, k)
      BY <2>2, <2>4 DEF PutUnacknowledged
    <2>5. CASE \E c \in Client : Refuse(c)
      <3>1. PICK c \in Client : Refuse(c)
        BY <2>5
      <3>2. PICK i \in Instance, k \in Variant, s \in {200, 400, 405} :
              client' = [client EXCEPT ![c] =
                           [at |-> i, key |-> k,
                            answer |-> [action |-> "refused", cause |-> "none", status |-> s,
                                        body |-> None, cached |-> FALSE, floor |-> 0]]]
        BY <3>1 DEF Refuse
      <3> DEFINE refusal == [action |-> "refused", cause |-> "none", status |-> s,
                             body |-> None, cached |-> FALSE, floor |-> 0]
      <3>3. refusal \in Answer
        BY ConstantsAssumption DEF Answer
      <3>4. client'[c].answer = refusal /\ \A d \in Client \ {c} : client'[d] = client[d]
        BY <3>2 DEF TypeOK
      <3> HIDE DEF refusal
      <3>5. ~Waiting(c)'
        BY <3>3, <3>4, AnswerAssumption DEF Waiting
      <3> QED
        BY <2>2, <3>1, <3>4, <3>5 DEF Refuse
    <2>6. CASE \E c \in Client : Leave(c)
      BY <2>2, <2>6 DEF Leave, TypeOK, Waiting
    <2>7. CASE \E c \in Client, i \in Instance, k \in Variant : Arrive(c, i, k)
      <3>1. PICK c \in Client, i \in Instance, k \in Variant : Arrive(c, i, k)
        BY <2>7
      <3>2. client' = [client EXCEPT ![c] = [at |-> i, key |-> k, answer |-> None]]
        BY <3>1 DEF Arrive
      <3>3. /\ client'[c].at = i /\ client'[c].key = k
            /\ \A d \in Client \ {c} : client'[d] = client[d]
        BY <3>2 DEF TypeOK
      <3> DEFINE led == [Idle EXCEPT !.pc = "head", !.floor = version]
      <3>4. led.pc = "head"
        BY DEF Idle
      <3>5. flight' = IF flight[i][k].pc = "idle" THEN [flight EXCEPT ![i][k] = led] ELSE flight
        BY <3>1 DEF Arrive
      <3> HIDE DEF led
      <3>6. \A j \in Instance, l \in Variant : flight'[j][l] \in {flight[j][l], led}
        BY <3>5 DEF TypeOK
      <3>7. flight'[i][k].pc # "idle"
        BY <3>4, <3>5 DEF TypeOK
      <3>8. \A d \in Client \ {c} : Waiting(d)' => flight'[client'[d].at][client'[d].key].pc # "idle"
        BY <2>1, <3>3, <3>4, <3>6 DEF NoOrphans, Waiting
      <3> QED
        BY <3>3, <3>7, <3>8 DEF NoOrphans
    <2>8. CASE \E i \in Instance : Crash(i)
      <3>1. PICK i \in Instance : Crash(i)
        BY <2>8
      <3>2. \A c \in Client : Waiting(c)' => /\ client'[c] = client[c] /\ Waiting(c)
                                            /\ client[c].at # i
        BY <3>1 DEF Crash, Waiting
      <3>3. \A j \in Instance, l \in Variant : j # i => flight'[j][l] = flight[j][l]
        BY <3>1 DEF Crash, TypeOK
      <3> QED
        BY <2>1, <3>2, <3>3 DEF NoOrphans
    <2>9. CASE \E k \in Variant : LateWriteLands(k) \/ Delete(k)
      BY <2>2, <2>9 DEF LateWriteLands, Delete
    <2>10. CASE Publish \/ Tick
      BY <2>2, <2>10 DEF Publish, Tick
    <2>11. CASE UNCHANGED vars
      BY <2>2, <2>11 DEF vars
    <2> QED
      BY <2>3, <2>4, <2>5, <2>6, <2>7, <2>8, <2>9, <2>10, <2>11 DEF Next
  <1> QED
    BY TypeCorrect, <1>1, <1>2, PTL DEF Spec

-----------------------------------------------------------------------------
(* A touch loses to a put                                                  *)

\* Where S3 checks and writes in one step, no flight is between the two.
NoCopying == \A i \in Instance, k \in Variant : flight[i][k].pc # "copying"

\* A step of one flight leaves the others as they are.
LEMMA OthersStay ==
    ASSUME TypeOK, NEW i \in Instance, NEW k \in Variant, Progress(i, k)
    PROVE  \A j \in Instance, l \in Variant :
             /\ j # i \/ l # k => flight'[j][l] = flight[j][l]
             /\ j = i /\ l = k => flight'[j][l].pc \in {"idle"} \cup Further
  <1>1. CASE Ends(i, k)
    BY <1>1, FlightEnds DEF Ends, Idle
  <1>2. CASE GoesOn(i, k)
    <2>0. PICK pc \in Further : \E entry, hdr, body : Continue(i, k, pc, entry, hdr, body)
      BY <1>2 DEF GoesOn
    <2>1. PICK entry, hdr, body : Continue(i, k, pc, entry, hdr, body)
      BY <2>0
    <2> DEFINE next == [pc |-> pc, entry |-> entry, hdr |-> hdr, body |-> body,
                        floor |-> flight[i][k].floor]
    <2>2. \A j \in Instance, l \in Variant :
            flight'[j][l] = IF j = i /\ l = k THEN next ELSE flight[j][l]
      BY <2>1, FlightContinues
    <2>3. next.pc \in Further
      OBVIOUS
    <2> HIDE DEF next
    <2> QED
      BY <2>2, <2>3
  <1> QED
    BY <1>1, <1>2, FlightStep

\* The environment ends no flight but by a crash, which leaves the bucket alone.
LEMMA EnvironmentStays ==
    ASSUME TypeOK, [Next]_vars,
           ~ \E i \in Instance, k \in Variant : Progress(i, k)
    PROVE  /\ \A j \in Instance, l \in Variant :
                flight'[j][l].pc \in {flight[j][l].pc, "idle", "head"}
           /\ \/ UNCHANGED store
              \/ \A j \in Instance, l \in Variant : flight'[j][l].pc = flight[j][l].pc
  <1>1. CASE UNCHANGED flight
    BY <1>1
  <1>2. CASE \E c \in Client, i \in Instance, k \in Variant : Arrive(c, i, k)
    <2>1. PICK c \in Client, i \in Instance, k \in Variant : Arrive(c, i, k)
      BY <1>2
    <2> DEFINE led == [Idle EXCEPT !.pc = "head", !.floor = version]
    <2>2. led.pc = "head"
      BY DEF Idle
    <2>3. flight' = flight \/ flight' = [flight EXCEPT ![i][k] = led]
      BY <2>1 DEF Arrive
    <2> HIDE DEF led
    <2>4. \A j \in Instance, l \in Variant : flight'[j][l] \in {flight[j][l], led}
      BY <2>3 DEF TypeOK
    <2> QED
      BY <2>1, <2>2, <2>4 DEF Arrive
  <1>3. CASE \E i \in Instance : Crash(i)
    <2>1. PICK i \in Instance : Crash(i)
      BY <1>3
    <2>2. \A j \in Instance, l \in Variant : flight'[j][l] \in {flight[j][l], Idle}
      BY <2>1 DEF Crash, TypeOK
    <2> QED
      BY <2>1, <2>2 DEF Crash, Idle
  <1> QED
    BY <1>1, <1>2, <1>3 DEF Next, vars, PutUnacknowledged, Refuse, Leave, LateWriteLands,
       Delete, Publish, Tick

\* If CopyObject checks its condition and writes atomically, the end of a touch
\* never replaces the bytes another instance has put since the flight read its
\* entry (Touch and its CopySourceIfMatch).
THEOREM TouchLoses ==
    ASSUME CopyIsAtomic
    PROVE  Spec => TouchLosesToPut
  <1> DEFINE Loses == \A i \in Instance, k \in Variant :
                        /\ flight[i][k].pc \in {"touch", "copying"}
                        /\ flight'[i][k].pc = "idle"
                        /\ store[k] # None
                        => /\ store'[k] # None
                           /\ BytesOf[store'[k].body] = BytesOf[store[k].body]
  <1>1. Init => NoCopying
    BY DEF Init, NoCopying, Idle
  <1>2. TypeOK /\ NoCopying /\ [Next]_vars => NoCopying'
    <2> SUFFICES ASSUME TypeOK, NoCopying, [Next]_vars PROVE NoCopying'
      OBVIOUS
    <2>1. CASE \E i \in Instance, k \in Variant : Progress(i, k)
      <3>1. "copying" \notin {"idle"} \cup Further
        BY DEF Further
      <3> QED
        BY <2>1, <3>1, OthersStay DEF NoCopying
    <2>2. CASE ~ \E i \in Instance, k \in Variant : Progress(i, k)
      BY <2>2, EnvironmentStays DEF NoCopying
    <2> QED
      BY <2>1, <2>2
  <1>3. TypeOK /\ NoCopying /\ [Next]_vars => [Loses]_vars
    <2> SUFFICES ASSUME TypeOK, NoCopying, [Next]_vars,
                        NEW i \in Instance, NEW k \in Variant,
                        flight[i][k].pc \in {"touch", "copying"},
                        flight'[i][k].pc = "idle",
                        store[k] # None
                 PROVE  /\ store'[k] # None
                        /\ BytesOf[store'[k].body] = BytesOf[store[k].body]
      OBVIOUS
    <2>1. flight[i][k].pc = "touch"
      BY DEF NoCopying
    <2>2. CASE \E j \in Instance, l \in Variant : Progress(j, l)
      <3>1. Progress(i, k)
        BY <2>1, <2>2, OthersStay
      <3>2. CASE TouchLands(i, k)
        <4> DEFINE new == NewObject(store[k].body, flight[i][k].hdr)
        <4>1. store' = [store EXCEPT ![k] = new]
          BY <3>2 DEF TouchLands
        <4>2. new.body = store[k].body
          BY DEF NewObject
        <4>3. new # None
          BY <2>1, WritesObjects
        <4> HIDE DEF new
        <4>4. store'[k] = new
          BY <4>1 DEF TypeOK
        <4> QED
          BY <4>2, <4>3, <4>4
      <3>3. CASE TouchFails(i, k)
        BY <3>3 DEF TouchFails
      <3> QED
        BY <2>1, <3>1, <3>2, <3>3 DEF Progress, ServeFresh, StartFetch, FetchFails,
           UpstreamStatus, NotModified, FullResponse, PutLands, PutFails, BodyBreaks,
           CopyStarts, CopyLands
    <2>3. CASE ~ \E j \in Instance, l \in Variant : Progress(j, l)
      BY <2>1, <2>3, EnvironmentStays
    <2> QED
      BY <2>2, <2>3
  <1> QED
    BY TypeCorrect, <1>1, <1>2, <1>3, PTL DEF Spec, TouchLosesToPut
=============================================================================
