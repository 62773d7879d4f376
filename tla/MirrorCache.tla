---------------------------- MODULE MirrorCache ----------------------------
(***************************************************************************)
(* The request path of the mirror for one upstream URL: a fleet of         *)
(* instances (server.go), each deduplicating its requests per cache key    *)
(* with singleflight, all sharing one S3 bucket (s3_cache.go), in front of *)
(* an origin that publishes new versions of the resource while requests    *)
(* are under way.                                                          *)
(*                                                                         *)
(* A cache key is the URL plus the request's Accept header, so the keys of *)
(* this model are the Accept values and NoAccept, the URL-only key.  A     *)
(* flight is one run of fetchAndCache.  Time only ages stored objects:     *)
(* the gate reads now - StoredAt, kept here as the object's resident time. *)
(***************************************************************************)
EXTENDS Freshness

CONSTANTS
    Client, Instance,
    Accept,             \* the non-empty Accept headers clients send
    NoAccept,           \* stands for a request without one
    None,               \* no object, no entry, no answer

    \* What the origin publishes.
    MaxVersion,         \* bound: versions published, 1..MaxVersion
    Negotiates,         \* whether the resource varies on Accept
    ETag,               \* the entity tags it uses
    StrongETag,         \* those that are strong and well formed
    ContentType,
    ETagOf, LastModifiedOf, ContentTypeOf, BytesOf, \* functions on Body
    Oversized,          \* bodies above the CopyObject limit
    Declaration,        \* cache declarations of its 200s and 304s
    Revalidator,        \* "etag", "date" or "none": how it answers conditionals
    Statuses,           \* other statuses it may answer with
    FetchErrors,        \* errors of client.Do

    \* Flags of the mirror.
    OnConnectionError, On5xx, OnAnyError,
    HonorFreshness, FreshnessCap,

    \* What the environment may do.
    Faults,             \* a subset of FaultKinds
    Corpus,             \* objects the URL-only key may already hold
    CopyIsAtomic,       \* whether CopyObject checks and writes in one step
    Horizon             \* bound: resident times saturate here

Variant == Accept \cup {NoAccept}
Version == 1..MaxVersion

\* A representation of the resource: which version, negotiated for what.
Body == [version : Version, accept : Variant]

FaultKinds == {"head", "presign", "put", "lateWrite", "lostReply", "body",
               "touch", "conn", "crash", "delete"}

Header ==
    [etag         : ETag \cup {Absent},
     lastModified : HTTPDate,
     cacheControl : CacheControl \cup {Absent},
     expires      : HTTPDate,
     vary         : (SUBSET FieldName) \cup {Absent},
     age          : DeltaSeconds,
     date         : HTTPDate,
     contentType  : ContentType]

\* An S3 object: the bytes, the stored header metadata, S3's own
\* Content-Type, and the time since LastModified.
Object == [body : Body, hdr : Header, ctype : ContentType, resident : 0..Horizon]

\* A cache hit.  BytesOf[body] is also the object's S3 ETag, a content hash.
Entry == [body : Body, hdr : Header]

ASSUME ConstantsAssumption ==
    /\ NoAccept \notin Accept
    /\ MaxVersion \in Nat \ {0}
    /\ Horizon \in Nat \ {0}
    /\ StrongETag \subseteq ETag
    /\ Absent \notin ETag
    /\ ETagOf \in [Body -> ETag \cup {Absent}]
    /\ LastModifiedOf \in [Body -> Int \cup {Absent}]
    /\ ContentTypeOf \in [Body -> ContentType]
    /\ DOMAIN BytesOf = Body
    /\ Oversized \subseteq Body
    /\ Faults \subseteq FaultKinds
    /\ \A d \in Declaration : /\ d.cacheControl \in CacheControl \cup {Absent}
                              /\ d.age \in DeltaSeconds
    /\ None \notin Entry
    /\ None \notin Object
    /\ Corpus \subseteq Object
    /\ Statuses \subseteq Nat

VARIABLES
    version,    \* the version the origin now publishes
    store,      \* the bucket: store[k] is the object under key k, or None
    limbo,      \* a write to k whose sender gave up, which S3 may yet perform
    flight,     \* flight[i][k]: instance i's singleflight entry for key k
    client      \* client[c]: the request c has under way, or None

vars == <<version, store, limbo, flight, client>>

-----------------------------------------------------------------------------
(* Answers                                                                 *)

\* What ServeHTTP writes, with what the decision rested on: the body it
\* vouched for, whether there was a cached entry, the origin's version when
\* the flight began.
Answer ==
    [action : {"fresh", "stale", "revalidated", "refreshed", "cached",
               "error", "refused"},
     cause  : {"none", "status", "cache", "body", "presign"} \cup FetchErrors,
     status : Nat,
     body   : Body \cup {None},
     cached : BOOLEAN,
     floor  : 0..MaxVersion]

ASSUME AnswerAssumption == None \notin Answer

Redirects == {"fresh", "stale", "revalidated", "refreshed", "cached"}

Request == [at : Instance, key : Variant, answer : Answer \cup {None}]

Idle == [pc |-> "idle", entry |-> None, hdr |-> None, body |-> None, floor |-> 0]

Waiting(c)  == client[c] # None /\ client[c].answer = None
Answered(c) == client[c] # None /\ client[c].answer # None
Redirected(c) == Answered(c) /\ client[c].answer.action \in Redirects

-----------------------------------------------------------------------------
(* The origin and its answers                                              *)

\* The representation the origin selects for a request under key k.
Selected(k) == [version |-> version, accept |-> IF Negotiates THEN k ELSE NoAccept]

\* The headers of a response for body b that carries declaration d.
Response(b, d) ==
    [etag         |-> ETagOf[b],
     lastModified |-> LastModifiedOf[b],
     cacheControl |-> d.cacheControl,
     expires      |-> Absent,
     vary         |-> IF Negotiates THEN {"Accept"} ELSE Absent,
     age          |-> d.age,
     date         |-> Absent,
     contentType  |-> ContentTypeOf[b]]

\* A 304 may leave out the entity tag.
Confirmation(b) ==
    UNION {{Response(b, d), [Response(b, d) EXCEPT !.etag = Absent]} : d \in Declaration}

\* injectCacheHeadersIntoRequest: the stored validators, sent back.
Conditions(entry) == [ifNoneMatch     |-> entry.hdr.etag,
                      ifModifiedSince |-> entry.hdr.lastModified]

\* Whether the origin answers the conditional request with a 304.  "etag"
\* compares tags, and dates only when it was sent no tag; "date" looks at
\* If-Modified-Since alone; "none" ignores conditions, as a CDN that strips
\* them does.
Confirms(cond, b) ==
    LET unmodified == /\ Given(cond.ifModifiedSince)
                      /\ Given(LastModifiedOf[b])
                      /\ LastModifiedOf[b] <= cond.ifModifiedSince
    IN  CASE Revalidator = "etag" -> IF cond.ifNoneMatch # Absent
                                     THEN cond.ifNoneMatch = ETagOf[b]
                                     ELSE unmodified
          [] Revalidator = "date" -> unmodified
          [] OTHER -> FALSE

-----------------------------------------------------------------------------
(* The mirror's decisions                                                  *)

\* Mutant: the URL-only key claims to encode Accept too.
KeyHeadersAlways(k) == {"Accept"}

\* acceptVariantKeyFunc: which request headers the key encodes.
KeyHeaders(k) == IF k = NoAccept THEN {} ELSE {"Accept"}

\* Mutant: that both have a strong tag is taken for a match.
EtagBothStrong(cached, resp) == cached \in StrongETag /\ resp \in StrongETag

EtagStrongMatch(cached, resp) == cached = resp /\ cached \in StrongETag

\* Every error client.Do returns is a *url.Error, and that type is itself a
\* net.Error, whatever went wrong underneath.
IsConnectionError(err) == err \in FetchErrors

ShouldFallback(err, status) ==
    \/ OnAnyError /\ (err # None \/ status \notin {200, 304})
    \/ err # None /\ OnConnectionError /\ IsConnectionError(err)
    \/ status \in 500..599 /\ On5xx

\* evaluateFreshness, on a found entry resident for the given time.
ServesFresh(entry, resident, k) ==
    HonorFreshness /\ Fresh(entry.hdr, 0, resident, FreshnessCap, KeyHeaders(k))

\* Mutant: the validating response's own entity tag is not looked at.
ShouldTouchAnyTag(entry, validating, k) ==
    /\ HonorFreshness
    /\ Fresh(Merge(entry.hdr, validating), 0, 0, FreshnessCap, KeyHeaders(k))
    /\ entry.body \notin Oversized

\* maybeTouch up to the copy, with Touch's own size check: a validating
\* response with another entity tag, a merged entry that would not be fresh,
\* and an object too large to copy are left alone.
ShouldTouch(entry, validating, k) ==
    /\ HonorFreshness
    /\ \/ validating.etag = Absent
       \/ EtagStrongMatch(entry.hdr.etag, validating.etag)
    /\ Fresh(Merge(entry.hdr, validating), 0, 0, FreshnessCap, KeyHeaders(k))
    /\ entry.body \notin Oversized

NewObject(body, hdr) ==
    [body |-> body, hdr |-> hdr, ctype |-> hdr.contentType, resident |-> 0]

-----------------------------------------------------------------------------
(* Requests and flights                                                    *)

\* Mutant: the result reaches one of the requests that joined.
FinishOne(i, k, answer) ==
    LET joined == {c \in Client : Waiting(c) /\ client[c].at = i /\ client[c].key = k}
    IN  /\ flight' = [flight EXCEPT ![i][k] = Idle]
        /\ client' = IF joined = {} THEN client
                     ELSE [client EXCEPT ![CHOOSE c \in joined : TRUE].answer = answer]

\* The flight of (i, k) ends: singleflight forgets the key and hands the
\* result to every request that joined it.
Finish(i, k, answer) ==
    /\ flight' = [flight EXCEPT ![i][k] = Idle]
    /\ client' = [c \in Client |->
                    IF Waiting(c) /\ client[c].at = i /\ client[c].key = k
                    THEN [client[c] EXCEPT !.answer = answer]
                    ELSE client[c]]

Fail(i, k, cause, status) ==
    Finish(i, k, [action |-> "error", cause |-> cause, status |-> status,
                  body   |-> None, cached |-> flight[i][k].entry # None,
                  floor  |-> flight[i][k].floor])

\* Presigning does not look at the bucket, but can fail on its own.
Redirect(i, k, action, cause, body) ==
    \/ Finish(i, k, [action |-> action, cause |-> cause, status |-> 303,
                     body   |-> body, cached |-> flight[i][k].entry # None,
                     floor  |-> flight[i][k].floor])
    \/ /\ "presign" \in Faults
       /\ Fail(i, k, "presign", 502)

\* The flight goes on to its next call with the given fields replaced.
Continue(i, k, pc, entry, hdr, body) ==
    /\ flight' = [flight EXCEPT ![i][k] =
                    [pc |-> pc, entry |-> entry, hdr |-> hdr, body |-> body,
                     floor |-> flight[i][k].floor]]
    /\ UNCHANGED client

\* ServeHTTP, when it needs no flight: /health, another method, a bad path.
Refuse(c) ==
    /\ client[c] = None
    /\ \E i \in Instance, k \in Variant, s \in {200, 400, 405} :
         client' = [client EXCEPT ![c] =
                     [at |-> i, key |-> k,
                      answer |-> [action |-> "refused", cause |-> "none", status |-> s,
                                  body |-> None, cached |-> FALSE, floor |-> 0]]]
    /\ UNCHANGED <<version, store, limbo, flight>>

\* ServeHTTP: lead a new flight, or join the one under way.
Arrive(c, i, k) ==
    /\ client[c] = None
    /\ client' = [client EXCEPT ![c] = [at |-> i, key |-> k, answer |-> None]]
    /\ flight' = IF flight[i][k].pc = "idle"
                 THEN [flight EXCEPT ![i][k] = [Idle EXCEPT !.pc = "head",
                                                            !.floor = version]]
                 ELSE flight
    /\ UNCHANGED <<version, store, limbo>>

\* A client disconnects, or has downloaded what it was sent to.  The flight
\* runs on a detached context and does not notice.
Leave(c) ==
    /\ client[c] # None
    /\ client' = [client EXCEPT ![c] = None]
    /\ UNCHANGED <<version, store, limbo, flight>>

-----------------------------------------------------------------------------
(* fetchAndCache                                                           *)

\* headEntry finds an entry and the freshness gate passes it: the fast path.
ServeFresh(i, k) ==
    /\ flight[i][k].pc = "head"
    /\ store[k] # None
    /\ ServesFresh([body |-> store[k].body, hdr |-> store[k].hdr], store[k].resident, k)
    /\ Redirect(i, k, "fresh", "none", store[k].body)
    /\ UNCHANGED <<version, store, limbo>>

\* headEntry finds an entry the gate does not pass, and the fetch will be
\* conditional on it; or it finds none, a failed lookup counting as a miss.
StartFetch(i, k) ==
    /\ flight[i][k].pc = "head"
    /\ \/ /\ store[k] # None
          /\ LET entry == [body |-> store[k].body, hdr |-> store[k].hdr]
             IN  /\ ~ServesFresh(entry, store[k].resident, k)
                 /\ Continue(i, k, "fetch", entry, None, None)
       \/ /\ store[k] = None \/ "head" \in Faults
          /\ Continue(i, k, "fetch", None, None, None)
    /\ UNCHANGED <<version, store, limbo>>

\* client.Do returns an error: serve stale if the policy allows it.
FetchFails(i, k) ==
    LET entry == flight[i][k].entry
    IN  /\ flight[i][k].pc = "fetch"
        /\ "conn" \in Faults
        /\ \E err \in FetchErrors :
             IF entry # None /\ ShouldFallback(err, 0)
             THEN Redirect(i, k, "stale", err, entry.body)
             ELSE Fail(i, k, err, 502)
        /\ UNCHANGED <<version, store, limbo>>

\* handleNon200: any status but 200 and a 304 to a conditional request.  A
\* 304 nobody asked for confirms nothing and is relayed like an error.
UpstreamStatus(i, k) ==
    LET entry == flight[i][k].entry
    IN  /\ flight[i][k].pc = "fetch"
        /\ \E status \in Statuses :
             /\ status = 304 => entry = None
             /\ IF entry # None /\ ShouldFallback(None, status)
                THEN Redirect(i, k, "stale", "status", entry.body)
                ELSE Fail(i, k, "status", status)
        /\ UNCHANGED <<version, store, limbo>>

\* The cached entry is confirmed by the response headers hdr: touch it if
\* that would make it fresh, and redirect to it.
Revalidated(i, k, hdr) ==
    LET entry == flight[i][k].entry
    IN  IF ShouldTouch(entry, hdr, k)
        THEN Continue(i, k, "touch", entry, Merge(entry.hdr, hdr), None)
        ELSE Redirect(i, k, "revalidated", "none", entry.body)

\* The origin answers a conditional request with a 304.
NotModified(i, k) ==
    /\ flight[i][k].pc = "fetch"
    /\ flight[i][k].entry # None
    /\ Confirms(Conditions(flight[i][k].entry), Selected(k))
    /\ \E hdr \in Confirmation(Selected(k)) : Revalidated(i, k, hdr)
    /\ UNCHANGED <<version, store, limbo>>

\* The origin answers 200.  Under the entity tag already stored the body is
\* not read; otherwise it is streamed to S3.
FullResponse(i, k) ==
    LET entry == flight[i][k].entry
        body  == Selected(k)
    IN  /\ flight[i][k].pc = "fetch"
        /\ \E d \in Declaration :
             LET hdr == Response(body, d)
             IN  IF entry # None /\ EtagStrongMatch(entry.hdr.etag, hdr.etag)
                 THEN Revalidated(i, k, hdr)
                 ELSE Continue(i, k, "put", entry, hdr, body)
        /\ UNCHANGED <<version, store, limbo>>

\* Mutant: the redirect does not wait for the upload.
PutInBackground(i, k) ==
    LET f == flight[i][k]
    IN  /\ f.pc = "put"
        /\ limbo' = [limbo EXCEPT ![k] = NewObject(f.body, f.hdr)]
        /\ Redirect(i, k, IF f.entry # None THEN "refreshed" ELSE "cached", "none", f.body)
        /\ UNCHANGED <<version, store>>

\* Put succeeds: the object is there and its writer knows.
PutLands(i, k) ==
    LET f == flight[i][k]
    IN  /\ f.pc = "put"
        /\ store' = [store EXCEPT ![k] = NewObject(f.body, f.hdr)]
        /\ Redirect(i, k, IF f.entry # None THEN "refreshed" ELSE "cached", "none", f.body)
        /\ UNCHANGED <<version, limbo>>

\* S3 performs the write and its reply is lost: the SDK tries again, so the
\* same write may land a second time, or fail after all.
PutUnacknowledged(i, k) ==
    LET f == flight[i][k]
    IN  /\ f.pc = "put"
        /\ "lostReply" \in Faults
        /\ store' = [store EXCEPT ![k] = NewObject(f.body, f.hdr)]
        /\ UNCHANGED <<version, limbo, flight, client>>

\* Mutant: a failed upload is answered with a redirect as an upstream failure
\* may be.
PutFailsStale(i, k) ==
    LET f == flight[i][k]
    IN  /\ f.pc = "put"
        /\ "put" \in Faults
        /\ Redirect(i, k, "stale", "cache", f.body)
        /\ UNCHANGED <<version, store, limbo>>

\* Put fails, and the client gets an error whatever the cache holds.  S3 may
\* still perform the write it was sent.
PutFails(i, k) ==
    LET f == flight[i][k]
    IN  /\ f.pc = "put"
        /\ "put" \in Faults
        /\ Fail(i, k, "cache", 502)
        /\ \/ UNCHANGED limbo
           \/ /\ "lateWrite" \in Faults
              /\ limbo' = [limbo EXCEPT ![k] = NewObject(f.body, f.hdr)]
        /\ UNCHANGED <<version, store>>

\* Mutant: what was uploaded before the break is stored.
BodyBreaksStored(i, k) ==
    /\ flight[i][k].pc = "put"
    /\ "body" \in Faults
    /\ store' = [store EXCEPT ![k] = NewObject(None, flight[i][k].hdr)]
    /\ Fail(i, k, "body", 502)
    /\ UNCHANGED <<version, limbo>>

\* The origin breaks off, or the client timeout strikes, while the body is
\* being streamed: the upload fails with it and nothing is stored.
BodyBreaks(i, k) ==
    /\ flight[i][k].pc = "put"
    /\ "body" \in Faults
    /\ Fail(i, k, "body", 502)
    /\ UNCHANGED <<version, store, limbo>>

\* Mutant: the copy is unconditional and writes what the flight has read.
TouchClobbers(i, k) ==
    LET f == flight[i][k]
    IN  /\ f.pc = "touch"
        /\ store[k] # None
        /\ store' = [store EXCEPT ![k] = NewObject(f.entry.body, f.hdr)]
        /\ Redirect(i, k, "revalidated", "none", f.entry.body)
        /\ UNCHANGED <<version, limbo>>

\* CopyObject's condition: the object still has the S3 ETag of the entry.
CopyMatches(i, k) ==
    /\ store[k] # None
    /\ BytesOf[store[k].body] = BytesOf[flight[i][k].entry.body]

\* Touch succeeds: the same bytes under the merged headers, stored just now.
TouchLands(i, k) ==
    LET f == flight[i][k]
    IN  /\ f.pc = "touch"
        /\ CopyIsAtomic
        /\ CopyMatches(i, k)
        /\ store' = [store EXCEPT ![k] = NewObject(store[k].body, f.hdr)]
        /\ Redirect(i, k, "revalidated", "none", f.entry.body)
        /\ UNCHANGED <<version, limbo>>

\* Touch fails, by its condition or otherwise; that is only logged.
TouchFails(i, k) ==
    LET f == flight[i][k]
    IN  /\ f.pc = "touch"
        /\ ~CopyMatches(i, k) \/ "touch" \in Faults
        /\ Redirect(i, k, "revalidated", "none", f.entry.body)
        /\ UNCHANGED <<version, store, limbo>>

\* A copy that is not atomic checks its condition and reads the source when
\* it starts, and writes the object when it ends.
CopyStarts(i, k) ==
    LET f == flight[i][k]
    IN  /\ f.pc = "touch"
        /\ ~CopyIsAtomic
        /\ CopyMatches(i, k)
        /\ Continue(i, k, "copying", f.entry, f.hdr, None)
        /\ UNCHANGED <<version, store, limbo>>

CopyLands(i, k) ==
    LET f == flight[i][k]
    IN  /\ f.pc = "copying"
        /\ store' = [store EXCEPT ![k] = NewObject(f.entry.body, f.hdr)]
        /\ Redirect(i, k, "revalidated", "none", f.entry.body)
        /\ UNCHANGED <<version, limbo>>

-----------------------------------------------------------------------------
(* The environment                                                         *)

\* An instance dies and restarts: its flights and the requests on them are
\* gone.  S3 may still perform the writes it was sent.
Crash(i) ==
    /\ "crash" \in Faults
    /\ \E k \in Variant : flight[i][k].pc # "idle"
    /\ flight' = [flight EXCEPT ![i] = [k \in Variant |-> Idle]]
    /\ client' = [c \in Client |-> IF Waiting(c) /\ client[c].at = i THEN None ELSE client[c]]
    /\ \/ UNCHANGED limbo
       \/ /\ "lateWrite" \in Faults
          /\ \E k \in Variant :
               /\ flight[i][k].pc = "put"
               /\ limbo' = [limbo EXCEPT ![k] = NewObject(flight[i][k].body, flight[i][k].hdr)]
    /\ UNCHANGED <<version, store>>

\* S3 performs a write whose sender gave up.
LateWriteLands(k) ==
    /\ limbo[k] # None
    /\ store' = [store EXCEPT ![k] = limbo[k]]
    /\ limbo' = [limbo EXCEPT ![k] = None]
    /\ UNCHANGED <<version, flight, client>>

\* An operator removes the object from the bucket.
Delete(k) ==
    /\ "delete" \in Faults
    /\ store[k] # None
    /\ store' = [store EXCEPT ![k] = None]
    /\ UNCHANGED <<version, limbo, flight, client>>

\* The origin publishes the next version.
Publish ==
    /\ version < MaxVersion
    /\ version' = version + 1
    /\ UNCHANGED <<store, limbo, flight, client>>

\* Time passes; only the freshness gate looks at it.
Tick ==
    /\ HonorFreshness
    /\ \E k \in Variant : store[k] # None /\ store[k].resident < Horizon
    /\ store' = [k \in Variant |->
                   IF store[k] # None /\ store[k].resident < Horizon
                   THEN [store[k] EXCEPT !.resident = @ + 1]
                   ELSE store[k]]
    /\ UNCHANGED <<version, limbo, flight, client>>

-----------------------------------------------------------------------------

Init ==
    /\ version = 1
    /\ \E legacy \in Corpus \cup {None} :
         store = [k \in Variant |-> IF k = NoAccept THEN legacy ELSE None]
    /\ limbo = [k \in Variant |-> None]
    /\ flight = [i \in Instance |-> [k \in Variant |-> Idle]]
    /\ client = [c \in Client |-> None]

\* The steps that move a flight on.
Progress(i, k) ==
    \/ ServeFresh(i, k)
    \/ StartFetch(i, k)
    \/ FetchFails(i, k)
    \/ UpstreamStatus(i, k)
    \/ NotModified(i, k)
    \/ FullResponse(i, k)
    \/ PutLands(i, k)
    \/ PutFails(i, k)
    \/ BodyBreaks(i, k)
    \/ TouchLands(i, k)
    \/ TouchFails(i, k)
    \/ CopyStarts(i, k)
    \/ CopyLands(i, k)

Next ==
    \/ \E c \in Client : Refuse(c) \/ Leave(c)
    \/ \E c \in Client, i \in Instance, k \in Variant : Arrive(c, i, k)
    \/ \E i \in Instance, k \in Variant : Progress(i, k) \/ PutUnacknowledged(i, k)
    \/ \E i \in Instance : Crash(i)
    \/ \E k \in Variant : LateWriteLands(k) \/ Delete(k)
    \/ Publish
    \/ Tick

Spec == Init /\ [][Next]_vars

\* Every call a flight makes returns: client.Do under the client timeout, S3
\* under the SDK's own retry limits.  And time passes.
FairSpec ==
    /\ Spec
    /\ \A i \in Instance, k \in Variant : WF_vars(Progress(i, k))
    /\ WF_vars(Tick)

-----------------------------------------------------------------------------
(* Properties                                                              *)

Flight == [pc    : {"idle", "head", "fetch", "put", "touch", "copying"},
           entry : Entry \cup {None},
           hdr   : Header \cup {None},
           body  : Body \cup {None},
           floor : 0..MaxVersion]

\* What a flight holds for its next step: a body and its headers while
\* uploading, an entry and the merged headers while touching.
Equipped(f) ==
    /\ f.pc = "put" => f.hdr \in Header /\ f.body \in Body
    /\ f.pc \in {"touch", "copying"} => f.hdr \in Header /\ f.entry \in Entry

\* Every variable, flight field and answer has its type.
TypeOK ==
    /\ version \in Version
    /\ store \in [Variant -> Object \cup {None}]
    /\ limbo \in [Variant -> Object \cup {None}]
    /\ flight \in [Instance -> [Variant -> Flight]]
    /\ client \in [Client -> Request \cup {None}]
    /\ \A i \in Instance, k \in Variant : Equipped(flight[i][k])

\* The headers are those the origin gave for these very bytes.
Labels(body, hdr) ==
    \E b \in Body : /\ BytesOf[b] = BytesOf[body]
                    /\ hdr.etag = ETagOf[b]
                    /\ hdr.contentType = ContentTypeOf[b]

WellLabelled(object) == /\ Labels(object.body, object.hdr)
                        /\ object.ctype = object.hdr.contentType

\* The corpus was stored by earlier builds, which only ever put a response's
\* body under its own headers.
ASSUME CorpusAssumption == \A o \in Corpus : WellLabelled(o)

\* No interleaving of puts, touches, retries, crashes and late writes of any
\* number of instances leaves an object whose stored entity tag or content
\* type belongs to other bytes: such an object would strong-match, and be
\* confirmed, forever (server.go maybeTouch, s3_cache.go Touch).
LabelConsistent == \A k \in Variant : store[k] # None => WellLabelled(store[k])

\* A redirect always leads to an object, however the decision was reached and
\* whatever has happened since: presigning does not check, so it is the path
\* to it that must (fetchAndCache, GetPresignedURL).
RedirectResolves == \A c \in Client : Redirected(c) => store[client[c].key] # None

\* No request waits on a flight that is gone: whoever joined a flight is
\* answered by it (ServeHTTP on singleflight.Do).
NoOrphans ==
    \A c \in Client : Waiting(c) => flight[client[c].at][client[c].key].pc # "idle"

\* body is at least as recent as version n: its bytes are still, or again,
\* those of version n or a later one.
AtLeast(body, n) ==
    \E v \in n..MaxVersion : BytesOf[[body EXCEPT !.version = v]] = BytesOf[body]

\* A redirect whose decision asked the origin leads to bytes at least as
\* recent as the version published when the flight began, at any time until
\* the client downloads (fetchAndCache; needs one writer per key).
ServedRecentEnough ==
    \A c \in Client :
      /\ Redirected(c)
      /\ client[c].answer.action \in {"revalidated", "refreshed", "cached"}
      /\ store[client[c].key] # None
      => AtLeast(store[client[c].key].body, client[c].answer.floor)

\* The end of a touch leaves the bytes of the object alone, whatever other
\* instances have put since the flight read its entry: a touch that races a
\* put loses (Touch and its copy condition).
TouchLosesToPut ==
    [][\A i \in Instance, k \in Variant :
         /\ flight[i][k].pc \in {"touch", "copying"}
         /\ flight'[i][k].pc = "idle"
         /\ store[k] # None
         => /\ store'[k] # None
            /\ BytesOf[store'[k].body] = BytesOf[store[k].body]]_vars

\* Unless stale content is served on purpose, a client of a negotiated
\* resource downloads the variant its own Accept selects, even from the
\* URL-only key whose corpus clients with an Accept have filled
\* (acceptVariantKeyFunc, CacheKey.String, varySatisfied).
VariantIsolation ==
    \A c \in Client :
      /\ Negotiates
      /\ Redirected(c)
      /\ client[c].answer.action # "stale"
      /\ store[client[c].key] # None
      => store[client[c].key].body.accept = client[c].key

\* Every request is answered, unless its client or its instance goes away:
\* no crash, lost reply or retry strands a waiter (ServeHTTP).
RequestsEnd == \A c \in Client : Waiting(c) ~> ~Waiting(c)

\* Once the origin has published its last version and answers, a key that is
\* asked for again and again comes to hold that version for good, whatever
\* older writes were under way and however fresh older copies were: nothing
\* old is confirmed or re-armed forever (upstreamUnchanged, maybeTouch, the
\* cap).
CatchesUp ==
    \A k \in Variant :
      /\ <>[](version = MaxVersion)
      /\ []<>(\E i \in Instance : flight[i][k].pc = "head")
      => <>[](store[k] # None /\ AtLeast(store[k].body, MaxVersion))

=============================================================================
