------------------------ MODULE MirrorReplicaProofs ------------------------
(***************************************************************************)
(* One instance implements Replica, for every number of clients, keys and  *)
(* versions, from an origin whose entity tags tell versions apart.  What   *)
(* Replica promises then holds of the mirror.                              *)
(***************************************************************************)
EXTENDS MirrorReplica, MirrorRedirectProofs

\* One instance, no write that S3 performs after its sender gave up, nobody
\* who deletes objects, an older object of the first version at most.
Sole(i) ==
    /\ Instance = {i}
    /\ {"lateWrite", "delete"} \cap Faults = {}
    /\ \A o \in Corpus : o.body.version = 1

\* The origin confirms by entity tags, and versions do not share them.
VersionsTold ==
    /\ Revalidator \in {"etag", "none"}
    /\ \A a, b \in Body :
         /\ ETagOf[a] # Absent
         /\ BytesOf[a] = BytesOf[b] \/ ETagOf[a] = ETagOf[b] => a.version = b.version

Held(o) == IF o = None THEN 0 ELSE o.body.version

\* A flight has begun at its floor; what it has read is what is stored, until
\* it puts a body that is as recent as the floor and the stored one; what it
\* touches has been confirmed since.
Led(f, o, v) ==
    /\ f.pc = "idle" <=> f.floor = 0
    /\ f.floor <= v
    /\ f.pc \in {"fetch", "touch", "copying"} /\ f.entry # None
         => o # None /\ o.body = f.entry.body
    /\ f.pc \in {"touch", "copying"} => f.floor <= f.entry.body.version
    /\ f.pc = "put" => /\ f.floor <= f.body.version
                       /\ f.body.version <= v
                       /\ Held(o) <= f.body.version

ReplicaInv ==
    \A i \in Instance, k \in Variant :
      /\ Held(store[k]) <= version
      /\ limbo[k] = None
      /\ Led(flight[i][k], store[k], version)

-----------------------------------------------------------------------------
(* What confirms an entry                                                  *)

\* An entry with the origin's present tag is of the present version.
LEMMA TagOfVersion ==
    ASSUME VersionsTold, version \in Version, NEW k \in Variant, NEW entry \in Entry,
           Labels(entry.body, entry.hdr), entry.hdr.etag = ETagOf[Selected(k)]
    PROVE  entry.body.version = version
  <1>1. entry.body \in Body /\ Selected(k) \in Body /\ Selected(k).version = version
    BY SelectedType DEF Entry, Selected
  <1>2. PICK b \in Body : BytesOf[b] = BytesOf[entry.body] /\ entry.hdr.etag = ETagOf[b]
    BY DEF Labels
  <1> QED
    BY <1>1, <1>2 DEF VersionsTold

LEMMA ConfirmedPresent ==
    ASSUME VersionsTold, version \in Version, NEW k \in Variant, NEW entry \in Entry,
           Labels(entry.body, entry.hdr),
           \/ Confirms(Conditions(entry), Selected(k))
           \/ \E d : EtagStrongMatch(entry.hdr.etag, Response(Selected(k), d).etag)
    PROVE  entry.body.version = version
  <1>1. CASE Confirms(Conditions(entry), Selected(k))
    <2>1. entry.hdr.etag # Absent
      BY DEF Labels, VersionsTold
    <2>2. Conditions(entry).ifNoneMatch = entry.hdr.etag
      BY DEF Conditions
    <2>3. Revalidator = "etag"
      BY <1>1 DEF Confirms, VersionsTold
    <2>4. entry.hdr.etag = ETagOf[Selected(k)]
      BY <1>1, <2>1, <2>2, <2>3 DEF Confirms
    <2> QED
      BY <2>4, TagOfVersion
  <1>2. CASE \E d : EtagStrongMatch(entry.hdr.etag, Response(Selected(k), d).etag)
    <2>1. entry.hdr.etag = ETagOf[Selected(k)]
      BY <1>2 DEF EtagStrongMatch, Response
    <2> QED
      BY <2>1, TagOfVersion
  <1> QED
    BY <1>1, <1>2

-----------------------------------------------------------------------------
(* How steps map                                                           *)

Owes(c) == IF Redirected(c)
           THEN {[key |-> client[c].key, least |-> Owed(client[c].answer)]}
           ELSE {}

\* The flights of the one instance, as Replica sees them.
LEMMA TheFlights ==
    ASSUME NEW i, Sole(i)
    PROVE  i \in Instance /\ (CHOOSE j \in Instance : TRUE) = i
  BY DEF Sole

\* A step that leaves the version, what is held, the floors and the debts
\* alone is a stutter.
LEMMA Stutters ==
    ASSUME NEW i, Sole(i), version' = version,
           \A k \in Variant : Held(store'[k]) = Held(store[k]),
           \A k \in Variant : flight'[i][k].floor = flight[i][k].floor,
           \A c \in Client : Owes(c)' = Owes(c)
    PROVE  UNCHANGED Promise!vars
  BY TheFlights DEF Promise!vars, Held, Owes

\* Work ends and nobody is owed anything new: an error or a crash.
LEMMA Abandons ==
    ASSUME NEW i, Sole(i), version' = version, NEW ks \in SUBSET Variant,
           \A k \in Variant : Held(store'[k]) = Held(store[k]),
           \A k \in Variant : flight'[i][k].floor = IF k \in ks THEN 0 ELSE flight[i][k].floor,
           \A c \in Client : Owes(c)' = Owes(c)
    PROVE  Promise!Abandon
  <1> DEFINE copy  == [l \in Variant |-> IF store[l] = None THEN 0 ELSE store[l].body.version]
             begun == [l \in Variant |-> flight[CHOOSE j \in Instance : TRUE][l].floor]
             owed  == [c \in Client |-> IF Redirected(c)
                                        THEN {[key |-> client[c].key,
                                               least |-> Owed(client[c].answer)]}
                                        ELSE {}]
  <1>1. UNCHANGED <<copy, owed>>
    BY DEF Held, Owes
  <1>2. begun' = [k \in Variant |-> IF k \in ks THEN 0 ELSE begun[k]]
    BY TheFlights
  <1> HIDE DEF copy, begun, owed
  <1>3. /\ \E zs \in SUBSET Variant :
             begun' = [k \in Variant |-> IF k \in zs THEN 0 ELSE begun[k]]
        /\ UNCHANGED <<version, copy, owed>>
    BY <1>1, <1>2
  <1> QED
    BY <1>3 DEF copy, begun, owed, Promise!Abandon

\* Work on k ends, and whoever waited is owed the same.
LEMMA Answers ==
    ASSUME NEW i, Sole(i), TypeOK, version' = version, NEW k \in Variant,
           NEW waiting \in SUBSET Client, NEW least \in 1..MaxVersion, NEW checked \in BOOLEAN,
           flight[i][k].floor # 0,
           \/ Held(store'[k]) = Held(store[k])
           \/ Held(store'[k]) \in 1..version /\ Held(store'[k]) >= Held(store[k]),
           \A l \in Variant \ {k} : Held(store'[l]) = Held(store[l]),
           least <= Held(store'[k]),
           checked => least >= flight[i][k].floor,
           \A l \in Variant : flight'[i][l].floor = IF l = k THEN 0 ELSE flight[i][l].floor,
           \A c \in Client : Owes(c)' = IF c \in waiting
                                        THEN {[key |-> k, least |-> least]} ELSE Owes(c)
    PROVE  Promise!Answer(k)
  <1> DEFINE copy  == [l \in Variant |-> IF store[l] = None THEN 0 ELSE store[l].body.version]
             begun == [l \in Variant |-> flight[CHOOSE j \in Instance : TRUE][l].floor]
             owed  == [c \in Client |-> IF Redirected(c)
                                        THEN {[key |-> client[c].key,
                                               least |-> Owed(client[c].answer)]}
                                        ELSE {}]
             moved == [copy EXCEPT ![k] = Held(store'[k])]
  <1>1. copy' = moved
    BY DEF Held
  <1>2. copy[k] = Held(store[k]) /\ copy'[k] = Held(store'[k])
    BY DEF Held
  <1>3. \/ UNCHANGED copy
        \/ \E n \in 1..version : n >= copy[k] /\ copy' = [copy EXCEPT ![k] = n]
    BY <1>1, <1>2
  <1>4. begun' = [begun EXCEPT ![k] = 0] /\ begun[k] = flight[i][k].floor
    BY TheFlights
  <1>5. owed' = [c \in Client |-> IF c \in waiting
                                  THEN {[key |-> k, least |-> least]} ELSE owed[c]]
    BY DEF Owes
  <1> HIDE DEF copy, begun, owed, moved
  <1>6. /\ begun[k] # 0
        /\ \/ \E n \in 1..version : n >= copy[k] /\ copy' = [copy EXCEPT ![k] = n]
           \/ UNCHANGED copy
        /\ least <= copy'[k]
        /\ checked => least >= begun[k]
        /\ begun' = [begun EXCEPT ![k] = 0]
        /\ owed' = [c \in Client |-> IF c \in waiting
                                     THEN {[key |-> k, least |-> least]} ELSE owed[c]]
        /\ UNCHANGED version
    BY <1>2, <1>3, <1>4, <1>5
  <1> QED
    BY <1>6 DEF copy, begun, owed, Promise!Answer, Promise!Forward

\* Work on k goes on with a newer copy.
LEMMA Renews ==
    ASSUME NEW i, Sole(i), NEW k \in Variant, flight[i][k].floor # 0,
           Held(store'[k]) \in 1..version, Held(store'[k]) >= Held(store[k]),
           \A l \in Variant \ {k} : Held(store'[l]) = Held(store[l]),
           UNCHANGED <<version, flight, client>>
    PROVE  Promise!Renew(k)
  <1> DEFINE copy  == [l \in Variant |-> IF store[l] = None THEN 0 ELSE store[l].body.version]
             begun == [l \in Variant |-> flight[CHOOSE j \in Instance : TRUE][l].floor]
             owed  == [c \in Client |-> IF Redirected(c)
                                        THEN {[key |-> client[c].key,
                                               least |-> Owed(client[c].answer)]}
                                        ELSE {}]
             moved == [copy EXCEPT ![k] = Held(store'[k])]
  <1>1. copy' = moved /\ copy[k] = Held(store[k])
    BY DEF Held
  <1>2. begun[k] # 0 /\ UNCHANGED <<begun, owed>>
    BY TheFlights DEF Redirected, Answered
  <1> HIDE DEF copy, begun, owed, moved
  <1>3. /\ begun[k] # 0
        /\ \E n \in 1..version : n >= copy[k] /\ copy' = [copy EXCEPT ![k] = n]
        /\ UNCHANGED <<version, begun, owed>>
    BY <1>1, <1>2 DEF moved
  <1> QED
    BY <1>3 DEF copy, begun, owed, Promise!Renew, Promise!Forward

-----------------------------------------------------------------------------
(* The ends of flights                                                     *)

\* Nobody is owed anything for an error.
LEMMA FailOwes ==
    ASSUME TypeOK, NEW i \in Instance, NEW k \in Variant, NEW cause, NEW status,
           Fail(i, k, cause, status), NEW c \in Client
    PROVE  Owes(c)' = Owes(c)
  <1>1. Redirected(c)' => client'[c] = client[c]
    BY FailRedirectsNobody
  <1>2. CASE Waiting(c) /\ client[c].at = i /\ client[c].key = k
    <2>1. ~Redirected(c)
      BY <1>2 DEF Waiting, Redirected, Answered
    <2>2. client'[c] = client[c] => ~Redirected(c)'
      BY <2>1 DEF Redirected, Answered
    <2> QED
      BY <1>1, <2>1, <2>2 DEF Owes
  <1>3. CASE ~(Waiting(c) /\ client[c].at = i /\ client[c].key = k)
    <2>1. client'[c] = client[c]
      BY <1>3 DEF Fail, Finish
    <2> QED
      BY <2>1 DEF Owes, Redirected, Answered
  <1> QED
    BY <1>2, <1>3

\* Whoever joined the flight of (i, k) and is answered.
Heard(c, i, k) ==
    Waiting(c) /\ client[c].at = i /\ client[c].key = k /\ client'[c] # None

\* They are owed what the answer of a redirect vouches for.
LEMMA FinishOwes ==
    ASSUME TypeOK, NEW i \in Instance, NEW k \in Variant, NEW answer \in Answer,
           answer.action \in Redirects, Finish(i, k, answer), NEW c \in Client
    PROVE  Owes(c)' = IF Heard(c, i, k)
                      THEN {[key |-> k, least |-> Owed(answer)]}
                      ELSE Owes(c)
  <1>1. CASE Waiting(c) /\ client[c].at = i /\ client[c].key = k
    <2>1. client[c] \in Request /\ client'[c] = [client[c] EXCEPT !.answer = answer]
      BY <1>1 DEF Finish, Waiting, TypeOK
    <2>2. client'[c].answer = answer /\ client'[c].key = k /\ answer # None
      BY <1>1, <2>1, AnswerAssumption DEF Request
    <2>3. CASE client'[c] # None
      <3>1. Redirected(c)' /\ Heard(c, i, k)
        BY <1>1, <2>2, <2>3 DEF Redirected, Answered, Heard
      <3> QED
        BY <2>2, <3>1 DEF Owes
    <2>4. CASE client'[c] = None
      <3>1. ~Redirected(c)' /\ ~Redirected(c) /\ ~Heard(c, i, k)
        BY <1>1, <2>4 DEF Redirected, Answered, Waiting, Heard
      <3> QED
        BY <3>1 DEF Owes
    <2> QED
      BY <2>3, <2>4
  <1>2. CASE ~(Waiting(c) /\ client[c].at = i /\ client[c].key = k)
    <2>1. client'[c] = client[c] /\ ~Heard(c, i, k)
      BY <1>2 DEF Finish, Heard
    <2> QED
      BY <2>1 DEF Owes, Redirected, Answered
  <1> QED
    BY <1>1, <1>2

\* What a step of flight (i, k) may do to the store, and what it must have
\* been doing.
Moves(i, k) ==
    /\ version' = version
    /\ flight[i][k].pc # "idle"
    /\ \A l \in Variant \ {k} : store'[l] = store[l]
    /\ \/ Held(store'[k]) = Held(store[k])
       \/ Held(store'[k]) \in 1..version /\ Held(store'[k]) >= Held(store[k])

LEMMA FloorType ==
    ASSUME TypeOK, ReplicaInv, NEW i \in Instance, NEW k \in Variant
    PROVE  /\ flight[i][k].floor \in Nat /\ version \in Nat /\ version \in Version
           /\ flight[i][k].pc # "idle" <=> flight[i][k].floor # 0
           /\ store[k] # None => store[k].body.version \in Version /\ store[k].body \in Body
           /\ Held(store[k]) \in Nat
           /\ flight[i][k].floor <= MaxVersion
  <1>1. flight[i][k] \in Flight /\ version \in Version /\ Led(flight[i][k], store[k], version)
    BY DEF TypeOK, ReplicaInv
  <1>2. store[k] # None => store[k].body \in Body
    BY DEF TypeOK, Object
  <1> QED
    BY <1>1, <1>2, ConstantsAssumption DEF Flight, Led, Body, Version, Held

LEMMA FloorsAfterEnd ==
    ASSUME TypeOK, NEW i \in Instance, NEW k \in Variant,
           \/ \E answer : Finish(i, k, answer)
           \/ \E cause, status : Fail(i, k, cause, status)
           \/ \E action, cause, body : Redirect(i, k, action, cause, body)
    PROVE  \A l \in Variant : flight'[i][l].floor = IF l = k THEN 0 ELSE flight[i][l].floor
  BY FlightEnds DEF Idle

LEMMA FailMaps ==
    ASSUME NEW i, Sole(i), TypeOK, ReplicaInv, NEW k \in Variant, NEW cause, NEW status,
           Fail(i, k, cause, status), Moves(i, k)
    PROVE  Promise!Abandon \/ Promise!Answer(k)
  <1>1. i \in Instance /\ version' = version
    BY TheFlights DEF Moves
  <1>2. \A l \in Variant : flight'[i][l].floor = IF l = k THEN 0 ELSE flight[i][l].floor
    BY <1>1, FloorsAfterEnd
  <1>3. \A c \in Client : Owes(c)' = Owes(c)
    BY <1>1, FailOwes
  <1>4. \A l \in Variant \ {k} : Held(store'[l]) = Held(store[l])
    BY DEF Moves
  <1>5. CASE Held(store'[k]) = Held(store[k])
    <2>1. \A l \in Variant : Held(store'[l]) = Held(store[l])
      BY <1>4, <1>5
    <2>2. {k} \in SUBSET Variant
      OBVIOUS
    <2>3. \A l \in Variant : flight'[i][l].floor = IF l \in {k} THEN 0 ELSE flight[i][l].floor
      BY <1>2
    <2> QED
      BY <1>1, <1>3, <2>1, <2>2, <2>3, Abandons
  <1>6. CASE Held(store'[k]) \in 1..version /\ Held(store'[k]) >= Held(store[k])
    <2>1. flight[i][k].floor # 0
      BY <1>1, FloorType DEF Moves
    <2>2. {} \in SUBSET Client /\ 1 \in 1..MaxVersion /\ 1 <= Held(store'[k])
      BY <1>6, ConstantsAssumption
    <2>3. \A c \in Client : Owes(c)' = IF c \in {} THEN {[key |-> k, least |-> 1]} ELSE Owes(c)
      BY <1>3
    <2> QED
      BY <1>1, <1>2, <1>4, <1>6, <2>1, <2>2, <2>3, Answers
  <1> QED
    BY <1>5, <1>6 DEF Moves

LEMMA RedirectMaps ==
    ASSUME NEW i, Sole(i), TypeOK, ReplicaInv, NEW k \in Variant,
           NEW action \in Redirects,
           NEW cause \in {"none", "status", "cache", "body", "presign"} \cup FetchErrors,
           NEW body \in Body, Redirect(i, k, action, cause, body), Moves(i, k),
           body.version <= Held(store'[k]),
           action \in Checked => flight[i][k].floor <= body.version
    PROVE  Promise!Abandon \/ Promise!Answer(k)
  <1>1. i \in Instance /\ version' = version
    BY TheFlights DEF Moves
  <1>2. CASE Fail(i, k, "presign", 502)
    BY <1>2, FailMaps
  <1> DEFINE answer == [action |-> action, cause |-> cause, status |-> 303,
                        body   |-> body, cached |-> flight[i][k].entry # None,
                        floor  |-> flight[i][k].floor]
  <1>3. CASE Finish(i, k, answer)
    <2>1. flight[i][k].floor \in 0..MaxVersion
      BY <1>1 DEF TypeOK, Flight
    <2>2. answer \in Answer /\ answer.action = action
      BY <2>1 DEF Answer, Redirects
    <2>3. body.version \in 1..MaxVersion /\ flight[i][k].floor \in Nat /\ flight[i][k].floor # 0
      BY <1>1, FloorType DEF Moves, Body, Version
    <2>4. answer.action \in Checked /\ answer.floor > answer.body.version => FALSE
      BY <2>3, ConstantsAssumption
    <2>5. Owed(answer) = body.version
      BY <2>4 DEF Owed
    <2> HIDE DEF answer
    <2>6. \A c \in Client : Owes(c)' = IF Heard(c, i, k)
                                       THEN {[key |-> k, least |-> body.version]} ELSE Owes(c)
      BY <1>1, <1>3, <2>2, <2>5, FinishOwes
    <2>7. \A l \in Variant : flight'[i][l].floor = IF l = k THEN 0 ELSE flight[i][l].floor
      BY <1>1, <1>3, FloorsAfterEnd
    <2>8. \A l \in Variant \ {k} : Held(store'[l]) = Held(store[l])
      BY DEF Moves
    <2> DEFINE waiting == {c \in Client : Heard(c, i, k)}
    <2>9. /\ waiting \in SUBSET Client
          /\ \A c \in Client : Owes(c)' = IF c \in waiting
                                          THEN {[key |-> k, least |-> body.version]} ELSE Owes(c)
      BY <2>6
    <2> HIDE DEF waiting
    <2>10. /\ (action \in Checked) \in BOOLEAN
           /\ action \in Checked => body.version >= flight[i][k].floor
      BY <2>3
    <2>11. \/ Held(store'[k]) = Held(store[k])
           \/ Held(store'[k]) \in 1..version /\ Held(store'[k]) >= Held(store[k])
      BY DEF Moves
    <2> QED
      BY <1>1, <2>3, <2>7, <2>8, <2>9, <2>10, <2>11, Answers
  <1> QED
    BY <1>2, <1>3 DEF Redirect

-----------------------------------------------------------------------------
(* How steps keep the invariant                                            *)

LEMMA IdleLed == \A o : \A v \in Nat : Led(Idle, o, v)
  BY DEF Led, Idle

LEMMA EndKeeps ==
    ASSUME NEW i, Sole(i), TypeOK, ReplicaInv, NEW k \in Variant, Moves(i, k),
           UNCHANGED limbo,
           \/ \E answer : Finish(i, k, answer)
           \/ \E cause, status : Fail(i, k, cause, status)
           \/ \E action, cause, body : Redirect(i, k, action, cause, body)
    PROVE  ReplicaInv'
  <1>1. i \in Instance /\ Instance = {i} /\ version' = version /\ version \in Nat
    BY TheFlights, FloorType DEF Sole, Moves
  <1>2. \A l \in Variant : flight'[i][l] = IF l = k THEN Idle ELSE flight[i][l]
    BY <1>1, FlightEnds
  <1>3. \A l \in Variant \ {k} : store'[l] = store[l]
    BY DEF Moves
  <1>4. Held(store'[k]) <= version
    BY <1>1 DEF Moves, ReplicaInv
  <1>5. \A l \in Variant : /\ Held(store[l]) <= version /\ limbo[l] = None
                           /\ Led(flight[i][l], store[l], version)
    BY <1>1 DEF ReplicaInv
  <1>6. ASSUME NEW l \in Variant
        PROVE  /\ Held(store'[l]) <= version' /\ limbo'[l] = None
               /\ Led(flight'[i][l], store'[l], version')
    <2>1. CASE l = k
      BY <1>1, <1>2, <1>4, <1>5, <2>1, IdleLed
    <2>2. CASE l # k
      BY <1>1, <1>2, <1>3, <1>5, <2>2
    <2> QED
      BY <2>1, <2>2
  <1> QED
    BY <1>1, <1>6 DEF ReplicaInv

\* A flight that goes on is a stutter of Replica's.
LEMMA ContinueKeeps ==
    ASSUME NEW i, Sole(i), TypeOK, ReplicaInv, NEW k \in Variant,
           NEW pc, NEW entry, NEW hdr, NEW body, Continue(i, k, pc, entry, hdr, body),
           UNCHANGED <<version, store, limbo>>, flight[i][k].pc # "idle",
           Led([pc |-> pc, entry |-> entry, hdr |-> hdr, body |-> body,
                floor |-> flight[i][k].floor], store[k], version)
    PROVE  ReplicaInv' /\ UNCHANGED Promise!vars
  <1> DEFINE next == [pc |-> pc, entry |-> entry, hdr |-> hdr, body |-> body,
                      floor |-> flight[i][k].floor]
  <1>1. i \in Instance /\ Instance = {i}
    BY TheFlights DEF Sole
  <1>2. \A l \in Variant : flight'[i][l] = IF l = k THEN next ELSE flight[i][l]
    BY <1>1, FlightContinues
  <1>3. next.floor = flight[i][k].floor /\ Led(next, store[k], version) /\ client' = client
    BY DEF Continue
  <1> HIDE DEF next
  <1>4. ReplicaInv'
    BY <1>1, <1>2, <1>3 DEF ReplicaInv
  <1>5. \A l \in Variant : flight'[i][l].floor = flight[i][l].floor
    BY <1>2, <1>3
  <1>6. \A c \in Client : Owes(c)' = Owes(c)
    BY <1>3 DEF Owes, Redirected, Answered
  <1> QED
    BY <1>4, <1>5, <1>6, Stutters

Maps == [Promise!Next]_(Promise!vars)

\* The object is stored under k and nothing else changes.
Stored(k, object) == \A l \in Variant : store'[l] = IF l = k THEN object ELSE store[l]

LEMMA ReplicaProgress ==
    ASSUME NEW i, Sole(i), TypeOK, LabelInv, ReplicaInv, VersionsTold, NEW k \in Variant,
           Progress(i, k) \/ PutUnacknowledged(i, k)
    PROVE  ReplicaInv' /\ Maps
  <1> DEFINE f == flight[i][k]
  <1>1. /\ i \in Instance /\ Instance = {i}
        /\ f \in Flight /\ Equipped(f) /\ Labelled(f) /\ Led(f, store[k], version)
        /\ limbo[k] = None /\ Held(store[k]) <= version
        /\ "lateWrite" \notin Faults
    BY TheFlights DEF Sole, TypeOK, LabelInv, FlightsLabelled, ReplicaInv
  <1>2. /\ f.floor \in Nat /\ version \in Nat /\ version \in Version
        /\ f.pc # "idle" <=> f.floor # 0
        /\ store[k] # None => /\ store[k].body.version \in Version /\ store[k].body \in Body
                              /\ Held(store[k]) = store[k].body.version
        /\ Held(store[k]) \in Nat
    BY <1>1, FloorType DEF Held
  <1>3. f.entry # None => /\ f.entry \in Entry /\ f.entry.body \in Body
                          /\ f.entry.body.version \in Version /\ f.entry.body.version \in Nat
                          /\ Labels(f.entry.body, f.entry.hdr)
    BY <1>1, ConstantsAssumption DEF Flight, Labelled, Entry, Body, Version
  <1>4. f.pc = "put" => f.body \in Body /\ f.body.version \in Version /\ f.body.version \in Nat
    BY <1>1, ConstantsAssumption DEF Equipped, Body, Version
  <1>5. f.pc \in {"touch", "copying"} => f.entry # None
    BY <1>1, ConstantsAssumption DEF Equipped
  <1>6. f.pc \in {"fetch", "touch", "copying"} /\ f.entry # None
        => store[k] # None /\ store[k].body = f.entry.body
    BY <1>1 DEF Led
  <1>7. {"none", "status", "cache", "body", "presign"}
          \subseteq {"none", "status", "cache", "body", "presign"} \cup FetchErrors
    OBVIOUS
  <1>8. UNCHANGED <<version, store>> /\ f.pc # "idle" => Moves(i, k)
    BY DEF Moves
  <1>fails. ASSUME Moves(i, k), UNCHANGED limbo, \E cause, status : Fail(i, k, cause, status)
            PROVE  ReplicaInv' /\ Maps
    <2>1. ReplicaInv'
      BY <1>fails, EndKeeps
    <2>2. Promise!Abandon \/ Promise!Answer(k)
      BY <1>fails, FailMaps
    <2> QED
      BY <2>1, <2>2 DEF Maps, Promise!Next
  <1>redirects. ASSUME NEW action \in Redirects,
                       NEW cause \in {"none", "status", "cache", "body", "presign"} \cup FetchErrors,
                       NEW body \in Body, Redirect(i, k, action, cause, body), Moves(i, k),
                       UNCHANGED limbo, body.version <= Held(store'[k]),
                       action \in Checked => f.floor <= body.version
                PROVE  ReplicaInv' /\ Maps
    <2>1. ReplicaInv'
      BY <1>redirects, EndKeeps
    <2>2. Promise!Abandon \/ Promise!Answer(k)
      BY <1>redirects, RedirectMaps
    <2> QED
      BY <2>1, <2>2 DEF Maps, Promise!Next
  <1>goes. ASSUME NEW pc, NEW entry, NEW hdr, NEW body, Continue(i, k, pc, entry, hdr, body),
                  UNCHANGED <<version, store, limbo>>, f.pc # "idle",
                  Led([pc |-> pc, entry |-> entry, hdr |-> hdr, body |-> body,
                       floor |-> f.floor], store[k], version)
           PROVE  ReplicaInv' /\ Maps
    BY <1>goes, ContinueKeeps DEF Maps
  <1>rev. ASSUME NEW hdr, f.pc = "fetch", f.entry # None, f.entry.body.version = version,
                 Revalidated(i, k, hdr), UNCHANGED <<version, store, limbo>>
          PROVE  ReplicaInv' /\ Maps
    <2>1. f.floor <= f.entry.body.version /\ store[k] # None /\ store[k].body = f.entry.body
      BY <1>1, <1>rev, <1>6 DEF Led
    <2>2. CASE Redirect(i, k, "revalidated", "none", f.entry.body)
      <3>1. f.entry.body.version <= Held(store'[k]) /\ "revalidated" \in Redirects
        BY <1>2, <1>3, <1>rev, <2>1 DEF Redirects
      <3> QED
        BY <1>3, <1>7, <1>8, <1>rev, <1>redirects, <2>1, <2>2, <3>1
    <2>3. CASE Continue(i, k, "touch", f.entry, Merge(f.entry.hdr, hdr), None)
      <3> DEFINE merged == Merge(f.entry.hdr, hdr)
      <3> HIDE DEF merged
      <3>1. Continue(i, k, "touch", f.entry, merged, None)
        BY <2>3 DEF merged
      <3>2. Led([pc |-> "touch", entry |-> f.entry, hdr |-> merged, body |-> None,
                 floor |-> f.floor], store[k], version)
        BY <1>1, <1>2, <1>rev, <2>1 DEF Led
      <3> QED
        BY <1>goes, <1>rev, <3>1, <3>2
    <2> QED
      BY <1>rev, <2>2, <2>3 DEF Revalidated
  <1> HIDE DEF f
  <1>11. CASE ServeFresh(i, k)
    <2>1. /\ f.pc # "idle" /\ store[k] # None /\ Redirect(i, k, "fresh", "none", store[k].body)
          /\ UNCHANGED <<version, store, limbo>>
      BY <1>11 DEF ServeFresh, f
    <2>2. store[k].body.version <= Held(store'[k]) /\ "fresh" \in Redirects /\ "fresh" \notin Checked
      BY <1>2, <2>1, ConstantsAssumption DEF Redirects, Checked, Version
    <2> QED
      BY <1>2, <1>7, <1>8, <1>redirects, <2>1, <2>2
  <1>12. CASE StartFetch(i, k)
    <2>0. f.pc # "idle" /\ UNCHANGED <<version, store, limbo>>
      BY <1>12 DEF StartFetch, f
    <2>1. ASSUME store[k] # None,
                 Continue(i, k, "fetch", [body |-> store[k].body, hdr |-> store[k].hdr], None, None)
          PROVE  ReplicaInv' /\ Maps
      <3> DEFINE entry == [body |-> store[k].body, hdr |-> store[k].hdr]
      <3>1. Continue(i, k, "fetch", entry, None, None) /\ entry.body = store[k].body
        BY <2>1
      <3> HIDE DEF entry
      <3>2. Led([pc |-> "fetch", entry |-> entry, hdr |-> None, body |-> None,
                 floor |-> f.floor], store[k], version)
        BY <1>1, <1>2, <2>0, <2>1, <3>1 DEF Led
      <3> QED
        BY <1>goes, <2>0, <3>1, <3>2
    <2>2. ASSUME Continue(i, k, "fetch", None, None, None)
          PROVE  ReplicaInv' /\ Maps
      <3>1. Led([pc |-> "fetch", entry |-> None, hdr |-> None, body |-> None,
                 floor |-> f.floor], store[k], version)
        BY <1>1, <1>2, <2>0 DEF Led
      <3> QED
        BY <1>goes, <2>0, <2>2, <3>1
    <2> QED
      BY <1>12, <2>1, <2>2 DEF StartFetch
  <1>13. CASE FetchFails(i, k)
    <2>1. PICK err \in FetchErrors :
            \/ f.entry # None /\ Redirect(i, k, "stale", err, f.entry.body)
            \/ Fail(i, k, err, 502)
      BY <1>13 DEF FetchFails, f
    <2>2. f.pc = "fetch" /\ UNCHANGED <<version, store, limbo>> /\ Moves(i, k)
      BY <1>8, <1>13 DEF FetchFails, f
    <2>3. CASE f.entry # None /\ Redirect(i, k, "stale", err, f.entry.body)
      <3>1. f.entry.body.version <= Held(store'[k]) /\ "stale" \in Redirects /\ "stale" \notin Checked
        BY <1>2, <1>3, <1>6, <2>2, <2>3 DEF Redirects, Checked
      <3>2. err \in {"none", "status", "cache", "body", "presign"} \cup FetchErrors
        OBVIOUS
      <3> QED
        BY <1>3, <1>redirects, <2>2, <2>3, <3>1, <3>2
    <2> QED
      BY <1>fails, <2>1, <2>2, <2>3
  <1>14. CASE UpstreamStatus(i, k)
    <2>1. \/ f.entry # None /\ Redirect(i, k, "stale", "status", f.entry.body)
          \/ \E status : Fail(i, k, "status", status)
      BY <1>14 DEF UpstreamStatus, f
    <2>2. f.pc = "fetch" /\ UNCHANGED <<version, store, limbo>> /\ Moves(i, k)
      BY <1>8, <1>14 DEF UpstreamStatus, f
    <2>3. CASE f.entry # None /\ Redirect(i, k, "stale", "status", f.entry.body)
      <3>1. f.entry.body.version <= Held(store'[k]) /\ "stale" \in Redirects /\ "stale" \notin Checked
        BY <1>2, <1>3, <1>6, <2>2, <2>3 DEF Redirects, Checked
      <3> QED
        BY <1>3, <1>7, <1>redirects, <2>2, <2>3, <3>1
    <2> QED
      BY <1>fails, <2>1, <2>2, <2>3
  <1>15. CASE NotModified(i, k)
    <2>1. /\ f.pc = "fetch" /\ f.entry # None /\ Confirms(Conditions(f.entry), Selected(k))
          /\ UNCHANGED <<version, store, limbo>>
          /\ \E hdr : Revalidated(i, k, hdr)
      BY <1>15 DEF NotModified, f
    <2>2. f.entry.body.version = version
      BY <1>2, <1>3, <2>1, ConfirmedPresent
    <2> QED
      BY <1>rev, <2>1, <2>2
  <1>16. CASE FullResponse(i, k)
    <2>1. PICK d \in Declaration :
            \/ /\ f.entry # None
               /\ EtagStrongMatch(f.entry.hdr.etag, Response(Selected(k), d).etag)
               /\ Revalidated(i, k, Response(Selected(k), d))
            \/ Continue(i, k, "put", f.entry, Response(Selected(k), d), Selected(k))
      BY <1>16 DEF FullResponse, f
    <2>2. f.pc = "fetch" /\ UNCHANGED <<version, store, limbo>>
      BY <1>16 DEF FullResponse, f
    <2> DEFINE hdr == Response(Selected(k), d)
    <2>3. CASE /\ f.entry # None
               /\ EtagStrongMatch(f.entry.hdr.etag, hdr.etag)
               /\ Revalidated(i, k, hdr)
      <3>1. f.entry.body.version = version
        BY <1>2, <1>3, <2>3, ConfirmedPresent
      <3> HIDE DEF hdr
      <3> QED
        BY <1>rev, <2>2, <2>3, <3>1
    <2>4. CASE Continue(i, k, "put", f.entry, hdr, Selected(k))
      <3>1. Selected(k).version = version
        BY DEF Selected
      <3> DEFINE body == Selected(k)
      <3> HIDE DEF hdr, body
      <3>2. Continue(i, k, "put", f.entry, hdr, body) /\ body.version = version
        BY <2>4, <3>1 DEF body
      <3>3. Led([pc |-> "put", entry |-> f.entry, hdr |-> hdr, body |-> body,
                 floor |-> f.floor], store[k], version)
        BY <1>1, <1>2, <2>2, <3>2 DEF Led
      <3> QED
        BY <1>goes, <2>2, <3>2, <3>3
    <2> QED
      BY <2>1, <2>3, <2>4
  <1> DEFINE o == NewObject(f.body, f.hdr)
  <1>17. f.pc = "put" => o # None /\ o.body = f.body /\ Held(o) = f.body.version
    <2>1. f.pc = "put" => o \in Object
      BY <1>1, NewObjectType DEF Equipped
    <2>2. o.body = f.body
      BY DEF NewObject
    <2> QED
      BY <2>1, <2>2, ConstantsAssumption DEF Held
  <1>18. f.pc = "put" => /\ f.floor <= f.body.version /\ f.body.version <= version
                         /\ Held(store[k]) <= f.body.version
    BY <1>1 DEF Led
  <1>19. f.pc = "put" /\ store' = [store EXCEPT ![k] = o] /\ version' = version
         => Moves(i, k) /\ Held(store'[k]) = f.body.version
    <2> HIDE DEF o
    <2>1. SUFFICES ASSUME f.pc = "put", store' = [store EXCEPT ![k] = o], version' = version
                   PROVE  Moves(i, k) /\ Held(store'[k]) = f.body.version
      OBVIOUS
    <2>2. \A l \in Variant : store'[l] = IF l = k THEN o ELSE store[l]
      BY <2>1 DEF TypeOK
    <2>3. f.body.version \in 1..version
      BY <1>2, <1>4, <1>18, <2>1, ConstantsAssumption DEF Version
    <2> QED
      BY <1>17, <1>18, <2>1, <2>2, <2>3 DEF Moves, f
  <1> HIDE DEF o
  <1>20. CASE PutLands(i, k)
    <2>1. /\ f.pc = "put" /\ store' = [store EXCEPT ![k] = o] /\ version' = version
          /\ UNCHANGED limbo
          /\ \E action \in {"refreshed", "cached"} : Redirect(i, k, action, "none", f.body)
      BY <1>20 DEF PutLands, f, o
    <2>2. f.body.version <= Held(store'[k])
      BY <1>4, <1>19, <2>1
    <2>3. {"refreshed", "cached"} \subseteq Redirects
      BY DEF Redirects
    <2> QED
      BY <1>4, <1>7, <1>18, <1>19, <1>redirects, <2>1, <2>2, <2>3
  <1>21. CASE PutFails(i, k)
    <2>1. /\ f.pc = "put" /\ UNCHANGED <<version, store, limbo>>
          /\ \E cause, status : Fail(i, k, cause, status)
      BY <1>1, <1>21 DEF PutFails, f
    <2> QED
      BY <1>8, <1>fails, <2>1
  <1>22. CASE BodyBreaks(i, k)
    <2>1. /\ f.pc = "put" /\ UNCHANGED <<version, store, limbo>>
          /\ \E cause, status : Fail(i, k, cause, status)
      BY <1>22 DEF BodyBreaks, f
    <2> QED
      BY <1>8, <1>fails, <2>1
  <1>23. CASE PutUnacknowledged(i, k)
    <2>1. /\ f.pc = "put" /\ store' = [store EXCEPT ![k] = o] /\ version' = version
          /\ UNCHANGED <<limbo, flight, client>>
      BY <1>23 DEF PutUnacknowledged, f, o
    <2>2. Moves(i, k) /\ Held(store'[k]) = f.body.version
      BY <1>19, <2>1
    <2>3. Led(f, store'[k], version)
      BY <1>1, <1>4, <1>18, <2>1, <2>2 DEF Led
    <2>4. ReplicaInv'
      <3>1. ASSUME NEW l \in Variant
            PROVE  Held(store'[l]) <= version /\ Led(flight[i][l], store'[l], version)
        <4>1. CASE l = k
          BY <1>18, <2>1, <2>2, <2>3, <4>1 DEF f
        <4>2. CASE l # k
          BY <1>1, <2>2, <4>2 DEF Moves, ReplicaInv
        <4> QED
          BY <4>1, <4>2
      <3> QED
        BY <1>1, <2>1, <3>1 DEF ReplicaInv
    <2>5. Promise!Renew(k)
      <3>1. f.floor # 0 /\ Held(store'[k]) \in 1..version /\ Held(store'[k]) >= Held(store[k])
        BY <1>2, <1>4, <1>18, <2>1, <2>2, ConstantsAssumption DEF Version
      <3>2. \A l \in Variant \ {k} : Held(store'[l]) = Held(store[l])
        BY <2>2 DEF Moves
      <3> QED
        BY <2>1, <3>1, <3>2, Renews DEF f
    <2> QED
      BY <2>4, <2>5 DEF Maps, Promise!Next
  <1>same. ASSUME NEW object, f.pc \in {"touch", "copying"}, object.body = f.entry.body,
                  object \in Object, Stored(k, object),
                  UNCHANGED <<version, limbo>>,
                  Redirect(i, k, "revalidated", "none", f.entry.body)
           PROVE  ReplicaInv' /\ Maps
    <2>1. \A l \in Variant : store'[l] = IF l = k THEN object ELSE store[l]
      BY <1>same DEF Stored
    <2>2. /\ f.entry # None /\ store[k] # None /\ store[k].body = f.entry.body /\ object # None
      BY <1>5, <1>6, <1>same, ConstantsAssumption
    <2>3. Held(store'[k]) = Held(store[k]) /\ Held(store'[k]) = f.entry.body.version
      BY <1>same, <2>1, <2>2 DEF Held
    <2>4. Moves(i, k)
      BY <1>same, <2>1, <2>3 DEF Moves, f
    <2>5. f.floor <= f.entry.body.version /\ f.entry.body.version <= Held(store'[k])
      BY <1>1, <1>3, <1>same, <2>2, <2>3 DEF Led
    <2> QED
      BY <1>3, <1>7, <1>redirects, <1>same, <2>2, <2>4, <2>5 DEF Redirects
  <1>24. CASE TouchLands(i, k)
    <2> DEFINE copied == NewObject(store[k].body, f.hdr)
    <2>1. /\ f.pc = "touch" /\ store' = [store EXCEPT ![k] = copied]
          /\ UNCHANGED <<version, limbo>> /\ Redirect(i, k, "revalidated", "none", f.entry.body)
      BY <1>24 DEF TouchLands, f
    <2>2. /\ copied \in Object
          /\ copied.body = f.entry.body
      <3>1. f.hdr \in Header /\ store[k].body \in Body /\ store[k].body = f.entry.body
        BY <1>1, <1>2, <1>5, <1>6, <2>1 DEF Equipped
      <3>2. copied.body = store[k].body
        BY DEF NewObject
      <3> QED
        BY <3>1, <3>2, NewObjectType
    <2> HIDE DEF copied
    <2>3. Stored(k, copied) /\ f.pc \in {"touch", "copying"}
      BY <2>1 DEF Stored, TypeOK
    <2> QED
      BY <1>same, <2>1, <2>2, <2>3
  <1>25. CASE TouchFails(i, k)
    <2>1. /\ f.pc = "touch" /\ UNCHANGED <<version, store, limbo>>
          /\ Redirect(i, k, "revalidated", "none", f.entry.body)
      BY <1>25 DEF TouchFails, f
    <2>2. f.floor <= f.entry.body.version /\ f.entry.body.version <= Held(store'[k])
      BY <1>1, <1>2, <1>3, <1>5, <1>6, <2>1 DEF Led
    <2> QED
      BY <1>3, <1>5, <1>7, <1>8, <1>redirects, <2>1, <2>2 DEF Redirects
  <1>26. CASE CopyStarts(i, k)
    <2>1. /\ f.pc = "touch" /\ UNCHANGED <<version, store, limbo>>
          /\ Continue(i, k, "copying", f.entry, f.hdr, None)
      BY <1>26 DEF CopyStarts, f
    <2>2. Led([pc |-> "copying", entry |-> f.entry, hdr |-> f.hdr, body |-> None,
               floor |-> f.floor], store[k], version)
      BY <1>1, <1>2, <1>5, <1>6, <2>1 DEF Led
    <2> QED
      BY <1>goes, <2>1, <2>2
  <1>27. CASE CopyLands(i, k)
    <2> DEFINE copied == NewObject(f.entry.body, f.hdr)
    <2>1. /\ f.pc = "copying" /\ store' = [store EXCEPT ![k] = copied]
          /\ UNCHANGED <<version, limbo>> /\ Redirect(i, k, "revalidated", "none", f.entry.body)
      BY <1>27 DEF CopyLands, f
    <2>2. /\ copied \in Object
          /\ copied.body = f.entry.body
      <3>1. f.hdr \in Header /\ f.entry.body \in Body
        BY <1>1, <1>3, <1>5, <2>1 DEF Equipped
      <3>2. copied.body = f.entry.body
        BY DEF NewObject
      <3> QED
        BY <3>1, <3>2, NewObjectType
    <2> HIDE DEF copied
    <2>3. Stored(k, copied) /\ f.pc \in {"touch", "copying"}
      BY <2>1 DEF Stored, TypeOK
    <2> QED
      BY <1>same, <2>1, <2>2, <2>3
  <1> QED
    BY <1>11, <1>12, <1>13, <1>14, <1>15, <1>16, <1>20, <1>21, <1>22, <1>23, <1>24,
       <1>25, <1>26, <1>27 DEF Progress

-----------------------------------------------------------------------------
(* The steps of clients and the environment                                *)

\* A step that touches nothing but requests keeps the invariant.
LEMMA ClientsKeep ==
    ASSUME ReplicaInv, UNCHANGED <<version, store, limbo, flight>>
    PROVE  ReplicaInv'
  BY DEF ReplicaInv

LEMMA ReplicaArrives ==
    ASSUME NEW i, Sole(i), TypeOK, ReplicaInv, NEW c \in Client, NEW k \in Variant,
           Arrive(c, i, k)
    PROVE  ReplicaInv' /\ Maps
  <1>1. i \in Instance /\ Instance = {i} /\ UNCHANGED <<version, store, limbo>>
    BY TheFlights DEF Sole, Arrive
  <1>2. \A d \in Client : Owes(d)' = Owes(d)
    <2>1. \A d \in Client \ {c} : client'[d] = client[d]
      BY DEF Arrive, TypeOK
    <2>2. ~Redirected(c) /\ ~Redirected(c)'
      BY DEF Arrive, TypeOK, Redirected, Answered
    <2> QED
      BY <2>1, <2>2 DEF Owes, Redirected, Answered
  <1>3. CASE flight[i][k].pc # "idle"
    <2>1. flight' = flight
      BY <1>3 DEF Arrive
    <2>2. ReplicaInv'
      BY <1>1, <2>1, ClientsKeep
    <2> QED
      BY <1>1, <1>2, <2>1, <2>2, Stutters DEF Maps
  <1>4. CASE flight[i][k].pc = "idle"
    <2> DEFINE led == [Idle EXCEPT !.pc = "head", !.floor = version]
    <2>1. flight' = [flight EXCEPT ![i][k] = led]
      BY <1>4 DEF Arrive
    <2>2. led.pc = "head" /\ led.floor = version
      BY DEF Idle
    <2> HIDE DEF led
    <2>3. \A l \in Variant : flight'[i][l] = IF l = k THEN led ELSE flight[i][l]
      BY <1>1, <2>1 DEF TypeOK
    <2>4. version \in Nat /\ version # 0
      BY ConstantsAssumption DEF TypeOK, Version
    <2>5. Led(led, store[k], version)
      BY <2>2, <2>4 DEF Led
    <2>6. ReplicaInv'
      BY <1>1, <2>3, <2>5 DEF ReplicaInv
    <2>7. flight[i][k].floor = 0
      BY <1>1, <1>4, FloorType
    <2>8. \A l \in Variant : flight'[i][l].floor = IF l = k THEN version ELSE flight[i][l].floor
      BY <2>2, <2>3
    <2>9. Promise!Begin(k)
      <3> DEFINE copy  == [l \in Variant |-> IF store[l] = None THEN 0 ELSE store[l].body.version]
                 begun == [l \in Variant |-> flight[CHOOSE j \in Instance : TRUE][l].floor]
                 owed  == [d \in Client |-> IF Redirected(d)
                                            THEN {[key |-> client[d].key,
                                                   least |-> Owed(client[d].answer)]}
                                            ELSE {}]
      <3>1. UNCHANGED <<version, copy, owed>>
        BY <1>1, <1>2 DEF Owes
      <3>2. begun[k] = 0 /\ begun' = [begun EXCEPT ![k] = version]
        BY <2>7, <2>8, TheFlights
      <3> HIDE DEF copy, begun, owed
      <3>3. begun[k] = 0 /\ begun' = [begun EXCEPT ![k] = version]
            /\ UNCHANGED <<version, copy, owed>>
        BY <3>1, <3>2
      <3> QED
        BY <3>3 DEF copy, begun, owed, Promise!Begin
    <2> QED
      BY <2>6, <2>9 DEF Maps, Promise!Next
  <1> QED
    BY <1>3, <1>4

LEMMA ReplicaLeaves ==
    ASSUME NEW i, Sole(i), TypeOK, ReplicaInv, NEW c \in Client, Refuse(c) \/ Leave(c)
    PROVE  ReplicaInv' /\ Maps
  <1>1. UNCHANGED <<version, store, limbo, flight>>
    BY DEF Refuse, Leave
  <1>2. ReplicaInv'
    BY <1>1, ClientsKeep
  <1>3. \A d \in Client \ {c} : client'[d] = client[d]
    BY DEF Refuse, Leave, TypeOK
  <1>4. \A d \in Client \ {c} : Owes(d)' = Owes(d)
    BY <1>3 DEF Owes, Redirected, Answered
  <1>5. ~Redirected(c)' /\ Owes(c)' = {}
    BY DEF Owes, Refuse, Leave, TypeOK, Redirected, Answered, Redirects
  <1>6. CASE Refuse(c)
    <2>1. Owes(c) = {}
      BY <1>6 DEF Refuse, Owes, Redirected, Answered
    <2> QED
      BY <1>1, <1>2, <1>4, <1>5, <2>1, Stutters DEF Maps
  <1>7. CASE Leave(c)
    <2> DEFINE copy  == [l \in Variant |-> IF store[l] = None THEN 0 ELSE store[l].body.version]
               begun == [l \in Variant |-> flight[CHOOSE j \in Instance : TRUE][l].floor]
               owed  == [d \in Client |-> IF Redirected(d)
                                          THEN {[key |-> client[d].key,
                                                 least |-> Owed(client[d].answer)]}
                                          ELSE {}]
    <2>1. UNCHANGED <<version, copy, begun>>
      BY <1>1
    <2>2. owed' = [owed EXCEPT ![c] = {}]
      BY <1>4, <1>5 DEF Owes
    <2> HIDE DEF copy, begun, owed
    <2>3. owed' = [owed EXCEPT ![c] = {}] /\ UNCHANGED <<version, copy, begun>>
      BY <2>1, <2>2
    <2>4. Promise!Settle(c)
      BY <2>3 DEF copy, begun, owed, Promise!Settle
    <2> QED
      BY <1>2, <2>4 DEF Maps, Promise!Next
  <1> QED
    BY <1>6, <1>7

LEMMA ReplicaCrashes ==
    ASSUME NEW i, Sole(i), TypeOK, ReplicaInv, Crash(i)
    PROVE  ReplicaInv' /\ Maps
  <1>1. i \in Instance /\ Instance = {i} /\ UNCHANGED <<version, store>>
    BY TheFlights DEF Sole, Crash
  <1>2. UNCHANGED limbo
    BY DEF Crash, Sole
  <1>3. \A k \in Variant : flight'[i][k] = Idle
    BY <1>1 DEF Crash, TypeOK
  <1>4. version \in Nat
    BY <1>1 DEF TypeOK, Version
  <1>5. ReplicaInv'
    BY <1>1, <1>2, <1>3, <1>4, IdleLed DEF ReplicaInv
  <1>6. \A c \in Client : Owes(c)' = Owes(c)
    BY DEF Crash, Owes, Redirected, Answered, Waiting
  <1>7. \A k \in Variant : flight'[i][k].floor = IF k \in Variant THEN 0 ELSE flight[i][k].floor
    BY <1>3 DEF Idle
  <1>8. \A k \in Variant : Held(store'[k]) = Held(store[k])
    BY <1>1
  <1>9. Promise!Abandon
    BY <1>1, <1>6, <1>7, <1>8, Abandons
  <1> QED
    BY <1>5, <1>9 DEF Maps, Promise!Next

LEMMA ReplicaPublishes ==
    ASSUME NEW i, Sole(i), TypeOK, ReplicaInv, Publish
    PROVE  ReplicaInv' /\ Maps
  <1>1. /\ version' = version + 1 /\ version < MaxVersion
        /\ UNCHANGED <<store, limbo, flight, client>>
    BY DEF Publish
  <1>2. version \in Nat
    BY DEF TypeOK, Version
  <1>3. ReplicaInv'
    <2>1. ASSUME NEW k \in Variant
          PROVE  Held(store[k]) <= version + 1 /\ Led(flight[i][k], store[k], version + 1)
      <3>1. /\ i \in Instance /\ Held(store[k]) \in Nat /\ Held(store[k]) <= version
            /\ flight[i][k].floor \in Nat /\ Led(flight[i][k], store[k], version)
        BY TheFlights, FloorType DEF ReplicaInv
      <3>2. flight[i][k].pc = "put" => flight[i][k].body.version \in Nat
        BY <3>1 DEF TypeOK, Equipped, Body, Version
      <3> QED
        BY <1>2, <3>1, <3>2 DEF Led
    <2> QED
      BY <1>1, <2>1 DEF ReplicaInv, Sole
  <1>4. Promise!Publish
    <2> DEFINE copy  == [l \in Variant |-> IF store[l] = None THEN 0 ELSE store[l].body.version]
               begun == [l \in Variant |-> flight[CHOOSE j \in Instance : TRUE][l].floor]
               owed  == [d \in Client |-> IF Redirected(d)
                                          THEN {[key |-> client[d].key,
                                                 least |-> Owed(client[d].answer)]}
                                          ELSE {}]
    <2>1. UNCHANGED <<copy, begun, owed>>
      BY <1>1 DEF Redirected, Answered
    <2> HIDE DEF copy, begun, owed
    <2>2. version < MaxVersion /\ version' = version + 1 /\ UNCHANGED <<copy, begun, owed>>
      BY <1>1, <2>1
    <2> QED
      BY <2>2 DEF copy, begun, owed, Promise!Publish
  <1> QED
    BY <1>3, <1>4 DEF Maps, Promise!Next

\* A tick only ages what is stored.
LEMMA ReplicaTicks ==
    ASSUME NEW i, Sole(i), TypeOK, ReplicaInv, Tick
    PROVE  ReplicaInv' /\ Maps
  <1>1. UNCHANGED <<version, limbo, flight, client>>
    BY DEF Tick
  <1>2. ASSUME NEW k \in Variant
        PROVE  /\ store[k] = None <=> store'[k] = None
               /\ store[k] # None => store'[k].body = store[k].body
    <2>1. store[k] # None => /\ [store[k] EXCEPT !.resident = @ + 1].body = store[k].body
                             /\ store[k].resident < Horizon
                                  => [store[k] EXCEPT !.resident = @ + 1] # None
      <3> SUFFICES ASSUME store[k] # None
                   PROVE  /\ [store[k] EXCEPT !.resident = @ + 1].body = store[k].body
                          /\ store[k].resident < Horizon
                               => [store[k] EXCEPT !.resident = @ + 1] # None
        OBVIOUS
      <3>1. store[k] \in Object
        BY DEF TypeOK
      <3>2. store[k].resident < Horizon => [store[k] EXCEPT !.resident = @ + 1] \in Object
        BY <3>1, ConstantsAssumption DEF Object
      <3> QED
        BY <3>1, <3>2, ConstantsAssumption DEF Object
    <2>2. store'[k] = IF store[k] # None /\ store[k].resident < Horizon
                      THEN [store[k] EXCEPT !.resident = @ + 1] ELSE store[k]
      BY DEF Tick
    <2> QED
      BY <2>1, <2>2
  <1>3. \A k \in Variant : Held(store'[k]) = Held(store[k])
    BY <1>2 DEF Held
  <1>4. ReplicaInv'
    BY <1>1, <1>2, <1>3 DEF ReplicaInv, Led
  <1>5. \A c \in Client : Owes(c)' = Owes(c)
    BY <1>1 DEF Owes, Redirected, Answered
  <1> QED
    BY <1>1, <1>3, <1>4, <1>5, Stutters DEF Maps

LEMMA ReplicaStep ==
    ASSUME NEW i, Sole(i), TypeOK, LabelInv, ReplicaInv, VersionsTold, [Next]_vars
    PROVE  ReplicaInv' /\ Maps
  <1> USE DEF Sole
  <1>1. CASE \E c \in Client : Refuse(c) \/ Leave(c)
    BY <1>1, ReplicaLeaves
  <1>2. CASE \E c \in Client, j \in Instance, k \in Variant : Arrive(c, j, k)
    BY <1>2, ReplicaArrives
  <1>3. CASE \E j \in Instance, k \in Variant : Progress(j, k) \/ PutUnacknowledged(j, k)
    BY <1>3, ReplicaProgress
  <1>4. CASE \E j \in Instance : Crash(j)
    BY <1>4, ReplicaCrashes
  <1>5. CASE \E k \in Variant : LateWriteLands(k) \/ Delete(k)
    BY <1>5 DEF LateWriteLands, Delete, ReplicaInv
  <1>6. CASE Publish
    BY <1>6, ReplicaPublishes
  <1>7. CASE Tick
    BY <1>7, ReplicaTicks
  <1>8. CASE UNCHANGED vars
    <2>1. UNCHANGED <<version, store, limbo, flight, client>>
      BY <1>8 DEF vars
    <2>2. ReplicaInv'
      BY <2>1, ClientsKeep
    <2>3. \A c \in Client : Owes(c)' = Owes(c)
      BY <2>1 DEF Owes, Redirected, Answered
    <2> QED
      BY <2>1, <2>2, <2>3, Stutters DEF Maps
  <1> QED
    BY <1>1, <1>2, <1>3, <1>4, <1>5, <1>6, <1>7, <1>8 DEF Next

LEMMA ReplicaInit ==
    ASSUME NEW i, Sole(i), Init
    PROVE  ReplicaInv /\ Promise!Init
  <1>1. /\ version = 1 /\ limbo = [k \in Variant |-> None]
        /\ flight = [j \in Instance |-> [k \in Variant |-> Idle]]
        /\ client = [c \in Client |-> None]
    BY DEF Init
  <1>2. \A k \in Variant : Held(store[k]) \in 0..1
    BY DEF Init, Held, Sole
  <1>3. ReplicaInv
    BY <1>1, <1>2, IdleLed DEF ReplicaInv
  <1> DEFINE copy  == [l \in Variant |-> IF store[l] = None THEN 0 ELSE store[l].body.version]
             begun == [l \in Variant |-> flight[CHOOSE j \in Instance : TRUE][l].floor]
             owed  == [d \in Client |-> IF Redirected(d)
                                        THEN {[key |-> client[d].key,
                                               least |-> Owed(client[d].answer)]}
                                        ELSE {}]
  <1>4. copy \in [Variant -> 0..1]
    BY <1>2 DEF Held
  <1>5. begun = [k \in Variant |-> 0]
    BY <1>1, TheFlights DEF Idle
  <1>6. owed = [c \in Client |-> {}]
    BY <1>1 DEF Redirected, Answered
  <1> HIDE DEF copy, begun, owed
  <1>7. /\ version = 1 /\ copy \in [Variant -> 0..1] /\ begun = [k \in Variant |-> 0]
        /\ owed = [c \in Client |-> {}]
    BY <1>1, <1>4, <1>5, <1>6
  <1>8. Promise!Init
    BY <1>7 DEF copy, begun, owed, Promise!Init
  <1> QED
    BY <1>3, <1>8

-----------------------------------------------------------------------------

\* One instance keeps Replica's promise, whatever fails, retries, crashes or
\* is published while requests run (singleflight.Do and fetchAndCache).
THEOREM Implements ==
    ASSUME NEW i, Sole(i), VersionsTold
    PROVE  Spec => ImplementsReplica
  <1>1. Init => ReplicaInv /\ Promise!Init
    BY ReplicaInit
  <1>2. TypeOK /\ LabelInv /\ ReplicaInv /\ [Next]_vars => ReplicaInv' /\ Maps
    BY ReplicaStep
  <1>3. Spec => []TypeOK
    BY TypeCorrect
  <1>4. Spec => []LabelInv
    BY LabelInvHolds
  <1> QED
    BY <1>1, <1>2, <1>3, <1>4, PTL DEF Spec, ImplementsReplica, Promise!Spec, Maps

\* So a redirect that rests on asking the origin leads to bytes at least as
\* recent as what was published when its flight began, until the download
\* (fetchAndCache): a debt that Replica covers.
THEOREM RecentEnough ==
    ASSUME NEW i, Sole(i), VersionsTold
    PROVE  Spec => []ServedRecentEnough
  <1>1. Spec => [](Promise!TypeOK /\ Promise!DebtsCovered)
    BY Implements, Promise!Covered, ConstantsAssumption DEF ImplementsReplica
  <1>2. TypeOK /\ Promise!TypeOK /\ Promise!DebtsCovered => ServedRecentEnough
    <2> SUFFICES ASSUME TypeOK, Promise!TypeOK, Promise!DebtsCovered, NEW c \in Client, Redirected(c),
                        client[c].answer.action \in Checked, store[client[c].key] # None
                 PROVE  AtLeast(store[client[c].key].body, client[c].answer.floor)
      BY DEF ServedRecentEnough, Checked
    <2> DEFINE answer == client[c].answer
               k      == client[c].key
               body   == store[k].body
    <2>1. answer \in Answer /\ k \in Variant
      BY DEF TypeOK, Redirected, Answered, Request
    <2>2. body \in Body /\ body.version \in 1..MaxVersion
      BY <2>1 DEF TypeOK, Object, Body, Version
    <2>3. Owed(answer) \in 1..MaxVersion /\ Owed(answer) <= body.version
      <3> DEFINE copy == [l \in Variant |-> IF store[l] = None THEN 0 ELSE store[l].body.version]
                 owed == [d \in Client |-> IF Redirected(d)
                                           THEN {[key |-> client[d].key,
                                                  least |-> Owed(client[d].answer)]}
                                           ELSE {}]
                 debt == [key |-> k, least |-> Owed(answer)]
      <3>1. debt \in owed[c] /\ debt.key = k /\ debt.least = Owed(answer)
        OBVIOUS
      <3>2. copy[k] = body.version
        BY <2>1
      <3> HIDE DEF copy, owed, debt
      <3>3. owed \in [Client -> SUBSET [key : Variant, least : 1..MaxVersion]]
        BY DEF Promise!TypeOK, Promise!Debt, owed
      <3>4. \A d \in owed[c] : d.least <= copy[d.key]
        BY DEF Promise!DebtsCovered, owed, copy
      <3> QED
        BY <3>1, <3>2, <3>3, <3>4
    <2>4. answer.floor <= Owed(answer) /\ answer.floor \in 0..MaxVersion
      BY <2>1, <2>3, ConstantsAssumption DEF Answer, Owed
    <2>5. body.version \in answer.floor..MaxVersion
      BY <2>2, <2>3, <2>4, ConstantsAssumption
    <2>6. [body EXCEPT !.version = body.version] = body
      BY <2>2 DEF Body
    <2> QED
      BY <2>5, <2>6 DEF AtLeast
  <1> QED
    BY <1>1, <1>2, TypeCorrect, PTL

=============================================================================
