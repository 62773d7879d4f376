--------------------------- MODULE MCMirrorCache ---------------------------
(***************************************************************************)
(* Small instances of MirrorCache: the origin's versions, their validators *)
(* and declarations, and the corpus.                                       *)
(***************************************************************************)
EXTENDS MirrorClaims, MirrorReplica, TLC

\* An entity tag per representation, strong.
Tag(b) == <<"tag", b.version, b.accept>>
AllTags == {Tag(b) : b \in Body}

OwnTag     == [b \in Body |-> Tag(b)]
NoTag      == [b \in Body |-> Absent]
OwnDate    == [b \in Body |-> b.version]
\* One date for all versions: an origin that compares dates alone calls any
\* version unmodified.
OneDate    == [b \in Body |-> 1]
\* Each version carries an earlier date than the one before, as after a
\* rollback.
FallingDate == [b \in Body |-> -b.version]
NoDate     == [b \in Body |-> Absent]
OneType    == [b \in Body |-> "text/html"]
OwnType    == [b \in Body |-> <<"type", b.version>>]
OneTypeSet == {"text/html"}
OwnTypeSet == {<<"type", v>> : v \in Version}
OwnBytes   == [b \in Body |-> b]

\* The resource is rolled back: version 3 is version 1 again, with new tags.
RolledBackBytes == [b \in Body |-> IF b.version = 3 THEN [b EXCEPT !.version = 1] ELSE b]

MaxAge(n) == [cacheControl |-> [noCache |-> FALSE, sMaxAge |-> Absent, maxAge |-> n],
              age |-> Absent]
Undeclared == [cacheControl |-> Absent, age |-> Absent]

Cacheable      == {MaxAge(2)}
MaybeCacheable == {MaxAge(2), Undeclared}
LongCacheable  == {MaxAge(9)}
NotCacheable   == {Undeclared}

NoCorpus == {}

\* Objects that clients with an Accept left under the URL-only key, before
\* keys had variants.
LegacyCorpus == {NewObject(b, Response(b, MaxAge(2))) : b \in Body}

NoBodies == {}

Symmetry == Permutations(Client) \cup Permutations(Instance)
=============================================================================
