------------------------------- MODULE Inputs -------------------------------
(***************************************************************************)
(* Texts and numbers from outside, grown one token or one step at a time,  *)
(* and what the mirror's parsers, encoders and durations owe each of them. *)
(***************************************************************************)
EXTENDS HeaderLists, Durations, CacheKeys

CONSTANTS
    Kind,           \* what a text is read as
    Alphabet,       \* Alphabet[k]: the tokens of a text of kind k
    MaxLength,      \* MaxLength[k]: bound on their number
    Query,          \* queries and Accept values of requests
    Variant,
    OtherKey        \* keys to tell a key from

ASSUME LengthAssumption == MaxLength \in [Kind -> Nat]

\* Texts and parameters are made of tokens.
ASSUME TokenAssumption ==
    /\ \A k \in Kind : Alphabet[k] \subseteq Token
    /\ {"realm", "service", "scope", "s"} \subseteq Token

\* Names of repositories have no empty segment.
ASSUME SegmentAssumption == "repository" \in Kind => "" \notin Alphabet["repository"]

\* What a path is cut into, a query and a header value are decoded texts; the
\* latter two have no NUL.
ASSUME KeyAssumption ==
    "key" \in Kind =>
      /\ BoundedSeq(Alphabet["key"], MaxLength["key"] - 1) \subseteq Text
      /\ Query \cup Variant \subseteq Text \cap Bytes({Nul})
      /\ OtherKey \subseteq CacheKey

VARIABLES kind, text, number

inputVars == <<kind, text, number>>

InputsInit ==
    /\ kind \in Kind
    /\ text = <<>>
    /\ number = MinInt

\* The text gets longer.
Lengthen ==
    /\ Len(text) < MaxLength[kind]
    /\ \E token \in Alphabet[kind] : text' = Append(text, token)
    /\ UNCHANGED <<kind, number>>

\* Numbers are counted through once, beside the empty text of one kind.
Count ==
    /\ kind = "number"
    /\ number < MaxInt
    /\ number' = number + 1
    /\ UNCHANGED <<kind, text>>

InputsNext == Lengthen \/ Count

InputsSpec == InputsInit /\ [][InputsNext]_inputVars

-----------------------------------------------------------------------------
(* Reference definitions                                                   *)

\* Where a text leaves a reader of RFC 9110's quoted strings.
ReadingStep(before, ch) ==
    CASE before = "escaped" -> "inside"
      [] before = "inside"  -> IF ch = Escape THEN "escaped"
                               ELSE IF ch = Quote THEN "outside" ELSE "inside"
      [] before = "outside" -> IF ch = Quote THEN "inside" ELSE "outside"

Reading[s \in Seq(Token)] ==
    IF s = <<>> THEN "outside" ELSE ReadingStep(Reading[Front(s)], Last(s))

\* What is between the commas outside quoted strings.
Pieces(s) ==
    LET cuts == {i \in DOMAIN s : s[i] = "," /\ Reading[SubSeq(s, 1, i - 1)] = "outside"}
        To(i) == Min({j \in cuts : j > i} \cup {Len(s) + 1}) - 1
    IN  {SubSeq(s, i + 1, To(i)) : i \in {0} \cup cuts}

\* The arguments a header value gives a directive.
ArgumentsOf(name, s) ==
    {SecondsIn(ArgumentOf(p)) : p \in {q \in Pieces(s) : NameOf(q) = <<name>>}}

\* A value with its quotes escaped, and as a quoted string.
EscapedStep(done, ch) == done \o (IF ch = Quote THEN <<Escape, Quote>> ELSE <<ch>>)

Escaped[value \in Seq(Token)] ==
    IF value = <<>> THEN <<>> ELSE EscapedStep(Escaped[Front(value)], Last(value))

Quoted(value) == <<Quote>> \o Escaped[value] \o <<Quote>>

-----------------------------------------------------------------------------
(* Properties                                                              *)

\* Whatever is repeated, garbled or in quotes, and however a value is spread
\* over headers: what is declared outside quotes is never overridden by
\* something weaker.  no-cache is heard; a lifetime is granted only if each
\* s-maxage there is grants it, or else each max-age, or there is neither
\* (splitQuoted, parseCacheControl, declaredLifetime).
AmbiguityDenies ==
    kind = "cache-control" =>
      \A i \in 0..Len(text) :
        LET values == <<SubSeq(text, 1, i), SubSeq(text, i + 1, Len(text))>>
            cc     == ParseCacheControl(values)
            Args(name) == ArgumentsOf(name, values[1]) \cup ArgumentsOf(name, values[2])
            grant  == DeclaredLifetime([cacheControl |-> cc, expires |-> 9, date |-> 0], 0)
        IN  /\ Args("no-cache") # {} => cc.noCache
            /\ grant # Invalid =>
                 IF Args("s-maxage") # {} THEN Args("s-maxage") = {grant}
                 ELSE IF Args("max-age") # {} THEN Args("max-age") = {grant}
                 ELSE grant = 9

\* A challenge says what it said before it was quoted, whatever commas, equals
\* signs, quotes and blanks its values hold, in whatever order they come, and
\* another scheme's challenge beside it does not matter
\* (parseOCIAuthChallenge, splitAuthParams, parseAuthChallengeParams).
ChallengeRoundTrip ==
    kind = "challenge" =>
      LET realm == <<"realm", "=">> \o Quoted(text)
          scope == <<Blank, "scope", "=">> \o Quoted(text)
          other == [scheme |-> "Basic", params |-> <<"realm", "=", "x">>]
          Says(params, service) ==
            ParseOCIAuthChallenge(<<other, [scheme |-> "Bearer", params |-> params]>>)
              = [realm |-> text, service |-> service, scope |-> text]
      IN  /\ Says(realm \o <<",", "service", "=", "s", ",">> \o scope, <<"s">>)
          /\ Says(scope \o <<",">> \o realm, <<>>)

\* The repository of a path is the one its URL was made for, also when a
\* segment of its name, or the reference, reads like an action
\* (extractOCIRepository).
RepositoryExact ==
    kind = "repository" =>
      \A rest \in {<<"manifests", "x">>, <<"manifests", "tags">>, <<"blobs", "x">>,
                   <<"blobs", "uploads", "x">>, <<"tags", "list">>} :
        ExtractOCIRepository(<<"", "v2">> \o text \o rest)
          = IF text = <<>> THEN Absent ELSE text

\* Requests for different things never share an object or a flight, whatever
\* bytes stand in their paths, queries and Accept values; and they share a
\* flight exactly when they share an object
\* (parseTargetURL, s3PathFor, CacheKey.String).
KeysSeparate ==
    kind = "key" =>
      LET url == ParseTargetURL(<<"/">> \o text)
      IN  url # None =>
            \A q \in Query, v \in Variant, l \in OtherKey :
              LET k == [host |-> url.host, path |-> url.path, query |-> q, variant |-> v]
              IN  /\ S3PathFor(k) = S3PathFor(l) => k = l
                  /\ FlightKey(k) = FlightKey(l) => k = l

\* A touch copies the object it is about, whatever its key looks like: S3
\* reads back the name that was escaped (escapeCopySource).
CopySourceNames ==
    kind = "key" => ReadCopySource(EscapeCopySource(text)) = text

\* However old a response claims to be, time in the cache makes it older: the
\* sum does not wrap around (parseDeltaSeconds' half range; resident times up
\* to the other half).
AgeNeverWraps ==
    kind = "number" /\ number >= 0 =>
      LET age == ParseDeltaSeconds(number)
      IN  age # Invalid => \A resident \in 0..(MaxInt \div 2) :
                             CurrentAge(resident, age) = resident + number * Second

\* A token is kept for some time and never longer than the registry says it
\* lasts, 5 seconds apart, even if that wraps around (fetchToken).
TokenLifeHonest ==
    kind = "number" /\ number >= 0 =>
      /\ TokenLife(number) > 0
      /\ TokenLife(number) <= Max({5, IF number = 0 THEN 60 ELSE number}) * Second

-----------------------------------------------------------------------------
(* What the package comment says and the code does not do                  *)

\* "Every ambiguity fails open to revalidation" (freshness.go:7): a no-cache
\* outside quoted strings is heard, also after an escaped quote in one.
QuotedPairHeard ==
    kind = "cache-control" =>
      LET value == <<"max-age", "=5", ",", "ext", "=">> \o text
      IN  (\E p \in Pieces(value) : NameOf(p) = <<"no-cache">>)
            => ParseCacheControl(<<value>>).noCache

=============================================================================
