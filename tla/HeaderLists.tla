----------------------------- MODULE HeaderLists -----------------------------
(***************************************************************************)
(* How the mirror takes apart header values and paths: the directives of   *)
(* Cache-Control (internal/freshness), the parameters of an OCI challenge  *)
(* and the repository in an OCI path (oci_auth.go).                        *)
(*                                                                         *)
(* A text is a sequence of tokens: a token is a punctuation mark that      *)
(* steers a parser, or a word or number no parser looks into.  White space *)
(* is a token only where it is kept.                                       *)
(***************************************************************************)
EXTENDS Freshness, SequencesExt, FiniteSetsExt

CONSTANT Token      \* the tokens of texts

Quote == "\""
Escape == "\\"
Blank == " "

ASSUME MarkAssumption == {Quote, Escape, Blank, ",", "="} \subseteq Token

ASSUME NoTextAssumption == Absent \notin Seq(Token)

-----------------------------------------------------------------------------
(* Cache-Control                                                           *)

\* splitQuoted's loop: one more character.
QuotedStep(s, ch) ==
    IF ch = "," /\ ~s.inQuotes
    THEN [s EXCEPT !.parts = Append(@, s.piece), !.piece = <<>>]
    ELSE [s EXCEPT !.piece = Append(@, ch), !.inQuotes = IF ch = Quote THEN ~@ ELSE @]

QuotedScan[text \in Seq(Token)] ==
    IF text = <<>> THEN [parts |-> <<>>, piece |-> <<>>, inQuotes |-> FALSE]
    ELSE QuotedStep(QuotedScan[Front(text)], Last(text))

\* splitQuoted: the pieces between the commas outside quotes.
SplitQuoted(text) == Append(QuotedScan[text].parts, QuotedScan[text].piece)

\* Tokens that begin with an equals sign: alone, or with a number.
Assigns == {"=", "=0", "=5"}

\* strings.Cut at the first equals sign.
NameOf(piece) ==
    LET i == SelectInSeq(piece, LAMBDA ch : ch \in Assigns)
    IN  IF i = 0 THEN piece ELSE SubSeq(piece, 1, i - 1)

ArgumentOf(piece) ==
    LET i == SelectInSeq(piece, LAMBDA ch : ch \in Assigns)
    IN  IF i = 0 THEN <<>> ELSE SubSeq(piece, i, Len(piece))

\* parseDeltaSeconds on an argument: digits and nothing else.
SecondsIn(argument) ==
    CASE argument = <<"=0">> -> 0
      [] argument = <<"=5">> -> 5
      [] OTHER -> Invalid

\* occurrences: in which value, as which piece, a directive is given.
Occurrences(name, values) ==
    UNION {{v} \X {p \in DOMAIN SplitQuoted(values[v]) :
                      NameOf(SplitQuoted(values[v])[p]) = <<name>>} : v \in DOMAIN values}

SecondsAt(o, values) == SecondsIn(ArgumentOf(SplitQuoted(values[o[1]])[o[2]]))

\* Mutant: a directive given twice counts as not given.
ParseOnceAbsent(name, values) ==
    LET mine == Occurrences(name, values)
    IN  IF \E o \in mine : mine = {o} THEN SecondsAt(CHOOSE o \in mine : TRUE, values)
        ELSE Absent

\* parseOnce: a duration counts if its directive is there exactly once.
ParseOnce(name, values) ==
    LET mine == Occurrences(name, values)
    IN  CASE mine = {} -> Absent
          [] \E o \in mine : mine = {o} -> SecondsAt(CHOOSE o \in mine : TRUE, values)
          [] OTHER -> Invalid

\* parseCacheControl over all values of the header.
ParseCacheControl(values) ==
    [noCache |-> Occurrences("no-cache", values) # {},
     sMaxAge |-> ParseOnce("s-maxage", values),
     maxAge  |-> ParseOnce("max-age", values)]

-----------------------------------------------------------------------------
(* OCI challenges                                                          *)

\* Mutant: quoted strings end at the first quote.
SplitAuthParamsUnescaped(text) == SplitQuoted(text)

\* splitAuthParams' loop: as splitQuoted's, but a backslash shields what
\* follows it.
ShieldedStep(s, ch) ==
    IF s.escape THEN [s EXCEPT !.piece = Append(@, ch), !.escape = FALSE]
    ELSE IF ch = "," /\ ~s.inQuotes
    THEN [s EXCEPT !.parts = Append(@, s.piece), !.piece = <<>>]
    ELSE [s EXCEPT !.piece = Append(@, ch), !.escape = ch = Escape,
                   !.inQuotes = IF ch = Quote THEN ~@ ELSE @]

ShieldedScan[text \in Seq(Token)] ==
    IF text = <<>>
    THEN [parts |-> <<>>, piece |-> <<>>, inQuotes |-> FALSE, escape |-> FALSE]
    ELSE ShieldedStep(ShieldedScan[Front(text)], Last(text))

\* splitAuthParams: an empty last piece is dropped.
SplitAuthParams(text) ==
    LET end == ShieldedScan[text]
    IN  IF end.piece = <<>> THEN end.parts ELSE Append(end.parts, end.piece)

TrimSpace(text) ==
    LET kept == {i \in DOMAIN text : text[i] # Blank}
    IN  IF kept = {} THEN <<>> ELSE SubSeq(text, Min(kept), Max(kept))

\* strings.ReplaceAll(value, `\"`, `"`), one character further.
UnescapeStep(done, ch) ==
    IF ch = Quote /\ done # <<>> /\ Last(done) = Escape
    THEN Append(Front(done), Quote)
    ELSE Append(done, ch)

UnescapeQuotes[text \in Seq(Token)] ==
    IF text = <<>> THEN <<>> ELSE UnescapeStep(UnescapeQuotes[Front(text)], Last(text))

Unquote(value) ==
    IF Len(value) >= 2 /\ Head(value) = Quote /\ Last(value) = Quote
    THEN UnescapeQuotes[SubSeq(value, 2, Len(value) - 1)]
    ELSE value

\* A parameter: a name and a value on both sides of the first equals sign.
Equals(p)     == SelectInSeq(p, LAMBDA ch : ch = "=")
ParamName(p)  == TrimSpace(SubSeq(p, 1, Equals(p) - 1))
ParamValue(p) == Unquote(TrimSpace(SubSeq(p, Equals(p) + 1, Len(p))))

\* parseAuthChallengeParams: the last parameter of a name is its value.
AuthParam(name, text) ==
    LET parts == SplitAuthParams(text)
        mine  == {i \in DOMAIN parts : /\ Equals(parts[i]) # 0
                                       /\ ParamName(parts[i]) = <<name>>}
    IN  IF mine = {} THEN Absent ELSE ParamValue(parts[Max(mine)])

\* parseOCIAuthChallenge on the WWW-Authenticate headers of a 401: the first
\* Bearer challenge counts, and it needs a realm.
ParseOCIAuthChallenge(headers) ==
    LET i == SelectInSeq(headers, LAMBDA h : h.scheme = "Bearer")
        Or(x) == IF x = Absent THEN <<>> ELSE x
        params == headers[i].params
    IN  IF i = 0 \/ AuthParam("realm", params) = Absent THEN Absent
        ELSE [realm   |-> AuthParam("realm", params),
              service |-> Or(AuthParam("service", params)),
              scope   |-> Or(AuthParam("scope", params))]

-----------------------------------------------------------------------------
(* OCI paths                                                               *)

Actions == {"manifests", "blobs", "tags"}

\* Mutant: the first action ends the repository.
ExtractOCIRepositoryFirst(path) ==
    LET rest == SubSeq(path, 3, Len(path))
        at   == {i \in 2..(Len(rest) - 1) : rest[i] \in Actions}
    IN  IF Len(path) < 3 \/ path[1] # "" \/ path[2] # "v2" \/ at = {} THEN Absent
        ELSE SubSeq(rest, 1, Min(at) - 1)

\* extractOCIRepository on the segments of a path: what is between /v2/ and
\* the last action with something after it, if that is not empty.
ExtractOCIRepository(path) ==
    LET rest == SubSeq(path, 3, Len(path))
        at   == {i \in 2..(Len(rest) - 1) : rest[i] \in Actions}
        repo == SubSeq(rest, 1, Max(at) - 1)
    IN  IF Len(path) < 3 \/ path[1] # "" \/ path[2] # "v2" \/ at = {} \/ repo = <<"">>
        THEN Absent ELSE repo

=============================================================================
