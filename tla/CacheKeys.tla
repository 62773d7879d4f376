------------------------------ MODULE CacheKeys ------------------------------
(***************************************************************************)
(* From a request to the names its response is kept under: the URL it      *)
(* asks for (parseTargetURL), the S3 object (s3PathFor), the flight it     *)
(* joins (CacheKey.String) and the source of a copy (escapeCopySource).    *)
(* A text is a sequence of bytes.  The encoders are net/url's, known by    *)
(* what TestKeyEncoderAlphabets pins down.                                 *)
(***************************************************************************)
EXTENDS Integers, Sequences, FiniteSetsExt

CONSTANTS
    Byte,
    Text,               \* decoded texts: a set of sequences of bytes
    None,
    PathEscape(_),      \* url.PathEscape
    EscapedPath(_),     \* url.URL.EscapedPath of a path without a RawPath
    QueryEscape(_),     \* url.QueryEscape
    HostEscape(_),      \* what url.URL.String makes of a host
    Prefix,             \* --prefix
    Scheme,             \* "https://"
    Nul                 \* the separator in CacheKey.String

Bytes(S) == Seq(Byte \ S)

\* Each encoder tells texts apart and writes no byte that would be taken for
\* a joiner; an escaped path begins with a slash when the path does.
ASSUME EncoderAssumption ==
    /\ {"?", "/", Nul} \subseteq Byte
    /\ Nul \notin {"?", "/"}
    /\ {Prefix, Scheme} \subseteq Seq(Byte)
    /\ Text \subseteq Seq(Byte)
    /\ \A s \in Text :
         /\ PathEscape(s) \in Bytes({"?", "/", Nul})
         /\ HostEscape(s) \in Bytes({"?", "/", Nul})
         /\ EscapedPath(s) \in Bytes({"?", Nul})
         /\ QueryEscape(s) \in Bytes({"?", Nul})
         /\ s # <<>> => QueryEscape(s) # <<>>
         /\ s # <<>> /\ s[1] = "/" => EscapedPath(s) # <<>> /\ EscapedPath(s)[1] = "/"
    /\ \A s, t \in Text :
         /\ PathEscape(s) = PathEscape(t) => s = t
         /\ HostEscape(s) = HostEscape(t) => s = t
         /\ EscapedPath(s) = EscapedPath(t) => s = t
         /\ QueryEscape(s) = QueryEscape(t) => s = t

\* Paths of target URLs begin with a slash; a query or a header value has no
\* NUL in it.
CacheKey == [host    : Text,
             path    : {s \in Text : s # <<>> /\ s[1] = "/"},
             query   : Text \cap Bytes({Nul}),
             variant : Text \cap Bytes({Nul})]

\* parseTargetURL on the decoded path of a request: the host is what comes
\* before the second slash, the path begins with it.
ParseTargetURL(path) ==
    LET trimmed == IF path # <<>> /\ path[1] = "/" THEN Tail(path) ELSE path
        slashes == {i \in DOMAIN trimmed : trimmed[i] = "/"}
    IN  IF slashes = {} \/ Min(slashes) = 1 THEN None
        ELSE [host |-> SubSeq(trimmed, 1, Min(slashes) - 1),
              path |-> SubSeq(trimmed, Min(slashes), Len(trimmed))]

\* Mutant: one question mark for either joiner.
S3PathForOneMark(key) ==
    LET query   == IF key.query = <<>> THEN <<>> ELSE <<"?">> \o QueryEscape(key.query)
        variant == IF key.variant = <<>> THEN <<>> ELSE <<"?">> \o PathEscape(key.variant)
    IN  Prefix \o <<"/">> \o ((PathEscape(key.host) \o EscapedPath(key.path)) \o (query \o variant))

\* s3PathFor: the query is set off by one question mark, the variant by two.
S3PathFor(key) ==
    LET query   == IF key.query = <<>> THEN <<>> ELSE <<"?">> \o QueryEscape(key.query)
        variant == IF key.variant = <<>> THEN <<>> ELSE <<"?">> \o (<<"?">> \o PathEscape(key.variant))
    IN  Prefix \o <<"/">> \o ((PathEscape(key.host) \o EscapedPath(key.path)) \o (query \o variant))

\* CacheKey.String: the URL as it is written, and the variant after a NUL.
FlightKey(key) ==
    LET query   == IF key.query = <<>> THEN <<>> ELSE <<"?">> \o key.query
        variant == IF key.variant = <<>> THEN <<>> ELSE <<Nul>> \o key.variant
    IN  Scheme \o (((HostEscape(key.host) \o EscapedPath(key.path)) \o query) \o variant)

-----------------------------------------------------------------------------
(* Copy sources                                                            *)

\* Bytes that stand for themselves in a copy source.
Unreserved == {"a", "/"}

\* Mutant: the plus sign stands for itself, as it does in a path.
EscapeCopySourcePlus(text) ==
    [i \in DOMAIN text |-> IF text[i] \in Unreserved \cup {"+"} THEN <<text[i]>>
                           ELSE <<"%", text[i]>>]

\* escapeCopySource: each byte as itself or, as %XX, after a percent sign.
EscapeCopySource(text) ==
    [i \in DOMAIN text |-> IF text[i] \in Unreserved THEN <<text[i]>>
                           ELSE <<"%", text[i]>>]

\* S3 reads the header as it would a query: a plus sign is a space.
ReadCopySource(escaped) ==
    [i \in DOMAIN escaped |->
        IF escaped[i] = <<"+">> THEN " " ELSE escaped[i][Len(escaped[i])]]

=============================================================================
