------------------------------ MODULE MCInputs ------------------------------
(***************************************************************************)
(* An instance of Inputs: alphabets, and encoders that write a byte they   *)
(* may not leave alone as a percent sign and its code.                     *)
(***************************************************************************)
EXTENDS Inputs

\* Every string may be a token.
Tokens == STRING

Alphabets ==
    [k \in Kind |->
       CASE k = "cache-control" ->
              {"no-cache", "s-maxage", "max-age", "=0", "=5", "=", Quote, ","}
         [] k = "challenge"  -> {"a", ",", "=", Quote, Blank}
         [] k = "repository" -> {"a", "manifests", "blobs", "tags", "v2"}
         [] k = "key"        -> {"a", "/", "?", "%", "3F", "+"}
         [] OTHER            -> {}]

Lengths ==
    [k \in Kind |->
       CASE k = "cache-control" -> 5
         [] k = "challenge"  -> 5
         [] k = "repository" -> 5
         [] k = "key"        -> 4
         [] OTHER            -> 0]

\* Quoted strings with a backslash, and no-cache.
EscapedAlphabets == [k \in Kind |-> {"no-cache", "=", Quote, Escape, ","}]
EscapedLengths   == [k \in Kind |-> 6]

-----------------------------------------------------------------------------

Plain == {"a", "/", "?", "%", "3F", "+"}
Code  == [b \in {"/", "?", "%", "+"} |->
            CASE b = "/" -> "2F" [] b = "?" -> "3F" [] b = "%" -> "25" [] OTHER -> "2B"]

AllBytes == Plain \cup {"2F", "25", "2B", "nul"}
Texts    == BoundedSeq(Plain, 3)

Encoded(s, Kept) ==
    FlattenSeq([i \in DOMAIN s |-> IF s[i] \in Kept \cup {"a", "3F"} THEN <<s[i]>>
                                   ELSE <<"%", Code[s[i]]>>])

PathEscaped  == [s \in Texts |-> Encoded(s, {"+"})]
PathForm     == [s \in Texts |-> Encoded(s, {"+", "/"})]
QueryEscaped == [s \in Texts |-> Encoded(s, {})]

PathEscapeTable(s)  == PathEscaped[s]
EscapedPathTable(s) == PathForm[s]
QueryEscapeTable(s) == QueryEscaped[s]

Arguments == {<<>>, <<"a">>, <<"?">>, <<"?", "a">>}
BucketPrefix == <<"a">>
SchemeText   == <<"a", "/", "/">>

OtherKeys == [host    : {<<"a">>, <<"?">>, <<"%", "3F">>},
              path    : {<<"/">>, <<"/", "a">>, <<"/", "?">>, <<"/", "?", "a">>, <<"/", "/">>},
              query   : Arguments,
              variant : Arguments]
=============================================================================
