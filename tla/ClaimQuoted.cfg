CONSTANTS
    Absent = Absent
    Invalid = Invalid
    None = None
    Token <- Tokens
    Width = 10
    Second = 4
    Byte <- AllBytes
    Text <- Texts
    PathEscape <- PathEscapeTable
    EscapedPath <- EscapedPathTable
    QueryEscape <- QueryEscapeTable
    HostEscape <- PathEscapeTable
    Prefix <- BucketPrefix
    Scheme <- SchemeText
    Nul = "nul"
    Kind = {"cache-control"}
    Alphabet <- EscapedAlphabets
    MaxLength <- EscapedLengths
    Query <- Arguments
    Variant <- Arguments
    OtherKey <- OtherKeys
SPECIFICATION InputsSpec
INVARIANT QuotedPairHeard
CHECK_DEADLOCK FALSE
