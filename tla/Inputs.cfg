CONSTANTS
    Absent = Absent
    Invalid = Invalid
    None = None
    Token <- Tokens
    Width = 10
    Second = 4
    Byte <- AllBytes
    Text <- Texts
    PathEscape <- PathEscapeTable
    EscapedPath <- EscapedPathTable
    QueryEscape <- QueryEscapeTable
    HostEscape <- PathEscapeTable
    Prefix <- BucketPrefix
    Scheme <- SchemeText
    Nul = "nul"
    Kind = {"cache-control", "challenge", "repository", "key", "number"}
    Alphabet <- Alphabets
    MaxLength <- Lengths
    Query <- Arguments
    Variant <- Arguments
    OtherKey <- OtherKeys
SPECIFICATION InputsSpec
INVARIANTS AmbiguityDenies  RepositoryExact 
            AgeNeverWraps TokenLifeHonest
CHECK_DEADLOCK FALSE
