CONSTANTS
    Absent = Absent
    Invalid = Invalid
    None = None
    NoAccept = NoAccept
    Client = {c1}
    Instance = {i1, i2}
    Accept = {}
    MaxVersion = 2
    Negotiates = FALSE
    ETag <- AllTags
    StrongETag <- AllTags
    ContentType <- OneTypeSet
    ETagOf <- OwnTag
    LastModifiedOf <- NoDate
    ContentTypeOf <- OneType
    BytesOf <- OwnBytes
    Oversized <- NoBodies
    Declaration <- LongCacheable
    Revalidator = "etag"
    Statuses = {}
    FetchErrors = {"net"}
    OnConnectionError = TRUE
    On5xx = TRUE
    OnAnyError = FALSE
    HonorFreshness = TRUE
    FreshnessCap = 2
    Faults = {}
    Corpus <- NoCorpus
    CopyIsAtomic = FALSE
    Horizon = 2
SPECIFICATION FairSpec
PROPERTY CatchesUp
