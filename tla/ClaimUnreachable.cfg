CONSTANTS
    Absent = Absent
    Invalid = Invalid
    None = None
    NoAccept = NoAccept
    Client = {c1}
    Instance = {i1}
    Accept = {}
    MaxVersion = 2
    Negotiates = FALSE
    ETag <- AllTags
    StrongETag <- AllTags
    ContentType <- OneTypeSet
    ETagOf <- OwnTag
    LastModifiedOf <- NoDate
    ContentTypeOf <- OneType
    BytesOf <- OwnBytes
    Oversized <- NoBodies
    Declaration <- MaybeCacheable
    Revalidator = "etag"
    Statuses = {503}
    FetchErrors = {"connection refused", "malformed response"}
    OnConnectionError = TRUE
    On5xx = TRUE
    OnAnyError = FALSE
    HonorFreshness = TRUE
    FreshnessCap = 2
    Faults = {"conn"}
    Corpus <- NoCorpus
    CopyIsAtomic = TRUE
    Horizon = 2
SPECIFICATION Spec
INVARIANT StaleOnlyWhenUnreachable
