CONSTANTS
    Absent = Absent
    Invalid = Invalid
    None = None
    NoAccept = NoAccept
    Client = {c1, c2}
    Instance = {i1, i2}
    Accept = {}
    MaxVersion = 2
    Negotiates = FALSE
    ETag <- AllTags
    StrongETag <- AllTags
    ContentType <- OneTypeSet
    ETagOf <- OwnTag
    LastModifiedOf <- NoDate
    ContentTypeOf <- OneType
    BytesOf <- OwnBytes
    Oversized <- NoBodies
    Declaration <- NotCacheable
    Revalidator = "etag"
    Statuses = {503}
    FetchErrors = {"net"}
    OnConnectionError = TRUE
    On5xx = TRUE
    OnAnyError = FALSE
    HonorFreshness = FALSE
    FreshnessCap = 2
    Faults = {}
    Corpus <- NoCorpus
    CopyIsAtomic = TRUE
    Horizon = 2
SPECIFICATION Spec
INVARIANT NeverOlderThanDecision
