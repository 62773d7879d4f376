CONSTANTS
    Absent = Absent
    Invalid = Invalid
    None = None
    NoAccept = NoAccept
    Client = {c1}
    Instance = {i1}
    Accept = {json}
    MaxVersion = 2
    Negotiates = TRUE
    ETag <- AllTags
    StrongETag <- AllTags
    ContentType <- OneTypeSet
    ETagOf <- OwnTag
    LastModifiedOf <- NoDate
    ContentTypeOf <- OneType
    BytesOf <- OwnBytes
    Oversized <- NoBodies
    Declaration <- Cacheable
    Revalidator = "etag"
    Statuses = {503}
    FetchErrors = {"net"}
    OnConnectionError = TRUE
    On5xx = TRUE
    OnAnyError = FALSE
    HonorFreshness = TRUE
    FreshnessCap = 2
    Faults = {"head", "put", "lateWrite", "touch", "conn", "crash", "delete"}
    Corpus <- LegacyCorpus
    CopyIsAtomic = TRUE
    Horizon = 2
SPECIFICATION Spec
INVARIANT VariantIsolation
