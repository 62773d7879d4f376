CONSTANTS
    Absent = Absent
    Invalid = Invalid
    None = None
    NoAccept = NoAccept
    Client = {c1}
    Instance = {i1}
    Accept = {}
    MaxVersion = 2
    Negotiates = FALSE
    ETag <- AllTags
    StrongETag <- AllTags
    ContentType <- OneTypeSet
    ETagOf <- NoTag
    LastModifiedOf <- FallingDate
    ContentTypeOf <- OneType
    BytesOf <- OwnBytes
    Oversized <- NoBodies
    Declaration <- Cacheable
    Revalidator = "date"
    Statuses = {503}
    FetchErrors = {"net"}
    OnConnectionError = TRUE
    On5xx = TRUE
    OnAnyError = FALSE
    HonorFreshness = TRUE
    FreshnessCap = 2
    Faults = {}
    Corpus <- NoCorpus
    CopyIsAtomic = TRUE
    Horizon = 2
SPECIFICATION Spec
INVARIANT ValidatorsBelong
