CONSTANTS
    Absent = Absent
    Invalid = Invalid
    None = None
    NoAccept = NoAccept
    Client = {c1, c2}
    Instance = {i1}
    Accept = {}
    MaxVersion = 3
    Negotiates = FALSE
    ETag <- AllTags
    StrongETag <- AllTags
    ContentType <- OneTypeSet
    ETagOf <- OwnTag
    LastModifiedOf <- NoDate
    ContentTypeOf <- OneType
    BytesOf <- OwnBytes
    Oversized <- NoBodies
    Declaration <- MaybeCacheable
    Revalidator = "etag"
    Statuses = {304, 404, 503}
    FetchErrors = {"net"}
    OnConnectionError = TRUE
    On5xx = TRUE
    OnAnyError = FALSE
    HonorFreshness = TRUE
    FreshnessCap = 2
    Faults = {"head", "presign", "put", "lostReply", "body", "touch", "conn", "crash"}
    Corpus <- NoCorpus
    CopyIsAtomic = TRUE
    Horizon = 2
SPECIFICATION FairSpec
INVARIANTS TypeOK NoOrphans RedirectResolves ServedRecentEnough
PROPERTIES ImplementsReplica 
