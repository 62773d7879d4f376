CONSTANTS
    Absent = Absent
    Invalid = Invalid
    None = None
    NoAccept = NoAccept
    Client = {c1}
    Instance = {i1, i2}
    Accept = {}
    MaxVersion = 3
    Negotiates = FALSE
    ETag <- AllTags
    StrongETag <- AllTags
    ContentType <- OwnTypeSet
    ETagOf <- OwnTag
    LastModifiedOf <- OneDate
    ContentTypeOf <- OwnType
    BytesOf <- RolledBackBytes
    Oversized <- NoBodies
    Declaration <- MaybeCacheable
    Revalidator = "date"
    Statuses = {}
    FetchErrors = {"net"}
    OnConnectionError = TRUE
    On5xx = TRUE
    OnAnyError = FALSE
    HonorFreshness = TRUE
    FreshnessCap = 1
    Faults = {"put", "lateWrite", "lostReply", "touch"}
    Corpus <- NoCorpus
    CopyIsAtomic = TRUE
    Horizon = 1
SYMMETRY Symmetry
SPECIFICATION Spec
INVARIANTS LabelConsistent RedirectResolves
 
