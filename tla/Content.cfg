SPECIFICATION MCSpec
CONSTANTS
    Parses = {p1, p2}
    Slots = 1
    MaxAttempts = 2
    ItemSize = 100
    Target = 4
    Maximum = 5
    Overlap = 2
    BoundaryLevel = 1
    SectionLength = 7
    MaxRows = 2
    MaxTokens = 4
    Manifests = {{1, 2, 3}, {1, 2, 4}, {2}}
    BatchSize = 2
    MaxStages = 3
    Points = {1, 2, 3}
    Generations = {1, 2}
    TopK = 2
    RerankTopK = 1
    Bm25TopK = 3
    CorpusLimit = 3
    PageSize = 2
    RrfK = 60
    LongText = 2
    Threshold = 1
    MaxChanges = 1
    Inputs = 3
    BatchInputs = 2
    Timeout = 4
    MaxPause = 2
    RetryAfters = {0, 2, 3}
    MaxClock = 10
    Backoff <- TwoRetries
INVARIANTS
    PermitsMatchWork
    JoinedInSequence
    RecordsComplete
    OneManifest
    RetrievalHolds
    ProviderCallHolds
PROPERTIES
    
    ParseEnds
    PermitsReturn
CHECK_DEADLOCK FALSE
