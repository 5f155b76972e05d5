SPECIFICATION MCSpec
CONSTANTS
    Asks = {r1, r2}
    Runs = {r1, r2}
    Callers = {r1, r2, o1}
    Sources = {s1, s2}
    Limit = 1
    MaxQueue = 1
    MaxTurns = 1
    MaxReferences = 1
    MaxChanges = 2
    StaleStatus = "failed"
    SweepLimit = 1
    MaxCrashes = 1
    l1 = l1
    h1 = h1
    Libraries = {l1, l2}
    Threads = {h1}
    ThreadLibrary <- ThreadOfLibrary
    Nowhere = nowhere
    MaxQuestions = 2
    MaxConversations = 2
    near = near
    far = far
    Records = {near, row, far, whole}
    Strong = {near, far}
    Labelled = {near, row, far}
    TableRows = {row, far}
    Attachable = {row, far}
    Outlines = {whole}
    Kin <- NearAndFar
    NoRecord = noRecord
    MaxRetrievals = 2
    MaxEvidence = 2
    RecursionLimit = 25
    t1 = t1
    t2 = t2
    name = name
    amount = amount
    RowKinds <- SmallRows
    RowCount <- TwoAndOne
    Key <- KeyOf
    KeyLength <- LengthOf
    Num <- NumberOf
    Empty = ""
    RowLimit = 1
    PreviewLimit = 1
    MaxEvidenceRows = 2
    ApiCalls = {a1, a2}
    PerMinute = 1
    NativeStatuses = {404, 422, 503}
INVARIANTS
    GateInv
    AnswersStayWithinReach
    NoLaundering
    PermitsAtWork
    RowsAccount
    TurnsFollowAttempts
    ConversationKept
    GraphAnswersFromEvidence
    AggregatesAreOfTheTable
    LookupsShowTheEntity
    ShownRowsAreCited
    ApiHolds
PROPERTIES
    RowsEndOnce
CONSTRAINT ChangesOrAborts
SYMMETRY Symmetry
CHECK_DEADLOCK FALSE
