SPECIFICATION MCSpec
CONSTANTS
    MaxJobs = 3
    DispatchLimit = 1
    ReconcileLimit = 2
    MaxCancels = 1
    Malformed = {1}
    MaxFaults = 1
    Docs = {d1, d2}
    Refreshers = {f1}
    MaxDeletes = 2
    MaxLibraryFaults = 1
    Workers = {w1, w2}
    RecoveryCycles = 2
    MaxAttempts = 2
    MaxTransitions = 3
    MaxLate = 1
    c1 = c1
    c2 = c2
    c3 = c3
    Requests = {q1, q2}
    MaxVersions = 3
    MaxSourceFaults = 2
    Calls = {k1, k2}
    pw1 = pw1
    Passwords = {pw1, pw2}
    MaxFailed = 2
    PerAccount = 1
    MaxInvites = 2
INVARIANTS
    SourcesKept
    AccountsHold
    NothingOutlives
    AlertAnnounced
PROPERTIES
    JobsEnd
    LibraryDeleteEnds
    DeliveriesEndOnce
    DeliveriesEnd
    WaitingEnds
CHECK_DEADLOCK FALSE
