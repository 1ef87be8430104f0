CONSTANTS
    Parts = {"runner", "writer", "breaker", "fetch", "jobs"}
    Items = 5
    Limit = 3
    p1 = p1
    p2 = p2
    c1 = c1
    c2 = c2
    c3 = c3
    i1 = i1
    i2 = i2
    i3 = i3
    None = None
    Empty = Empty
    Garbled = Garbled
    Writer = {p1, p2}
    Content = {c1, c2, c3}
    Inode = {i1, i2, i3}
    Exclusive = TRUE
    Requester = {q1, q2}
    Threshold = 2
    ResetTimeout = 2
    CallLimit = 2
    Period = 2
    MaxTime = 5
    Ingest = {f1, f2}
    Pat = {k1, k2}
    NoPat = NoPat
    Retries = 1
    MaxSaves = 1
    Missing = Missing
    Sources = 1
    Page = {1, 2}
    Call = {t1, t2}
    MaxJobs = 2
    StartOver = TRUE
    BatchSize = 1
    Diff = TRUE
    Cap = 1
    MaxExpiries = 1
    Faults = TRUE
    Unreadable = {}
    Answers <- MCAnswers
    FixAnswers <- MCFixAnswers
SPECIFICATION PartsSpec
INVARIANT BoundedInFlight
INVARIANT OncePerItem
INVARIANT RequestsCarryTheRightToken
INVARIANT ResultMeetsItsJob
PROPERTY Ends
PROPERTY IsAtomic
PROPERTY CallsAreHeldBack
PROPERTY EveryIngestEnds
PROPERTY JobsReachDone
CHECK_DEADLOCK FALSE
