CONSTANTS
    Parts = {"fetch"}
    Items = 5
    Limit = 3
    p1 = p1
    p2 = p2
    c1 = c1
    c2 = c2
    c3 = c3
    i1 = i1
    i2 = i2
    i3 = i3
    None = None
    Empty = Empty
    Garbled = Garbled
    Writer = {p1, p2}
    Content = {c1, c2, c3}
    Inode = {i1, i2, i3}
    Exclusive = TRUE
    Requester = {q1, q2}
    Threshold = 2
    ResetTimeout = 2
    CallLimit = 2
    Period = 2
    MaxTime = 5
    Ingest = {f1, f2, f3}
    Pat = {k1}
    NoPat = NoPat
    Retries = 0
    MaxSaves = 0
    Missing = Missing
    Sources = 1
    Page = {1, 2}
    Call = {t1, t2}
    MaxJobs = 2
    StartOver = TRUE
    BatchSize = 1
    Diff = TRUE
    Cap = 1
    MaxExpiries = 1
    Faults = TRUE
    Unreadable = {}
    Answers <- MCAnswers
    FixAnswers <- MCFixAnswers
SPECIFICATION PartsSpec
INVARIANT BreakerOpens
CHECK_DEADLOCK FALSE
