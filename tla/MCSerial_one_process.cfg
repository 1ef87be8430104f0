CONSTANTS
    Parts = {"vault", "compile", "prompt"}
    u1 = u1
    u2 = u2
    h1 = h1
    h2 = h2
    r1 = r1
    r2 = r2
    s1 = s1
    s2 = s2
    None = None
    Absent = Absent
    Torn = Torn
    Uri = {u1, u2}
    Hash = {h1, h2}
    RawId = {r1, r2}
    Slug = {s1, s2}
    RawIdOf <- MCRawIdOf
    SlugOf <- MCSlugOf
    Proc = {p1}
    Ops = {"ingest", "tombstone", "purge", "compile", "synthesize"}
    MaxRunning = 1
    Interrupts = TRUE
    MaxHistory = 3
    MaxCommands = 6
    a = a
    b = b
    Missing = Missing
    Page = {a, b}
    Sources = 3
    Window = 2
    MaxRuns = 2
    Faults = TRUE
    Fix = TRUE
    Responses <- MCResponses
    FixResponses <- MCFixResponses
    NoText = NoText
    Budget = 5
    CharsPerToken = 3
    MaxChars = 22
    MaxRelated = 3
    PageTokens = {0, 1, 2, 6}
    Marker <- MCMarker
    MarkerChars = 12
SPECIFICATION SerialSpec
INVARIANT DiskConsistent
INVARIANT BundleIsClosed
INVARIANT CommitIsWiki
INVARIANT MarkedIsApplied
INVARIANT ReportIsTrue
INVARIANT PromptFits
INVARIANT NothingCutNeedlessly
PROPERTY ImplementsLedger
PROPERTY NoRework
CHECK_DEADLOCK FALSE
