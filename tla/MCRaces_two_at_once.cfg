CONSTANTS
    Parts = {"vault", "index"}
    u1 = u1
    u2 = u2
    h1 = h1
    h2 = h2
    r1 = r1
    r2 = r2
    s1 = s1
    s2 = s2
    None = None
    Absent = Absent
    Torn = Torn
    Uri = {u1, u2}
    Hash = {h1, h2}
    RawId = {r1, r2}
    Slug = {s1, s2}
    RawIdOf <- MCRawIdOf
    SlugOf <- MCSlugOf
    Proc = {p1, p2}
    Ops = {"ingest", "tombstone", "compile", "synthesize"}
    MaxRunning = 2
    Interrupts = FALSE
    MaxHistory = 3
    MaxCommands = 4
    Docs = 2
    ContentOf <- MCContentOf
    MaxSections = 2
    Section = {"a", "b"}
    NoRow = NoRow
    Indexer = {x1}
    Exclusive = TRUE
    Limit = 1
SPECIFICATION RaceSpec
INVARIANT RecordedBlobExists
INVARIANT RecordedBlobIntact
INVARIANT TablesAgree
INVARIANT HashMeansEmbedded
PROPERTY ConsensusRespected
PROPERTY CatchesUp
CHECK_DEADLOCK FALSE
