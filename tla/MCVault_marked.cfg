CONSTANTS
    u1 = u1
    u2 = u2
    h1 = h1
    h2 = h2
    r1 = r1
    r2 = r2
    s1 = s1
    s2 = s2
    None = None
    Absent = Absent
    Torn = Torn
    Uri = {u1, u2}
    Hash = {h1, h2}
    RawId = {r1, r2}
    Slug = {s1, s2}
    RawIdOf <- MCRawIdOf
    SlugOf <- MCSlugOf
    Proc = {p1}
    Ops = {"ingest", "synthesize"}
    MaxRunning = 1
    Interrupts = FALSE
    MaxHistory = 3
    MaxCommands = 6
SPECIFICATION Spec
INVARIANT CompiledIsSynthesised
CHECK_DEADLOCK FALSE
