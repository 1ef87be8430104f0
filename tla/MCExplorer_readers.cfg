CONSTANTS
    Parts = {"graph", "explorer"}
    File <- MCFile
    SlugOf <- MCSlugOf
    KindOf <- MCKindOf
    NoFile = NoFile
    RawFile = {6}
    Wikis <- MCWikis
    ExactMax = 8
    Pivots = 2
    Scale = 12
    Walk <- MCWalk
    Texts <- MCTexts
    Raw = {6}
    Blob = {b1, b2}
    RawIdOf <- MCRawIdOf
    Session = {s1}
    Server = {e1, e2}
    Call = {c1, c2}
    Refresh = {r1, r2}
    Nobody = Nobody
    MaxWrites = 2
SYMMETRY MCSymmetry
SPECIFICATION ReaderSpec
INVARIANT BetweennessIsExact
INVARIANT ArticulationIsCut
INVARIANT LintAgreesWithGraph
INVARIANT RunningIsListed
INVARIANT RefreshIsKept
INVARIANT HitsOpen
INVARIANT LinksOpen
CHECK_DEADLOCK FALSE
