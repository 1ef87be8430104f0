CONSTANTS
    a = a
    b = b
    Missing = Missing
    Page = {a, b}
    Sources = 2
    Window = 1
    MaxRuns = 2
    Faults = TRUE
    Fix = FALSE
    Responses <- MCResponses
    FixResponses <- MCFixResponses
SPECIFICATION PublishSpec
INVARIANT HeadIsClosed
CHECK_DEADLOCK FALSE
