\* The checks of a hunt, and how often they ask a host.
CONSTANTS
    Labels = {"com", "x", "api"}
    Segments = {"", "app", "App", "v"}
    None = none
    Lower <- LowerOf
    Procs = {p1, p2}
    URLs <- SomeURLs
    Rules <- SomeRules
    MaxRedirects = 2
    Interval = 2
    MaxTime = 4
    MaxScripts = 1
    Lab = TRUE
SPECIFICATION MCSpec
INVARIANT EveryRequestIsPaced
CHECK_DEADLOCK FALSE
