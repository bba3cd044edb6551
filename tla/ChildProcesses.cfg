\* A call or session of up to three steps; one run that races the approvals of its
\* program, or two at once.
CONSTANTS
    MaxSteps = 3
    MaxNoise = 1
    MaxFaults = 1
    MayDie = TRUE
    Held = FALSE
    r1 = r1
    r2 = r2
    p = p
    c1 = c1
    Runs = {r1, r2}
    People = {x, y}
    Programs = {p}
    Contents = {c1, c2}
    Nobody = nobody
    MaxApprovals = 2
    MaxEdits = 1
SPECIFICATION PartsSpec
INVARIANTS TypesOK AskedInOrder RunIsOfApproved  NoChildLeft
PROPERTY CallsSettle
CHECK_DEADLOCK FALSE
