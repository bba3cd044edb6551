\* One action and two processes; a command while one person decides; two
\* jobs over two units, none of them struck.
CONSTANTS
    Actions = {a1}
    Procs = {p1, p2}
    NoAction = none
    BatchLimit = 1
    MaxFaults = 0
    Commands = {c1}
    People = {x}
    Nothing = nothing
    MaxDecisions = 2
    MaxStops = 1
    note = note
    check = check
    Kind <- KindOfUnit
    Pipeline <- NoteThenCheck
    MaxJobs = 2
    NoStop = 0
SPECIFICATION MCSpec
INVARIANTS TypesOK JobsAreTrue EventsInOrder
PROPERTY EverythingEnds
CHECK_DEADLOCK FALSE
