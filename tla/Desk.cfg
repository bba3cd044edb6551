CONSTANTS
    None = None
    MaxCommands = 3
    Procs = {p1, p2}
    MaxStops = 1
    t1 = t1
    s1 = s1
    s2 = s2
    Terminals = {t1, t2}
    Sessions = {s1, s2}
    Files = {x1}
    Kept = 2
    Undoable = 1
    MaxKeys = 4
    MaxCrashes = 1
    Providers = {i1, i2, i3}
    Local = {i3}
    MaxFound = 2
    Nobody = nobody
    Ids = {i1, i2}
    Catalogued = {i1}
    Enabling = {"key", "env", "plain"}
    Disabling = {"local"}
    Builders = {b1, b2}
    Texts = {1, 2}
    MaxBuilds = 2
    MaxEdits = 1
    MaxFaults = 1
    Other = "release"
    MaxCommits = 2
    MaxMeddling = 3
SPECIFICATION MCSpec
INVARIANTS TypeOK SessionsStayApart KeysFindTheirTarget SettledStays VerifyTells
 
CHECK_DEADLOCK FALSE
