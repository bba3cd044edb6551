SPECIFICATION FairSpec
CONSTANTS
    Actions = {a1, a2}
    Procs = {p1}
    NoAction = none
    BatchLimit = 2
    MaxFaults = 1
PROPERTIES
    DecisionsLand
    LifecycleSpec
