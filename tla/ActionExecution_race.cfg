SPECIFICATION Spec
CONSTANTS
    Actions = {a1}
    Procs = {p1, p2}
    NoAction = none
    BatchLimit = 2
    MaxFaults = 1
SYMMETRY Symmetry
INVARIANTS
    TypeOK
    ApprovedBeforeRun
    ExecutedWasFinished
    RefusalStands
    OnRecord
    OnceAndForAll
