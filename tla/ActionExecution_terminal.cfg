SPECIFICATION Spec
CONSTANTS
    Actions = {a1}
    Procs = {p1, p2}
    NoAction = none
    BatchLimit = 1
    MaxFaults = 0
PROPERTY TerminalIsFinal
