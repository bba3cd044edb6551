CONSTANTS
    MaxSteps = 1
    MaxNoise = 0
    MaxFaults = 0
    MayDie = FALSE
    Held = FALSE
SPECIFICATION Spec
INVARIANT EndsRecorded
CHECK_DEADLOCK FALSE
