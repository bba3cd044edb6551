CONSTANTS
    e1 = e1
    e2 = e2
    f1 = f1
    f2 = f2
    c1 = c1
    c2 = c2
    Candidates = {c1, c2}
    Findings = {f1, f2, f3, f4, f5, f6}
    Artifacts = {e1, e2, e3, e4, e5, e6}
    Procs = {p1, p2}
    None = None
    MaxCommands = 2
    MaxStops = 1
SPECIFICATION MCSpec
SYMMETRY Symmetry
INVARIANTS TypeOK EvidenceStays CandidateCanBePromoted ReportsAreBacked
PROPERTY RejectionRespected
CHECK_DEADLOCK FALSE
