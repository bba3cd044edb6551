SPECIFICATION Spec
CONSTANTS
    note = note
    check = check
    crawl = crawl
    Kind <- KindOf
    Pipeline <- CheckAndCrawl
    MaxJobs = 2
    MaxFaults = 2
INVARIANTS
    TypeOK
    CheckpointIsTrue
    EndsAreTrue
    HopIsIncremental
CHECK_DEADLOCK FALSE
