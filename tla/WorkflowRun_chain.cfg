SPECIFICATION Spec
CONSTANTS
    note = note
    check = check
    crawl = crawl
    Kind <- KindOf
    Pipeline <- CheckAndCrawl
    MaxJobs = 3
    MaxFaults = 0
CONSTRAINT OneAtATime
INVARIANT ChainIsIncremental
CHECK_DEADLOCK FALSE
