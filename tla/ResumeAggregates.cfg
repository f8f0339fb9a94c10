SPECIFICATION RunSpec
CONSTANTS
    Pipes <- SummedOnly
    Elements = 2
    MaxIter = 2
    MaxTries = 2
    MaxFaults = 0
    MaxResumes = 1
    Absent = Absent
INVARIANT
    ChainAggregates
CHECK_DEADLOCK FALSE
