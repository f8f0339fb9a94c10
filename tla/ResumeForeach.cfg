SPECIFICATION RunSpec
CONSTANTS
    Pipes <- ChainOnly
    Elements = 2
    MaxIter = 2
    MaxTries = 2
    MaxFaults = 0
    MaxResumes = 1
    Absent = Absent
INVARIANT
    SkippedAreWhole
CHECK_DEADLOCK FALSE
