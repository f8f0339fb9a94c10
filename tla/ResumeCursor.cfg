SPECIFICATION RunSpec
CONSTANTS
    Pipes <- BatchOnly
    Elements = 2
    MaxIter = 2
    MaxTries = 2
    MaxFaults = 0
    MaxResumes = 1
    Absent = Absent
PROPERTY
    ResumeContinues
CHECK_DEADLOCK FALSE
