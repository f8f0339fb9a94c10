SPECIFICATION FairRunSpec
CONSTANTS
    Pipes <- AllPipes
    Elements = 2
    MaxIter = 2
    MaxTries = 2
    MaxFaults = 2
    MaxResumes = 1
    Absent = Absent
INVARIANTS
    RTypeOK
    JournalIsHonest
    NoLeak
    AggregatesAreOutputs
    BarrierHolds
    
PROPERTIES
    SkippedHaveOutputs
    RunKeepsLedger
    RunEnds
CHECK_DEADLOCK FALSE
