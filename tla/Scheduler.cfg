SPECIFICATION SchedulerSpec
CONSTANTS
    plain = plain
    chaser = chaser
    Jobs = {plain, chaser}
    MaxTime = 3
    ClaimAge = 2
    Horizon = 2
    NoKey = NoKey
    Slots <- MCSlots
    Overlap <- MCOverlap
    CatchUp = {chaser}
    Lead = 0
    Pids = {p1, p2}
    NoPid = NoPid
    NoRun = NoRun
    MaxRestarts = 1
SYMMETRY PidSymmetry
INVARIANTS
    STypeOK
    DurableBeforeWork
    
PROPERTIES
    
    SlotsAreHonoured
CHECK_DEADLOCK FALSE
