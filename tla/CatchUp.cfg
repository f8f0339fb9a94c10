SPECIFICATION SchedulerSpec
CONSTANTS
    plain = plain
    chaser = chaser
    Jobs = {plain, chaser}
    MaxTime = 4
    ClaimAge = 2
    Horizon = 2
    NoKey = NoKey
    Slots <- MCSlots
    Overlap <- MCOverlap
    CatchUp = {chaser}
    Lead = 0
    Pids = {p1, p2}
    NoPid = NoPid
    NoRun = NoRun
    MaxRestarts = 0
SYMMETRY PidSymmetry
PROPERTIES
    SkippedHasRun
CHECK_DEADLOCK FALSE
