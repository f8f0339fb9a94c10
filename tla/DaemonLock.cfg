SPECIFICATION LockSpec
CONSTANTS
    Pids = {p1, p2}
    NoFile = NoFile
    Empty = Empty
    MaxCrashes = 0
INVARIANT
    OneDaemon
CHECK_DEADLOCK FALSE
