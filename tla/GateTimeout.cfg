SPECIFICATION Spec
CONSTANTS
    Senders = {s1}
    Closers = {c1}
    Configs <- MCConfigs
    MaxAttempts = 5
    MaxSends = 1
INVARIANT
    TimeoutApproves
CHECK_DEADLOCK FALSE
