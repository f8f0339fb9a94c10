SPECIFICATION FairSpec
CONSTANTS
    Senders = {s1}
    Closers = {c1}
    Configs <- WebConfigs
    MaxAttempts = 2
    MaxSends = 1
PROPERTY
    CancelEndsGate
CHECK_DEADLOCK FALSE
