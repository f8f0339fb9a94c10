SPECIFICATION FairSpec
CONSTANTS
    Senders = {s1, s2}
    Closers = {c1}
    Configs <- MCConfigs
    MaxAttempts = 2
    MaxSends = 3
INVARIANTS
    TypeOK
    NeverBlocks
    PassesOnlyOnWord
PROPERTIES
    GateKeepsLedger
    TimedGateEnds
    AcceptedCloseEnds
CHECK_DEADLOCK FALSE
