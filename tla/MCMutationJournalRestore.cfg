SPECIFICATION Spec
CONSTANTS
    p1 = p1
    p2 = p2
    p3 = p3
    u1 = u1
    u2 = u2
    r1 = r1
    Proc <- TwoProcesses
    Op <- RestoreOps
    Kind <- RestoreKinds
    HistoryLimit = 11
    MaxGroups = 1
    LegacyPrior = TRUE
SYMMETRY Symmetry
PROPERTY
    SettledIsFinal
    ImplementsAuthority
CHECK_DEADLOCK FALSE
