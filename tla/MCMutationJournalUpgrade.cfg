SPECIFICATION Spec
CONSTANTS
    p1 = p1
    p2 = p2
    p3 = p3
    u1 = u1
    u2 = u2
    r1 = r1
    Proc <- Processes
    Op <- UpgradeOps
    Kind <- UpgradeKinds
    HistoryLimit = 6
    MaxGroups = 0
    LegacyPrior = TRUE
SYMMETRY Symmetry
INVARIANTS
    LinearHistory
    OneUnsettledOperation
    JoinedChildExclusive
    RecoveryReaches
PROPERTY
    ImplementsAuthority
    SignsAsAgreed
    UnreadableFailsClosed
CHECK_DEADLOCK FALSE
