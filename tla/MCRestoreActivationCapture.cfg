SPECIFICATION FairSpec
CONSTANTS
    N = 1
    Powers = {"application"}
    FaultKind <- OnlyCrash
    MaxFaults = 1
PROPERTY
    RecoverySettles
