SPECIFICATION FairSpec
CONSTANTS
    N = 3
    Powers = {"compose", "application", "group"}
    FaultKind <- AllFaults
    MaxFaults = 4
INVARIANTS
    JournalCoversChanges
    OriginalDataKept
    NoMixedServing
    SettledIsTrue
    OneFinalizedResult
PROPERTY
    SignsAsAgreed
    CustodySettles
