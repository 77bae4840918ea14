SPECIFICATION FairSpec
CONSTANTS
    N = 3
    Writers = {"application", "store"}
    Receipts = {"retained", "in-process"}
    MaxFaults = 4
INVARIANTS
    QuietWhileCopying
    SentOnceInTurn
    InitialPowerRestored
PROPERTY
    ControlsSettle
CHECK_DEADLOCK FALSE
